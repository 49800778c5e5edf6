------------------------------- MODULE ZModem -------------------------------
(***************************************************************************)
(* The Z-Modem engine of zmodem.py: sessions of ZModem.send() at one end   *)
(* of a line and ZModem.receive() at the other, over files that stay on    *)
(* the receiver's disk from one session to the next.  Each action is what  *)
(* one coroutine does with the header or subpacket it reads, or when the   *)
(* read times out, up to its next read.                                    *)
(*                                                                         *)
(* The line carries whole headers and subpackets in order, and may lose or *)
(* damage them; the CRCs are ideal.  A byte of a file is its place in it.  *)
(* This sender ends its subpackets with ZCRCG and ZCRCE only; ZCRCW and    *)
(* ZCRCQ amid the data, which other senders use, are left out.             *)
(***************************************************************************)
EXTENDS Naturals, Sequences, FiniteSets

CONSTANTS
  Sizes,        \* size of each file of the batch
  Dest,         \* base name of each file: the receiver's path
  SubSize,      \* _SUBPACKET_SIZE
  OffsetMod,    \* offsets wrap at this value: 2^32 in the code
  RetryLimit,   \* retry_limit
  FwdFaults,    \* what the line may do on the way to the receiver
  RevFaults,    \* what it may do on the way back
  Foreign,      \* headers that programs other than this one may send
  MaxFaults,    \* bound: faults of the line in a session
  MaxLate,      \* bound: timers that expire while an answer is on its way
  MaxSessions   \* bound: sessions

NFiles == Len(Sizes)
Names  == {Dest[f] : f \in 1..NFiles}

ASSUME ConstantsAssumption ==
  /\ Sizes \in Seq(Nat)
  /\ Dest \in [1..NFiles -> STRING]
  /\ SubSize \in Nat \ {0}
  /\ OffsetMod \in Nat \ {0}
  /\ RetryLimit \in Nat \ {0}
  /\ FwdFaults \subseteq {"lose", "damage"}
  /\ RevFaults \subseteq {"lose", "damage"}
  /\ Foreign \subseteq {"ZSKIP", "ZABORT", "ZCAN"}
  /\ MaxFaults \in Nat
  /\ MaxLate \in Nat
  /\ MaxSessions \in Nat

VARIABLES
  sphase,    \* where send() is
  sfile,     \* index of the file it is sending
  attempt,   \* attempt of the retry loop it is in
  rphase,    \* where receive() is
  rfile,     \* the file it is receiving, 0 between files
  base,      \* its length when it was opened: resume_offset
  disk,      \* what is in the output directory, by name
  received,  \* files receive() has closed in this session
  skipped,   \* files the receiver refused in this session
  fwd,       \* line from sender to receiver
  rev,       \* line from receiver to sender
  faults,    \* faults of the line in this session
  late,      \* timers that fired early in this session
  sessions   \* sessions begun

senderVars   == <<sphase, sfile, attempt>>
receiverVars == <<rphase, rfile, base, disk, received>>
boundVars    == <<faults, late, sessions>>
vars == <<senderVars, receiverVars, skipped, fwd, rev, boundVars>>

\* How a coroutine ends: it returns, raises, or its connection is cut.
Failures == {"timeout", "protocol", "no ZRPOS", "no ZRINIT", "cancelled"}
Final    == {"returned", "cut"} \cup Failures

-----------------------------------------------------------------------------
(* Headers and subpackets *)

HeaderTypes == {"ZRQINIT", "ZRINIT", "ZFILE", "ZRPOS", "ZDATA", "ZEOF",
                "ZACK", "ZFIN", "ZSKIP", "ZABORT", "ZCAN"}
DataTypes   == {"ZCRCG", "ZCRCE"}

\* _encode_offset, and the shifts that undo it.
Offset(n) == n % OffsetMod

\* A header; only ZRPOS, ZDATA and ZEOF carry a position.
Positioned(t, n) == [type |-> t, file |-> 0, from |-> Offset(n), to |-> 0, ok |-> TRUE]
Header(t) == Positioned(t, 0)

\* ZFILE's subpacket, and a subpacket with bytes a..b of file f.
Info(f)         == [type |-> "INFO", file |-> f, from |-> 0, to |-> 0, ok |-> TRUE]
Data(f, a, b, t) == [type |-> t, file |-> f, from |-> a, to |-> b, ok |-> TRUE]

Byte(f, i)      == <<f, i>>
Bytes(f, a, b)  == [i \in 1..(b + 1 - a) |-> Byte(f, a - 1 + i)]
FileBytes(f)    == Bytes(f, 1, Sizes[f])

-----------------------------------------------------------------------------
(* Timers.  Both ends wait `timeout` seconds. *)

\* Both ends run, and nothing is on its way to one that still reads.
Quiet ==
  /\ sphase # "start" /\ rphase # "start"
  /\ fwd = <<>> \/ rphase \in Final
  /\ rev = <<>> \/ sphase \in Final

\* A timer expires: in silence, or while an answer is still coming.
TimerFires ==
  \/ Quiet /\ UNCHANGED late
  \/ ~Quiet /\ late < MaxLate /\ late' = late + 1

-----------------------------------------------------------------------------
(* Sender *)

SenderEnds(how) == sphase' = how /\ UNCHANGED <<sfile, attempt, fwd>>

\* send() begins: ZRQINIT is written.
SenderStart ==
  /\ sphase = "start"
  /\ sphase' = "init"
  /\ fwd' = Append(fwd, Header("ZRQINIT"))
  /\ UNCHANGED <<sfile, attempt, receiverVars, skipped, rev, boundVars>>

\* The loop over the files goes to file f: ZFILE with its subpacket, or ZFIN
\* after the last one.
GoTo(f) ==
  /\ sfile' = f
  /\ attempt' = 0
  /\ \/ /\ f <= NFiles
        /\ sphase' = "zrpos"
        /\ fwd' = fwd \o <<Header("ZFILE"), Info(f)>>
     \/ /\ f > NFiles
        /\ sphase' = "fin"
        /\ fwd' = Append(fwd, Header("ZFIN"))

\* Faulty: the last subpacket not told apart.
TermOpen(k, n) == "ZCRCG"

\* What ends the k-th of n subpackets.
Term(k, n) == IF k = n THEN "ZCRCE" ELSE "ZCRCG"

\* Subpackets that _send_file writes from offset on: all of SubSize but the
\* last; none when there is nothing left.
Subpackets(f, offset) ==
  LET left   == IF Sizes[f] > offset THEN Sizes[f] - offset ELSE 0
      n      == (left + SubSize - 1) \div SubSize
      End(k) == IF k = n THEN Sizes[f] ELSE offset + k * SubSize
  IN [k \in 1..n |-> Data(f, offset + (k - 1) * SubSize + 1, End(k), Term(k, n))]

\* Faulty: stream.seek() forgotten.
StreamFromStart(f, offset) ==
  << Positioned("ZDATA", offset) >> \o Subpackets(f, 0)
    \o << Positioned("ZEOF", offset) >>

\* The file from offset on, without waiting for anything.
Stream(f, offset) ==
  LET sent == IF Sizes[f] > offset THEN Sizes[f] ELSE offset
  IN << Positioned("ZDATA", offset) >> \o Subpackets(f, offset)
       \o << Positioned("ZEOF", sent) >>

\* Faulty: the attempts not counted; one too many; no raise after the last.
AttemptUncounted(failure) == attempt' = 1 /\ UNCHANGED sphase
AttemptTooMany(failure) ==
  \/ attempt < RetryLimit /\ attempt' = attempt + 1 /\ UNCHANGED sphase
  \/ attempt >= RetryLimit /\ sphase' = failure /\ UNCHANGED attempt
AttemptForgiven(failure) ==
  \/ attempt + 1 < RetryLimit /\ attempt' = attempt + 1 /\ UNCHANGED sphase
  \/ attempt + 1 >= RetryLimit /\ sphase' = "returned" /\ UNCHANGED attempt

\* The next attempt of a retry loop, or its failure.
NextAttempt(failure) ==
  \/ /\ attempt + 1 < RetryLimit
     /\ attempt' = attempt + 1
     /\ UNCHANGED sphase
  \/ /\ attempt + 1 >= RetryLimit
     /\ sphase' = failure
     /\ UNCHANGED attempt

\* send() reads its first header.
AwaitZrinit ==
  /\ sphase = "init"
  /\ \/ Head(rev).type = "ZRINIT" /\ GoTo(1)
     \/ Head(rev).type # "ZRINIT" /\ SenderEnds("protocol")
  /\ UNCHANGED skipped

\* _send_file, waiting for ZRPOS.  Any other header uses up an attempt.
AwaitZrpos ==
  LET h == Head(rev)
  IN /\ sphase = "zrpos"
     /\ \/ /\ h.type = "ZRPOS"
           /\ sphase' = "eof"
           /\ attempt' = 0
           /\ fwd' = fwd \o Stream(sfile, h.from)
           /\ UNCHANGED <<sfile, skipped>>
        \/ /\ h.type = "ZSKIP"
           /\ GoTo(sfile + 1)
           /\ skipped' = skipped \cup {sfile}
        \/ /\ h.type = "ZABORT"
           /\ SenderEnds("cancelled")
           /\ UNCHANGED skipped
        \/ /\ h.type \notin {"ZRPOS", "ZSKIP", "ZABORT"}
           /\ NextAttempt("no ZRPOS")
           /\ UNCHANGED <<sfile, fwd, skipped>>

\* Headers taken for the answer to ZEOF.
Confirms(t) == t \in {"ZRINIT", "ZACK"}

\* _send_file, waiting for the answer to ZEOF.
AwaitConfirmation ==
  LET h == Head(rev)
  IN /\ sphase = "eof"
     /\ \/ Confirms(h.type) /\ GoTo(sfile + 1)
        \/ h.type \in {"ZABORT", "ZCAN"} /\ SenderEnds("cancelled")
        \/ /\ ~Confirms(h.type) /\ h.type \notin {"ZABORT", "ZCAN"}
           /\ NextAttempt("no ZRINIT")
           /\ UNCHANGED <<sfile, fwd>>
     /\ UNCHANGED skipped

\* _read_header raises ProtocolError, which only the wait for ZFIN survives; a
\* digit of the CRC that is none raises ValueError, which nothing does.
SenderReads ==
  /\ rev # <<>>
  /\ rev' = Tail(rev)
  /\ \/ Head(rev).ok /\ (AwaitZrinit \/ AwaitZrpos \/ AwaitConfirmation)
     \/ /\ ~Head(rev).ok
        /\ sphase \in {"init", "zrpos", "eof", "fin"}
        /\ SenderEnds("protocol")
        /\ UNCHANGED skipped
     \/ sphase = "fin" /\ SenderEnds("returned") /\ UNCHANGED skipped
  /\ UNCHANGED <<receiverVars, boundVars>>

\* A header read times out.  The wait for ZRPOS repeats ZFILE when this is
\* its first attempt.
SenderTimeout ==
  /\ TimerFires
  /\ \/ sphase = "init" /\ SenderEnds("timeout")
     \/ /\ sphase = "zrpos"
        /\ NextAttempt("no ZRPOS")
        /\ \/ /\ attempt = 0
              /\ fwd' = fwd \o <<Header("ZFILE"), Info(sfile)>>
           \/ attempt > 0 /\ UNCHANGED fwd
        /\ UNCHANGED sfile
     \/ sphase = "eof" /\ NextAttempt("no ZRINIT") /\ UNCHANGED <<sfile, fwd>>
     \/ sphase = "fin" /\ SenderEnds("returned")
  /\ UNCHANGED <<receiverVars, skipped, rev, faults, sessions>>

-----------------------------------------------------------------------------
(* Receiver *)

Reply(h) == rev' = Append(rev, h)
Ignore   == UNCHANGED <<rphase, rfile, base, disk, received, rev>>

\* receive() raises; the file it has open is closed, with what it holds.
ReceiverEnds(how) == rphase' = how /\ UNCHANGED <<rfile, base, disk, received, rev>>

\* receive() begins: ZRINIT is written unasked.
ReceiverStart ==
  /\ rphase = "start"
  /\ rphase' = "main"
  /\ Reply(Header("ZRINIT"))
  /\ UNCHANGED <<rfile, base, disk, received, senderVars, skipped, fwd, boundVars>>

\* The loop of receive() reads a header.
ReceiveHeader(h) ==
  /\ rphase = "main"
  /\ \/ h.type = "ZRQINIT" /\ Reply(Header("ZRINIT"))
          /\ UNCHANGED <<rphase, rfile, base, disk, received>>
     \/ h.type = "ZFIN" /\ rphase' = "returned" /\ Reply(Header("ZFIN"))
          /\ UNCHANGED <<rfile, base, disk, received>>
     \/ h.type = "ZFILE" /\ rphase' = "info"
          /\ UNCHANGED <<rfile, base, disk, received, rev>>
     \/ h.type \in {"ZABORT", "ZCAN"} /\ ReceiverEnds("cancelled")
     \/ h.type \notin {"ZRQINIT", "ZFIN", "ZFILE", "ZABORT", "ZCAN"} /\ Ignore

\* Faulty: always opened with "wb".
OpenedAfresh(d, n) == [d EXCEPT ![n] = <<>>]

\* open(dest, "ab" if resume_offset else "wb")
Opened(d, n) == IF Len(d[n]) > 0 THEN d ELSE [d EXCEPT ![n] = <<>>]

\* ZFILE's subpacket: ask for the file from the end of what is there, open it.
ReceiveInfo(t) ==
  /\ rphase = "info"
  /\ t.type = "INFO"
  /\ rphase' = "file"
  /\ rfile' = t.file
  /\ base' = Len(disk[Dest[t.file]])
  /\ disk' = Opened(disk, Dest[t.file])
  /\ Reply(Positioned("ZRPOS", base'))
  /\ UNCHANGED received

\* _receive_file_data reads a header; ZEOF closes the file, and receive()
\* says so and asks for the next one.
ReceiveFileHeader(h) ==
  /\ rphase = "file"
  /\ \/ /\ h.type = "ZEOF"
        /\ rphase' = "main"
        /\ received' = received \cup {rfile}
        /\ rfile' = 0 /\ base' = 0
        /\ rev' = rev \o <<Header("ZACK"), Header("ZRINIT")>>
        /\ UNCHANGED disk
     \/ h.type = "ZDATA" /\ rphase' = "data"
          /\ UNCHANGED <<rfile, base, disk, received, rev>>
     \/ h.type \in {"ZABORT", "ZCAN"} /\ ReceiverEnds("cancelled")
     \/ h.type \notin {"ZEOF", "ZDATA", "ZABORT", "ZCAN"} /\ Ignore

\* _receive_file_data reads a subpacket: written as it comes.
ReceiveData(t) ==
  /\ rphase = "data"
  /\ t.type \in DataTypes
  /\ disk' = [disk EXCEPT ![Dest[rfile]] = @ \o Bytes(t.file, t.from, t.to)]
  /\ rphase' = IF t.type = "ZCRCE" THEN "file" ELSE "data"
  /\ UNCHANGED <<rfile, base, received, rev>>

\* Where a header is wanted a subpacket is a ProtocolError: the ZDLE found in
\* it is followed by no header format.  A bad CRC is one, too.
ReceiveUnexpected(t) ==
  /\ rphase \in {"main", "file"}
  /\ ~t.ok \/ t.type \notin HeaderTypes
  /\ ReceiverEnds("protocol")

\* Where a subpacket is wanted a header is taken for the beginning of its
\* data, and whatever ends the subpacket fails its CRC.  So does a subpacket
\* that lost its end, when another one ends.
ReceiveIntoSubpacket(t) ==
  /\ rphase \in {"info", "data", "garbled"}
  /\ \/ /\ t.type \in HeaderTypes \/ ~t.ok
        /\ rphase' = "garbled"
        /\ UNCHANGED <<rfile, base, disk, received, rev>>
     \/ /\ t.type \notin HeaderTypes
        /\ ~t.ok \/ rphase = "garbled"
        /\ ReceiverEnds("protocol")

ReceiverReads ==
  /\ fwd # <<>>
  /\ fwd' = Tail(fwd)
  /\ LET t == Head(fwd)
     IN \/ /\ t.ok
           /\ \/ t.type \in HeaderTypes /\ (ReceiveHeader(t) \/ ReceiveFileHeader(t))
              \/ ReceiveInfo(t) \/ ReceiveData(t)
        \/ ReceiveUnexpected(t) \/ ReceiveIntoSubpacket(t)
  /\ UNCHANGED <<senderVars, skipped, boundVars>>

\* Any read of receive() that times out ends it: TransferTimeout from a
\* header's, asyncio.TimeoutError from a subpacket's.
ReceiverTimeout ==
  /\ TimerFires
  /\ rphase \in {"main", "info", "file", "data", "garbled"}
  /\ ReceiverEnds("timeout")
  /\ UNCHANGED <<senderVars, skipped, fwd, faults, sessions>>

-----------------------------------------------------------------------------
(* The line, the programs of other makes, and what cuts a session short *)

Fault == faults < MaxFaults /\ faults' = faults + 1 /\ UNCHANGED <<late, sessions>>

\* What the line may lose.  The loss of a whole subpacket is left out: the
\* receiver looks at no offset, neither ZDATA's nor ZEOF's, and may not notice.
Losable(t) == t.type \in HeaderTypes

ForwardFault ==
  /\ Fault
  /\ fwd # <<>>
  /\ rphase \notin Final
  /\ \/ "lose" \in FwdFaults /\ Losable(Head(fwd)) /\ fwd' = Tail(fwd)
     \/ /\ "damage" \in FwdFaults /\ Head(fwd).ok
        /\ fwd' = << [Head(fwd) EXCEPT !.ok = FALSE] >> \o Tail(fwd)
  /\ UNCHANGED <<senderVars, receiverVars, skipped, rev>>

ReverseFault ==
  /\ Fault
  /\ rev # <<>>
  /\ sphase \notin Final
  /\ \/ "lose" \in RevFaults /\ rev' = Tail(rev)
     \/ /\ "damage" \in RevFaults /\ Head(rev).ok
        /\ rev' = << [Head(rev) EXCEPT !.ok = FALSE] >> \o Tail(rev)
  /\ UNCHANGED <<senderVars, receiverVars, skipped, fwd>>

\* A receiver of another make does not want the file.
ForeignSkip ==
  /\ "ZSKIP" \in Foreign
  /\ rphase = "info"
  /\ fwd # <<>> /\ Head(fwd).ok /\ Head(fwd).type = "INFO"
  /\ fwd' = Tail(fwd)
  /\ rphase' = "main"
  /\ Reply(Header("ZSKIP"))
  /\ UNCHANGED <<rfile, base, disk, received, senderVars, skipped, boundVars>>

\* A program of another make gives up, and says so.
ForeignAbort ==
  /\ Fault
  /\ \E t \in Foreign \cap {"ZABORT", "ZCAN"} :
       \/ /\ rphase \in {"main", "file"}
          /\ rphase' = "cancelled"
          /\ Reply(Header(t))
          /\ UNCHANGED <<sphase, fwd>>
       \/ /\ sphase \in {"init", "zrpos", "eof"}
          /\ sphase' = "cancelled"
          /\ fwd' = Append(fwd, Header(t))
          /\ UNCHANGED <<rphase, rev>>
  /\ UNCHANGED <<sfile, attempt, rfile, base, disk, received, skipped>>

\* receive() holds a file open.
Open == rphase \in {"file", "data", "garbled"} /\ rfile # 0

\* The connection drops, or a process dies.  With the receiver's dies what
\* its file object had not yet written out.
Cut ==
  /\ sphase \notin Final \/ rphase \notin Final
  /\ sphase' = IF sphase \in Final THEN sphase ELSE "cut"
  /\ rphase' = IF rphase \in Final THEN rphase ELSE "cut"
  /\ fwd' = <<>> /\ rev' = <<>>
  /\ \/ UNCHANGED disk
     \/ /\ Open
        /\ \E k \in base..Len(disk[Dest[rfile]]) :
             disk' = [disk EXCEPT ![Dest[rfile]] = SubSeq(@, 1, k)]
  /\ sessions < MaxSessions
  /\ UNCHANGED <<sfile, attempt, rfile, base, received, skipped, boundVars>>

\* The receiver dies after it has written ZACK for a file that it has not yet
\* closed.  The sender hears of nothing but the ZACK.
DieBeforeClose ==
  /\ sessions < MaxSessions
  /\ rphase = "file"
  /\ fwd # <<>> /\ Head(fwd).ok /\ Head(fwd).type = "ZEOF"
  /\ fwd' = Tail(fwd)
  /\ Reply(Header("ZACK"))
  /\ rphase' = "cut"
  /\ \E k \in base..Len(disk[Dest[rfile]]) :
       disk' = [disk EXCEPT ![Dest[rfile]] = SubSeq(@, 1, k)]
  /\ UNCHANGED <<senderVars, rfile, base, received, skipped, boundVars>>

SessionOver == sphase \in Final /\ rphase \in Final

\* The same batch again, to the same directory.
Restart ==
  /\ SessionOver
  /\ sessions < MaxSessions
  /\ sessions' = sessions + 1
  /\ sphase' = "start" /\ sfile' = 0 /\ attempt' = 0
  /\ rphase' = "start" /\ rfile' = 0 /\ base' = 0
  /\ received' = {} /\ skipped' = {}
  /\ fwd' = <<>> /\ rev' = <<>>
  /\ faults' = 0 /\ late' = 0
  /\ UNCHANGED disk

-----------------------------------------------------------------------------

Init ==
  /\ sphase = "start" /\ sfile = 0 /\ attempt = 0
  /\ rphase = "start" /\ rfile = 0 /\ base = 0
  /\ disk = [n \in Names |-> <<>>]
  /\ received = {} /\ skipped = {}
  /\ fwd = <<>> /\ rev = <<>>
  /\ faults = 0 /\ late = 0 /\ sessions = 1

Next ==
  \/ SenderStart \/ SenderReads \/ SenderTimeout
  \/ ReceiverStart \/ ReceiverReads \/ ReceiverTimeout
  \/ ForwardFault \/ ReverseFault
  \/ ForeignSkip \/ ForeignAbort
  \/ Cut \/ DieBeforeClose \/ Restart

Spec == Init /\ [][Next]_vars

\* Both coroutines are scheduled and asyncio.wait_for() does expire; nobody
\* owes a fault, an early timer, a crash or another session.
Fairness ==
  /\ WF_vars(SenderStart) /\ WF_vars(ReceiverStart)
  /\ WF_vars(SenderReads) /\ WF_vars(ReceiverReads)
  /\ WF_vars(Quiet /\ SenderTimeout)
  /\ WF_vars(Quiet /\ ReceiverTimeout)

FairSpec == Spec /\ Fairness

-----------------------------------------------------------------------------
(* Properties *)

Types == HeaderTypes \cup DataTypes \cup {"INFO"}

\* Every variable stays in its type, and the retry loops in their limit.
TypeOK ==
  /\ sphase \in {"start", "init", "zrpos", "eof", "fin"} \cup Final
  /\ sfile \in 0..(NFiles + 1)
  /\ attempt \in 0..(RetryLimit - 1)
  /\ rphase \in {"start", "main", "info", "file", "data", "garbled"} \cup Final
  /\ rfile \in 0..NFiles
  /\ base \in Nat
  /\ disk \in [Names -> Seq((1..NFiles) \X Nat)]
  /\ received \subseteq 1..NFiles
  /\ skipped \subseteq 1..NFiles
  /\ \A i \in 1..Len(fwd) : fwd[i].type \in Types
  /\ \A i \in 1..Len(rev) : rev[i].type \in HeaderTypes
  /\ faults \in 0..MaxFaults
  /\ late \in 0..MaxLate
  /\ sessions \in 1..(MaxSessions + 1)

\* A session that fails has a cause other than the program itself: a fault, a
\* timer that ran ahead, the death of the receiver, or a file of which nothing was left to send
\* (_send_file writes ZDATA and no subpacket, and _receive_file_data waits
\* for one).
FailsForCause ==
  sphase \in Failures \/ rphase \in Failures =>
    \/ faults > 0 \/ late > 0 \/ rphase = "cut"
    \/ rfile # 0 /\ base >= Sizes[rfile]

\* Without that last excuse: whatever a session left behind, the next one can
\* resume ("Crash recovery: resume interrupted transfers from last confirmed
\* byte", ROADMAP).
CleanSessionSucceeds ==
  sphase \in Failures \/ rphase \in Failures =>
    faults > 0 \/ late > 0 \/ rphase = "cut"

\* send() returns only when each file has been received, whole, or refused,
\* but for one: the last, when the receiver died with it unclosed, its ZACK
\* written (_receive_file_data), and nobody answered ZFIN.
SenderKnows ==
  sphase = "returned" =>
    \A f \in 1..NFiles :
      \/ f \in received \cup skipped
      \/ f = NFiles /\ rphase = "cut" /\ rfile = f

\* The receiver's disk, as its user sees it.
Promise == INSTANCE Downloads WITH
  Files <- 1..NFiles,
  Contents <- [f \in 1..NFiles |-> FileBytes(f)],
  disk <- [f \in 1..NFiles |-> disk[Dest[f]]],
  safe <- [f \in 1..NFiles |->
             IF Open /\ f = rfile THEN base ELSE Len(disk[Dest[f]])],
  reported <- received

\* Whatever a line that damages and loses headers does, wherever a session is
\* cut, files grow by their own next bytes, keep over a crash what they had
\* when they were opened, and are reported only when whole (receive()'s
\* resume offset, _send_file's seek, the order of _receive_file_data).
KeepsPromise == Promise!Spec

\* Every session ends, at both ends.
Terminates == []<>SessionOver
=============================================================================
