------------------------------- MODULE YModem -------------------------------
(***************************************************************************)
(* The Y-Modem engine of ymodem.py: a batch of files from YModem.send() to *)
(* YModem.receive(), block by block or, in G mode, as one stream.  Each    *)
(* action is what one coroutine does with what it reads, or when the read  *)
(* times out, up to its next read (in G mode: one file of the stream).     *)
(*                                                                         *)
(* The line keeps order and loses or damages frames as a whole (XModem has *)
(* the ones that lose their header); the CRC is ideal.  A data block is    *)
(* known by its file and its index, of which the wire carries the index    *)
(* modulo NumMod.                                                          *)
(***************************************************************************)
EXTENDS Naturals, Sequences

CONSTANTS
  Blocks,      \* data blocks of each file of the batch
  Known,       \* files sent with their size in block 0
  Exact,       \* files whose size is a multiple of _DATA_BLOCK_SIZE
  NumMod,      \* block numbers wrap at this value: 256 in the code
  RetryLimit,  \* retry_limit, the same at both ends
  GModes,      \* what g_mode of the receiver may be
  FwdFaults,   \* what the line may do on the way to the receiver
  RevFaults,   \* what it may do on the way back
  Noise,       \* what a rewritten control byte may turn into
  MaxFaults,   \* bound: faults in a behaviour
  MaxLate      \* bound: timers that expire while an answer is on its way

NFiles == Len(Blocks)

ASSUME ConstantsAssumption ==
  /\ Blocks \in Seq(Nat)
  /\ Known \subseteq 1..NFiles
  /\ Exact \subseteq 1..NFiles
  /\ \A f \in 1..NFiles : Blocks[f] = 0 => f \in Exact
  /\ NumMod \in Nat /\ NumMod > 1
  /\ RetryLimit \in Nat \ {0}
  /\ GModes \subseteq BOOLEAN
  /\ FwdFaults \subseteq {"lose", "damage"}
  /\ RevFaults \subseteq {"lose", "rewrite"}
  /\ Noise \subseteq {"CAN", "JUNK"}
  /\ MaxFaults \in Nat
  /\ MaxLate \in Nat

VARIABLES
  sphase,    \* where send() is
  g_mode,    \* what _sender_handshake found
  sfile,     \* file being sent; NFiles + 1 for the empty block 0
  block,     \* index of its data block being sent
  attempt,   \* attempt of the retry loop it is in
  rphase,    \* where receive() is
  r_g_mode,  \* its g_mode
  rfile,     \* file being received
  expected,  \* number of the data block it wants
  errors,    \* attempts at block 0, or consecutive_errors in the data
  buffer,    \* data blocks accepted so far
  disk,      \* what is in the output directory
  received,  \* files closed so far, in order
  fwd,       \* line from sender to receiver
  rev,       \* line from receiver to sender
  faults,    \* faults the line has committed
  late       \* timers that fired early

senderVars   == <<sphase, g_mode, sfile, block, attempt>>
receiverVars == <<rphase, r_g_mode, rfile, expected, errors, buffer, disk, received>>
vars == <<senderVars, receiverVars, fwd, rev, faults, late>>

Final == {"returned", "timeout", "failed", "protocol", "cancelled"}

-----------------------------------------------------------------------------
(* Frames *)

Number(i)     == i % NumMod
NextNumber(n) == (n + 1) % NumMod
PrevNumber(n) == (n + NumMod - 1) % NumMod

Block0(f)  == [kind |-> "BLOCK0", file |-> f, blk |-> 0, ok |-> TRUE]
Data(f, i) == [kind |-> "DATA", file |-> f, blk |-> i, ok |-> TRUE]
Ctl(k)     == [kind |-> k, file |-> 0, blk |-> 0, ok |-> TRUE]
EndOfBatch == NFiles + 1

FileBlocks(f) == [i \in 1..Blocks[f] |-> <<f, i>>]

\* A file in the output directory: its blocks, and whether its end was found
\* by stripping SUBs or by its size.
Opened == [blocks |-> <<>>, stripped |-> FALSE]

-----------------------------------------------------------------------------
(* Timers.  Both ends wait `timeout` seconds for each byte. *)

\* Both ends run, and nothing is on its way to one that still reads.
Quiet ==
  /\ rphase # "start"
  /\ fwd = <<>> \/ rphase \in Final
  /\ rev = <<>> \/ sphase \in Final
  /\ sphase # "stream"

\* A timer expires: in silence, or while an answer is still coming.
TimerFires ==
  \/ Quiet /\ UNCHANGED late
  \/ ~Quiet /\ late < MaxLate /\ late' = late + 1

-----------------------------------------------------------------------------
(* Sender *)

\* The loop over the files goes to file f: its block 0, or the empty one.
GoTo(f) ==
  /\ sfile' = f
  /\ block' = 0
  /\ attempt' = 0
  /\ fwd' = Append(fwd, Block0(f))
  /\ sphase' = IF f = EndOfBatch THEN "last" ELSE "ack0"

\* The next round of _send_data_blocks: block i of the file, or EOT.
Transmit(i) ==
  /\ block' = i
  /\ attempt' = 0
  /\ \/ /\ i <= Blocks[sfile]
        /\ sphase' = "block"
        /\ fwd' = Append(fwd, Data(sfile, i))
     \/ /\ i > Blocks[sfile]
        /\ sphase' = "eot"
        /\ fwd' = Append(fwd, Ctl("EOT"))
  /\ UNCHANGED sfile

\* Faulty: the attempts never run out; there is one too many.
RetryForever ==
  /\ attempt' = 1
  /\ UNCHANGED <<sphase, sfile, block, fwd>>
RetryTooMany ==
  /\ UNCHANGED <<sfile, block, fwd>>
  /\ \/ attempt < RetryLimit /\ attempt' = attempt + 1 /\ UNCHANGED sphase
     \/ attempt >= RetryLimit /\ sphase' = "failed" /\ UNCHANGED attempt

\* No usable answer: the next attempt of the loop, or its failure.  Only data
\* blocks and EOT are sent again; block 0 is not.
Retry ==
  /\ UNCHANGED <<sfile, block>>
  /\ \/ /\ attempt + 1 < RetryLimit
        /\ attempt' = attempt + 1
        /\ UNCHANGED sphase
        /\ \/ sphase \in {"handshake", "ack0", "c"} /\ UNCHANGED fwd
           \/ sphase = "block" /\ fwd' = Append(fwd, Data(sfile, block))
           \/ sphase = "eot" /\ fwd' = Append(fwd, Ctl("EOT"))
     \/ /\ attempt + 1 >= RetryLimit
        /\ sphase' = "failed"
        /\ UNCHANGED <<attempt, fwd>>

SenderEnds(how) == sphase' = how /\ UNCHANGED <<sfile, block, attempt, fwd>>

\* _sender_handshake reads a byte.  In G mode nothing is read again before
\* the end of the batch.
Handshake(b) ==
  /\ sphase = "handshake"
  /\ \/ b = "C" /\ g_mode' = FALSE /\ GoTo(1)
     \/ /\ b = "G"
        /\ g_mode' = TRUE
        /\ sphase' = "stream" /\ sfile' = 1
        /\ UNCHANGED <<block, attempt, fwd>>
     \/ b = "CAN" /\ SenderEnds("cancelled") /\ UNCHANGED g_mode
     \/ b \notin {"C", "G", "CAN"} /\ Retry /\ UNCHANGED g_mode

\* _wait_for_ack and _wait_for_c after a block 0.
AwaitAck0(b) ==
  /\ sphase = "ack0"
  /\ \/ b = "ACK" /\ sphase' = "c" /\ attempt' = 0 /\ UNCHANGED <<sfile, block, fwd>>
     \/ b = "CAN" /\ SenderEnds("cancelled")
     \/ b \notin {"ACK", "CAN"} /\ Retry

AwaitC(b) ==
  /\ sphase = "c"
  /\ \/ b = "C" /\ Transmit(1)
     \/ b = "CAN" /\ SenderEnds("cancelled")
     \/ b \notin {"C", "CAN"} /\ Retry

\* Faulty: any answer but CAN moves the sender on.
AcknowledgesNak(b) == b # "CAN"

Acknowledges(b) == b = "ACK"

\* _send_block_with_retry and the EOT loop of _send_data_blocks.
AwaitAck(b) ==
  \/ sphase = "block" /\ Acknowledges(b) /\ Transmit(block + 1)
  \/ sphase = "eot" /\ Acknowledges(b) /\ GoTo(sfile + 1)
  \/ /\ sphase \in {"block", "eot"}
     /\ \/ b = "CAN" /\ SenderEnds("cancelled")
        \/ b # "CAN" /\ ~Acknowledges(b) /\ Retry

\* _wait_for_ack_or_ignore takes any byte, and silence.
SenderReads ==
  /\ rev # <<>>
  /\ rev' = Tail(rev)
  /\ \/ Handshake(Head(rev))
     \/ /\ \/ AwaitAck0(Head(rev)) \/ AwaitC(Head(rev)) \/ AwaitAck(Head(rev))
           \/ sphase = "last" /\ SenderEnds("returned")
        /\ UNCHANGED g_mode
  /\ UNCHANGED <<receiverVars, faults, late>>

SenderTimeout ==
  /\ sphase \notin Final \cup {"stream"}
  /\ TimerFires
  /\ \/ sphase # "last" /\ Retry
     \/ sphase = "last" /\ SenderEnds("returned")
  /\ UNCHANGED <<g_mode, receiverVars, rev, faults>>

\* G mode: a file is written without waiting for anything.
SenderStreams ==
  /\ sphase = "stream"
  /\ \/ /\ sfile <= NFiles
        /\ fwd' = Append(fwd, Block0(sfile))
                    \o [i \in 1..Blocks[sfile] |-> Data(sfile, i)]
                    \o << Ctl("EOT") >>
        /\ sfile' = sfile + 1
        /\ UNCHANGED <<sphase, block, attempt>>
     \/ sfile > NFiles /\ GoTo(sfile)
  /\ UNCHANGED <<g_mode, receiverVars, rev, faults, late>>

-----------------------------------------------------------------------------
(* Receiver *)

InitChar == IF r_g_mode THEN "G" ELSE "C"

Reply(bs) == rev' = rev \o bs

\* receive() begins: the handshake byte is written once.
ReceiverStart ==
  /\ rphase = "start"
  /\ rphase' = "block0"
  /\ Reply(<<InitChar>>)
  /\ UNCHANGED <<senderVars, r_g_mode, rfile, expected, errors, buffer, disk,
                 received, fwd, faults, late>>

\* The attempts at block 0 run out only after the last NAK.
Block0Missed(n) ==
  /\ errors' = errors + n
  /\ Reply([i \in 1..n |-> "NAK"])
  /\ rphase' = IF errors + n >= RetryLimit THEN "failed" ELSE "block0"
  /\ UNCHANGED <<rfile, expected, buffer, disk, received>>

\* Block 0 of a file opens it; the empty one ends the batch.
Block0Read(f) ==
  /\ errors' = 0
  /\ \/ /\ f <= NFiles
        /\ rphase' = "data"
        /\ rfile' = f
        /\ expected' = Number(1)
        /\ buffer' = <<>>
        /\ disk' = [disk EXCEPT ![f] = Opened]
        /\ Reply(<<"ACK", InitChar>>)
     \/ /\ f > NFiles
        /\ rphase' = "returned"
        /\ Reply(<<"ACK">>)
        /\ UNCHANGED <<rfile, expected, buffer, disk>>
  /\ UNCHANGED received

\* _receive_block0.  The bytes of a data frame are read as headers, each a
\* miss, and are more than the attempts that are left.
ReceiveBlock0(t) ==
  /\ rphase = "block0"
  /\ \/ t.kind = "BLOCK0" /\ t.ok /\ Block0Read(t.file)
     \/ t.kind = "BLOCK0" /\ ~t.ok /\ Block0Missed(1)
     \/ t.kind \in {"EOT", "JUNK"} /\ Block0Missed(1)
     \/ t.kind = "DATA" /\ Block0Missed(RetryLimit - errors)
     \/ /\ t.kind = "CAN"
        /\ rphase' = "cancelled"
        /\ UNCHANGED <<rfile, expected, errors, buffer, disk, received, rev>>

\* Faulty: padding stripped though the size is known.
NeverLonger(f, n) == n < 0

\* n blocks are longer than the size that came with file f.  A size of 0 is no
\* size.
Longer(f, n) ==
  /\ f \in Known
  /\ Blocks[f] > 0
  /\ n > Blocks[f] \/ (n = Blocks[f] /\ f \notin Exact)

\* What is written of the collected blocks: as much as the size says, or all
\* but the SUBs at the end.
Written(f, b) ==
  IF Longer(f, Len(b))
    THEN [blocks |-> SubSeq(b, 1, Blocks[f]), stripped |-> FALSE]
    ELSE [blocks |-> b, stripped |-> TRUE]

\* EOT: acknowledge, write the file, and ask for the next one.
ReceiveEot ==
  /\ disk' = [disk EXCEPT ![rfile] = Written(rfile, buffer)]
  /\ received' = Append(received, rfile)
  /\ rphase' = "block0"
  /\ errors' = 0
  /\ Reply(<<"ACK", InitChar>>)
  /\ UNCHANGED <<rfile, expected, buffer>>

\* Faulty: no test for a repeated block; no test of the sequence.
NeverDuplicate(n) == n \notin 0..NumMod
AlwaysNext(n)     == n \in 0..NumMod

\* The block accepted last, sent again; the block expected.
IsDuplicate(n) == n = PrevNumber(expected)
IsNext(n)      == n = expected

\* A good frame amid the data, block 0 as any other: a duplicate, the block
\* expected, or one out of sequence.
ReceiveFrame(t) ==
  /\ t.kind \in {"BLOCK0", "DATA"}
  /\ t.ok
  /\ errors' = 0
  /\ LET n == Number(t.blk)
     IN \/ /\ IsDuplicate(n)
           /\ Reply(<<"ACK">>)
           /\ UNCHANGED <<rphase, expected, buffer>>
        \/ /\ ~IsDuplicate(n) /\ ~IsNext(n)
           /\ Reply(<<"CAN", "CAN">>)
           /\ rphase' = "protocol"
           /\ UNCHANGED <<expected, buffer>>
        \/ /\ ~IsDuplicate(n) /\ IsNext(n)
           /\ buffer' = Append(buffer, <<t.file, t.blk>>)
           /\ expected' = NextNumber(expected)
           /\ Reply(IF r_g_mode THEN <<>> ELSE <<"ACK">>)
           /\ UNCHANGED rphase
  /\ UNCHANGED <<rfile, disk, received>>

\* _receive_data_blocks: EOT, one CAN, noise or a damaged frame (NAK, without
\* a limit), or a good frame.
ReceiveData(t) ==
  /\ rphase = "data"
  /\ \/ t.kind = "EOT" /\ ReceiveEot
     \/ /\ t.kind = "CAN"
        /\ rphase' = "cancelled"
        /\ UNCHANGED <<rfile, expected, errors, buffer, disk, received, rev>>
     \/ /\ t.kind = "JUNK" \/ ~t.ok
        /\ errors' = errors + 1
        /\ Reply(<<"NAK">>)
        /\ UNCHANGED <<rphase, rfile, expected, buffer, disk, received>>
     \/ ReceiveFrame(t)

ReceiverReads ==
  /\ fwd # <<>>
  /\ fwd' = Tail(fwd)
  /\ ReceiveBlock0(Head(fwd)) \/ ReceiveData(Head(fwd))
  /\ UNCHANGED <<senderVars, r_g_mode, faults, late>>

ReceiverTimeout ==
  /\ TimerFires
  /\ \/ rphase = "block0" /\ Block0Missed(1)
     \/ /\ rphase = "data"
        /\ errors' = errors + 1
        /\ \/ errors' >= RetryLimit /\ rphase' = "timeout" /\ UNCHANGED rev
           \/ errors' < RetryLimit /\ Reply(<<"NAK">>) /\ UNCHANGED rphase
        /\ UNCHANGED <<rfile, expected, buffer, disk, received>>
  /\ UNCHANGED <<senderVars, r_g_mode, fwd, faults>>

-----------------------------------------------------------------------------
(* The line *)

Fault == faults < MaxFaults /\ faults' = faults + 1 /\ UNCHANGED late

ForwardFault ==
  /\ Fault
  /\ fwd # <<>>
  /\ rphase \notin Final
  /\ \/ "lose" \in FwdFaults /\ fwd' = Tail(fwd)
     \/ /\ "damage" \in FwdFaults
        /\ Head(fwd).kind \in {"BLOCK0", "DATA"} /\ Head(fwd).ok
        /\ fwd' = << [Head(fwd) EXCEPT !.ok = FALSE] >> \o Tail(fwd)
     \/ /\ "damage" \in FwdFaults
        /\ Head(fwd).kind = "EOT"
        /\ \E k \in Noise : fwd' = << Ctl(k) >> \o Tail(fwd)
  /\ UNCHANGED <<senderVars, receiverVars, rev>>

ReverseFault ==
  /\ Fault
  /\ rev # <<>>
  /\ sphase \notin Final
  /\ \/ "lose" \in RevFaults /\ rev' = Tail(rev)
     \/ "rewrite" \in RevFaults /\ \E k \in Noise : rev' = << k >> \o Tail(rev)
  /\ UNCHANGED <<senderVars, receiverVars, fwd>>

-----------------------------------------------------------------------------

Init ==
  /\ sphase = "handshake" /\ g_mode = FALSE
  /\ sfile = 1 /\ block = 0 /\ attempt = 0
  /\ rphase = "start" /\ r_g_mode \in GModes
  /\ rfile = 0 /\ expected = Number(1) /\ errors = 0
  /\ buffer = <<>>
  /\ disk = [f \in 1..NFiles |-> Opened]
  /\ received = <<>>
  /\ fwd = <<>> /\ rev = <<>>
  /\ faults = 0 /\ late = 0

Next ==
  \/ SenderReads \/ SenderTimeout \/ SenderStreams
  \/ ReceiverStart \/ ReceiverReads \/ ReceiverTimeout
  \/ ForwardFault \/ ReverseFault

Spec == Init /\ [][Next]_vars

\* Both coroutines are scheduled and asyncio.wait_for() does expire; the
\* line owes nobody a fault, and no timer has to fire early.
Fairness ==
  /\ WF_vars(SenderReads) /\ WF_vars(SenderStreams)
  /\ WF_vars(ReceiverStart) /\ WF_vars(ReceiverReads)
  /\ WF_vars(Quiet /\ SenderTimeout)
  /\ WF_vars(Quiet /\ ReceiverTimeout)

FairSpec == Spec /\ Fairness

-----------------------------------------------------------------------------
(* Properties *)

Replies == {"C", "G", "ACK", "NAK", "CAN", "JUNK"}

\* Every variable stays in its type, and the retry loops in their limit.  (The
\* empty block 0 of a stream can end up in a file: see FilesUnmixed.)
TypeOK ==
  /\ sphase \in {"handshake", "ack0", "c", "block", "eot", "stream", "last"} \cup Final
  /\ g_mode \in BOOLEAN
  /\ sfile \in 1..EndOfBatch
  /\ block \in Nat
  /\ attempt \in 0..(RetryLimit - 1)
  /\ rphase \in {"start", "block0", "data"} \cup Final
  /\ r_g_mode \in BOOLEAN
  /\ rfile \in 0..NFiles
  /\ expected \in 0..(NumMod - 1)
  /\ errors \in Nat
  /\ buffer \in Seq((1..EndOfBatch) \X Nat)
  /\ disk \in [1..NFiles -> [blocks : Seq((1..EndOfBatch) \X Nat), stripped : BOOLEAN]]
  /\ received \in Seq(1..NFiles)
  /\ \A i \in 1..Len(rev) : rev[i] \in Replies
  /\ faults \in 0..MaxFaults
  /\ late \in 0..MaxLate

\* A block number is a counter modulo NumMod, and block 0 is a frame like any
\* other amid the data: what it says of a file is true while the frames lost so
\* far are fewer than a cycle, and cannot be the end of the file that makes the
\* next block 0 a duplicate (the EOT of a file of NumMod blocks) or the block
\* expected (of NumMod - 1 blocks).
NumbersTell(f) ==
  /\ faults < NumMod - 1
  /\ \A n \in 0..Blocks[f] :
       Blocks[f] - n < faults => Number(n) # 0 /\ NextNumber(Number(n)) # 0

\* The files are closed in the order of the batch, and what a file collects is
\* its own first blocks, in order: when its blocks are acknowledged one by one
\* and no timer runs ahead of an answer, whatever the line did; when they are
\* streamed, or an early timer has set the sender answers ahead for the rest
\* of the batch, over the end of a file into the next, as long as the numbers
\* tell.
FilesUnmixed ==
  /\ \A j, k \in 1..Len(received) : j < k => received[j] < received[k]
  /\ \A f \in 1..NFiles : (~r_g_mode /\ late = 0) \/ NumbersTell(f) =>
       /\ disk[f].blocks = SubSeq(FileBlocks(f), 1, Len(disk[f].blocks))
       /\ rphase = "data" /\ rfile = f => buffer = SubSeq(FileBlocks(f), 1, Len(buffer))

\* A file that receive() has closed is all there: "full-file CRC check on
\* receipt" (ROADMAP), although the code only counts on EOT.
ReceivedIsWhole ==
  \A k \in 1..Len(received) : disk[received[k]].blocks = FileBlocks(received[k])

\* When blocks are acknowledged one by one and no timer runs ahead of an
\* answer, a closed file is whole, and one sent with its size that ends amid
\* a block is cut at that size.
AckedIsWhole ==
  ~r_g_mode /\ late = 0 =>
    /\ ReceivedIsWhole
    /\ \A k \in 1..Len(received) :
         received[k] \in Known \ Exact => ~disk[received[k]].stripped

\* send() returns only when the receiver has closed every file.
SenderKnows ==
  sphase = "returned" /\ ~r_g_mode /\ late = 0 => Len(received) = NFiles

\* Both calls end.
Terminates == <>[](sphase \in Final /\ rphase \in Final)
=============================================================================
