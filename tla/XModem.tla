------------------------------- MODULE XModem -------------------------------
(***************************************************************************)
(* The X-Modem engine of xmodem.py: XModem.send() at one end of a line,    *)
(* XModem.receive() at the other.  Each action is what one coroutine does  *)
(* between two reads of its transport: a byte (or a whole frame) arrives,  *)
(* or the read times out, and the handler runs to its next read.           *)
(*                                                                         *)
(* The line keeps order, and may lose, damage or rewrite what it carries.  *)
(* A block's data is its index in the file; on the wire it carries that    *)
(* index modulo NumMod, and the receiver sees only the number.  The CRC or *)
(* checksum is ideal: a damaged frame never passes it.                     *)
(***************************************************************************)
EXTENDS Naturals, Sequences

CONSTANTS
  NBlocks,      \* blocks in the file (the last one padded)
  NumMod,       \* block numbers wrap at this value: 256 in the code
  RetryLimit,   \* retry_limit, the same at both ends
  CrcMode,      \* receive(crc_mode=...): what the receiver asks for
  TailBytes,    \* how the bytes after a frame's number look when read as headers
  FwdFaults,    \* what the line may do to frames and EOTs
  RevFaults,    \* what the line may do to replies
  Noise,        \* what a rewritten control byte may turn into
  MaxFaults,    \* bound: faults in a behaviour
  MaxLate       \* bound: timers that expire while an answer is on its way

CtlKinds == {"EOT", "CAN", "JUNK"}
Replies  == {"ACK", "NAK", "C", "CAN", "JUNK"}

ASSUME ConstantsAssumption ==
  /\ NBlocks \in Nat
  /\ NumMod \in Nat /\ NumMod > 1
  /\ RetryLimit \in Nat \ {0}
  /\ CrcMode \in BOOLEAN
  /\ TailBytes \in Seq(CtlKinds)
  /\ FwdFaults \subseteq {"lose", "damage", "split", "behead", "rewrite"}
  /\ RevFaults \subseteq {"lose", "rewrite"}
  /\ Noise \subseteq CtlKinds
  /\ MaxFaults \in Nat
  /\ MaxLate \in Nat

VARIABLES
  sphase,         \* where send() is
  use_crc,        \* what _sender_handshake returned
  block,          \* index of the block being sent (block_num is its number)
  attempt,        \* attempt of the retry loop it is in
  rphase,         \* where receive() is
  expected_block, \* number of the block the receiver wants
  errors,         \* consecutive_errors
  buffer,         \* blocks accepted so far
  stream,         \* what receive() wrote to the caller's stream
  fwd,            \* line from sender to receiver
  rev,            \* line from receiver to sender
  faults,         \* faults the line has committed
  late            \* timers that fired early

senderVars   == <<sphase, use_crc, block, attempt>>
receiverVars == <<rphase, expected_block, errors, buffer, stream>>
vars == <<senderVars, receiverVars, fwd, rev, faults, late>>

SenderFinal   == {"done", "failed", "cancelled"}
ReceiverFinal == {"done", "timeout", "protocol", "cancelled"}

-----------------------------------------------------------------------------
(* Bytes and frames *)

SOH == 1
STX == 2
EOT == 4
CAN == 24

\* The number block i carries: block_num starts at 1 and grows & 0xFF.
Number(i) == i % NumMod

\* Faulty: the mask forgotten.
PrevNumberUnmasked(n) == n - 1

\* (block_num + 1) & 0xFF and (block_num - 1) & 0xFF
NextNumber(n) == (n + 1) % NumMod
PrevNumber(n) == (n + NumMod - 1) % NumMod

\* wire says how the frame's bytes will look to the receiver: whole, damaged,
\* one byte short, or announced by a header that wants a far longer frame.
Frame(i, crc) == [kind |-> "FRAME", blk |-> i, wire |-> "whole", crc |-> crc]
Ctl(k)        == [kind |-> k, blk |-> 0, wire |-> "whole", crc |-> FALSE]

FrameTokens == [kind : {"FRAME"}, blk : 1..NBlocks,
                wire : {"whole", "damaged", "short", "long"}, crc : BOOLEAN]
CtlTokens   == [kind : CtlKinds, blk : {0}, wire : {"whole"}, crc : {FALSE}]
Tokens      == FrameTokens \cup CtlTokens

\* What a byte means to a receiver that waits for a header.
HeaderKind(b) == IF b = EOT THEN "EOT" ELSE IF b = CAN THEN "CAN" ELSE "JUNK"

\* The bytes after a frame's number, read as headers.
FrameTail == [i \in 1..Len(TailBytes) |-> Ctl(TailBytes[i])]

\* What is left of frame f once its header byte is gone: the receiver goes on
\* reading headers, and the next byte is the block number.  As SOH it starts
\* a frame of the same size, one byte short; as STX a frame of 1024 bytes.
\* Frames here carry 128.
Residue(f) ==
  CASE Number(f.blk) = SOH -> << [f EXCEPT !.wire = "short"] >>
    [] Number(f.blk) = STX -> << [f EXCEPT !.wire = "long"] >>
    [] OTHER -> << Ctl(HeaderKind(Number(f.blk))) >> \o FrameTail

\* The bytes left of a token that lost its first one.
Beheaded(t) == IF t.kind = "FRAME" THEN Residue(t) ELSE <<>>

-----------------------------------------------------------------------------
(* Timers.  Both ends wait `timeout` seconds for each byte. *)

\* Nothing is on its way to anybody who still reads.
Quiet ==
  /\ fwd = <<>> \/ rphase \in ReceiverFinal
  /\ rev = <<>> \/ sphase \in SenderFinal

\* A timer expires: in silence, or while an answer is still coming.
TimerFires ==
  \/ Quiet /\ UNCHANGED late
  \/ ~Quiet /\ late < MaxLate /\ late' = late + 1

\* Faulty: an error that is not counted.
SameCount(n) == n

\* One more error or attempt in a row.
Count(n) == n + 1

\* Faulty: one attempt too many.
ExhaustedLate(n) == n > RetryLimit

\* Errors or attempts in a row after which an end gives up.
Exhausted(n) == n >= RetryLimit

-----------------------------------------------------------------------------
(* Sender *)

\* One round of the loop of _send_blocks: read the next block, or find the
\* end of the stream and go to _send_eot; write; wait for the answer.
Transmit(b, crc) ==
  /\ block' = b
  /\ attempt' = 0
  /\ \/ /\ b <= NBlocks
        /\ sphase' = "block"
        /\ fwd' = Append(fwd, Frame(b, crc))
     \/ /\ b > NBlocks
        /\ sphase' = "eot"
        /\ fwd' = Append(fwd, Ctl("EOT"))

\* No usable answer: the next attempt of the retry loop, or its failure.
Retry ==
  /\ UNCHANGED <<use_crc, block>>
  /\ \/ /\ ~Exhausted(Count(attempt))
        /\ attempt' = Count(attempt)
        /\ UNCHANGED sphase
        /\ \/ sphase = "handshake" /\ UNCHANGED fwd
           \/ sphase = "block" /\ fwd' = Append(fwd, Frame(block, use_crc))
           \/ sphase = "eot" /\ fwd' = Append(fwd, Ctl("EOT"))
     \/ /\ Exhausted(Count(attempt))
        /\ sphase' = "failed"
        /\ UNCHANGED <<attempt, fwd>>

\* One CAN ends the sender, though exceptions.py speaks of two.
SenderCancelled ==
  /\ sphase' = "cancelled"
  /\ UNCHANGED <<use_crc, block, attempt, fwd>>

\* _sender_handshake reads a byte.
SenderHandshake ==
  /\ sphase = "handshake"
  /\ \/ /\ Head(rev) \in {"C", "NAK"}
        /\ use_crc' = (Head(rev) = "C")
        /\ Transmit(1, use_crc')
     \/ Head(rev) = "CAN" /\ SenderCancelled
     \/ Head(rev) \notin {"C", "NAK", "CAN"} /\ Retry

\* Faulty: any answer but CAN moves the sender on.
AcknowledgesNak(b) == b \in {"ACK", "NAK"}

Acknowledges(b) == b = "ACK"

\* _send_block reads the answer to a block.
SenderAnswer ==
  /\ sphase = "block"
  /\ \/ /\ Acknowledges(Head(rev))
        /\ Transmit(block + 1, use_crc)
        /\ UNCHANGED use_crc
     \/ Head(rev) = "CAN" /\ SenderCancelled
     \/ Head(rev) # "CAN" /\ ~Acknowledges(Head(rev)) /\ Retry

\* _send_eot reads the answer to EOT.
SenderEotAnswer ==
  /\ sphase = "eot"
  /\ \/ /\ Acknowledges(Head(rev))
        /\ sphase' = "done"
        /\ UNCHANGED <<use_crc, block, attempt, fwd>>
     \/ Head(rev) = "CAN" /\ SenderCancelled
     \/ Head(rev) # "CAN" /\ ~Acknowledges(Head(rev)) /\ Retry

SenderReads ==
  /\ rev # <<>>
  /\ rev' = Tail(rev)
  /\ SenderHandshake \/ SenderAnswer \/ SenderEotAnswer
  /\ UNCHANGED <<receiverVars, faults, late>>

\* asyncio.TimeoutError in any of the three loops.
SenderTimeout ==
  /\ sphase \notin SenderFinal
  /\ TimerFires
  /\ Retry
  /\ UNCHANGED <<receiverVars, rev, faults>>

-----------------------------------------------------------------------------
(* Receiver *)

Reply(b) == rev' = Append(rev, b)

\* Faulty: leaving the loop as EOT does.
WriteWhatCame(why) == rphase' = "done" /\ stream' = buffer

\* receive() raises; nothing is written to the caller's stream.
Raise(why) == rphase' = why /\ UNCHANGED stream

\* receive() begins: the handshake byte is written once.
ReceiverStart ==
  /\ rphase = "idle"
  /\ rphase' = "run"
  /\ Reply(IF CrcMode THEN "C" ELSE "NAK")
  /\ UNCHANGED <<senderVars, expected_block, errors, buffer, stream,
                 fwd, faults, late>>

\* The loop is left: the blocks go to the caller's stream, in one write.
Commit == rphase' = "done" /\ stream' = buffer

\* EOT: acknowledge, and return.
ReceiveEot ==
  /\ Head(fwd).kind = "EOT"
  /\ Reply("ACK")
  /\ Commit
  /\ fwd' = Tail(fwd)
  /\ UNCHANGED <<expected_block, errors, buffer>>

\* First CAN: wait for another one.
ReceiveCan ==
  /\ Head(fwd).kind = "CAN"
  /\ rphase' = "can"
  /\ fwd' = Tail(fwd)
  /\ UNCHANGED <<expected_block, errors, buffer, stream, rev>>

\* Not a header byte: NAK, or give up.
ReceiveJunk ==
  /\ Head(fwd).kind = "JUNK"
  /\ errors' = Count(errors)
  /\ \/ Exhausted(errors') /\ Raise("protocol") /\ UNCHANGED rev
     \/ ~Exhausted(errors') /\ Reply("NAK") /\ UNCHANGED <<rphase, stream>>
  /\ fwd' = Tail(fwd)
  /\ UNCHANGED <<expected_block, buffer>>

\* The frame passes the complement test and the CRC or checksum test.
Intact(f) == f.wire = "whole" /\ f.crc = CrcMode

\* It ends before the receiver has what it wants: a byte was lost, or it has
\* a checksum where the receiver reads the two bytes of a CRC.
Short(f) == f.wire = "short" \/ (f.wire # "long" /\ CrcMode /\ ~f.crc)

\* Too short, wrong complement or wrong check: NAK, with no limit.  What a
\* frame lacks is taken from the next one, if that is there.
ReceiveDamaged ==
  /\ Head(fwd).kind = "FRAME"
  /\ ~Intact(Head(fwd))
  /\ errors' = Count(errors)
  /\ Reply("NAK")
  /\ \/ /\ Short(Head(fwd)) /\ Len(fwd) > 1
        /\ fwd' = Beheaded(fwd[2]) \o Tail(Tail(fwd))
     \/ /\ Head(fwd).wire = "long"
        /\ fwd' = <<>>
     \/ /\ Head(fwd).wire # "long" /\ ~(Short(Head(fwd)) /\ Len(fwd) > 1)
        /\ fwd' = Tail(fwd)
  /\ UNCHANGED <<rphase, expected_block, buffer, stream>>

\* Faulty: no test for a repeated block; no test of the sequence.
NeverDuplicate(n) == n \notin 0..NumMod
AlwaysNext(n)     == n \in 0..NumMod

\* The block accepted last, sent again; the block expected.
IsDuplicate(n) == n = PrevNumber(expected_block)
IsNext(n)      == n = expected_block

\* A good frame: duplicate, out of sequence, or the block expected.
ReceiveBlock ==
  LET f == Head(fwd)
      n == Number(f.blk)
  IN /\ f.kind = "FRAME"
     /\ Intact(f)
     /\ errors' = 0
     /\ fwd' = Tail(fwd)
     /\ \/ /\ IsDuplicate(n)
           /\ Reply("ACK")
           /\ UNCHANGED <<rphase, expected_block, buffer, stream>>
        \/ /\ ~IsDuplicate(n) /\ ~IsNext(n)
           /\ rev' = rev \o <<"CAN", "CAN">>
           /\ Raise("protocol")
           /\ UNCHANGED <<expected_block, buffer>>
        \/ /\ ~IsDuplicate(n) /\ IsNext(n)
           /\ buffer' = Append(buffer, f.blk)
           /\ expected_block' = NextNumber(expected_block)
           /\ Reply("ACK")
           /\ UNCHANGED <<rphase, stream>>

\* The byte after a CAN: a second one cancels; any other byte is swallowed,
\* a frame's header included, and the pair is answered as noise.
ReceiveAfterCan ==
  /\ \/ /\ Head(fwd).kind = "CAN"
        /\ Raise("cancelled")
        /\ UNCHANGED rev
        /\ fwd' = Tail(fwd)
     \/ /\ Head(fwd).kind # "CAN"
        /\ rphase' = "run"
        /\ Reply("NAK")
        /\ UNCHANGED stream
        /\ fwd' = Beheaded(Head(fwd)) \o Tail(fwd)
  /\ UNCHANGED <<expected_block, errors, buffer>>

ReceiverReads ==
  /\ fwd # <<>>
  /\ \/ /\ rphase = "run"
        /\ \/ ReceiveEot \/ ReceiveCan \/ ReceiveJunk
           \/ ReceiveDamaged \/ ReceiveBlock
     \/ rphase = "can" /\ ReceiveAfterCan
  /\ UNCHANGED <<senderVars, faults, late>>

\* The header read times out, or the read of the byte after a CAN does.
ReceiverTimeout ==
  /\ TimerFires
  /\ \/ /\ rphase = "run"
        /\ errors' = Count(errors)
        /\ \/ Exhausted(errors') /\ Raise("timeout") /\ UNCHANGED rev
           \/ ~Exhausted(errors') /\ Reply("NAK") /\ UNCHANGED <<rphase, stream>>
     \/ /\ rphase = "can"
        /\ rphase' = "run"
        /\ Reply("NAK")
        /\ UNCHANGED <<errors, stream>>
  /\ UNCHANGED <<senderVars, expected_block, buffer, fwd, faults>>

-----------------------------------------------------------------------------
(* The line.  Faults strike at the head of a queue: what a FIFO loses or   *)
(* damages it may as well lose or damage on delivery.                      *)

Fault == faults < MaxFaults /\ faults' = faults + 1 /\ UNCHANGED late

\* A frame is lost, damaged, or has lost its header byte; an EOT or what was
\* left of a frame turns into another byte.  "split": read(n) of a
\* StreamTransport returns what has come, so that a frame in two pieces is a
\* short one, and its second piece is read as headers.
ForwardFault ==
  /\ Fault
  /\ fwd # <<>>
  /\ rphase \notin ReceiverFinal
  /\ \/ /\ "lose" \in FwdFaults
        /\ fwd' = Tail(fwd)
     \/ /\ "damage" \in FwdFaults
        /\ Head(fwd).kind = "FRAME"
        /\ Head(fwd).wire = "whole"
        /\ fwd' = << [Head(fwd) EXCEPT !.wire = "damaged"] >> \o Tail(fwd)
     \/ /\ "split" \in FwdFaults
        /\ Head(fwd).kind = "FRAME"
        /\ Intact(Head(fwd))
        /\ fwd' = << [Head(fwd) EXCEPT !.wire = "damaged"] >> \o FrameTail \o Tail(fwd)
     \/ /\ "behead" \in FwdFaults
        /\ Head(fwd).kind = "FRAME"
        /\ fwd' = Residue(Head(fwd)) \o Tail(fwd)
     \/ /\ "rewrite" \in FwdFaults
        /\ Head(fwd).kind # "FRAME"
        /\ \E k \in Noise : fwd' = << Ctl(k) >> \o Tail(fwd)
  /\ UNCHANGED <<senderVars, receiverVars, rev>>

ReverseFault ==
  /\ Fault
  /\ rev # <<>>
  /\ sphase \notin SenderFinal
  /\ \/ /\ "lose" \in RevFaults
        /\ rev' = Tail(rev)
     \/ /\ "rewrite" \in RevFaults
        /\ \E k \in Noise \ {"EOT"} : rev' = << k >> \o Tail(rev)
  /\ UNCHANGED <<senderVars, receiverVars, fwd>>

-----------------------------------------------------------------------------

Init ==
  /\ sphase = "handshake"
  /\ use_crc = FALSE
  /\ block = 1
  /\ attempt = 0
  /\ rphase = "idle"
  /\ expected_block = 1
  /\ errors = 0
  /\ buffer = <<>>
  /\ stream = <<>>
  /\ fwd = <<>>
  /\ rev = <<>>
  /\ faults = 0
  /\ late = 0

Next ==
  \/ SenderReads
  \/ SenderTimeout
  \/ ReceiverStart
  \/ ReceiverReads
  \/ ReceiverTimeout
  \/ ForwardFault
  \/ ReverseFault

Spec == Init /\ [][Next]_vars

\* Both coroutines are scheduled and asyncio.wait_for() does expire; the
\* line owes nobody a fault, and no timer has to fire early.
Fairness ==
  /\ WF_vars(SenderReads)
  /\ WF_vars(Quiet /\ SenderTimeout)
  /\ WF_vars(ReceiverStart)
  /\ WF_vars(ReceiverReads)
  /\ WF_vars(Quiet /\ ReceiverTimeout)

FairSpec == Spec /\ Fairness

-----------------------------------------------------------------------------
(* Properties *)

File == [i \in 1..NBlocks |-> i]

SenderPhases   == {"handshake", "block", "eot"} \cup SenderFinal
ReceiverPhases == {"idle", "run", "can"} \cup ReceiverFinal

\* Every variable stays in its type: the phases the code has, the retry
\* loop inside range(retry_limit), block numbers inside a byte.
TypeOK ==
  /\ sphase \in SenderPhases
  /\ use_crc \in BOOLEAN
  /\ block \in 1..(NBlocks + 1)
  /\ attempt \in 0..(RetryLimit - 1)
  /\ rphase \in ReceiverPhases
  /\ expected_block \in 0..(NumMod - 1)
  /\ errors \in Nat
  /\ buffer \in Seq(1..NBlocks)
  /\ stream \in Seq(1..NBlocks)
  /\ fwd \in Seq(Tokens)
  /\ rev \in Seq(Replies)
  /\ faults \in 0..MaxFaults
  /\ late \in 0..MaxLate

\* What the receiver has accepted is a prefix of the file: no block twice,
\* none skipped, none taken for another with the same number, whatever the
\* line did, and with as many early timers as the numbers allow: no more than
\* NumMod - 2, or any number where no two blocks have the same one
\* (_receive_blocks' duplicate and sequence tests).
PrefixDelivered == \A i \in 1..Len(buffer) : buffer[i] = i

\* receive() that returns has written the whole file, not the part that came
\* before an EOT (_receive_blocks leaves its loop at any EOT byte, and writes).
NoSilentTruncation == rphase = "done" => stream = File

\* The sender is never further ahead of the receiver than one block and the
\* timers that fired too early: each of those can leave one ACK behind that
\* the sender takes for the next block's, since an ACK carries no number.
StaleAcksBounded ==
  sphase \in {"block", "eot", "done"} =>
    /\ Len(buffer) <= block
    /\ block <= Len(buffer) + 1 + late

\* send() returns only when receive() has, with the whole file ("Raises on
\* failure" in the docstring of send).
SuccessIsMutual == sphase = "done" => rphase = "done" /\ stream = File

\* The sender uses the check the receiver asked for.
ModeAgreed == sphase \in {"block", "eot", "done"} => use_crc = CrcMode

\* The transfer as its callers see it.
Transfer == INSTANCE FileTransfer WITH
  File <- File,
  out <- stream,
  rverdict <- CASE rphase = "done" -> "returned"
                [] rphase \in ReceiverFinal \ {"done"} -> "raised"
                [] OTHER -> "active",
  sverdict <- CASE sphase = "done" -> "returned"
                [] sphase \in SenderFinal \ {"done"} -> "raised"
                [] OTHER -> "active"

\* With timers that wait for answers, the protocol keeps what FileTransfer
\* promises: all or nothing at the receiver, and no success at the sender
\* before the receiver's.
KeepsPromise == Transfer!Spec

\* Nobody waits for ever: both calls end, however the line behaves.
Terminates == <>[](sphase \in SenderFinal /\ rphase \in ReceiverFinal)

\* Once the handshake is through, fewer than retry_limit faults do not keep
\* the file from the receiver.
Completes == (sphase = "block" /\ rphase = "run") ~> (rphase = "done")

-----------------------------------------------------------------------------
(* Inductive invariants *)

\* What the receiver wants next is the number of the first block it lacks,
\* and what it has is a prefix of the file: for any line and any timers, in a
\* file shorter than the number cycle.
PrefixInv ==
  /\ expected_block = NextNumber(Len(buffer))
  /\ PrefixDelivered

NoAck(q) == \A i \in 1..Len(q) : q[i] # "ACK"

\* One token is under way at a time, frame or reply; an ACK under way is for
\* the block the sender is in; an EOT follows the last block.
StopAndWait ==
  /\ sphase \in SenderFinal => fwd = <<>> /\ NoAck(rev)
  /\ sphase \notin SenderFinal =>
       \/ fwd = <<>> /\ Len(rev) <= 1
       \/ Len(fwd) = 1 /\ rev = <<>>
  /\ sphase = "handshake" => buffer = <<>> /\ fwd = <<>> /\ NoAck(rev)
  /\ sphase = "block" =>
       /\ Len(buffer) \in {block - 1, block}
       /\ NoAck(rev) \/ Len(buffer) = block
       /\ \A i \in 1..Len(fwd) :
            /\ fwd[i].kind = "FRAME"
            /\ fwd[i].blk = block
            /\ fwd[i].wire \in {"whole", "damaged"}
  /\ sphase = "eot" =>
       /\ Len(buffer) = NBlocks
       /\ NoAck(rev)
       /\ \A i \in 1..Len(fwd) : fwd[i].kind = "EOT"
  /\ rphase = "idle" => sphase \in {"handshake", "failed"} /\ rev = <<>>

\* When timers wait for what is under way and the line only loses or damages
\* frames, the two ends move in step, until the receiver stops.
CalmInv ==
  /\ PrefixInv
  /\ rphase \in {"idle", "run", "done", "timeout"}
  /\ rphase \in {"idle", "run"} => StopAndWait
  /\ sphase = "done" => rphase = "done"
  /\ rphase = "timeout" => NoAck(rev)
  /\ stream = IF rphase = "done" THEN File ELSE <<>>

=============================================================================
