---------------------------- MODULE YModemProofs ----------------------------
(***************************************************************************)
(* Theorems about YModem: its types; what becomes of a batch that is       *)
(* acknowledged block by block while no timer runs ahead of an answer; and *)
(* that files are kept apart in any batch, whatever the line and timers    *)
(* do, as long as the numbers tell.                                        *)
(***************************************************************************)
EXTENDS YModem, SequenceTheorems, TLAPS

-----------------------------------------------------------------------------
(* Types *)

Kinds == {"BLOCK0", "DATA", "EOT", "CAN", "JUNK"}

\* A frame or a byte on its way to the receiver.
Frames == {t \in [kind : Kinds, file : 0..EndOfBatch, blk : Nat, ok : BOOLEAN] :
             t.kind \in {"BLOCK0", "DATA"} => t.file \in 1..EndOfBatch}

SenderTyped ==
  /\ sphase \in {"handshake", "ack0", "c", "block", "eot", "stream", "last"} \cup Final
  /\ g_mode \in BOOLEAN
  /\ sfile \in 1..EndOfBatch
  /\ sphase \in {"ack0", "c", "block", "eot"} => sfile \in 1..NFiles
  /\ block \in Nat
  /\ attempt \in 0..(RetryLimit - 1)

Places == (1..EndOfBatch) \X Nat

ReceiverTyped ==
  /\ rphase \in {"start", "block0", "data"} \cup Final
  /\ r_g_mode \in BOOLEAN
  /\ rfile \in 0..NFiles
  /\ rphase = "data" => rfile \in 1..NFiles
  /\ expected \in 0..(NumMod - 1)
  /\ errors \in Nat
  /\ rphase \in {"start", "block0"} => errors < RetryLimit
  /\ buffer \in Seq(Places)
  /\ disk \in [1..NFiles -> [blocks : Seq(Places), stripped : BOOLEAN]]
  /\ received \in Seq(1..NFiles)

LineTyped ==
  /\ fwd \in Seq(Frames)
  /\ rev \in Seq(Replies)
  /\ faults \in 0..MaxFaults
  /\ late \in 0..MaxLate

Typed == SenderTyped /\ ReceiverTyped /\ LineTyped

LEMMA Constants ==
  /\ NFiles \in Nat /\ EndOfBatch = NFiles + 1
  /\ \A f \in 1..NFiles : Blocks[f] \in Nat /\ (Blocks[f] = 0 => f \in Exact)
  /\ NumMod \in Nat /\ NumMod > 1 /\ RetryLimit \in Nat \ {0}
  /\ MaxFaults \in Nat /\ MaxLate \in Nat /\ GModes \subseteq BOOLEAN
  /\ Noise \subseteq {"CAN", "JUNK"}
<1>1. NFiles \in Nat
  BY ConstantsAssumption, LenProperties DEF NFiles
<1>2. \A f \in 1..NFiles : Blocks[f] \in Nat
  BY ConstantsAssumption, ElementOfSeq DEF NFiles
<1>. QED
  BY <1>1, <1>2, ConstantsAssumption DEF EndOfBatch

\* A number is less than the cycle.
LEMMA NumberTyped ==
  ASSUME NEW n \in Nat
  PROVE  Number(n) \in 0..(NumMod - 1) /\ NextNumber(n) \in 0..(NumMod - 1)
BY Constants DEF Number, NextNumber

\* What the sender writes.
LEMMA FrameTyped ==
  /\ \A f \in 1..EndOfBatch : Block0(f) \in Frames
  /\ \A f \in 1..NFiles, i \in Nat : Data(f, i) \in Frames
  /\ \A k \in {"EOT", "CAN", "JUNK"} : Ctl(k) \in Frames
BY Constants DEF Block0, Data, Ctl, Frames, Kinds

LEMMA TailAt ==
  ASSUME NEW S, NEW q \in Seq(S), q # <<>>
  PROVE  /\ Len(q) \in Nat \ {0} /\ Len(Tail(q)) = Len(q) - 1
         /\ Head(q) = q[1] /\ Head(q) \in S /\ Tail(q) \in Seq(S)
         /\ \A i \in 1..Len(Tail(q)) : Tail(q)[i] = q[i + 1]
<1>1. Len(q) \in Nat /\ Len(q) # 0
  BY LenProperties, EmptySeq
<1>. QED
  BY <1>1, HeadTailProperties

\* Putting something else in front.
LEMMA FrontTyped ==
  ASSUME NEW S, NEW q \in Seq(S), q # <<>>, NEW x \in S
  PROVE  /\ <<x>> \o Tail(q) \in Seq(S)
         /\ Len(<<x>> \o Tail(q)) = Len(q)
         /\ (<<x>> \o Tail(q))[1] = x
         /\ \A i \in 2..Len(q) : (<<x>> \o Tail(q))[i] = q[i]
<1>1. <<x>> \in Seq(S) /\ Len(<<x>>) = 1 /\ <<x>>[1] = x
  OBVIOUS
<1>2. Tail(q) \in Seq(S) /\ Len(q) \in Nat \ {0} /\ Len(Tail(q)) = Len(q) - 1
  BY TailAt
<1>3. /\ <<x>> \o Tail(q) \in Seq(S)
      /\ Len(<<x>> \o Tail(q)) = Len(<<x>>) + Len(Tail(q))
      /\ \A i \in 1..(Len(<<x>>) + Len(Tail(q))) :
           (<<x>> \o Tail(q))[i] = IF i <= Len(<<x>>) THEN <<x>>[i] ELSE Tail(q)[i - Len(<<x>>)]
  BY <1>1, <1>2, ConcatProperties
<1>4. Len(<<x>>) + Len(Tail(q)) = Len(q)
  BY <1>1, <1>2
<1>5. ASSUME NEW i \in 2..Len(q) PROVE (<<x>> \o Tail(q))[i] = q[i]
  <2>1. i \in 1..Len(q) /\ ~(i <= 1) /\ i - 1 \in 1..Len(Tail(q)) /\ (i - 1) + 1 = i
    BY <1>2
  <2>2. (<<x>> \o Tail(q))[i] = Tail(q)[i - 1]
    BY <1>1, <1>3, <1>4, <2>1
  <2>3. Tail(q)[i - 1] = q[(i - 1) + 1]
    BY <2>1, TailAt
  <2>. QED
    BY <2>1, <2>2, <2>3
<1>. QED
  BY <1>1, <1>2, <1>3, <1>4, <1>5

LEMMA GoToTyped ==
  ASSUME fwd \in Seq(Frames), NEW f \in 1..EndOfBatch, GoTo(f), g_mode' \in BOOLEAN
  PROVE  SenderTyped' /\ fwd' \in Seq(Frames)
<1>1. Block0(f) \in Frames
  BY FrameTyped
<1>2. fwd' \in Seq(Frames)
  BY <1>1, AppendProperties DEF GoTo
<1>3. f # EndOfBatch => f \in 1..NFiles
  BY Constants
<1>4. SenderTyped'
  BY <1>3, Constants DEF GoTo, SenderTyped
<1>. QED
  BY <1>2, <1>4

LEMMA TransmitTyped ==
  ASSUME Typed, sfile \in 1..NFiles, NEW i \in Nat, i > 0, Transmit(i), g_mode' \in BOOLEAN
  PROVE  SenderTyped' /\ fwd' \in Seq(Frames)
<1>1. Data(sfile, i) \in Frames /\ Ctl("EOT") \in Frames
  BY FrameTyped
<1>2. fwd' \in Seq(Frames)
  <2>1. fwd \in Seq(Frames)
    BY DEF Typed, LineTyped
  <2>2. CASE fwd' = Append(fwd, Data(sfile, i))
    BY <1>1, <2>1, <2>2, AppendProperties
  <2>3. CASE fwd' = Append(fwd, Ctl("EOT"))
    BY <1>1, <2>1, <2>3, AppendProperties
  <2>. QED
    BY <2>2, <2>3 DEF Transmit
<1>3. SenderTyped'
  BY Constants DEF Transmit, SenderTyped, Typed
<1>. QED
  BY <1>2, <1>3

LEMMA RetryTyped ==
  ASSUME Typed, sphase \in {"handshake", "ack0", "c", "block", "eot"}, Retry,
         g_mode' \in BOOLEAN
  PROVE  SenderTyped' /\ fwd' \in Seq(Frames)
<1>1. sphase = "block" => Data(sfile, block) \in Frames
  BY FrameTyped DEF Typed, SenderTyped
<1>2. Ctl("EOT") \in Frames /\ fwd \in Seq(Frames)
  BY FrameTyped DEF Typed, LineTyped
<1>3. fwd' \in Seq(Frames)
  <2>1. CASE fwd' = fwd
    BY <1>2, <2>1
  <2>2. CASE sphase = "block" /\ fwd' = Append(fwd, Data(sfile, block))
    BY <1>1, <1>2, <2>2, AppendProperties
  <2>3. CASE fwd' = Append(fwd, Ctl("EOT"))
    BY <1>2, <2>3, AppendProperties
  <2>. QED
    BY <2>1, <2>2, <2>3 DEF Retry
<1>4. SenderTyped'
  BY Constants DEF Retry, SenderTyped, Typed, Final
<1>. QED
  BY <1>3, <1>4

LEMMA SenderEndsTyped ==
  ASSUME Typed, NEW how \in Final, SenderEnds(how), g_mode' \in BOOLEAN
  PROVE  SenderTyped' /\ fwd' \in Seq(Frames)
BY DEF SenderEnds, Typed, SenderTyped, LineTyped, Final

LEMMA SenderReadsTyped ==
  ASSUME Typed, SenderReads
  PROVE  SenderTyped' /\ fwd' \in Seq(Frames)
<1>. DEFINE b == Head(rev)
<1>0. g_mode \in BOOLEAN /\ fwd \in Seq(Frames) /\ sfile \in 1..EndOfBatch /\ block \in Nat
  BY DEF Typed, SenderTyped, LineTyped
<1>1. CASE Handshake(b)
  <2>1. g_mode' \in BOOLEAN /\ 1 \in 1..EndOfBatch /\ "cancelled" \in Final
    <3>1. g_mode' \in BOOLEAN
      BY <1>0, <1>1 DEF Handshake
    <3>. QED
      BY <3>1, Constants DEF Final
  <2>2. CASE GoTo(1)
    BY <1>0, <2>1, <2>2, GoToTyped
  <2>3. CASE sphase' = "stream" /\ sfile' = 1 /\ UNCHANGED <<block, attempt, fwd>>
    BY <2>1, <2>3 DEF Typed, SenderTyped, LineTyped
  <2>4. CASE SenderEnds("cancelled")
    BY <2>1, <2>4, SenderEndsTyped
  <2>5. CASE sphase = "handshake" /\ Retry
    BY <2>1, <2>5, RetryTyped
  <2>. QED
    BY <1>1, <2>2, <2>3, <2>4, <2>5 DEF Handshake
<1>2. CASE UNCHANGED g_mode /\ AwaitAck0(b)
  <2>1. CASE sphase = "ack0" /\ b = "ACK" /\ ~Retry /\ ~SenderEnds("cancelled")
    <3>1. sphase' = "c" /\ attempt' = 0 /\ UNCHANGED <<sfile, block, fwd>>
      BY <1>2, <2>1 DEF AwaitAck0
    <3>2. 0 \in 0..(RetryLimit - 1)
      BY Constants
    <3>. QED
      BY <1>0, <1>2, <2>1, <3>1, <3>2 DEF Typed, SenderTyped
  <2>2. CASE SenderEnds("cancelled")
    BY <1>0, <1>2, <2>2, SenderEndsTyped DEF Final
  <2>3. CASE sphase = "ack0" /\ Retry
    BY <1>0, <1>2, <2>3, RetryTyped
  <2>. QED
    BY <1>2, <2>1, <2>2, <2>3 DEF AwaitAck0
<1>3. CASE UNCHANGED g_mode /\ AwaitC(b)
  <2>1. CASE sphase = "c" /\ Transmit(1)
    <3>1. sfile \in 1..NFiles /\ 1 \in Nat /\ 1 > 0
      BY <2>1 DEF Typed, SenderTyped
    <3>. QED
      BY <1>0, <1>3, <2>1, <3>1, TransmitTyped
  <2>2. CASE SenderEnds("cancelled")
    BY <1>0, <1>3, <2>2, SenderEndsTyped DEF Final
  <2>3. CASE sphase = "c" /\ Retry
    BY <1>0, <1>3, <2>3, RetryTyped
  <2>. QED
    BY <1>3, <2>1, <2>2, <2>3 DEF AwaitC
<1>4. CASE UNCHANGED g_mode /\ AwaitAck(b)
  <2>1. CASE sphase = "block" /\ Transmit(block + 1)
    <3>1. sfile \in 1..NFiles /\ block + 1 \in Nat /\ block + 1 > 0
      BY <2>1 DEF Typed, SenderTyped
    <3>. QED
      BY <1>0, <1>4, <2>1, <3>1, TransmitTyped
  <2>2. CASE sphase = "eot" /\ GoTo(sfile + 1)
    <3>1. sfile + 1 \in 1..EndOfBatch
      BY <2>2, Constants DEF Typed, SenderTyped
    <3>. QED
      BY <1>0, <1>4, <2>2, <3>1, GoToTyped
  <2>3. CASE SenderEnds("cancelled")
    BY <1>0, <1>4, <2>3, SenderEndsTyped DEF Final
  <2>4. CASE sphase \in {"block", "eot"} /\ Retry
    BY <1>0, <1>4, <2>4, RetryTyped
  <2>. QED
    BY <1>4, <2>1, <2>2, <2>3, <2>4 DEF AwaitAck
<1>5. CASE UNCHANGED g_mode /\ SenderEnds("returned")
  BY <1>0, <1>5, SenderEndsTyped DEF Final
<1>. QED
  BY <1>1, <1>2, <1>3, <1>4, <1>5 DEF SenderReads

LEMMA SenderTimeoutTyped ==
  ASSUME Typed, SenderTimeout
  PROVE  SenderTyped' /\ fwd' \in Seq(Frames)
<1>0. g_mode' \in BOOLEAN
  BY DEF SenderTimeout, Typed, SenderTyped
<1>1. CASE sphase \notin Final \cup {"stream", "last"} /\ Retry
  <2>1. sphase \in {"handshake", "ack0", "c", "block", "eot"}
    BY <1>1 DEF Typed, SenderTyped
  <2>. QED
    BY <1>0, <1>1, <2>1, RetryTyped
<1>2. CASE SenderEnds("returned")
  BY <1>0, <1>2, SenderEndsTyped DEF Final
<1>. QED
  BY <1>1, <1>2 DEF SenderTimeout

\* A file of the stream: its block 0, its data and EOT.
LEMMA StreamTyped ==
  ASSUME NEW f \in 1..NFiles, NEW q \in Seq(Frames)
  PROVE  Append(q, Block0(f)) \o [i \in 1..Blocks[f] |-> Data(f, i)] \o << Ctl("EOT") >>
           \in Seq(Frames)
<1>1. Block0(f) \in Frames /\ Ctl("EOT") \in Frames
  BY FrameTyped, Constants
<1>2. Blocks[f] \in Nat /\ \A i \in 1..Blocks[f] : Data(f, i) \in Frames
  BY FrameTyped, Constants
<1>3. [i \in 1..Blocks[f] |-> Data(f, i)] \in Seq(Frames)
  <2>1. [i \in 1..Blocks[f] |-> Data(f, i)] \in [1..Blocks[f] -> Frames]
    BY <1>2
  <2>. QED
    BY <1>2, <2>1, SeqDef
<1>4. << Ctl("EOT") >> \in Seq(Frames)
  BY <1>1
<1>5. Append(q, Block0(f)) \in Seq(Frames)
  BY <1>1, AppendProperties
<1>6. Append(q, Block0(f)) \o [i \in 1..Blocks[f] |-> Data(f, i)] \in Seq(Frames)
  BY <1>3, <1>5, ConcatProperties
<1>. QED
  BY <1>4, <1>6, ConcatProperties

LEMMA SenderStreamsTyped ==
  ASSUME Typed, SenderStreams
  PROVE  SenderTyped' /\ fwd' \in Seq(Frames)
<1>0. /\ sfile \in 1..EndOfBatch /\ fwd \in Seq(Frames) /\ sphase = "stream"
      /\ g_mode' = g_mode /\ g_mode \in BOOLEAN
  BY DEF SenderStreams, Typed, SenderTyped, LineTyped
<1>1. CASE sfile <= NFiles /\ ~GoTo(sfile)
  <2>1. sfile \in 1..NFiles /\ sfile + 1 \in 1..EndOfBatch
    BY <1>0, <1>1, Constants
  <2>2. fwd' \in Seq(Frames)
    BY <1>0, <1>1, <2>1, StreamTyped DEF SenderStreams
  <2>3. SenderTyped'
    BY <1>0, <1>1, <2>1 DEF SenderStreams, Typed, SenderTyped
  <2>. QED
    BY <2>2, <2>3
<1>2. CASE GoTo(sfile)
  BY <1>0, <1>2, GoToTyped
<1>. QED
  BY <1>1, <1>2 DEF SenderStreams

\* What the receiver answers.
LEMMA ReplyTyped ==
  ASSUME rev \in Seq(Replies), NEW x \in Seq(Replies), Reply(x)
  PROVE  rev' \in Seq(Replies)
BY ConcatProperties DEF Reply

LEMMA RepliesTyped ==
  /\ <<"ACK", InitChar>> \in Seq(Replies) /\ <<"ACK">> \in Seq(Replies)
  /\ <<"NAK">> \in Seq(Replies) /\ <<"CAN", "CAN">> \in Seq(Replies)
  /\ <<InitChar>> \in Seq(Replies) /\ <<>> \in Seq(Replies)
  /\ \A n \in Nat : [i \in 1..n |-> "NAK"] \in Seq(Replies)
<1>1. "ACK" \in Replies /\ "NAK" \in Replies /\ "CAN" \in Replies /\ InitChar \in Replies
  BY DEF Replies, InitChar
<1>2. ASSUME NEW n \in Nat PROVE [i \in 1..n |-> "NAK"] \in Seq(Replies)
  <2>1. [i \in 1..n |-> "NAK"] \in [1..n -> Replies]
    BY <1>1
  <2>. QED
    BY <2>1, SeqDef
<1>. QED
  BY <1>1, <1>2

LEMMA MissedTyped ==
  ASSUME Typed, rphase = "block0", NEW n \in Nat, Block0Missed(n), r_g_mode' = r_g_mode
  PROVE  ReceiverTyped' /\ rev' \in Seq(Replies)
<1>1. [i \in 1..n |-> "NAK"] \in Seq(Replies) /\ rev \in Seq(Replies)
  BY RepliesTyped DEF Typed, LineTyped
<1>2. rev' \in Seq(Replies)
  BY <1>1, ReplyTyped DEF Block0Missed
<1>3. errors' = errors + n /\ errors' \in Nat /\ RetryLimit \in Nat
  BY Constants DEF Block0Missed, Typed, ReceiverTyped
<1>4. ReceiverTyped'
  BY <1>3 DEF Block0Missed, Typed, ReceiverTyped, Final
<1>. QED
  BY <1>2, <1>4

\* The file written is as its blocks were.
LEMMA WrittenTyped ==
  ASSUME NEW f \in 1..NFiles, NEW b \in Seq(Places)
  PROVE  /\ Written(f, b) \in [blocks : Seq(Places), stripped : BOOLEAN]
         /\ Written(f, b).blocks = b \/ Written(f, b).blocks = SubSeq(b, 1, Blocks[f])
<1>1. Blocks[f] \in Nat /\ Len(b) \in Nat
  BY Constants, LenProperties
<1>2. CASE Longer(f, Len(b))
  <2>1. Blocks[f] <= Len(b)
    BY <1>1, <1>2 DEF Longer
  <2>2. \A i \in 1..Blocks[f] : i \in 1..Len(b)
    BY <1>1, <2>1
  <2>3. \A i \in 1..Blocks[f] : b[i] \in Places
    BY <2>2, ElementOfSeq
  <2>4. 1 \in Int /\ Blocks[f] \in Int
    BY <1>1
  <2>5. SubSeq(b, 1, Blocks[f]) \in Seq(Places)
    BY <2>3, <2>4, SubSeqProperties
  <2>. QED
    BY <1>2, <2>5 DEF Written
<1>3. CASE ~Longer(f, Len(b))
  BY <1>3 DEF Written
<1>. QED
  BY <1>2, <1>3

LEMMA Block0Typed ==
  ASSUME Typed, fwd # <<>>, ReceiveBlock0(Head(fwd)), r_g_mode' = r_g_mode
  PROVE  ReceiverTyped' /\ rev' \in Seq(Replies)
<1>. DEFINE t == Head(fwd)
<1>1. /\ t \in Frames /\ rphase = "block0" /\ errors \in Nat /\ errors < RetryLimit
      /\ rev \in Seq(Replies)
  BY TailAt DEF Typed, LineTyped, ReceiverTyped, ReceiveBlock0
<1>2. CASE t.kind = "BLOCK0" /\ Block0Read(t.file)
  <2>. DEFINE f == t.file
  <2>1. f \in 1..EndOfBatch
    BY <1>1, <1>2 DEF Frames
  <2>. HIDE DEF f
  <2>2. CASE f <= NFiles /\ rphase' = "data"
    <3>1. f \in 1..NFiles
      BY <2>1, <2>2, Constants
    <3>2. /\ rfile' = f /\ expected' = Number(1) /\ errors' = 0 /\ buffer' = <<>>
          /\ disk' = [disk EXCEPT ![f] = Opened] /\ received' = received
          /\ Reply(<<"ACK", InitChar>>)
      BY <1>2, <2>2, Constants DEF Block0Read, f
    <3>3. rev' \in Seq(Replies)
      BY <1>1, <3>2, ReplyTyped, RepliesTyped
    <3>4. Opened \in [blocks : Seq(Places), stripped : BOOLEAN]
      BY DEF Opened
    <3>5. disk' \in [1..NFiles -> [blocks : Seq(Places), stripped : BOOLEAN]]
      BY <3>1, <3>2, <3>4 DEF Typed, ReceiverTyped
    <3>6. Number(1) \in 0..(NumMod - 1) /\ <<>> \in Seq(Places)
      BY NumberTyped
    <3>. QED
      BY <2>2, <3>1, <3>2, <3>3, <3>5, <3>6 DEF Typed, ReceiverTyped
  <2>3. CASE rphase' = "returned" /\ errors' = 0 /\ Reply(<<"ACK">>)
             /\ UNCHANGED <<rfile, expected, buffer, disk, received>>
    <3>1. rev' \in Seq(Replies)
      BY <1>1, <2>3, ReplyTyped, RepliesTyped
    <3>. QED
      BY <2>3, <3>1 DEF Typed, ReceiverTyped, Final
  <2>. QED
    BY <1>2, <2>2, <2>3 DEF Block0Read, f
<1>3. CASE Block0Missed(1)
  BY <1>1, <1>3, MissedTyped
<1>4. CASE Block0Missed(RetryLimit - errors)
  <2>1. RetryLimit - errors \in Nat
    BY <1>1, Constants
  <2>. QED
    BY <1>1, <1>4, <2>1, MissedTyped
<1>5. CASE rphase' = "cancelled"
           /\ UNCHANGED <<rfile, expected, errors, buffer, disk, received, rev>>
  BY <1>5 DEF Typed, ReceiverTyped, LineTyped, Final
<1>. QED
  BY <1>2, <1>3, <1>4, <1>5 DEF ReceiveBlock0

LEMMA EotTyped ==
  ASSUME Typed, rphase = "data", ReceiveEot, r_g_mode' = r_g_mode
  PROVE  ReceiverTyped' /\ rev' \in Seq(Replies)
<1>1. /\ rfile \in 1..NFiles /\ buffer \in Seq(Places) /\ rev \in Seq(Replies)
      /\ received \in Seq(1..NFiles)
  BY DEF Typed, ReceiverTyped, LineTyped
<1>2. /\ disk' = [disk EXCEPT ![rfile] = Written(rfile, buffer)]
      /\ received' = Append(received, rfile) /\ rphase' = "block0" /\ errors' = 0
      /\ Reply(<<"ACK", InitChar>>) /\ UNCHANGED <<rfile, expected, buffer>>
  BY DEF ReceiveEot
<1>3. rev' \in Seq(Replies)
  BY <1>1, <1>2, ReplyTyped, RepliesTyped
<1>4. received' \in Seq(1..NFiles)
  BY <1>1, <1>2, AppendProperties
<1>5. Written(rfile, buffer) \in [blocks : Seq(Places), stripped : BOOLEAN]
  BY <1>1, WrittenTyped
<1>6. disk' \in [1..NFiles -> [blocks : Seq(Places), stripped : BOOLEAN]]
  BY <1>1, <1>2, <1>5 DEF Typed, ReceiverTyped
<1>7. 0 \in Nat /\ 0 < RetryLimit
  BY Constants
<1>. QED
  BY <1>1, <1>2, <1>3, <1>4, <1>6, <1>7 DEF Typed, ReceiverTyped

LEMMA FrameReadTyped ==
  ASSUME Typed, rphase = "data", fwd # <<>>, ReceiveFrame(Head(fwd)), r_g_mode' = r_g_mode
  PROVE  ReceiverTyped' /\ rev' \in Seq(Replies)
<1>. DEFINE t == Head(fwd)
<1>1. /\ t \in Frames /\ t.kind \in {"BLOCK0", "DATA"} /\ rev \in Seq(Replies)
      /\ expected \in Nat /\ buffer \in Seq(Places) /\ errors' = 0
      /\ UNCHANGED <<rfile, disk, received>>
  BY TailAt DEF Typed, LineTyped, ReceiverTyped, ReceiveFrame
<1>2. <<t.file, t.blk>> \in Places
  BY <1>1 DEF Frames, Places
<1>. HIDE DEF t
<1>3. CASE rphase' = rphase /\ Reply(<<"ACK">>) /\ UNCHANGED <<expected, buffer>>
  <2>1. rev' \in Seq(Replies)
    BY <1>1, <1>3, ReplyTyped, RepliesTyped
  <2>. QED
    BY <1>1, <1>3, <2>1 DEF Typed, ReceiverTyped
<1>4. CASE rphase' = "protocol" /\ Reply(<<"CAN", "CAN">>) /\ UNCHANGED <<expected, buffer>>
  <2>1. rev' \in Seq(Replies)
    BY <1>1, <1>4, ReplyTyped, RepliesTyped
  <2>. QED
    BY <1>1, <1>4, <2>1 DEF Typed, ReceiverTyped, Final
<1>5. CASE /\ buffer' = Append(buffer, <<t.file, t.blk>>) /\ expected' = NextNumber(expected)
           /\ Reply(IF r_g_mode THEN <<>> ELSE <<"ACK">>) /\ rphase' = rphase
  <2>1. (IF r_g_mode THEN <<>> ELSE <<"ACK">>) \in Seq(Replies)
    BY RepliesTyped
  <2>2. rev' \in Seq(Replies)
    BY <1>1, <1>5, <2>1, ReplyTyped
  <2>3. buffer' \in Seq(Places)
    BY <1>1, <1>2, <1>5, AppendProperties
  <2>4. expected' \in 0..(NumMod - 1)
    BY <1>1, <1>5, NumberTyped
  <2>. QED
    BY <1>1, <1>5, <2>2, <2>3, <2>4 DEF Typed, ReceiverTyped
<1>. QED
  BY <1>3, <1>4, <1>5 DEF ReceiveFrame, t

LEMMA ReceiverReadsTyped ==
  ASSUME Typed, ReceiverReads
  PROVE  ReceiverTyped' /\ rev' \in Seq(Replies)
<1>0. fwd # <<>> /\ r_g_mode' = r_g_mode /\ rev \in Seq(Replies)
  BY DEF ReceiverReads, Typed, LineTyped
<1>1. CASE ReceiveBlock0(Head(fwd))
  BY <1>0, <1>1, Block0Typed
<1>2. CASE ReceiveData(Head(fwd))
  <2>0. rphase = "data"
    BY <1>2 DEF ReceiveData
  <2>1. CASE ReceiveEot
    BY <1>0, <2>0, <2>1, EotTyped
  <2>2. CASE rphase' = "cancelled"
             /\ UNCHANGED <<rfile, expected, errors, buffer, disk, received, rev>>
    BY <1>0, <2>2 DEF Typed, ReceiverTyped, LineTyped, Final
  <2>3. CASE errors' = errors + 1 /\ Reply(<<"NAK">>)
             /\ UNCHANGED <<rphase, rfile, expected, buffer, disk, received>>
    <3>1. rev' \in Seq(Replies)
      BY <1>0, <2>3, ReplyTyped, RepliesTyped
    <3>. QED
      BY <1>0, <2>0, <2>3, <3>1 DEF Typed, ReceiverTyped
  <2>4. CASE ReceiveFrame(Head(fwd))
    BY <1>0, <2>0, <2>4, FrameReadTyped
  <2>. QED
    BY <1>2, <2>1, <2>2, <2>3, <2>4 DEF ReceiveData
<1>. QED
  BY <1>1, <1>2 DEF ReceiverReads

LEMMA ReceiverTimeoutTyped ==
  ASSUME Typed, ReceiverTimeout
  PROVE  ReceiverTyped' /\ rev' \in Seq(Replies)
<1>0. r_g_mode' = r_g_mode /\ rev \in Seq(Replies)
  BY DEF ReceiverTimeout, Typed, LineTyped
<1>1. CASE rphase = "block0" /\ Block0Missed(1)
  BY <1>0, <1>1, MissedTyped
<1>2. CASE /\ rphase = "data" /\ errors' = errors + 1
           /\ \/ rphase' = "timeout" /\ UNCHANGED rev
              \/ Reply(<<"NAK">>) /\ UNCHANGED rphase
           /\ UNCHANGED <<rfile, expected, buffer, disk, received>>
  <2>1. rev' \in Seq(Replies)
    BY <1>0, <1>2, ReplyTyped, RepliesTyped
  <2>. QED
    BY <1>0, <1>2, <2>1 DEF Typed, ReceiverTyped, Final
<1>. QED
  BY <1>1, <1>2 DEF ReceiverTimeout

LEMMA FaultsTyped ==
  ASSUME Typed
  PROVE  /\ ForwardFault => fwd' \in Seq(Frames)
         /\ ReverseFault => rev' \in Seq(Replies)
<1>0. fwd \in Seq(Frames) /\ rev \in Seq(Replies)
  BY DEF Typed, LineTyped
<1>1. ASSUME ForwardFault PROVE fwd' \in Seq(Frames)
  <2>1. fwd # <<>>
    BY <1>1 DEF ForwardFault
  <2>2. CASE fwd' = Tail(fwd)
    BY <1>0, <2>1, <2>2, TailAt
  <2>3. CASE fwd' = << [Head(fwd) EXCEPT !.ok = FALSE] >> \o Tail(fwd)
    <3>1. Head(fwd) \in Frames
      BY <1>0, <2>1, TailAt
    <3>2. \A t \in Frames : [t EXCEPT !.ok = FALSE] \in Frames
      BY DEF Frames
    <3>3. [Head(fwd) EXCEPT !.ok = FALSE] \in Frames
      BY <3>1, <3>2
    <3>. QED
      BY <1>0, <2>1, <2>3, <3>3, FrontTyped
  <2>4. CASE \E k \in Noise : fwd' = << Ctl(k) >> \o Tail(fwd)
    <3>1. PICK k \in Noise : fwd' = << Ctl(k) >> \o Tail(fwd)
      BY <2>4
    <3>2. Ctl(k) \in Frames
      BY FrameTyped, Constants
    <3>. QED
      BY <1>0, <2>1, <3>1, <3>2, FrontTyped
  <2>. QED
    BY <1>1, <2>2, <2>3, <2>4 DEF ForwardFault
<1>2. ASSUME ReverseFault PROVE rev' \in Seq(Replies)
  <2>1. rev # <<>>
    BY <1>2 DEF ReverseFault
  <2>2. CASE rev' = Tail(rev)
    BY <1>0, <2>1, <2>2, TailAt
  <2>3. CASE \E k \in Noise : rev' = << k >> \o Tail(rev)
    <3>1. PICK k \in Noise : rev' = << k >> \o Tail(rev)
      BY <2>3
    <3>2. k \in Replies
      BY Constants DEF Replies
    <3>. QED
      BY <1>0, <2>1, <3>1, <3>2, FrontTyped
  <2>. QED
    BY <1>2, <2>2, <2>3 DEF ReverseFault
<1>. QED
  BY <1>1, <1>2

LEMMA TimerTyped ==
  ASSUME TimerFires, late \in 0..MaxLate
  PROVE  late' \in 0..MaxLate
BY Constants DEF TimerFires

LEMMA TypedStep == Typed /\ [Next]_vars => Typed'
<1>. SUFFICES ASSUME Typed, [Next]_vars PROVE Typed'
  OBVIOUS
<1>0. /\ SenderTyped /\ ReceiverTyped /\ fwd \in Seq(Frames) /\ rev \in Seq(Replies)
      /\ faults \in 0..MaxFaults /\ late \in 0..MaxLate
  BY DEF Typed, LineTyped
<1>a. UNCHANGED senderVars => SenderTyped'
  BY <1>0 DEF senderVars, SenderTyped
<1>b. UNCHANGED receiverVars => ReceiverTyped'
  BY <1>0 DEF receiverVars, ReceiverTyped
<1>c. rev # <<>> => Tail(rev) \in Seq(Replies)
  BY <1>0, TailAt
<1>d. fwd # <<>> => Tail(fwd) \in Seq(Frames)
  BY <1>0, TailAt
<1>e. Fault => faults' \in 0..MaxFaults /\ late' = late
  BY <1>0, Constants DEF Fault
<1>1. CASE SenderReads
  BY <1>0, <1>1, <1>b, <1>c, SenderReadsTyped DEF SenderReads, Typed, LineTyped
<1>2. CASE SenderTimeout
  BY <1>0, <1>2, <1>b, SenderTimeoutTyped, TimerTyped DEF SenderTimeout, Typed, LineTyped
<1>3. CASE SenderStreams
  BY <1>0, <1>3, <1>b, SenderStreamsTyped DEF SenderStreams, Typed, LineTyped
<1>4. CASE ReceiverStart
  <2>1. rev' \in Seq(Replies)
    BY <1>0, <1>4, ReplyTyped, RepliesTyped DEF ReceiverStart
  <2>2. ReceiverTyped'
    BY <1>0, <1>4 DEF ReceiverStart, ReceiverTyped
  <2>. QED
    BY <1>0, <1>4, <1>a, <2>1, <2>2 DEF ReceiverStart, Typed, LineTyped
<1>5. CASE ReceiverReads
  BY <1>0, <1>5, <1>a, <1>d, ReceiverReadsTyped DEF ReceiverReads, Typed, LineTyped
<1>6. CASE ReceiverTimeout
  BY <1>0, <1>6, <1>a, ReceiverTimeoutTyped, TimerTyped DEF ReceiverTimeout, Typed, LineTyped
<1>7. CASE ForwardFault
  BY <1>0, <1>7, <1>a, <1>b, <1>e, FaultsTyped DEF ForwardFault, Typed, LineTyped
<1>8. CASE ReverseFault
  BY <1>0, <1>8, <1>a, <1>b, <1>e, FaultsTyped DEF ReverseFault, Typed, LineTyped
<1>9. CASE UNCHANGED vars
  BY <1>0, <1>9, <1>a, <1>b DEF vars, Typed, LineTyped
<1>. QED
  BY <1>1, <1>2, <1>3, <1>4, <1>5, <1>6, <1>7, <1>8, <1>9 DEF Next

LEMMA TypedInit == Init => Typed
<1>. SUFFICES ASSUME Init PROVE Typed
  OBVIOUS
<1>1. SenderTyped
  <2>1. 1 \in 1..EndOfBatch /\ 0 \in 0..(RetryLimit - 1)
    BY Constants
  <2>. QED
    BY <2>1 DEF Init, SenderTyped, Final
<1>2. Number(1) \in 0..(NumMod - 1) /\ <<>> \in Seq(Places) /\ <<>> \in Seq(1..NFiles)
  BY NumberTyped
<1>3. Opened \in [blocks : Seq(Places), stripped : BOOLEAN]
  BY DEF Opened
<1>4. ReceiverTyped
  BY <1>2, <1>3, Constants DEF Init, ReceiverTyped
<1>5. LineTyped
  BY Constants DEF Init, LineTyped
<1>. QED
  BY <1>1, <1>4, <1>5 DEF Typed

\* Both engines, what they collect, what is on the disk and what is on the line
\* stay within their types, and the retry loops within their limit, whatever the
\* line, the timers and the mode: send() and receive() of ymodem.py.
THEOREM BatchTypes == Spec => []TypeOK
<1>1. Typed => TypeOK
  <2>. SUFFICES ASSUME Typed PROVE TypeOK
    OBVIOUS
  <2>1. \A i \in 1..Len(rev) : rev[i] \in Replies
    BY ElementOfSeq DEF Typed, LineTyped
  <2>. QED
    BY <2>1 DEF Typed, SenderTyped, ReceiverTyped, LineTyped, TypeOK, Places
<1>. QED
  BY <1>1, TypedInit, TypedStep, PTL DEF Spec

-----------------------------------------------------------------------------
(* Block numbers *)

LEMMA RemainderUnique ==
  ASSUME NEW m \in Nat, m > 1, NEW p \in Int, NEW q \in Int,
         NEW r \in 0..(m - 1), NEW s \in 0..(m - 1),
         m * p + r = m * q + s
  PROVE  r = s
<1>1. m * (p - q) = s - r
  OBVIOUS
<1>2. CASE p - q >= 1
  <2>1. m * (p - q) >= m
    BY <1>2, SMTT(30)
  <2>. QED
    BY <1>1, <2>1
<1>3. CASE p - q <= -1
  <2>1. m * (p - q) <= -m
    BY <1>3, SMTT(30)
  <2>. QED
    BY <1>1, <2>1
<1>4. CASE p - q = 0
  BY <1>1, <1>4
<1>. QED
  BY <1>2, <1>3, <1>4

\* Dividing by the cycle leaves a number.
LEMMA Division ==
  ASSUME NEW a \in Nat
  PROVE  /\ a = NumMod * (a \div NumMod) + Number(a)
         /\ Number(a) \in 0..(NumMod - 1)
         /\ a \div NumMod \in Nat
<1>1. \A m \in Nat : m > 1 => /\ a = m * (a \div m) + (a % m)
                              /\ a % m \in 0..(m - 1)
                              /\ a \div m \in Nat
  BY Z3
<1>. QED
  BY <1>1, Constants DEF Number

LEMMA NumberIs ==
  ASSUME NEW a \in Nat, NEW q \in Int, NEW r \in 0..(NumMod - 1), a = NumMod * q + r
  PROVE  Number(a) = r
<1>1. /\ a = NumMod * (a \div NumMod) + Number(a)
      /\ Number(a) \in 0..(NumMod - 1) /\ a \div NumMod \in Int
  BY Division
<1>. QED
  BY <1>1, Constants, RemainderUnique

\* Receiver and sender count alike: the number after a block's is the next
\* block's, the number before it the last block's, and the two differ.
LEMMA Neighbours ==
  ASSUME NEW i \in Nat
  PROVE  /\ NextNumber(Number(i)) = Number(i + 1)
         /\ PrevNumber(Number(i + 1)) = Number(i)
         /\ Number(i + 1) # Number(i)
<1>. DEFINE q == i \div NumMod
            r == Number(i)
            s == IF r + 1 < NumMod THEN r + 1 ELSE 0
<1>1. i = NumMod * q + r /\ r \in 0..(NumMod - 1) /\ q \in Nat
  BY Division
<1>2. NumMod \in Nat /\ NumMod > 1
  BY Constants
<1>. HIDE DEF q, r
<1>a. r + 1 < NumMod \/ r + 1 = NumMod
  BY <1>1, <1>2
<1>3. Number(i + 1) = s
  <2>1. CASE r + 1 < NumMod
    <3>1. i + 1 = NumMod * q + (r + 1) /\ r + 1 \in 0..(NumMod - 1)
      BY <1>1, <1>2, <2>1
    <3>. QED
      BY <1>1, <2>1, <3>1, NumberIs
  <2>2. CASE r + 1 = NumMod
    <3>1. i + 1 = NumMod * (q + 1) + 0 /\ 0 \in 0..(NumMod - 1)
      BY <1>1, <1>2, <2>2
    <3>2. i + 1 \in Nat /\ q + 1 \in Int /\ ~(r + 1 < NumMod)
      BY <1>1, <1>2, <2>2
    <3>3. Number(i + 1) = 0
      BY <3>1, <3>2, NumberIs
    <3>. QED
      BY <3>2, <3>3
  <2>. QED
    BY <1>a, <2>1, <2>2
<1>4. NextNumber(r) = s
  <2>1. CASE r + 1 < NumMod
    <3>1. r + 1 = NumMod * 0 + (r + 1) /\ r + 1 \in 0..(NumMod - 1)
      BY <1>1, <1>2, <2>1
    <3>. QED
      BY <1>1, <2>1, <3>1, NumberIs DEF NextNumber, Number
  <2>2. CASE r + 1 = NumMod
    <3>1. r + 1 = NumMod * 1 + 0 /\ 0 \in 0..(NumMod - 1)
      BY <1>1, <1>2, <2>2
    <3>2. r + 1 \in Nat /\ 1 \in Int /\ ~(r + 1 < NumMod)
      BY <1>1, <1>2, <2>2
    <3>3. Number(r + 1) = 0
      BY <3>1, <3>2, NumberIs
    <3>. QED
      BY <3>2, <3>3 DEF NextNumber, Number
  <2>. QED
    BY <1>a, <2>1, <2>2
<1>5. PrevNumber(s) = r
  <2>1. CASE r + 1 < NumMod
    <3>1. s + NumMod - 1 = NumMod * 1 + r /\ s + NumMod - 1 \in Nat
      BY <1>1, <1>2, <2>1
    <3>. QED
      BY <1>1, <3>1, NumberIs DEF PrevNumber, Number
  <2>2. CASE r + 1 = NumMod
    <3>1. s + NumMod - 1 = NumMod * 0 + r /\ s + NumMod - 1 \in Nat
      BY <1>1, <1>2, <2>2
    <3>. QED
      BY <1>1, <3>1, NumberIs DEF PrevNumber, Number
  <2>. QED
    BY <1>a, <2>1, <2>2
<1>6. s # r
  BY <1>1, <1>2
<1>. QED
  BY <1>3, <1>4, <1>5, <1>6 DEF r

-----------------------------------------------------------------------------
(* Answers under way *)

Has(q, x) == \E i \in 1..Len(q) : q[i] = x

\* An ACK comes only as the last answer but one, before the request for data or
\* for the next file.
AckEnds(q) == \A i \in 1..Len(q) : q[i] = "ACK" => i + 1 = Len(q) /\ q[i + 1] = "C"

\* What one read or one fault leaves of the answers.
Thinner(q, r) ==
  /\ Len(r) <= Len(q)
  /\ AckEnds(q) => AckEnds(r)
  /\ \A x \in {"ACK", "C", "G"} : Has(r, x) => Has(q, x)

LEMMA ThinTail ==
  ASSUME NEW q \in Seq(Replies), q # <<>>
  PROVE  /\ Thinner(q, Tail(q))
         /\ Head(q) = q[1] /\ Len(q) \in Nat \ {0} /\ Len(Tail(q)) = Len(q) - 1
         /\ Tail(q) \in Seq(Replies) /\ \A i \in 1..Len(Tail(q)) : Tail(q)[i] = q[i + 1]
<1>1. /\ Head(q) = q[1] /\ Len(q) \in Nat \ {0} /\ Len(Tail(q)) = Len(q) - 1
      /\ Tail(q) \in Seq(Replies) /\ \A i \in 1..Len(Tail(q)) : Tail(q)[i] = q[i + 1]
  BY TailAt
<1>. DEFINE r == Tail(q)
<1>. HIDE DEF r
<1>2. Len(q) \in Nat /\ Len(r) = Len(q) - 1 /\ \A i \in 1..Len(r) : i + 1 \in 1..Len(q) /\ r[i] = q[i + 1]
  BY <1>1 DEF r
<1>3. \A x : Has(r, x) => Has(q, x)
  BY <1>2 DEF Has
<1>4. ASSUME AckEnds(q) PROVE AckEnds(r)
  <2>. SUFFICES ASSUME NEW i \in 1..Len(r), r[i] = "ACK"
                PROVE  i + 1 = Len(r) /\ r[i + 1] = "C"
    BY DEF AckEnds
  <2>1. i + 1 \in 1..Len(q) /\ q[i + 1] = "ACK"
    BY <1>2
  <2>2. (i + 1) + 1 = Len(q) /\ q[(i + 1) + 1] = "C"
    BY <1>4, <2>1 DEF AckEnds
  <2>3. i + 1 = Len(r) /\ i + 1 \in 1..Len(r)
    BY <1>2, <2>2
  <2>. QED
    BY <1>2, <2>2, <2>3
<1>. QED
  BY <1>1, <1>2, <1>3, <1>4 DEF Thinner, r

LEMMA ThinFront ==
  ASSUME NEW q \in Seq(Replies), q # <<>>, NEW k \in {"CAN", "JUNK"}
  PROVE  Thinner(q, <<k>> \o Tail(q)) /\ Len(<<k>> \o Tail(q)) = Len(q)
<1>. DEFINE r == <<k>> \o Tail(q)
<1>0. k \in Replies
  BY DEF Replies
<1>1. /\ Len(r) = Len(q) /\ r[1] = k /\ \A i \in 2..Len(q) : r[i] = q[i]
  BY <1>0, FrontTyped
<1>2. Len(q) \in Nat \ {0}
  BY TailAt
<1>. HIDE DEF r
<1>3. ASSUME NEW i \in 1..Len(r) PROVE i \in 1..Len(q) /\ (r[i] = q[i] \/ r[i] = k)
  BY <1>1, <1>2
<1>4. \A x \in {"ACK", "C", "G"} : Has(r, x) => Has(q, x)
  BY <1>3 DEF Has
<1>5. ASSUME AckEnds(q) PROVE AckEnds(r)
  <2>. SUFFICES ASSUME NEW i \in 1..Len(r), r[i] = "ACK"
                PROVE  i + 1 = Len(r) /\ r[i + 1] = "C"
    BY DEF AckEnds
  <2>1. i \in 1..Len(q) /\ q[i] = "ACK"
    BY <1>3
  <2>2. i + 1 = Len(q) /\ q[i + 1] = "C"
    BY <1>5, <2>1 DEF AckEnds
  <2>3. i + 1 \in 2..Len(q)
    BY <1>2, <2>2
  <2>. QED
    BY <1>1, <2>2, <2>3
<1>. QED
  BY <1>1, <1>2, <1>4, <1>5 DEF Thinner, r

LEMMA ThinSame == ASSUME NEW q \in Seq(Replies) PROVE Thinner(q, q)
BY LenProperties DEF Thinner

\* What a further answer adds.
LEMMA Added ==
  ASSUME NEW q \in Seq(Replies), NEW a \in Seq(Replies)
  PROVE  /\ Len(q \o a) = Len(q) + Len(a)
         /\ \A x : Has(q \o a, x) => Has(q, x) \/ Has(a, x)
         /\ ~Has(q, "ACK") /\ AckEnds(a) => AckEnds(q \o a)
<1>. DEFINE r == q \o a
<1>1. Len(q) \in Nat /\ Len(a) \in Nat
  BY LenProperties
<1>2. Len(r) = Len(q) + Len(a) /\ \A i \in 1..Len(r) :
        r[i] = IF i <= Len(q) THEN q[i] ELSE a[i - Len(q)]
  BY ConcatProperties
<1>. HIDE DEF r
<1>3. ASSUME NEW i \in 1..Len(r)
      PROVE  \/ i \in 1..Len(q) /\ r[i] = q[i]
             \/ i - Len(q) \in 1..Len(a) /\ r[i] = a[i - Len(q)]
  BY <1>1, <1>2
<1>4. \A x : Has(r, x) => Has(q, x) \/ Has(a, x)
  BY <1>3 DEF Has
<1>5. ASSUME ~Has(q, "ACK"), AckEnds(a) PROVE AckEnds(r)
  <2>. SUFFICES ASSUME NEW i \in 1..Len(r), r[i] = "ACK"
                PROVE  i + 1 = Len(r) /\ r[i + 1] = "C"
    BY DEF AckEnds
  <2>1. i - Len(q) \in 1..Len(a) /\ a[i - Len(q)] = "ACK"
    BY <1>3, <1>5 DEF Has
  <2>2. (i - Len(q)) + 1 = Len(a) /\ a[(i - Len(q)) + 1] = "C"
    BY <1>5, <2>1 DEF AckEnds
  <2>3. /\ i + 1 = Len(r) /\ i + 1 \in 1..Len(r) /\ ~(i + 1 <= Len(q))
        /\ (i + 1) - Len(q) = (i - Len(q)) + 1
    BY <1>1, <1>2, <2>1, <2>2
  <2>. QED
    BY <1>2, <2>2, <2>3
<1>. QED
  BY <1>2, <1>4, <1>5 DEF r

LEMMA ShortAnswers ==
  /\ ~Has(<<>>, "ACK") /\ ~Has(<<>>, "C") /\ ~Has(<<>>, "G") /\ AckEnds(<<>>)
  /\ ~Has(<<"NAK">>, "ACK") /\ ~Has(<<"NAK">>, "C") /\ ~Has(<<"NAK">>, "G")
  /\ ~Has(<<"ACK">>, "G") /\ ~Has(<<"C">>, "ACK") /\ ~Has(<<"C">>, "G")
  /\ ~Has(<<"ACK", "C">>, "G") /\ AckEnds(<<"ACK", "C">>) /\ AckEnds(<<"NAK">>)
  /\ Len(<<"NAK">>) = 1 /\ Len(<<"ACK">>) = 1 /\ Len(<<"ACK", "C">>) = 2 /\ Len(<<"C">>) = 1
BY DEF Has, AckEnds

-----------------------------------------------------------------------------
(* Block by block, with no timer ahead of an answer *)

Closed == Len(received)

Mangled == {"EOT", "CAN", "JUNK"}

\* What can be under way to a receiver that reads: a block 0 where one is
\* wanted, the data block or the EOT the sender waits on, one at a time; only
\* an EOT sent again, after its answer was lost, can come in the wrong place.
LineInv ==
  /\ rphase = "block0" =>
       \/ Len(fwd) = 0
       \/ /\ Len(fwd) = 1 /\ fwd[1].kind = "BLOCK0" /\ fwd[1].file = sfile
          /\ sphase \in {"ack0", "last"} \cup Final
          /\ sfile = Closed + 1
       \/ /\ \A k \in 1..Len(fwd) : fwd[k].kind \in Mangled
          /\ sphase \in {"eot"} \cup Final
  /\ rphase = "data" =>
       \/ Len(fwd) = 0
       \/ /\ Len(fwd) = 1 /\ fwd[1].kind = "DATA"
          /\ fwd[1].file = sfile /\ fwd[1].blk = block
          /\ sphase \in {"block"} \cup Final
          /\ sfile = Closed + 1 /\ block \in 1..Blocks[sfile]
          /\ Len(buffer) \in {block - 1, block}
       \/ /\ Len(fwd) = 1 /\ fwd[1].kind \in Mangled
          /\ sphase \in {"eot"} \cup Final
          /\ sfile = Closed + 1 /\ Len(buffer) = Blocks[sfile]

\* Before receive() runs nothing has happened.
StartInv == rphase = "start" => sphase = "handshake" /\ Len(fwd) = 0 /\ Len(rev) = 0

HandshakeInv ==
  sphase = "handshake" =>
    Closed = 0 /\ sfile = 1 /\ ~Has(rev, "ACK") /\ rphase # "data"

\* Only the block 0 of this file has been answered.
Ack0Inv ==
  sphase = "ack0" =>
    /\ sfile = Closed + 1 /\ AckEnds(rev)
    /\ rphase = "data" => Len(buffer) = 0
    /\ Has(rev, "ACK") => rphase = "data"

CInv ==
  sphase = "c" =>
    /\ sfile = Closed + 1 /\ ~Has(rev, "ACK")
    /\ rphase \in {"data"} \cup Final
    /\ rphase = "data" => Len(buffer) = 0
    /\ Has(rev, "C") => rphase = "data" /\ Len(rev) = 1

\* An ACK under way is for the block that is being sent.
BlockInv ==
  sphase = "block" =>
    /\ sfile = Closed + 1 /\ block \in 1..Blocks[sfile]
    /\ rphase \in {"data"} \cup Final
    /\ rphase = "data" => /\ Len(buffer) \in {block - 1, block}
                          /\ Len(fwd) + Len(rev) <= 1
    /\ Has(rev, "ACK") => rphase = "data" /\ Len(buffer) = block

\* One under way with EOT is for the EOT, and the file is closed by then.
EotInv ==
  sphase = "eot" =>
    /\ AckEnds(rev)
    /\ rphase = "data" => /\ sfile = Closed + 1 /\ Len(buffer) = Blocks[sfile]
                          /\ Len(fwd) + Len(rev) <= 1
    /\ rphase = "block0" => sfile = Closed
    /\ Has(rev, "ACK") => rphase = "block0" /\ Len(rev) = 2 /\ Len(fwd) = 0

LastInv == sphase \in {"last", "returned"} => Closed = NFiles

\* What the receiver has closed is whole; what it collects are the file's first
\* blocks, and it wants the next.
RecvInv ==
  /\ \A k \in 1..Closed : received[k] = k
  /\ \A k \in 1..Closed : /\ disk[k].blocks = FileBlocks(k)
                          /\ k \in Known \ Exact => ~disk[k].stripped
  /\ \A k \in 1..NFiles : k > Closed => disk[k].blocks = <<>>
  /\ rphase = "data" => /\ rfile = Closed + 1 /\ Len(buffer) <= Blocks[rfile]
                        /\ \A i \in 1..Len(buffer) : buffer[i] = <<rfile, i>>
                        /\ expected = Number(Len(buffer) + 1)
  /\ rphase = "returned" => Closed = NFiles

Acked == ~r_g_mode /\ late = 0

SentInv ==
  /\ ~g_mode /\ sphase # "stream" /\ ~Has(rev, "G")
  /\ LineInv /\ StartInv /\ HandshakeInv /\ Ack0Inv /\ CInv /\ BlockInv /\ EotInv /\ LastInv

Calm == Typed /\ SentInv /\ RecvInv

\* Sizes and places that every step below uses.
LEMMA CalmFacts ==
  ASSUME Typed
  PROVE  /\ Closed \in Nat /\ Len(fwd) \in Nat /\ Len(rev) \in Nat /\ Len(buffer) \in Nat
         /\ sfile \in 1..EndOfBatch /\ block \in Nat /\ NFiles \in Nat
         /\ EndOfBatch = NFiles + 1
         /\ \A f \in 1..NFiles : Blocks[f] \in Nat
         /\ sphase \in {"ack0", "c", "block", "eot"} => sfile \in 1..NFiles
         /\ rphase = "data" => rfile \in 1..NFiles
         /\ fwd \in Seq(Frames) /\ rev \in Seq(Replies) /\ buffer \in Seq(Places)
         /\ received \in Seq(1..NFiles)
         /\ sphase \in {"handshake", "ack0", "c", "block", "eot", "stream", "last"} \cup Final
         /\ rphase \in {"start", "block0", "data"} \cup Final
<1>1. received \in Seq(1..NFiles) /\ fwd \in Seq(Frames) /\ rev \in Seq(Replies)
      /\ buffer \in Seq(Places)
  BY DEF Typed, ReceiverTyped, LineTyped
<1>2. Closed \in Nat /\ Len(fwd) \in Nat /\ Len(rev) \in Nat /\ Len(buffer) \in Nat
  BY <1>1, LenProperties DEF Closed
<1>. QED
  BY <1>1, <1>2, Constants DEF Typed, SenderTyped, ReceiverTyped

\* The receiver's part is untouched by the sender and by the line.
LEMMA RecvKept ==
  ASSUME RecvInv, UNCHANGED receiverVars
  PROVE  RecvInv' /\ Closed' = Closed
BY DEF RecvInv, receiverVars, Closed, FileBlocks, Number

\* The sender goes on waiting, or ends: it has written nothing.
LEMMA SenderStays ==
  ASSUME Typed, SentInv, UNCHANGED <<receiverVars, sfile, block, g_mode, fwd>>,
         rphase # "start", Typed', Thinner(rev, rev'),
         \/ sphase' = sphase
         \/ sphase' \in Final \ {"returned"}
         \/ sphase = "last" /\ sphase' = "returned"
  PROVE  SentInv'
<1>1. /\ UNCHANGED <<rphase, buffer, sfile, block, g_mode, fwd>>
      /\ Closed' = Closed
      /\ Len(rev) \in Nat /\ Len(rev') \in Nat /\ Len(fwd) \in Nat /\ Len(rev') <= Len(rev)
      /\ AckEnds(rev) => AckEnds(rev')
      /\ Has(rev', "ACK") => Has(rev, "ACK")
      /\ Has(rev', "C") => Has(rev, "C")
      /\ Has(rev', "G") => Has(rev, "G")
  BY CalmFacts DEF receiverVars, Closed, Thinner, Typed, LineTyped
<1>2. AckEnds(rev)' = AckEnds(rev')
  BY DEF AckEnds
<1>3. Has(rev, "ACK")' = Has(rev', "ACK") /\ Has(rev, "C")' = Has(rev', "C")
      /\ Has(rev, "G")' = Has(rev', "G")
  BY DEF Has
<1>4. LineInv'
  BY <1>1 DEF SentInv, LineInv, Final
<1>5. StartInv' /\ LastInv'
  BY <1>1 DEF SentInv, StartInv, LastInv, Final
<1>6. HandshakeInv'
  BY <1>1, <1>3 DEF SentInv, HandshakeInv, Final
<1>7. Ack0Inv'
  BY <1>1, <1>2, <1>3 DEF SentInv, Ack0Inv, Final
<1>8. CInv'
  <2>1. Has(rev', "C") => Len(rev') >= 1
    BY <1>1 DEF Has
  <2>. QED
    BY <1>1, <1>3, <2>1 DEF SentInv, CInv, Final
<1>9. BlockInv'
  BY <1>1, <1>3, CalmFacts DEF SentInv, BlockInv, Final
<1>10. EotInv'
  <2>. SUFFICES ASSUME sphase' = "eot" PROVE EotInv'
    BY DEF EotInv
  <2>1. sphase = "eot" /\ EotInv
    BY DEF SentInv, Final
  <2>2. Has(rev', "ACK") /\ AckEnds(rev') => Len(rev') >= 2
    BY <1>1 DEF Has, AckEnds
  <2>3. AckEnds(rev') /\ (Has(rev', "ACK") => rphase = "block0" /\ Len(rev') = 2 /\ Len(fwd) = 0)
    <3>1. AckEnds(rev')
      BY <1>1, <2>1 DEF EotInv
    <3>2. ASSUME Has(rev', "ACK") PROVE Has(rev, "ACK") /\ Len(rev') >= 2
      BY <1>1, <2>2, <3>1, <3>2
    <3>3. Has(rev, "ACK") => rphase = "block0" /\ Len(rev) = 2 /\ Len(fwd) = 0
      BY <2>1 DEF EotInv
    <3>4. ASSUME Has(rev', "ACK")
          PROVE  rphase = "block0" /\ Len(rev') = 2 /\ Len(fwd) = 0
      <4>1. rphase = "block0" /\ Len(rev) = 2 /\ Len(fwd) = 0
        BY <3>2, <3>3, <3>4
      <4>2. Len(rev') >= 2 /\ Len(rev') <= 2
        BY <1>1, <3>2, <3>4, <4>1
      <4>. QED
        BY <1>1, <4>1, <4>2
    <3>. QED
      BY <3>1, <3>4
  <2>4. rphase = "data" => sfile = Closed + 1 /\ Len(buffer) = Blocks[sfile]
                           /\ Len(fwd) + Len(rev') <= 1
    BY <1>1, <2>1 DEF EotInv
  <2>. QED
    BY <1>1, <1>2, <1>3, <2>1, <2>3, <2>4 DEF EotInv
<1>. QED
  BY <1>1, <1>3, <1>4, <1>5, <1>6, <1>7, <1>8, <1>9, <1>10 DEF SentInv, Final

\* A further frame on the line.
LEMMA FurtherFrame ==
  ASSUME NEW q \in Seq(Frames), NEW t \in Frames
  PROVE  /\ Len(Append(q, t)) = Len(q) + 1 /\ Append(q, t)[Len(q) + 1] = t
         /\ \A k \in 1..Len(q) : Append(q, t)[k] = q[k]
BY AppendProperties

\* A block or EOT is written again when nothing else is under way.
LEMMA SenderResends ==
  ASSUME Typed, SentInv, UNCHANGED <<receiverVars, sphase, sfile, block, g_mode>>,
         rphase # "start", Typed', Thinner(rev, rev'), ~Has(rev', "ACK"),
         rphase = "data" => Len(fwd) = 0 /\ Len(rev') = 0,
         \/ sphase = "block" /\ fwd' = Append(fwd, Data(sfile, block))
         \/ sphase = "eot" /\ fwd' = Append(fwd, Ctl("EOT"))
  PROVE  SentInv'
<1>1. /\ UNCHANGED <<rphase, buffer, sphase, sfile, block, g_mode>>
      /\ Closed' = Closed /\ sphase \in {"block", "eot"}
      /\ Len(rev) \in Nat /\ Len(rev') \in Nat /\ Len(fwd) \in Nat /\ Len(rev') <= Len(rev)
      /\ Has(rev', "G") => Has(rev, "G")
  BY CalmFacts DEF receiverVars, Closed, Thinner, Typed, LineTyped
<1>2. AckEnds(rev') /\ ~Has(rev', "G")
  BY <1>1 DEF AckEnds, Has, SentInv
<1>3. StartInv' /\ LastInv' /\ HandshakeInv' /\ Ack0Inv' /\ CInv'
  BY <1>1 DEF StartInv, LastInv, HandshakeInv, Ack0Inv, CInv
<1>4. CASE sphase = "block"
  <2>. DEFINE t == Data(sfile, block)
  <2>1. t \in Frames /\ t.kind = "DATA" /\ t.file = sfile /\ t.blk = block
    BY <1>4, CalmFacts, FrameTyped DEF Data
  <2>. HIDE DEF t
  <2>2. fwd' = Append(fwd, t) /\ Len(fwd') = Len(fwd) + 1 /\ fwd'[Len(fwd) + 1] = t
    BY <1>4, <2>1, CalmFacts, FurtherFrame DEF t
  <2>3. /\ sfile = Closed + 1 /\ block \in 1..Blocks[sfile]
        /\ rphase \in {"data"} \cup Final
        /\ rphase = "data" => Len(buffer) \in {block - 1, block}
    BY <1>4 DEF SentInv, BlockInv
  <2>4. rphase = "data" => Len(fwd') = 1 /\ fwd'[1] = t
    BY <1>1, <2>2
  <2>5. LineInv'
    BY <1>1, <1>4, <2>1, <2>3, <2>4 DEF LineInv, Final
  <2>6. BlockInv'
    BY <1>1, <1>4, <2>3, <2>4 DEF BlockInv
  <2>7. EotInv'
    BY <1>1, <1>4 DEF EotInv
  <2>. QED
    BY <1>1, <1>2, <1>3, <2>5, <2>6, <2>7 DEF SentInv
<1>5. CASE sphase = "eot"
  <2>. DEFINE t == Ctl("EOT")
  <2>1. t \in Frames /\ t.kind \in Mangled
    BY FrameTyped DEF Ctl, Mangled
  <2>. HIDE DEF t
  <2>2. /\ fwd' = Append(fwd, t) /\ Len(fwd') = Len(fwd) + 1 /\ fwd'[Len(fwd) + 1] = t
        /\ \A k \in 1..Len(fwd) : fwd'[k] = fwd[k]
    <3>1. fwd' = Append(fwd, t) /\ fwd \in Seq(Frames)
      BY <1>5, CalmFacts DEF t
    <3>. QED
      BY <2>1, <3>1, FurtherFrame, Zenon
  <2>3. /\ rphase = "data" => sfile = Closed + 1 /\ Len(buffer) = Blocks[sfile]
        /\ rphase = "block0" => sfile = Closed
    BY <1>5 DEF SentInv, EotInv
  <2>4. rphase = "data" => Len(fwd') = 1 /\ fwd'[1] = t
    BY <1>1, <2>2
  <2>5. rphase = "block0" => \A k \in 1..Len(fwd) : fwd[k].kind \in Mangled
    BY <1>1, <1>5 DEF SentInv, LineInv, Final
  <2>6. rphase = "block0" => \A k \in 1..Len(fwd') : fwd'[k].kind \in Mangled
    BY <1>1, <2>1, <2>2, <2>5
  <2>7. LineInv'
    BY <1>1, <1>5, <2>1, <2>3, <2>4, <2>6 DEF LineInv
  <2>8. BlockInv'
    BY <1>1, <1>5 DEF BlockInv
  <2>9. EotInv'
    BY <1>1, <1>2, <1>5, <2>3, <2>4 DEF EotInv
  <2>. QED
    BY <1>1, <1>2, <1>3, <2>7, <2>8, <2>9 DEF SentInv
<1>. QED
  BY <1>1, <1>4, <1>5

\* It goes to a file once the one before is closed.
LEMMA SenderGoes ==
  ASSUME Typed, SentInv, UNCHANGED <<receiverVars>>, ~g_mode',
         Typed', Thinner(rev, rev'), ~Has(rev', "ACK"),
         rphase \in {"block0"} \cup Final, rphase = "block0" => Len(fwd) = 0,
         NEW f \in 1..EndOfBatch, f = Closed + 1, GoTo(f)
  PROVE  SentInv'
<1>1. /\ UNCHANGED <<rphase, buffer>> /\ rphase \notin {"start", "data"}
      /\ Closed' = Closed
      /\ Has(rev', "G") => Has(rev, "G")
      /\ Len(fwd) \in Nat /\ Closed \in Nat /\ EndOfBatch = NFiles + 1 /\ NFiles \in Nat
  BY CalmFacts DEF receiverVars, Closed, Thinner, Typed, LineTyped, Final
<1>2. AckEnds(rev') /\ ~Has(rev', "G")
  BY <1>1 DEF AckEnds, Has, SentInv
<1>. DEFINE t == Block0(f)
<1>3. /\ sfile' = f /\ fwd' = Append(fwd, t)
      /\ sphase' = IF f = EndOfBatch THEN "last" ELSE "ack0"
  BY DEF GoTo
<1>4. t \in Frames /\ t.kind = "BLOCK0" /\ t.file = f
  BY FrameTyped DEF Block0
<1>. HIDE DEF t
<1>5. Len(fwd') = Len(fwd) + 1 /\ fwd'[Len(fwd) + 1] = t
  BY <1>3, <1>4, CalmFacts, FurtherFrame
<1>6. rphase = "block0" => Len(fwd') = 1 /\ fwd'[1] = t
  BY <1>5
<1>7. LineInv'
  BY <1>1, <1>3, <1>4, <1>6 DEF LineInv
<1>8. LastInv'
  BY <1>1, <1>3 DEF LastInv
<1>9. StartInv' /\ HandshakeInv' /\ CInv' /\ BlockInv' /\ EotInv'
  BY <1>1, <1>3 DEF StartInv, HandshakeInv, CInv, BlockInv, EotInv
<1>10. Ack0Inv'
  BY <1>1, <1>2, <1>3 DEF Ack0Inv
<1>. QED
  BY <1>2, <1>3, <1>7, <1>8, <1>9, <1>10 DEF SentInv

\* It goes to a block, or to EOT, once those before have been accepted.
LEMMA SenderTransmits ==
  ASSUME Typed, SentInv, UNCHANGED <<receiverVars, g_mode>>,
         Typed', Thinner(rev, rev'), ~Has(rev', "ACK"),
         sfile \in 1..NFiles, sfile = Closed + 1, rphase \in {"data"} \cup Final,
         NEW i \in Nat, i > 0, i <= Blocks[sfile] + 1, Transmit(i),
         rphase = "data" => Len(buffer) = i - 1 /\ Len(fwd) = 0 /\ Len(rev') = 0
  PROVE  SentInv'
<1>1. /\ UNCHANGED <<rphase, buffer, g_mode, sfile>> /\ rphase \notin {"start", "block0"}
      /\ Closed' = Closed /\ block' = i
      /\ Has(rev', "G") => Has(rev, "G")
      /\ Len(fwd) \in Nat /\ Blocks[sfile] \in Nat
  BY CalmFacts DEF receiverVars, Closed, Thinner, Typed, LineTyped, Final, Transmit
<1>2. AckEnds(rev') /\ ~Has(rev', "G")
  BY <1>1 DEF AckEnds, Has, SentInv
<1>3. CASE i <= Blocks[sfile] /\ sphase' = "block" /\ fwd' = Append(fwd, Data(sfile, i))
  <2>. DEFINE t == Data(sfile, i)
  <2>1. t \in Frames /\ t.kind = "DATA" /\ t.file = sfile /\ t.blk = i
    BY FrameTyped DEF Data
  <2>. HIDE DEF t
  <2>2. Len(fwd') = Len(fwd) + 1 /\ fwd'[Len(fwd) + 1] = t
    BY <1>3, <2>1, CalmFacts, FurtherFrame DEF t
  <2>3. rphase = "data" => Len(fwd') = 1 /\ fwd'[1] = t
    BY <2>2
  <2>4. i \in 1..Blocks[sfile]
    BY <1>1, <1>3
  <2>5. LineInv'
    BY <1>1, <1>3, <2>1, <2>3, <2>4 DEF LineInv
  <2>6. BlockInv'
    BY <1>1, <1>3, <2>3, <2>4 DEF BlockInv
  <2>7. StartInv' /\ HandshakeInv' /\ Ack0Inv' /\ CInv' /\ EotInv' /\ LastInv'
    BY <1>1, <1>3 DEF StartInv, HandshakeInv, Ack0Inv, CInv, EotInv, LastInv
  <2>. QED
    BY <1>1, <1>2, <1>3, <2>5, <2>6, <2>7 DEF SentInv
<1>4. CASE i > Blocks[sfile] /\ sphase' = "eot" /\ fwd' = Append(fwd, Ctl("EOT"))
  <2>. DEFINE t == Ctl("EOT")
  <2>1. t \in Frames /\ t.kind \in Mangled
    BY FrameTyped DEF Ctl, Mangled
  <2>. HIDE DEF t
  <2>2. Len(fwd') = Len(fwd) + 1 /\ fwd'[Len(fwd) + 1] = t
    BY <1>4, <2>1, CalmFacts, FurtherFrame DEF t
  <2>3. rphase = "data" => Len(fwd') = 1 /\ fwd'[1] = t
    BY <2>2
  <2>4. rphase = "data" => Len(buffer) = Blocks[sfile]
    BY <1>1, <1>4
  <2>5. LineInv'
    BY <1>1, <1>4, <2>1, <2>3, <2>4 DEF LineInv
  <2>6. EotInv'
    BY <1>1, <1>2, <1>4, <2>3, <2>4 DEF EotInv
  <2>7. StartInv' /\ HandshakeInv' /\ Ack0Inv' /\ CInv' /\ BlockInv' /\ LastInv'
    BY <1>1, <1>4 DEF StartInv, HandshakeInv, Ack0Inv, CInv, BlockInv, LastInv
  <2>. QED
    BY <1>1, <1>2, <1>4, <2>5, <2>6, <2>7 DEF SentInv
<1>. QED
  BY <1>3, <1>4 DEF Transmit

\* No usable answer.
LEMMA RetryCalm ==
  ASSUME Typed, SentInv, UNCHANGED <<receiverVars, g_mode>>, rphase # "start", Typed',
         Thinner(rev, rev'), Retry,
         sphase \in {"handshake", "ack0", "c", "block", "eot"},
         sphase \in {"block", "eot"} =>
           /\ ~Has(rev', "ACK")
           /\ rphase = "data" => Len(fwd) = 0 /\ Len(rev') = 0
  PROVE  SentInv'
<1>0. UNCHANGED <<sfile, block>>
  BY DEF Retry
<1>1. CASE UNCHANGED fwd /\ sphase' = sphase
  BY <1>0, <1>1, SenderStays
<1>2. CASE UNCHANGED fwd /\ sphase' = "failed"
  BY <1>0, <1>2, SenderStays DEF Final
<1>3. CASE sphase' = sphase /\ sphase = "block" /\ fwd' = Append(fwd, Data(sfile, block))
  BY <1>0, <1>3, SenderResends
<1>4. CASE sphase' = sphase /\ sphase = "eot" /\ fwd' = Append(fwd, Ctl("EOT"))
  BY <1>0, <1>4, SenderResends
<1>. QED
  BY <1>1, <1>2, <1>3, <1>4 DEF Retry

\* After a file's block 0 has been acknowledged, its data is asked for.
LEMMA SenderAcked ==
  ASSUME Typed, SentInv, UNCHANGED <<receiverVars, g_mode, sfile, block, fwd>>, Typed',
         sphase = "ack0", rev # <<>>, rev' = Tail(rev), Head(rev) = "ACK", sphase' = "c"
  PROVE  SentInv'
<1>1. /\ UNCHANGED <<rphase, buffer, g_mode, sfile, block, fwd>> /\ Closed' = Closed
      /\ Len(rev) \in Nat \ {0} /\ Len(rev') = Len(rev) - 1 /\ rev[1] = "ACK"
      /\ Thinner(rev, rev')
      /\ \A i \in 1..Len(rev') : rev'[i] = rev[i + 1]
  BY CalmFacts, ThinTail DEF receiverVars, Closed
<1>2. 1 \in 1..Len(rev) /\ Has(rev, "ACK")
  BY <1>1 DEF Has
<1>3. /\ sfile = Closed + 1 /\ AckEnds(rev) /\ rphase = "data" /\ Len(buffer) = 0
  BY <1>2 DEF SentInv, Ack0Inv
<1>4. Len(rev) = 2 /\ rev[2] = "C"
  <2>1. 1 + 1 = Len(rev) /\ rev[1 + 1] = "C"
    BY <1>1, <1>2, <1>3, Zenon DEF AckEnds
  <2>2. 1 + 1 = 2
    OBVIOUS
  <2>. QED
    BY <2>1, <2>2
<1>5. Len(rev') = 1 /\ rev'[1] = "C"
  BY <1>1, <1>4
<1>6. ~Has(rev', "ACK") /\ ~Has(rev', "G")
  BY <1>5 DEF Has
<1>7. Len(fwd) = 0
  BY <1>3 DEF SentInv, LineInv, Final
<1>8. LineInv'
  BY <1>1, <1>3, <1>7 DEF LineInv
<1>9. CInv'
  BY <1>1, <1>3, <1>5, <1>6 DEF CInv
<1>10. StartInv' /\ HandshakeInv' /\ Ack0Inv' /\ BlockInv' /\ EotInv' /\ LastInv'
  BY <1>1, <1>3 DEF StartInv, HandshakeInv, Ack0Inv, BlockInv, EotInv, LastInv
<1>. QED
  BY <1>1, <1>6, <1>8, <1>9, <1>10 DEF SentInv

\* One read of the sender.
LEMMA SenderReadsCalm ==
  ASSUME Typed, SentInv, SenderReads, Typed'
  PROVE  SentInv'
<1>. DEFINE b == Head(rev)
<1>1. /\ rev # <<>> /\ rev' = Tail(rev) /\ UNCHANGED receiverVars
      /\ UNCHANGED <<rphase, buffer>>
      /\ rev \in Seq(Replies) /\ Len(fwd) \in Nat
  BY CalmFacts DEF SenderReads, receiverVars
<1>2. /\ Thinner(rev, rev') /\ b = rev[1] /\ Len(rev) \in Nat \ {0}
      /\ Len(rev') = Len(rev) - 1 /\ 1 \in 1..Len(rev)
      /\ \A i \in 1..Len(rev') : rev'[i] = rev[i + 1]
  BY <1>1, ThinTail
<1>3. rphase # "start"
  BY <1>1, <1>2 DEF SentInv, StartInv
<1>4. b # "G"
  BY <1>1, <1>2 DEF SentInv, Has
<1>5. Has(rev', "ACK") => Has(rev, "ACK")
  BY <1>2 DEF Thinner
<1>6. b = "ACK" => Has(rev, "ACK")
  BY <1>2 DEF Has
<1>7. b = "C" => Has(rev, "C")
  BY <1>2 DEF Has
<1>8. AckEnds(rev) => AckEnds(rev')
  BY <1>2 DEF Thinner
<1>9. AckEnds(rev') /\ Len(rev') <= 1 => ~Has(rev', "ACK")
  BY <1>2 DEF AckEnds, Has
<1>10. Len(rev') = 0 => ~Has(rev', "ACK")
  BY DEF Has
\* What an answer to a block or to EOT leaves on the line.
<1>11. sphase \in {"block", "eot"} =>
         /\ ~Has(rev', "ACK")
         /\ rphase = "data" => Len(fwd) = 0 /\ Len(rev') = 0
  <2>1. ASSUME sphase = "block"
        PROVE  ~Has(rev', "ACK") /\ (rphase = "data" => Len(fwd) = 0 /\ Len(rev') = 0)
    <3>1. /\ rphase = "data" => Len(fwd) + Len(rev) <= 1
          /\ Has(rev, "ACK") => rphase = "data"
      BY <2>1 DEF SentInv, BlockInv
    <3>2. rphase = "data" => Len(fwd) = 0 /\ Len(rev') = 0
      BY <1>1, <1>2, <3>1
    <3>. QED
      BY <1>5, <1>10, <3>1, <3>2
  <2>2. ASSUME sphase = "eot"
        PROVE  ~Has(rev', "ACK") /\ (rphase = "data" => Len(fwd) = 0 /\ Len(rev') = 0)
    <3>1. /\ rphase = "data" => Len(fwd) + Len(rev) <= 1
          /\ Has(rev, "ACK") => Len(rev) = 2
          /\ AckEnds(rev)
      BY <2>2 DEF SentInv, EotInv
    <3>2. rphase = "data" => Len(fwd) = 0 /\ Len(rev') = 0
      BY <1>1, <1>2, <3>1
    <3>3. AckEnds(rev')
      BY <1>8, <3>1
    <3>4. ASSUME Has(rev, "ACK") PROVE Len(rev') <= 1
      <4>1. Len(rev) = 2 /\ Len(rev') = Len(rev) - 1
        BY <1>2, <3>1, <3>4
      <4>. QED
        BY <4>1
    <3>5. ~Has(rev', "ACK")
      BY <1>5, <1>9, <3>3, <3>4
    <3>. QED
      BY <3>2, <3>5
  <2>. QED
    BY <2>1, <2>2
<1>. HIDE DEF b
<1>12. ASSUME UNCHANGED g_mode, Retry, sphase \in {"handshake", "ack0", "c", "block", "eot"}
       PROVE  SentInv'
  BY <1>1, <1>2, <1>3, <1>11, <1>12, RetryCalm
<1>13. ASSUME UNCHANGED g_mode, NEW how \in Final, SenderEnds(how),
              how = "returned" => sphase = "last"
       PROVE  SentInv'
  BY <1>1, <1>2, <1>3, <1>13, SenderStays DEF SenderEnds
<1>14. CASE Handshake(b)
  <2>1. CASE b = "C" /\ ~g_mode' /\ GoTo(1) /\ sphase = "handshake"
    <3>1. Closed = 0 /\ ~Has(rev, "ACK") /\ rphase # "data"
      BY <2>1 DEF SentInv, HandshakeInv
    <3>2. rphase \in {"block0"} \cup Final /\ 1 = Closed + 1 /\ 1 \in 1..EndOfBatch
      BY <1>3, <3>1, CalmFacts
    <3>3. rphase = "block0" => Len(fwd) = 0
      BY <2>1 DEF SentInv, LineInv, Final
    <3>4. ~Has(rev', "ACK")
      BY <1>5, <3>1
    <3>. QED
      BY <1>1, <1>2, <2>1, <3>2, <3>3, <3>4, SenderGoes
  <2>2. CASE UNCHANGED g_mode /\ SenderEnds("cancelled")
    BY <1>13, <2>2 DEF Final
  <2>3. CASE UNCHANGED g_mode /\ Retry /\ sphase = "handshake"
    BY <1>12, <2>3
  <2>. QED
    BY <1>4, <1>14, <2>1, <2>2, <2>3 DEF Handshake
<1>15. CASE UNCHANGED g_mode /\ AwaitAck0(b)
  <2>1. CASE b = "ACK" /\ sphase = "ack0" /\ sphase' = "c" /\ UNCHANGED <<sfile, block, fwd>>
    BY <1>1, <1>15, <2>1, SenderAcked DEF b
  <2>2. CASE SenderEnds("cancelled")
    BY <1>13, <1>15, <2>2 DEF Final
  <2>3. CASE Retry /\ sphase = "ack0"
    BY <1>12, <1>15, <2>3
  <2>. QED
    BY <1>15, <2>1, <2>2, <2>3 DEF AwaitAck0
<1>16. CASE UNCHANGED g_mode /\ AwaitC(b)
  <2>1. CASE b = "C" /\ sphase = "c" /\ Transmit(1)
    <3>1. /\ sfile = Closed + 1 /\ ~Has(rev, "ACK") /\ rphase = "data"
          /\ Len(buffer) = 0 /\ Len(rev) = 1
      BY <1>7, <2>1 DEF SentInv, CInv
    <3>2. Len(fwd) = 0
      BY <2>1, <3>1 DEF SentInv, LineInv, Final
    <3>3. sfile \in 1..NFiles /\ Blocks[sfile] \in Nat
      BY <2>1, CalmFacts
    <3>4. Len(rev') = 0 /\ ~Has(rev', "ACK") /\ 1 <= Blocks[sfile] + 1 /\ 0 = 1 - 1
      BY <1>2, <1>5, <3>1, <3>3
    <3>. QED
      BY <1>1, <1>2, <1>16, <2>1, <3>1, <3>2, <3>3, <3>4, SenderTransmits
  <2>2. CASE SenderEnds("cancelled")
    BY <1>13, <1>16, <2>2 DEF Final
  <2>3. CASE Retry /\ sphase = "c"
    BY <1>12, <1>16, <2>3
  <2>. QED
    BY <1>16, <2>1, <2>2, <2>3 DEF AwaitC
<1>17. CASE UNCHANGED g_mode /\ AwaitAck(b)
  <2>1. CASE sphase = "block" /\ b = "ACK" /\ Transmit(block + 1)
    <3>1. /\ sfile = Closed + 1 /\ block \in 1..Blocks[sfile]
          /\ rphase = "data" /\ Len(buffer) = block
      BY <1>6, <2>1 DEF SentInv, BlockInv
    <3>2. Len(fwd) = 0 /\ Len(rev') = 0 /\ ~Has(rev', "ACK")
      BY <1>11, <2>1, <3>1
    <3>3. sfile \in 1..NFiles /\ Blocks[sfile] \in Nat /\ block \in Nat
      BY <2>1, CalmFacts
    <3>4. block + 1 \in Nat /\ block + 1 > 0 /\ block + 1 <= Blocks[sfile] + 1
          /\ Len(buffer) = (block + 1) - 1
      BY <3>1, <3>3
    <3>. QED
      BY <1>1, <1>2, <1>17, <2>1, <3>1, <3>2, <3>3, <3>4, SenderTransmits
  <2>2. CASE sphase = "eot" /\ b = "ACK" /\ GoTo(sfile + 1)
    <3>1. rphase = "block0" /\ Len(fwd) = 0 /\ sfile = Closed
      BY <1>6, <2>2 DEF SentInv, EotInv
    <3>2. sfile + 1 \in 1..EndOfBatch /\ sfile + 1 = Closed + 1
      BY <2>2, <3>1, CalmFacts
    <3>3. ~g_mode' /\ ~Has(rev', "ACK")
      BY <1>11, <1>17, <2>2 DEF SentInv
    <3>. QED
      BY <1>1, <1>2, <2>2, <3>1, <3>2, <3>3, SenderGoes
  <2>3. CASE SenderEnds("cancelled")
    BY <1>13, <1>17, <2>3 DEF Final
  <2>4. CASE Retry /\ sphase \in {"block", "eot"}
    BY <1>12, <1>17, <2>4
  <2>. QED
    BY <1>17, <2>1, <2>2, <2>3, <2>4 DEF AwaitAck, Acknowledges
<1>18. CASE UNCHANGED g_mode /\ sphase = "last" /\ SenderEnds("returned")
  BY <1>13, <1>18 DEF Final
<1>. QED
  BY <1>14, <1>15, <1>16, <1>17, <1>18 DEF SenderReads, b

\* The sender gives up waiting, in silence.
LEMMA SenderTimeoutCalm ==
  ASSUME Typed, SentInv, SenderTimeout, Quiet, Typed'
  PROVE  SentInv'
<1>1. /\ UNCHANGED receiverVars /\ UNCHANGED <<rphase, g_mode, rev>> /\ rphase # "start"
      /\ rev = <<>> /\ (rphase = "data" => fwd = <<>>)
      /\ rev \in Seq(Replies)
  BY CalmFacts DEF SenderTimeout, Quiet, receiverVars, Final
<1>2. Thinner(rev, rev') /\ ~Has(rev', "ACK") /\ Len(rev') = 0
  BY <1>1, ThinSame, ShortAnswers
<1>3. rphase = "data" => Len(fwd) = 0
  BY <1>1
<1>4. CASE sphase # "last" /\ Retry
  <2>1. sphase \in {"handshake", "ack0", "c", "block", "eot"}
    BY <1>4, CalmFacts DEF SenderTimeout
  <2>. QED
    BY <1>1, <1>2, <1>3, <1>4, <2>1, RetryCalm
<1>5. CASE sphase = "last" /\ SenderEnds("returned")
  BY <1>1, <1>2, <1>5, SenderStays DEF SenderEnds
<1>. QED
  BY <1>4, <1>5 DEF SenderTimeout

\* A fault on the way back leaves the sender where it is.
LEMMA ReverseFaultCalm ==
  ASSUME Typed, SentInv, ReverseFault, Typed'
  PROVE  SentInv'
<1>1. /\ rev # <<>> /\ UNCHANGED <<receiverVars, sphase, sfile, block, g_mode, fwd>>
      /\ rev \in Seq(Replies) /\ Noise \subseteq {"CAN", "JUNK"}
  BY CalmFacts, Constants DEF ReverseFault, senderVars
<1>2. rphase # "start"
  <2>1. Len(rev) # 0
    BY <1>1, ThinTail
  <2>. QED
    BY <2>1 DEF SentInv, StartInv
<1>3. Thinner(rev, rev')
  <2>1. CASE rev' = Tail(rev)
    BY <1>1, <2>1, ThinTail
  <2>2. CASE \E k \in Noise : rev' = << k >> \o Tail(rev)
    BY <1>1, <2>2, ThinFront
  <2>. QED
    BY <2>1, <2>2 DEF ReverseFault
<1>. QED
  BY <1>1, <1>2, <1>3, SenderStays

\* One on the way to the receiver takes away the first frame or spoils it.
LEMMA ForwardFaultCalm ==
  ASSUME Typed, SentInv, ForwardFault, Typed'
  PROVE  SentInv'
<1>1. /\ fwd # <<>> /\ fwd \in Seq(Frames) /\ Noise \subseteq {"CAN", "JUNK"}
      /\ UNCHANGED <<rphase, buffer, received, sphase, sfile, block, g_mode, rev>>
      /\ Closed' = Closed
  BY CalmFacts, Constants DEF ForwardFault, senderVars, receiverVars, Closed
<1>2. /\ Len(fwd) \in Nat \ {0} /\ Len(Tail(fwd)) = Len(fwd) - 1
      /\ Head(fwd) = fwd[1] /\ Head(fwd) \in Frames
      /\ \A i \in 1..Len(Tail(fwd)) : Tail(fwd)[i] = fwd[i + 1]
  BY <1>1, TailAt
\* The line is no longer than before, and no frame on it more than spoilt.
<1>. DEFINE Alike(t, u) == \/ t.kind = u.kind /\ t.file = u.file /\ t.blk = u.blk
                           \/ t.kind \in Mangled /\ u.kind \in Mangled
            Spoilt == \A k \in 1..Len(fwd) : fwd[k].kind \in Mangled
<1>3. /\ Len(fwd') \in Nat /\ Len(fwd') <= Len(fwd)
      /\ Len(fwd') = Len(fwd) => Alike(fwd'[1], fwd[1])
      /\ Spoilt => Spoilt'
  <2>1. CASE fwd' = Tail(fwd)
    <3>1. \A k \in 1..Len(fwd') : k + 1 \in 1..Len(fwd) /\ fwd'[k] = fwd[k + 1]
      BY <1>2, <2>1
    <3>2. Spoilt => Spoilt'
      BY <3>1
    <3>3. Len(fwd') \in Nat /\ Len(fwd') < Len(fwd)
      BY <1>2, <2>1
    <3>. QED
      BY <3>2, <3>3
  <2>2. ASSUME NEW t \in Frames, fwd' = <<t>> \o Tail(fwd),
               \/ t.kind = fwd[1].kind /\ t.file = fwd[1].file /\ t.blk = fwd[1].blk
               \/ t.kind \in Mangled /\ fwd[1].kind \in Mangled
        PROVE  Len(fwd') = Len(fwd) /\ Alike(fwd'[1], fwd[1]) /\ (Spoilt => Spoilt')
    <3>1. Len(fwd') = Len(fwd) /\ fwd'[1] = t /\ \A i \in 2..Len(fwd) : fwd'[i] = fwd[i]
      BY <1>1, <2>2, FrontTyped
    <3>2. \A k \in 1..Len(fwd') : k \in 1..Len(fwd) /\ (k = 1 \/ k \in 2..Len(fwd))
      BY <1>2, <3>1
    <3>3. ASSUME \A k \in 1..Len(fwd) : fwd[k].kind \in Mangled, NEW k \in 1..Len(fwd')
          PROVE  fwd'[k].kind \in Mangled
      <4>1. CASE k = 1
        <5>1. fwd[1].kind \in Mangled
          BY <3>2, <3>3, <4>1
        <5>. QED
          BY <2>2, <3>1, <4>1, <5>1
      <4>2. CASE k \in 2..Len(fwd)
        BY <3>1, <3>2, <3>3, <4>2
      <4>. QED
        BY <3>2, <4>1, <4>2
    <3>. QED
      BY <1>2, <2>2, <3>1, <3>3
  <2>3. CASE fwd' = << [Head(fwd) EXCEPT !.ok = FALSE] >> \o Tail(fwd)
    <3>1. \A t \in Frames : /\ [t EXCEPT !.ok = FALSE] \in Frames
                            /\ [t EXCEPT !.ok = FALSE].kind = t.kind
                            /\ [t EXCEPT !.ok = FALSE].file = t.file
                            /\ [t EXCEPT !.ok = FALSE].blk = t.blk
      BY DEF Frames
    <3>2. PICK t \in Frames : /\ fwd' = <<t>> \o Tail(fwd)
                              /\ t.kind = fwd[1].kind /\ t.file = fwd[1].file
                              /\ t.blk = fwd[1].blk
      BY <1>2, <2>3, <3>1
    <3>. QED
      BY <1>2, <2>2, <3>2
  <2>4. CASE Head(fwd).kind = "EOT" /\ \E k \in Noise : fwd' = << Ctl(k) >> \o Tail(fwd)
    <3>1. PICK k \in Noise : fwd' = << Ctl(k) >> \o Tail(fwd)
      BY <2>4
    <3>2. Ctl(k) \in Frames /\ Ctl(k).kind \in Mangled
      BY <1>1, FrameTyped DEF Ctl, Mangled
    <3>3. fwd[1].kind \in Mangled
      BY <1>2, <2>4 DEF Mangled
    <3>. QED
      BY <1>2, <2>2, <3>1, <3>2, <3>3
  <2>. QED
    BY <2>1, <2>3, <2>4 DEF ForwardFault
<1>4. LineInv'
  <2>0. LineInv /\ (Len(fwd) = 1 => Len(fwd') = 0 \/ (Len(fwd') = 1 /\ Alike(fwd'[1], fwd[1])))
    <3>1. LineInv
      BY DEF SentInv
    <3>2. CASE Len(fwd') = Len(fwd)
      BY <1>3, <3>1, <3>2
    <3>3. CASE Len(fwd') < Len(fwd)
      <4>1. Len(fwd) = 1 => Len(fwd') = 0
        BY <1>3, <3>3
      <4>. QED
        BY <3>1, <4>1
    <3>4. Len(fwd') = Len(fwd) \/ Len(fwd') < Len(fwd)
      BY <1>2, <1>3
    <3>. QED
      BY <3>2, <3>3, <3>4
  <2>1. ASSUME rphase = "block0" PROVE LineInv'
    <3>1. CASE Len(fwd) = 1 /\ fwd[1].kind = "BLOCK0"
      BY <1>1, <2>0, <2>1, <3>1 DEF LineInv, Mangled
    <3>2. CASE Spoilt /\ fwd[1].kind # "BLOCK0"
      <4>1. Spoilt'
        BY <1>3, <3>2
      <4>2. sphase \in {"eot"} \cup Final
        BY <1>2, <2>0, <2>1, <3>2 DEF LineInv
      <4>. HIDE DEF Alike
      <4>. QED
        BY <1>1, <2>1, <4>1, <4>2 DEF LineInv
    <3>3. Spoilt => fwd[1].kind # "BLOCK0"
      BY <1>2 DEF Mangled
    <3>. QED
      BY <1>2, <2>0, <2>1, <3>1, <3>2, <3>3 DEF LineInv
  <2>2. ASSUME rphase = "data" PROVE LineInv'
    <3>1. CASE Len(fwd) = 1 /\ fwd[1].kind = "DATA"
      BY <1>1, <2>0, <2>2, <3>1 DEF LineInv, Mangled
    <3>2. CASE Len(fwd) = 1 /\ fwd[1].kind \in Mangled
      BY <1>1, <2>0, <2>2, <3>2 DEF LineInv, Mangled
    <3>. QED
      BY <1>2, <2>0, <2>2, <3>1, <3>2 DEF LineInv
  <2>. QED
    BY <1>1, <2>1, <2>2 DEF LineInv
<1>5. StartInv' /\ LastInv'
  BY <1>1, <1>2, <1>3 DEF SentInv, StartInv, LastInv
<1>6. HandshakeInv' /\ Ack0Inv' /\ CInv'
  BY <1>1 DEF SentInv, HandshakeInv, Ack0Inv, CInv
<1>7. Len(rev) \in Nat
  BY CalmFacts
<1>8. BlockInv'
  BY <1>1, <1>2, <1>3, <1>7 DEF SentInv, BlockInv
<1>9. EotInv'
  BY <1>1, <1>2, <1>3, <1>7 DEF SentInv, EotInv
<1>. QED
  BY <1>1, <1>4, <1>5, <1>6, <1>8, <1>9 DEF SentInv

-----------------------------------------------------------------------------
(* The receiver, block by block *)

\* receive() begins.
LEMMA ReceiverStartCalm ==
  ASSUME Calm, Acked, ReceiverStart, Typed'
  PROVE  SentInv' /\ RecvInv'
<1>1. /\ UNCHANGED <<sphase, sfile, block, g_mode, fwd, buffer, received, disk, rfile, expected>>
      /\ rphase = "start" /\ rphase' = "block0" /\ rev' = rev \o <<"C">> /\ Closed' = Closed
  BY DEF ReceiverStart, senderVars, Closed, Reply, InitChar, Acked
<1>2. sphase = "handshake" /\ Len(fwd) = 0 /\ Len(rev) = 0
  BY <1>1 DEF Calm, SentInv, StartInv
<1>3. ~Has(rev, "ACK") /\ ~Has(rev, "G") /\ rev \in Seq(Replies) /\ <<"C">> \in Seq(Replies)
  BY <1>2, CalmFacts DEF Has, Replies, Calm
<1>4. ~Has(rev', "ACK") /\ ~Has(rev', "G")
  BY <1>1, <1>3, Added, ShortAnswers
<1>5. /\ LineInv' /\ StartInv' /\ HandshakeInv' /\ Ack0Inv' /\ CInv' /\ BlockInv'
      /\ EotInv' /\ LastInv'
  <2>1. Closed = 0 /\ sfile = 1
    BY <1>2 DEF Calm, SentInv, HandshakeInv
  <2>. QED
    BY <1>1, <1>2, <1>4, <2>1 DEF LineInv, StartInv, HandshakeInv, Ack0Inv, CInv, BlockInv,
                                  EotInv, LastInv, Final
<1>6. RecvInv'
  BY <1>1 DEF Calm, RecvInv, Closed
<1>. QED
  BY <1>1, <1>2, <1>4, <1>5, <1>6 DEF Calm, SentInv

Waiting == {"handshake", "ack0", "c", "block", "eot"}

\* What is true of the answers while the receiver reads a frame.
LEMMA ReadFacts ==
  ASSUME Typed, SentInv, fwd # <<>>, fwd' = Tail(fwd), rphase \in {"block0", "data"}
  PROVE  /\ Head(fwd) = fwd[1] /\ Len(fwd) \in Nat \ {0} /\ Len(fwd') = Len(fwd) - 1
         /\ Head(fwd) \in Frames
         /\ sphase \in Waiting => ~Has(rev, "ACK") /\ sphase \in {"ack0", "block", "eot"}
         /\ rphase = "data" => Len(fwd') = 0
         /\ rphase = "data" /\ sphase \in Waiting => Len(rev) = 0
         /\ rphase = "block0" =>
              \/ Len(fwd') = 0
              \/ /\ \A k \in 1..Len(fwd') : fwd'[k].kind \in Mangled
                 /\ sphase \in {"eot"} \cup Final
<1>1. /\ Head(fwd) = fwd[1] /\ Len(fwd) \in Nat \ {0} /\ Len(fwd') = Len(fwd) - 1
      /\ Head(fwd) \in Frames
      /\ \A i \in 1..Len(fwd') : fwd'[i] = fwd[i + 1]
  BY TailAt, CalmFacts
<1>2. Len(rev) \in Nat
  BY CalmFacts
<1>3. /\ rphase = "data" => Len(fwd) = 1 /\ sphase \in {"block", "eot"} \cup Final
      /\ rphase = "block0" =>
           \/ Len(fwd) = 1 /\ sphase \in {"ack0", "last"} \cup Final
           \/ /\ \A k \in 1..Len(fwd) : fwd[k].kind \in Mangled
              /\ sphase \in {"eot"} \cup Final
  BY <1>1 DEF SentInv, LineInv
<1>4. rphase = "data" /\ sphase \in Waiting => Len(rev) = 0
  BY <1>1, <1>2, <1>3 DEF SentInv, BlockInv, EotInv, Waiting, Final
<1>5. sphase \in Waiting => ~Has(rev, "ACK") /\ sphase \in {"ack0", "block", "eot"}
  <2>1. Len(rev) = 0 => ~Has(rev, "ACK")
    BY DEF Has
  <2>2. rphase = "block0" /\ sphase \in Waiting => sphase \in {"ack0", "eot"}
    BY <1>3 DEF Waiting, Final
  <2>3. rphase = "block0" /\ sphase \in {"ack0", "eot"} => ~Has(rev, "ACK")
    BY <1>1 DEF SentInv, Ack0Inv, EotInv
  <2>4. rphase = "data" /\ sphase \in Waiting => sphase \in {"block", "eot"}
    BY <1>3 DEF Waiting, Final
  <2>. QED
    BY <1>4, <2>1, <2>2, <2>3, <2>4
<1>6. (\A k \in 1..Len(fwd) : fwd[k].kind \in Mangled)
        => \A k \in 1..Len(fwd') : fwd'[k].kind \in Mangled
  <2>1. \A k \in 1..Len(fwd') : k + 1 \in 1..Len(fwd) /\ fwd'[k] = fwd[k + 1]
    BY <1>1
  <2>. QED
    BY <2>1
<1>7. Len(fwd) = 1 => Len(fwd') = 0
  BY <1>1
<1>. QED
  BY <1>1, <1>3, <1>4, <1>5, <1>6, <1>7

\* The receiver repeats its request, or gives up.
LEMMA ReceiverStays ==
  ASSUME Typed, SentInv, RecvInv, Typed', rphase \in {"block0", "data"},
         UNCHANGED <<sphase, sfile, block, g_mode, rfile, expected, buffer, disk, received>>,
         rphase' = rphase \/ rphase' \in Final \ {"returned"},
         rev' = rev \/ rev' = rev \o <<"NAK">>,
         sphase \in Waiting => ~Has(rev, "ACK") /\ (sphase = "c" => Len(rev) = 0),
         rphase = "data" => Len(fwd') = 0 /\ (sphase \in Waiting => Len(rev) = 0),
         rphase = "block0" =>
           \/ Len(fwd') = 0
           \/ /\ \A k \in 1..Len(fwd') : fwd'[k].kind \in Mangled
              /\ sphase \in {"eot"} \cup Final
  PROVE  SentInv' /\ RecvInv'
<1>1. Closed' = Closed /\ rev \in Seq(Replies) /\ <<"NAK">> \in Seq(Replies) /\ Len(rev) \in Nat
  BY CalmFacts DEF Closed, Replies
<1>2. /\ ~Has(rev, "ACK") => ~Has(rev', "ACK")
      /\ ~Has(rev, "C") => ~Has(rev', "C")
      /\ ~Has(rev, "G") => ~Has(rev', "G")
      /\ Len(rev) = 0 => Len(rev') <= 1
  <2>1. CASE rev' = rev
    BY <1>1, <2>1
  <2>2. CASE rev' = rev \o <<"NAK">>
    <3>1. /\ Len(rev') = Len(rev) + Len(<<"NAK">>)
          /\ \A x : Has(rev', x) => Has(rev, x) \/ Has(<<"NAK">>, x)
      BY <1>1, <2>2, Added
    <3>. QED
      BY <1>1, <3>1, ShortAnswers
  <2>. QED
    BY <2>1, <2>2
<1>3. ~Has(rev, "G")
  BY DEF SentInv
<1>4. sphase \in Waiting => ~Has(rev', "ACK") /\ AckEnds(rev')
  BY <1>2 DEF AckEnds, Has
<1>5. LineInv'
  BY <1>1 DEF LineInv, Final
<1>6. StartInv' /\ LastInv'
  BY <1>1 DEF SentInv, StartInv, LastInv, Final
<1>7. HandshakeInv' /\ Ack0Inv'
  BY <1>1, <1>4 DEF SentInv, HandshakeInv, Ack0Inv, Final, Waiting
<1>8. CInv'
  <2>1. sphase = "c" => ~Has(rev', "C")
    BY <1>2 DEF Has, Waiting
  <2>. QED
    BY <1>1, <1>4, <2>1 DEF SentInv, CInv, Final, Waiting
<1>9. rphase' = "data" /\ sphase \in Waiting => Len(fwd') + Len(rev') <= 1
  <2>. SUFFICES ASSUME rphase' = "data", sphase \in Waiting
                PROVE  Len(fwd') + Len(rev') <= 1
    OBVIOUS
  <2>1. rphase = "data" /\ Len(fwd') = 0 /\ Len(rev') <= 1 /\ Len(rev') \in Nat
    BY <1>2, LenProperties DEF Final, Typed, LineTyped
  <2>. QED
    BY <2>1
<1>10. BlockInv'
  BY <1>1, <1>4, <1>9 DEF SentInv, BlockInv, Final, Waiting
<1>11. EotInv'
  BY <1>1, <1>4, <1>9 DEF SentInv, EotInv, Final, Waiting
<1>12. SentInv'
  BY <1>2, <1>3, <1>5, <1>6, <1>7, <1>8, <1>10, <1>11 DEF SentInv
<1>13. RecvInv'
  BY <1>1 DEF RecvInv, Final, FileBlocks, Number
<1>. QED
  BY <1>12, <1>13

\* Block 0 of the next file opens it.
LEMMA OpensCalm ==
  ASSUME Calm, Acked, Typed', UNCHANGED <<senderVars, received>>,
         rphase = "block0", fwd # <<>>, fwd' = Tail(fwd), Head(fwd).kind = "BLOCK0",
         Block0Read(Head(fwd).file)
  PROVE  SentInv' /\ RecvInv'
<1>. DEFINE f == Head(fwd).file
<1>0. Typed /\ SentInv /\ RecvInv
  BY DEF Calm
<1>1. /\ Head(fwd) = fwd[1] /\ Len(fwd) \in Nat \ {0} /\ Len(fwd') = Len(fwd) - 1
      /\ sphase \in Waiting => ~Has(rev, "ACK")
  BY <1>0, ReadFacts
<1>2. /\ Len(fwd) = 1 /\ f = sfile /\ sphase \in {"ack0", "last"} \cup Final
      /\ sfile = Closed + 1
  <2>1. fwd[1].kind \notin Mangled /\ 1 \in 1..Len(fwd)
    BY <1>1 DEF Mangled
  <2>. QED
    BY <1>0, <1>1, <2>1 DEF SentInv, LineInv
<1>3. /\ UNCHANGED <<sphase, sfile, block, g_mode>> /\ Closed' = Closed /\ Closed \in Nat
      /\ Len(fwd') = 0 /\ rev \in Seq(Replies) /\ sfile \in 1..EndOfBatch
      /\ EndOfBatch = NFiles + 1 /\ NFiles \in Nat
      /\ sphase = "ack0" => sfile \in 1..NFiles
  BY <1>0, <1>1, <1>2, CalmFacts DEF senderVars, Closed
<1>. HIDE DEF f
<1>4. CASE /\ f <= NFiles /\ rphase' = "data" /\ rfile' = f /\ expected' = Number(1)
           /\ buffer' = <<>> /\ disk' = [disk EXCEPT ![f] = Opened]
           /\ Reply(<<"ACK", InitChar>>)
  <2>1. rev' = rev \o <<"ACK", "C">> /\ <<"ACK", "C">> \in Seq(Replies)
    BY <1>4 DEF Reply, InitChar, Acked, Replies
  <2>2. ~Has(rev', "G")
    BY <1>0, <1>3, <2>1, Added, ShortAnswers DEF SentInv
  <2>3. sphase = "ack0" => AckEnds(rev')
    BY <1>1, <1>3, <2>1, Added, ShortAnswers DEF Waiting
  <2>4. Len(buffer') = 0
    BY <1>4
  <2>5. Ack0Inv'
    BY <1>2, <1>3, <1>4, <2>3, <2>4 DEF Ack0Inv
  <2>6. LineInv' /\ StartInv' /\ HandshakeInv' /\ CInv' /\ BlockInv' /\ EotInv'
    BY <1>2, <1>3, <1>4 DEF LineInv, StartInv, HandshakeInv, CInv, BlockInv, EotInv, Final
  <2>7. LastInv'
    BY <1>0, <1>3 DEF SentInv, LastInv
  <2>8. SentInv'
    BY <1>0, <1>2, <1>3, <2>2, <2>5, <2>6, <2>7 DEF SentInv, Final
  <2>9. f \in 1..NFiles /\ f = Closed + 1
    BY <1>2, <1>3, <1>4
  <2>10. \A k \in 1..NFiles : k # f => disk'[k] = disk[k]
    BY <1>0, <1>4 DEF Typed, ReceiverTyped
  <2>11. disk'[f].blocks = <<>>
    BY <1>0, <1>4, <2>9 DEF Typed, ReceiverTyped, Opened
  <2>12. \A k \in 1..Closed : k \in 1..NFiles /\ k # f
    BY <1>3, <2>9
  <2>13. \A k \in 1..Closed : /\ disk'[k].blocks = FileBlocks(k)
                              /\ k \in Known \ Exact => ~disk'[k].stripped
    BY <1>0, <2>10, <2>12 DEF RecvInv
  <2>14. \A k \in 1..NFiles : k > Closed => disk'[k].blocks = <<>>
    BY <1>0, <2>10, <2>11 DEF RecvInv
  <2>15. Len(buffer') <= Blocks[f] /\ Len(buffer') + 1 = 1
    BY <2>4, <2>9, Constants
  <2>16. RecvInv'
    BY <1>0, <1>3, <1>4, <2>4, <2>9, <2>13, <2>14, <2>15 DEF RecvInv, FileBlocks, Number
  <2>. QED
    BY <2>8, <2>16
<1>5. CASE /\ f > NFiles /\ rphase' = "returned" /\ Reply(<<"ACK">>)
           /\ UNCHANGED <<rfile, expected, buffer, disk>>
  <2>1. rev' = rev \o <<"ACK">> /\ <<"ACK">> \in Seq(Replies)
    BY <1>5 DEF Reply, Replies
  <2>2. ~Has(rev', "G")
    BY <1>0, <1>3, <2>1, Added, ShortAnswers DEF SentInv
  <2>3. Closed = NFiles /\ sphase \in {"last"} \cup Final
    BY <1>2, <1>3, <1>5
  <2>4. /\ LineInv' /\ StartInv' /\ HandshakeInv' /\ Ack0Inv' /\ CInv' /\ BlockInv'
        /\ EotInv' /\ LastInv'
    BY <1>3, <1>5, <2>3 DEF LineInv, StartInv, HandshakeInv, Ack0Inv, CInv, BlockInv,
                            EotInv, LastInv, Final
  <2>5. SentInv'
    BY <1>0, <1>3, <2>2, <2>4 DEF SentInv
  <2>6. RecvInv'
    BY <1>0, <1>3, <1>5, <2>3 DEF RecvInv, FileBlocks, Number
  <2>. QED
    BY <2>5, <2>6
<1>. QED
  BY <1>4, <1>5 DEF Block0Read, f

\* All of a file's blocks are written, and cut at its size where that says more
\* than stripping would.
LEMMA WholeWritten ==
  ASSUME NEW f \in 1..NFiles, NEW b \in Seq(Places), Len(b) = Blocks[f],
         \A i \in 1..Len(b) : b[i] = <<f, i>>
  PROVE  /\ Written(f, b).blocks = FileBlocks(f)
         /\ f \in Known \ Exact => ~Written(f, b).stripped
<1>1. Blocks[f] \in Nat /\ (Blocks[f] = 0 => f \in Exact)
  BY Constants
<1>2. FileBlocks(f) \in Seq(Places) /\ Len(FileBlocks(f)) = Blocks[f]
      /\ \A i \in 1..Blocks[f] : FileBlocks(f)[i] = <<f, i>>
  <2>1. \A i \in 1..Blocks[f] : <<f, i>> \in Places
    BY <1>1, Constants DEF Places
  <2>2. FileBlocks(f) \in [1..Blocks[f] -> Places]
    BY <2>1 DEF FileBlocks
  <2>. QED
    BY <1>1, <2>2, SeqDef, LenProperties DEF FileBlocks
<1>3. b = FileBlocks(f)
  BY <1>1, <1>2, SeqEqual
<1>4. SubSeq(b, 1, Blocks[f]) = b
  BY SubSeqFull
<1>5. f \in Known \ Exact => Longer(f, Len(b))
  BY <1>1 DEF Longer
<1>. QED
  BY <1>3, <1>4, <1>5 DEF Written

\* EOT closes the file, of which every block has been accepted.
LEMMA ClosesCalm ==
  ASSUME Calm, Acked, Typed', UNCHANGED senderVars,
         rphase = "data", fwd # <<>>, fwd' = Tail(fwd), Head(fwd).kind = "EOT", ReceiveEot
  PROVE  SentInv' /\ RecvInv'
<1>0. Typed /\ SentInv /\ RecvInv
  BY DEF Calm
<1>1. /\ Head(fwd) = fwd[1] /\ Len(fwd') = 0 /\ Len(fwd) \in Nat \ {0}
      /\ sphase \in Waiting => ~Has(rev, "ACK") /\ Len(rev) = 0
  BY <1>0, ReadFacts
<1>2. sphase \in {"eot"} \cup Final /\ sfile = Closed + 1 /\ Len(buffer) = Blocks[sfile]
  BY <1>0, <1>1 DEF SentInv, LineInv
<1>3. /\ UNCHANGED <<sphase, sfile, block, g_mode, buffer>> /\ Closed \in Nat
      /\ rev \in Seq(Replies) /\ NFiles \in Nat /\ received \in Seq(1..NFiles)
      /\ rfile \in 1..NFiles /\ buffer \in Seq(Places)
      /\ disk' = [disk EXCEPT ![rfile] = Written(rfile, buffer)]
      /\ received' = Append(received, rfile) /\ rphase' = "block0"
      /\ rev' = rev \o <<"ACK", "C">> /\ <<"ACK", "C">> \in Seq(Replies)
      /\ rfile = Closed + 1
  <2>1. /\ UNCHANGED <<sphase, sfile, block, g_mode, buffer>> /\ Closed \in Nat
        /\ rev \in Seq(Replies) /\ NFiles \in Nat /\ received \in Seq(1..NFiles)
        /\ rfile \in 1..NFiles /\ buffer \in Seq(Places)
    BY <1>0, CalmFacts DEF senderVars, ReceiveEot
  <2>2. /\ disk' = [disk EXCEPT ![rfile] = Written(rfile, buffer)]
        /\ received' = Append(received, rfile) /\ rphase' = "block0"
        /\ rev' = rev \o <<"ACK", "C">>
    BY DEF ReceiveEot, Reply, InitChar, Acked
  <2>3. <<"ACK", "C">> \in Seq(Replies) /\ rfile = Closed + 1
    BY <1>0 DEF Replies, RecvInv
  <2>. QED
    BY <2>1, <2>2, <2>3
<1>4. /\ Closed' = Closed + 1 /\ received'[Closed + 1] = rfile
      /\ \A k \in 1..Closed : received'[k] = received[k]
  BY <1>3, AppendProperties DEF Closed
<1>5. /\ ~Has(rev', "G")
      /\ sphase = "eot" => AckEnds(rev') /\ Len(rev') = 2
  <2>1. ~Has(rev', "G")
    BY <1>0, <1>3, Added, ShortAnswers DEF SentInv
  <2>2. ASSUME sphase = "eot" PROVE AckEnds(rev') /\ Len(rev') = 2
    <3>1. ~Has(rev, "ACK") /\ Len(rev) = 0
      BY <1>1, <2>2 DEF Waiting
    <3>2. Len(rev') = Len(rev) + 2 /\ AckEnds(rev')
      BY <1>3, <3>1, Added, ShortAnswers
    <3>. QED
      BY <3>1, <3>2
  <2>. QED
    BY <2>1, <2>2
<1>6. sphase # "returned"
  BY <1>0, <1>3 DEF SentInv, LastInv
<1>7. SentInv'
  <2>1. /\ LineInv' /\ StartInv' /\ HandshakeInv' /\ Ack0Inv' /\ CInv' /\ BlockInv'
        /\ LastInv'
    BY <1>1, <1>2, <1>3, <1>6 DEF LineInv, StartInv, HandshakeInv, Ack0Inv, CInv, BlockInv,
                                  LastInv, Final
  <2>2. EotInv'
    BY <1>1, <1>2, <1>3, <1>4, <1>5 DEF EotInv
  <2>. QED
    BY <1>0, <1>2, <1>3, <1>5, <2>1, <2>2 DEF SentInv, Final
<1>8. RecvInv'
  <2>0. \A k \in 1..(Closed + 1) : k \in 1..Closed \/ k = Closed + 1
    BY <1>3
  <2>1. \A k \in 1..(Closed + 1) : received'[k] = k
    <3>1. \A k \in 1..Closed : received[k] = k
      BY <1>0 DEF RecvInv
    <3>2. received'[Closed + 1] = Closed + 1
      BY <1>3, <1>4
    <3>. QED
      BY <1>4, <2>0, <3>1, <3>2
  <2>2. /\ Written(rfile, buffer).blocks = FileBlocks(rfile)
        /\ rfile \in Known \ Exact => ~Written(rfile, buffer).stripped
    <3>1. Len(buffer) = Blocks[rfile] /\ \A i \in 1..Len(buffer) : buffer[i] = <<rfile, i>>
      BY <1>0, <1>2, <1>3 DEF RecvInv
    <3>. QED
      BY <1>3, <3>1, WholeWritten
  <2>3. /\ disk'[rfile] = Written(rfile, buffer)
        /\ \A k \in 1..NFiles : k # rfile => disk'[k] = disk[k]
    BY <1>0, <1>3 DEF Typed, ReceiverTyped
  <2>4. \A k \in 1..Closed : k \in 1..NFiles /\ k # rfile
    BY <1>3
  <2>5. \A k \in 1..(Closed + 1) : k \in 1..Closed \/ k = rfile
    BY <1>3
  <2>6. \A k \in 1..Closed : /\ disk'[k].blocks = FileBlocks(k)
                             /\ k \in Known \ Exact => ~disk'[k].stripped
    BY <1>0, <2>3, <2>4 DEF RecvInv
  <2>7. \A k \in 1..(Closed + 1) : /\ disk'[k].blocks = FileBlocks(k)
                                   /\ k \in Known \ Exact => ~disk'[k].stripped
    BY <2>2, <2>3, <2>5, <2>6
  <2>8. \A k \in 1..NFiles : k > Closed + 1 => disk'[k].blocks = <<>>
    <3>1. \A k \in 1..NFiles : k > Closed + 1 => k > Closed /\ k # rfile
      BY <1>3
    <3>. QED
      BY <1>0, <2>3, <3>1 DEF RecvInv
  <2>. QED
    BY <1>3, <1>4, <2>1, <2>7, <2>8 DEF RecvInv, FileBlocks
<1>. QED
  BY <1>7, <1>8

\* A data block is the one accepted last, whose ACK was lost, or the next.
LEMMA AcceptsCalm ==
  ASSUME Calm, Acked, Typed', UNCHANGED senderVars,
         rphase = "data", fwd # <<>>, fwd' = Tail(fwd), ReceiveFrame(Head(fwd))
  PROVE  SentInv' /\ RecvInv'
<1>. DEFINE t == Head(fwd)
            n == Len(buffer)
<1>0. Typed /\ SentInv /\ RecvInv
  BY DEF Calm
<1>1. /\ t = fwd[1] /\ Len(fwd') = 0 /\ Len(fwd) \in Nat \ {0}
      /\ sphase \in Waiting => ~Has(rev, "ACK") /\ Len(rev) = 0
  BY <1>0, ReadFacts
<1>2. /\ t.file = sfile /\ t.blk = block /\ sphase \in {"block"} \cup Final
      /\ sfile = Closed + 1 /\ block \in 1..Blocks[sfile] /\ n \in {block - 1, block}
  <2>1. t.kind \in {"BLOCK0", "DATA"} /\ t.kind \notin Mangled
    BY DEF ReceiveFrame, Mangled
  <2>. QED
    BY <1>0, <1>1, <2>1 DEF SentInv, LineInv
<1>3. /\ UNCHANGED <<sphase, sfile, block, g_mode, rfile, disk, received>> /\ Closed' = Closed
      /\ n \in Nat /\ block \in Nat /\ block - 1 \in Nat /\ rev \in Seq(Replies)
      /\ Closed \in Nat /\ rfile \in 1..NFiles /\ buffer \in Seq(Places)
      /\ <<"ACK">> \in Seq(Replies) /\ Blocks[rfile] \in Nat
  <2>1. block \in Nat /\ Blocks[sfile] \in Nat /\ rfile = sfile
    BY <1>0, <1>2, CalmFacts DEF RecvInv
  <2>2. block - 1 \in Nat
    BY <1>2, <2>1
  <2>. QED
    BY <1>0, <2>1, <2>2, CalmFacts DEF senderVars, ReceiveFrame, Closed, Replies
<1>4. /\ rfile = Closed + 1 /\ n <= Blocks[rfile] /\ expected = Number(n + 1)
      /\ \A i \in 1..n : buffer[i] = <<rfile, i>>
  BY <1>0 DEF RecvInv
<1>5. /\ PrevNumber(expected) = Number(n) /\ NextNumber(expected) = Number(n + 2)
      /\ Number(n + 1) # Number(n)
  <2>1. n + 1 \in Nat /\ (n + 1) + 1 = n + 2
    BY <1>3
  <2>. QED
    BY <1>3, <1>4, <2>1, Neighbours
<1>. HIDE DEF t, n
<1>6. ASSUME rphase' = "data", rev' = rev \o <<"ACK">>, Len(buffer') = block
      PROVE  SentInv'
  <2>1. ~Has(rev', "G")
    BY <1>0, <1>3, <1>6, Added, ShortAnswers DEF SentInv
  <2>2. sphase = "block" => Len(rev') = 1
    <3>1. Len(rev') = Len(rev) + 1
      BY <1>3, <1>6, Added, ShortAnswers
    <3>. QED
      BY <1>1, <3>1 DEF Waiting
  <2>3. BlockInv'
    <3>1. sphase = "block" => Len(fwd') + Len(rev') <= 1
      BY <1>1, <2>2
    <3>. QED
      BY <1>2, <1>3, <1>6, <3>1 DEF BlockInv
  <2>4. LineInv' /\ StartInv' /\ HandshakeInv' /\ Ack0Inv' /\ CInv' /\ EotInv'
    BY <1>1, <1>2, <1>3, <1>6 DEF LineInv, StartInv, HandshakeInv, Ack0Inv, CInv, EotInv, Final
  <2>5. LastInv'
    BY <1>0, <1>3 DEF SentInv, LastInv
  <2>. QED
    BY <1>0, <1>2, <1>3, <2>1, <2>3, <2>4, <2>5 DEF SentInv, Final
<1>7. CASE IsDuplicate(Number(t.blk)) /\ Reply(<<"ACK">>)
           /\ UNCHANGED <<rphase, expected, buffer>>
  <2>1. n = block
    <3>1. Number(block) = Number(n)
      BY <1>2, <1>5, <1>7 DEF IsDuplicate
    <3>2. n = block - 1 => block = n + 1
      BY <1>3
    <3>. QED
      BY <1>2, <1>5, <3>1, <3>2
  <2>2. SentInv'
    BY <1>6, <1>7, <2>1 DEF Reply, n
  <2>3. RecvInv'
    BY <1>0, <1>3, <1>7 DEF RecvInv, FileBlocks, Number
  <2>. QED
    BY <2>2, <2>3
<1>8. CASE ~IsDuplicate(Number(t.blk))
  <2>1. n = block - 1
    <3>1. Number(block) # Number(n)
      BY <1>2, <1>5, <1>8 DEF IsDuplicate
    <3>. QED
      BY <1>2, <3>1
  <2>2. n + 1 = block
    BY <1>3, <2>1
  <2>3. IsNext(Number(t.blk))
    BY <1>2, <1>4, <2>2 DEF IsNext
  <2>4. /\ buffer' = Append(buffer, <<rfile, n + 1>>) /\ expected' = NextNumber(expected)
        /\ rev' = rev \o <<"ACK">> /\ rphase' = "data"
    BY <1>2, <1>4, <1>8, <2>2, <2>3 DEF ReceiveFrame, Reply, Acked, t
  <2>5. <<rfile, n + 1>> \in Places
    BY <1>3, Constants DEF Places
  <2>6. /\ Len(buffer') = n + 1 /\ buffer'[n + 1] = <<rfile, n + 1>>
        /\ \A i \in 1..n : buffer'[i] = buffer[i]
    BY <1>3, <2>4, <2>5, AppendProperties DEF n
  <2>7. SentInv'
    BY <1>6, <2>2, <2>4, <2>6
  <2>8. \A i \in 1..(n + 1) : buffer'[i] = <<rfile, i>>
    BY <1>3, <1>4, <2>6
  <2>9. n + 1 <= Blocks[rfile]
    BY <1>2, <1>4, <2>2
  <2>10. expected' = Number(Len(buffer') + 1)
    <3>1. (n + 1) + 1 = n + 2
      BY <1>3
    <3>. QED
      BY <1>5, <2>4, <2>6, <3>1
  <2>11. RecvInv'
    BY <1>0, <1>3, <1>4, <2>4, <2>6, <2>8, <2>9, <2>10 DEF RecvInv, FileBlocks, Number
  <2>. QED
    BY <2>7, <2>11
<1>. QED
  BY <1>7, <1>8 DEF ReceiveFrame, t

\* One read of the receiver.
LEMMA ReceiverReadsCalm ==
  ASSUME Calm, Acked, ReceiverReads, Typed'
  PROVE  SentInv' /\ RecvInv'
<1>0. Typed /\ SentInv /\ RecvInv
  BY DEF Calm
<1>1. /\ fwd # <<>> /\ fwd' = Tail(fwd) /\ UNCHANGED senderVars
      /\ UNCHANGED <<sphase, sfile, block, g_mode>> /\ rphase \in {"block0", "data"}
  BY DEF ReceiverReads, senderVars, ReceiveBlock0, ReceiveData
<1>2. /\ Head(fwd) = fwd[1] /\ Len(fwd) \in Nat \ {0}
      /\ sphase \in Waiting => ~Has(rev, "ACK") /\ sphase \in {"ack0", "block", "eot"}
      /\ rphase = "data" => Len(fwd') = 0
      /\ rphase = "data" /\ sphase \in Waiting => Len(rev) = 0
      /\ rphase = "block0" =>
           \/ Len(fwd') = 0
           \/ /\ \A k \in 1..Len(fwd') : fwd'[k].kind \in Mangled
              /\ sphase \in {"eot"} \cup Final
  BY <1>0, <1>1, ReadFacts
<1>3. ASSUME UNCHANGED <<rfile, expected, buffer, disk, received>>,
             rphase' = rphase \/ rphase' \in Final \ {"returned"},
             rev' = rev \/ rev' = rev \o <<"NAK">>
      PROVE  SentInv' /\ RecvInv'
  BY <1>0, <1>1, <1>2, <1>3, ReceiverStays
<1>4. CASE ReceiveBlock0(Head(fwd))
  <2>1. CASE Head(fwd).kind = "BLOCK0" /\ Block0Read(Head(fwd).file)
    <3>1. UNCHANGED received /\ rphase = "block0"
      BY <1>4, <2>1 DEF Block0Read, ReceiveBlock0
    <3>. QED
      BY <1>1, <2>1, <3>1, OpensCalm
  <2>2. CASE Block0Missed(1)
    <3>1. [i \in 1..1 |-> "NAK"] = <<"NAK">>
      OBVIOUS
    <3>2. rphase = "block0"
      BY <1>4 DEF ReceiveBlock0
    <3>. QED
      BY <1>3, <2>2, <3>1, <3>2 DEF Block0Missed, Reply, Final
  <2>3. CASE Head(fwd).kind = "DATA"
    <3>1. FALSE
      BY <1>0, <1>2, <1>4, <2>3 DEF ReceiveBlock0, SentInv, LineInv, Mangled
    <3>. QED
      BY <3>1
  <2>4. CASE rphase' = "cancelled"
             /\ UNCHANGED <<rfile, expected, errors, buffer, disk, received, rev>>
    BY <1>3, <2>4 DEF Final
  <2>. QED
    BY <1>4, <2>1, <2>2, <2>3, <2>4 DEF ReceiveBlock0
<1>5. CASE ReceiveData(Head(fwd))
  <2>0. rphase = "data"
    BY <1>5 DEF ReceiveData
  <2>1. CASE Head(fwd).kind = "EOT" /\ ReceiveEot
    BY <1>1, <2>0, <2>1, ClosesCalm
  <2>2. CASE rphase' = "cancelled"
             /\ UNCHANGED <<rfile, expected, errors, buffer, disk, received, rev>>
    BY <1>3, <2>2 DEF Final
  <2>3. CASE Reply(<<"NAK">>) /\ UNCHANGED <<rphase, rfile, expected, buffer, disk, received>>
    BY <1>3, <2>3 DEF Reply
  <2>4. CASE ReceiveFrame(Head(fwd))
    BY <1>1, <2>0, <2>4, AcceptsCalm
  <2>. QED
    BY <1>5, <2>1, <2>2, <2>3, <2>4 DEF ReceiveData
<1>. QED
  BY <1>4, <1>5 DEF ReceiverReads

\* The receiver gives up waiting, in silence.
LEMMA ReceiverTimeoutCalm ==
  ASSUME Calm, ReceiverTimeout, Quiet, Typed'
  PROVE  SentInv' /\ RecvInv'
<1>0. Typed /\ SentInv /\ RecvInv
  BY DEF Calm
<1>1. /\ UNCHANGED <<sphase, sfile, block, g_mode, fwd>> /\ rphase \in {"block0", "data"}
      /\ fwd = <<>> /\ (sphase \in Waiting => rev = <<>>)
  BY DEF ReceiverTimeout, senderVars, Quiet, Final, Waiting
<1>2. Len(fwd') = 0 /\ (sphase \in Waiting => ~Has(rev, "ACK") /\ Len(rev) = 0)
  BY <1>1, ShortAnswers
<1>3. ASSUME UNCHANGED <<rfile, expected, buffer, disk, received>>,
             rphase' = rphase \/ rphase' \in Final \ {"returned"},
             rev' = rev \/ rev' = rev \o <<"NAK">>
      PROVE  SentInv' /\ RecvInv'
  BY <1>0, <1>1, <1>2, <1>3, ReceiverStays
<1>4. CASE rphase = "block0" /\ Block0Missed(1)
  <2>1. [i \in 1..1 |-> "NAK"] = <<"NAK">>
    OBVIOUS
  <2>. QED
    BY <1>3, <1>4, <2>1 DEF Block0Missed, Reply, Final
<1>5. CASE /\ \/ rphase' = "timeout" /\ UNCHANGED rev
              \/ Reply(<<"NAK">>) /\ UNCHANGED rphase
           /\ UNCHANGED <<rfile, expected, buffer, disk, received>>
  BY <1>3, <1>5 DEF Reply, Final
<1>. QED
  BY <1>4, <1>5 DEF ReceiverTimeout

-----------------------------------------------------------------------------
(* What becomes of the batch *)

CalmInv == Typed /\ (Acked => SentInv /\ RecvInv)

LEMMA CalmStep == CalmInv /\ [Next]_vars => CalmInv'
<1>. SUFFICES ASSUME CalmInv, [Next]_vars PROVE CalmInv'
  OBVIOUS
<1>1. Typed /\ Typed'
  BY TypedStep DEF CalmInv
<1>2. late \in Nat
  BY <1>1 DEF Typed, LineTyped
<1>3. TimerFires /\ late' = 0 => Quiet
  BY <1>2 DEF TimerFires
<1>4. r_g_mode' = r_g_mode /\ (late' = 0 => late = 0)
  <2>1. r_g_mode' = r_g_mode
    BY DEF Next, vars, receiverVars, SenderReads, SenderTimeout, SenderStreams,
           ReceiverStart, ReceiverReads, ReceiverTimeout, ForwardFault, ReverseFault
  <2>2. TimerFires /\ late' = 0 => late = 0
    BY <1>2 DEF TimerFires
  <2>3. late' = late \/ TimerFires
    BY DEF Next, vars, SenderReads, SenderTimeout, SenderStreams, Fault,
           ReceiverStart, ReceiverReads, ReceiverTimeout, ForwardFault, ReverseFault
  <2>. QED
    BY <2>1, <2>2, <2>3
<1>. SUFFICES ASSUME Acked' PROVE SentInv' /\ RecvInv'
  BY <1>1 DEF CalmInv
<1>5. Acked /\ late' = 0 /\ Calm /\ SentInv /\ RecvInv
  BY <1>1, <1>4 DEF CalmInv, Acked, Calm
<1>6. CASE SenderReads
  BY <1>1, <1>5, <1>6, SenderReadsCalm, RecvKept DEF SenderReads
<1>7. CASE SenderTimeout
  BY <1>1, <1>3, <1>5, <1>7, SenderTimeoutCalm, RecvKept DEF SenderTimeout
<1>8. CASE SenderStreams
  BY <1>5, <1>8 DEF SenderStreams, SentInv
<1>9. CASE ReceiverStart
  BY <1>1, <1>5, <1>9, ReceiverStartCalm
<1>10. CASE ReceiverReads
  BY <1>1, <1>5, <1>10, ReceiverReadsCalm
<1>11. CASE ReceiverTimeout
  BY <1>1, <1>3, <1>5, <1>11, ReceiverTimeoutCalm DEF ReceiverTimeout
<1>12. CASE ForwardFault
  BY <1>1, <1>5, <1>12, ForwardFaultCalm, RecvKept DEF ForwardFault
<1>13. CASE ReverseFault
  BY <1>1, <1>5, <1>13, ReverseFaultCalm, RecvKept DEF ReverseFault
<1>14. CASE UNCHANGED vars
  <2>1. RecvInv'
    BY <1>5, <1>14, RecvKept DEF vars
  <2>2. SentInv'
    BY <1>5, <1>14 DEF vars, senderVars, receiverVars, SentInv, LineInv, StartInv, HandshakeInv,
                       Ack0Inv, CInv, BlockInv, EotInv, LastInv, Closed
  <2>. QED
    BY <2>1, <2>2
<1>. QED
  BY <1>6, <1>7, <1>8, <1>9, <1>10, <1>11, <1>12, <1>13, <1>14 DEF Next

LEMMA CalmInit == Init => CalmInv
<1>. SUFFICES ASSUME Init PROVE CalmInv
  OBVIOUS
<1>1. Closed = 0 /\ Len(fwd) = 0 /\ Len(rev) = 0 /\ Len(buffer) = 0
  BY DEF Init, Closed
<1>2. ~Has(rev, "ACK") /\ ~Has(rev, "G")
  BY ShortAnswers DEF Init
<1>3. SentInv
  BY <1>1, <1>2 DEF Init, SentInv, LineInv, StartInv, HandshakeInv, Ack0Inv, CInv, BlockInv,
                    EotInv, LastInv
<1>4. RecvInv
  <2>1. \A k \in 1..NFiles : disk[k].blocks = <<>>
    BY DEF Init, Opened
  <2>. QED
    BY <1>1, <2>1 DEF Init, RecvInv
<1>. QED
  BY <1>3, <1>4, TypedInit DEF CalmInv

\* A file that receive() has closed is all there, in its place, and cut at its
\* size where that came with block 0, as long as each block is acknowledged
\* (`~r_g_mode`) and no timer of ymodem.py runs ahead of an answer.
THEOREM ClosedFilesAreWhole == Spec => []AckedIsWhole
<1>1. CalmInv => AckedIsWhole
  <2>. SUFFICES ASSUME CalmInv, Acked PROVE AckedIsWhole
    BY DEF AckedIsWhole, Acked
  <2>1. RecvInv /\ Closed = Len(received)
    BY DEF CalmInv, Closed
  <2>. QED
    BY <2>1 DEF RecvInv, AckedIsWhole, ReceivedIsWhole
<1>. QED
  BY <1>1, CalmInit, CalmStep, PTL DEF Spec

\* send() returns only when the receiver has closed every file of the batch,
\* whatever was lost or spoilt on the way, when blocks are acknowledged and no
\* timer runs ahead.
THEOREM SenderLearns == Spec => []SenderKnows
<1>1. CalmInv => SenderKnows
  BY DEF CalmInv, Acked, SentInv, LastInv, SenderKnows, Closed
<1>. QED
  BY <1>1, CalmInit, CalmStep, PTL DEF Spec

-----------------------------------------------------------------------------
(* Any batch: files are kept apart, block by block or streamed.            *)
(*                                                                         *)
(* The argument counts frames.  The sender writes a chain, each frame the  *)
(* one before it once more or its successor in the batch.  Answers decide  *)
(* when it goes on, but never what it leaves out, so the proof needs none  *)
(* of them: between what the receiver has and what it reads next, only the *)
(* frames are missing that the line has taken.                             *)

(* The chain on the line *)

\* A frame is one that the batch has.
Shape(t) ==
  /\ t.kind = "DATA" => t.file \in 1..NFiles /\ t.blk \in 1..Blocks[t.file]
  /\ t.kind = "BLOCK0" => t.blk = 0
  /\ t.kind = "EOT" => t.ok

\* Whole, and what the sender wrote.
Intact(t) == t.ok /\ t.kind \in {"BLOCK0", "DATA", "EOT"}

\* What the sender can write right after t, or after what the line made of t:
\* the same once more, or what comes next in the batch.
Follows(t, u) ==
  \/ /\ u.kind = "DATA"
     /\ \/ t.kind = "DATA" /\ t.file = u.file /\ u.blk \in {t.blk, t.blk + 1}
        \/ t.kind = "BLOCK0" /\ t.file = u.file /\ u.blk = 1
  \/ /\ u.kind = "EOT"
     /\ \/ t.kind \in Mangled
        \/ t.kind = "DATA" /\ t.blk = Blocks[t.file]
        \/ t.kind = "BLOCK0" /\ t.file \in 1..NFiles /\ Blocks[t.file] = 0
  \/ u.kind = "BLOCK0" /\ t.kind \in Mangled

\* t is u, or what the line made of it.
Like(t, u) ==
  \/ t.kind \in Mangled /\ u.kind \in Mangled
  \/ t.kind = u.kind /\ t.file = u.file /\ t.blk = u.blk

\* What the sender wrote last, and the last file whose block 0 it wrote.
Sent ==
  IF sphase = "block" THEN Data(sfile, block)
  ELSE IF sphase \in {"eot", "stream"} THEN Ctl("EOT")
  ELSE Block0(sfile)
Begun == IF sphase \in {"handshake", "stream"} THEN sfile - 1 ELSE sfile

\* The line holds frames in the order they were written; only the first can
\* have been spoilt.
ChainInv ==
  /\ \A k \in 1..Len(fwd) : Shape(fwd[k])
  /\ \A k \in 2..Len(fwd) : Intact(fwd[k]) /\ Follows(fwd[k-1], fwd[k])

\* Each block 0 is that of a later file.
OrderInv ==
  /\ rfile <= Begun
  /\ \A k \in 1..Len(fwd) : fwd[k].kind = "BLOCK0" =>
       /\ rfile < fwd[k].file /\ fwd[k].file <= Begun
       /\ \A j \in 1..(k - 1) : fwd[j].kind = "BLOCK0" => fwd[j].file < fwd[k].file

WrittenInv ==
  /\ sphase = "block" => block \in 1..Blocks[sfile]
  /\ sphase \notin Final /\ Len(fwd) > 0 => Begun > 0 /\ Like(fwd[Len(fwd)], Sent)

\* Each file is closed once, in the order of the batch.
ClosedInv ==
  /\ \A j, k \in 1..Len(received) : j < k => received[j] < received[k]
  /\ \A k \in 1..Len(received) :
       received[k] <= rfile /\ (rphase = "data" => received[k] < rfile)

-----------------------------------------------------------------------------
(* The frames that are missing *)

Hurt(t) == IF Intact(t) THEN 0 ELSE 1

\* From n blocks of file f to the frame t, no more frames are missing than the
\* line has taken, g: when t is still to be read ...
Before(t, f, n, g) ==
  IF t.kind = "DATA" /\ t.file = f
    THEN n <= t.blk /\ t.blk + Hurt(t) <= n + 1 + g
    ELSE Blocks[f] + Hurt(t) + (IF t.kind = "DATA" THEN t.blk + 1 ELSE
                                IF t.kind = "BLOCK0" THEN 1 ELSE 0) <= n + g

\* ... and when it has been read, or lost.
After(t, f, n, g) ==
  IF t.kind = "DATA" /\ t.file = f THEN n <= t.blk /\ t.blk <= n + g
  ELSE IF t.kind = "BLOCK0" /\ t.file = f THEN n = 0
  ELSE Blocks[f] + 1 + (IF t.kind = "DATA" THEN t.blk + 1 ELSE
                        IF t.kind = "BLOCK0" THEN 1 ELSE 0) <= n + g

Gap(f, n, g) ==
  /\ Len(fwd) > 0 => Before(fwd[1], f, n, g)
  /\ Len(fwd) = 0 /\ sphase \notin Final => After(Sent, f, n, g)

\* A file's own blocks, from the first.
Own(f, b) == Len(b) <= Blocks[f] /\ \A i \in 1..Len(b) : b[i] = <<f, i>>

KeptInv ==
  /\ rphase = "data" => expected = Number(Len(buffer) + 1)
  /\ rphase = "data" /\ NumbersTell(rfile) =>
       Own(rfile, buffer) /\ Gap(rfile, Len(buffer), faults)
  /\ \A f \in 1..NFiles : NumbersTell(f) => Own(f, disk[f].blocks)

GapInv == ChainInv /\ OrderInv /\ WrittenInv /\ ClosedInv /\ KeptInv

-----------------------------------------------------------------------------
(* Numbers *)

\* Blocks of one number are a multiple of the cycle apart.
LEMMA SameNumber ==
  ASSUME NEW a \in Nat, NEW b \in Nat, a <= b, Number(a) = Number(b)
  PROVE  Number(b - a) = 0
<1>. DEFINE p == a \div NumMod
            q == b \div NumMod
            r == Number(a)
<1>1. a = NumMod * p + r /\ b = NumMod * q + r /\ p \in Nat /\ q \in Nat
  BY Division
<1>2. NumMod \in Nat /\ NumMod > 1 /\ r \in Nat
  BY Constants, NumberTyped
<1>. HIDE DEF p, q, r
<1>3. b - a = NumMod * (q - p) + 0
  BY <1>1, <1>2
<1>4. b - a \in Nat /\ q - p \in Int /\ 0 \in 0..(NumMod - 1)
  BY <1>1, <1>2
<1>. QED
  BY <1>3, <1>4, NumberIs

LEMMA SmallNumber ==
  ASSUME NEW c \in Nat, c < NumMod
  PROVE  Number(c) = c
<1>1. c = NumMod * 0 + c /\ c \in 0..(NumMod - 1)
  BY Constants
<1>. QED
  BY <1>1, NumberIs

\* Near the block wanted, a number says which block it is.
LEMMA OwnNumber ==
  ASSUME NEW n \in Nat, NEW m \in Nat, NEW g \in Nat, n <= m, m <= n + 1 + g, g < NumMod - 1
  PROVE  /\ Number(m) = Number(n) => m = n
         /\ Number(m) = Number(n + 1) => m = n + 1
<1>0. NumMod \in Nat /\ m - n \in Nat /\ m - n < NumMod
  BY Constants
<1>1. ASSUME Number(m) = Number(n) PROVE m = n
  <2>1. Number(m - n) = 0
    BY <1>1, SameNumber
  <2>2. Number(m - n) = m - n
    BY <1>0, SmallNumber
  <2>. QED
    BY <2>1, <2>2
<1>2. ASSUME Number(m) = Number(n + 1) PROVE m = n + 1
  <2>1. CASE m = n
    BY <1>2, <2>1, Neighbours
  <2>2. CASE m # n
    <3>1. n + 1 \in Nat /\ n + 1 <= m /\ m - (n + 1) \in Nat /\ m - (n + 1) < NumMod
      BY <1>0, <2>2
    <3>2. Number(m - (n + 1)) = 0
      BY <1>2, <3>1, SameNumber
    <3>3. Number(m - (n + 1)) = m - (n + 1)
      BY <3>1, SmallNumber
    <3>. QED
      BY <3>2, <3>3
  <2>. QED
    BY <2>1, <2>2
<1>. QED
  BY <1>1, <1>2

\* A frame past the end of the file has the number of neither block: this is
\* what NumbersTell is for.
LEMMA FarNumber ==
  ASSUME NEW f \in 1..NFiles, NEW n \in 0..Blocks[f], NEW m \in Nat, faults \in Nat,
         NumbersTell(f), Blocks[f] + 1 + m <= n + faults
  PROVE  Number(m) # Number(n) /\ Number(m) # Number(n + 1)
<1>0. NumMod \in Nat /\ Blocks[f] \in Nat /\ n \in Nat /\ faults < NumMod - 1
  BY Constants DEF NumbersTell
<1>1. ASSUME NEW i \in 0..Blocks[f], Blocks[f] - i < faults
      PROVE  Number(i) # 0 /\ Number(i + 1) # 0
  <2>1. Number(i) # 0 /\ NextNumber(Number(i)) # 0
    BY <1>1 DEF NumbersTell
  <2>. QED
    BY <2>1, Neighbours
<1>2. ASSUME Number(m) = Number(n) PROVE FALSE
  <2>1. CASE m <= n
    <3>1. n - m \in 0..Blocks[f] /\ Blocks[f] - (n - m) < faults
      BY <1>0, <2>1
    <3>. QED
      BY <1>0, <1>1, <1>2, <2>1, <3>1, SameNumber
  <2>2. CASE m > n
    <3>1. m - n \in Nat /\ m - n < NumMod /\ m - n # 0 /\ n <= m
      BY <1>0, <2>2
    <3>2. Number(m - n) = 0
      BY <1>0, <1>2, <3>1, SameNumber
    <3>. QED
      BY <3>1, <3>2, SmallNumber
  <2>. QED
    BY <1>0, <2>1, <2>2
<1>3. ASSUME Number(m) = Number(n + 1) PROVE FALSE
  <2>1. CASE m = 0
    <3>1. Number(m) = 0
      BY <1>0, <2>1, SmallNumber
    <3>2. n \in 0..Blocks[f] /\ Blocks[f] - n < faults
      BY <1>0, <2>1
    <3>. QED
      BY <1>1, <1>3, <3>1, <3>2
  <2>2. CASE m > 0 /\ m <= n + 1
    <3>1. n + 1 - m \in 0..Blocks[f] /\ Blocks[f] - (n + 1 - m) < faults /\ n + 1 \in Nat
      BY <1>0, <2>2
    <3>2. Number(n + 1 - m) = 0
      BY <1>3, <2>2, <3>1, SameNumber
    <3>. QED
      BY <1>1, <3>1, <3>2
  <2>3. CASE m > n + 1
    <3>1. m - (n + 1) \in Nat /\ m - (n + 1) < NumMod /\ m - (n + 1) # 0 /\ n + 1 <= m
          /\ n + 1 \in Nat
      BY <1>0, <2>3
    <3>2. Number(m - (n + 1)) = 0
      BY <1>3, <3>1, SameNumber
    <3>. QED
      BY <3>1, <3>2, SmallNumber
  <2>. QED
    BY <1>0, <2>1, <2>2, <2>3
<1>. QED
  BY <1>2, <1>3

\* Faults are never forgotten.
LEMMA StillTell ==
  ASSUME Typed, faults' \in {faults, faults + 1}, NEW f \in 1..NFiles, NumbersTell(f)'
  PROVE  NumbersTell(f)
<1>1. faults \in Nat /\ faults' \in Nat /\ faults <= faults' /\ Blocks[f] \in Nat /\ NumMod \in Nat
  BY Constants DEF Typed, LineTyped
<1>2. faults' < NumMod - 1
      /\ \A n \in 0..Blocks[f] :
           Blocks[f] - n < faults' => Number(n) # 0 /\ NextNumber(Number(n)) # 0
  BY DEF NumbersTell, Number, NextNumber
<1>3. ASSUME NEW n \in 0..Blocks[f], Blocks[f] - n < faults PROVE Blocks[f] - n < faults'
  BY <1>1, <1>3
<1>. QED
  BY <1>1, <1>2, <1>3 DEF NumbersTell

-----------------------------------------------------------------------------
(* Frames, one after the other *)

\* What comes after a frame that has been read is still to be read.
LEMMA NextFrame ==
  ASSUME NEW t \in Frames, NEW u \in Frames, NEW f \in 1..NFiles, NEW n \in Nat, NEW g \in Nat,
         Shape(t), Intact(u), Follows(t, u), After(t, f, n, g)
  PROVE  Before(u, f, n, g)
<1>0. /\ Blocks[f] \in Nat /\ t.blk \in Nat /\ u.blk \in Nat /\ Hurt(u) = 0
  BY Constants DEF Frames, Hurt
<1>1. CASE u.kind = "DATA"
  BY <1>0, <1>1 DEF Follows, After, Before
<1>2. CASE u.kind = "EOT"
  BY <1>0, <1>2 DEF Follows, After, Before, Mangled
<1>3. CASE u.kind = "BLOCK0"
  BY <1>0, <1>3 DEF Follows, After, Before, Mangled
<1>. QED
  BY <1>1, <1>2, <1>3 DEF Intact

\* A frame is taken off the line, or read as noise.
LEMMA Missing ==
  ASSUME NEW t \in Frames, NEW f \in 1..NFiles, NEW n \in Nat, NEW g \in Nat,
         t.kind = "BLOCK0" => t.file # f, Before(t, f, n, g)
  PROVE  /\ After(t, f, n, g + 1)
         /\ ~Intact(t) => After(t, f, n, g)
<1>0. /\ Blocks[f] \in Nat /\ t.blk \in Nat /\ Hurt(t) \in {0, 1} /\ (~Intact(t) => Hurt(t) = 1)
  BY Constants DEF Frames, Hurt
<1>1. CASE t.kind = "DATA"
  BY <1>0, <1>1 DEF After, Before
<1>2. CASE t.kind = "BLOCK0"
  BY <1>0, <1>2 DEF After, Before
<1>3. CASE t.kind \notin {"DATA", "BLOCK0"}
  BY <1>0, <1>3 DEF After, Before
<1>. QED
  BY <1>1, <1>2, <1>3

LEMMA Spoilt ==
  ASSUME NEW t \in Frames, NEW u \in Frames, NEW f \in 1..NFiles, NEW n \in Nat, NEW g \in Nat,
         Intact(t), Like(u, t), Before(t, f, n, g)
  PROVE  Before(u, f, n, g + 1)
<1>0. /\ Blocks[f] \in Nat /\ t.blk \in Nat /\ u.blk \in Nat /\ Hurt(t) = 0 /\ Hurt(u) \in {0, 1}
  BY Constants DEF Frames, Hurt
<1>1. CASE t.kind = "DATA"
  BY <1>0, <1>1 DEF Like, Before, Mangled
<1>2. CASE t.kind = "BLOCK0"
  BY <1>0, <1>2 DEF Like, Before, Mangled
<1>3. CASE t.kind = "EOT"
  BY <1>0, <1>3 DEF Like, Before, Mangled
<1>. QED
  BY <1>1, <1>2, <1>3 DEF Intact

\* What the line makes of a frame does not change its place in the chain.
LEMMA Alike ==
  ASSUME NEW t \in Frames, NEW u \in Frames, Like(t, u)
  PROVE  /\ \A v \in Frames : Follows(t, v) <=> Follows(u, v)
         /\ \A f \in 1..NFiles, n \in Nat, g \in Nat : After(t, f, n, g) <=> After(u, f, n, g)
<1>1. CASE t.kind \in Mangled /\ u.kind \in Mangled
  BY <1>1 DEF Mangled, Follows, After
<1>2. CASE t.kind = u.kind /\ t.file = u.file /\ t.blk = u.blk
  BY <1>2 DEF Mangled, Follows, After
<1>. QED
  BY <1>1, <1>2 DEF Like

-----------------------------------------------------------------------------
(* Steps of the sender *)

LEMMA GapFacts ==
  ASSUME Typed
  PROVE  /\ Begun \in Nat /\ Sent \in Frames
         /\ faults \in Nat /\ disk \in [1..NFiles -> [blocks : Seq(Places), stripped : BOOLEAN]]
         /\ \A k \in 1..Len(fwd) : fwd[k] \in Frames
<1>1. sfile \in 1..EndOfBatch /\ block \in Nat /\ (sphase = "block" => sfile \in 1..NFiles)
  BY DEF Typed, SenderTyped
<1>2. Begun \in Nat
  BY <1>1, Constants DEF Begun
<1>3. Sent \in Frames
  <2>1. Block0(sfile) \in Frames /\ Ctl("EOT") \in Frames
        /\ (sphase = "block" => Data(sfile, block) \in Frames)
    BY <1>1, FrameTyped
  <2>. QED
    BY <2>1 DEF Sent
<1>4. \A k \in 1..Len(fwd) : fwd[k] \in Frames
  BY ElementOfSeq DEF Typed, LineTyped
<1>. QED
  BY <1>2, <1>3, <1>4 DEF Typed, LineTyped, ReceiverTyped

\* The receiver does nothing.
LEMMA ReceiverRests ==
  ASSUME Typed, GapInv, UNCHANGED <<rphase, rfile, expected, buffer, disk, received>>,
         faults' \in {faults, faults + 1},
         rphase = "data" /\ NumbersTell(rfile) => Gap(rfile, Len(buffer), faults)'
  PROVE  ClosedInv' /\ KeptInv'
<1>1. rphase = "data" => rfile \in 1..NFiles
  BY DEF Typed, ReceiverTyped
<1>2. \A f \in 1..NFiles : NumbersTell(f)' => NumbersTell(f)
  BY StillTell
<1>3. rphase' = "data" => expected' = Number(Len(buffer') + 1)
  BY DEF GapInv, KeptInv
<1>4. ASSUME rphase' = "data", NumbersTell(rfile)'
      PROVE  Own(rfile, buffer)' /\ Gap(rfile, Len(buffer), faults)'
  <2>1. PICK f \in 1..NFiles : f = rfile
    BY <1>1, <1>4
  <2>2. NumbersTell(f)'
    BY <1>4, <2>1 DEF NumbersTell, Number, NextNumber
  <2>3. rphase = "data" /\ NumbersTell(rfile)
    BY <1>2, <1>4, <2>1, <2>2
  <2>. QED
    BY <2>3 DEF GapInv, KeptInv, Own
<1>5. \A f \in 1..NFiles : NumbersTell(f)' => Own(f, disk'[f].blocks)
  BY <1>2 DEF GapInv, KeptInv, Own
<1>6. ClosedInv'
  BY DEF GapInv, ClosedInv
<1>. QED
  BY <1>3, <1>4, <1>5, <1>6 DEF KeptInv, Own

\* Nothing is written.
LEMMA Waits ==
  ASSUME Typed, Typed', GapInv, UNCHANGED <<receiverVars, fwd, faults>>, Begun <= Begun',
         \/ sphase' \in Final
         \/ sphase \notin Final /\ (Begun > 0 => Sent' = Sent),
         sphase' = "block" => block' \in 1..Blocks[sfile']
  PROVE  GapInv'
<1>0. /\ Begun \in Nat /\ Begun' \in Nat /\ rfile \in 0..NFiles /\ Len(fwd) \in Nat
      /\ (rphase = "data" => rfile \in 1..NFiles)
      /\ \A k \in 1..Len(fwd) : fwd[k] \in Frames
  <2>0. sfile' \in 1..EndOfBatch
    BY DEF Typed, SenderTyped
  <2>1. \A f \in 1..EndOfBatch : f \in Nat /\ f - 1 \in Nat
    BY Constants
  <2>2. Begun' \in Nat
    BY <2>0, <2>1 DEF Begun
  <2>. QED
    BY <2>2, GapFacts, CalmFacts DEF Typed, ReceiverTyped
<1>1. ChainInv'
  BY DEF GapInv, ChainInv, Shape, Intact, Follows
<1>2. OrderInv'
  <2>1. rfile <= Begun /\ rfile' = rfile /\ fwd' = fwd
    BY DEF GapInv, OrderInv, receiverVars
  <2>2. ASSUME NEW k \in 1..Len(fwd), fwd[k].kind = "BLOCK0"
        PROVE  /\ rfile < fwd[k].file /\ fwd[k].file <= Begun'
               /\ \A j \in 1..(k - 1) : fwd[j].kind = "BLOCK0" => fwd[j].file < fwd[k].file
    <3>1. /\ rfile < fwd[k].file /\ fwd[k].file <= Begun
          /\ \A j \in 1..(k - 1) : fwd[j].kind = "BLOCK0" => fwd[j].file < fwd[k].file
      BY <2>2 DEF GapInv, OrderInv
    <3>2. fwd[k].file \in Int
      BY <1>0, Constants DEF Frames
    <3>. QED
      BY <1>0, <3>1, <3>2
  <2>3. rfile <= Begun'
    BY <1>0, <2>1
  <2>. QED
    BY <2>1, <2>2, <2>3 DEF OrderInv
<1>3. WrittenInv'
  <2>. SUFFICES ASSUME sphase' \notin Final, Len(fwd) > 0
                PROVE  Begun' > 0 /\ Like(fwd[Len(fwd)], Sent')
    BY DEF WrittenInv
  <2>1. Begun > 0 /\ Like(fwd[Len(fwd)], Sent)
    BY DEF GapInv, WrittenInv
  <2>. QED
    BY <1>0, <2>1
<1>4. ClosedInv' /\ KeptInv'
  <2>1. ASSUME rphase = "data", NumbersTell(rfile)
        PROVE  Gap(rfile, Len(buffer), faults)'
    <3>1. Gap(rfile, Len(buffer), faults)
      BY <2>1 DEF GapInv, KeptInv
    <3>2. Begun > 0
      BY <1>0, <2>1 DEF GapInv, OrderInv
    <3>3. rfile' = rfile /\ buffer' = buffer /\ faults' = faults /\ fwd' = fwd
      BY DEF receiverVars
    <3>4. Len(fwd) = 0 /\ sphase' \notin Final => After(Sent', rfile, Len(buffer), faults)
      BY <3>1, <3>2 DEF Gap
    <3>5. Len(fwd) > 0 => Before(fwd[1], rfile, Len(buffer), faults)
      BY <3>1 DEF Gap
    <3>. QED
      BY <3>3, <3>4, <3>5 DEF Gap
  <2>. QED
    BY <2>1, ReceiverRests DEF receiverVars
<1>. QED
  BY <1>1, <1>2, <1>3, <1>4 DEF GapInv

\* m frames are written, of which only the first can be a block 0.
LEMMA Writes ==
  ASSUME Typed, Typed', GapInv, UNCHANGED <<receiverVars, faults>>, sphase \notin Final,
         NEW m \in Nat, m > 0, Len(fwd') = Len(fwd) + m,
         \A k \in 1..Len(fwd) : fwd'[k] = fwd[k],
         \A k \in (Len(fwd) + 1)..(Len(fwd) + m) : Intact(fwd'[k]) /\ Shape(fwd'[k]),
         \A k \in (Len(fwd) + 2)..(Len(fwd) + m) :
           Follows(fwd'[k-1], fwd'[k]) /\ fwd'[k].kind # "BLOCK0",
         Begun > 0 => Follows(Sent, fwd'[Len(fwd) + 1]),
         fwd'[Len(fwd) + 1].kind = "BLOCK0" => /\ Begun < fwd'[Len(fwd) + 1].file
                                               /\ fwd'[Len(fwd) + 1].file <= Begun',
         Like(fwd'[Len(fwd) + m], Sent'), Begun <= Begun', Begun' > 0, Begun' \in Nat,
         sphase' = "block" => block' \in 1..Blocks[sfile']
  PROVE  GapInv'
<1>. DEFINE l == Len(fwd)
<1>0. /\ Begun \in Nat /\ rfile \in 0..NFiles /\ l \in Nat /\ NFiles \in Nat
      /\ (rphase = "data" => rfile \in 1..NFiles) /\ Sent \in Frames
      /\ \A k \in 1..l : fwd[k] \in Frames
      /\ Len(buffer) \in Nat /\ faults \in Nat
  BY GapFacts, CalmFacts DEF Typed, ReceiverTyped
<1>00. \A k \in 1..(l + m) : fwd'[k] \in Frames
  <2>1. fwd' \in Seq(Frames)
    BY DEF Typed, LineTyped
  <2>. QED
    BY <2>1, ElementOfSeq
<1>01. \A t \in Frames : t.file \in Nat
  BY Constants DEF Frames
<1>. HIDE DEF l
<1>02. /\ Len(fwd) = l /\ Len(fwd') = l + m /\ l + m \in Nat /\ l + 1 \in 1..(l + m)
       /\ \A k \in 1..l : fwd'[k] = fwd[k]
       /\ \A k \in (l + 1)..(l + m) : Intact(fwd'[k]) /\ Shape(fwd'[k])
       /\ \A k \in (l + 2)..(l + m) : Follows(fwd'[k-1], fwd'[k]) /\ fwd'[k].kind # "BLOCK0"
       /\ Begun > 0 => Follows(Sent, fwd'[l + 1])
       /\ fwd'[l + 1].kind = "BLOCK0" => Begun < fwd'[l + 1].file /\ fwd'[l + 1].file <= Begun'
       /\ Like(fwd'[l + m], Sent')
  BY <1>0 DEF l
<1>1. ChainInv'
  <2>1. \A k \in 1..l : Shape(fwd[k])
    BY <1>02 DEF GapInv, ChainInv
  <2>2. \A k \in 2..l : Intact(fwd[k]) /\ Follows(fwd[k-1], fwd[k])
    BY <1>02 DEF GapInv, ChainInv
  <2>3. ASSUME NEW k \in 1..(l + m) PROVE Shape(fwd'[k])
    <3>1. k \in 1..l \/ k \in (l + 1)..(l + m)
      BY <1>0
    <3>. QED
      BY <1>02, <2>1, <3>1
  <2>4. ASSUME NEW k \in 2..(l + m) PROVE Intact(fwd'[k]) /\ Follows(fwd'[k-1], fwd'[k])
    <3>1. CASE k \in 2..l
      <4>1. k \in 1..l /\ k - 1 \in 1..l
        BY <1>0, <3>1
      <4>. QED
        BY <1>02, <2>2, <3>1, <4>1
    <3>2. CASE k = l + 1
      <4>0. k - 1 = l /\ l > 0
        BY <1>0, <3>2
      <4>1. l \in 1..l /\ k - 1 = l /\ l > 0 /\ k \in (l + 1)..(l + m)
        BY <1>0, <1>02, <3>2, <4>0
      <4>2. Begun > 0 /\ Like(fwd[l], Sent)
        BY <1>02, <4>1 DEF GapInv, WrittenInv
      <4>3. fwd[l] \in Frames /\ fwd'[k] \in Frames
        BY <1>0, <1>00, <1>02, <3>2, <4>1
      <4>4. Follows(Sent, fwd'[k])
        BY <1>02, <3>2, <4>2
      <4>5. Follows(fwd[l], fwd'[k])
        BY <1>0, <4>2, <4>3, <4>4, Alike
      <4>. QED
        BY <1>02, <4>1, <4>5
    <3>3. CASE k \in (l + 2)..(l + m)
      <4>1. k \in (l + 1)..(l + m)
        BY <1>0, <3>3
      <4>. QED
        BY <1>02, <3>3, <4>1
    <3>. QED
      BY <1>0, <3>1, <3>2, <3>3
  <2>. QED
    BY <1>02, <2>3, <2>4 DEF ChainInv
<1>2. OrderInv'
  <2>1. rfile <= Begun /\ rfile' = rfile
    BY DEF GapInv, OrderInv, receiverVars
  <2>2. ASSUME NEW k \in 1..l, fwd[k].kind = "BLOCK0"
        PROVE  /\ rfile < fwd[k].file /\ fwd[k].file <= Begun
               /\ \A j \in 1..(k - 1) : fwd[j].kind = "BLOCK0" => fwd[j].file < fwd[k].file
    BY <1>02, <2>2 DEF GapInv, OrderInv
  <2>3. ASSUME NEW k \in 1..(l + m), fwd'[k].kind = "BLOCK0"
        PROVE  /\ rfile < fwd'[k].file /\ fwd'[k].file <= Begun'
               /\ \A j \in 1..(k - 1) : fwd'[j].kind = "BLOCK0" => fwd'[j].file < fwd'[k].file
    <3>0. fwd'[k].file \in Nat
      BY <1>00, <1>01
    <3>1. CASE k \in 1..l
      <4>1. fwd'[k] = fwd[k] /\ \A j \in 1..(k - 1) : fwd'[j] = fwd[j]
        BY <1>0, <1>02, <3>1
      <4>2. /\ rfile < fwd[k].file /\ fwd[k].file <= Begun
            /\ \A j \in 1..(k - 1) : fwd[j].kind = "BLOCK0" => fwd[j].file < fwd[k].file
        BY <2>2, <2>3, <3>1, <4>1
      <4>3. fwd'[k].file <= Begun'
        BY <1>0, <3>0, <4>1, <4>2
      <4>. QED
        BY <4>1, <4>2, <4>3
    <3>2. CASE k = l + 1
      <4>1. Begun < fwd'[k].file /\ fwd'[k].file <= Begun'
        BY <1>02, <2>3, <3>2
      <4>2. rfile < fwd'[k].file
        BY <1>0, <2>1, <3>0, <4>1
      <4>3. ASSUME NEW j \in 1..(k - 1), fwd'[j].kind = "BLOCK0" PROVE fwd'[j].file < fwd'[k].file
        <5>1. j \in 1..l
          BY <1>0, <3>2
        <5>2. fwd[j].file <= Begun /\ fwd'[j] = fwd[j] /\ fwd[j].file \in Nat
          BY <1>0, <1>01, <1>02, <2>2, <4>3, <5>1
        <5>. QED
          BY <1>0, <3>0, <4>1, <5>2
      <4>. QED
        BY <4>1, <4>2, <4>3
    <3>3. CASE k \in (l + 2)..(l + m)
      BY <1>02, <2>3, <3>3
    <3>. QED
      BY <1>0, <3>1, <3>2, <3>3
  <2>4. rfile' <= Begun'
    BY <1>0, <2>1
  <2>. QED
    BY <1>02, <2>1, <2>3, <2>4 DEF OrderInv
<1>3. WrittenInv'
  BY <1>02 DEF WrittenInv
<1>4. ClosedInv' /\ KeptInv'
  <2>1. ASSUME rphase = "data", NumbersTell(rfile)
        PROVE  Gap(rfile, Len(buffer), faults)'
    <3>1. Gap(rfile, Len(buffer), faults)
      BY <2>1 DEF GapInv, KeptInv
    <3>2. Begun > 0 /\ rfile \in 1..NFiles
      BY <1>0, <2>1 DEF GapInv, OrderInv
    <3>3. rfile' = rfile /\ buffer' = buffer /\ faults' = faults
      BY DEF receiverVars
    <3>4. CASE l > 0
      <4>1. 1 \in 1..l /\ fwd'[1] = fwd[1] /\ Len(fwd') > 0
        BY <1>0, <1>02, <3>4
      <4>2. Before(fwd[1], rfile, Len(buffer), faults)
        BY <1>02, <3>1, <3>4 DEF Gap
      <4>. QED
        BY <3>3, <4>1, <4>2 DEF Gap
    <3>5. CASE l = 0
      <4>1. After(Sent, rfile, Len(buffer), faults)
        BY <1>02, <3>1, <3>5 DEF Gap
      <4>2. Shape(Sent)
        <5>1. sphase = "block" => sfile \in 1..NFiles /\ block \in 1..Blocks[sfile]
          BY DEF GapInv, WrittenInv, Typed, SenderTyped
        <5>. QED
          BY <5>1 DEF Shape, Sent, Data, Block0, Ctl
      <4>3. fwd'[1] \in Frames /\ Intact(fwd'[1]) /\ Follows(Sent, fwd'[1]) /\ Len(fwd') > 0
        BY <1>00, <1>02, <3>2, <3>5
      <4>4. Before(fwd'[1], rfile, Len(buffer), faults)
        BY <1>0, <3>2, <4>1, <4>2, <4>3, NextFrame
      <4>. QED
        BY <3>3, <4>3, <4>4 DEF Gap
    <3>. QED
      BY <1>0, <3>4, <3>5
  <2>. QED
    BY <2>1, ReceiverRests DEF receiverVars
<1>. QED
  BY <1>1, <1>2, <1>3, <1>4 DEF GapInv

LEMMA BegunTyped ==
  ASSUME Typed'
  PROVE  Begun' \in Nat
<1>1. sfile' \in 1..EndOfBatch
  BY DEF Typed, SenderTyped
<1>2. \A f \in 1..EndOfBatch : f \in Nat /\ f - 1 \in Nat
  BY Constants
<1>. QED
  BY <1>1, <1>2 DEF Begun

\* One frame is written.
LEMMA Adds ==
  ASSUME Typed, Typed', GapInv, UNCHANGED <<receiverVars, faults>>, sphase \notin Final,
         NEW u \in Frames, Intact(u), Shape(u), fwd' = Append(fwd, u),
         Begun > 0 => Follows(Sent, u),
         u.kind = "BLOCK0" => Begun < u.file /\ u.file <= Begun',
         Like(u, Sent'), Begun <= Begun', Begun' > 0,
         sphase' = "block" => block' \in 1..Blocks[sfile']
  PROVE  GapInv'
<1>0. fwd \in Seq(Frames) /\ Len(fwd) \in Nat
  BY CalmFacts
<1>1. /\ Len(fwd') = Len(fwd) + 1 /\ fwd'[Len(fwd) + 1] = u
      /\ \A k \in 1..Len(fwd) : fwd'[k] = fwd[k]
  BY <1>0, FurtherFrame, Zenon
<1>2. \A k \in (Len(fwd) + 1)..(Len(fwd) + 1) : k = Len(fwd) + 1
  BY <1>0
<1>3. \A k \in (Len(fwd) + 2)..(Len(fwd) + 1) : FALSE
  BY <1>0
<1>4. \A k \in (Len(fwd) + 1)..(Len(fwd) + 1) : Intact(fwd'[k]) /\ Shape(fwd'[k])
  BY <1>1, <1>2
<1>5. Begun' \in Nat
  BY BegunTyped
<1>6. 1 \in Nat /\ 1 > 0
  OBVIOUS
<1>7. \A k \in (Len(fwd) + 2)..(Len(fwd) + 1) :
        Follows(fwd'[k-1], fwd'[k]) /\ fwd'[k].kind # "BLOCK0"
  BY <1>3
<1>8. /\ Begun > 0 => Follows(Sent, fwd'[Len(fwd) + 1])
      /\ fwd'[Len(fwd) + 1].kind = "BLOCK0" => /\ Begun < fwd'[Len(fwd) + 1].file
                                               /\ fwd'[Len(fwd) + 1].file <= Begun'
      /\ Like(fwd'[Len(fwd) + 1], Sent')
  BY <1>1
<1>. QED
  BY <1>1, <1>4, <1>5, <1>6, <1>7, <1>8, Writes

LEMMA GoesOn ==
  ASSUME Typed, Typed', GapInv, UNCHANGED <<receiverVars, faults>>, sphase \notin Final,
         NEW f \in 1..EndOfBatch, GoTo(f), Begun = f - 1, Begun > 0 => Sent = Ctl("EOT")
  PROVE  GapInv'
<1>. DEFINE u == Block0(f)
<1>0. u \in Frames /\ f \in Nat /\ f > 0
  BY FrameTyped, Constants
<1>1. fwd' = Append(fwd, u) /\ sfile' = f /\ sphase' \in {"ack0", "last"}
  BY DEF GoTo
<1>2. Begun' = f /\ Sent' = u
  BY <1>1 DEF Begun, Sent, Block0
<1>3. u.kind = "BLOCK0" /\ u.file = f /\ Intact(u) /\ Shape(u) /\ Like(u, u)
  BY DEF Block0, Intact, Shape, Like
<1>4. Begun > 0 => Follows(Sent, u)
  <2>1. Follows(Ctl("EOT"), u)
    BY DEF Block0, Ctl, Follows, Mangled
  <2>. QED
    BY <2>1
<1>5. Begun < f /\ Begun <= Begun' /\ Begun' > 0
  BY <1>0, <1>2
<1>6. Like(u, Sent') /\ sphase' # "block" /\ u.file <= Begun'
  BY <1>0, <1>1, <1>2, <1>3
<1>. HIDE DEF u
<1>. QED
  BY <1>0, <1>1, <1>3, <1>4, <1>5, <1>6, Adds

LEMMA Sends ==
  ASSUME Typed, Typed', GapInv, UNCHANGED <<receiverVars, faults>>, NEW i \in Nat, Transmit(i),
         \/ sphase = "c" /\ i = 1
         \/ sphase = "block" /\ i = block + 1
  PROVE  GapInv'
<1>0. /\ sphase \notin Final /\ sfile \in 1..NFiles /\ block \in Nat
      /\ (sphase = "block" => block \in 1..Blocks[sfile])
      /\ Begun = sfile /\ Begun > 0 /\ i > 0
  BY Constants DEF Final, Typed, SenderTyped, GapInv, WrittenInv, Begun
<1>1. Blocks[sfile] \in Nat
  BY <1>0, Constants
<1>2. Sent = IF sphase = "block" THEN Data(sfile, block) ELSE Block0(sfile)
  BY DEF Sent
<1>3. CASE i <= Blocks[sfile]
  <2>. DEFINE u == Data(sfile, i)
  <2>1. fwd' = Append(fwd, u) /\ sfile' = sfile /\ block' = i /\ sphase' = "block"
    BY <1>0, <1>1, <1>3 DEF Transmit
  <2>2. Begun' = Begun /\ Sent' = u
    BY <1>0, <2>1 DEF Begun, Sent, Data
  <2>3. u \in Frames /\ u.kind = "DATA" /\ Intact(u) /\ Shape(u) /\ Like(u, u)
    BY <1>0, <1>1, <1>3, FrameTyped DEF Data, Intact, Shape, Like
  <2>4. Follows(Sent, u)
    BY <1>0, <1>2 DEF Data, Block0, Follows
  <2>5. block' \in 1..Blocks[sfile']
    BY <1>0, <1>1, <1>3, <2>1
  <2>6. Begun <= Begun' /\ Begun' > 0 /\ Like(u, Sent')
    BY <1>0, <2>2, <2>3, Constants
  <2>. HIDE DEF u
  <2>. QED
    BY <1>0, <2>1, <2>3, <2>4, <2>5, <2>6, Adds
<1>4. CASE i > Blocks[sfile]
  <2>. DEFINE u == Ctl("EOT")
  <2>1. fwd' = Append(fwd, u) /\ sfile' = sfile /\ sphase' = "eot"
    BY <1>0, <1>1, <1>4 DEF Transmit
  <2>2. Begun' = Begun /\ Sent' = u
    BY <1>0, <2>1 DEF Begun, Sent, Ctl
  <2>3. u \in Frames /\ u.kind = "EOT" /\ Intact(u) /\ Shape(u) /\ Like(u, u)
    BY FrameTyped DEF Ctl, Intact, Shape, Like
  <2>4. Follows(Sent, u)
    <3>1. sphase = "block" => block = Blocks[sfile]
      BY <1>0, <1>1, <1>4
    <3>2. sphase = "c" => Blocks[sfile] = 0
      BY <1>0, <1>1, <1>4
    <3>. QED
      BY <1>0, <1>2, <3>1, <3>2 DEF Data, Block0, Ctl, Follows
  <2>5. Begun <= Begun' /\ Begun' > 0 /\ Like(u, Sent') /\ sphase' # "block"
    BY <1>0, <2>1, <2>2, <2>3, Constants
  <2>. HIDE DEF u
  <2>. QED
    BY <1>0, <2>1, <2>3, <2>4, <2>5, Adds
<1>. QED
  BY <1>1, <1>3, <1>4

LEMMA Retries ==
  ASSUME Typed, Typed', GapInv, UNCHANGED <<receiverVars, faults>>, Retry,
         sphase \in {"handshake", "ack0", "c", "block", "eot"}
  PROVE  GapInv'
<1>0. /\ sphase \notin Final /\ block \in Nat /\ sfile \in 1..EndOfBatch
      /\ (sphase \in {"block", "eot"} => sfile \in 1..NFiles)
      /\ (sphase = "block" => block \in 1..Blocks[sfile])
      /\ sfile' = sfile /\ block' = block /\ Begun \in Nat
  BY GapFacts DEF Final, Typed, SenderTyped, GapInv, WrittenInv, Retry
<1>1. CASE UNCHANGED <<sphase, fwd>>
  <2>1. Begun' = Begun /\ Sent' = Sent
    BY <1>0, <1>1 DEF Begun, Sent, Data, Block0, Ctl
  <2>2. Begun <= Begun' /\ (sphase' = "block" => block' \in 1..Blocks[sfile'])
    BY <1>0, <1>1, <2>1
  <2>. QED
    BY <1>0, <1>1, <2>1, <2>2, Waits
<1>2. CASE sphase' = "failed" /\ UNCHANGED fwd
  <2>1. Begun <= Begun'
    <3>1. \A f \in 1..EndOfBatch : f - 1 <= f /\ f <= f
      BY Constants
    <3>. QED
      BY <1>0, <1>2, <3>1 DEF Begun
  <2>2. sphase' \in Final /\ sphase' # "block"
    BY <1>2 DEF Final
  <2>. QED
    BY <1>2, <2>1, <2>2, Waits
<1>3. CASE sphase = "block" /\ sphase' = sphase /\ fwd' = Append(fwd, Data(sfile, block))
  <2>. DEFINE u == Data(sfile, block)
  <2>1. Sent = u /\ Sent' = u /\ Begun' = Begun /\ Begun = sfile
    BY <1>0, <1>3 DEF Begun, Sent, Data
  <2>2. u \in Frames /\ u.kind = "DATA" /\ Intact(u) /\ Shape(u) /\ Like(u, u) /\ Follows(u, u)
    BY <1>0, <1>3, FrameTyped DEF Data, Intact, Shape, Like, Follows
  <2>3. Begun <= Begun' /\ Begun' > 0 /\ Like(u, Sent') /\ Follows(Sent, u)
    BY <1>0, <2>1, <2>2, Constants
  <2>. HIDE DEF u
  <2>4. fwd' = Append(fwd, u) /\ block' \in 1..Blocks[sfile']
    BY <1>0, <1>3 DEF u
  <2>. QED
    BY <1>0, <2>2, <2>3, <2>4, Adds
<1>4. CASE sphase = "eot" /\ sphase' = sphase /\ fwd' = Append(fwd, Ctl("EOT"))
  <2>. DEFINE u == Ctl("EOT")
  <2>1. Sent = u /\ Sent' = u /\ Begun' = Begun /\ Begun = sfile
    BY <1>0, <1>4 DEF Begun, Sent, Ctl
  <2>2. u \in Frames /\ u.kind = "EOT" /\ Intact(u) /\ Shape(u) /\ Like(u, u) /\ Follows(u, u)
    BY FrameTyped DEF Ctl, Intact, Shape, Like, Follows, Mangled
  <2>3. Begun <= Begun' /\ Begun' > 0 /\ Like(u, Sent') /\ Follows(Sent, u)
    BY <1>0, <2>1, <2>2, Constants
  <2>. HIDE DEF u
  <2>4. fwd' = Append(fwd, u) /\ sphase' # "block"
    BY <1>0, <1>4 DEF u
  <2>. QED
    BY <1>0, <2>2, <2>3, <2>4, Adds
<1>. QED
  BY <1>1, <1>2, <1>3, <1>4 DEF Retry

LEMMA Ends ==
  ASSUME Typed, Typed', GapInv, UNCHANGED <<receiverVars, faults>>,
         NEW how \in Final, SenderEnds(how)
  PROVE  GapInv'
<1>1. sphase' \in Final /\ fwd' = fwd /\ sfile' = sfile /\ sphase' # "block"
  BY DEF SenderEnds, Final
<1>2. Begun <= Begun'
  <2>1. \A f \in 1..EndOfBatch : f - 1 <= f /\ f <= f
    BY Constants
  <2>. QED
    BY <1>1, <2>1 DEF Begun, Typed, SenderTyped, Final
<1>. QED
  BY <1>1, <1>2, Waits

\* send() starts with the first file.
AtFirst == sphase = "handshake" => sfile = 1

LEMMA AtFirstStep == Typed /\ AtFirst /\ [Next]_vars => AtFirst'
<1>. SUFFICES ASSUME Typed, AtFirst, [Next]_vars, sphase' = "handshake" PROVE sfile' = 1
  BY DEF AtFirst
<1>1. sphase = "handshake" => sfile = 1
  BY DEF AtFirst
<1>2. CASE SenderReads
  BY <1>1, <1>2 DEF SenderReads, Handshake, AwaitAck0, AwaitC, AwaitAck, GoTo, Transmit, Retry,
                    SenderEnds, Final
<1>3. CASE SenderTimeout
  BY <1>1, <1>3 DEF SenderTimeout, Retry, SenderEnds
<1>4. CASE SenderStreams
  BY <1>1, <1>4 DEF SenderStreams, GoTo
<1>5. CASE UNCHANGED <<sphase, sfile>>
  BY <1>1, <1>5
<1>. QED
  BY <1>2, <1>3, <1>4, <1>5 DEF Next, ReceiverStart, ReceiverReads, ReceiverTimeout, ForwardFault,
                                ReverseFault, senderVars, vars

LEMMA SenderReadsGap ==
  ASSUME Typed, Typed', GapInv, AtFirst, SenderReads
  PROVE  GapInv'
<1>. DEFINE b == Head(rev)
<1>0. UNCHANGED <<receiverVars, faults>> /\ 1 \in 1..EndOfBatch
  BY Constants DEF SenderReads
<1>1. CASE Handshake(b)
  <2>0. sphase = "handshake" /\ sphase \notin Final
    BY <1>1 DEF Handshake, Final
  <2>00. Begun = 0 /\ ~(Begun > 0) /\ Begun = 1 - 1
    BY <2>0 DEF AtFirst, Begun
  <2>1. CASE GoTo(1)
    BY <1>0, <2>0, <2>00, <2>1, GoesOn
  <2>2. CASE sphase' = "stream" /\ sfile' = 1 /\ UNCHANGED <<block, attempt, fwd>>
    <3>1. Begun <= Begun' /\ sphase' # "block"
      BY <2>00, <2>2 DEF Begun
    <3>. QED
      BY <1>0, <2>0, <2>00, <2>2, <3>1, Waits
  <2>3. CASE SenderEnds("cancelled")
    BY <1>0, <2>3, Ends DEF Final
  <2>4. CASE Retry
    BY <1>0, <2>0, <2>4, Retries
  <2>. QED
    BY <1>1, <2>1, <2>2, <2>3, <2>4 DEF Handshake
<1>2. CASE AwaitAck0(b)
  <2>1. CASE sphase = "ack0" /\ sphase' = "c" /\ UNCHANGED <<sfile, block, fwd>>
    <3>1. Begun' = Begun /\ Sent' = Sent /\ sphase \notin Final /\ sphase' # "block"
      BY <2>1 DEF Begun, Sent, Block0, Final
    <3>2. Begun <= Begun'
      BY <3>1, GapFacts
    <3>. QED
      BY <1>0, <2>1, <3>1, <3>2, Waits
  <2>2. CASE SenderEnds("cancelled")
    BY <1>0, <2>2, Ends DEF Final
  <2>3. CASE sphase = "ack0" /\ Retry
    BY <1>0, <2>3, Retries
  <2>. QED
    BY <1>2, <2>1, <2>2, <2>3 DEF AwaitAck0
<1>3. CASE AwaitC(b)
  <2>1. CASE sphase = "c" /\ Transmit(1)
    BY <1>0, <2>1, Sends
  <2>2. CASE SenderEnds("cancelled")
    BY <1>0, <2>2, Ends DEF Final
  <2>3. CASE sphase = "c" /\ Retry
    BY <1>0, <2>3, Retries
  <2>. QED
    BY <1>3, <2>1, <2>2, <2>3 DEF AwaitC
<1>4. CASE AwaitAck(b)
  <2>1. CASE sphase = "block" /\ Transmit(block + 1)
    <3>1. block + 1 \in Nat
      BY CalmFacts
    <3>. QED
      BY <1>0, <2>1, <3>1, Sends
  <2>2. CASE sphase = "eot" /\ GoTo(sfile + 1)
    <3>1. sphase \notin Final /\ Begun = sfile /\ Sent = Ctl("EOT")
      BY <2>2 DEF Begun, Sent, Final
    <3>2. sfile \in 1..NFiles
      BY <2>2, CalmFacts
    <3>3. sfile + 1 \in 1..EndOfBatch /\ Begun = (sfile + 1) - 1
      BY <3>1, <3>2, Constants
    <3>. QED
      BY <1>0, <2>2, <3>1, <3>3, GoesOn
  <2>3. CASE SenderEnds("cancelled")
    BY <1>0, <2>3, Ends DEF Final
  <2>4. CASE sphase \in {"block", "eot"} /\ Retry
    BY <1>0, <2>4, Retries
  <2>. QED
    BY <1>4, <2>1, <2>2, <2>3, <2>4 DEF AwaitAck
<1>5. CASE SenderEnds("returned")
  BY <1>0, <1>5, Ends DEF Final
<1>. QED
  BY <1>1, <1>2, <1>3, <1>4, <1>5 DEF SenderReads

LEMMA SenderTimeoutGap ==
  ASSUME Typed, Typed', GapInv, SenderTimeout
  PROVE  GapInv'
<1>0. UNCHANGED <<receiverVars, faults>>
  BY DEF SenderTimeout
<1>1. CASE sphase \notin Final \cup {"stream", "last"} /\ Retry
  <2>1. sphase \in {"handshake", "ack0", "c", "block", "eot"}
    BY <1>1, CalmFacts
  <2>. QED
    BY <1>0, <1>1, <2>1, Retries
<1>2. CASE SenderEnds("returned")
  BY <1>0, <1>2, Ends DEF Final
<1>. QED
  BY <1>1, <1>2 DEF SenderTimeout

LEMMA ThreeParts ==
  ASSUME NEW S, NEW a \in Seq(S), NEW d \in Seq(S), NEW x \in S
  PROVE  /\ Len(a \o d \o <<x>>) = Len(a) + Len(d) + 1
         /\ \A k \in 1..Len(a) : (a \o d \o <<x>>)[k] = a[k]
         /\ \A i \in 1..Len(d) : (a \o d \o <<x>>)[Len(a) + i] = d[i]
         /\ (a \o d \o <<x>>)[Len(a) + Len(d) + 1] = x
<1>1. Len(a) \in Nat /\ Len(d) \in Nat
  BY LenProperties
<1>2. /\ a \o d \in Seq(S) /\ Len(a \o d) = Len(a) + Len(d)
      /\ \A k \in 1..(Len(a) + Len(d)) :
           (a \o d)[k] = IF k <= Len(a) THEN a[k] ELSE d[k - Len(a)]
  BY ConcatProperties
<1>3. <<x>> \in Seq(S) /\ Len(<<x>>) = 1 /\ <<x>>[1] = x
  OBVIOUS
<1>. DEFINE c == a \o d
            r == c \o <<x>>
<1>4. /\ Len(r) = Len(c) + 1
      /\ \A k \in 1..(Len(c) + 1) : r[k] = IF k <= Len(c) THEN c[k] ELSE <<x>>[k - Len(c)]
  <2>1. c \in Seq(S)
    BY <1>2
  <2>. HIDE DEF c
  <2>2. /\ Len(r) = Len(c) + Len(<<x>>)
        /\ \A k \in 1..(Len(c) + Len(<<x>>)) : r[k] = IF k <= Len(c) THEN c[k] ELSE <<x>>[k - Len(c)]
    BY <1>3, <2>1, ConcatProperties
  <2>. QED
    BY <1>3, <2>2
<1>5. Len(c) = Len(a) + Len(d)
  BY <1>2
<1>6. \A k \in 1..(Len(a) + Len(d)) : c[k] = IF k <= Len(a) THEN a[k] ELSE d[k - Len(a)]
  BY <1>2
<1>. HIDE DEF c, r
<1>7. ASSUME NEW k \in 1..Len(a) PROVE r[k] = a[k]
  <2>1. k \in 1..(Len(c) + 1) /\ k <= Len(c) /\ k \in 1..(Len(a) + Len(d)) /\ k <= Len(a)
    BY <1>1, <1>5
  <2>. QED
    BY <1>4, <1>6, <2>1
<1>8. ASSUME NEW i \in 1..Len(d) PROVE r[Len(a) + i] = d[i]
  <2>1. /\ Len(a) + i \in 1..(Len(c) + 1) /\ Len(a) + i <= Len(c)
        /\ Len(a) + i \in 1..(Len(a) + Len(d)) /\ ~(Len(a) + i <= Len(a))
        /\ (Len(a) + i) - Len(a) = i
    BY <1>1, <1>5
  <2>. QED
    BY <1>4, <1>6, <2>1
<1>9. r[Len(a) + Len(d) + 1] = x
  <2>1. /\ Len(c) + 1 \in 1..(Len(c) + 1) /\ ~(Len(c) + 1 <= Len(c)) /\ (Len(c) + 1) - Len(c) = 1
    BY <1>1, <1>5
  <2>. QED
    BY <1>3, <1>4, <1>5, <2>1
<1>10. Len(r) = Len(a) + Len(d) + 1
  BY <1>4, <1>5
<1>. QED
  BY <1>7, <1>8, <1>9, <1>10 DEF c, r

\* The frames of a file of the stream, by their places.
Streamed(q, f) ==
  Append(q, Block0(f)) \o [i \in 1..Blocks[f] |-> Data(f, i)] \o << Ctl("EOT") >>

LEMMA StreamFrames ==
  ASSUME NEW q \in Seq(Frames), NEW f \in 1..NFiles
  PROVE  /\ Len(Streamed(q, f)) = Len(q) + (Blocks[f] + 2)
         /\ \A k \in 1..Len(q) : Streamed(q, f)[k] = q[k]
         /\ Streamed(q, f)[Len(q) + 1] = Block0(f)
         /\ \A i \in 1..Blocks[f] : Streamed(q, f)[Len(q) + 1 + i] = Data(f, i)
         /\ Streamed(q, f)[Len(q) + (Blocks[f] + 2)] = Ctl("EOT")
<1>. DEFINE a == Append(q, Block0(f))
            d == [i \in 1..Blocks[f] |-> Data(f, i)]
<1>0. Block0(f) \in Frames /\ Ctl("EOT") \in Frames
  BY FrameTyped, Constants
<1>1. Blocks[f] \in Nat /\ \A i \in 1..Blocks[f] : Data(f, i) \in Frames
  BY FrameTyped, Constants
<1>2. Len(q) \in Nat
  BY LenProperties
<1>3. a \in Seq(Frames)
  BY <1>0, AppendProperties
<1>4. Len(a) = Len(q) + 1 /\ a[Len(q) + 1] = Block0(f) /\ \A k \in 1..Len(q) : a[k] = q[k]
  BY <1>0, FurtherFrame, Zenon
<1>5. d \in Seq(Frames)
  <2>1. d \in [1..Blocks[f] -> Frames]
    BY <1>1
  <2>. QED
    BY <1>1, <2>1, SeqDef
<1>6. Len(d) = Blocks[f] /\ \A i \in 1..Blocks[f] : d[i] = Data(f, i)
  <2>. DEFINE n == Blocks[f]
  <2>1. n \in Nat
    BY <1>1
  <2>. HIDE DEF n
  <2>2. Len([i \in 1..n |-> Data(f, i)]) = n
    BY <2>1
  <2>3. \A i \in 1..n : [k \in 1..n |-> Data(f, k)][i] = Data(f, i)
    OBVIOUS
  <2>. QED
    BY <2>2, <2>3 DEF n
<1>. DEFINE c == a \o d \o << Ctl("EOT") >>
<1>7. Streamed(q, f) = c
  BY DEF Streamed
<1>. HIDE DEF a, d
<1>8. /\ Len(c) = Len(a) + Len(d) + 1
      /\ \A k \in 1..Len(a) : c[k] = a[k]
      /\ \A i \in 1..Len(d) : c[Len(a) + i] = d[i]
      /\ c[Len(a) + Len(d) + 1] = Ctl("EOT")
  BY <1>0, <1>3, <1>5, ThreeParts
<1>. HIDE DEF c
<1>9. /\ Len(a) + Len(d) + 1 = Len(q) + (Blocks[f] + 2)
      /\ \A k \in 1..Len(q) : k \in 1..Len(a)
      /\ Len(q) + 1 \in 1..Len(a)
  <2>1. Len(a) = Len(q) + 1 /\ Len(d) = Blocks[f]
    BY <1>4, <1>6
  <2>2. Len(a) + Len(d) + 1 = Len(q) + (Blocks[f] + 2)
    BY <1>1, <1>2, <2>1
  <2>. QED
    BY <1>2, <2>1, <2>2
<1>10. /\ \A k \in 1..Len(q) : c[k] = q[k]
       /\ c[Len(q) + 1] = Block0(f)
  BY <1>4, <1>8, <1>9
<1>11. \A i \in 1..Blocks[f] : c[Len(q) + 1 + i] = Data(f, i)
  BY <1>4, <1>6, <1>8
<1>12. Len(c) = Len(q) + (Blocks[f] + 2) /\ c[Len(q) + (Blocks[f] + 2)] = Ctl("EOT")
  BY <1>8, <1>9
<1>. QED
  BY <1>7, <1>10, <1>11, <1>12

LEMMA SenderStreamsGap ==
  ASSUME Typed, Typed', GapInv, SenderStreams
  PROVE  GapInv'
<1>0. /\ UNCHANGED <<receiverVars, faults>> /\ sphase = "stream" /\ sphase \notin Final
      /\ sfile \in 1..EndOfBatch /\ fwd \in Seq(Frames)
      /\ Begun = sfile - 1 /\ Sent = Ctl("EOT")
  BY DEF SenderStreams, Final, Typed, SenderTyped, LineTyped, Begun, Sent
<1>1. CASE sfile <= NFiles /\ ~GoTo(sfile)
  <2>. DEFINE l == Len(fwd)
              n == Blocks[sfile]
  <2>1. sfile \in 1..NFiles /\ sfile' = sfile + 1 /\ sphase' = sphase /\ l \in Nat /\ n \in Nat
    BY <1>0, <1>1, Constants, LenProperties DEF SenderStreams
  <2>2. /\ Len(fwd') = l + (n + 2)
        /\ \A k \in 1..l : fwd'[k] = fwd[k]
        /\ fwd'[l + 1] = Block0(sfile)
        /\ \A i \in 1..n : fwd'[l + 1 + i] = Data(sfile, i)
        /\ fwd'[l + (n + 2)] = Ctl("EOT")
    <3>1. fwd' = Streamed(fwd, sfile)
      BY <1>1 DEF SenderStreams, Streamed
    <3>. QED
      BY <1>0, <2>1, <3>1, StreamFrames
  <2>. HIDE DEF l
  <2>3. Begun' = sfile /\ Sent' = Ctl("EOT") /\ sphase' # "block"
    BY <1>0, <2>1 DEF Begun, Sent, Ctl
  <2>4. /\ Intact(Block0(sfile)) /\ Shape(Block0(sfile)) /\ Block0(sfile).kind = "BLOCK0"
        /\ Block0(sfile).file = sfile
    BY DEF Block0, Intact, Shape
  <2>5. Intact(Ctl("EOT")) /\ Shape(Ctl("EOT")) /\ Ctl("EOT").kind # "BLOCK0"
    BY DEF Ctl, Intact, Shape
  <2>6. \A i \in 1..n : /\ Intact(Data(sfile, i)) /\ Shape(Data(sfile, i))
                        /\ Data(sfile, i).kind # "BLOCK0"
    BY <2>1 DEF Data, Intact, Shape
  <2>7. /\ \A i \in 2..n : Follows(Data(sfile, i - 1), Data(sfile, i))
        /\ n > 0 => /\ Follows(Block0(sfile), Data(sfile, 1))
                    /\ Follows(Data(sfile, n), Ctl("EOT"))
        /\ n = 0 => Follows(Block0(sfile), Ctl("EOT"))
        /\ Follows(Ctl("EOT"), Block0(sfile))
    <3>1. ASSUME NEW i \in 2..n PROVE Follows(Data(sfile, i - 1), Data(sfile, i))
      <4>1. i = (i - 1) + 1
        OBVIOUS
      <4>. QED
        BY <4>1 DEF Follows, Data
    <3>. QED
      BY <2>1, <3>1 DEF Follows, Data, Block0, Ctl, Mangled
  <2>. HIDE DEF n
  <2>8. ASSUME NEW k \in (l + 1)..(l + (n + 2))
        PROVE  Intact(fwd'[k]) /\ Shape(fwd'[k])
    <3>1. CASE k = l + 1
      BY <2>2, <2>4, <3>1
    <3>2. CASE k = l + (n + 2)
      BY <2>2, <2>5, <3>2
    <3>3. CASE k # l + 1 /\ k # l + (n + 2)
      <4>1. k - (l + 1) \in 1..n /\ l + 1 + (k - (l + 1)) = k
        BY <2>1, <3>3
      <4>2. fwd'[k] = Data(sfile, k - (l + 1))
        BY <2>2, <4>1
      <4>. QED
        BY <2>6, <4>1, <4>2
    <3>. QED
      BY <3>1, <3>2, <3>3
  <2>9. ASSUME NEW k \in (l + 2)..(l + (n + 2))
        PROVE  Follows(fwd'[k-1], fwd'[k]) /\ fwd'[k].kind # "BLOCK0"
    <3>1. CASE k = l + (n + 2) /\ n = 0
      <4>1. k - 1 = l + 1
        BY <2>1, <3>1
      <4>. QED
        BY <2>2, <2>5, <2>7, <3>1, <4>1
    <3>2. CASE k = l + (n + 2) /\ n > 0
      <4>1. k - 1 = l + 1 + n /\ n \in 1..n
        BY <2>1, <3>2
      <4>2. fwd'[k-1] = Data(sfile, n)
        BY <2>2, <4>1
      <4>. QED
        BY <2>2, <2>5, <2>7, <3>2, <4>2
    <3>3. CASE k # l + (n + 2) /\ k = l + 2
      <4>1. n > 0 /\ 1 \in 1..n /\ k = l + 1 + 1 /\ k - 1 = l + 1
        BY <2>1, <3>3
      <4>2. fwd'[k] = Data(sfile, 1) /\ fwd'[k-1] = Block0(sfile)
        BY <2>2, <4>1
      <4>. QED
        BY <2>6, <2>7, <4>1, <4>2
    <3>4. CASE k # l + (n + 2) /\ k # l + 2
      <4>. DEFINE i == k - (l + 1)
      <4>1. i \in 2..n /\ i \in 1..n /\ i - 1 \in 1..n /\ l + 1 + i = k /\ l + 1 + (i - 1) = k - 1
        BY <2>1, <3>4
      <4>. HIDE DEF i
      <4>2. fwd'[k] = Data(sfile, i) /\ fwd'[k-1] = Data(sfile, i - 1)
        BY <2>2, <4>1
      <4>. QED
        BY <2>6, <2>7, <4>1, <4>2
    <3>. QED
      BY <2>1, <3>1, <3>2, <3>3, <3>4
  <2>10. Begun < sfile /\ sfile <= Begun' /\ Begun <= Begun' /\ Begun' > 0 /\ Begun' \in Nat
    BY <1>0, <2>1, <2>3, Constants
  <2>11. Like(fwd'[l + (n + 2)], Sent')
    BY <2>2, <2>3 DEF Like, Ctl, Mangled
  <2>12. n + 2 \in Nat /\ n + 2 > 0 /\ l = Len(fwd)
    BY <2>1 DEF l
  <2>13. /\ Begun > 0 => Follows(Sent, fwd'[l + 1])
         /\ Begun < fwd'[l + 1].file /\ fwd'[l + 1].file <= Begun'
    BY <1>0, <2>2, <2>4, <2>7, <2>10
  <2>. QED
    BY <1>0, <2>2, <2>3, <2>8, <2>9, <2>10, <2>11, <2>12, <2>13, Writes
<1>2. CASE GoTo(sfile)
  BY <1>0, <1>2, GoesOn
<1>. QED
  BY <1>1, <1>2 DEF SenderStreams

-----------------------------------------------------------------------------
(* Steps of the receiver and of the line *)

\* The first frame is taken off the line, read or lost.
LEMMA Takes ==
  ASSUME Typed, Typed', GapInv, Len(fwd) > 0, fwd' = Tail(fwd), UNCHANGED senderVars,
         rfile' = rfile \/ (fwd[1].kind = "BLOCK0" /\ rfile' = fwd[1].file)
  PROVE  /\ ChainInv' /\ OrderInv' /\ WrittenInv'
         /\ \A f \in 1..NFiles, n \in Nat, g \in Nat :
              After(fwd[1], f, n, g) => Gap(f, n, g)'
<1>. DEFINE l == Len(fwd)
<1>1. fwd \in Seq(Frames) /\ fwd # <<>> /\ l \in Nat
  <2>1. fwd \in Seq(Frames) /\ l \in Nat
    BY CalmFacts
  <2>. QED
    BY <2>1, LenProperties
<1>2. Len(fwd') = l - 1 /\ \A k \in 1..(l - 1) : fwd'[k] = fwd[k + 1]
  BY <1>1, TailAt
<1>3. \A k \in 1..l : fwd[k] \in Frames
  BY GapFacts
<1>4. Begun' = Begun /\ Sent' = Sent /\ Begun \in Nat /\ Sent \in Frames /\ sphase' = sphase
  <2>1. UNCHANGED <<sphase, sfile, block>>
    BY DEF senderVars
  <2>2. Begun' = Begun /\ Sent' = Sent
    BY <2>1 DEF Begun, Sent, Data, Block0, Ctl
  <2>. QED
    BY <2>1, <2>2, GapFacts
<1>5. /\ \A k \in 1..l : Shape(fwd[k])
      /\ \A k \in 2..l : Intact(fwd[k]) /\ Follows(fwd[k-1], fwd[k])
  BY DEF GapInv, ChainInv
<1>6. /\ rfile <= Begun
      /\ \A k \in 1..l : fwd[k].kind = "BLOCK0" =>
           /\ rfile < fwd[k].file /\ fwd[k].file <= Begun
           /\ \A j \in 1..(k - 1) : fwd[j].kind = "BLOCK0" => fwd[j].file < fwd[k].file
  BY DEF GapInv, OrderInv
<1>7. sphase \notin Final => Begun > 0 /\ Like(fwd[l], Sent)
  BY DEF GapInv, WrittenInv
<1>8. l > 0 /\ 1 \in 1..l
  BY <1>1
<1>. HIDE DEF l
<1>9. ChainInv'
  <2>1. ASSUME NEW k \in 1..(l - 1) PROVE Shape(fwd'[k])
    <3>1. k + 1 \in 1..l
      BY <1>1
    <3>. QED
      BY <1>2, <1>5, <3>1
  <2>2. ASSUME NEW k \in 2..(l - 1) PROVE Intact(fwd'[k]) /\ Follows(fwd'[k-1], fwd'[k])
    <3>1. k + 1 \in 2..l /\ (k + 1) - 1 = k /\ k \in 1..(l - 1) /\ k - 1 \in 1..(l - 1)
          /\ (k - 1) + 1 = k
      BY <1>1
    <3>2. fwd'[k] = fwd[k + 1] /\ fwd'[k - 1] = fwd[k]
      <4>1. fwd'[k - 1] = fwd[(k - 1) + 1]
        BY <1>2, <3>1
      <4>. QED
        BY <1>2, <3>1, <4>1
    <3>3. Intact(fwd[k + 1]) /\ Follows(fwd[k], fwd[k + 1])
      BY <1>5, <3>1
    <3>. QED
      BY <3>2, <3>3
  <2>. QED
    BY <1>2, <2>1, <2>2 DEF ChainInv
<1>10. OrderInv'
  <2>1. ASSUME NEW k \in 1..(l - 1), fwd'[k].kind = "BLOCK0"
        PROVE  /\ rfile' < fwd'[k].file /\ fwd'[k].file <= Begun'
               /\ \A j \in 1..(k - 1) : fwd'[j].kind = "BLOCK0" => fwd'[j].file < fwd'[k].file
    <3>1. k + 1 \in 1..l /\ fwd'[k] = fwd[k + 1] /\ 1 \in 1..((k + 1) - 1)
      BY <1>1, <1>2
    <3>2. /\ rfile < fwd[k + 1].file /\ fwd[k + 1].file <= Begun
          /\ \A j \in 1..((k + 1) - 1) :
               fwd[j].kind = "BLOCK0" => fwd[j].file < fwd[k + 1].file
      BY <1>6, <2>1, <3>1
    <3>3. rfile' < fwd'[k].file
      BY <3>1, <3>2
    <3>4. ASSUME NEW j \in 1..(k - 1), fwd'[j].kind = "BLOCK0"
          PROVE  fwd'[j].file < fwd'[k].file
      <4>1. j + 1 \in 1..((k + 1) - 1) /\ j \in 1..(l - 1)
        BY <1>1
      <4>2. fwd'[j] = fwd[j + 1]
        BY <1>2, <4>1
      <4>. QED
        BY <3>1, <3>2, <3>4, <4>1, <4>2
    <3>. QED
      BY <1>4, <3>1, <3>2, <3>3, <3>4
  <2>2. rfile' <= Begun'
    BY <1>4, <1>6, <1>8
  <2>. QED
    BY <1>2, <2>1, <2>2 DEF OrderInv
<1>11. WrittenInv'
  <2>1. sphase' = "block" => block' \in 1..Blocks[sfile']
    BY DEF senderVars, GapInv, WrittenInv
  <2>2. ASSUME sphase \notin Final, l - 1 > 0 PROVE Begun > 0 /\ Like(fwd'[l - 1], Sent)
    <3>1. l - 1 \in 1..(l - 1) /\ (l - 1) + 1 = l
      BY <1>1, <2>2
    <3>2. fwd'[l - 1] = fwd[l]
      BY <1>2, <3>1
    <3>. QED
      BY <1>7, <2>2, <3>2
  <2>. QED
    BY <1>2, <1>4, <2>1, <2>2 DEF WrittenInv
<1>12. ASSUME NEW f \in 1..NFiles, NEW n \in Nat, NEW g \in Nat, After(fwd[1], f, n, g)
       PROVE  Gap(f, n, g)'
  <2>1. ASSUME l - 1 > 0 PROVE Before(fwd'[1], f, n, g)
    <3>1. 1 \in 1..(l - 1) /\ 2 \in 2..l /\ 2 - 1 = 1 /\ 1 + 1 = 2 /\ 2 \in 1..l
      BY <1>1, <2>1
    <3>2. fwd'[1] = fwd[2]
      BY <1>2, <3>1
    <3>3. Shape(fwd[1]) /\ Intact(fwd[2]) /\ Follows(fwd[1], fwd[2])
      BY <1>5, <1>8, <3>1
    <3>4. fwd[1] \in Frames /\ fwd[2] \in Frames
      BY <1>3, <1>8, <3>1
    <3>. QED
      BY <1>12, <3>2, <3>3, <3>4, NextFrame
  <2>2. ASSUME l - 1 = 0, sphase \notin Final PROVE After(Sent, f, n, g)
    <3>1. l = 1
      BY <1>1, <2>2
    <3>2. Like(fwd[1], Sent) /\ fwd[1] \in Frames
      BY <1>3, <1>7, <1>8, <2>2, <3>1
    <3>. QED
      BY <1>4, <1>12, <3>2, Alike
  <2>. QED
    BY <1>2, <1>4, <2>1, <2>2 DEF Gap
<1>. QED
  BY <1>9, <1>10, <1>11, <1>12

LEMMA FirstFrame ==
  ASSUME Typed, GapInv, Len(fwd) > 0
  PROVE  /\ fwd[1] \in Frames /\ Shape(fwd[1]) /\ Head(fwd) = fwd[1] /\ fwd # <<>>
         /\ fwd[1].kind = "BLOCK0" => rfile < fwd[1].file /\ fwd[1].file # rfile
<1>1. 1 \in 1..Len(fwd) /\ fwd \in Seq(Frames)
  BY CalmFacts
<1>2. fwd[1] \in Frames
  BY <1>1, GapFacts
<1>3. fwd # <<>> /\ Head(fwd) = fwd[1]
  BY <1>1, LenProperties
<1>4. fwd[1].kind = "BLOCK0" => rfile < fwd[1].file
  BY <1>1 DEF GapInv, OrderInv
<1>5. rfile \in Nat /\ fwd[1].file \in Nat
  BY <1>2, Constants DEF Frames, Typed, ReceiverTyped
<1>. QED
  BY <1>1, <1>2, <1>3, <1>4, <1>5 DEF GapInv, ChainInv

\* A frame is lost.
LEMMA LosesGap ==
  ASSUME Typed, Typed', GapInv, Len(fwd) > 0, fwd' = Tail(fwd), faults' = faults + 1,
         UNCHANGED <<senderVars, receiverVars>>
  PROVE  GapInv'
<1>0. rfile' = rfile /\ buffer' = buffer
  BY DEF receiverVars
<1>1. /\ ChainInv' /\ OrderInv' /\ WrittenInv'
      /\ \A f \in 1..NFiles, n \in Nat, g \in Nat :
           After(fwd[1], f, n, g) => Gap(f, n, g)'
  BY <1>0, Takes
<1>2. ASSUME rphase = "data", NumbersTell(rfile)
      PROVE  Gap(rfile, Len(buffer), faults)'
  <2>1. rfile \in 1..NFiles /\ Len(buffer) \in Nat /\ faults \in Nat
    BY <1>2, CalmFacts, GapFacts
  <2>2. Before(fwd[1], rfile, Len(buffer), faults)
    BY <1>2 DEF GapInv, KeptInv, Gap
  <2>3. fwd[1] \in Frames /\ (fwd[1].kind = "BLOCK0" => fwd[1].file # rfile)
    BY <2>1, FirstFrame
  <2>4. After(fwd[1], rfile, Len(buffer), faults + 1)
    BY <2>1, <2>2, <2>3, Missing
  <2>5. faults + 1 \in Nat
    BY <2>1
  <2>6. \A f \in 1..NFiles, n \in Nat, g \in Nat :
          f = rfile /\ n = Len(buffer) /\ g = faults + 1 => Gap(f, n, g)'
    BY <1>1, <2>4
  <2>. QED
    BY <1>0, <2>1, <2>5, <2>6 DEF Gap
<1>. QED
  BY <1>1, <1>2, ReceiverRests DEF GapInv, receiverVars

\* The first frame is spoilt.
LEMMA SpoilsGap ==
  ASSUME Typed, Typed', GapInv, Len(fwd) > 0, faults' = faults + 1, NEW u \in Frames,
         fwd' = <<u>> \o Tail(fwd), Like(u, fwd[1]), Intact(fwd[1]), Shape(u),
         u.kind = "BLOCK0" => fwd[1].kind = "BLOCK0",
         UNCHANGED <<senderVars, receiverVars>>
  PROVE  GapInv'
<1>. DEFINE l == Len(fwd)
<1>1. fwd \in Seq(Frames) /\ fwd # <<>> /\ l \in Nat
  <2>1. fwd \in Seq(Frames) /\ l \in Nat
    BY CalmFacts
  <2>. QED
    BY <2>1, LenProperties
<1>2. Len(fwd') = l /\ fwd'[1] = u /\ \A k \in 2..l : fwd'[k] = fwd[k]
  BY <1>1, FrontTyped
<1>3. \A k \in 1..l : fwd[k] \in Frames
  BY GapFacts
<1>4. Begun' = Begun /\ Sent' = Sent /\ Begun \in Nat /\ Sent \in Frames /\ sphase' = sphase
  <2>1. UNCHANGED <<sphase, sfile, block>>
    BY DEF senderVars
  <2>2. Begun' = Begun /\ Sent' = Sent
    BY <2>1 DEF Begun, Sent, Data, Block0, Ctl
  <2>. QED
    BY <2>1, <2>2, GapFacts
<1>5. /\ \A k \in 1..l : Shape(fwd[k])
      /\ \A k \in 2..l : Intact(fwd[k]) /\ Follows(fwd[k-1], fwd[k])
  BY DEF GapInv, ChainInv
<1>6. /\ rfile <= Begun
      /\ \A k \in 1..l : fwd[k].kind = "BLOCK0" =>
           /\ rfile < fwd[k].file /\ fwd[k].file <= Begun
           /\ \A j \in 1..(k - 1) : fwd[j].kind = "BLOCK0" => fwd[j].file < fwd[k].file
  BY DEF GapInv, OrderInv
<1>7. sphase \notin Final => Begun > 0 /\ Like(fwd[l], Sent)
  BY DEF GapInv, WrittenInv
<1>8. l > 0 /\ 1 \in 1..l /\ fwd[1] \in Frames
  BY <1>1, <1>3
<1>9. rfile' = rfile /\ buffer' = buffer
  BY DEF receiverVars
<1>10. \A k \in 1..l : fwd'[k].kind = "BLOCK0" =>
         fwd[k].kind = "BLOCK0" /\ fwd'[k].file = fwd[k].file
  <2>1. u.kind = "BLOCK0" => fwd[1].kind = "BLOCK0" /\ u.file = fwd[1].file
    BY DEF Like, Mangled
  <2>2. \A k \in 1..l : k = 1 \/ k \in 2..l
    BY <1>1
  <2>. QED
    BY <1>2, <2>1, <2>2
<1>. HIDE DEF l
<1>11. ChainInv'
  <2>1. ASSUME NEW k \in 1..l PROVE Shape(fwd'[k])
    <3>1. k = 1 \/ k \in 2..l
      BY <1>1
    <3>. QED
      BY <1>2, <1>5, <3>1
  <2>2. ASSUME NEW k \in 2..l PROVE Intact(fwd'[k]) /\ Follows(fwd'[k-1], fwd'[k])
    <3>1. Intact(fwd[k]) /\ Follows(fwd[k-1], fwd[k]) /\ fwd'[k] = fwd[k] /\ fwd[k] \in Frames
      <4>1. k \in 1..l
        BY <1>1
      <4>. QED
        BY <1>2, <1>3, <1>5, <4>1
    <3>2. CASE k = 2
      <4>1. Follows(u, fwd[2])
        BY <1>8, <3>1, <3>2, Alike
      <4>. QED
        BY <1>2, <3>1, <3>2, <4>1
    <3>3. CASE k # 2
      <4>1. k - 1 \in 2..l
        BY <1>1, <3>3
      <4>. QED
        BY <1>2, <3>1, <4>1
    <3>. QED
      BY <3>2, <3>3
  <2>. QED
    BY <1>2, <2>1, <2>2 DEF ChainInv
<1>12. OrderInv'
  <2>1. ASSUME NEW k \in 1..l, fwd'[k].kind = "BLOCK0"
        PROVE  /\ rfile < fwd'[k].file /\ fwd'[k].file <= Begun
               /\ \A j \in 1..(k - 1) : fwd'[j].kind = "BLOCK0" => fwd'[j].file < fwd'[k].file
    <3>1. \A j \in 1..(k - 1) : j \in 1..l
      BY <1>1
    <3>. QED
      BY <1>6, <1>10, <2>1, <3>1
  <2>. QED
    BY <1>2, <1>4, <1>6, <1>9, <2>1 DEF OrderInv
<1>13. WrittenInv'
  <2>1. sphase' = "block" => block' \in 1..Blocks[sfile']
    BY DEF senderVars, GapInv, WrittenInv
  <2>2. ASSUME sphase \notin Final PROVE Like(fwd'[l], Sent)
    <3>1. CASE l = 1
      <4>1. Like(fwd[1], Sent)
        BY <1>7, <2>2, <3>1
      <4>2. Like(u, Sent)
        BY <4>1 DEF Like
      <4>. QED
        BY <1>2, <3>1, <4>2
    <3>2. CASE l # 1
      <4>1. l \in 2..l
        BY <1>1, <1>8, <3>2
      <4>. QED
        BY <1>2, <1>7, <2>2, <4>1
    <3>. QED
      BY <3>1, <3>2
  <2>. QED
    BY <1>2, <1>4, <1>7, <2>1, <2>2 DEF WrittenInv
<1>14. ASSUME rphase = "data", NumbersTell(rfile)
       PROVE  Gap(rfile, Len(buffer), faults)'
  <2>1. rfile \in 1..NFiles /\ Len(buffer) \in Nat /\ faults \in Nat
    BY <1>14, CalmFacts, GapFacts
  <2>2. Before(fwd[1], rfile, Len(buffer), faults)
    BY <1>14 DEF GapInv, KeptInv, Gap
  <2>3. Before(u, rfile, Len(buffer), faults + 1)
    BY <1>8, <2>1, <2>2, Spoilt
  <2>. QED
    BY <1>2, <1>8, <1>9, <2>3 DEF Gap
<1>. QED
  BY <1>11, <1>12, <1>13, <1>14, ReceiverRests DEF GapInv, receiverVars

LEMMA ForwardFaultGap ==
  ASSUME Typed, Typed', GapInv, ForwardFault
  PROVE  GapInv'
<1>0. Len(fwd) > 0
  <2>1. fwd # <<>> /\ fwd \in Seq(Frames) /\ Len(fwd) \in Nat
    BY CalmFacts DEF ForwardFault
  <2>. QED
    BY <2>1, TailAt
<1>1. faults' = faults + 1 /\ UNCHANGED <<senderVars, receiverVars>>
  BY DEF ForwardFault, Fault
<1>2. fwd[1] \in Frames /\ Shape(fwd[1]) /\ Head(fwd) = fwd[1]
  BY <1>0, FirstFrame
<1>3. CASE fwd' = Tail(fwd)
  BY <1>0, <1>1, <1>3, LosesGap
<1>4. CASE /\ Head(fwd).kind \in {"BLOCK0", "DATA"} /\ Head(fwd).ok
           /\ fwd' = << [Head(fwd) EXCEPT !.ok = FALSE] >> \o Tail(fwd)
  <2>1. \A t \in Frames : [t EXCEPT !.ok = FALSE] \in Frames
    BY DEF Frames
  <2>2. PICK u \in Frames : u = [fwd[1] EXCEPT !.ok = FALSE]
    BY <1>2, <2>1
  <2>3. u.kind = fwd[1].kind /\ u.file = fwd[1].file /\ u.blk = fwd[1].blk
    BY <1>2, <2>2 DEF Frames
  <2>4. Like(u, fwd[1]) /\ Shape(u) /\ Intact(fwd[1])
    BY <1>2, <1>4, <2>3 DEF Like, Shape, Intact
  <2>5. fwd' = <<u>> \o Tail(fwd)
    BY <1>2, <1>4, <2>2
  <2>. QED
    BY <1>0, <1>1, <2>3, <2>4, <2>5, SpoilsGap
<1>5. ASSUME NEW k \in Noise, Head(fwd).kind = "EOT", fwd' = << Ctl(k) >> \o Tail(fwd)
      PROVE  GapInv'
  <2>1. k \in {"CAN", "JUNK"}
    BY Constants
  <2>2. PICK u \in Frames : u = Ctl(k)
    BY <2>1, FrameTyped
  <2>3. Like(u, fwd[1]) /\ Shape(u) /\ u.kind # "BLOCK0"
    BY <1>2, <1>5, <2>1, <2>2 DEF Like, Shape, Ctl, Mangled
  <2>4. fwd' = <<u>> \o Tail(fwd)
    BY <1>5, <2>2
  <2>5. Intact(fwd[1])
    BY <1>2, <1>5 DEF Intact, Shape
  <2>. QED
    BY <1>0, <1>1, <2>3, <2>4, <2>5, SpoilsGap
<1>. QED
  BY <1>3, <1>4, <1>5 DEF ForwardFault

\* The sender waits, and nothing is taken off the line.
LEMMA LineRests ==
  ASSUME Typed, GapInv, UNCHANGED <<senderVars, fwd, rfile>>
  PROVE  /\ ChainInv' /\ OrderInv' /\ WrittenInv'
         /\ \A f \in 1..NFiles, n \in Nat, g \in Nat :
              Gap(f, n, g) => Gap(f, n, g)' /\ Gap(f, n, g + 1)'
<1>1. UNCHANGED <<sphase, sfile, block>>
  BY DEF senderVars
<1>2. Begun' = Begun /\ Sent' = Sent
  BY <1>1 DEF Begun, Sent, Data, Block0, Ctl
<1>3. ChainInv'
  BY DEF GapInv, ChainInv
<1>4. OrderInv'
  BY <1>2 DEF GapInv, OrderInv
<1>5. WrittenInv'
  BY <1>1, <1>2 DEF GapInv, WrittenInv
<1>6. ASSUME NEW t \in Frames, NEW f \in 1..NFiles, NEW n \in Nat, NEW g \in Nat
      PROVE  /\ Before(t, f, n, g) => Before(t, f, n, g + 1)
             /\ After(t, f, n, g) => After(t, f, n, g + 1)
  <2>1. Blocks[f] \in Nat /\ t.blk \in Nat /\ Hurt(t) \in {0, 1}
    BY Constants DEF Frames, Hurt
  <2>2. Before(t, f, n, g) => Before(t, f, n, g + 1)
    BY <2>1 DEF Before
  <2>3. After(t, f, n, g) => After(t, f, n, g + 1)
    BY <2>1 DEF After
  <2>. QED
    BY <2>2, <2>3
<1>7. ASSUME NEW f \in 1..NFiles, NEW n \in Nat, NEW g \in Nat, Gap(f, n, g)
      PROVE  Gap(f, n, g)' /\ Gap(f, n, g + 1)'
  <2>1. Sent \in Frames /\ (Len(fwd) > 0 => fwd[1] \in Frames)
    <3>1. Len(fwd) > 0 => 1 \in 1..Len(fwd)
      BY CalmFacts
    <3>. QED
      BY <3>1, GapFacts
  <2>2. Len(fwd) > 0 => Before(fwd[1], f, n, g) /\ Before(fwd[1], f, n, g + 1)
    BY <1>6, <1>7, <2>1 DEF Gap
  <2>3. Len(fwd) = 0 /\ sphase \notin Final => After(Sent, f, n, g) /\ After(Sent, f, n, g + 1)
    BY <1>6, <1>7, <2>1 DEF Gap
  <2>. QED
    BY <1>1, <1>2, <2>2, <2>3 DEF Gap
<1>. QED
  BY <1>3, <1>4, <1>5, <1>7

\* The receiver stops, or goes on without a file.
LEMMA StopsCollecting ==
  ASSUME Typed, GapInv, UNCHANGED <<rfile, disk, received, faults>>, rphase' # "data"
  PROVE  ClosedInv' /\ KeptInv'
<1>1. ClosedInv'
  BY DEF GapInv, ClosedInv
<1>2. \A f \in 1..NFiles : NumbersTell(f)' => NumbersTell(f)
  BY DEF NumbersTell, Number, NextNumber
<1>3. \A f \in 1..NFiles : NumbersTell(f)' => Own(f, disk'[f].blocks)
  BY <1>2 DEF GapInv, KeptInv
<1>. QED
  BY <1>1, <1>3 DEF KeptInv

LEMMA ReverseFaultGap ==
  ASSUME Typed, Typed', GapInv, ReverseFault
  PROVE  GapInv'
<1>1. faults' = faults + 1 /\ UNCHANGED <<senderVars, receiverVars, fwd>>
  BY DEF ReverseFault, Fault
<1>2. UNCHANGED <<rphase, rfile, expected, buffer, disk, received>>
  BY <1>1 DEF receiverVars
<1>3. ASSUME rphase = "data", NumbersTell(rfile) PROVE Gap(rfile, Len(buffer), faults)'
  <2>1. rfile \in 1..NFiles /\ Len(buffer) \in Nat /\ faults \in Nat
    BY <1>3, CalmFacts, GapFacts
  <2>2. Gap(rfile, Len(buffer), faults)
    BY <1>3 DEF GapInv, KeptInv
  <2>3. \A f \in 1..NFiles, n \in Nat, g \in Nat :
          f = rfile /\ n = Len(buffer) /\ g = faults => Gap(f, n, g + 1)'
    BY <1>1, <1>2, <2>2, LineRests
  <2>. QED
    BY <1>1, <1>2, <2>1, <2>3 DEF Gap
<1>. QED
  BY <1>1, <1>2, <1>3, LineRests, ReceiverRests DEF GapInv

LEMMA ReceiverStartGap ==
  ASSUME Typed, Typed', GapInv, ReceiverStart
  PROVE  GapInv'
<1>1. /\ UNCHANGED <<senderVars, fwd, faults, rfile, disk, received>>
      /\ rphase' = "block0"
  BY DEF ReceiverStart
<1>. QED
  BY <1>1, LineRests, StopsCollecting DEF GapInv

LEMMA ReceiverTimeoutGap ==
  ASSUME Typed, Typed', GapInv, ReceiverTimeout
  PROVE  GapInv'
<1>1. UNCHANGED <<senderVars, fwd, faults, rfile, expected, buffer, disk, received>>
  BY DEF ReceiverTimeout, Block0Missed
<1>2. rphase' = rphase \/ rphase' # "data"
  BY DEF ReceiverTimeout, Block0Missed
<1>3. ChainInv' /\ OrderInv' /\ WrittenInv'
  BY <1>1, LineRests
<1>4. CASE rphase' = rphase
  <2>1. ASSUME rphase = "data", NumbersTell(rfile) PROVE Gap(rfile, Len(buffer), faults)'
    <3>1. rfile \in 1..NFiles /\ Len(buffer) \in Nat /\ faults \in Nat
      BY <2>1, CalmFacts, GapFacts
    <3>2. Gap(rfile, Len(buffer), faults)
      BY <2>1 DEF GapInv, KeptInv
    <3>3. \A f \in 1..NFiles, n \in Nat, g \in Nat :
            f = rfile /\ n = Len(buffer) /\ g = faults => Gap(f, n, g)'
      BY <1>1, <3>2, LineRests
    <3>. QED
      BY <1>1, <3>1, <3>3 DEF Gap
  <2>. QED
    BY <1>1, <1>3, <1>4, <2>1, ReceiverRests DEF GapInv
<1>5. CASE rphase' # "data"
  BY <1>1, <1>3, <1>5, StopsCollecting DEF GapInv
<1>. QED
  BY <1>2, <1>4, <1>5

\* A block 0 opens a later file, of which nothing is missing yet.
LEMMA OpensGap ==
  ASSUME Typed, Typed', GapInv, Len(fwd) > 0, fwd' = Tail(fwd), UNCHANGED <<senderVars, faults>>,
         fwd[1].kind = "BLOCK0", fwd[1].file <= NFiles, Block0Read(fwd[1].file)
  PROVE  GapInv'
<1>0. PICK f \in 1..NFiles : f = fwd[1].file
  <2>1. fwd[1] \in Frames
    BY FirstFrame
  <2>2. fwd[1].file \in 1..NFiles
    BY <2>1, Constants DEF Frames
  <2>. QED
    BY <2>2
<1>1. /\ rphase' = "data" /\ rfile' = f /\ expected' = Number(1) /\ buffer' = <<>>
      /\ disk' = [disk EXCEPT ![f] = Opened] /\ received' = received
  BY <1>0, Constants DEF Block0Read
<1>2. rfile < f /\ rfile \in Nat /\ received \in Seq(1..NFiles) /\ NFiles \in Nat /\ faults \in Nat
  <2>1. received \in Seq(1..NFiles) /\ NFiles \in Nat /\ faults \in Nat
    BY GapFacts, CalmFacts
  <2>2. rfile \in 0..NFiles
    BY DEF Typed, ReceiverTyped
  <2>3. rfile < f
    BY <1>0, FirstFrame
  <2>. QED
    BY <2>1, <2>2, <2>3
<1>3. /\ ChainInv' /\ OrderInv' /\ WrittenInv'
      /\ \A h \in 1..NFiles, n \in Nat, g \in Nat :
           After(fwd[1], h, n, g) => Gap(h, n, g)'
  BY <1>0, <1>1, Takes
<1>4. ClosedInv'
  <2>1. ASSUME NEW k \in 1..Len(received) PROVE received[k] < f /\ received[k] <= f
    <3>1. received[k] \in Nat
      BY <1>2, ElementOfSeq
    <3>2. received[k] <= rfile
      BY DEF GapInv, ClosedInv
    <3>. QED
      BY <1>2, <3>1, <3>2
  <2>. QED
    BY <1>1, <2>1 DEF GapInv, ClosedInv
<1>5. KeptInv'
  <2>1. Len(buffer') = 0 /\ Number(1) = Number(Len(buffer') + 1)
    BY <1>1
  <2>2. Own(f, buffer')
    BY <2>1, Constants DEF Own
  <2>3. After(fwd[1], f, 0, faults)
    BY <1>0 DEF After
  <2>4. Gap(f, 0, faults)'
    BY <1>2, <1>3, <2>3 DEF Gap
  <2>5. Gap(rfile, Len(buffer), faults)'
    BY <1>1, <2>1, <2>4 DEF Gap
  <2>6. \A h \in 1..NFiles : NumbersTell(h)' => NumbersTell(h)
    BY DEF NumbersTell, Number, NextNumber
  <2>7. ASSUME NEW h \in 1..NFiles, NumbersTell(h)' PROVE Own(h, disk'[h].blocks)
    <3>0. disk \in [1..NFiles -> [blocks : Seq(Places), stripped : BOOLEAN]]
      BY GapFacts
    <3>1. CASE h = f
      <4>1. disk'[h].blocks = <<>>
        BY <1>1, <3>0, <3>1 DEF Opened
      <4>. QED
        BY <4>1, Constants DEF Own
    <3>2. CASE h # f
      <4>1. disk'[h] = disk[h]
        BY <1>1, <3>0, <3>2
      <4>. QED
        BY <2>6, <2>7, <4>1 DEF GapInv, KeptInv
    <3>. QED
      BY <3>1, <3>2
  <2>. QED
    BY <1>1, <2>1, <2>2, <2>5, <2>7 DEF KeptInv
<1>. QED
  BY <1>3, <1>4, <1>5 DEF GapInv

\* EOT closes the file with what it has collected.
LEMMA ClosesGap ==
  ASSUME Typed, Typed', GapInv, Len(fwd) > 0, fwd' = Tail(fwd), UNCHANGED <<senderVars, faults>>,
         rphase = "data", ReceiveEot
  PROVE  GapInv'
<1>1. /\ rphase' = "block0" /\ rfile' = rfile /\ received' = Append(received, rfile)
      /\ disk' = [disk EXCEPT ![rfile] = Written(rfile, buffer)]
  BY DEF ReceiveEot
<1>2. rfile \in 1..NFiles /\ received \in Seq(1..NFiles) /\ buffer \in Seq(Places)
      /\ Len(buffer) \in Nat /\ Blocks[rfile] \in Nat
  BY CalmFacts
<1>3. ChainInv' /\ OrderInv' /\ WrittenInv'
  BY <1>1, Takes
<1>4. ClosedInv'
  <2>. DEFINE l == Len(received)
  <2>1. /\ l \in Nat /\ Len(received') = l + 1 /\ received'[l + 1] = rfile
        /\ \A k \in 1..l : received'[k] = received[k]
    BY <1>1, <1>2, AppendProperties, LenProperties
  <2>2. \A k \in 1..l : received[k] < rfile /\ received[k] \in Nat
    <3>1. \A k \in 1..l : received[k] \in 1..NFiles
      BY <1>2, ElementOfSeq
    <3>. QED
      BY <3>1 DEF GapInv, ClosedInv
  <2>3. \A j, k \in 1..l : j < k => received[j] < received[k]
    BY DEF GapInv, ClosedInv
  <2>. HIDE DEF l
  <2>4. ASSUME NEW j \in 1..(l + 1), NEW k \in 1..(l + 1), j < k
        PROVE  received'[j] < received'[k]
    <3>1. j \in 1..l
      BY <2>1, <2>4
    <3>2. CASE k \in 1..l
      BY <2>1, <2>3, <2>4, <3>1, <3>2
    <3>3. CASE k = l + 1
      BY <2>1, <2>2, <3>1, <3>3
    <3>. QED
      BY <2>1, <3>2, <3>3
  <2>5. ASSUME NEW k \in 1..(l + 1) PROVE received'[k] <= rfile
    <3>1. CASE k \in 1..l
      BY <1>2, <2>1, <2>2, <3>1
    <3>2. CASE k = l + 1
      BY <1>2, <2>1, <3>2
    <3>. QED
      BY <2>1, <3>1, <3>2
  <2>. QED
    BY <1>1, <2>1, <2>4, <2>5 DEF ClosedInv
<1>5. KeptInv'
  <2>1. \A h \in 1..NFiles : NumbersTell(h)' => NumbersTell(h)
    BY DEF NumbersTell, Number, NextNumber
  <2>2. ASSUME NEW h \in 1..NFiles, NumbersTell(h)' PROVE Own(h, disk'[h].blocks)
    <3>0. disk \in [1..NFiles -> [blocks : Seq(Places), stripped : BOOLEAN]]
      BY GapFacts
    <3>1. CASE h = rfile
      <4>1. disk'[h].blocks = Written(h, buffer).blocks
        BY <1>1, <1>2, <3>0, <3>1
      <4>2. Own(h, buffer)
        BY <2>1, <2>2, <3>1 DEF GapInv, KeptInv
      <4>3. CASE Longer(h, Len(buffer))
        <5>1. Blocks[h] <= Len(buffer)
          BY <1>2, <3>1, <4>3 DEF Longer
        <5>2. Len(buffer) = Blocks[h]
          BY <1>2, <3>1, <4>2, <5>1 DEF Own
        <5>3. Written(h, buffer).blocks = SubSeq(buffer, 1, Blocks[h])
          BY <4>3 DEF Written
        <5>4. SubSeq(buffer, 1, Len(buffer)) = buffer
          BY <1>2, SubSeqFull
        <5>. QED
          BY <4>1, <4>2, <5>2, <5>3, <5>4
      <4>4. CASE ~Longer(h, Len(buffer))
        BY <4>1, <4>2, <4>4 DEF Written
      <4>. QED
        BY <4>3, <4>4
    <3>2. CASE h # rfile
      <4>1. disk'[h] = disk[h]
        BY <1>1, <3>0, <3>2
      <4>. QED
        BY <2>1, <2>2, <4>1 DEF GapInv, KeptInv
    <3>. QED
      BY <3>1, <3>2
  <2>. QED
    BY <1>1, <2>2 DEF KeptInv
<1>. QED
  BY <1>3, <1>4, <1>5 DEF GapInv

\* Amid the data, the numbers of the block accepted last and of the one
\* expected belong to those blocks, and to no frame past the file's end.
LEMMA WhichBlock ==
  ASSUME Typed, GapInv, Len(fwd) > 0, rphase = "data", NumbersTell(rfile),
         fwd[1].kind \in {"BLOCK0", "DATA"}, fwd[1].ok,
         \/ Number(fwd[1].blk) = Number(Len(buffer))
         \/ Number(fwd[1].blk) = Number(Len(buffer) + 1)
  PROVE  /\ fwd[1].kind = "DATA" /\ fwd[1].file = rfile
         /\ Number(fwd[1].blk) = Number(Len(buffer)) => fwd[1].blk = Len(buffer)
         /\ Number(fwd[1].blk) = Number(Len(buffer) + 1) => fwd[1].blk = Len(buffer) + 1
<1>. DEFINE n == Len(buffer)
            m == fwd[1].blk
<1>0. /\ rfile \in 1..NFiles /\ n \in Nat /\ faults \in Nat /\ Blocks[rfile] \in Nat
      /\ faults < NumMod - 1
  BY CalmFacts, GapFacts DEF NumbersTell
<1>1. fwd[1] \in Frames /\ Shape(fwd[1])
  BY FirstFrame
<1>2. m \in Nat /\ Hurt(fwd[1]) = 0
  BY <1>1 DEF Frames, Hurt, Intact
<1>3. Own(rfile, buffer) /\ Before(fwd[1], rfile, n, faults)
  BY DEF GapInv, KeptInv, Gap
<1>4. n \in 0..Blocks[rfile]
  BY <1>0, <1>3 DEF Own
<1>5. CASE fwd[1].kind = "DATA" /\ fwd[1].file = rfile
  <2>1. n <= m /\ m <= n + 1 + faults
    BY <1>0, <1>2, <1>3, <1>5 DEF Before
  <2>. HIDE DEF n, m
  <2>2. (Number(m) = Number(n) => m = n) /\ (Number(m) = Number(n + 1) => m = n + 1)
    BY <1>0, <1>2, <2>1, OwnNumber
  <2>. QED
    BY <1>5, <2>2 DEF n, m
<1>6. CASE ~(fwd[1].kind = "DATA" /\ fwd[1].file = rfile)
  <2>1. Blocks[rfile] + 1 + m <= n + faults
    <3>1. CASE fwd[1].kind = "DATA"
      BY <1>0, <1>2, <1>3, <1>6, <3>1 DEF Before
    <3>2. CASE fwd[1].kind = "BLOCK0"
      <4>1. m = 0
        BY <1>1, <3>2 DEF Shape
      <4>. QED
        BY <1>0, <1>2, <1>3, <1>6, <3>2, <4>1 DEF Before
    <3>. QED
      BY <3>1, <3>2
  <2>. HIDE DEF n, m
  <2>2. Number(m) # Number(n) /\ Number(m) # Number(n + 1)
    BY <1>0, <1>2, <1>4, <2>1, FarNumber
  <2>. QED
    BY <2>2 DEF n, m
<1>. QED
  BY <1>5, <1>6

\* The block expected is collected; the one accepted last, and noise, are not.
LEMMA AcceptsGap ==
  ASSUME Typed, Typed', GapInv, Len(fwd) > 0, fwd' = Tail(fwd), UNCHANGED <<senderVars, faults>>,
         rphase = "data", fwd[1].kind \in {"BLOCK0", "DATA"}, fwd[1].ok,
         Number(fwd[1].blk) = expected,
         buffer' = Append(buffer, <<fwd[1].file, fwd[1].blk>>),
         expected' = NextNumber(expected),
         UNCHANGED <<rphase, rfile, disk, received>>
  PROVE  GapInv'
<1>. DEFINE n == Len(buffer)
<1>0. /\ rfile \in 1..NFiles /\ n \in Nat /\ faults \in Nat /\ Blocks[rfile] \in Nat
      /\ buffer \in Seq(Places) /\ expected = Number(n + 1)
  BY CalmFacts, GapFacts DEF GapInv, KeptInv
<1>1. /\ ChainInv' /\ OrderInv' /\ WrittenInv'
      /\ \A h \in 1..NFiles, k \in Nat, g \in Nat :
           After(fwd[1], h, k, g) => Gap(h, k, g)'
  BY Takes
<1>2. ClosedInv'
  BY DEF GapInv, ClosedInv
<1>3. fwd[1] \in Frames /\ Shape(fwd[1])
  BY FirstFrame
<1>4. /\ Len(buffer') = n + 1 /\ buffer'[n + 1] = <<fwd[1].file, fwd[1].blk>>
      /\ \A i \in 1..n : buffer'[i] = buffer[i]
  <2>1. fwd[1].kind \in {"BLOCK0", "DATA"} => fwd[1].file \in 1..EndOfBatch
    BY <1>3 DEF Frames
  <2>2. <<fwd[1].file, fwd[1].blk>> \in Places
    BY <1>3, <2>1 DEF Frames, Places
  <2>3. \A p \in Places : /\ Len(Append(buffer, p)) = n + 1 /\ Append(buffer, p)[n + 1] = p
                          /\ \A i \in 1..n : Append(buffer, p)[i] = buffer[i]
    BY <1>0, AppendProperties
  <2>. QED
    BY <2>2, <2>3
<1>5. expected' = Number(Len(buffer') + 1)
  <2>1. n + 1 \in Nat
    BY <1>0
  <2>2. expected' = Number(n + 1 + 1)
    BY <1>0, <2>1, Neighbours
  <2>. QED
    BY <1>4, <2>2
<1>6. \A h \in 1..NFiles : NumbersTell(h)' => NumbersTell(h)
  BY DEF NumbersTell, Number, NextNumber
<1>7. ASSUME NumbersTell(rfile) PROVE Own(rfile, buffer)' /\ Gap(rfile, Len(buffer), faults)'
  <2>1. fwd[1].kind = "DATA" /\ fwd[1].file = rfile /\ fwd[1].blk = n + 1
    BY <1>0, <1>7, WhichBlock
  <2>2. Own(rfile, buffer) /\ Before(fwd[1], rfile, n, faults)
    BY <1>7 DEF GapInv, KeptInv, Gap
  <2>3. n + 1 <= Blocks[rfile]
    BY <1>0, <1>3, <2>1 DEF Shape
  <2>4. \A i \in 1..(n + 1) : buffer'[i] = <<rfile, i>>
    <3>1. \A i \in 1..n : buffer'[i] = <<rfile, i>>
      BY <1>4, <2>2 DEF Own
    <3>2. \A i \in 1..(n + 1) : i \in 1..n \/ i = n + 1
      BY <1>0
    <3>. QED
      BY <1>4, <2>1, <3>1, <3>2
  <2>5. Own(rfile, buffer)'
    BY <1>4, <2>3, <2>4 DEF Own
  <2>6. After(fwd[1], rfile, n + 1, faults)
    BY <1>0, <2>1 DEF After
  <2>7. n + 1 \in Nat
    BY <1>0
  <2>8. Gap(rfile, Len(buffer), faults)'
    <3>1. \A h \in 1..NFiles, k \in Nat, g \in Nat :
            h = rfile /\ k = n + 1 /\ g = faults => Gap(h, k, g)'
      BY <1>1, <2>6
    <3>. QED
      BY <1>0, <1>4, <2>7, <3>1 DEF Gap
  <2>. QED
    BY <2>5, <2>8
<1>8. NumbersTell(rfile)' => NumbersTell(rfile)
  BY DEF NumbersTell, Number, NextNumber
<1>9. \A h \in 1..NFiles : NumbersTell(h)' => Own(h, disk'[h].blocks)
  BY <1>6 DEF GapInv, KeptInv
<1>10. KeptInv'
  BY <1>5, <1>7, <1>8, <1>9 DEF KeptInv
<1>. QED
  BY <1>1, <1>2, <1>10 DEF GapInv

LEMMA ReceiverReadsGap ==
  ASSUME Typed, Typed', GapInv, ReceiverReads
  PROVE  GapInv'
<1>. DEFINE t == Head(fwd)
            n == Len(buffer)
<1>0. Len(fwd) > 0
  <2>1. fwd # <<>> /\ fwd \in Seq(Frames) /\ Len(fwd) \in Nat
    BY CalmFacts DEF ReceiverReads
  <2>. QED
    BY <2>1, TailAt
<1>1. fwd' = Tail(fwd) /\ UNCHANGED <<senderVars, faults>>
  BY DEF ReceiverReads
<1>2. t = fwd[1] /\ fwd[1] \in Frames /\ Shape(fwd[1])
  BY <1>0, FirstFrame
<1>3. ASSUME UNCHANGED <<rfile, disk, received>>, rphase' # "data" PROVE GapInv'
  <2>1. ChainInv' /\ OrderInv' /\ WrittenInv'
    BY <1>0, <1>1, <1>3, Takes
  <2>. QED
    BY <1>1, <1>3, <2>1, StopsCollecting DEF GapInv
<1>4. ASSUME UNCHANGED <<rphase, rfile, expected, buffer, disk, received>>, rphase = "data",
             NumbersTell(rfile) => After(fwd[1], rfile, n, faults)
      PROVE  GapInv'
  <2>1. /\ ChainInv' /\ OrderInv' /\ WrittenInv'
        /\ \A h \in 1..NFiles, k \in Nat, g \in Nat :
             After(fwd[1], h, k, g) => Gap(h, k, g)'
    BY <1>0, <1>1, <1>4, Takes
  <2>2. ASSUME NumbersTell(rfile) PROVE Gap(rfile, Len(buffer), faults)'
    <3>1. rfile \in 1..NFiles /\ n \in Nat /\ faults \in Nat
      BY <1>4, CalmFacts, GapFacts
    <3>2. \A h \in 1..NFiles, k \in Nat, g \in Nat :
            h = rfile /\ k = n /\ g = faults => Gap(h, k, g)'
      BY <1>4, <2>1, <2>2
    <3>. QED
      BY <1>1, <1>4, <3>1, <3>2 DEF Gap
  <2>. QED
    BY <1>1, <1>4, <2>1, <2>2, ReceiverRests DEF GapInv
<1>5. CASE ReceiveBlock0(t)
  <2>1. CASE t.kind = "BLOCK0" /\ t.ok /\ Block0Read(t.file)
    <3>1. CASE t.file <= NFiles
      BY <1>0, <1>1, <1>2, <2>1, <3>1, OpensGap
    <3>2. CASE ~(t.file <= NFiles)
      <4>1. UNCHANGED <<rfile, disk, received>> /\ rphase' # "data"
        BY <2>1, <3>2 DEF Block0Read
      <4>. QED
        BY <1>3, <4>1
    <3>. QED
      BY <3>1, <3>2
  <2>2. CASE \E i \in {1, RetryLimit - errors} : Block0Missed(i)
    <3>1. UNCHANGED <<rfile, disk, received>> /\ rphase' # "data"
      BY <2>2 DEF Block0Missed
    <3>. QED
      BY <1>3, <3>1
  <2>3. CASE rphase' = "cancelled" /\ UNCHANGED <<rfile, disk, received>>
    BY <1>3, <2>3
  <2>. QED
    BY <1>5, <2>1, <2>2, <2>3 DEF ReceiveBlock0
<1>6. CASE ReceiveData(t)
  <2>0. rphase = "data"
    BY <1>6 DEF ReceiveData
  <2>00. rfile \in 1..NFiles /\ n \in Nat /\ faults \in Nat /\ expected = Number(n + 1)
    BY <2>0, CalmFacts, GapFacts DEF GapInv, KeptInv
  <2>1. CASE ReceiveEot
    BY <1>0, <1>1, <2>0, <2>1, ClosesGap
  <2>2. CASE rphase' = "cancelled" /\ UNCHANGED <<rfile, disk, received>>
    BY <1>3, <2>2
  <2>3. CASE /\ t.kind = "JUNK" \/ ~t.ok
             /\ UNCHANGED <<rphase, rfile, expected, buffer, disk, received>>
    <3>1. ~Intact(fwd[1])
      BY <1>2, <2>3 DEF Intact
    <3>2. ASSUME NumbersTell(rfile) PROVE After(fwd[1], rfile, n, faults)
      <4>1. Before(fwd[1], rfile, n, faults)
        BY <1>0, <2>0, <3>2 DEF GapInv, KeptInv, Gap
      <4>2. fwd[1].kind = "BLOCK0" => fwd[1].file # rfile
        BY <1>0, FirstFrame
      <4>. QED
        BY <1>2, <2>00, <3>1, <4>1, <4>2, Missing
    <3>. QED
      BY <1>4, <2>0, <2>3, <3>2
  <2>4. CASE ReceiveFrame(t)
    <3>0. fwd[1].kind \in {"BLOCK0", "DATA"} /\ fwd[1].ok /\ UNCHANGED <<rfile, disk, received>>
      BY <1>2, <2>4 DEF ReceiveFrame
    <3>1. CASE Number(fwd[1].blk) = PrevNumber(expected) /\ UNCHANGED <<rphase, expected, buffer>>
      <4>1. Number(fwd[1].blk) = Number(n)
        BY <2>00, <3>1, Neighbours
      <4>2. ASSUME NumbersTell(rfile) PROVE After(fwd[1], rfile, n, faults)
        <5>1. fwd[1].kind = "DATA" /\ fwd[1].file = rfile /\ fwd[1].blk = n
          BY <1>0, <2>0, <3>0, <4>1, <4>2, WhichBlock
        <5>. QED
          BY <2>00, <5>1 DEF After
      <4>. QED
        BY <1>4, <2>0, <3>0, <3>1, <4>2
    <3>2. CASE rphase' = "protocol"
      BY <1>3, <3>0, <3>2
    <3>3. CASE /\ Number(fwd[1].blk) = expected
               /\ buffer' = Append(buffer, <<fwd[1].file, fwd[1].blk>>)
               /\ expected' = NextNumber(expected) /\ UNCHANGED rphase
      BY <1>0, <1>1, <2>0, <3>0, <3>3, AcceptsGap
    <3>. QED
      BY <1>2, <2>4, <3>1, <3>2, <3>3 DEF ReceiveFrame, IsDuplicate, IsNext
  <2>. QED
    BY <1>6, <2>1, <2>2, <2>3, <2>4 DEF ReceiveData
<1>. QED
  BY <1>5, <1>6 DEF ReceiverReads

-----------------------------------------------------------------------------
(* Theorem *)

LEMMA GapStep == Typed /\ Typed' /\ AtFirst /\ GapInv /\ [Next]_vars => GapInv'
<1>. SUFFICES ASSUME Typed, Typed', AtFirst, GapInv, [Next]_vars PROVE GapInv'
  OBVIOUS
<1>1. CASE UNCHANGED vars
  <2>1. /\ UNCHANGED <<senderVars, receiverVars, fwd, faults, rfile>>
        /\ UNCHANGED <<rphase, rfile, expected, buffer, disk, received>>
    BY <1>1 DEF vars, receiverVars
  <2>2. ChainInv' /\ OrderInv' /\ WrittenInv'
    BY <2>1, LineRests
  <2>3. ASSUME rphase = "data", NumbersTell(rfile) PROVE Gap(rfile, Len(buffer), faults)'
    <3>1. rfile \in 1..NFiles /\ Len(buffer) \in Nat /\ faults \in Nat
      BY <2>3, CalmFacts, GapFacts
    <3>2. \A f \in 1..NFiles, n \in Nat, g \in Nat :
            f = rfile /\ n = Len(buffer) /\ g = faults => Gap(f, n, g)'
      BY <2>1, <2>3, LineRests DEF GapInv, KeptInv
    <3>. QED
      BY <2>1, <3>1, <3>2 DEF Gap
  <2>. QED
    BY <2>1, <2>2, <2>3, ReceiverRests DEF GapInv
<1>2. CASE SenderReads
  BY <1>2, SenderReadsGap
<1>3. CASE SenderTimeout
  BY <1>3, SenderTimeoutGap
<1>4. CASE SenderStreams
  BY <1>4, SenderStreamsGap
<1>5. CASE ReceiverStart
  BY <1>5, ReceiverStartGap
<1>6. CASE ReceiverReads
  BY <1>6, ReceiverReadsGap
<1>7. CASE ReceiverTimeout
  BY <1>7, ReceiverTimeoutGap
<1>8. CASE ForwardFault
  BY <1>8, ForwardFaultGap
<1>9. CASE ReverseFault
  BY <1>9, ReverseFaultGap
<1>. QED
  BY <1>1, <1>2, <1>3, <1>4, <1>5, <1>6, <1>7, <1>8, <1>9 DEF Next

LEMMA GapInit == Init => AtFirst /\ GapInv
<1>. SUFFICES ASSUME Init PROVE AtFirst /\ GapInv
  OBVIOUS
<1>1. Len(fwd) = 0 /\ Len(received) = 0 /\ rphase = "start" /\ sphase = "handshake" /\ sfile = 1
      /\ rfile = 0
  BY DEF Init
<1>2. ChainInv /\ ClosedInv
  BY <1>1 DEF ChainInv, ClosedInv
<1>3. OrderInv /\ WrittenInv
  BY <1>1 DEF OrderInv, WrittenInv, Begun
<1>4. KeptInv
  <2>1. ASSUME NEW f \in 1..NFiles PROVE Own(f, disk[f].blocks)
    <3>1. disk[f].blocks = <<>>
      BY DEF Init, Opened
    <3>. QED
      BY <3>1, Constants DEF Own
  <2>. QED
    BY <1>1, <2>1 DEF KeptInv
<1>. QED
  BY <1>1, <1>2, <1>3, <1>4 DEF AtFirst, GapInv

LEMMA OwnBlocks ==
  ASSUME NEW f \in 1..NFiles, NEW b \in Seq(Places), Own(f, b)
  PROVE  b = SubSeq(FileBlocks(f), 1, Len(b))
<1>. DEFINE n == Len(b)
            c == SubSeq(FileBlocks(f), 1, n)
<1>1. n \in Nat /\ Blocks[f] \in Nat /\ n <= Blocks[f] /\ \A i \in 1..n : b[i] = <<f, i>>
  BY LenProperties, Constants DEF Own
<1>. HIDE DEF n
<1>2. \A i \in 1..n : i \in 1..Blocks[f] /\ i \in Nat
  BY <1>1
<1>3. \A i \in 1..n : FileBlocks(f)[i] = <<f, i>>
  <2>1. \A i \in 1..Blocks[f] : FileBlocks(f)[i] = <<f, i>>
    BY DEF FileBlocks
  <2>. QED
    BY <1>2, <2>1
<1>4. ASSUME NEW i \in 1..n PROVE FileBlocks(f)[i] \in Places
  <2>1. <<f, i>> \in Places
    BY <1>2, Constants DEF Places
  <2>. QED
    BY <1>3, <2>1, Zenon
<1>5. n \in Int /\ 1 \in Int
  BY <1>1
<1>6. \A i \in 1..n : FileBlocks(f)[i] \in Places
  BY <1>4
<1>7. /\ c \in Seq(Places)
      /\ Len(c) = IF 1 <= n THEN n - 1 + 1 ELSE 0
      /\ \A i \in 1..(n - 1 + 1) : c[i] = FileBlocks(f)[1 + i - 1]
  BY <1>5, <1>6, SubSeqProperties
<1>. HIDE DEF c
<1>8. Len(c) = n
  BY <1>1, <1>7
<1>9. \A i \in 1..n : c[i] = <<f, i>>
  <2>1. \A i \in 1..n : i \in 1..(n - 1 + 1) /\ 1 + i - 1 = i
    BY <1>1
  <2>. QED
    BY <1>3, <1>7, <2>1
<1>10. Len(b) = Len(c) /\ \A i \in 1..Len(b) : b[i] = c[i]
  BY <1>1, <1>8, <1>9 DEF n
<1>11. b = c
  BY <1>7, <1>10, SeqEqual
<1>. QED
  BY <1>11 DEF c, n

\* What the calm invariant knows of a file.
LEMMA CalmOwn ==
  ASSUME CalmInv, Acked, NEW f \in 1..NFiles
  PROVE  /\ Own(f, disk[f].blocks)
         /\ rphase = "data" /\ rfile = f => Own(f, buffer)
<1>0. Typed /\ RecvInv
  BY DEF CalmInv
<1>1. Closed \in Nat /\ Blocks[f] \in Nat
  BY <1>0, CalmFacts
<1>2. rphase = "data" /\ rfile = f => Own(f, buffer)
  BY <1>0 DEF RecvInv, Own
<1>3. disk[f].blocks = FileBlocks(f) \/ disk[f].blocks = <<>>
  <2>1. f \in 1..Closed \/ f > Closed
    BY <1>1
  <2>. QED
    BY <1>0, <2>1 DEF RecvInv
<1>4. FileBlocks(f) = [i \in 1..Blocks[f] |-> <<f, i>>] /\ Len(FileBlocks(f)) = Blocks[f]
  BY <1>1, LenProperties DEF FileBlocks
<1>5. Own(f, disk[f].blocks)
  <2>1. Own(f, FileBlocks(f))
    <3>1. \A i \in 1..Blocks[f] : FileBlocks(f)[i] = <<f, i>>
      BY DEF FileBlocks
    <3>2. Len(FileBlocks(f)) <= Blocks[f]
      BY <1>1, <1>4
    <3>. QED
      BY <1>4, <3>1, <3>2 DEF Own
  <2>2. Own(f, <<>>)
    BY <1>1 DEF Own
  <2>. QED
    BY <1>3, <2>1, <2>2
<1>. QED
  BY <1>2, <1>5

\* Whatever the line and the timers do, ymodem.py's receiver closes the files in
\* the order of the batch, and collects for each its own first blocks and no
\* other's: always when blocks are acknowledged one by one and no timer runs
\* ahead, and as long as the numbers tell when they are streamed or one did.
THEOREM FilesKeptApart == Spec => []FilesUnmixed
<1>. DEFINE Inv == CalmInv /\ AtFirst /\ GapInv
<1>1. ASSUME Inv PROVE FilesUnmixed
  <2>0. Typed
    BY <1>1 DEF CalmInv
  <2>1. \A j, k \in 1..Len(received) : j < k => received[j] < received[k]
    BY <1>1 DEF GapInv, ClosedInv
  <2>2. ASSUME NEW f \in 1..NFiles, (~r_g_mode /\ late = 0) \/ NumbersTell(f)
        PROVE  /\ Own(f, disk[f].blocks)
               /\ rphase = "data" /\ rfile = f => Own(f, buffer)
    <3>1. CASE Acked
      BY <1>1, <3>1, CalmOwn
    <3>2. CASE NumbersTell(f)
      BY <1>1, <3>2 DEF GapInv, KeptInv
    <3>. QED
      BY <2>2, <3>1, <3>2 DEF Acked
  <2>3. buffer \in Seq(Places) /\ \A f \in 1..NFiles : disk[f].blocks \in Seq(Places)
    BY <2>0, GapFacts, CalmFacts
  <2>4. ASSUME NEW f \in 1..NFiles, (~r_g_mode /\ late = 0) \/ NumbersTell(f)
        PROVE  /\ disk[f].blocks = SubSeq(FileBlocks(f), 1, Len(disk[f].blocks))
               /\ rphase = "data" /\ rfile = f => buffer = SubSeq(FileBlocks(f), 1, Len(buffer))
    <3>1. disk[f].blocks = SubSeq(FileBlocks(f), 1, Len(disk[f].blocks))
      BY <2>2, <2>3, <2>4, OwnBlocks
    <3>2. ASSUME rphase = "data", rfile = f PROVE buffer = SubSeq(FileBlocks(f), 1, Len(buffer))
      BY <2>2, <2>3, <2>4, <3>2, OwnBlocks
    <3>. QED
      BY <3>1, <3>2
  <2>. QED
    BY <2>1, <2>4 DEF FilesUnmixed
<1>2. Init => Inv
  BY CalmInit, GapInit
<1>3. Inv /\ [Next]_vars => Inv'
  <2>1. CalmInv => Typed
    BY DEF CalmInv
  <2>2. CalmInv' => Typed'
    BY DEF CalmInv
  <2>. QED
    BY <2>1, <2>2, CalmStep, AtFirstStep, GapStep
<1>. QED
  BY <1>1, <1>2, <1>3, PTL DEF Spec
=============================================================================
