---------------------------- MODULE XModemProofs ----------------------------
(***************************************************************************)
(* Theorems about XModem, for files of any length, any retry limit, any    *)
(* number of faults and of early timers: its types, and the prefix that is *)
(* delivered.  Then, on a line that loses and damages frames, with timers  *)
(* that wait for what is under way: past the wrap of the block numbers the *)
(* transfer keeps the promise of FileTransfer.  And how far early timers   *)
(* let the sender run ahead of the receiver.                               *)
(***************************************************************************)
EXTENDS XModem, SequenceTheorems, FiniteSetTheorems, TLAPS

-----------------------------------------------------------------------------
(* Block numbers *)

\* A block number is a byte.
LEMMA NumberInRange ==
  ASSUME NEW i \in Nat
  PROVE  /\ Number(i) \in 0..(NumMod - 1)
         /\ NextNumber(i) \in 0..(NumMod - 1)
BY ConstantsAssumption, SMT DEF Number, NextNumber

\* Below the wrap a block's number is its index.
LEMMA NumberBelowWrap ==
  ASSUME NEW i \in Nat, i < NumMod
  PROVE  Number(i) = i
BY ConstantsAssumption, SMT DEF Number

\* At the wrap it starts from 0 again.
LEMMA NumberAtWrap == Number(NumMod) = 0
BY ConstantsAssumption, Z3 DEF Number

-----------------------------------------------------------------------------
(* What travels on the line *)

\* What the sender puts on the line is a token.
LEMMA SentTokens ==
  /\ \A i \in 1..NBlocks, c \in BOOLEAN : Frame(i, c) \in FrameTokens
  /\ \A k \in CtlKinds : Ctl(k) \in CtlTokens
<1>1. \A i \in 1..NBlocks, c \in BOOLEAN : Frame(i, c) \in FrameTokens
  BY DEF Frame, FrameTokens
<1>2. \A k \in CtlKinds : Ctl(k) \in CtlTokens
  BY DEF Ctl, CtlTokens
<1>. QED
  BY <1>1, <1>2

\* A damaged frame still is one.
LEMMA DamagedToken ==
  ASSUME NEW t \in Tokens, t.kind = "FRAME"
  PROVE  [t EXCEPT !.wire = "damaged"] \in Tokens
<1>1. t \in FrameTokens
  BY DEF Tokens, CtlTokens, CtlKinds
<1>. QED
  BY <1>1 DEF Tokens, FrameTokens

\* The end of a frame is tokens, however its bytes are read.
LEMMA TailTokens == FrameTail \in Seq(Tokens)
<1>1. TailBytes \in Seq(CtlKinds)
  BY ConstantsAssumption
<1>2. \A i \in 1..Len(TailBytes) : Ctl(TailBytes[i]) \in Tokens
  BY <1>1, SentTokens, ElementOfSeq DEF Tokens
<1>. QED
  BY <1>1, <1>2, LenProperties, SeqDef DEF FrameTail

\* What is left of a beheaded token is tokens, however its bytes are read.
LEMMA BeheadedTokens ==
  ASSUME NEW t \in Tokens
  PROVE  Beheaded(t) \in Seq(Tokens)
<1>1. CASE t.kind # "FRAME"
  BY <1>1 DEF Beheaded
<1>2. CASE t.kind = "FRAME"
  <2>1. t \in FrameTokens
    BY <1>2 DEF Tokens, CtlTokens, CtlKinds
  <2>2. /\ [t EXCEPT !.wire = "short"] \in FrameTokens
        /\ [t EXCEPT !.wire = "long"] \in FrameTokens
    BY <2>1 DEF FrameTokens
  <2>3. /\ << [t EXCEPT !.wire = "short"] >> \in Seq(Tokens)
        /\ << [t EXCEPT !.wire = "long"] >> \in Seq(Tokens)
    BY <2>2 DEF Tokens
  <2>4. \A b : HeaderKind(b) \in CtlKinds
    BY DEF HeaderKind, CtlKinds
  <2>5. << Ctl(HeaderKind(Number(t.blk))) >> \in Seq(Tokens)
    BY <2>4, SentTokens DEF Tokens
  <2>. QED
    BY <1>2, <2>3, <2>5, TailTokens, ConcatProperties DEF Beheaded, Residue
<1>. QED
  BY <1>1, <1>2

-----------------------------------------------------------------------------
(* Types *)

\* Beside the types: a sender in a block has not run past the end of the file.
\* Needed for what it puts on the line to be a token.
TypeInv == TypeOK /\ (sphase = "block" => block \in 1..NBlocks)

\* What the line carries after a read is still tokens and replies.
LEMMA LineReads ==
  ASSUME TypeOK
  PROVE  /\ fwd # <<>> => Head(fwd) \in Tokens /\ Tail(fwd) \in Seq(Tokens)
         /\ rev # <<>> => Head(rev) \in Replies /\ Tail(rev) \in Seq(Replies)
BY HeadTailProperties DEF TypeOK

\* What is sent joins what is under way.
LEMMA LineWrites ==
  ASSUME TypeOK
  PROVE  /\ \A t \in Tokens : Append(fwd, t) \in Seq(Tokens)
         /\ \A b \in Replies : Append(rev, b) \in Seq(Replies)
BY AppendProperties DEF TypeOK

\* The types of what the sender assigns.
SenderType ==
  /\ sphase \in SenderPhases
  /\ use_crc \in BOOLEAN
  /\ block \in 1..(NBlocks + 1)
  /\ attempt \in 0..(RetryLimit - 1)
  /\ fwd \in Seq(Tokens)
  /\ sphase = "block" => block \in 1..NBlocks

\* The next round of a retry loop keeps the types.
LEMMA RetryType ==
  ASSUME TypeInv, sphase \notin SenderFinal,
         Retry
  PROVE  SenderType'
<1>1. /\ use_crc' \in BOOLEAN
      /\ block' = block
  BY DEF Retry, Exhausted, Count, TypeInv, TypeOK
<1>2. CASE attempt + 1 >= RetryLimit
  <2>1. /\ sphase' = "failed" /\ attempt' = attempt /\ fwd' = fwd
    BY <1>2, ConstantsAssumption DEF Retry, Exhausted, Count, TypeInv, TypeOK
  <2>. QED
    BY <1>1, <2>1
    DEF TypeInv, TypeOK, SenderType, SenderPhases, SenderFinal
<1>3. CASE attempt + 1 < RetryLimit
  <2>1. /\ sphase' = sphase /\ attempt' = attempt + 1
    BY <1>3, ConstantsAssumption DEF Retry, Exhausted, Count, TypeInv, TypeOK
  <2>2. fwd' \in Seq(Tokens)
    <3>1. \/ fwd' = fwd
          \/ fwd' = Append(fwd, Frame(block, use_crc)) /\ sphase = "block"
          \/ fwd' = Append(fwd, Ctl("EOT"))
      BY DEF Retry, Exhausted, Count
    <3>2. sphase = "block" => Frame(block, use_crc) \in Tokens
      BY SentTokens DEF TypeInv, TypeOK, Tokens
    <3>3. Ctl("EOT") \in Tokens
      BY SentTokens DEF Tokens, CtlKinds
    <3>. QED
      BY <3>1, <3>2, <3>3, LineWrites DEF TypeInv, TypeOK
  <2>3. attempt' \in 0..(RetryLimit - 1)
    BY <1>3, <2>1, ConstantsAssumption DEF TypeInv, TypeOK
  <2>. QED
    BY <1>1, <2>1, <2>2, <2>3 DEF TypeInv, TypeOK, SenderType
<1>. QED
  BY <1>2, <1>3, ConstantsAssumption DEF TypeInv, TypeOK

\* A round of the block loop keeps them.
LEMMA TransmitType ==
  ASSUME TypeInv, NEW b \in 1..(NBlocks + 1), NEW c \in BOOLEAN,
         use_crc' = c, Transmit(b, c)
  PROVE  SenderType'
<1>1. /\ b <= NBlocks => Frame(b, c) \in Tokens
      /\ Ctl("EOT") \in Tokens
  BY SentTokens, ConstantsAssumption DEF Tokens, CtlKinds
<1>2. fwd' \in Seq(Tokens)
  BY <1>1, LineWrites DEF Transmit, TypeInv
<1>3. /\ sphase' \in {"block", "eot"}
      /\ sphase' = "block" => b <= NBlocks
      /\ block' = b
      /\ attempt' = 0
  BY DEF Transmit, TypeInv, TypeOK
<1>4. attempt' \in 0..(RetryLimit - 1)
  BY <1>3, ConstantsAssumption
<1>5. block' \in 1..(NBlocks + 1) /\ (sphase' = "block" => block' \in 1..NBlocks)
  BY <1>3, ConstantsAssumption
<1>. QED
  BY <1>2, <1>3, <1>4, <1>5 DEF SenderType, SenderPhases

\* The sender's three loops keep the types.
LEMMA SenderReadsType ==
  ASSUME TypeInv, SenderReads
  PROVE  TypeInv'
<1>1. /\ rev' \in Seq(Replies)
      /\ rphase' = rphase /\ expected_block' = expected_block
      /\ errors' = errors /\ buffer' = buffer /\ stream' = stream
      /\ faults' = faults /\ late' = late
  BY LineReads DEF TypeInv, SenderReads, receiverVars
<1>2. SenderType'
  <2>1. CASE SenderHandshake
    <3>1. CASE Head(rev) \in {"C", "NAK"}
      <4>1. Transmit(1, use_crc') /\ use_crc' \in BOOLEAN
        BY <2>1, <3>1 DEF SenderHandshake
      <4>2. 1 \in 1..(NBlocks + 1)
        BY ConstantsAssumption
      <4>. QED
        BY <4>1, <4>2, TransmitType
    <3>2. CASE Head(rev) = "CAN"
      BY <2>1, <3>2 DEF SenderHandshake, SenderCancelled, TypeInv, TypeOK,
         SenderType, SenderPhases, SenderFinal
    <3>3. CASE Head(rev) \notin {"C", "NAK", "CAN"}
      BY <2>1, <3>3, RetryType DEF SenderHandshake, SenderFinal
    <3>. QED
      BY <3>1, <3>2, <3>3
  <2>2. CASE SenderAnswer
    <3>1. CASE Head(rev) = "ACK"
      <4>1. Transmit(block + 1, use_crc) /\ use_crc' = use_crc
        BY <2>2, <3>1 DEF SenderAnswer, Acknowledges
      <4>2. block + 1 \in 1..(NBlocks + 1) /\ use_crc \in BOOLEAN
        BY <2>2, ConstantsAssumption DEF SenderAnswer, Acknowledges, TypeInv, TypeOK
      <4>. QED
        BY <4>1, <4>2, TransmitType
    <3>2. CASE Head(rev) = "CAN"
      BY <2>2, <3>2 DEF SenderAnswer, Acknowledges, SenderCancelled, TypeInv, TypeOK,
         SenderType, SenderPhases, SenderFinal
    <3>3. CASE Head(rev) \notin {"ACK", "CAN"}
      BY <2>2, <3>3, RetryType DEF SenderAnswer, Acknowledges, SenderFinal
    <3>. QED
      BY <3>1, <3>2, <3>3
  <2>3. CASE SenderEotAnswer
    <3>1. CASE Head(rev) = "ACK"
      BY <2>3, <3>1 DEF SenderEotAnswer, Acknowledges, TypeInv, TypeOK, SenderType,
         SenderPhases, SenderFinal
    <3>2. CASE Head(rev) = "CAN"
      BY <2>3, <3>2 DEF SenderEotAnswer, Acknowledges, SenderCancelled, TypeInv, TypeOK,
         SenderType, SenderPhases, SenderFinal
    <3>3. CASE Head(rev) \notin {"ACK", "CAN"}
      BY <2>3, <3>3, RetryType DEF SenderEotAnswer, Acknowledges, SenderFinal
    <3>. QED
      BY <3>1, <3>2, <3>3
  <2>. QED
    BY <2>1, <2>2, <2>3 DEF SenderReads
<1>. QED
  BY <1>1, <1>2 DEF TypeInv, TypeOK, SenderType

\* So does an expired timer.
LEMMA SenderTimeoutType ==
  ASSUME TypeInv, SenderTimeout
  PROVE  TypeInv'
<1>1. SenderType'
  BY RetryType DEF SenderTimeout
<1>2. late' \in 0..MaxLate
  BY ConstantsAssumption DEF SenderTimeout, TimerFires, TypeInv, TypeOK
<1>. QED
  BY <1>1, <1>2 DEF SenderTimeout, receiverVars, TypeInv, TypeOK, SenderType

\* The receiver's answers are replies.
LEMMA ReplyType ==
  ASSUME TypeInv, NEW b \in Replies, Reply(b)
  PROVE  rev' \in Seq(Replies)
BY LineWrites DEF Reply, TypeInv

\* The handshake byte goes out.
LEMMA ReceiverStartType ==
  ASSUME TypeInv, ReceiverStart
  PROVE  TypeInv'
<1>1. rev' \in Seq(Replies)
  BY ReplyType DEF ReceiverStart, Replies
<1>. QED
  BY <1>1 DEF ReceiverStart, senderVars, TypeInv, TypeOK, ReceiverPhases

\* The types of what the receiver assigns.
ReceiverType ==
  /\ rphase \in ReceiverPhases
  /\ expected_block \in 0..(NumMod - 1)
  /\ errors \in Nat
  /\ buffer \in Seq(1..NBlocks)
  /\ stream \in Seq(1..NBlocks)
  /\ fwd \in Seq(Tokens)
  /\ rev \in Seq(Replies)

\* A frame refused keeps the types.
LEMMA ReceiveDamagedType ==
  ASSUME TypeInv, fwd # <<>>, rphase = "run", ReceiveDamaged
  PROVE  ReceiverType'
<1>1. rev' \in Seq(Replies)
  BY ReplyType DEF ReceiveDamaged, Count, Replies
<1>2. fwd' \in Seq(Tokens)
  <2>1. CASE fwd' = Beheaded(fwd[2]) \o Tail(Tail(fwd)) /\ Len(fwd) > 1
    <3>1. fwd[2] \in Tokens /\ Tail(Tail(fwd)) \in Seq(Tokens)
      <4>1. fwd \in Seq(Tokens) /\ fwd # <<>>
        BY DEF TypeInv, TypeOK
      <4>2. /\ Tail(fwd) \in Seq(Tokens)
            /\ Len(Tail(fwd)) = Len(fwd) - 1
        BY <4>1, HeadTailProperties
      <4>3. Tail(fwd) # <<>>
        BY <2>1, <4>1, <4>2, LenProperties, EmptySeq
      <4>4. 2 \in 1..Len(fwd)
        BY <2>1, <4>1, LenProperties
      <4>. QED
        BY <4>1, <4>2, <4>3, <4>4, ElementOfSeq, HeadTailProperties
    <3>. QED
      BY <2>1, <3>1, BeheadedTokens, ConcatProperties
  <2>. QED
    BY <2>1, LineReads, EmptySeq DEF ReceiveDamaged, Count, TypeInv
<1>3. errors' \in Nat
  BY DEF ReceiveDamaged, Count, TypeInv, TypeOK
<1>. QED
  BY <1>1, <1>2, <1>3 DEF ReceiveDamaged, Count, TypeInv, TypeOK, ReceiverType

\* A good frame keeps them: what it adds to the buffer is a block.
LEMMA ReceiveBlockType ==
  ASSUME TypeInv, fwd # <<>>, rphase = "run", ReceiveBlock
  PROVE  ReceiverType'
<1>1. /\ fwd' \in Seq(Tokens)
      /\ Head(fwd) \in Tokens
  BY LineReads DEF ReceiveBlock, IsDuplicate, IsNext, Raise, TypeInv
<1>2. Head(fwd).blk \in 1..NBlocks
  BY <1>1 DEF ReceiveBlock, IsDuplicate, IsNext, Raise, Tokens, FrameTokens, CtlTokens, CtlKinds
<1>3. rev' \in Seq(Replies)
  <2>1. rev \o <<"CAN", "CAN">> \in Seq(Replies)
    <3>1. <<"CAN", "CAN">> \in Seq(Replies)
      BY DEF Replies
    <3>. QED
      BY <3>1, ConcatProperties DEF TypeInv, TypeOK
  <2>. QED
    BY <2>1, ReplyType DEF ReceiveBlock, IsDuplicate, IsNext, Raise, Replies
<1>4. buffer' \in Seq(1..NBlocks)
  <2>1. buffer' = buffer \/ buffer' = Append(buffer, Head(fwd).blk)
    BY DEF ReceiveBlock, IsDuplicate, IsNext, Raise
  <2>2. buffer \in Seq(1..NBlocks)
    BY DEF TypeInv, TypeOK
  <2>3. Append(buffer, Head(fwd).blk) \in Seq(1..NBlocks)
    BY <1>2, <2>2, AppendProperties
  <2>. QED
    BY <2>1, <2>2, <2>3
<1>5. expected_block' \in 0..(NumMod - 1)
  <2>1. \/ expected_block' = expected_block
        \/ expected_block' = NextNumber(expected_block)
    BY DEF ReceiveBlock, IsDuplicate, IsNext, Raise
  <2>2. expected_block \in 0..(NumMod - 1) /\ expected_block \in Nat
    BY ConstantsAssumption DEF TypeInv, TypeOK
  <2>. QED
    BY <2>1, <2>2, NumberInRange
<1>. QED
  BY <1>1, <1>3, <1>4, <1>5
  DEF ReceiveBlock, IsDuplicate, IsNext, Raise, TypeInv, TypeOK, ReceiverType, ReceiverPhases, ReceiverFinal

\* Every branch of the receiver's loop keeps the types.
LEMMA ReceiverReadsType ==
  ASSUME TypeInv, ReceiverReads
  PROVE  TypeInv'
<1>1. ReceiverType'
  <2>. USE DEF TypeInv, TypeOK, ReceiverType, ReceiverPhases, ReceiverFinal
  <2>1. CASE rphase = "run" /\ ReceiveEot
    <3>1. rev' \in Seq(Replies)
      BY <2>1, ReplyType DEF ReceiveEot, Commit, Replies
    <3>. QED
      BY <2>1, <3>1, LineReads DEF ReceiveEot, Commit, ReceiverReads
  <2>2. CASE rphase = "run" /\ ReceiveCan
    BY <2>2, LineReads DEF ReceiveCan, ReceiverReads
  <2>3. CASE rphase = "run" /\ ReceiveJunk
    <3>1. rev' \in Seq(Replies)
      BY <2>3, ReplyType DEF ReceiveJunk, Count, Raise, Replies
    <3>. QED
      BY <2>3, <3>1, LineReads DEF ReceiveJunk, Count, Raise, ReceiverReads
  <2>4. CASE rphase = "run" /\ ReceiveDamaged
    BY <2>4, ReceiveDamagedType DEF ReceiverReads
  <2>5. CASE rphase = "run" /\ ReceiveBlock
    BY <2>5, ReceiveBlockType DEF ReceiverReads
  <2>6. CASE rphase = "can" /\ ReceiveAfterCan
    <3>1. rev' \in Seq(Replies)
      BY <2>6, ReplyType DEF ReceiveAfterCan, Raise, Replies
    <3>2. fwd' \in Seq(Tokens)
      BY <2>6, LineReads, BeheadedTokens, ConcatProperties
      DEF ReceiveAfterCan, Raise, ReceiverReads
    <3>. QED
      BY <2>6, <3>1, <3>2 DEF ReceiveAfterCan, Raise
  <2>. QED
    BY <2>1, <2>2, <2>3, <2>4, <2>5, <2>6 DEF ReceiverReads
<1>. QED
  BY <1>1 DEF ReceiverReads, senderVars, TypeInv, TypeOK, ReceiverType

\* So does the receiver's timer.
LEMMA ReceiverTimeoutType ==
  ASSUME TypeInv, ReceiverTimeout
  PROVE  TypeInv'
<1>1. rev' \in Seq(Replies)
  BY ReplyType DEF ReceiverTimeout, Count, Raise, Replies, TypeInv, TypeOK
<1>2. late' \in 0..MaxLate
  BY ConstantsAssumption DEF ReceiverTimeout, Count, Raise, TimerFires, TypeInv, TypeOK
<1>. QED
  BY <1>1, <1>2 DEF ReceiverTimeout, Count, Raise, senderVars, TypeInv, TypeOK,
     ReceiverPhases, ReceiverFinal

\* Whatever the line does to a token leaves tokens.
LEMMA ForwardFaultType ==
  ASSUME TypeInv, ForwardFault
  PROVE  TypeInv'
<1>1. /\ Head(fwd) \in Tokens
      /\ Tail(fwd) \in Seq(Tokens)
  BY LineReads DEF ForwardFault, TypeInv
<1>2. fwd' \in Seq(Tokens)
  <2>1. ASSUME NEW s \in Seq(Tokens)
        PROVE  s \o Tail(fwd) \in Seq(Tokens)
    BY <1>1, <2>1, ConcatProperties
  <2>2. Head(fwd).kind = "FRAME" =>
          << [Head(fwd) EXCEPT !.wire = "damaged"] >> \in Seq(Tokens)
    BY <1>1, DamagedToken
  <2>3. Head(fwd).kind = "FRAME" =>
          << [Head(fwd) EXCEPT !.wire = "damaged"] >> \o FrameTail \in Seq(Tokens)
    BY <2>2, TailTokens, ConcatProperties
  <2>4. Head(fwd).kind = "FRAME" => Residue(Head(fwd)) \in Seq(Tokens)
    BY <1>1, BeheadedTokens DEF Beheaded
  <2>5. \A k \in Noise : << Ctl(k) >> \in Seq(Tokens)
    BY SentTokens, ConstantsAssumption DEF Tokens
  <2>. QED
    BY <1>1, <2>1, <2>2, <2>3, <2>4, <2>5 DEF ForwardFault
<1>3. faults' \in 0..MaxFaults
  BY ConstantsAssumption DEF ForwardFault, Fault, TypeInv, TypeOK
<1>. QED
  BY <1>2, <1>3 DEF ForwardFault, Fault, senderVars, receiverVars, TypeInv, TypeOK

\* Whatever it does to a reply leaves replies.
LEMMA ReverseFaultType ==
  ASSUME TypeInv, ReverseFault
  PROVE  TypeInv'
<1>1. /\ Head(rev) \in Replies
      /\ Tail(rev) \in Seq(Replies)
  BY LineReads DEF ReverseFault, TypeInv
<1>2. rev' \in Seq(Replies)
  <2>1. \A k \in Noise \ {"EOT"} : << k >> \in Seq(Replies)
    BY ConstantsAssumption DEF CtlKinds, Replies
  <2>. QED
    BY <1>1, <2>1, ConcatProperties DEF ReverseFault
<1>3. faults' \in 0..MaxFaults
  BY ConstantsAssumption DEF ReverseFault, Fault, TypeInv, TypeOK
<1>. QED
  BY <1>2, <1>3 DEF ReverseFault, Fault, senderVars, receiverVars, TypeInv, TypeOK

\* The types hold at the start.
LEMMA InitType == Init => TypeInv
<1>. SUFFICES ASSUME Init
              PROVE  TypeInv
  OBVIOUS
<1>1. /\ fwd \in Seq(Tokens) /\ rev \in Seq(Replies)
      /\ buffer \in Seq(1..NBlocks) /\ stream \in Seq(1..NBlocks)
  BY EmptySeq DEF Init
<1>2. /\ block \in 1..(NBlocks + 1)
      /\ attempt \in 0..(RetryLimit - 1)
      /\ expected_block \in 0..(NumMod - 1)
      /\ faults \in 0..MaxFaults /\ late \in 0..MaxLate
  BY ConstantsAssumption DEF Init
<1>. QED
  BY <1>1, <1>2
  DEF Init, TypeInv, TypeOK, SenderPhases, ReceiverPhases

\* Every step keeps them.
LEMMA NextType == TypeInv /\ [Next]_vars => TypeInv'
<1>. SUFFICES ASSUME TypeInv, [Next]_vars
              PROVE  TypeInv'
  OBVIOUS
<1>1. CASE UNCHANGED vars
  BY <1>1 DEF vars, senderVars, receiverVars, TypeInv, TypeOK
<1>. QED
  BY <1>1, SenderReadsType, SenderTimeoutType, ReceiverStartType,
     ReceiverReadsType, ReceiverTimeoutType, ForwardFaultType, ReverseFaultType
  DEF Next

\* Type correctness: both engines and the line stay within the types, in
\* particular every retry loop within its limit and every block number within
\* a byte, and what is on the line is always a token or a reply.
THEOREM TypeCorrect == Spec => []TypeOK
<1>1. TypeInv => TypeOK
  BY DEF TypeInv
<1>. QED
  BY <1>1, InitType, NextType, PTL DEF Spec

-----------------------------------------------------------------------------
(* The accepted blocks *)

\* Only an accepted block changes what PrefixInv speaks of, and below the wrap
\* that block is the first one missing.
LEMMA AcceptedBlock ==
  ASSUME NBlocks < NumMod, TypeInv, PrefixInv, fwd # <<>>, ReceiveBlock
  PROVE  PrefixInv'
<1>1. CASE UNCHANGED <<expected_block, buffer>>
  BY <1>1 DEF PrefixInv, PrefixDelivered
<1>2. CASE /\ Number(Head(fwd).blk) = expected_block
           /\ buffer' = Append(buffer, Head(fwd).blk)
           /\ expected_block' = NextNumber(expected_block)
  <2>. DEFINE n == Len(buffer)
              b == Head(fwd).blk
  <2>1. /\ b \in 1..NBlocks
        /\ buffer \in Seq(1..NBlocks)
        /\ n \in Nat
    BY LineReads, LenProperties
    DEF ReceiveBlock, IsDuplicate, IsNext, Raise, TypeInv, TypeOK, Tokens, FrameTokens, CtlTokens, CtlKinds
  <2>2. n <= NBlocks
    <3>1. CASE n = 0
      BY <3>1, ConstantsAssumption
    <3>2. CASE n # 0
      <4>1. n \in 1..Len(buffer)
        BY <2>1, <3>2
      <4>. QED
        <5>1. buffer[n] \in 1..NBlocks
          BY <2>1, <4>1, ElementOfSeq
        <5>2. buffer[n] = n
          BY <4>1 DEF PrefixInv, PrefixDelivered
        <5>. QED
          BY <5>1, <5>2
    <3>. QED
      BY <3>1, <3>2
  <2>3. b = n + 1 /\ expected_block = n + 1
    <3>1. Number(b) = b
      BY <2>1, NumberBelowWrap, ConstantsAssumption
    <3>2. b = (n + 1) % NumMod
      BY <1>2, <3>1 DEF PrefixInv, NextNumber
    <3>3. CASE n + 1 < NumMod
      <4>1. (n + 1) % NumMod = n + 1
        BY <2>1, <3>3, NumberBelowWrap DEF Number
      <4>. QED
        BY <1>2, <3>1, <3>2, <4>1
    <3>4. CASE n + 1 = NumMod
      <4>1. b = 0
        BY <3>2, <3>4, NumberAtWrap, Zenon DEF Number
      <4>. QED
        BY <2>1, <4>1, ConstantsAssumption
    <3>. QED
      BY <2>1, <2>2, <3>3, <3>4, ConstantsAssumption
  <2>4. /\ Len(buffer') = n + 1
        /\ \A i \in 1..n : buffer'[i] = buffer[i]
        /\ buffer'[n + 1] = b
    BY <1>2, <2>1, AppendProperties
  <2>5. expected_block' = NextNumber(n + 1)
    BY <1>2, <2>3
  <2>6. \A i \in 1..(n + 1) : buffer'[i] = i
    BY <2>1, <2>3, <2>4 DEF PrefixInv, PrefixDelivered
  <2>. QED
    BY <2>4, <2>5, <2>6 DEF PrefixInv, PrefixDelivered
<1>. QED
  BY <1>1, <1>2 DEF ReceiveBlock, IsDuplicate, IsNext, Raise

\* Nothing else touches them.
LEMMA OthersKeepBuffer ==
  ASSUME [Next]_vars, ~(ReceiverReads /\ rphase = "run" /\ ReceiveBlock)
  PROVE  UNCHANGED <<expected_block, buffer>>
BY DEF Next, vars, SenderReads, SenderTimeout, ReceiverStart, ReceiverReads,
  ReceiverTimeout, Count, Raise, ForwardFault, ReverseFault, receiverVars, ReceiveEot, Commit,
  ReceiveCan, ReceiveJunk, ReceiveDamaged, ReceiveAfterCan

\* In a file shorter than the number cycle, what was accepted is a prefix, and
\* the block that is expected is the first it lacks: whatever the line does.
THEOREM PrefixInvariant ==
  ASSUME NBlocks < NumMod
  PROVE  Spec => []PrefixInv
<1>1. Init => PrefixInv
  BY ConstantsAssumption, EmptySeq DEF Init, PrefixInv, PrefixDelivered, NextNumber
<1>2. TypeInv /\ PrefixInv /\ [Next]_vars => PrefixInv'
  BY AcceptedBlock, OthersKeepBuffer
  DEF ReceiverReads, PrefixInv, PrefixDelivered
<1>. QED
  BY <1>1, <1>2, InitType, NextType, PTL DEF Spec

\* In a file shorter than the number cycle, the receiver accepts exactly the
\* blocks of a prefix, in order, once each: for every fault of the line, every
\* noise byte and every early timer.
THEOREM PrefixIsDelivered ==
  ASSUME NBlocks < NumMod
  PROVE  Spec => []PrefixDelivered
<1>1. PrefixInv => PrefixDelivered
  BY DEF PrefixInv
<1>. QED
  BY <1>1, PrefixInvariant, PTL

-----------------------------------------------------------------------------
(* A calm line: frames are lost or damaged as a whole, and no timer runs     *)
(* ahead.                                                                    *)

\* The line may still do anything to replies.
Calm == MaxLate = 0 /\ FwdFaults \subseteq {"lose", "damage"}

-----------------------------------------------------------------------------
(* Remainders *)

\* A remainder is determined by its range.
LEMMA RemainderUnique ==
  ASSUME NEW m \in Nat, m > 1, NEW p \in Int, NEW q \in Int,
         NEW r \in 0..(m - 1), NEW s \in 0..(m - 1),
         m * p + r = m * q + s
  PROVE  r = s
<1>1. m * (p - q) = s - r
  OBVIOUS
<1>2. CASE p - q >= 1
  <2>1. m * (p - q) >= m
    BY <1>2, SMTT(30)
  <2>. QED
    BY <1>1, <2>1
<1>3. CASE p - q <= -1
  <2>1. m * (p - q) <= -m
    BY <1>3, SMTT(30)
  <2>. QED
    BY <1>1, <2>1
<1>4. CASE p = q
  BY <1>1, <1>4
<1>. QED
  BY <1>2, <1>3, <1>4

\* What division leaves.
LEMMA DivisionFacts ==
  ASSUME NEW a \in Nat, NEW m \in Nat, m > 1
  PROVE  /\ a = m * (a \div m) + (a % m)
         /\ a % m \in 0..(m - 1)
         /\ a \div m \in Nat
BY Z3

\* Any way to write a number as multiple and rest gives its remainder.
LEMMA RemainderIs ==
  ASSUME NEW m \in Nat, m > 1, NEW a \in Nat, NEW q \in Int, NEW r \in 0..(m - 1),
         a = m * q + r
  PROVE  a % m = r
<1>1. a = m * (a \div m) + (a % m) /\ a % m \in 0..(m - 1) /\ a \div m \in Int
  BY DivisionFacts
<1>. QED
  BY <1>1, RemainderUnique

\* The next number of a block's number is the next block's number: the
\* receiver counts its numbers as the sender counts its blocks.
LEMMA NextOfNumber ==
  ASSUME NEW i \in Nat
  PROVE  NextNumber(Number(i)) = Number(i + 1)
<1>. DEFINE q == i \div NumMod
            r == i % NumMod
<1>1. i = NumMod * q + r /\ r \in 0..(NumMod - 1) /\ q \in Nat
  BY DivisionFacts, ConstantsAssumption
<1>. HIDE DEF q, r
<1>2. CASE r + 1 < NumMod
  <2>1. (i + 1) % NumMod = r + 1
    <3>1. i + 1 = NumMod * q + (r + 1)
      BY <1>1, ConstantsAssumption
    <3>. QED
      BY <1>1, <1>2, <3>1, RemainderIs, ConstantsAssumption
  <2>2. (r + 1) % NumMod = r + 1
    BY <1>1, <1>2, NumberBelowWrap DEF Number
  <2>. QED
    BY <2>1, <2>2 DEF NextNumber, Number, r
<1>3. CASE r + 1 = NumMod
  <2>1. (i + 1) % NumMod = 0
    <3>1. i + 1 = NumMod * (q + 1) + 0
      BY <1>1, <1>3, ConstantsAssumption
    <3>. QED
      BY <1>1, <3>1, RemainderIs, ConstantsAssumption
  <2>2. (r + 1) % NumMod = 0
    BY <1>3, NumberAtWrap DEF Number
  <2>. QED
    BY <2>1, <2>2 DEF NextNumber, Number, r
<1>. QED
  BY <1>1, <1>2, <1>3, ConstantsAssumption

\* The duplicate test: the number before the next block's is this block's,
\* and never the next block's own, since there are at least two numbers.
LEMMA PrevOfNext ==
  ASSUME NEW i \in Nat
  PROVE  /\ PrevNumber(Number(i + 1)) = Number(i)
         /\ Number(i + 1) # Number(i)
<1>. DEFINE r == Number(i)
<1>1. /\ r \in 0..(NumMod - 1)
      /\ NextNumber(r) = Number(i + 1)
      /\ NumMod \in Nat /\ NumMod > 1
  BY NumberInRange, NextOfNumber, ConstantsAssumption
<1>. HIDE DEF r
<1>2. CASE r + 1 < NumMod
  <2>1. Number(i + 1) = r + 1
    BY <1>1, <1>2, NumberBelowWrap DEF NextNumber, Number
  <2>2. (r + 1 + NumMod - 1) % NumMod = r
    <3>1. r + 1 + NumMod - 1 = NumMod * 1 + r
      BY <1>1
    <3>. QED
      BY <1>1, <3>1, RemainderIs
  <2>. QED
    BY <1>1, <2>1, <2>2 DEF PrevNumber, r
<1>3. CASE r + 1 = NumMod
  <2>1. Number(i + 1) = 0
    BY <1>1, <1>3, NumberAtWrap DEF NextNumber, Number
  <2>2. (0 + NumMod - 1) % NumMod = r
    BY <1>1, <1>3, NumberBelowWrap DEF Number
  <2>. QED
    BY <1>1, <1>3, <2>1, <2>2 DEF PrevNumber, r
<1>. QED
  BY <1>1, <1>2, <1>3

-----------------------------------------------------------------------------
(* Replies under way *)

\* Taking or adding a reply that is no ACK brings none about.
LEMMA NoAckFacts ==
  ASSUME TypeInv
  PROVE  /\ NoAck(<<>>)
         /\ \A b : b # "ACK" => NoAck(<<b>>)
         /\ NoAck(rev) => \A b \in Replies : b # "ACK" => NoAck(Append(rev, b))
         /\ NoAck(rev) /\ rev # <<>> => Head(rev) # "ACK" /\ NoAck(Tail(rev))
<1>1. NoAck(<<>>) /\ \A b : b # "ACK" => NoAck(<<b>>)
  BY DEF NoAck
<1>2. rev \in Seq(Replies)
  BY DEF TypeInv, TypeOK
<1>3. ASSUME NoAck(rev), NEW b \in Replies, b # "ACK"
      PROVE  NoAck(Append(rev, b))
  BY <1>2, <1>3, AppendProperties, LenProperties DEF NoAck
<1>4. ASSUME NoAck(rev), rev # <<>>
      PROVE  Head(rev) # "ACK" /\ NoAck(Tail(rev))
  BY <1>2, <1>4, HeadTailProperties, LenProperties, EmptySeq DEF NoAck
<1>. QED
  BY <1>1, <1>3, <1>4

\* One token is a queue of length one.
LEMMA OneToken ==
  ASSUME NEW S, NEW q \in Seq(S)
  PROVE  /\ Len(q) = 1 => q # <<>> /\ Tail(q) = <<>> /\ Head(q) = q[1] /\ q = <<Head(q)>>
         /\ Len(q) <= 1 /\ q # <<>> => Len(q) = 1
         /\ \A e : Append(<<>>, e) = <<e>>
<1>1. Len(q) \in Nat /\ (q # <<>> => Len(q) # 0)
  BY LenProperties, EmptySeq
<1>2. ASSUME Len(q) = 1
      PROVE  q # <<>> /\ Tail(q) = <<>> /\ Head(q) = q[1] /\ q = <<Head(q)>>
  <2>1. q # <<>>
    BY <1>2, EmptySeq
  <2>2. Tail(q) \in Seq(S) /\ Len(Tail(q)) = 0
    BY <1>2, <2>1, HeadTailProperties
  <2>3. Tail(q) = <<>>
    BY <2>2, EmptySeq
  <2>4. Head(q) = q[1]
    BY <2>1, HeadTailProperties
  <2>5. q = <<Head(q)>>
    BY <1>2, <2>4, SeqEqual, HeadTailProperties, <2>1
  <2>. QED
    BY <2>1, <2>3, <2>4, <2>5
<1>3. \A e : Append(<<>>, e) = <<e>>
  OBVIOUS
<1>4. ASSUME Len(q) <= 1, q # <<>>
      PROVE  Len(q) = 1
  <2>1. Len(q) \in Nat /\ Len(q) # 0
    BY <1>1, <1>4, Zenon
  <2>. QED
    BY <1>4, <2>1
<1>. QED
  BY <1>2, <1>3, <1>4

-----------------------------------------------------------------------------
(* Steps of the sender *)

\* The sender's side of StopAndWait after it wrote, when nothing else was
\* under way.
LEMMA RetryInStep ==
  ASSUME TypeInv, StopAndWait, sphase \notin SenderFinal,
         fwd = <<>>, rev' = <<>>, UNCHANGED <<rphase, buffer>>,
         rphase = "idle" => sphase = "handshake",
         Retry
  PROVE  StopAndWait' /\ sphase' # "done"
<1>1. sphase \in {"handshake", "block", "eot"}
  BY DEF TypeInv, TypeOK, SenderPhases
<1>2. NoAck(rev')
  BY NoAckFacts
<1>3. CASE sphase' = "failed"
  <2>1. fwd' = <<>>
    BY <1>1, <1>3 DEF Retry, Exhausted, Count
  <2>. QED
    BY <1>2, <1>3, <2>1 DEF StopAndWait, SenderFinal
<1>4. CASE sphase' = sphase
  <2>1. block' = block
    BY DEF Retry, Exhausted, Count
  <2>2. CASE sphase = "handshake"
    <3>1. fwd' = <<>>
      BY <1>4, <2>2 DEF Retry, Exhausted, Count
    <3>. QED
      BY <1>2, <1>4, <2>2, <3>1, EmptySeq DEF StopAndWait, SenderFinal
  <2>3. CASE sphase = "block"
    <3>1. fwd' = <<Frame(block, use_crc)>>
      BY <1>4, <2>3, OneToken DEF Retry, Exhausted, Count
    <3>. QED
      BY <1>2, <1>4, <2>1, <2>3, <3>1 DEF StopAndWait, SenderFinal, Frame
  <2>4. CASE sphase = "eot"
    <3>1. fwd' = <<Ctl("EOT")>>
      BY <1>4, <2>4, OneToken DEF Retry, Exhausted, Count
    <3>. QED
      BY <1>2, <1>4, <2>1, <2>4, <3>1 DEF StopAndWait, SenderFinal, Ctl
  <2>. QED
    BY <1>1, <2>2, <2>3, <2>4
<1>. QED
  BY <1>1, <1>3, <1>4 DEF Retry, Exhausted, Count

\* A transmission follows the block the receiver has just taken.
LEMMA TransmitInStep ==
  ASSUME TypeInv, fwd = <<>>, rev' = <<>>, UNCHANGED <<rphase, buffer>>, rphase = "run",
         NEW b \in 1..(NBlocks + 1), NEW c, Len(buffer) = b - 1, Transmit(b, c)
  PROVE  StopAndWait' /\ sphase' # "done"
<1>1. NoAck(rev')
  BY NoAckFacts
<1>2. CASE b <= NBlocks /\ sphase' = "block" /\ fwd' = Append(fwd, Frame(b, c))
  <2>1. fwd' = <<Frame(b, c)>> /\ block' = b
    BY <1>2, OneToken DEF Transmit
  <2>. QED
    BY <1>1, <1>2, <2>1 DEF StopAndWait, SenderFinal, Frame
<1>3. CASE b > NBlocks /\ sphase' = "eot" /\ fwd' = Append(fwd, Ctl("EOT"))
  <2>1. fwd' = <<Ctl("EOT")>> /\ block' = b
    BY <1>3, OneToken DEF Transmit
  <2>2. Len(buffer') = NBlocks
    BY <1>3, ConstantsAssumption
  <2>. QED
    BY <1>1, <1>3, <2>1, <2>2 DEF StopAndWait, SenderFinal, Ctl
<1>. QED
  BY <1>2, <1>3 DEF Transmit

\* The sender reads a reply.
LEMMA SenderReadsCalm ==
  ASSUME TypeInv, CalmInv, SenderReads
  PROVE  CalmInv'
<1>1. UNCHANGED <<rphase, expected_block, buffer, stream>>
  BY DEF SenderReads, receiverVars
<1>2. rev # <<>> /\ rev' = Tail(rev) /\ sphase \notin SenderFinal
  BY DEF SenderReads, SenderHandshake, SenderAnswer, Acknowledges, SenderEotAnswer, SenderFinal
<1>3. CASE rphase \in {"idle", "run"}
  <2>1. /\ StopAndWait /\ rphase = "run"
        /\ fwd = <<>> /\ Len(rev) = 1 /\ rev' = <<>>
    BY <1>2, <1>3, OneToken DEF CalmInv, StopAndWait, TypeInv, TypeOK
  <2>2. ASSUME Retry
        PROVE  StopAndWait' /\ sphase' # "done"
    BY <1>1, <1>2, <2>1, <2>2, RetryInStep
  <2>3. ASSUME SenderCancelled
        PROVE  StopAndWait' /\ sphase' # "done"
    BY <1>1, <2>1, <2>3, NoAckFacts DEF StopAndWait, SenderCancelled, SenderFinal
  <2>4. StopAndWait' /\ sphase' # "done"
    <3>1. CASE SenderHandshake
      <4>1. Len(buffer) = 1 - 1 /\ 1 \in 1..(NBlocks + 1)
        BY <2>1, <3>1, ConstantsAssumption DEF SenderHandshake, StopAndWait
      <4>2. ASSUME Transmit(1, use_crc')
            PROVE  StopAndWait' /\ sphase' # "done"
        BY <1>1, <2>1, <4>1, <4>2, TransmitInStep
      <4>. QED
        BY <2>2, <2>3, <3>1, <4>2 DEF SenderHandshake
    <3>2. CASE SenderAnswer
      <4>1. ASSUME Head(rev) = "ACK", Transmit(block + 1, use_crc)
            PROVE  StopAndWait' /\ sphase' # "done"
        <5>1. Len(buffer) = block
          BY <1>2, <2>1, <3>2, <4>1, NoAckFacts DEF SenderAnswer, Acknowledges, StopAndWait
        <5>2. block + 1 \in 1..(NBlocks + 1) /\ Len(buffer) = (block + 1) - 1
          BY <3>2, <5>1, ConstantsAssumption DEF SenderAnswer, Acknowledges, TypeInv, TypeOK
        <5>. QED
          BY <1>1, <2>1, <4>1, <5>2, TransmitInStep
      <4>. QED
        BY <2>2, <2>3, <3>2, <4>1 DEF SenderAnswer, Acknowledges
    <3>3. CASE SenderEotAnswer
      <4>1. Head(rev) # "ACK"
        BY <1>2, <2>1, <3>3, NoAckFacts DEF SenderEotAnswer, Acknowledges, StopAndWait
      <4>. QED
        BY <2>2, <2>3, <3>3, <4>1 DEF SenderEotAnswer, Acknowledges
    <3>. QED
      BY <3>1, <3>2, <3>3 DEF SenderReads
  <2>. QED
    BY <1>1, <1>3, <2>1, <2>4 DEF CalmInv, PrefixInv, PrefixDelivered
<1>4. CASE rphase = "done"
  BY <1>1, <1>4 DEF CalmInv, PrefixInv, PrefixDelivered
<1>5. CASE rphase = "timeout"
  <2>1. Head(rev) # "ACK" /\ NoAck(rev')
    BY <1>2, <1>5, NoAckFacts DEF CalmInv
  <2>2. sphase' # "done"
    BY <2>1, <1>2 DEF SenderReads, SenderHandshake, SenderAnswer, Acknowledges, SenderEotAnswer,
       Transmit, Retry, Exhausted, Count, SenderCancelled, SenderFinal
  <2>. QED
    BY <1>1, <1>5, <2>1, <2>2 DEF CalmInv, PrefixInv, PrefixDelivered
<1>. QED
  BY <1>3, <1>4, <1>5 DEF CalmInv

\* The sender's timer expires.
LEMMA SenderTimeoutCalm ==
  ASSUME Calm, TypeInv, CalmInv, SenderTimeout
  PROVE  CalmInv'
<1>1. UNCHANGED <<rphase, expected_block, buffer, stream, rev>> /\ sphase \notin SenderFinal
  BY DEF SenderTimeout, receiverVars
<1>2. Quiet
  BY DEF Calm, SenderTimeout, TimerFires, TypeInv, TypeOK
<1>3. Retry
  BY DEF SenderTimeout
<1>4. sphase' # "done"
  BY <1>1, <1>3 DEF Retry, Exhausted, Count, SenderFinal
<1>5. CASE rphase \in {"idle", "run"}
  <2>1. fwd = <<>> /\ rev' = <<>>
    BY <1>1, <1>2, <1>5 DEF Quiet, ReceiverFinal
  <2>2. StopAndWait /\ (rphase = "idle" => sphase = "handshake")
    BY <1>1, <1>5 DEF CalmInv, StopAndWait, SenderFinal
  <2>3. StopAndWait'
    BY <1>1, <1>3, <2>1, <2>2, RetryInStep
  <2>. QED
    BY <1>1, <1>4, <1>5, <2>3 DEF CalmInv, PrefixInv, PrefixDelivered
<1>6. CASE rphase \notin {"idle", "run"}
  BY <1>1, <1>4, <1>6 DEF CalmInv, PrefixInv, PrefixDelivered
<1>. QED
  BY <1>5, <1>6

-----------------------------------------------------------------------------
(* Steps of the receiver *)

\* receive() starts with nothing under way.
LEMMA ReceiverStartCalm ==
  ASSUME TypeInv, CalmInv, ReceiverStart
  PROVE  CalmInv'
<1>1. /\ rphase = "idle" /\ rphase' = "run"
      /\ UNCHANGED <<sphase, block, buffer, expected_block, stream, fwd>>
  BY DEF ReceiverStart, senderVars
<1>2. StopAndWait /\ sphase \in {"handshake", "failed"} /\ rev = <<>> /\ fwd = <<>>
  BY <1>1 DEF CalmInv, StopAndWait, SenderFinal
<1>3. rev' = <<"C">> \/ rev' = <<"NAK">>
  BY <1>2, OneToken DEF ReceiverStart, Reply
<1>4. Len(rev') <= 1 /\ NoAck(rev')
  <2>1. Len(<<"C">>) = 1 /\ Len(<<"NAK">>) = 1
    OBVIOUS
  <2>2. NoAck(<<"C">>) /\ NoAck(<<"NAK">>)
    BY NoAckFacts
  <2>. QED
    BY <1>3, <2>1, <2>2
<1>5. StopAndWait'
  BY <1>1, <1>2, <1>4 DEF StopAndWait, SenderFinal
<1>. QED
  BY <1>1, <1>2, <1>5 DEF CalmInv, PrefixInv, PrefixDelivered

\* A good frame is the block under way: new if the receiver lacks it,
\* otherwise the last one again, and never out of sequence.
LEMMA ReceiveBlockCalm ==
  ASSUME TypeInv, PrefixInv, sphase = "block", Len(buffer) \in {block - 1, block},
         Head(fwd).blk = block, ReceiveBlock
  PROVE  /\ rev' = Append(rev, "ACK")
         /\ Len(buffer') = block
         /\ rphase' = rphase /\ stream' = stream /\ fwd' = Tail(fwd)
         /\ PrefixInv'
<1>. DEFINE n == Len(buffer)
<1>1. /\ n \in Nat /\ block \in 1..NBlocks /\ block \in Nat
      /\ buffer \in Seq(1..NBlocks)
  BY LenProperties, ConstantsAssumption DEF TypeInv, TypeOK
<1>2. expected_block = Number(n + 1)
  BY DEF PrefixInv, NextNumber, Number
<1>3. stream' = stream /\ fwd' = Tail(fwd)
  BY DEF ReceiveBlock, IsDuplicate, IsNext, Raise
<1>4. CASE n = block
  <2>1. Number(block) = PrevNumber(expected_block)
    BY <1>1, <1>2, <1>4, PrevOfNext
  <2>2. UNCHANGED <<rphase, expected_block, buffer>> /\ rev' = Append(rev, "ACK")
    BY <2>1 DEF ReceiveBlock, IsDuplicate, IsNext, Raise, Reply
  <2>. QED
    BY <1>3, <1>4, <2>2 DEF PrefixInv, PrefixDelivered
<1>5. CASE n = block - 1
  <2>1. Number(block) = expected_block
    BY <1>1, <1>2, <1>5
  <2>2. PrevNumber(expected_block) = Number(n) /\ Number(n + 1) # Number(n)
    BY <1>1, <1>2, PrevOfNext
  <2>3. Number(block) # PrevNumber(expected_block)
    BY <1>2, <2>1, <2>2
  <2>4. /\ buffer' = Append(buffer, block)
        /\ expected_block' = NextNumber(expected_block)
        /\ rphase' = rphase /\ rev' = Append(rev, "ACK")
    BY <2>1, <2>3 DEF ReceiveBlock, IsDuplicate, IsNext, Raise, Reply
  <2>5. /\ Len(buffer') = n + 1
        /\ \A i \in 1..n : buffer'[i] = buffer[i]
        /\ buffer'[n + 1] = block
    BY <1>1, <2>4, AppendProperties
  <2>6. expected_block' = NextNumber(n + 1)
    BY <1>1, <1>2, <2>4, NextOfNumber DEF Number, NextNumber
  <2>7. \A i \in 1..(n + 1) : buffer'[i] = i
    BY <1>1, <1>5, <2>5 DEF PrefixInv, PrefixDelivered
  <2>8. n + 1 = block
    BY <1>1, <1>5
  <2>. QED
    BY <1>3, <2>4, <2>5, <2>6, <2>7, <2>8 DEF PrefixInv, PrefixDelivered
<1>. QED
  BY <1>4, <1>5

\* The receiver reads what is under way.
LEMMA ReceiverReadsCalm ==
  ASSUME TypeInv, CalmInv, ReceiverReads
  PROVE  CalmInv'
<1>1. fwd # <<>> /\ rphase = "run" /\ UNCHANGED <<sphase, block>>
  BY DEF ReceiverReads, CalmInv, senderVars
<1>2. /\ StopAndWait /\ sphase \in {"block", "eot"}
      /\ Len(fwd) = 1 /\ rev = <<>> /\ Tail(fwd) = <<>> /\ Head(fwd) = fwd[1]
  BY <1>1, OneToken DEF CalmInv, StopAndWait, TypeInv, TypeOK, SenderPhases
<1>3. /\ sphase = "block" => /\ Head(fwd).kind = "FRAME" /\ Head(fwd).blk = block
                             /\ Head(fwd).wire \in {"whole", "damaged"}
      /\ sphase = "eot" => Head(fwd).kind = "EOT"
  <2>1. 1 \in 1..Len(fwd)
    BY <1>2
  <2>. QED
    BY <1>2, <2>1 DEF StopAndWait
<1>4. CASE sphase = "eot"
  <2>1. ReceiveEot
    BY <1>1, <1>3, <1>4 DEF ReceiverReads, ReceiveCan, ReceiveJunk, Count, Raise, ReceiveDamaged, ReceiveBlock, IsDuplicate, IsNext
  <2>2. buffer = File
    <3>1. Len(buffer) = NBlocks /\ buffer \in Seq(1..NBlocks)
      BY <1>2, <1>4 DEF StopAndWait, TypeInv, TypeOK
    <3>2. \A i \in 1..NBlocks : buffer[i] = i
      BY <3>1 DEF CalmInv, PrefixInv, PrefixDelivered
    <3>3. buffer = [i \in 1..NBlocks |-> buffer[i]]
      BY <3>1, LenProperties
    <3>. QED
      BY <3>2, <3>3 DEF File
  <2>3. /\ rphase' = "done" /\ stream' = File /\ sphase' # "done"
        /\ UNCHANGED <<expected_block, buffer>>
    BY <1>1, <1>4, <2>1, <2>2 DEF ReceiveEot, Commit
  <2>. QED
    BY <2>3 DEF CalmInv, PrefixInv, PrefixDelivered, File
<1>5. CASE sphase = "block"
  <2>1. CASE ReceiveDamaged
    <3>1. /\ fwd' = <<>> /\ rev' = Append(rev, "NAK")
          /\ UNCHANGED <<rphase, expected_block, buffer, stream>>
      <4>1. fwd' = <<>> \/ fwd' = Tail(fwd)
        BY <1>2, <1>3, <1>5, <2>1 DEF ReceiveDamaged, Count
      <4>. QED
        BY <1>2, <2>1, <4>1 DEF ReceiveDamaged, Count, Reply
    <3>2. rev' = <<"NAK">> /\ NoAck(rev')
      BY <1>2, <3>1, OneToken, NoAckFacts
    <3>3. StopAndWait'
      BY <1>1, <1>2, <1>5, <3>1, <3>2 DEF StopAndWait, SenderFinal
    <3>. QED
      BY <1>1, <1>5, <3>1, <3>3 DEF CalmInv, PrefixInv, PrefixDelivered
  <2>2. CASE ReceiveBlock
    <3>1. /\ rev' = Append(rev, "ACK") /\ Len(buffer') = block
          /\ rphase' = rphase /\ stream' = stream /\ fwd' = <<>>
          /\ PrefixInv'
      BY <1>2, <1>3, <1>5, <2>2, ReceiveBlockCalm DEF CalmInv, StopAndWait
    <3>2. rev' = <<"ACK">>
      BY <1>2, <3>1, OneToken
    <3>3. StopAndWait'
      <4>1. Len(rev') <= 1 /\ Len(fwd') = 0
        BY <3>1, <3>2, EmptySeq
      <4>. QED
        BY <1>1, <1>5, <3>1, <4>1 DEF StopAndWait, SenderFinal
    <3>. QED
      BY <1>1, <1>5, <3>1, <3>3 DEF CalmInv
  <2>. QED
    BY <1>1, <1>3, <1>5, <2>1, <2>2 DEF ReceiverReads, ReceiveEot, Commit, ReceiveCan, ReceiveJunk, Count, Raise
<1>. QED
  BY <1>2, <1>4, <1>5

\* The receiver's timer expires.
LEMMA ReceiverTimeoutCalm ==
  ASSUME Calm, TypeInv, CalmInv, ReceiverTimeout
  PROVE  CalmInv'
<1>1. /\ rphase = "run" /\ rphase' \in {"run", "timeout"}
      /\ UNCHANGED <<sphase, block, expected_block, buffer, stream, fwd>>
      /\ rphase' = "timeout" => rev' = rev
      /\ rphase' = "run" => rev' = Append(rev, "NAK")
  BY DEF ReceiverTimeout, Count, Raise, CalmInv, senderVars, Reply
<1>2. Quiet
  BY DEF Calm, ReceiverTimeout, Count, Raise, TimerFires, TypeInv, TypeOK
<1>3. StopAndWait /\ fwd = <<>> /\ (rev = <<>> \/ sphase \in SenderFinal)
  BY <1>1, <1>2 DEF CalmInv, Quiet, ReceiverFinal
<1>4. NoAck(rev) /\ sphase # "done"
  BY <1>1, <1>3, NoAckFacts DEF CalmInv, StopAndWait
<1>5. NoAck(rev')
  BY <1>1, <1>4, NoAckFacts DEF Replies
<1>6. ASSUME rev = <<>>
      PROVE  Len(rev') <= 1
  <2>1. rev' = <<>> \/ rev' = <<"NAK">>
    BY <1>1, <1>6, OneToken
  <2>2. CASE rev' = <<>>
    BY <2>2, EmptySeq
  <2>3. CASE rev' = <<"NAK">>
    BY <2>3
  <2>. QED
    BY <2>1, <2>2, <2>3
<1>7. rphase' = "run" => StopAndWait'
  BY <1>1, <1>3, <1>5, <1>6 DEF StopAndWait
<1>. QED
  BY <1>1, <1>4, <1>5, <1>7 DEF CalmInv, PrefixInv, PrefixDelivered

-----------------------------------------------------------------------------
(* Steps of the line *)

\* A frame under way is lost or damaged.
LEMMA ForwardFaultCalm ==
  ASSUME Calm, TypeInv, CalmInv, ForwardFault
  PROVE  CalmInv'
<1>1. /\ fwd # <<>> /\ rphase \notin ReceiverFinal
      /\ UNCHANGED <<sphase, block, rphase, expected_block, buffer, stream, rev>>
  BY DEF ForwardFault, senderVars, receiverVars
<1>2. /\ StopAndWait /\ sphase \in {"block", "eot"} /\ rphase = "run"
      /\ Len(fwd) = 1 /\ rev = <<>> /\ Tail(fwd) = <<>> /\ Head(fwd) = fwd[1]
  BY <1>1, OneToken DEF CalmInv, StopAndWait, TypeInv, TypeOK, SenderPhases,
     SenderFinal, ReceiverFinal
<1>3. \/ fwd' = Tail(fwd)
      \/ /\ Head(fwd).kind = "FRAME"
         /\ fwd' = << [Head(fwd) EXCEPT !.wire = "damaged"] >> \o Tail(fwd)
  BY DEF Calm, ForwardFault
<1>4. StopAndWait'
  <2>1. CASE fwd' = Tail(fwd)
    <3>1. fwd' = <<>> /\ Len(fwd') = 0 /\ Len(rev) = 0
      BY <1>2, <2>1, EmptySeq
    <3>. QED
      BY <1>1, <1>2, <3>1 DEF StopAndWait, SenderFinal
  <2>2. CASE /\ Head(fwd).kind = "FRAME"
             /\ fwd' = << [Head(fwd) EXCEPT !.wire = "damaged"] >> \o Tail(fwd)
    <3>. DEFINE d == [Head(fwd) EXCEPT !.wire = "damaged"]
    <3>1. sphase = "block" /\ Head(fwd).blk = block
      <4>1. 1 \in 1..Len(fwd)
        BY <1>2
      <4>. QED
        BY <1>2, <2>2, <4>1 DEF StopAndWait
    <3>2. Head(fwd) \in FrameTokens
      BY <1>1, <2>2, LineReads DEF TypeInv, Tokens, CtlTokens, CtlKinds
    <3>3. d.kind = "FRAME" /\ d.blk = block /\ d.wire = "damaged"
      BY <3>1, <3>2 DEF FrameTokens
    <3>4. fwd' = <<d>>
      <4>1. <<d>> \in Seq({d})
        OBVIOUS
      <4>. QED
        BY <1>2, <2>2, <4>1, ConcatEmptySeq
    <3>. HIDE DEF d
    <3>5. Len(fwd') = 1 /\ fwd'[1] = d
      BY <3>4
    <3>. QED
      BY <1>1, <1>2, <3>1, <3>3, <3>5 DEF StopAndWait, SenderFinal
  <2>. QED
    BY <1>3, <2>1, <2>2
<1>. QED
  BY <1>1, <1>2, <1>4 DEF CalmInv, PrefixInv, PrefixDelivered

\* A reply is lost, or becomes a byte that is no ACK.
LEMMA ReverseFaultCalm ==
  ASSUME TypeInv, CalmInv, ReverseFault
  PROVE  CalmInv'
<1>1. /\ rev # <<>> /\ sphase \notin SenderFinal
      /\ UNCHANGED <<sphase, block, rphase, expected_block, buffer, stream, fwd>>
  BY DEF ReverseFault, senderVars, receiverVars
<1>2. /\ rev \in Seq(Replies) /\ Tail(rev) \in Seq(Replies)
      /\ Len(Tail(rev)) = Len(rev) - 1
      /\ \A i \in 1..Len(Tail(rev)) : Tail(rev)[i] = rev[i + 1]
      /\ Len(rev) \in Nat /\ Len(rev) # 0
  BY <1>1, HeadTailProperties, LenProperties, EmptySeq DEF TypeInv, TypeOK
<1>3. \/ rev' = Tail(rev)
      \/ \E k \in CtlKinds : rev' = <<k>> \o Tail(rev)
  BY ConstantsAssumption DEF ReverseFault
<1>4. Len(rev') <= Len(rev) /\ (NoAck(rev) => NoAck(rev'))
  <2>1. CASE rev' = Tail(rev)
    BY <1>2, <2>1 DEF NoAck
  <2>2. ASSUME NEW k \in CtlKinds, rev' = <<k>> \o Tail(rev)
        PROVE  Len(rev') <= Len(rev) /\ (NoAck(rev) => NoAck(rev'))
    <3>1. /\ Len(rev') = Len(rev)
          /\ rev'[1] = k
          /\ \A i \in 2..Len(rev) : rev'[i] = rev[i]
      BY <1>2, <2>2
    <3>2. k # "ACK"
      BY <2>2 DEF CtlKinds
    <3>. QED
      BY <1>2, <3>1, <3>2 DEF NoAck
  <2>. QED
    BY <1>3, <2>1, <2>2
<1>5. StopAndWait => StopAndWait'
  <2>1. Len(rev') \in Nat
    BY <1>2, <1>3
  <2>. QED
    BY <1>1, <1>2, <1>4, <2>1, EmptySeq DEF StopAndWait, SenderFinal
<1>. QED
  BY <1>1, <1>4, <1>5 DEF CalmInv, PrefixInv, PrefixDelivered

-----------------------------------------------------------------------------
(* The theorems *)

\* The two ends start in step.
LEMMA InitCalm == Init => CalmInv
<1>. SUFFICES ASSUME Init
              PROVE  CalmInv
  OBVIOUS
<1>1. Len(<<>>) = 0 /\ NoAck(<<>>)
  BY EmptySeq DEF NoAck
<1>2. PrefixInv
  BY <1>1, NumberBelowWrap, ConstantsAssumption
  DEF Init, PrefixInv, PrefixDelivered, NextNumber, Number
<1>3. StopAndWait
  BY <1>1 DEF Init, StopAndWait, SenderFinal
<1>. QED
  BY <1>2, <1>3 DEF Init, CalmInv

\* And stay in step.
LEMMA NextCalm ==
  ASSUME Calm
  PROVE  TypeInv /\ CalmInv /\ [Next]_vars => CalmInv'
<1>. SUFFICES ASSUME TypeInv, CalmInv, [Next]_vars
              PROVE  CalmInv'
  OBVIOUS
<1>1. CASE UNCHANGED vars
  BY <1>1 DEF vars, senderVars, receiverVars, CalmInv, PrefixInv, PrefixDelivered,
     StopAndWait, NoAck
<1>. QED
  BY <1>1, SenderReadsCalm, SenderTimeoutCalm, ReceiverStartCalm, ReceiverReadsCalm,
     ReceiverTimeoutCalm, ForwardFaultCalm, ReverseFaultCalm
  DEF Next

\* With calm timers on a line that loses and damages frames, the ends move in
\* step through a file of any length, past any number of wraps.
THEOREM CalmInvariant ==
  ASSUME Calm
  PROVE  Spec => []CalmInv
BY InitType, NextType, InitCalm, NextCalm, PTL DEF Spec

\* Then receive() returns with the whole file or raises with none of it ...
THEOREM NothingTruncated ==
  ASSUME Calm
  PROVE  Spec => []NoSilentTruncation
<1>1. CalmInv => NoSilentTruncation
  BY DEF CalmInv, NoSilentTruncation
<1>. QED
  BY <1>1, CalmInvariant, PTL

\* ... and send() returns only after it.
THEOREM SuccessMeansDelivered ==
  ASSUME Calm
  PROVE  Spec => []SuccessIsMutual
<1>1. CalmInv => SuccessIsMutual
  BY DEF CalmInv, SuccessIsMutual
<1>. QED
  BY <1>1, CalmInvariant, PTL

\* A step of the protocol is a step of the promise, or none.
LEMMA StepKeepsPromise ==
  ASSUME TypeInv, CalmInv, CalmInv', [Next]_vars
  PROVE  [Transfer!Next]_(Transfer!vars)
<1>1. CASE UNCHANGED <<sphase, rphase>>
  <2>1. stream' = stream
    BY <1>1 DEF CalmInv
  <2>. QED
    BY <1>1, <2>1 DEF Transfer!vars
<1>2. CASE sphase' # sphase
  <2>1. SenderReads \/ SenderTimeout
    BY <1>2 DEF Next, vars, senderVars, receiverVars, ReceiverStart, ReceiverReads,
       ReceiverTimeout, Count, Raise, ForwardFault, ReverseFault
  <2>2. UNCHANGED <<rphase, stream>> /\ sphase \notin SenderFinal
    BY <2>1 DEF SenderReads, SenderTimeout, receiverVars, SenderHandshake,
       SenderAnswer, Acknowledges, SenderEotAnswer, SenderFinal
  <2>3. sphase' = "done" => rphase = "done"
    BY <2>2 DEF CalmInv
  <2>4. CASE sphase' = "done"
    BY <2>2, <2>3, <2>4 DEF Transfer!Next, Transfer!ConfirmSend, SenderFinal, ReceiverFinal
  <2>5. CASE sphase' \in SenderFinal \ {"done"}
    BY <2>2, <2>5 DEF Transfer!Next, Transfer!AbandonSend, SenderFinal, ReceiverFinal
  <2>6. CASE sphase' \notin SenderFinal
    BY <2>2, <2>6 DEF Transfer!vars, SenderFinal, ReceiverFinal
  <2>. QED
    BY <2>4, <2>5, <2>6 DEF SenderFinal
<1>3. CASE sphase' = sphase /\ rphase' # rphase
  <2>1. ReceiverStart \/ ReceiverReads \/ ReceiverTimeout
    BY <1>3 DEF Next, vars, senderVars, receiverVars, SenderReads, SenderTimeout,
       ForwardFault, ReverseFault
  <2>2. rphase \in {"idle", "run"} /\ stream = <<>>
    BY <2>1 DEF ReceiverStart, ReceiverReads, ReceiverTimeout, Count, Raise, CalmInv
  <2>3. rphase' \in {"idle", "run", "done", "timeout"}
        /\ stream' = IF rphase' = "done" THEN File ELSE <<>>
    BY DEF CalmInv, File
  <2>4. CASE rphase' = "done"
    BY <1>3, <2>2, <2>3, <2>4 DEF Transfer!Next, Transfer!Deliver, SenderFinal, ReceiverFinal, File
  <2>5. CASE rphase' = "timeout"
    BY <1>3, <2>2, <2>3, <2>5 DEF Transfer!Next, Transfer!AbandonReceive, SenderFinal, ReceiverFinal
  <2>6. CASE rphase' \in {"idle", "run"}
    BY <1>3, <2>2, <2>3, <2>6 DEF Transfer!vars, SenderFinal, ReceiverFinal
  <2>. QED
    BY <2>3, <2>4, <2>5, <2>6
<1>. QED
  BY <1>1, <1>2, <1>3

\* The protocol implements FileTransfer: whatever the length of the file, the
\* retry limit and the number of faults.
THEOREM PromiseKept ==
  ASSUME Calm
  PROVE  Spec => KeepsPromise
<1>1. Init => Transfer!Init
  BY DEF Init, Transfer!Init, SenderFinal, ReceiverFinal
<1>2. TypeInv /\ CalmInv /\ CalmInv' /\ [Next]_vars => [Transfer!Next]_(Transfer!vars)
  BY StepKeepsPromise
<1>3. Spec => []TypeInv
  BY InitType, NextType, PTL DEF Spec
<1>. QED
  BY <1>1, <1>2, <1>3, CalmInvariant, PTL DEF Spec, KeepsPromise, Transfer!Spec

-----------------------------------------------------------------------------
(* Timers that do not wait.  An ACK does not say what it acknowledges, so    *)
(* the proof counts: what is under way is bounded by the early timers, each  *)
(* of which adds a frame or a reply, and the sender is ahead of the receiver *)
(* only by what is under way, or was and is lost.                            *)

\* The line spoils what it carries, but leaves each frame one frame.
FramesKept == FwdFaults \subseteq {"lose", "damage", "rewrite"}

\* A token's place in the file, EOT's being after it.
Place(t) == IF t.kind = "FRAME" THEN t.blk ELSE NBlocks + 1

\* From each token of q to b the places go up by one at most.
Climbs(q, b) == \A k \in 1..Len(q) : Place(q[k]) <= b /\ b <= Place(q[k]) + Len(q) - k

\* No frame follows what was an EOT.
EndsOnce(q) ==
  \A j, k \in 1..Len(q) : j < k /\ q[j].kind # "FRAME" => q[k].kind # "FRAME"

AckPlaces(q) == {i \in 1..Len(q) : q[i] = "ACK"}
Acks(q) == Cardinality(AckPlaces(q))

\* What is on the line is of the file up to the sender's block, in order.
OrderInv ==
  /\ Climbs(fwd, block) /\ EndsOnce(fwd)
  /\ sphase = "handshake" => block = 1 /\ fwd = <<>> /\ Acks(rev) = 0
  /\ sphase = "eot" => block = NBlocks + 1
  /\ rphase = "can" => /\ block = NBlocks + 1
                       /\ \A k \in 1..Len(fwd) : fwd[k].kind # "FRAME"
  /\ rphase = "idle" => /\ sphase \in {"handshake", "failed"}
                        /\ Len(fwd) = 0 /\ Len(rev) = 0

\* One frame or reply is under way, and one more for each early timer; and
\* every ACK under way counts for the block it will move the sender to.
CountInv ==
  /\ rphase \notin ReceiverFinal => Len(fwd) <= 1 + late
  /\ rphase \notin ReceiverFinal /\ sphase \notin SenderFinal =>
       Len(fwd) + Len(rev) <= 1 + late
  /\ sphase = "block" => block + Acks(rev) <= Len(buffer) + 1 + late
  /\ block <= Len(buffer) + 1 + late
  /\ Len(buffer) <= block

\* A sender with the wrong check gets no ACK, and stays in its first block.
Mismatch == CrcMode /\ ~use_crc /\ NBlocks > 0

ModeInv ==
  /\ \A k \in 1..Len(fwd) : fwd[k].kind = "FRAME" =>
       /\ fwd[k].crc = use_crc
       /\ fwd[k].wire # "long"
       /\ fwd[k].wire = "short" => Mismatch
  /\ Mismatch =>
       /\ block = 1 /\ sphase # "eot" /\ Acks(rev) = 0
       /\ \A k \in 1..Len(fwd) : fwd[k].kind = "FRAME" /\ fwd[k].blk = 1

AckInv == TypeInv /\ PrefixInv /\ OrderInv /\ CountInv /\ ModeInv

-----------------------------------------------------------------------------
(* ACKs, counted *)

\* Their number is a number, and none where there is no reply.
LEMMA AcksNumber ==
  ASSUME NEW q \in Seq(Replies)
  PROVE  /\ IsFiniteSet(AckPlaces(q))
         /\ Acks(q) \in Nat /\ Acks(q) <= Len(q)
         /\ q = <<>> => Acks(q) = 0
         /\ Acks(q) = 0 => \A i \in 1..Len(q) : q[i] # "ACK"
<1>1. Len(q) \in Nat
  BY LenProperties
<1>2. IsFiniteSet(1..Len(q)) /\ Cardinality(1..Len(q)) = Len(q)
  BY <1>1, FS_Interval
<1>3. AckPlaces(q) \in SUBSET (1..Len(q))
  BY DEF AckPlaces
<1>4. /\ IsFiniteSet(AckPlaces(q)) /\ Acks(q) <= Len(q)
  BY <1>2, <1>3, FS_Subset DEF Acks
<1>5. Acks(q) \in Nat
  BY <1>4, FS_CardinalityType DEF Acks
<1>6. Acks(q) = 0 <=> AckPlaces(q) = {}
  BY <1>4, FS_EmptySet DEF Acks
<1>7. q = <<>> => AckPlaces(q) = {}
  BY DEF AckPlaces
<1>. QED
  BY <1>4, <1>5, <1>6, <1>7 DEF AckPlaces

\* A reply that joins the queue is one more if it is an ACK.
LEMMA AcksAppend ==
  ASSUME NEW q \in Seq(Replies), NEW b \in Replies
  PROVE  /\ b = "ACK" => Acks(Append(q, b)) = Acks(q) + 1
         /\ b # "ACK" => Acks(Append(q, b)) = Acks(q)
<1>. DEFINE n == Len(q)
            r == Append(q, b)
<1>1. /\ n \in Nat /\ Len(r) = n + 1 /\ r[n + 1] = b
      /\ \A i \in 1..n : r[i] = q[i]
  BY LenProperties, AppendProperties
<1>. HIDE DEF n, r
<1>2. 1..(n + 1) = (1..n) \cup {n + 1}
  BY <1>1
<1>3. Len(q) = n
  BY DEF n
<1>4. b = "ACK" => AckPlaces(r) = AckPlaces(q) \cup {n + 1}
  BY <1>1, <1>2, <1>3, Zenon DEF AckPlaces
<1>5. b # "ACK" => AckPlaces(r) = AckPlaces(q)
  BY <1>1, <1>2, <1>3 DEF AckPlaces
<1>6. n + 1 \notin AckPlaces(q)
  BY <1>1, <1>3 DEF AckPlaces
<1>. QED
  BY <1>4, <1>5, <1>6, AcksNumber, FS_AddElement DEF Acks, r

\* The reply that leaves it is one less.
LEMMA AcksTail ==
  ASSUME NEW q \in Seq(Replies), q # <<>>
  PROVE  /\ Head(q) = "ACK" => Acks(q) = Acks(Tail(q)) + 1
         /\ Head(q) # "ACK" => Acks(q) = Acks(Tail(q))
<1>. DEFINE n == Len(q)
            r == Tail(q)
            S == AckPlaces(q) \ {1}
            f == [i \in AckPlaces(r) |-> i + 1]
<1>1. /\ n \in Nat \ {0} /\ Len(r) = n - 1 /\ r \in Seq(Replies)
      /\ \A i \in 1..(n - 1) : r[i] = q[i + 1]
      /\ Head(q) = q[1]
  BY HeadTailProperties, LenProperties, EmptySeq
<1>2. IsFiniteSet(AckPlaces(r)) /\ IsFiniteSet(AckPlaces(q))
  BY <1>1, AcksNumber
<1>3. Len(q) = n
  OBVIOUS
<1>4. f \in [AckPlaces(r) -> S]
  BY <1>1, <1>3 DEF AckPlaces
<1>5. \A i, j \in AckPlaces(r) : f[i] = f[j] => i = j
  BY DEF AckPlaces
<1>6. \A s \in S : \E i \in AckPlaces(r) : f[i] = s
  <2>. SUFFICES ASSUME NEW s \in S PROVE \E i \in AckPlaces(r) : f[i] = s
    OBVIOUS
  <2>1. s \in 2..n /\ q[s] = "ACK"
    BY <1>1, <1>3 DEF AckPlaces
  <2>2. s - 1 \in AckPlaces(r)
    BY <1>1, <2>1 DEF AckPlaces
  <2>. QED
    BY <2>1, <2>2
<1>7. f \in Bijection(AckPlaces(r), S)
  BY <1>4, <1>5, <1>6 DEF Bijection, Injection, Surjection, IsInjective
<1>8. Cardinality(S) = Acks(r)
  BY <1>2, <1>7, FS_Bijection DEF ExistsBijection, Acks
<1>9. 1 \in AckPlaces(q) <=> Head(q) = "ACK"
  BY <1>1, <1>3 DEF AckPlaces
<1>10. Cardinality(S) = IF 1 \in AckPlaces(q) THEN Acks(q) - 1 ELSE Acks(q)
  BY <1>2, FS_RemoveElement DEF Acks
<1>11. Acks(q) \in Nat
  BY AcksNumber
<1>. QED
  BY <1>8, <1>9, <1>10, <1>11

\* A reply turned into noise adds none.
LEMMA AcksRewrite ==
  ASSUME NEW q \in Seq(Replies), q # <<>>, NEW b \in Replies, b # "ACK"
  PROVE  /\ <<b>> \o Tail(q) \in Seq(Replies)
         /\ Len(<<b>> \o Tail(q)) = Len(q)
         /\ Acks(<<b>> \o Tail(q)) <= Acks(q)
<1>. DEFINE r == <<b>> \o Tail(q)
<1>1. /\ r \in Seq(Replies) /\ Len(r) = Len(q) /\ r # <<>>
      /\ Head(r) = b /\ Tail(r) = Tail(q)
  <2>1. Tail(q) \in Seq(Replies) /\ Len(Tail(q)) = Len(q) - 1 /\ Len(q) \in Nat
    BY HeadTailProperties, LenProperties
  <2>2. <<b>> \in Seq(Replies) /\ Len(<<b>>) = 1
    OBVIOUS
  <2>3. r \in Seq(Replies) /\ Len(r) = Len(q)
    BY <2>1, <2>2, ConcatProperties
  <2>4. r # <<>> /\ Head(r) = b
    BY <2>1, <2>2, <2>3, ConcatProperties, HeadTailProperties, EmptySeq
  <2>5. Tail(r) = Tail(q)
    <3>1. /\ Tail(r) \in Seq(Replies) /\ Len(Tail(r)) = Len(r) - 1
          /\ \A i \in 1..Len(Tail(r)) : Tail(r)[i] = r[i + 1]
      BY <2>3, <2>4, HeadTailProperties
    <3>2. \A i \in 1..Len(Tail(q)) : r[i + 1] = Tail(q)[i]
      BY <2>1, <2>2, ConcatProperties
    <3>. QED
      BY <2>1, <2>3, <3>1, <3>2, SeqEqual
  <2>. QED
    BY <2>3, <2>4, <2>5
<1>2. Acks(r) = Acks(Tail(q))
  BY <1>1, AcksTail
<1>3. Tail(q) \in Seq(Replies)
  BY HeadTailProperties
<1>4. Acks(Tail(q)) \in Nat /\ Acks(q) \in Nat
  BY <1>3, AcksNumber
<1>5. Acks(q) \in {Acks(Tail(q)), Acks(Tail(q)) + 1}
  BY AcksTail, Zenon
<1>. QED
  BY <1>1, <1>2, <1>4, <1>5

-----------------------------------------------------------------------------
(* The order of what is on the line *)

\* Frames are in the file, everything else is after it.
LEMMA PlaceOfToken ==
  ASSUME NEW t \in Tokens
  PROVE  /\ Place(t) \in 1..(NBlocks + 1) /\ Place(t) \in Nat
         /\ t.kind = "FRAME" => t \in FrameTokens /\ Place(t) = t.blk /\ t.blk \in 1..NBlocks
         /\ t.kind # "FRAME" => t \in CtlTokens /\ Place(t) = NBlocks + 1
<1>1. t.kind = "FRAME" => t \in FrameTokens
  BY DEF Tokens, CtlTokens, CtlKinds
<1>2. t.kind # "FRAME" => t \in CtlTokens
  BY DEF Tokens, FrameTokens
<1>3. t \in FrameTokens => t.blk \in 1..NBlocks
  BY DEF FrameTokens
<1>. QED
  BY <1>1, <1>2, <1>3, ConstantsAssumption DEF Place

\* The same once more, or the next: the queue still climbs.
LEMMA ClimbsOn ==
  ASSUME NEW q \in Seq(Tokens), NEW b \in Nat, NEW c \in {b, b + 1},
         NEW t \in Tokens, Place(t) = c, Climbs(q, b)
  PROVE  Climbs(Append(q, t), c)
<1>. DEFINE n == Len(q)
            r == Append(q, t)
<1>1. /\ n \in Nat /\ Len(r) = n + 1 /\ r[n + 1] = t
      /\ \A k \in 1..n : r[k] = q[k]
  BY LenProperties, AppendProperties
<1>2. \A k \in 1..n : Place(q[k]) \in Nat
  BY PlaceOfToken, ElementOfSeq
<1>3. \A k \in 1..n : Place(q[k]) <= b /\ b <= Place(q[k]) + n - k
  BY DEF Climbs
<1>. HIDE DEF n, r
<1>4. ASSUME NEW k \in 1..(n + 1)
      PROVE  Place(r[k]) <= c /\ c <= Place(r[k]) + (n + 1) - k
  <2>1. CASE k = n + 1
    BY <1>1, <2>1
  <2>2. CASE k # n + 1
    <3>1. k \in 1..n
      BY <1>1, <2>2
    <3>2. Place(r[k]) = Place(q[k])
      BY <1>1, <3>1
    <3>. QED
      BY <1>1, <1>2, <1>3, <3>1, <3>2
  <2>. QED
    BY <2>1, <2>2
<1>. QED
  BY <1>1, <1>4 DEF Climbs, r

\* What is left of a queue climbs to the same place.
LEMMA ClimbsTail ==
  ASSUME NEW q \in Seq(Tokens), NEW b \in Nat, q # <<>>
  PROVE  /\ Climbs(q, b) => Climbs(Tail(q), b)
         /\ EndsOnce(q) => EndsOnce(Tail(q))
         /\ Tail(q) \in Seq(Tokens) /\ Len(Tail(q)) = Len(q) - 1 /\ Len(q) \in Nat \ {0}
         /\ Head(q) = q[1] /\ q[1] \in Tokens
         /\ \A k \in 1..(Len(q) - 1) : Tail(q)[k] = q[k + 1]
<1>. DEFINE n == Len(q)
            r == Tail(q)
<1>1. /\ n \in Nat \ {0} /\ Len(r) = n - 1 /\ r \in Seq(Tokens)
      /\ \A k \in 1..(n - 1) : r[k] = q[k + 1]
      /\ Head(q) = q[1] /\ q[1] \in Tokens
  BY HeadTailProperties, LenProperties, EmptySeq, ElementOfSeq
<1>2. \A k \in 1..n : Place(q[k]) \in Nat
  BY PlaceOfToken, ElementOfSeq
<1>3. Climbs(q, b) => \A k \in 1..n : Place(q[k]) <= b /\ b <= Place(q[k]) + n - k
  BY DEF Climbs
<1>4. EndsOnce(q) => \A j, k \in 1..n : j < k /\ q[j].kind # "FRAME" => q[k].kind # "FRAME"
  BY DEF EndsOnce
<1>. HIDE DEF n, r
<1>5. ASSUME Climbs(q, b), NEW k \in 1..(n - 1)
      PROVE  Place(r[k]) <= b /\ b <= Place(r[k]) + (n - 1) - k
  <2>1. k + 1 \in 1..n /\ r[k] = q[k + 1]
    BY <1>1
  <2>2. Place(q[k + 1]) <= b /\ b <= Place(q[k + 1]) + n - (k + 1)
    BY <1>3, <1>5, <2>1
  <2>3. Place(q[k + 1]) \in Nat /\ Place(r[k]) = Place(q[k + 1])
    BY <1>2, <2>1
  <2>. QED
    BY <1>1, <2>2, <2>3
<1>6. ASSUME EndsOnce(q), NEW j \in 1..(n - 1), NEW k \in 1..(n - 1), j < k, r[j].kind # "FRAME"
      PROVE  r[k].kind # "FRAME"
  <2>1. j + 1 \in 1..n /\ k + 1 \in 1..n /\ j + 1 < k + 1
    BY <1>1, <1>6
  <2>2. r[j] = q[j + 1] /\ r[k] = q[k + 1]
    BY <1>1
  <2>. QED
    BY <1>4, <1>6, <2>1, <2>2
<1>7. Climbs(q, b) => Climbs(r, b)
  BY <1>1, <1>5 DEF Climbs
<1>8. EndsOnce(q) => EndsOnce(r)
  BY <1>1, <1>6 DEF EndsOnce
<1>. QED
  BY <1>1, <1>7, <1>8 DEF n, r

\* So does one whose first token changes but keeps its place.
LEMMA ClimbsHead ==
  ASSUME NEW q \in Seq(Tokens), NEW b \in Nat, q # <<>>,
         NEW t \in Tokens, t.kind = "FRAME" <=> q[1].kind = "FRAME", Place(t) = Place(q[1])
  PROVE  /\ Climbs(q, b) => Climbs(<<t>> \o Tail(q), b)
         /\ EndsOnce(q) => EndsOnce(<<t>> \o Tail(q))
         /\ <<t>> \o Tail(q) \in Seq(Tokens) /\ Len(<<t>> \o Tail(q)) = Len(q)
         /\ (<<t>> \o Tail(q))[1] = t
         /\ \A k \in 2..Len(q) : (<<t>> \o Tail(q))[k] = q[k]
<1>. DEFINE n == Len(q)
            r == <<t>> \o Tail(q)
<1>1. /\ n \in Nat \ {0} /\ Len(Tail(q)) = n - 1 /\ Tail(q) \in Seq(Tokens)
      /\ \A k \in 1..(n - 1) : Tail(q)[k] = q[k + 1]
  BY ClimbsTail
<1>2. <<t>> \in Seq(Tokens) /\ Len(<<t>>) = 1 /\ <<t>>[1] = t
  OBVIOUS
<1>3. /\ r \in Seq(Tokens) /\ Len(r) = n
      /\ \A i \in 1..n : r[i] = IF i <= 1 THEN <<t>>[i] ELSE Tail(q)[i - 1]
  BY <1>1, <1>2, ConcatProperties
<1>. HIDE DEF n, r
<1>4. r[1] = t
  BY <1>1, <1>2, <1>3
<1>5. ASSUME NEW k \in 2..n
      PROVE  r[k] = q[k]
  <2>1. k \in 1..n /\ ~(k <= 1) /\ k - 1 \in 1..(n - 1) /\ (k - 1) + 1 = k
    BY <1>1
  <2>2. r[k] = Tail(q)[k - 1]
    BY <1>3, <2>1
  <2>3. Tail(q)[k - 1] = q[(k - 1) + 1]
    BY <1>1, <2>1
  <2>. QED
    BY <2>1, <2>2, <2>3
<1>6. \A k \in 1..n : Place(r[k]) = Place(q[k]) /\ (r[k].kind = "FRAME" <=> q[k].kind = "FRAME")
  <2>1. \A k \in 1..n : k = 1 \/ k \in 2..n
    BY <1>1
  <2>. QED
    BY <1>4, <1>5, <2>1
<1>7. Len(q) = n
  BY DEF n
<1>. QED
  BY <1>3, <1>4, <1>5, <1>6, <1>7 DEF Climbs, EndsOnce, r

-----------------------------------------------------------------------------
(* The steps *)

\* Numbers that every step below uses.
LEMMA AckFacts ==
  ASSUME AckInv
  PROVE  /\ fwd \in Seq(Tokens) /\ rev \in Seq(Replies)
         /\ Len(fwd) \in Nat /\ Len(rev) \in Nat /\ Len(buffer) \in Nat
         /\ block \in 1..(NBlocks + 1) /\ block \in Nat /\ NBlocks \in Nat
         /\ late \in 0..MaxLate /\ late \in Nat /\ MaxLate \in Nat
         /\ Acks(rev) \in Nat /\ Acks(rev) <= Len(rev)
         /\ use_crc \in BOOLEAN /\ CrcMode \in BOOLEAN
         /\ fwd # <<>> <=> Len(fwd) > 0
         /\ rev # <<>> <=> Len(rev) > 0
<1>1. /\ fwd \in Seq(Tokens) /\ rev \in Seq(Replies) /\ buffer \in Seq(1..NBlocks)
      /\ block \in 1..(NBlocks + 1) /\ late \in 0..MaxLate /\ use_crc \in BOOLEAN
  BY DEF AckInv, TypeInv, TypeOK
<1>2. /\ Len(fwd) \in Nat /\ Len(rev) \in Nat /\ Len(buffer) \in Nat
      /\ fwd # <<>> <=> Len(fwd) > 0
      /\ rev # <<>> <=> Len(rev) > 0
  BY <1>1, LenProperties, EmptySeq
<1>. QED
  BY <1>1, <1>2, AcksNumber, ConstantsAssumption

\* What the sender can write: the block or the EOT it waits on, once more or
\* for the first time.
Writes(t) ==
  /\ fwd' = Append(fwd, t)
  /\ \/ sphase' = "block" /\ block' <= NBlocks /\ t = Frame(block', use_crc')
     \/ sphase' = "eot" /\ block' = NBlocks + 1 /\ t = Ctl("EOT")
  /\ \/ sphase = "handshake" /\ block' = 1 /\ use_crc' \in BOOLEAN
     \/ /\ sphase \in {"block", "eot"} /\ sphase' = sphase
        /\ block' = block /\ use_crc' = use_crc
     \/ /\ sphase = "block" /\ ~Mismatch
        /\ block' = block + 1 /\ use_crc' = use_crc

\* Whatever the sender writes, the line stays in order.
LEMMA WritesInOrder ==
  ASSUME AckInv, NEW t, Writes(t), rphase' = rphase, rphase # "idle",
         rev' \in Seq(Replies), Acks(rev') <= Acks(rev)
  PROVE  OrderInv' /\ ModeInv' /\ Len(fwd') = Len(fwd) + 1
<1>. DEFINE n == Len(fwd)
<1>1. /\ n \in Nat /\ fwd \in Seq(Tokens) /\ block \in Nat /\ NBlocks \in Nat
      /\ block \in 1..(NBlocks + 1) /\ Acks(rev) \in Nat
  BY AckFacts
<1>2. /\ block' \in {block, block + 1} /\ block' \in 1..(NBlocks + 1)
      /\ sphase = "handshake" => block = 1 /\ block' = 1 /\ n = 0
  BY <1>1, EmptySeq DEF Writes, AckInv, OrderInv
<1>3. /\ t \in Tokens /\ Place(t) = block'
      /\ t.kind = "FRAME" <=> sphase' = "block"
      /\ t.kind = "FRAME" => t.blk = block' /\ t.crc = use_crc' /\ t.wire = "whole"
      /\ sphase' \in {"block", "eot"}
  <2>1. use_crc' \in BOOLEAN
    BY AckFacts DEF Writes
  <2>2. CASE sphase' = "block"
    <3>1. t = Frame(block', use_crc') /\ block' \in 1..NBlocks
      BY <1>1, <1>2, <2>2 DEF Writes
    <3>2. t \in Tokens
      BY <2>1, <3>1, SentTokens DEF Tokens
    <3>. QED
      BY <2>2, <3>1, <3>2 DEF Frame, Place
  <2>3. CASE sphase' = "eot"
    <3>1. t = Ctl("EOT") /\ block' = NBlocks + 1
      BY <2>3 DEF Writes
    <3>2. t \in Tokens
      BY <3>1, SentTokens DEF Tokens, CtlKinds
    <3>. QED
      BY <2>3, <3>1, <3>2 DEF Ctl, Place
  <2>. QED
    BY <2>2, <2>3 DEF Writes
<1>4. /\ fwd' \in Seq(Tokens) /\ Len(fwd') = n + 1 /\ fwd'[n + 1] = t
      /\ \A k \in 1..n : fwd'[k] = fwd[k]
  BY <1>1, <1>3, AppendProperties DEF Writes
<1>5. \A k \in 1..(n + 1) : k = n + 1 \/ k \in 1..n
  BY <1>1
<1>6. Climbs(fwd', block')
  BY <1>1, <1>2, <1>3, ClimbsOn DEF Writes, AckInv, OrderInv
<1>7. \A k \in 1..n : sphase' = "block" => fwd[k].kind = "FRAME"
  <2>. SUFFICES ASSUME NEW k \in 1..n, sphase' = "block" PROVE fwd[k].kind = "FRAME"
    OBVIOUS
  <2>1. fwd[k] \in Tokens
    BY <1>1, ElementOfSeq
  <2>2. Place(fwd[k]) <= block
    BY DEF AckInv, OrderInv, Climbs
  <2>3. block <= block' /\ block' <= NBlocks
    BY <1>1, <1>2 DEF Writes
  <2>. QED
    BY <1>1, <1>2, <2>1, <2>2, <2>3, PlaceOfToken
<1>. HIDE DEF n
<1>8. EndsOnce(fwd')
  <2>1. \A j, k \in 1..n : j < k /\ fwd[j].kind # "FRAME" => fwd[k].kind # "FRAME"
    BY DEF AckInv, OrderInv, EndsOnce, n
  <2>2. ASSUME NEW j \in 1..(n + 1), NEW k \in 1..(n + 1), j < k, fwd'[j].kind # "FRAME"
        PROVE  fwd'[k].kind # "FRAME"
    <3>1. j \in 1..n
      BY <1>1, <2>2
    <3>2. CASE k = n + 1
      BY <1>3, <1>4, <1>7, <2>2, <3>1, <3>2
    <3>3. CASE k \in 1..n
      BY <1>4, <2>1, <2>2, <3>1, <3>3
    <3>. QED
      BY <1>5, <3>2, <3>3
  <2>. QED
    BY <1>4, <2>2 DEF EndsOnce
<1>9. rphase = "can" => block' = NBlocks + 1 /\ \A k \in 1..Len(fwd') : fwd'[k].kind # "FRAME"
  <2>. SUFFICES ASSUME rphase = "can"
                PROVE  block' = NBlocks + 1 /\ \A k \in 1..Len(fwd') : fwd'[k].kind # "FRAME"
    OBVIOUS
  <2>1. block = NBlocks + 1 /\ \A k \in 1..n : fwd[k].kind # "FRAME"
    BY DEF AckInv, OrderInv, n
  <2>2. block' = NBlocks + 1
    BY <1>1, <1>2, <2>1
  <2>3. sphase' # "block"
    BY <1>1, <2>2 DEF Writes
  <2>. QED
    BY <1>3, <1>4, <1>5, <2>1, <2>2, <2>3
<1>10. OrderInv'
  BY <1>3, <1>6, <1>8, <1>9 DEF OrderInv, Writes
<1>11. Mismatch' =>
         /\ block' = 1 /\ sphase' # "eot" /\ Acks(rev') = 0
         /\ \A k \in 1..Len(fwd') : fwd'[k].kind = "FRAME" /\ fwd'[k].blk = 1
  <2>. SUFFICES ASSUME CrcMode, ~use_crc', NBlocks > 0
                PROVE  /\ block' = 1 /\ sphase' # "eot" /\ Acks(rev') = 0
                       /\ \A k \in 1..Len(fwd') : fwd'[k].kind = "FRAME" /\ fwd'[k].blk = 1
    BY DEF Mismatch
  <2>1. /\ block' = 1 /\ Acks(rev) = 0
        /\ \A k \in 1..n : fwd[k].kind = "FRAME" /\ fwd[k].blk = 1
    <3>1. CASE sphase = "handshake"
      BY <1>2, <3>1 DEF AckInv, OrderInv
    <3>2. CASE sphase # "handshake"
      BY <3>2 DEF Writes, Mismatch, AckInv, ModeInv, n
    <3>. QED
      BY <3>1, <3>2
  <2>2. sphase' = "block"
    BY <1>1, <2>1 DEF Writes
  <2>3. Acks(rev') = 0
    BY <2>1, AcksNumber
  <2>. QED
    BY <1>3, <1>4, <1>5, <2>1, <2>2, <2>3
<1>12. ASSUME NEW k \in 1..(n + 1), fwd'[k].kind = "FRAME"
       PROVE  /\ fwd'[k].crc = use_crc'
              /\ fwd'[k].wire # "long"
              /\ fwd'[k].wire = "short" => Mismatch'
  <2>1. CASE k = n + 1
    BY <1>3, <1>4, <1>12, <2>1
  <2>2. CASE k \in 1..n
    <3>1. use_crc' = use_crc
      BY <1>1, <1>2, <2>2 DEF Writes
    <3>2. Mismatch' = Mismatch
      BY <3>1 DEF Mismatch
    <3>. QED
      BY <1>4, <1>12, <2>2, <3>1, <3>2 DEF AckInv, ModeInv, n
  <2>. QED
    BY <1>5, <2>1, <2>2
<1>. QED
  BY <1>4, <1>10, <1>11, <1>12 DEF ModeInv, n

\* Or it writes nothing, and waits for the handshake or stops.
Rests ==
  /\ UNCHANGED <<fwd, block, use_crc>>
  /\ \/ sphase' \in SenderFinal
     \/ sphase = "handshake" /\ sphase' = "handshake"

\* Where it writes nothing, too.
LEMMA RestsInOrder ==
  ASSUME AckInv, Rests, rphase' = rphase, 
         rphase # "idle" \/ (rev' = rev /\ sphase' \in {"handshake", "failed"}),
         rev' \in Seq(Replies), Acks(rev') <= Acks(rev)
  PROVE  OrderInv' /\ ModeInv'
<1>1. /\ fwd' = fwd /\ block' = block /\ use_crc' = use_crc
      /\ sphase' \notin {"block", "eot"}
  BY DEF Rests, SenderFinal
<1>2. Acks(rev) = 0 => Acks(rev') = 0
  BY AcksNumber
<1>3. OrderInv'
  BY <1>1, <1>2 DEF Rests, SenderFinal, AckInv, OrderInv
<1>4. Mismatch' = Mismatch
  BY <1>1 DEF Mismatch
<1>5. ModeInv'
  BY <1>1, <1>2, <1>4 DEF AckInv, ModeInv
<1>. QED
  BY <1>3, <1>5

\* A retry loop repeats what it waits on, or gives up.
LEMMA RetryWrites ==
  ASSUME AckInv, sphase \in {"handshake", "block", "eot"}, Retry
  PROVE  /\ block' = block
         /\ Rests \/ (sphase # "handshake" /\ \E t : Writes(t))
<1>1. block' = block /\ use_crc' = use_crc
  BY DEF Retry
<1>2. CASE sphase' = "failed" /\ fwd' = fwd
  BY <1>1, <1>2 DEF Rests, SenderFinal
<1>3. CASE sphase' = sphase /\ sphase = "handshake" /\ fwd' = fwd
  BY <1>1, <1>3 DEF Rests
<1>4. CASE sphase' = sphase /\ sphase = "block" /\ fwd' = Append(fwd, Frame(block, use_crc))
  <2>1. block <= NBlocks
    BY <1>4, AckFacts DEF AckInv, TypeInv
  <2>. QED
    BY <1>1, <1>4, <2>1 DEF Writes
<1>5. CASE sphase' = sphase /\ sphase = "eot" /\ fwd' = Append(fwd, Ctl("EOT"))
  <2>1. block = NBlocks + 1
    BY <1>5 DEF AckInv, OrderInv
  <2>. QED
    BY <1>1, <1>5, <2>1 DEF Writes
<1>. QED
  BY <1>1, <1>2, <1>3, <1>4, <1>5 DEF Retry

\* The sender takes a reply for each frame it writes, and an ACK for each block.
LEMMA SenderReadsAcks ==
  ASSUME AckInv, SenderReads
  PROVE  OrderInv' /\ CountInv' /\ ModeInv'
<1>1. /\ rev' \in Seq(Replies) /\ Len(rev') = Len(rev) - 1 /\ Len(rev) > 0
      /\ Head(rev) = "ACK" => Acks(rev) = Acks(rev') + 1
      /\ Head(rev) # "ACK" => Acks(rev) = Acks(rev')
      /\ Acks(rev') \in Nat /\ Acks(rev') <= Acks(rev)
  <2>1. rev \in Seq(Replies) /\ rev # <<>> /\ rev' = Tail(rev) /\ Len(rev) > 0
    BY AckFacts DEF SenderReads
  <2>2. rev' \in Seq(Replies) /\ Len(rev') = Len(rev) - 1
    BY <2>1, HeadTailProperties
  <2>3. Acks(rev') \in Nat /\ Acks(rev) \in Nat
    BY <2>1, <2>2, AcksNumber
  <2>4. /\ Head(rev) = "ACK" => Acks(rev) = Acks(rev') + 1
        /\ Head(rev) # "ACK" => Acks(rev) = Acks(rev')
    BY <2>1, AcksTail
  <2>. QED
    BY <2>1, <2>2, <2>3, <2>4
<1>2. /\ rphase' = rphase /\ buffer' = buffer /\ late' = late
      /\ sphase \in {"handshake", "block", "eot"}
  BY DEF SenderReads, receiverVars, SenderHandshake, SenderAnswer, SenderEotAnswer
<1>3. /\ rphase # "idle"
      /\ rphase \notin ReceiverFinal => Len(fwd) + Len(rev) <= 1 + late
      /\ sphase = "block" => block + Acks(rev) <= Len(buffer) + 1 + late
      /\ block <= Len(buffer) + 1 + late
      /\ Len(buffer) <= block
  <2>1. sphase \notin SenderFinal
    BY <1>2 DEF SenderFinal
  <2>. QED
    BY <1>1, <2>1, AckFacts DEF AckInv, OrderInv, CountInv
<1>4. \/ Rests /\ block' = block
      \/ /\ \E t : Writes(t)
         /\ \/ block' = block
            \/ Head(rev) = "ACK" /\ sphase = "block" /\ block' = block + 1
  <2>1. ASSUME NEW b, NEW c, Transmit(b, c), use_crc' = c,
               \/ b = 1 /\ sphase = "handshake" /\ c \in BOOLEAN
               \/ b = block + 1 /\ sphase = "block" /\ c = use_crc /\ ~Mismatch
        PROVE  block' = b /\ \E t : Writes(t)
    <3>1. CASE b <= NBlocks /\ sphase' = "block" /\ fwd' = Append(fwd, Frame(b, c))
      BY <2>1, <3>1 DEF Transmit, Writes
    <3>2. CASE b > NBlocks /\ sphase' = "eot" /\ fwd' = Append(fwd, Ctl("EOT"))
      <4>1. b = NBlocks + 1
        <5>1. block \in 1..(NBlocks + 1) /\ NBlocks \in Nat
          BY AckFacts
        <5>2. sphase = "block" => block \in 1..NBlocks
          BY DEF AckInv, TypeInv
        <5>. QED
          BY <2>1, <3>2, <5>1, <5>2
      <4>. QED
        BY <2>1, <3>2, <4>1 DEF Transmit, Writes
    <3>. QED
      BY <2>1, <3>1, <3>2 DEF Transmit
  <2>2. CASE SenderHandshake
    <3>1. CASE Head(rev) \in {"C", "NAK"}
      <4>1. Transmit(1, use_crc') /\ use_crc' \in BOOLEAN /\ sphase = "handshake"
        BY <2>2, <3>1 DEF SenderHandshake
      <4>2. block = 1
        BY <4>1 DEF AckInv, OrderInv
      <4>3. block' = 1 /\ \E t : Writes(t)
        BY <2>1, <4>1
      <4>. QED
        BY <4>2, <4>3
    <3>2. CASE SenderCancelled
      BY <3>2 DEF SenderCancelled, Rests, SenderFinal
    <3>3. CASE Retry
      BY <1>2, <3>3, RetryWrites
    <3>. QED
      BY <2>2, <3>1, <3>2, <3>3 DEF SenderHandshake
  <2>3. CASE SenderAnswer
    <3>1. CASE Head(rev) = "ACK"
      <4>1. Transmit(block + 1, use_crc) /\ use_crc' = use_crc /\ sphase = "block"
        BY <2>3, <3>1 DEF SenderAnswer, Acknowledges
      <4>2. ~Mismatch
        BY <1>1, <3>1 DEF AckInv, ModeInv
      <4>. QED
        BY <2>1, <3>1, <4>1, <4>2
    <3>2. CASE SenderCancelled
      BY <3>2 DEF SenderCancelled, Rests, SenderFinal
    <3>3. CASE Retry
      BY <1>2, <3>3, RetryWrites
    <3>. QED
      BY <2>3, <3>1, <3>2, <3>3 DEF SenderAnswer, Acknowledges
  <2>4. CASE SenderEotAnswer
    <3>1. CASE sphase' = "done" /\ UNCHANGED <<use_crc, block, attempt, fwd>>
      BY <3>1 DEF Rests, SenderFinal
    <3>2. CASE SenderCancelled
      BY <3>2 DEF SenderCancelled, Rests, SenderFinal
    <3>3. CASE Retry
      BY <1>2, <3>3, RetryWrites
    <3>. QED
      BY <2>4, <3>1, <3>2, <3>3 DEF SenderEotAnswer, Acknowledges
  <2>. QED
    BY <2>2, <2>3, <2>4 DEF SenderReads
<1>5. CASE Rests /\ block' = block
  <2>1. OrderInv' /\ ModeInv'
    BY <1>1, <1>2, <1>3, <1>5, RestsInOrder
  <2>2. sphase' # "block" /\ fwd' = fwd
    BY <1>5 DEF Rests, SenderFinal
  <2>3. CountInv'
    <3>1. rphase' \notin ReceiverFinal => Len(fwd') + Len(rev') <= 1 + late'
      BY <1>1, <1>2, <1>3, <2>2, AckFacts
    <3>. QED
      BY <1>2, <1>5, <2>2, <3>1 DEF AckInv, CountInv
  <2>. QED
    BY <2>1, <2>3
<1>6. CASE /\ \E t : Writes(t)
           /\ \/ block' = block
              \/ Head(rev) = "ACK" /\ sphase = "block" /\ block' = block + 1
  <2>1. OrderInv' /\ ModeInv' /\ Len(fwd') = Len(fwd) + 1
    BY <1>1, <1>2, <1>3, <1>6, WritesInOrder
  <2>2. Len(fwd') \in Nat /\ Len(rev') \in Nat
    BY <1>1, <2>1, AckFacts
  <2>3. rphase' \notin ReceiverFinal => Len(fwd') + Len(rev') <= 1 + late' /\ Len(fwd') <= 1 + late'
    BY <1>1, <1>2, <1>3, <2>1, <2>2, AckFacts
  <2>4. /\ sphase' = "block" => block' + Acks(rev') <= Len(buffer') + 1 + late'
        /\ block' <= Len(buffer') + 1 + late'
        /\ Len(buffer') <= block'
    <3>1. CASE sphase = "block"
      <4>1. block + Acks(rev) <= Len(buffer) + 1 + late
        BY <1>3, <3>1
      <4>2. \/ block' = block
            \/ block' = block + 1 /\ Acks(rev) = Acks(rev') + 1
        BY <1>1, <1>6
      <4>. QED
        BY <1>1, <1>2, <1>3, <4>1, <4>2, AckFacts
    <3>2. CASE sphase = "handshake"
      <4>1. Acks(rev) = 0 /\ block' = block
        BY <1>6, <3>2 DEF AckInv, OrderInv
      <4>. QED
        BY <1>1, <1>2, <1>3, <4>1, AckFacts
    <3>3. CASE sphase = "eot"
      <4>1. block' = block /\ sphase' = "eot"
        BY <1>6, <3>3 DEF Writes
      <4>. QED
        BY <1>2, <1>3, <4>1
    <3>. QED
      BY <1>2, <3>1, <3>2, <3>3
  <2>. QED
    BY <2>1, <2>3, <2>4 DEF CountInv
<1>. QED
  BY <1>4, <1>5, <1>6

\* A timer adds a frame: the only one under way, or one more early timer.
LEMMA SenderTimeoutAcks ==
  ASSUME AckInv, SenderTimeout
  PROVE  OrderInv' /\ CountInv' /\ ModeInv'
<1>1. /\ rev' = rev /\ rphase' = rphase /\ buffer' = buffer
      /\ sphase \in {"handshake", "block", "eot"} /\ sphase \notin SenderFinal
      /\ late' \in Nat /\ late' >= late
      /\ \/ Quiet
         \/ late' = late + 1
  <2>1. sphase \in SenderPhases
    BY DEF AckInv, TypeInv, TypeOK
  <2>. QED
    BY <2>1, AckFacts DEF SenderTimeout, TimerFires, receiverVars, SenderPhases
<1>2. /\ rev' \in Seq(Replies) /\ Acks(rev') <= Acks(rev) /\ Len(rev') = Len(rev)
      /\ Acks(rev') = Acks(rev)
  BY <1>1, AckFacts
<1>3. /\ rphase \notin ReceiverFinal => Len(fwd) + Len(rev) <= 1 + late
      /\ sphase = "block" => block + Acks(rev) <= Len(buffer) + 1 + late
      /\ block <= Len(buffer) + 1 + late
      /\ Len(buffer) <= block
  BY <1>1 DEF AckInv, CountInv
<1>4. Quiet => Len(rev) = 0 /\ (rphase \notin ReceiverFinal => Len(fwd) = 0)
  BY <1>1, AckFacts DEF Quiet
<1>5. /\ block' = block
      /\ \/ Rests
         \/ sphase # "handshake" /\ \E t : Writes(t)
  BY <1>1, RetryWrites DEF SenderTimeout
<1>6. /\ sphase' = "block" => block' + Acks(rev') <= Len(buffer') + 1 + late'
      /\ block' <= Len(buffer') + 1 + late'
      /\ Len(buffer') <= block'
  <2>1. sphase' = "block" => sphase = "block"
    BY <1>5 DEF Rests, Writes, SenderFinal
  <2>. QED
    BY <1>1, <1>2, <1>3, <1>5, <2>1, AckFacts
<1>7. CASE Rests
  <2>1. OrderInv' /\ ModeInv'
    <3>1. rphase # "idle" \/ (rev' = rev /\ sphase' \in {"handshake", "failed"})
      <4>1. SUFFICES ASSUME rphase = "idle"
                     PROVE  sphase' \in {"handshake", "failed"}
        BY <1>1
      <4>2. sphase = "handshake"
        BY <1>1, <4>1 DEF AckInv, OrderInv
      <4>. QED
        BY <4>2 DEF SenderTimeout, Retry
    <3>. QED
      BY <1>1, <1>2, <1>7, <3>1, RestsInOrder
  <2>2. rphase' \notin ReceiverFinal => Len(fwd') + Len(rev') <= 1 + late' /\ Len(fwd') <= 1 + late'
    <3>1. Len(fwd') = Len(fwd)
      BY <1>7 DEF Rests
    <3>. QED
      BY <1>1, <1>2, <1>3, <3>1, AckFacts
  <2>. QED
    BY <1>6, <2>1, <2>2 DEF CountInv
<1>8. CASE sphase # "handshake" /\ \E t : Writes(t)
  <2>1. rphase # "idle"
    BY <1>1, <1>8 DEF AckInv, OrderInv
  <2>2. OrderInv' /\ ModeInv' /\ Len(fwd') = Len(fwd) + 1
    BY <1>1, <1>2, <1>8, <2>1, WritesInOrder
  <2>3. rphase' \notin ReceiverFinal => Len(fwd') + Len(rev') <= 1 + late' /\ Len(fwd') <= 1 + late'
    <3>. SUFFICES ASSUME rphase \notin ReceiverFinal
                  PROVE  Len(fwd') + Len(rev') <= 1 + late' /\ Len(fwd') <= 1 + late'
      BY <1>1
    <3>1. /\ Len(rev') = Len(rev) /\ Len(fwd') = Len(fwd) + 1
          /\ late' \in Nat /\ late \in Nat /\ Len(rev) \in Nat /\ Len(fwd) \in Nat
      BY <1>1, <1>2, <2>2, AckFacts
    <3>2. \/ Len(rev) = 0 /\ Len(fwd) = 0
          \/ late' = late + 1 /\ Len(fwd) + Len(rev) <= 1 + late
      BY <1>1, <1>3, <1>4
    <3>. QED
      BY <3>1, <3>2
  <2>. QED
    BY <1>6, <2>2, <2>3 DEF CountInv
<1>. QED
  BY <1>5, <1>7, <1>8

\* What the receiver takes from the line leaves the rest in order.
LEMMA ReceiverInOrder ==
  ASSUME AckInv, UNCHANGED senderVars,
         fwd' = fwd \/ (fwd # <<>> /\ fwd' = Tail(fwd)),
         rphase' # "idle",
         rphase' = "can" => fwd # <<>> /\ fwd' = Tail(fwd) /\ Head(fwd).kind # "FRAME",
         sphase = "handshake" \/ Mismatch => Acks(rev') = Acks(rev)
  PROVE  OrderInv' /\ ModeInv'
<1>1. /\ fwd \in Seq(Tokens) /\ block \in Nat /\ NBlocks \in Nat /\ block \in 1..(NBlocks + 1)
      /\ sphase' = sphase /\ block' = block /\ use_crc' = use_crc
  BY AckFacts DEF senderVars
<1>2. Climbs(fwd, block) /\ EndsOnce(fwd)
  BY DEF AckInv, OrderInv
<1>3. Climbs(fwd', block) /\ EndsOnce(fwd')
  BY <1>1, <1>2, ClimbsTail
<1>4. \A k \in 1..Len(fwd') : \E j \in 1..Len(fwd) : fwd'[k] = fwd[j] /\ (fwd' = Tail(fwd) => 1 < j)
  <2>1. CASE fwd # <<>> /\ fwd' = Tail(fwd)
    <3>1. /\ Len(fwd') = Len(fwd) - 1 /\ Len(fwd) \in Nat \ {0}
          /\ \A k \in 1..(Len(fwd) - 1) : fwd'[k] = fwd[k + 1]
      BY <1>1, <2>1, ClimbsTail
    <3>2. \A k \in 1..(Len(fwd) - 1) : k + 1 \in 1..Len(fwd) /\ 1 < k + 1
      BY <3>1
    <3>. QED
      BY <3>1, <3>2
  <2>2. CASE fwd' = fwd /\ fwd' # Tail(fwd)
    BY <2>2
  <2>3. CASE fwd' = fwd /\ fwd = <<>>
    BY <2>3
  <2>. QED
    BY <2>1, <2>2, <2>3
<1>5. rphase' = "can" => block = NBlocks + 1 /\ \A k \in 1..Len(fwd') : fwd'[k].kind # "FRAME"
  <2>. SUFFICES ASSUME rphase' = "can"
                PROVE  block = NBlocks + 1 /\ \A k \in 1..Len(fwd') : fwd'[k].kind # "FRAME"
    OBVIOUS
  <2>1. fwd # <<>> /\ fwd' = Tail(fwd) /\ Head(fwd) = fwd[1] /\ Len(fwd) \in Nat \ {0}
        /\ fwd[1] \in Tokens /\ fwd[1].kind # "FRAME"
    BY <1>1, ClimbsTail
  <2>2. Place(fwd[1]) = NBlocks + 1
    BY <2>1, PlaceOfToken
  <2>3. 1 \in 1..Len(fwd)
    BY <2>1
  <2>4. block = NBlocks + 1
    <3>1. Place(fwd[1]) <= block
      BY <1>2, <2>3 DEF Climbs
    <3>. QED
      BY <1>1, <2>2, <3>1
  <2>5. \A j \in 1..Len(fwd) : 1 < j => fwd[j].kind # "FRAME"
    BY <1>2, <2>1, <2>3 DEF EndsOnce
  <2>. QED
    BY <1>4, <2>1, <2>4, <2>5
<1>6. sphase = "handshake" => fwd' = <<>> /\ Acks(rev') = 0 /\ block = 1
  <2>1. sphase = "handshake" => fwd = <<>> /\ Acks(rev) = 0 /\ block = 1
    BY DEF AckInv, OrderInv
  <2>. QED
    BY <2>1
<1>7. OrderInv'
  BY <1>1, <1>3, <1>5, <1>6 DEF AckInv, OrderInv
<1>8. Mismatch' = Mismatch
  BY <1>1 DEF Mismatch
<1>9. ModeInv'
  <2>1. \A j \in 1..Len(fwd) : fwd[j].kind = "FRAME" =>
          /\ fwd[j].crc = use_crc
          /\ fwd[j].wire # "long"
          /\ fwd[j].wire = "short" => Mismatch
    BY DEF AckInv, ModeInv
  <2>2. Mismatch =>
          /\ block = 1 /\ sphase # "eot" /\ Acks(rev') = 0
          /\ \A j \in 1..Len(fwd) : fwd[j].kind = "FRAME" /\ fwd[j].blk = 1
    BY DEF AckInv, ModeInv
  <2>. QED
    BY <1>1, <1>4, <1>8, <2>1, <2>2 DEF ModeInv
<1>. QED
  BY <1>7, <1>9

\* An answer is one reply more.
LEMMA ReplyAcks ==
  ASSUME AckInv, NEW b \in Replies, Reply(b)
  PROVE  /\ rev' \in Seq(Replies) /\ Len(rev') = Len(rev) + 1
         /\ b # "ACK" => Acks(rev') = Acks(rev)
         /\ b = "ACK" => Acks(rev') = Acks(rev) + 1
BY AckFacts, AcksAppend, AppendProperties DEF Reply

\* The handshake byte is the first thing under way.
LEMMA ReceiverStartAcks ==
  ASSUME AckInv, ReceiverStart
  PROVE  OrderInv' /\ CountInv' /\ ModeInv'
<1>1. /\ Len(rev') = Len(rev) + 1 /\ Acks(rev') = Acks(rev)
      /\ UNCHANGED senderVars /\ fwd' = fwd /\ rphase' = "run" /\ buffer' = buffer /\ late' = late
  <2>1. PICK b \in {"C", "NAK"} : Reply(b)
    BY DEF ReceiverStart
  <2>2. b \in Replies /\ b # "ACK"
    BY DEF Replies
  <2>. QED
    BY <2>1, <2>2, ReplyAcks DEF ReceiverStart
<1>2. OrderInv' /\ ModeInv'
  BY <1>1, ReceiverInOrder
<1>3. Len(fwd) = 0 /\ Len(rev) = 0
  BY DEF ReceiverStart, AckInv, OrderInv
<1>4. Len(fwd') + Len(rev') <= 1 + late'
  BY <1>1, <1>3, AckFacts
<1>5. /\ Len(fwd') <= 1 + late'
      /\ sphase' = sphase /\ block' = block
  BY <1>1, <1>3, AckFacts DEF senderVars
<1>. QED
  BY <1>1, <1>2, <1>4, <1>5 DEF CountInv, AckInv

\* Two blocks with one number are the same, or a cycle apart.
LEMMA NumbersApart ==
  ASSUME NEW a \in Nat, NEW b \in Nat, Number(a) = Number(b),
         a < b + NumMod, b < a + NumMod
  PROVE  a = b
<1>. DEFINE p == a \div NumMod
            q == b \div NumMod
            r == a % NumMod
<1>1. /\ a = NumMod * p + r /\ b = NumMod * q + r
      /\ p \in Nat /\ q \in Nat /\ r \in Nat /\ NumMod \in Nat /\ NumMod > 1
  <2>1. NumMod \in Nat /\ NumMod > 1
    BY ConstantsAssumption
  <2>2. a = NumMod * p + r /\ r \in 0..(NumMod - 1) /\ p \in Nat
    BY <2>1, DivisionFacts
  <2>3. b = NumMod * q + (b % NumMod) /\ q \in Nat
    BY <2>1, DivisionFacts
  <2>4. b % NumMod = r
    BY DEF Number
  <2>5. r \in Nat
    BY <2>1, <2>2
  <2>. QED
    BY <2>1, <2>2, <2>3, <2>4, <2>5, Zenon
<1>. HIDE DEF p, q, r
<1>2. NumMod * (p - q) = a - b
  BY <1>1
<1>3. CASE p - q >= 1
  <2>1. NumMod * (p - q) >= NumMod
    BY <1>1, <1>3, SMTT(30)
  <2>. QED
    BY <1>1, <1>2, <2>1
<1>4. CASE p - q <= -1
  <2>1. NumMod * (p - q) <= -NumMod
    BY <1>1, <1>4, SMTT(30)
  <2>. QED
    BY <1>1, <1>2, <2>1
<1>5. CASE p = q
  BY <1>1, <1>5
<1>. QED
  BY <1>1, <1>3, <1>4, <1>5

\* A frame that passes for a duplicate is the block accepted last, and one that
\* passes for the next block is that.
LEMMA NumbersSuffice ==
  ASSUME AckInv, MaxLate + 2 <= NumMod, fwd # <<>>, Head(fwd).kind = "FRAME",
         rphase \notin ReceiverFinal
  PROVE  LET s == Head(fwd).blk  IN
         /\ s \in 1..NBlocks /\ s <= block /\ block <= s + Len(fwd) - 1
         /\ IsDuplicate(Number(s)) => s = Len(buffer)
         /\ IsNext(Number(s)) => s = Len(buffer) + 1
<1>. DEFINE s == Head(fwd).blk
            n == Len(buffer)
<1>1. /\ s \in 1..NBlocks /\ Place(fwd[1]) = s /\ 1 \in 1..Len(fwd)
  <2>1. Head(fwd) = fwd[1] /\ fwd[1] \in Tokens /\ Len(fwd) \in Nat \ {0}
    BY AckFacts, ClimbsTail
  <2>. QED
    BY <2>1, PlaceOfToken
<1>2. s <= block /\ block <= s + Len(fwd) - 1
  BY <1>1 DEF AckInv, OrderInv, Climbs
<1>3. /\ n \in Nat /\ block \in Nat /\ late \in Nat /\ late <= MaxLate /\ MaxLate \in Nat
      /\ Len(fwd) \in Nat /\ s \in Nat /\ NumMod \in Nat
  BY <1>1, AckFacts, ConstantsAssumption
<1>4. Len(fwd) <= 1 + late /\ block <= n + 1 + late /\ n <= block
  BY DEF AckInv, CountInv
<1>5. /\ s < n + NumMod /\ n < s + NumMod
      /\ s < (n + 1) + NumMod /\ n + 1 < s + NumMod
  BY <1>2, <1>3, <1>4
<1>6. expected_block = Number(n + 1)
  BY DEF AckInv, PrefixInv, NextNumber, Number
<1>7. PrevNumber(expected_block) = Number(n)
  BY <1>3, <1>6, PrevOfNext
<1>. HIDE DEF s, n
<1>8. IsDuplicate(Number(s)) => s = n
  BY <1>3, <1>5, <1>7, NumbersApart DEF IsDuplicate
<1>9. IsNext(Number(s)) => s = n + 1
  <2>1. n + 1 \in Nat
    BY <1>3
  <2>. QED
    BY <1>3, <1>5, <1>6, <2>1, NumbersApart DEF IsNext
<1>. QED
  BY <1>1, <1>2, <1>8, <1>9 DEF s, n

\* An end of the file, or what the line made of it, comes after all blocks.
LEMMA EndComesLast ==
  ASSUME AckInv, fwd # <<>>, Head(fwd).kind # "FRAME"
  PROVE  sphase \notin {"handshake", "block"} /\ ~Mismatch
<1>1. Head(fwd) = fwd[1] /\ fwd[1] \in Tokens /\ 1 \in 1..Len(fwd)
  <2>1. Head(fwd) = fwd[1] /\ fwd[1] \in Tokens /\ Len(fwd) \in Nat \ {0}
    BY AckFacts, ClimbsTail
  <2>. QED
    BY <2>1
<1>2. Place(fwd[1]) = NBlocks + 1 /\ Place(fwd[1]) <= block
  BY <1>1, PlaceOfToken DEF AckInv, OrderInv, Climbs
<1>3. sphase = "block" => block \in 1..NBlocks
  BY DEF AckInv, TypeInv
<1>4. sphase # "block"
  BY <1>2, <1>3, AckFacts
<1>5. sphase # "handshake"
  BY DEF AckInv, OrderInv
<1>6. ~Mismatch
  BY <1>1 DEF AckInv, ModeInv
<1>. QED
  BY <1>4, <1>5, <1>6

\* Where nothing is accepted the counts stay.
LEMMA CountKept ==
  ASSUME AckInv, UNCHANGED <<sphase, block, buffer>>, rphase \notin ReceiverFinal,
         late' \in Nat, late' >= late,
         rphase' \notin ReceiverFinal =>
           /\ Len(fwd') <= 1 + late'
           /\ sphase \notin SenderFinal => Len(fwd') + Len(rev') <= 1 + late',
         sphase = "block" => Acks(rev') = Acks(rev)
  PROVE  CountInv'
<1>1. /\ sphase = "block" => block + Acks(rev) <= Len(buffer) + 1 + late
      /\ block <= Len(buffer) + 1 + late
      /\ Len(buffer) <= block
  BY DEF AckInv, CountInv
<1>2. /\ sphase = "block" => block + Acks(rev') <= Len(buffer) + 1 + late'
      /\ block <= Len(buffer) + 1 + late'
  BY <1>1, AckFacts
<1>. QED
  BY <1>1, <1>2 DEF CountInv

\* The bounds on what is under way.
LEMMA UnderWay ==
  ASSUME AckInv, rphase \notin ReceiverFinal, fwd # <<>>
  PROVE  /\ Len(Tail(fwd)) = Len(fwd) - 1 /\ Len(fwd) <= 1 + late /\ Len(fwd) \in Nat \ {0}
         /\ Len(Tail(fwd)) <= 1 + late
         /\ sphase \notin SenderFinal => /\ Len(fwd) + Len(rev) <= 1 + late
                                         /\ Len(Tail(fwd)) + Len(rev) <= 1 + late
                                         /\ Len(Tail(fwd)) + (Len(rev) + 1) <= 1 + late
<1>1. Len(Tail(fwd)) = Len(fwd) - 1 /\ Len(fwd) \in Nat \ {0}
  BY AckFacts, ClimbsTail
<1>2. /\ Len(fwd) <= 1 + late
      /\ sphase \notin SenderFinal => Len(fwd) + Len(rev) <= 1 + late
  BY DEF AckInv, CountInv
<1>. QED
  BY <1>1, <1>2, AckFacts

\* A frame refused: the rest stays in order, also where what the frame lacks
\* is taken from the next one.
LEMMA ReceiveDamagedAcks ==
  ASSUME AckInv, fwd # <<>>, rphase = "run", ReceiveDamaged,
         UNCHANGED <<senderVars, late>>
  PROVE  OrderInv' /\ CountInv' /\ ModeInv'
<1>1. /\ fwd \in Seq(Tokens) /\ Tail(fwd) \in Seq(Tokens) /\ block \in Nat
      /\ Head(fwd) = fwd[1] /\ fwd[1] \in Tokens /\ fwd[1].kind = "FRAME"
      /\ Len(fwd) \in Nat \ {0} /\ Len(Tail(fwd)) = Len(fwd) - 1
      /\ \A k \in 1..(Len(fwd) - 1) : Tail(fwd)[k] = fwd[k + 1]
      /\ 1 \in 1..Len(fwd)
  <2>1. fwd \in Seq(Tokens) /\ block \in Nat
    BY AckFacts
  <2>. QED
    BY <2>1, ClimbsTail DEF ReceiveDamaged
<1>2. /\ Len(rev') = Len(rev) + 1 /\ Acks(rev') = Acks(rev)
      /\ UNCHANGED <<sphase, block, use_crc, rphase, buffer, late>>
  <2>1. Reply("NAK") /\ "NAK" \in Replies
    BY DEF ReceiveDamaged, Replies
  <2>. QED
    BY <2>1, ReplyAcks DEF ReceiveDamaged, senderVars
<1>3. /\ fwd[1].crc = use_crc /\ fwd[1].wire # "long"
      /\ fwd[1].wire = "short" => Mismatch
  BY <1>1 DEF AckInv, ModeInv
<1>4. Len(fwd') <= Len(Tail(fwd)) /\ Len(fwd') \in Nat => CountInv'
  <2>. SUFFICES ASSUME Len(fwd') <= Len(Tail(fwd)), Len(fwd') \in Nat
                PROVE  CountInv'
    OBVIOUS
  <2>1. rphase \notin ReceiverFinal
    BY DEF ReceiverFinal
  <2>2. Len(fwd') <= 1 + late'
    BY <1>1, <1>2, <2>1, UnderWay, AckFacts
  <2>3. sphase \notin SenderFinal => Len(fwd') + Len(rev') <= 1 + late'
    BY <1>1, <1>2, <2>1, UnderWay, AckFacts
  <2>. QED
    BY <1>2, <2>1, <2>2, <2>3, CountKept, AckFacts
<1>5. CASE fwd' = Tail(fwd)
  <2>1. OrderInv' /\ ModeInv'
    BY <1>2, <1>5, ReceiverInOrder
  <2>2. Len(fwd') <= Len(Tail(fwd)) /\ Len(fwd') \in Nat
    BY <1>1, <1>5
  <2>. QED
    BY <1>4, <2>1, <2>2
<1>6. CASE /\ Short(Head(fwd)) /\ Len(fwd) > 1
           /\ fwd' = Beheaded(fwd[2]) \o Tail(Tail(fwd))
  <2>. DEFINE q == Tail(fwd)
              t == [fwd[2] EXCEPT !.wire = "short"]
  <2>1. Mismatch
    <3>1. fwd[1].blk \in 1..NBlocks
      BY <1>1, PlaceOfToken
    <3>2. NBlocks > 0
      BY <3>1, AckFacts
    <3>. QED
      BY <1>1, <1>3, <1>6, <3>2 DEF Short, Mismatch
  <2>2. /\ block = 1 /\ sphase # "eot" /\ Acks(rev) = 0
        /\ \A k \in 1..Len(fwd) : fwd[k].kind = "FRAME" /\ fwd[k].blk = 1
    BY <2>1 DEF AckInv, ModeInv
  <2>3. /\ 2 \in 1..Len(fwd) /\ q[1] = fwd[2] /\ q # <<>>
        /\ fwd[2].kind = "FRAME" /\ fwd[2].blk = 1
    <3>1. 2 \in 1..Len(fwd) /\ 1 \in 1..(Len(fwd) - 1)
      BY <1>1, <1>6
    <3>2. Len(q) > 0
      BY <1>1, <1>6
    <3>3. q # <<>>
      BY <1>1, <3>2, EmptySeq
    <3>4. q[1] = fwd[1 + 1]
      BY <1>1, <3>1
    <3>. QED
      BY <2>2, <3>1, <3>3, <3>4
  <2>4. fwd[2] \in FrameTokens /\ fwd[2] \in Tokens
    BY <1>1, <2>3, ElementOfSeq, PlaceOfToken
  <2>5. /\ t \in Tokens /\ t.kind = "FRAME" /\ t.blk = 1
        /\ t.crc = fwd[2].crc /\ t.wire = "short"
    BY <2>3, <2>4 DEF FrameTokens, Tokens
  <2>6. Beheaded(fwd[2]) = <<t>>
    <3>1. Number(1) = SOH
      BY NumberBelowWrap, ConstantsAssumption DEF SOH
    <3>2. Number(fwd[2].blk) = SOH /\ Number(fwd[2].blk) # STX
      BY <2>3, <3>1 DEF SOH, STX
    <3>3. Residue(fwd[2]) = <<t>>
      BY <3>2 DEF Residue
    <3>. QED
      BY <2>3, <3>3 DEF Beheaded
  <2>7. fwd' = <<t>> \o Tail(q)
    BY <1>6, <2>6
  <2>. HIDE DEF t, q
  <2>8. Place(t) = Place(q[1]) /\ (t.kind = "FRAME" <=> q[1].kind = "FRAME")
    BY <2>3, <2>5 DEF Place
  <2>9. /\ Climbs(fwd, block) => Climbs(q, block)
        /\ EndsOnce(fwd) => EndsOnce(q)
        /\ q \in Seq(Tokens)
    BY <1>1, ClimbsTail, EmptySeq DEF q
  <2>10. /\ Climbs(fwd', block) /\ EndsOnce(fwd')
         /\ Len(fwd') = Len(q)
         /\ fwd'[1] = t
         /\ \A k \in 2..Len(q) : fwd'[k] = q[k]
    BY <1>1, <2>3, <2>5, <2>7, <2>8, <2>9, ClimbsHead DEF AckInv, OrderInv
  <2>11. sphase # "handshake"
    BY DEF AckInv, OrderInv
  <2>12. OrderInv'
    BY <1>2, <2>2, <2>10, <2>11 DEF OrderInv
  <2>13. Mismatch' = Mismatch
    BY <1>2 DEF Mismatch
  <2>14. \A k \in 1..Len(q) : /\ fwd'[k].kind = "FRAME" /\ fwd'[k].blk = 1
                              /\ fwd'[k].crc = use_crc /\ fwd'[k].wire # "long"
    <3>1. \A k \in 1..Len(fwd) : fwd[k].crc = use_crc /\ fwd[k].wire # "long"
      BY <2>2 DEF AckInv, ModeInv
    <3>2. CASE TRUE
      <4>. TAKE k \in 1..Len(q)
      <4>1. CASE k = 1
        BY <2>3, <2>5, <2>10, <3>1, <4>1
      <4>2. CASE k # 1
        <5>1. k \in 2..Len(q) /\ k + 1 \in 1..Len(fwd) /\ k \in 1..(Len(fwd) - 1)
          BY <1>1, <4>2 DEF q
        <5>2. fwd'[k] = fwd[k + 1]
          BY <1>1, <2>10, <5>1 DEF q
        <5>. QED
          BY <2>2, <3>1, <5>1, <5>2
      <4>. QED
        BY <4>1, <4>2
    <3>. QED
      BY <3>2
  <2>15. ModeInv'
    BY <1>2, <2>1, <2>2, <2>10, <2>13, <2>14 DEF ModeInv
  <2>16. Len(fwd') <= Len(Tail(fwd)) /\ Len(fwd') \in Nat
    BY <1>1, <2>10 DEF q
  <2>. QED
    BY <1>4, <2>12, <2>15, <2>16
<1>. QED
  BY <1>1, <1>3, <1>5, <1>6 DEF ReceiveDamaged

\* A good frame: an ACK for the block accepted last is no more than the frame
\* it answers, and one for the next block comes with that block.
LEMMA ReceiveBlockAcks ==
  ASSUME AckInv, MaxLate + 2 <= NumMod, fwd # <<>>, rphase = "run", ReceiveBlock,
         UNCHANGED <<senderVars, late>>
  PROVE  OrderInv' /\ CountInv' /\ ModeInv' /\ PrefixInv'
<1>. DEFINE s == Head(fwd).blk
            n == Len(buffer)
<1>1. /\ Head(fwd).kind = "FRAME" /\ fwd' = Tail(fwd)
      /\ UNCHANGED <<sphase, block, use_crc, late>>
      /\ rphase \notin ReceiverFinal
  BY DEF ReceiveBlock, senderVars, ReceiverFinal
<1>2. /\ s \in 1..NBlocks /\ s <= block /\ block <= s + Len(fwd) - 1
      /\ IsDuplicate(Number(s)) => s = n
      /\ IsNext(Number(s)) => s = n + 1
  BY <1>1, NumbersSuffice
<1>3. sphase # "handshake" /\ ~Mismatch
  <2>1. sphase # "handshake"
    BY DEF AckInv, OrderInv
  <2>2. Head(fwd) = fwd[1] /\ 1 \in 1..Len(fwd)
    <3>1. Head(fwd) = fwd[1] /\ Len(fwd) \in Nat \ {0}
      BY AckFacts, ClimbsTail
    <3>. QED
      BY <3>1
  <2>3. fwd[1].crc = use_crc
    BY <1>1, <2>2 DEF AckInv, ModeInv
  <2>4. fwd[1].crc = CrcMode
    BY <2>2 DEF ReceiveBlock, Intact
  <2>. QED
    BY <2>1, <2>3, <2>4 DEF Mismatch
<1>4. rphase' # "idle" /\ rphase' # "can"
  BY DEF ReceiveBlock, Raise
<1>5. OrderInv' /\ ModeInv'
  <2>1. UNCHANGED senderVars /\ fwd' = Tail(fwd)
    BY <1>1
  <2>. QED
    BY <1>3, <1>4, <2>1, ReceiverInOrder
<1>6. /\ Len(fwd') = Len(fwd) - 1 /\ Len(fwd') \in Nat /\ Len(fwd') <= 1 + late'
      /\ sphase \notin SenderFinal => Len(fwd') + (Len(rev) + 1) <= 1 + late'
  BY <1>1, UnderWay, AckFacts
<1>7. CASE /\ IsDuplicate(Number(s)) /\ Reply("ACK")
           /\ UNCHANGED <<rphase, expected_block, buffer>>
  <2>1. /\ rev' \in Seq(Replies) /\ Len(rev') = Len(rev) + 1 /\ Acks(rev') = Acks(rev) + 1
    BY <1>7, ReplyAcks DEF Replies
  <2>2. Acks(rev') <= Len(rev') /\ Acks(rev') \in Nat
    BY <2>1, AcksNumber
  <2>3. sphase \notin SenderFinal => Len(fwd') + Len(rev') <= 1 + late'
    BY <1>6, <2>1
  <2>4. sphase = "block" => block + Acks(rev') <= n + 1 + late'
    <3>1. block <= n + Len(fwd')
      BY <1>2, <1>6, <1>7, AckFacts
    <3>2. sphase = "block" => Len(fwd') + Len(rev') <= 1 + late'
      BY <2>3 DEF SenderFinal
    <3>3. /\ n \in Nat /\ block \in Nat /\ late' \in Nat
          /\ Len(rev') \in Nat
      BY <1>1, <2>1, AckFacts
    <3>. QED
      BY <1>6, <2>2, <3>1, <3>2, <3>3
  <2>5. CountInv'
    BY <1>1, <1>6, <1>7, <2>3, <2>4 DEF AckInv, CountInv
  <2>6. PrefixInv'
    BY <1>7 DEF AckInv, PrefixInv, PrefixDelivered
  <2>. QED
    BY <1>5, <2>5, <2>6
<1>8. CASE rphase' = "protocol" /\ UNCHANGED <<expected_block, buffer>>
           /\ rev' = rev \o <<"CAN", "CAN">>
  <2>1. rphase' \in ReceiverFinal
    BY <1>8 DEF ReceiverFinal
  <2>2. Acks(rev') = Acks(rev)
    <3>1. "CAN" \in Replies /\ rev \in Seq(Replies)
      BY AckFacts DEF Replies
    <3>2. Append(rev, "CAN") \in Seq(Replies)
      BY <3>1, AppendProperties
    <3>3. rev' = Append(Append(rev, "CAN"), "CAN")
      BY <1>8, <3>1
    <3>. QED
      BY <3>1, <3>2, <3>3, AcksAppend
  <2>3. CountInv'
    BY <1>1, <1>8, <2>1, <2>2, CountKept, AckFacts
  <2>4. PrefixInv'
    BY <1>8 DEF AckInv, PrefixInv, PrefixDelivered
  <2>. QED
    BY <1>5, <2>3, <2>4
<1>9. CASE /\ IsNext(Number(s)) /\ Reply("ACK")
           /\ buffer' = Append(buffer, s)
           /\ expected_block' = NextNumber(expected_block)
           /\ rphase' = rphase
  <2>1. /\ Len(rev') = Len(rev) + 1 /\ Acks(rev') = Acks(rev) + 1
    BY <1>9, ReplyAcks DEF Replies
  <2>2. /\ Len(buffer') = n + 1 /\ buffer'[n + 1] = s
        /\ \A i \in 1..n : buffer'[i] = buffer[i]
        /\ n \in Nat
    <3>1. buffer \in Seq(1..NBlocks)
      BY DEF AckInv, TypeInv, TypeOK
    <3>. QED
      BY <1>2, <1>9, <3>1, AppendProperties, LenProperties
  <2>3. s = n + 1
    BY <1>2, <1>9
  <2>4. /\ sphase = "block" => block + Acks(rev) <= n + 1 + late
        /\ block <= n + 1 + late
    BY DEF AckInv, CountInv
  <2>5. /\ sphase' = "block" => block' + Acks(rev') <= Len(buffer') + 1 + late'
        /\ block' <= Len(buffer') + 1 + late'
        /\ Len(buffer') <= block'
    <3>1. /\ block \in Nat /\ late \in Nat /\ Acks(rev) \in Nat
          /\ block' = block /\ late' = late /\ sphase' = sphase
          /\ Acks(rev') = Acks(rev) + 1 /\ n + 1 <= block
      BY <1>1, <1>2, <2>1, <2>3, AckFacts
    <3>. QED
      BY <2>2, <2>4, <3>1
  <2>6. CountInv'
    BY <1>1, <1>6, <2>1, <2>5 DEF CountInv
  <2>7. PrefixDelivered'
    <3>. SUFFICES ASSUME NEW i \in 1..(n + 1) PROVE buffer'[i] = i
      BY <2>2 DEF PrefixDelivered
    <3>1. i = n + 1 \/ i \in 1..n
      BY <2>2
    <3>. QED
      BY <2>2, <2>3, <3>1 DEF AckInv, PrefixInv, PrefixDelivered
  <2>8. expected_block' = NextNumber(Len(buffer'))
    <3>1. expected_block = Number(n + 1)
      BY DEF AckInv, PrefixInv, NextNumber, Number
    <3>2. expected_block' = Number((n + 1) + 1)
      BY <1>9, <2>2, <3>1, NextOfNumber
    <3>. QED
      BY <2>2, <3>2 DEF NextNumber, Number
  <2>. QED
    BY <1>5, <2>6, <2>7, <2>8 DEF PrefixInv
<1>. QED
  BY <1>7, <1>8, <1>9 DEF ReceiveBlock, Raise

\* The receiver answers what it takes, once.
LEMMA ReceiverReadsAcks ==
  ASSUME AckInv, MaxLate + 2 <= NumMod, ReceiverReads
  PROVE  OrderInv' /\ CountInv' /\ ModeInv'
<1>1. /\ fwd # <<>> /\ rphase \notin ReceiverFinal /\ UNCHANGED <<senderVars, late>>
      /\ UNCHANGED <<sphase, block, use_crc, late>>
  BY DEF ReceiverReads, ReceiverFinal, senderVars
<1>2. "NAK" \in Replies /\ "ACK" \in Replies
  BY DEF Replies
<1>3. ASSUME Head(fwd).kind # "FRAME", fwd' = Tail(fwd), rphase' # "idle",
             buffer' = buffer, Len(rev') \in {Len(rev), Len(rev) + 1}
      PROVE  OrderInv' /\ CountInv' /\ ModeInv'
  <2>1. sphase \notin {"handshake", "block"} /\ ~Mismatch
    BY <1>1, <1>3, EndComesLast
  <2>2. OrderInv' /\ ModeInv'
    BY <1>1, <1>3, <2>1, ReceiverInOrder
  <2>3. /\ Len(fwd') <= 1 + late'
        /\ sphase \notin SenderFinal => Len(fwd') + Len(rev') <= 1 + late'
    BY <1>1, <1>3, UnderWay
  <2>4. CountInv'
    BY <1>1, <1>3, <2>1, <2>3, CountKept, AckFacts
  <2>. QED
    BY <2>2, <2>4
<1>4. CASE rphase = "run" /\ ReceiveEot
  BY <1>2, <1>3, <1>4, ReplyAcks DEF ReceiveEot, Commit
<1>5. CASE rphase = "run" /\ ReceiveCan
  BY <1>3, <1>5 DEF ReceiveCan
<1>6. CASE rphase = "run" /\ ReceiveJunk
  <2>1. Len(rev') \in {Len(rev), Len(rev) + 1}
    BY <1>2, <1>6, ReplyAcks DEF ReceiveJunk
  <2>. QED
    BY <1>3, <1>6, <2>1 DEF ReceiveJunk, Raise
<1>7. CASE rphase = "run" /\ ReceiveDamaged
  BY <1>1, <1>7, ReceiveDamagedAcks
<1>8. CASE rphase = "run" /\ ReceiveBlock
  BY <1>1, <1>8, ReceiveBlockAcks
<1>9. CASE rphase = "can" /\ ReceiveAfterCan
  <2>1. Head(fwd).kind # "FRAME"
    <3>1. Head(fwd) = fwd[1] /\ Len(fwd) \in Nat \ {0}
      BY <1>1, AckFacts, ClimbsTail
    <3>2. 1 \in 1..Len(fwd)
      BY <3>1
    <3>. QED
      BY <1>9, <3>1, <3>2 DEF AckInv, OrderInv
  <2>2. fwd' = Tail(fwd)
    <3>1. Tail(fwd) \in Seq(Tokens)
      BY <1>1, AckFacts, ClimbsTail
    <3>2. <<>> \o Tail(fwd) = Tail(fwd)
      BY <3>1, ConcatEmptySeq
    <3>. QED
      BY <1>9, <2>1, <3>2 DEF ReceiveAfterCan, Beheaded
  <2>3. Len(rev') \in {Len(rev), Len(rev) + 1}
    BY <1>2, <1>9, ReplyAcks DEF ReceiveAfterCan
  <2>. QED
    BY <1>3, <1>9, <2>1, <2>2, <2>3 DEF ReceiveAfterCan, Raise
<1>. QED
  BY <1>4, <1>5, <1>6, <1>7, <1>8, <1>9 DEF ReceiverReads

\* Its timer adds a NAK, like the sender's a frame.
LEMMA ReceiverTimeoutAcks ==
  ASSUME AckInv, ReceiverTimeout
  PROVE  OrderInv' /\ CountInv' /\ ModeInv'
<1>1. /\ UNCHANGED senderVars /\ UNCHANGED <<sphase, block, use_crc, buffer, fwd>>
      /\ rphase \in {"run", "can"} /\ rphase \notin ReceiverFinal
      /\ rphase' # "idle" /\ rphase' # "can"
      /\ late' \in Nat /\ late' >= late
      /\ Quiet \/ late' = late + 1
  BY AckFacts DEF ReceiverTimeout, TimerFires, Raise, ReceiverFinal, senderVars
<1>2. /\ Acks(rev') = Acks(rev) /\ Len(rev') \in {Len(rev), Len(rev) + 1}
  <2>1. rev' = rev \/ (Reply("NAK") /\ "NAK" \in Replies)
    BY DEF ReceiverTimeout, Replies
  <2>. QED
    BY <2>1, ReplyAcks
<1>3. OrderInv' /\ ModeInv'
  BY <1>1, <1>2, ReceiverInOrder
<1>4. /\ Len(fwd) <= 1 + late
      /\ sphase \notin SenderFinal => Len(fwd) + Len(rev) <= 1 + late
  BY <1>1 DEF AckInv, CountInv
<1>5. Quiet => Len(fwd) = 0 /\ (sphase \notin SenderFinal => Len(rev) = 0)
  BY <1>1, AckFacts DEF Quiet
<1>6. Len(fwd') <= 1 + late'
  BY <1>1, <1>4, AckFacts
<1>7. sphase \notin SenderFinal => Len(fwd') + Len(rev') <= 1 + late'
  <2>. SUFFICES ASSUME sphase \notin SenderFinal
                PROVE  Len(fwd') + Len(rev') <= 1 + late'
    OBVIOUS
  <2>1. \/ Len(fwd) = 0 /\ Len(rev) = 0
        \/ late' = late + 1 /\ Len(fwd) + Len(rev) <= 1 + late
    BY <1>1, <1>4, <1>5
  <2>2. Len(fwd') = Len(fwd) /\ late' \in Nat
    BY <1>1
  <2>. QED
    BY <1>2, <2>1, <2>2, AckFacts
<1>8. CountInv'
  BY <1>1, <1>2, <1>6, <1>7, CountKept
<1>. QED
  BY <1>3, <1>8

\* A fault leaves a frame in its place or takes it away.
LEMMA ForwardFaultAcks ==
  ASSUME AckInv, FramesKept, ForwardFault
  PROVE  OrderInv' /\ CountInv' /\ ModeInv'
<1>1. /\ UNCHANGED senderVars /\ UNCHANGED <<sphase, block, use_crc, buffer, rev, rphase, late>>
      /\ fwd # <<>> /\ rphase \notin ReceiverFinal
  BY DEF ForwardFault, Fault, senderVars, receiverVars
<1>2. /\ fwd \in Seq(Tokens) /\ block \in Nat /\ Len(fwd) \in Nat \ {0}
      /\ Head(fwd) = fwd[1] /\ fwd[1] \in Tokens /\ 1 \in 1..Len(fwd)
  <2>1. fwd \in Seq(Tokens) /\ block \in Nat
    BY AckFacts
  <2>2. Head(fwd) = fwd[1] /\ fwd[1] \in Tokens /\ Len(fwd) \in Nat \ {0}
    BY <1>1, <2>1, ClimbsTail
  <2>. QED
    BY <2>1, <2>2
<1>3. Len(fwd') \in {Len(fwd), Len(Tail(fwd))} => CountInv'
  <2>. SUFFICES ASSUME Len(fwd') \in {Len(fwd), Len(Tail(fwd))}
                PROVE  CountInv'
    OBVIOUS
  <2>1. /\ Len(fwd') <= 1 + late'
        /\ sphase \notin SenderFinal => Len(fwd') + Len(rev') <= 1 + late'
    BY <1>1, UnderWay
  <2>. QED
    BY <1>1, <2>1, CountKept, AckFacts
<1>4. sphase # "handshake" /\ rphase # "idle"
  BY <1>1, <1>2 DEF AckInv, OrderInv
<1>5. CASE fwd' = Tail(fwd)
  <2>1. rphase = "can" => Head(fwd).kind # "FRAME"
    BY <1>2 DEF AckInv, OrderInv
  <2>2. OrderInv' /\ ModeInv'
    BY <1>1, <1>4, <1>5, <2>1, ReceiverInOrder
  <2>. QED
    BY <1>3, <1>5, <2>2
<1>6. ASSUME NEW t \in Tokens, fwd' = <<t>> \o Tail(fwd),
             \/ /\ t.kind = "FRAME" /\ fwd[1].kind = "FRAME"
                /\ t.blk = fwd[1].blk /\ t.crc = fwd[1].crc /\ t.wire = "damaged"
             \/ t.kind # "FRAME" /\ fwd[1].kind # "FRAME"
      PROVE  OrderInv' /\ CountInv' /\ ModeInv'
  <2>1. Place(t) = Place(fwd[1]) /\ (t.kind = "FRAME" <=> fwd[1].kind = "FRAME")
    BY <1>6 DEF Place
  <2>2. /\ Climbs(fwd', block) /\ EndsOnce(fwd') /\ Len(fwd') = Len(fwd)
        /\ fwd'[1] = t
        /\ \A k \in 2..Len(fwd) : fwd'[k] = fwd[k]
    BY <1>1, <1>2, <1>6, <2>1, ClimbsHead DEF AckInv, OrderInv
  <2>3. \A k \in 1..Len(fwd) : k = 1 \/ k \in 2..Len(fwd)
    BY <1>2
  <2>4. \A k \in 1..Len(fwd) :
          /\ fwd'[k].kind = "FRAME" <=> fwd[k].kind = "FRAME"
          /\ fwd[k].kind = "FRAME" =>
               /\ fwd'[k].blk = fwd[k].blk /\ fwd'[k].crc = fwd[k].crc
               /\ fwd'[k].wire \in {fwd[k].wire, "damaged"}
    BY <1>6, <2>1, <2>2, <2>3
  <2>5. OrderInv'
    BY <1>1, <1>4, <2>2, <2>4 DEF AckInv, OrderInv
  <2>6. Mismatch' = Mismatch
    BY <1>1 DEF Mismatch
  <2>7. ModeInv'
    BY <1>1, <2>2, <2>4, <2>6 DEF AckInv, ModeInv
  <2>. QED
    BY <1>3, <2>2, <2>5, <2>7
<1>7. CASE /\ Head(fwd).kind = "FRAME"
           /\ fwd' = << [Head(fwd) EXCEPT !.wire = "damaged"] >> \o Tail(fwd)
  <2>. DEFINE t == [fwd[1] EXCEPT !.wire = "damaged"]
  <2>1. fwd[1].kind = "FRAME" /\ fwd' = <<t>> \o Tail(fwd)
    BY <1>2, <1>7
  <2>2. fwd[1] \in FrameTokens
    BY <1>2, <2>1, PlaceOfToken
  <2>3. /\ t \in Tokens /\ t.kind = "FRAME" /\ t.blk = fwd[1].blk
        /\ t.crc = fwd[1].crc /\ t.wire = "damaged"
    BY <2>1, <2>2 DEF FrameTokens, Tokens
  <2>. HIDE DEF t
  <2>. QED
    BY <1>6, <2>1, <2>3
<1>8. CASE /\ Head(fwd).kind # "FRAME"
           /\ \E k \in Noise : fwd' = << Ctl(k) >> \o Tail(fwd)
  <2>1. PICK k \in Noise : fwd' = << Ctl(k) >> \o Tail(fwd)
    BY <1>8
  <2>2. Ctl(k) \in Tokens /\ Ctl(k).kind # "FRAME"
    BY SentTokens, ConstantsAssumption DEF Tokens, Ctl, CtlKinds
  <2>. QED
    BY <1>2, <1>6, <1>8, <2>1, <2>2
<1>. QED
  BY <1>5, <1>7, <1>8 DEF ForwardFault, FramesKept

\* A fault never makes an ACK.
LEMMA ReverseFaultAcks ==
  ASSUME AckInv, ReverseFault
  PROVE  OrderInv' /\ CountInv' /\ ModeInv'
<1>1. /\ UNCHANGED <<sphase, block, use_crc, buffer, fwd, rphase, late>>
      /\ rev # <<>> /\ sphase \notin SenderFinal
  BY DEF ReverseFault, Fault, senderVars, receiverVars
<1>2. rev \in Seq(Replies) /\ Acks(rev) \in Nat /\ Len(rev) \in Nat /\ Len(rev) > 0
  BY <1>1, AckFacts
<1>3. /\ rev' \in Seq(Replies) /\ Acks(rev') <= Acks(rev) /\ Len(rev') <= Len(rev)
  <2>1. CASE rev' = Tail(rev)
    <3>1. rev' \in Seq(Replies) /\ Len(rev') = Len(rev) - 1
      BY <1>1, <1>2, <2>1, HeadTailProperties
    <3>2. Acks(rev') \in Nat
      BY <3>1, AcksNumber
    <3>3. Acks(rev) \in {Acks(rev'), Acks(rev') + 1}
      BY <1>1, <1>2, <2>1, AcksTail
    <3>. QED
      BY <1>2, <3>1, <3>2, <3>3
  <2>2. CASE \E k \in Noise \ {"EOT"} : rev' = <<k>> \o Tail(rev)
    <3>1. PICK k \in Noise \ {"EOT"} : rev' = <<k>> \o Tail(rev)
      BY <2>2
    <3>2. k \in Replies /\ k # "ACK"
      BY ConstantsAssumption DEF CtlKinds, Replies
    <3>. QED
      BY <1>1, <1>2, <3>1, <3>2, AcksRewrite
  <2>. QED
    BY <2>1, <2>2 DEF ReverseFault
<1>4. Acks(rev') \in Nat /\ Len(rev') \in Nat
  BY <1>3, AcksNumber, LenProperties
<1>5. Acks(rev) = 0 => Acks(rev') = 0
  BY <1>3, <1>4
<1>6. rphase # "idle"
  BY <1>2 DEF AckInv, OrderInv
<1>7. OrderInv'
  BY <1>1, <1>5, <1>6 DEF AckInv, OrderInv
<1>8. Mismatch' = Mismatch
  BY <1>1 DEF Mismatch
<1>9. ModeInv'
  BY <1>1, <1>5, <1>8 DEF AckInv, ModeInv
<1>10. /\ rphase \notin ReceiverFinal => Len(fwd) <= 1 + late /\ Len(fwd) + Len(rev) <= 1 + late
       /\ sphase = "block" => block + Acks(rev) <= Len(buffer) + 1 + late
       /\ block <= Len(buffer) + 1 + late
       /\ Len(buffer) <= block
  BY <1>1 DEF AckInv, CountInv
<1>11. /\ rphase \notin ReceiverFinal => Len(fwd) + Len(rev') <= 1 + late
       /\ sphase = "block" => block + Acks(rev') <= Len(buffer) + 1 + late
  BY <1>2, <1>3, <1>4, <1>10, AckFacts
<1>12. CountInv'
  BY <1>1, <1>10, <1>11 DEF CountInv
<1>. QED
  BY <1>7, <1>9, <1>12

\* At the start nothing is under way.
LEMMA InitAcks == Init => AckInv
<1>. SUFFICES ASSUME Init PROVE AckInv
  OBVIOUS
<1>1. /\ fwd = <<>> /\ rev = <<>> /\ buffer = <<>> /\ block = 1 /\ late = 0
      /\ sphase = "handshake" /\ rphase = "idle" /\ ~use_crc
      /\ Len(fwd) = 0 /\ Len(rev) = 0 /\ Len(buffer) = 0
  BY DEF Init
<1>2. Acks(rev) = 0
  <2>1. rev \in Seq(Replies)
    BY <1>1, EmptySeq
  <2>. QED
    BY <1>1, <2>1, AcksNumber
<1>3. OrderInv
  BY <1>1, <1>2 DEF OrderInv, Climbs, EndsOnce
<1>4. CountInv
  BY <1>1 DEF CountInv
<1>5. ModeInv
  BY <1>1, <1>2 DEF ModeInv
<1>6. PrefixInv
  BY ConstantsAssumption, EmptySeq DEF Init, PrefixInv, PrefixDelivered, NextNumber
<1>. QED
  BY <1>3, <1>4, <1>5, <1>6, InitType DEF AckInv

\* Every step keeps the counts.
LEMMA NextAcks ==
  ASSUME FramesKept, MaxLate + 2 <= NumMod
  PROVE  AckInv /\ [Next]_vars => AckInv'
<1>. SUFFICES ASSUME AckInv, [Next]_vars
              PROVE  AckInv'
  OBVIOUS
<1>1. TypeInv'
  BY NextType DEF AckInv
<1>2. PrefixInv'
  <2>1. CASE ReceiverReads /\ rphase = "run" /\ ReceiveBlock
    BY <2>1, ReceiveBlockAcks DEF ReceiverReads
  <2>2. CASE ~(ReceiverReads /\ rphase = "run" /\ ReceiveBlock)
    BY <2>2, OthersKeepBuffer DEF AckInv, PrefixInv, PrefixDelivered
  <2>. QED
    BY <2>1, <2>2
<1>3. OrderInv' /\ CountInv' /\ ModeInv'
  <2>1. CASE UNCHANGED vars
    <3>1. /\ UNCHANGED <<sphase, block, use_crc, rphase, buffer, fwd, rev, late>>
      BY <2>1 DEF vars, senderVars, receiverVars
    <3>2. OrderInv' /\ CountInv'
      BY <3>1 DEF AckInv, OrderInv, CountInv
    <3>3. Mismatch' = Mismatch
      BY <3>1 DEF Mismatch
    <3>. QED
      BY <3>1, <3>2, <3>3 DEF AckInv, ModeInv
  <2>. QED
    BY <2>1, SenderReadsAcks, SenderTimeoutAcks, ReceiverStartAcks, ReceiverReadsAcks,
       ReceiverTimeoutAcks, ForwardFaultAcks, ReverseFaultAcks DEF Next
<1>. QED
  BY <1>1, <1>2, <1>3 DEF AckInv

\* A timer that fires early leaves at most one ACK behind that the sender takes
\* for the next block's (an ACK carries no number), so that after any number of
\* losses it is ahead of the receiver by one block and those timers: while they
\* are fewer than the numbers, and the line leaves each frame one frame.
THEOREM AcksAreBounded ==
  ASSUME FramesKept, MaxLate + 2 <= NumMod
  PROVE  Spec => []StaleAcksBounded
<1>1. AckInv => StaleAcksBounded
  BY DEF AckInv, CountInv, StaleAcksBounded
<1>. QED
  BY <1>1, InitAcks, NextAcks, PTL DEF Spec

\* Under the same conditions the receiver accepts exactly the blocks of a prefix
\* in a file of any length: however often numbers repeat, none is taken for one
\* a cycle away (_receive_blocks' duplicate and sequence tests).
THEOREM PrefixOverWraps ==
  ASSUME FramesKept, MaxLate + 2 <= NumMod
  PROVE  Spec => []PrefixDelivered
<1>1. AckInv => PrefixDelivered
  BY DEF AckInv, PrefixInv
<1>. QED
  BY <1>1, InitAcks, NextAcks, PTL DEF Spec
=============================================================================
