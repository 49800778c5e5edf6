---------------------------- MODULE ZModemProofs ----------------------------
(***************************************************************************)
(* What ZModem keeps for every batch, line, number of sessions and bound:  *)
(* its types, that send() returns only when every file was received or     *)
(* refused, and that no session fails by itself but for a file of which    *)
(* nothing is left to send.  (ZModemDiskProofs: what becomes of the files.)*)
(***************************************************************************)
EXTENDS ZModem, SequenceTheorems, TLAPS

-----------------------------------------------------------------------------
(* Types *)

StreamTypes == {"ZDATA", "ZEOF"} \cup DataTypes

\* What the line carries to the receiver, and back.
Token == [type : Types, file : 0..NFiles, from : Nat, to : Nat, ok : BOOLEAN]

FwdTokens ==
  {t \in Token : /\ t.type \in DataTypes \cup {"INFO"} => t.file \in 1..NFiles
                 /\ t.type \in DataTypes => 1 <= t.from /\ t.from <= t.to}

RevTokens == {t \in Token : t.type \in HeaderTypes}

\* TypeOK, with the tokens, and where the files' numbers can be.
SenderTyped ==
  /\ sphase \in {"start", "init", "zrpos", "eof", "fin"} \cup Final
  /\ sfile \in 0..(NFiles + 1)
  /\ sphase \in {"zrpos", "eof"} => sfile \in 1..NFiles
  /\ sphase \in {"fin", "returned"} => sfile = NFiles + 1
  /\ attempt \in 0..(RetryLimit - 1)

ReceiverTyped ==
  /\ rphase \in {"start", "main", "info", "file", "data", "garbled"} \cup Final
  /\ rfile \in 0..NFiles
  /\ rphase \in {"file", "data"} => rfile \in 1..NFiles
  /\ rphase \in {"start", "main", "info"} => rfile = 0
  /\ base \in Nat
  /\ received \subseteq 1..NFiles

DiskTyped == disk \in [Names -> Seq((1..NFiles) \X Nat)]

BoundsTyped ==
  /\ skipped \subseteq 1..NFiles
  /\ faults \in 0..MaxFaults
  /\ late \in 0..MaxLate
  /\ sessions \in 1..(MaxSessions + 1)

Typed ==
  /\ SenderTyped /\ ReceiverTyped /\ DiskTyped /\ BoundsTyped
  /\ fwd \in Seq(FwdTokens)
  /\ rev \in Seq(RevTokens)

-----------------------------------------------------------------------------
(* Tokens in a sequence *)

Holds(q, T) == \E i \in 1..Len(q) : q[i].type \in T

\* After a token of T there is none of U.
NoneAfter(q, T, U) ==
  \A i, j \in 1..Len(q) : i < j /\ q[i].type \in T => q[j].type \notin U

\* The last INFO is that of file f.
LastInfo(q, f) ==
  \A i \in 1..Len(q) :
    /\ q[i].type = "INFO"
    /\ \A j \in 1..Len(q) : j > i => q[j].type # "INFO"
    => q[i].file = f

SameButOk(q, r) ==
  /\ Len(r) = Len(q)
  /\ \A i \in 1..Len(q) : /\ r[i].type = q[i].type /\ r[i].file = q[i].file
                          /\ r[i].from = q[i].from /\ r[i].to = q[i].to

LEMMA HoldsEmpty == \A T : ~Holds(<<>>, T)
BY DEF Holds

LEMMA TailAt ==
  ASSUME NEW S, NEW q \in Seq(S), q # <<>>
  PROVE  /\ Len(q) \in Nat \ {0} /\ Len(Tail(q)) = Len(q) - 1
         /\ Head(q) = q[1] /\ Head(q) \in S /\ Tail(q) \in Seq(S)
         /\ \A i \in 1..Len(Tail(q)) : Tail(q)[i] = q[i + 1]
<1>1. Len(q) \in Nat /\ Len(q) # 0
  BY LenProperties, EmptySeq
<1>. QED
  BY <1>1, HeadTailProperties

LEMMA ConcatAt ==
  ASSUME NEW S, NEW q \in Seq(S), NEW x \in Seq(S)
  PROVE  /\ q \o x \in Seq(S) /\ Len(q \o x) = Len(q) + Len(x)
         /\ Len(q) \in Nat /\ Len(x) \in Nat
         /\ \A i \in 1..Len(q) : (q \o x)[i] = q[i]
         /\ \A i \in 1..Len(x) : (q \o x)[Len(q) + i] = x[i]
         /\ \A i \in 1..(Len(q) + Len(x)) :
              i \in 1..Len(q) \/ (i - Len(q) \in 1..Len(x) /\ i = Len(q) + (i - Len(q)))
BY ConcatProperties, LenProperties

LEMMA HoldsTail ==
  ASSUME NEW S, NEW q \in Seq(S), q # <<>>, NEW T
  PROVE  Holds(q, T) <=> (Head(q).type \in T \/ Holds(Tail(q), T))
<1>1. ASSUME Holds(q, T) PROVE Head(q).type \in T \/ Holds(Tail(q), T)
  <2>1. PICK i \in 1..Len(q) : q[i].type \in T
    BY <1>1 DEF Holds
  <2>2. CASE i = 1
    <3>1. Head(q) = q[1]
      BY TailAt
    <3>. QED
      BY <2>1, <2>2, <3>1
  <2>3. CASE i # 1
    <3>1. i - 1 \in 1..Len(Tail(q)) /\ (i - 1) + 1 = i
      BY <2>3, TailAt
    <3>2. Tail(q)[i - 1] = q[i]
      BY <3>1, TailAt
    <3>. QED
      BY <2>1, <3>1, <3>2 DEF Holds
  <2>. QED
    BY <2>2, <2>3
<1>2. ASSUME Head(q).type \in T PROVE Holds(q, T)
  <2>1. 1 \in 1..Len(q) /\ q[1].type \in T
    BY <1>2, TailAt
  <2>. QED
    BY <2>1 DEF Holds
<1>3. ASSUME Holds(Tail(q), T) PROVE Holds(q, T)
  <2>1. PICK i \in 1..Len(Tail(q)) : Tail(q)[i].type \in T
    BY <1>3 DEF Holds
  <2>2. i + 1 \in 1..Len(q) /\ q[i + 1].type \in T
    BY <2>1, TailAt
  <2>. QED
    BY <2>2 DEF Holds
<1>. QED
  BY <1>1, <1>2, <1>3

LEMMA HoldsConcat ==
  ASSUME NEW S, NEW q \in Seq(S), NEW x \in Seq(S), NEW T
  PROVE  Holds(q \o x, T) <=> (Holds(q, T) \/ Holds(x, T))
<1>1. ASSUME Holds(q \o x, T) PROVE Holds(q, T) \/ Holds(x, T)
  <2>1. PICK i \in 1..(Len(q) + Len(x)) : (q \o x)[i].type \in T
    BY <1>1, ConcatAt DEF Holds
  <2>2. CASE i \in 1..Len(q)
    BY <2>1, <2>2, ConcatAt DEF Holds
  <2>3. CASE i - Len(q) \in 1..Len(x) /\ i = Len(q) + (i - Len(q))
    <3>1. x[i - Len(q)].type \in T
      BY <2>1, <2>3, ConcatAt
    <3>. QED
      BY <2>3, <3>1 DEF Holds
  <2>. QED
    BY <2>2, <2>3, ConcatAt
<1>2. ASSUME Holds(q, T) PROVE Holds(q \o x, T)
  <2>1. PICK i \in 1..Len(q) : q[i].type \in T
    BY <1>2 DEF Holds
  <2>2. i \in 1..Len(q \o x) /\ (q \o x)[i].type \in T
    BY <2>1, ConcatAt
  <2>. QED
    BY <2>2 DEF Holds
<1>3. ASSUME Holds(x, T) PROVE Holds(q \o x, T)
  <2>1. PICK i \in 1..Len(x) : x[i].type \in T
    BY <1>3 DEF Holds
  <2>2. Len(q) + i \in 1..Len(q \o x) /\ (q \o x)[Len(q) + i].type \in T
    BY <2>1, ConcatAt
  <2>. QED
    BY <2>2 DEF Holds
<1>. QED
  BY <1>1, <1>2, <1>3

LEMMA AfterTail ==
  ASSUME NEW S, NEW q \in Seq(S), q # <<>>, NEW T, NEW U, NoneAfter(q, T, U)
  PROVE  /\ NoneAfter(Tail(q), T, U)
         /\ Head(q).type \in T => ~Holds(Tail(q), U)
<1>1. \A i \in 1..Len(Tail(q)) : i + 1 \in 1..Len(q) /\ 1 < i + 1 /\ Tail(q)[i] = q[i + 1]
  BY TailAt
<1>2. 1 \in 1..Len(q) /\ Head(q) = q[1]
  BY TailAt
<1>3. NoneAfter(Tail(q), T, U)
  <2>1. SUFFICES ASSUME NEW i \in 1..Len(Tail(q)), NEW j \in 1..Len(Tail(q)),
                        i < j, Tail(q)[i].type \in T
        PROVE  Tail(q)[j].type \notin U
    BY DEF NoneAfter
  <2>2. i + 1 < j + 1
    BY <2>1
  <2>. QED
    BY <1>1, <2>1, <2>2 DEF NoneAfter
<1>4. ASSUME Head(q).type \in T PROVE ~Holds(Tail(q), U)
  BY <1>1, <1>2, <1>4 DEF NoneAfter, Holds
<1>. QED
  BY <1>3, <1>4

LEMMA AfterConcat ==
  ASSUME NEW S, NEW q \in Seq(S), NEW x \in Seq(S), NEW T, NEW U,
         NoneAfter(q, T, U), NoneAfter(x, T, U), ~Holds(q, T) \/ ~Holds(x, U)
  PROVE  NoneAfter(q \o x, T, U)
<1>1. SUFFICES ASSUME NEW i \in 1..(Len(q) + Len(x)), NEW j \in 1..(Len(q) + Len(x)),
                      i < j, (q \o x)[i].type \in T
      PROVE  (q \o x)[j].type \notin U
  BY ConcatAt DEF NoneAfter
<1>2. CASE i \in 1..Len(q) /\ j \in 1..Len(q)
  BY <1>1, <1>2, ConcatAt DEF NoneAfter
<1>3. CASE i \in 1..Len(q) /\ j - Len(q) \in 1..Len(x) /\ j = Len(q) + (j - Len(q))
  <2>1. Holds(q, T)
    BY <1>1, <1>3, ConcatAt DEF Holds
  <2>2. x[j - Len(q)].type \notin U
    BY <1>3, <2>1 DEF Holds
  <2>. QED
    BY <1>3, <2>2, ConcatAt
<1>4. CASE /\ i - Len(q) \in 1..Len(x) /\ i = Len(q) + (i - Len(q))
           /\ j - Len(q) \in 1..Len(x) /\ j = Len(q) + (j - Len(q))
  <2>1. i - Len(q) < j - Len(q)
    BY <1>1, ConcatAt
  <2>2. x[i - Len(q)].type \in T
    BY <1>1, <1>4, ConcatAt
  <2>3. x[j - Len(q)].type \notin U
    BY <1>4, <2>1, <2>2 DEF NoneAfter
  <2>. QED
    BY <1>4, <2>3, ConcatAt
<1>5. i \in 1..Len(q) \/ j - Len(q) \in 1..Len(x)
  BY <1>1, ConcatAt
<1>. QED
  BY <1>1, <1>2, <1>3, <1>4, <1>5, ConcatAt

LEMMA AfterNone ==
  ASSUME NEW q, NEW T, NEW U, ~Holds(q, T) \/ ~Holds(q, U)
  PROVE  NoneAfter(q, T, U)
BY DEF Holds, NoneAfter

LEMMA Alike ==
  ASSUME NEW q, NEW r, SameButOk(q, r)
  PROVE  /\ \A T : Holds(r, T) <=> Holds(q, T)
         /\ \A T, U : NoneAfter(q, T, U) => NoneAfter(r, T, U)
         /\ \A f : LastInfo(q, f) => LastInfo(r, f)
<1>1. \A T : Holds(r, T) <=> Holds(q, T)
  BY DEF SameButOk, Holds
<1>2. \A T, U : NoneAfter(q, T, U) => NoneAfter(r, T, U)
  BY DEF SameButOk, NoneAfter
<1>3. \A f : LastInfo(q, f) => LastInfo(r, f)
  BY DEF SameButOk, LastInfo
<1>. QED
  BY <1>1, <1>2, <1>3

LEMMA LastInfoTail ==
  ASSUME NEW S, NEW q \in Seq(S), q # <<>>, NEW f, LastInfo(q, f)
  PROVE  /\ LastInfo(Tail(q), f)
         /\ Head(q).type = "INFO" /\ ~Holds(Tail(q), {"INFO"}) => Head(q).file = f
<1>1. \A i \in 1..Len(Tail(q)) : i + 1 \in 1..Len(q) /\ Tail(q)[i] = q[i + 1]
  BY TailAt
<1>2. \A j \in 1..Len(q) : j # 1 => j - 1 \in 1..Len(Tail(q)) /\ (j - 1) + 1 = j
  BY TailAt
<1>3. 1 \in 1..Len(q) /\ Head(q) = q[1]
  BY TailAt
<1>4. LastInfo(Tail(q), f)
  <2>1. SUFFICES ASSUME NEW i \in 1..Len(Tail(q)), Tail(q)[i].type = "INFO",
                        \A j \in 1..Len(Tail(q)) : j > i => Tail(q)[j].type # "INFO"
        PROVE  Tail(q)[i].file = f
    BY DEF LastInfo
  <2>2. ASSUME NEW j \in 1..Len(q), j > i + 1 PROVE q[j].type # "INFO"
    <3>1. j - 1 > i /\ j # 1
      BY <2>2
    <3>. QED
      BY <1>1, <1>2, <2>1, <3>1
  <2>. QED
    BY <1>1, <2>1, <2>2 DEF LastInfo
<1>5. ASSUME Head(q).type = "INFO", ~Holds(Tail(q), {"INFO"}) PROVE Head(q).file = f
  <2>1. ASSUME NEW j \in 1..Len(q), j > 1 PROVE q[j].type # "INFO"
    <3>1. j - 1 \in 1..Len(Tail(q)) /\ (j - 1) + 1 = j
      BY <1>2, <2>1
    <3>2. Tail(q)[j - 1] = q[j]
      BY <1>1, <3>1
    <3>. QED
      BY <1>5, <3>1, <3>2 DEF Holds
  <2>. QED
    BY <1>3, <1>5, <2>1 DEF LastInfo
<1>. QED
  BY <1>4, <1>5

LEMMA LastInfoConcat ==
  ASSUME NEW S, NEW q \in Seq(S), NEW x \in Seq(S), NEW f, LastInfo(x, f),
         LastInfo(q, f) \/ Holds(x, {"INFO"})
  PROVE  LastInfo(q \o x, f)
<1>1. SUFFICES ASSUME NEW i \in 1..(Len(q) + Len(x)), (q \o x)[i].type = "INFO",
                      \A j \in 1..(Len(q) + Len(x)) : j > i => (q \o x)[j].type # "INFO"
      PROVE  (q \o x)[i].file = f
  BY ConcatAt DEF LastInfo
<1>2. CASE i \in 1..Len(q)
  <2>1. \A j \in 1..Len(x) : x[j].type # "INFO"
    <3>1. SUFFICES ASSUME NEW j \in 1..Len(x) PROVE x[j].type # "INFO"
      OBVIOUS
    <3>2. Len(q) + j \in 1..(Len(q) + Len(x)) /\ Len(q) + j > i
      BY <1>2, ConcatAt
    <3>. QED
      BY <1>1, <3>2, ConcatAt
  <2>2. LastInfo(q, f)
    BY <2>1 DEF Holds
  <2>3. \A j \in 1..Len(q) : j > i => q[j].type # "INFO"
    BY <1>1, ConcatAt
  <2>. QED
    BY <1>1, <1>2, <2>2, <2>3, ConcatAt DEF LastInfo
<1>3. CASE i - Len(q) \in 1..Len(x) /\ i = Len(q) + (i - Len(q))
  <2>1. ASSUME NEW j \in 1..Len(x), j > i - Len(q) PROVE x[j].type # "INFO"
    <3>1. Len(q) + j \in 1..(Len(q) + Len(x)) /\ Len(q) + j > i
      BY <1>3, <2>1, ConcatAt
    <3>. QED
      BY <1>1, <3>1, ConcatAt
  <2>2. (q \o x)[i] = x[i - Len(q)]
    BY <1>3, ConcatAt
  <2>. QED
    BY <1>1, <1>3, <2>1, <2>2 DEF LastInfo
<1>. QED
  BY <1>2, <1>3, ConcatAt

-----------------------------------------------------------------------------
(* What is on the line *)

Confirming == {"ZRINIT", "ZACK"}

Alive    == rphase \notin Final
Streams  == Holds(fwd, StreamTypes)
Infos    == Holds(fwd, {"INFO"})
Asked    == Holds(rev, {"ZRPOS"})
Answered == Holds(rev, Confirming)
Sending  == sphase = "eof" \/ Streams

\* The session's first header is in front.  On the way to a receiver that still
\* reads, no file follows a stream.
FwdInv ==
  /\ NoneAfter(fwd, Types, {"ZRQINIT"})
  /\ Alive => /\ NoneAfter(fwd, StreamTypes, {"INFO"})
              /\ NoneAfter(fwd, {"ZEOF"}, StreamTypes)

\* A position is asked for once, after all that came before it, and while
\* nothing is sent; then the receiver waits for the file.
RevInv ==
  /\ NoneAfter(rev, {"ZRPOS"}, {"ZRPOS"} \cup Confirming)
  /\ Asked => rphase \in {"file"} \cup Final
  /\ Sending => ~Asked

\* Where the two ends can be.
PhaseInv ==
  /\ sphase = "start" => fwd = <<>> /\ ~Asked
  /\ rphase = "start" => rev = <<>> /\ sphase \notin {"zrpos", "eof", "fin"}
  /\ Holds(fwd, {"ZRQINIT"}) => ~Asked /\ ~Sending
  /\ Alive /\ Streams => sphase \in {"eof"} \cup Final
  /\ Sending /\ rphase \in {"start", "main", "info"} => ~Infos

\* The receiver has, or will have, the file that the sender is at.
FileInv ==
  sphase \in {"zrpos", "eof"} =>
    /\ LastInfo(fwd, sfile)
    /\ ~Infos /\ rphase \in {"file", "data"} => rfile = sfile

\* What confirms a file says so of the file the sender is at; or it is the last
\* word of a receiver that died.
ConfirmInv ==
  sphase = "eof" /\ Answered =>
    /\ Alive => ~Streams
    /\ \/ sfile \in received
       \/ /\ rphase = "cut" /\ rfile = sfile
          /\ NoneAfter(rev, Confirming, HeaderTypes)

\* The sender left no file behind that was not received or refused; but for
\* the last one, when the receiver died and will not answer.
KnownInv ==
  sphase \in {"zrpos", "eof", "fin", "returned"} =>
    \A f \in 1..(sfile - 1) :
      \/ f \in received \cup skipped
      \/ f = sfile - 1 /\ rphase = "cut" /\ rfile = f /\ rev = <<>>

LineInv == FwdInv /\ RevInv /\ PhaseInv /\ FileInv /\ ConfirmInv /\ KnownInv

-----------------------------------------------------------------------------
(* What the sender writes *)

LEMMA Constants ==
  /\ NFiles \in Nat
  /\ \A f \in 1..NFiles : Sizes[f] \in Nat /\ Dest[f] \in Names
  /\ SubSize \in Nat \ {0} /\ OffsetMod \in Nat \ {0} /\ RetryLimit \in Nat \ {0}
  /\ MaxFaults \in Nat /\ MaxLate \in Nat /\ MaxSessions \in Nat
<1>1. NFiles \in Nat
  BY ConstantsAssumption, LenProperties DEF NFiles
<1>2. \A f \in 1..NFiles : Sizes[f] \in Nat
  BY ConstantsAssumption, ElementOfSeq DEF NFiles
<1>3. \A f \in 1..NFiles : Dest[f] \in Names
  BY DEF Names
<1>. QED
  BY <1>1, <1>2, <1>3, ConstantsAssumption

LEMMA OffsetNat == \A n \in Nat : Offset(n) \in Nat
BY Constants DEF Offset

\* In how many pieces `left` bytes go.
LEMMA Pieces ==
  ASSUME NEW left \in Nat
  PROVE  LET n == (left + SubSize - 1) \div SubSize
         IN /\ n \in Nat
            /\ n = 0 <=> left = 0
            /\ n * SubSize >= left
            /\ n # 0 => (n - 1) * SubSize < left
<1>. DEFINE n == (left + SubSize - 1) \div SubSize
            m == (left + SubSize - 1) % SubSize
<1>1. SubSize \in Nat \ {0} /\ left + SubSize - 1 \in Nat
  BY Constants
<1>2. /\ n \in Nat /\ m \in 0..(SubSize - 1)
      /\ left + SubSize - 1 = n * SubSize + m
  BY <1>1
<1>. HIDE DEF n, m
<1>3. n * SubSize >= left
  BY <1>1, <1>2
<1>4. ASSUME n # 0 PROVE (n - 1) * SubSize < left
  BY <1>1, <1>2, <1>4
<1>5. n = 0 <=> left = 0
  BY <1>1, <1>2, <1>3
<1>. QED
  BY <1>2, <1>3, <1>4, <1>5 DEF n

LEMMA HeaderToken ==
  /\ \A t \in HeaderTypes : \A n \in Nat :
       /\ Positioned(t, n) \in FwdTokens /\ Positioned(t, n) \in RevTokens
       /\ Positioned(t, n).type = t /\ Positioned(t, n).from = Offset(n)
       /\ Header(t) \in FwdTokens /\ Header(t) \in RevTokens
       /\ Header(t).type = t
  /\ \A f \in 1..NFiles : Info(f) \in FwdTokens /\ Info(f).type = "INFO" /\ Info(f).file = f
<1>1. \A t \in HeaderTypes : \A n \in Nat :
        /\ Positioned(t, n) \in FwdTokens /\ Positioned(t, n) \in RevTokens
        /\ Positioned(t, n).type = t /\ Positioned(t, n).from = Offset(n)
  BY OffsetNat, Constants
     DEF Positioned, FwdTokens, RevTokens, Token, Types, HeaderTypes, DataTypes
<1>2. \A f \in 1..NFiles : Info(f) \in FwdTokens /\ Info(f).type = "INFO" /\ Info(f).file = f
  BY Constants DEF Info, FwdTokens, Token, Types, DataTypes
<1>3. 0 \in Nat /\ \A t : Header(t) = Positioned(t, 0)
  BY DEF Header
<1>. QED
  BY <1>1, <1>2, <1>3

Count(f, offset) ==
  ((IF Sizes[f] > offset THEN Sizes[f] - offset ELSE 0) + SubSize - 1) \div SubSize

End(f, offset, k) ==
  IF k = Count(f, offset) THEN Sizes[f] ELSE offset + k * SubSize

\* The pieces of a file from offset on lie in it, one after the other.
LEMMA PiecesLie ==
  ASSUME NEW f \in 1..NFiles, NEW offset \in Nat
  PROVE  /\ Count(f, offset) \in Nat
         /\ Count(f, offset) = 0 <=> Sizes[f] <= offset
         /\ \A k \in 1..Count(f, offset) :
              /\ offset + (k - 1) * SubSize + 1 \in Nat
              /\ 1 <= offset + (k - 1) * SubSize + 1
              /\ offset + (k - 1) * SubSize + 1 <= End(f, offset, k)
              /\ End(f, offset, k) <= Sizes[f]
              /\ End(f, offset, k) \in Nat
<1>. DEFINE left == IF Sizes[f] > offset THEN Sizes[f] - offset ELSE 0
            n == Count(f, offset)
<1>1. Sizes[f] \in Nat /\ SubSize \in Nat \ {0} /\ NFiles \in Nat
  BY Constants
<1>2. left \in Nat /\ (left = 0 <=> Sizes[f] <= offset) /\ (left # 0 => left = Sizes[f] - offset)
  BY <1>1
<1>3. n = (left + SubSize - 1) \div SubSize
  BY DEF Count
<1>4. \A k : End(f, offset, k) = IF k = n THEN Sizes[f] ELSE offset + k * SubSize
  BY DEF End
<1>. HIDE DEF left, n
<1>5. n \in Nat /\ (n = 0 <=> left = 0) /\ n * SubSize >= left /\ (n # 0 => (n - 1) * SubSize < left)
  BY <1>2, <1>3, Pieces
<1>6. ASSUME NEW k \in 1..n
      PROVE  /\ offset + (k - 1) * SubSize + 1 \in Nat
             /\ 1 <= offset + (k - 1) * SubSize + 1
             /\ offset + (k - 1) * SubSize + 1 <= End(f, offset, k)
             /\ End(f, offset, k) <= Sizes[f]
             /\ End(f, offset, k) \in Nat
  <2>1. left = Sizes[f] - offset /\ (n - 1) * SubSize < left /\ n # 0
    BY <1>2, <1>5
  <2>2. (k - 1) * SubSize \in Nat /\ k * SubSize = (k - 1) * SubSize + SubSize
    BY <1>1, <1>5
  <2>3. CASE k = n
    BY <1>1, <1>4, <2>1, <2>2, <2>3
  <2>4. CASE k # n
    <3>1. k <= n - 1
      BY <1>5, <2>4
    <3>2. k * SubSize <= (n - 1) * SubSize
      BY <1>1, <1>5, <3>1
    <3>3. (n - 1) * SubSize \in Nat
      BY <1>1, <1>5, <2>1
    <3>. QED
      BY <1>1, <1>4, <2>1, <2>2, <2>4, <3>2, <3>3
  <2>. QED
    BY <2>3, <2>4
<1>. QED
  BY <1>2, <1>5, <1>6 DEF n

\* The subpackets from offset on.
LEMMA SubpacketsAre ==
  ASSUME NEW f \in 1..NFiles, NEW offset \in Nat
  PROVE  /\ Subpackets(f, offset) \in Seq(FwdTokens)
         /\ Len(Subpackets(f, offset)) = Count(f, offset)
         /\ \A i \in 1..Count(f, offset) :
              Subpackets(f, offset)[i] =
                Data(f, offset + (i - 1) * SubSize + 1, End(f, offset, i),
                     Term(i, Count(f, offset)))
<1>. DEFINE n == Count(f, offset)
            D(k) == Data(f, offset + (k - 1) * SubSize + 1, End(f, offset, k), Term(k, n))
<1>1. Subpackets(f, offset) = [k \in 1..n |-> D(k)]
  BY DEF Subpackets, Count, End
<1>2. ASSUME NEW k \in 1..n PROVE D(k) \in FwdTokens
  <2>. DEFINE a == offset + (k - 1) * SubSize + 1
              e == End(f, offset, k)
              t == Term(k, n)
  <2>1. a \in Nat /\ 1 <= a /\ a <= e /\ e \in Nat
    BY PiecesLie
  <2>2. t \in DataTypes
    BY DEF Term, DataTypes
  <2>. HIDE DEF a, e, t
  <2>3. Data(f, a, e, t) \in FwdTokens
    BY <2>1, <2>2, Constants DEF Data, FwdTokens, Token, Types, DataTypes
  <2>. QED
    BY <2>3 DEF a, e, t
<1>3. n \in Nat
  BY PiecesLie
<1>. HIDE DEF n, D
<1>4. [k \in 1..n |-> D(k)] \in Seq(FwdTokens) /\ Len([k \in 1..n |-> D(k)]) = n
  BY <1>2, <1>3, IsASeq
<1>5. \A i \in 1..n : [k \in 1..n |-> D(k)][i] = D(i)
  OBVIOUS
<1>. QED
  BY <1>1, <1>4, <1>5 DEF n, D

LEMMA SubpacketFields ==
  ASSUME NEW f \in 1..NFiles, NEW offset \in Nat, NEW i \in 1..Count(f, offset)
  PROVE  /\ Subpackets(f, offset)[i].type = Term(i, Count(f, offset))
         /\ Subpackets(f, offset)[i].file = f
         /\ Subpackets(f, offset)[i].from = offset + (i - 1) * SubSize + 1
         /\ Subpackets(f, offset)[i].to = End(f, offset, i)
         /\ Subpackets(f, offset)[i].ok
<1>. DEFINE a == offset + (i - 1) * SubSize + 1
            e == End(f, offset, i)
            t == Term(i, Count(f, offset))
<1>1. Subpackets(f, offset)[i] = Data(f, a, e, t)
  BY SubpacketsAre
<1>. HIDE DEF a, e, t
<1>2. /\ Subpackets(f, offset)[i].type = t /\ Subpackets(f, offset)[i].file = f
      /\ Subpackets(f, offset)[i].from = a /\ Subpackets(f, offset)[i].to = e
      /\ Subpackets(f, offset)[i].ok
  BY <1>1 DEF Data
<1>. QED
  BY <1>2 DEF a, e, t

\* ZDATA, the subpackets, ZEOF.
LEMMA StreamIs ==
  ASSUME NEW f \in 1..NFiles, NEW offset \in Nat
  PROVE  LET q == Stream(f, offset)
             p == Subpackets(f, offset)
             n == Count(f, offset)
         IN /\ q \in Seq(FwdTokens) /\ Len(q) = n + 2 /\ n \in Nat
            /\ q[1].type = "ZDATA" /\ q[n + 2].type = "ZEOF" /\ q[1].ok /\ q[n + 2].ok
            /\ \A i \in 1..n : q[i + 1] = p[i] /\ p[i].type \in DataTypes
            /\ \A i \in 1..(n + 2) : i = 1 \/ i = n + 2 \/ (i - 1 \in 1..n /\ i = (i - 1) + 1)
<1>. DEFINE p == Subpackets(f, offset)
            n == Count(f, offset)
            sent == IF Sizes[f] > offset THEN Sizes[f] ELSE offset
            z == Positioned("ZDATA", offset)
            e == Positioned("ZEOF", sent)
            q == Stream(f, offset)
<1>1. n \in Nat /\ p \in Seq(FwdTokens) /\ Len(p) = n /\ \A i \in 1..n : p[i].type \in DataTypes
  <2>1. n \in Nat /\ p \in Seq(FwdTokens) /\ Len(p) = n
    BY PiecesLie, SubpacketsAre
  <2>2. ASSUME NEW i \in 1..n PROVE p[i].type \in DataTypes
    <3>1. p[i].type = Term(i, n)
      BY SubpacketFields, Zenon
    <3>. QED
      BY <3>1 DEF Term, DataTypes
  <2>. QED
    BY <2>1, <2>2
<1>2. sent \in Nat
  BY Constants
<1>3. z \in FwdTokens /\ e \in FwdTokens /\ z.type = "ZDATA" /\ e.type = "ZEOF"
  BY <1>2, HeaderToken DEF HeaderTypes
<1>13. z.ok /\ e.ok
  BY DEF Positioned
<1>4. q = <<z>> \o p \o <<e>>
  BY DEF Stream
<1>. HIDE DEF p, n, sent, z, e, q
<1>5. /\ <<z>> \in Seq(FwdTokens) /\ Len(<<z>>) = 1 /\ <<z>>[1] = z
      /\ <<e>> \in Seq(FwdTokens) /\ Len(<<e>>) = 1 /\ <<e>>[1] = e
  BY <1>3
<1>6. DEFINE y == <<z>> \o p
<1>7. /\ y \in Seq(FwdTokens) /\ Len(y) = n + 1
      /\ y[1] = z /\ \A i \in 1..n : y[1 + i] = p[i]
  BY <1>1, <1>5, ConcatAt
<1>. HIDE DEF y
<1>8. /\ y \o <<e>> \in Seq(FwdTokens) /\ Len(y \o <<e>>) = n + 2
      /\ \A i \in 1..(n + 1) : (y \o <<e>>)[i] = y[i]
      /\ (y \o <<e>>)[n + 1 + 1] = e
  BY <1>1, <1>5, <1>7, ConcatAt
<1>9. q = y \o <<e>>
  BY <1>4 DEF y
<1>10. q[1] = z /\ q[n + 2] = e
  BY <1>1, <1>7, <1>8, <1>9
<1>11. \A i \in 1..n : q[i + 1] = p[i]
  BY <1>1, <1>7, <1>8, <1>9
<1>12. \A i \in 1..(n + 2) : i = 1 \/ i = n + 2 \/ (i - 1 \in 1..n /\ i = (i - 1) + 1)
  BY <1>1
<1>. QED
  BY <1>1, <1>3, <1>8, <1>9, <1>10, <1>11, <1>12, <1>13 DEF p, n, q

LEMMA StreamShape ==
  ASSUME NEW f \in 1..NFiles, NEW offset \in Nat
  PROVE  LET q == Stream(f, offset)
         IN /\ q \in Seq(FwdTokens)
            /\ Holds(q, StreamTypes)
            /\ ~Holds(q, {"INFO"}) /\ ~Holds(q, {"ZRQINIT"})
            /\ NoneAfter(q, {"ZEOF"}, StreamTypes)
<1>. DEFINE q == Stream(f, offset)
            n == Count(f, offset)
<1>1. /\ q \in Seq(FwdTokens) /\ Len(q) = n + 2 /\ n \in Nat
      /\ q[1].type = "ZDATA" /\ q[n + 2].type = "ZEOF"
  BY StreamIs
<1>2. /\ \A i \in 1..n : q[i + 1].type \in DataTypes
      /\ \A i \in 1..(n + 2) : i = 1 \/ i = n + 2 \/ (i - 1 \in 1..n /\ i = (i - 1) + 1)
  BY StreamIs, Zenon
<1>. HIDE DEF q, n
<1>3. ASSUME NEW i \in 1..(n + 2)
      PROVE  q[i].type \in StreamTypes /\ (q[i].type = "ZEOF" => i = n + 2)
  <2>1. CASE i = 1
    BY <1>1, <2>1 DEF StreamTypes
  <2>2. CASE i = n + 2
    BY <1>1, <2>2 DEF StreamTypes
  <2>3. CASE i - 1 \in 1..n /\ i = (i - 1) + 1
    <3>1. q[i].type \in DataTypes
      BY <1>2, <2>3, Zenon
    <3>. QED
      BY <3>1 DEF StreamTypes, DataTypes
  <2>. QED
    BY <1>2, <2>1, <2>2, <2>3
<1>4. Holds(q, StreamTypes)
  <2>1. 1 \in 1..Len(q)
    BY <1>1
  <2>. QED
    BY <1>1, <1>3, <2>1 DEF Holds
<1>5. ~Holds(q, {"INFO"}) /\ ~Holds(q, {"ZRQINIT"})
  BY <1>1, <1>3 DEF Holds, StreamTypes, DataTypes
<1>6. NoneAfter(q, {"ZEOF"}, StreamTypes)
  BY <1>1, <1>3 DEF NoneAfter
<1>. QED
  BY <1>1, <1>4, <1>5, <1>6 DEF q

LEMMA Damaged ==
  ASSUME NEW S \in {FwdTokens, RevTokens}, NEW q \in Seq(S), q # <<>>
  PROVE  LET r == << [Head(q) EXCEPT !.ok = FALSE] >> \o Tail(q)
         IN r \in Seq(S) /\ SameButOk(q, r) /\ r # <<>>
<1>. DEFINE h == [Head(q) EXCEPT !.ok = FALSE]
            r == << h >> \o Tail(q)
<1>1. Head(q) \in S /\ S \subseteq Token
  BY TailAt DEF FwdTokens, RevTokens
<1>2. /\ h \in Token /\ h.type = Head(q).type /\ h.file = Head(q).file
      /\ h.from = Head(q).from /\ h.to = Head(q).to
  BY <1>1 DEF Token
<1>3. h \in S
  BY <1>1, <1>2 DEF FwdTokens, RevTokens
<1>. HIDE DEF h
<1>4. << h >> \in Seq(S) /\ Len(<<h>>) = 1 /\ <<h>>[1] = h
  BY <1>3
<1>5. /\ r \in Seq(S) /\ Len(r) = 1 + Len(Tail(q))
      /\ r[1] = h /\ \A i \in 1..Len(Tail(q)) : r[1 + i] = Tail(q)[i]
  BY <1>4, TailAt, ConcatAt
<1>6. Len(q) \in Nat \ {0} /\ Len(r) = Len(q)
  BY <1>5, TailAt
<1>. HIDE DEF r
<1>7. ASSUME NEW i \in 1..Len(q)
      PROVE  /\ r[i].type = q[i].type /\ r[i].file = q[i].file
             /\ r[i].from = q[i].from /\ r[i].to = q[i].to
  <2>1. CASE i = 1
    <3>1. r[i] = h /\ q[i] = Head(q)
      BY <1>5, <2>1, TailAt
    <3>. QED
      BY <1>2, <3>1
  <2>2. CASE i # 1
    <3>1. i - 1 \in 1..Len(Tail(q)) /\ 1 + (i - 1) = i /\ (i - 1) + 1 = i
      BY <2>2, TailAt
    <3>2. Tail(q)[i - 1] = q[i]
      BY <3>1, TailAt
    <3>3. r[i] = Tail(q)[i - 1]
      BY <1>5, <3>1
    <3>. QED
      BY <3>2, <3>3
  <2>. QED
    BY <2>1, <2>2
<1>8. r # <<>>
  BY <1>6, EmptySeq
<1>. QED
  BY <1>5, <1>6, <1>7, <1>8 DEF SameButOk, r, h

LEMMA BytesAre ==
  ASSUME NEW f \in 1..NFiles, NEW a \in Nat, NEW b \in Nat
  PROVE  /\ Bytes(f, a, b) \in Seq((1..NFiles) \X Nat)
         /\ a <= b + 1 => Len(Bytes(f, a, b)) = b + 1 - a
         /\ \A i \in 1..(b + 1 - a) : Bytes(f, a, b)[i] = <<f, a - 1 + i>>
<1>1. \A i \in 1..(b + 1 - a) : Byte(f, a - 1 + i) \in (1..NFiles) \X Nat
  BY DEF Byte
<1>2. CASE a <= b + 1
  <2>1. b + 1 - a \in Nat
    BY <1>2
  <2>2. Bytes(f, a, b) \in Seq((1..NFiles) \X Nat) /\ Len(Bytes(f, a, b)) = b + 1 - a
    BY <1>1, <2>1, IsASeq DEF Bytes
  <2>. QED
    BY <2>2 DEF Bytes, Byte
<1>3. CASE ~(a <= b + 1)
  <2>1. 1..(b + 1 - a) = 1..0
    BY <1>3
  <2>2. Bytes(f, a, b) = [i \in 1..0 |-> Byte(f, a - 1 + i)]
    BY <2>1 DEF Bytes
  <2>3. Bytes(f, a, b) \in Seq((1..NFiles) \X Nat)
    BY <1>1, <2>1, <2>2, IsASeq
  <2>. QED
    BY <1>3, <2>1, <2>3
<1>. QED
  BY <1>2, <1>3

-----------------------------------------------------------------------------
(* Types are kept *)

LEMMA Written ==
  /\ \A q \in Seq(FwdTokens), t \in HeaderTypes : Append(q, Header(t)) \in Seq(FwdTokens)
  /\ \A q \in Seq(RevTokens), t \in HeaderTypes : Append(q, Header(t)) \in Seq(RevTokens)
  /\ \A q \in Seq(RevTokens), t \in HeaderTypes, n \in Nat :
       Append(q, Positioned(t, n)) \in Seq(RevTokens)
  /\ \A q \in Seq(FwdTokens), f \in 1..NFiles :
       q \o <<Header("ZFILE"), Info(f)>> \in Seq(FwdTokens)
  /\ \A q \in Seq(RevTokens) :
       q \o <<Header("ZACK"), Header("ZRINIT")>> \in Seq(RevTokens)
<1>1. \A t \in HeaderTypes : Header(t) \in FwdTokens /\ Header(t) \in RevTokens
  BY HeaderToken
<1>2. \A t \in HeaderTypes, n \in Nat : Positioned(t, n) \in RevTokens
  BY HeaderToken
<1>3. \A f \in 1..NFiles : Info(f) \in FwdTokens
  BY HeaderToken
<1>4. "ZFILE" \in HeaderTypes /\ "ZACK" \in HeaderTypes /\ "ZRINIT" \in HeaderTypes
  BY DEF HeaderTypes
<1>5. \A f \in 1..NFiles : <<Header("ZFILE"), Info(f)>> \in Seq(FwdTokens)
  BY <1>1, <1>3, <1>4
<1>6. <<Header("ZACK"), Header("ZRINIT")>> \in Seq(RevTokens)
  BY <1>1, <1>4
<1>7. \A q \in Seq(FwdTokens), t \in HeaderTypes : Append(q, Header(t)) \in Seq(FwdTokens)
  BY <1>1, AppendProperties
<1>8. \A q \in Seq(RevTokens), t \in HeaderTypes : Append(q, Header(t)) \in Seq(RevTokens)
  BY <1>1, AppendProperties
<1>9. \A q \in Seq(RevTokens), t \in HeaderTypes, n \in Nat :
        Append(q, Positioned(t, n)) \in Seq(RevTokens)
  BY <1>2, AppendProperties
<1>10. \A q \in Seq(FwdTokens), f \in 1..NFiles :
         q \o <<Header("ZFILE"), Info(f)>> \in Seq(FwdTokens)
  BY <1>5, ConcatProperties
<1>11. \A q \in Seq(RevTokens) : q \o <<Header("ZACK"), Header("ZRINIT")>> \in Seq(RevTokens)
  BY <1>6, ConcatProperties
<1>. QED
  BY <1>7, <1>8, <1>9, <1>10, <1>11

LEMMA TypedInit == Init => Typed
<1>. SUFFICES ASSUME Init PROVE Typed
  OBVIOUS
<1>1. DiskTyped
  BY DEF Init, DiskTyped
<1>2. fwd \in Seq(FwdTokens) /\ rev \in Seq(RevTokens)
  BY DEF Init
<1>3. SenderTyped /\ ReceiverTyped
  BY Constants DEF Init, SenderTyped, ReceiverTyped
<1>4. BoundsTyped
  BY Constants DEF Init, BoundsTyped
<1>. QED
  BY <1>1, <1>2, <1>3, <1>4 DEF Typed

\* The ways in which the sender's variables change.
LEMMA GoToTyped ==
  ASSUME fwd \in Seq(FwdTokens), NEW f \in 1..(NFiles + 1), GoTo(f)
  PROVE  /\ fwd' \in Seq(FwdTokens) /\ SenderTyped' /\ sfile' = f
         /\ \/ /\ sphase' = "zrpos" /\ f \in 1..NFiles
               /\ fwd' = fwd \o <<Header("ZFILE"), Info(f)>>
            \/ /\ sphase' = "fin" /\ f = NFiles + 1
               /\ fwd' = Append(fwd, Header("ZFIN"))
<1>. NFiles \in Nat /\ RetryLimit \in Nat \ {0}
  BY Constants
<1>1. CASE f <= NFiles /\ sphase' = "zrpos" /\ fwd' = fwd \o <<Header("ZFILE"), Info(f)>>
  <2>1. fwd' \in Seq(FwdTokens)
    BY <1>1, Written
  <2>2. SenderTyped'
    BY <1>1 DEF GoTo, SenderTyped
  <2>. QED
    BY <1>1, <2>1, <2>2 DEF GoTo
<1>2. CASE f > NFiles /\ sphase' = "fin" /\ fwd' = Append(fwd, Header("ZFIN"))
  <2>1. fwd' \in Seq(FwdTokens)
    BY <1>2, Written DEF HeaderTypes
  <2>2. f = NFiles + 1
    BY <1>2
  <2>3. SenderTyped'
    BY <1>2, <2>2 DEF GoTo, SenderTyped
  <2>. QED
    BY <1>2, <2>1, <2>2, <2>3 DEF GoTo
<1>. QED
  BY <1>1, <1>2 DEF GoTo

LEMMA SenderEndsTyped ==
  ASSUME SenderTyped, NEW how \in Failures \cup {"returned"}, SenderEnds(how),
         how = "returned" => sphase = "fin"
  PROVE  SenderTyped'
BY DEF SenderTyped, SenderEnds, Final, Failures

LEMMA AttemptTyped ==
  ASSUME SenderTyped, NEW how \in Failures, NextAttempt(how), UNCHANGED sfile
  PROVE  SenderTyped'
<1>. RetryLimit \in Nat \ {0}
  BY Constants
<1>1. CASE attempt + 1 < RetryLimit /\ attempt' = attempt + 1 /\ UNCHANGED sphase
  BY <1>1 DEF SenderTyped
<1>2. CASE sphase' = how /\ UNCHANGED attempt
  BY <1>2 DEF SenderTyped, Final, Failures
<1>. QED
  BY <1>1, <1>2 DEF NextAttempt

\* What SenderReads may do, each with what it leaves alone.
SenderAnswers ==
  \/ sphase = "init" /\ GoTo(1) /\ UNCHANGED skipped
  \/ /\ sphase = "zrpos" /\ Head(rev).type = "ZRPOS" /\ sphase' = "eof" /\ attempt' = 0
     /\ fwd' = fwd \o Stream(sfile, Head(rev).from) /\ UNCHANGED <<sfile, skipped>>
  \/ sphase = "zrpos" /\ GoTo(sfile + 1) /\ skipped' = skipped \cup {sfile}
  \/ sphase = "eof" /\ Head(rev).type \in {"ZRINIT", "ZACK"} /\ GoTo(sfile + 1) /\ UNCHANGED skipped
  \/ \E how \in Failures \cup {"returned"} :
       SenderEnds(how) /\ (how = "returned" => sphase = "fin") /\ UNCHANGED skipped
  \/ \E how \in Failures :
       /\ sphase \in {"zrpos", "eof"} /\ NextAttempt(how) /\ UNCHANGED <<sfile, fwd, skipped>>

LEMMA SenderReadsOne ==
  ASSUME SenderReads
  PROVE  SenderAnswers
<1>. USE DEF SenderAnswers
<1>1. CASE AwaitZrinit
  BY <1>1 DEF AwaitZrinit, Failures
<1>2. CASE AwaitZrpos
  BY <1>2 DEF AwaitZrpos, Failures
<1>3. CASE AwaitConfirmation
  BY <1>3 DEF AwaitConfirmation, Confirms, Failures
<1>4. CASE SenderEnds("protocol") /\ UNCHANGED skipped
  BY <1>4 DEF Failures
<1>5. CASE sphase = "fin" /\ SenderEnds("returned") /\ UNCHANGED skipped
  BY <1>5
<1>. QED
  BY <1>1, <1>2, <1>3, <1>4, <1>5 DEF SenderReads

LEMMA SenderReadsTyped ==
  ASSUME Typed, SenderReads
  PROVE  SenderTyped' /\ skipped' \subseteq 1..NFiles /\ fwd' \in Seq(FwdTokens)
<1>0. SenderTyped /\ skipped \subseteq 1..NFiles /\ fwd \in Seq(FwdTokens) /\ NFiles \in Nat
  BY Constants DEF Typed, BoundsTyped
<1>1. ASSUME NEW f \in 1..(NFiles + 1), GoTo(f)
      PROVE  SenderTyped' /\ fwd' \in Seq(FwdTokens)
  BY <1>0, <1>1, GoToTyped
<1>2. CASE sphase = "init" /\ GoTo(1) /\ UNCHANGED skipped
  <2>1. 1 \in 1..(NFiles + 1)
    BY <1>0
  <2>. QED
    BY <1>0, <1>1, <1>2, <2>1
<1>3. CASE /\ sphase = "zrpos" /\ Head(rev).type = "ZRPOS" /\ sphase' = "eof" /\ attempt' = 0
           /\ fwd' = fwd \o Stream(sfile, Head(rev).from) /\ UNCHANGED <<sfile, skipped>>
  <2>1. sfile \in 1..NFiles
    BY <1>0, <1>3 DEF SenderTyped
  <2>2. Head(rev) \in RevTokens
    BY TailAt DEF SenderReads, Typed
  <2>3. Head(rev).from \in Nat
    BY <2>2 DEF RevTokens, Token
  <2>4. fwd' \in Seq(FwdTokens)
    BY <1>0, <1>3, <2>1, <2>3, StreamShape, ConcatProperties
  <2>5. SenderTyped'
    BY <1>0, <1>3, <2>1, Constants DEF SenderTyped
  <2>. QED
    BY <1>0, <1>3, <2>4, <2>5
<1>4. ASSUME sphase \in {"zrpos", "eof"}
      PROVE  sfile \in 1..NFiles /\ sfile + 1 \in 1..(NFiles + 1)
  BY <1>0, <1>4 DEF SenderTyped
<1>5. CASE sphase = "zrpos" /\ GoTo(sfile + 1) /\ skipped' = skipped \cup {sfile}
  BY <1>0, <1>1, <1>4, <1>5
<1>6. CASE sphase = "eof" /\ GoTo(sfile + 1) /\ UNCHANGED skipped
  BY <1>0, <1>1, <1>4, <1>6
<1>7. CASE \E how \in Failures \cup {"returned"} :
             SenderEnds(how) /\ (how = "returned" => sphase = "fin") /\ UNCHANGED skipped
  <2>1. fwd' = fwd /\ skipped' = skipped
    BY <1>7 DEF SenderEnds
  <2>2. SenderTyped'
    BY <1>0, <1>7, SenderEndsTyped
  <2>. QED
    BY <1>0, <2>1, <2>2
<1>8. CASE \E how \in Failures :
             /\ sphase \in {"zrpos", "eof"} /\ NextAttempt(how) /\ UNCHANGED <<sfile, fwd, skipped>>
  BY <1>0, <1>8, AttemptTyped
<1>. QED
  BY <1>2, <1>3, <1>5, <1>6, <1>7, <1>8, SenderReadsOne DEF SenderAnswers

LEMMA SenderTimeoutTyped ==
  ASSUME Typed, SenderTimeout
  PROVE  SenderTyped' /\ fwd' \in Seq(FwdTokens)
<1>0. SenderTyped /\ fwd \in Seq(FwdTokens)
  BY DEF Typed
<1>1. CASE sphase = "init" /\ SenderEnds("timeout")
  BY <1>0, <1>1, SenderEndsTyped DEF Failures, SenderEnds
<1>2. CASE sphase = "zrpos" /\ NextAttempt("no ZRPOS") /\ UNCHANGED sfile
  <2>1. sfile \in 1..NFiles
    BY <1>0, <1>2 DEF SenderTyped
  <2>2. fwd' \in Seq(FwdTokens)
    BY <1>0, <1>2, <2>1, Written DEF SenderTimeout
  <2>. QED
    BY <1>0, <1>2, <2>2, AttemptTyped DEF Failures
<1>3. CASE sphase = "eof" /\ NextAttempt("no ZRINIT") /\ UNCHANGED <<sfile, fwd>>
  BY <1>0, <1>3, AttemptTyped DEF Failures
<1>4. CASE sphase = "fin" /\ SenderEnds("returned")
  BY <1>0, <1>4, SenderEndsTyped DEF SenderEnds
<1>. QED
  BY <1>1, <1>2, <1>3, <1>4 DEF SenderTimeout

\* What a crash leaves of the open file.
LEMMA DiskCut ==
  ASSUME Typed, rfile \in 1..NFiles, NEW k \in base..Len(disk[Dest[rfile]]),
         disk' = [disk EXCEPT ![Dest[rfile]] = SubSeq(@, 1, k)]
  PROVE  DiskTyped'
<1>1. Dest[rfile] \in Names /\ disk[Dest[rfile]] \in Seq((1..NFiles) \X Nat) /\ base \in Nat
  BY Constants DEF Typed, DiskTyped, ReceiverTyped
<1>2. \A i \in 1..k : disk[Dest[rfile]][i] \in (1..NFiles) \X Nat
  BY <1>1, ElementOfSeq, LenProperties
<1>3. SubSeq(disk[Dest[rfile]], 1, k) \in Seq((1..NFiles) \X Nat)
  BY <1>1, <1>2, LenProperties, SubSeqProperties
<1>. QED
  BY <1>1, <1>3 DEF Typed, DiskTyped

\* The ways in which the receiver's variables change.
LEMMA ReceiverEndsTyped ==
  ASSUME ReceiverTyped, NEW how \in Final, ReceiverEnds(how)
  PROVE  ReceiverTyped' /\ UNCHANGED <<disk, rev>>
BY DEF ReceiverTyped, ReceiverEnds, Final, Failures

LEMMA ReceiveHeaderTyped ==
  ASSUME Typed, NEW t, ReceiveHeader(t) \/ ReceiveFileHeader(t)
  PROVE  ReceiverTyped' /\ rev' \in Seq(RevTokens) /\ UNCHANGED disk
<1>0. ReceiverTyped /\ rev \in Seq(RevTokens) /\ NFiles \in Nat
  BY Constants DEF Typed
<1>1. UNCHANGED disk
  BY DEF ReceiveHeader, ReceiveFileHeader, ReceiverEnds, Ignore
<1>2. CASE ReceiveHeader(t)
  <2>1. rev' \in Seq(RevTokens)
    BY <1>0, <1>2, Written DEF ReceiveHeader, Reply, ReceiverEnds, Ignore, HeaderTypes
  <2>2. ReceiverTyped'
    BY <1>0, <1>2 DEF ReceiveHeader, ReceiverEnds, Ignore, ReceiverTyped, Final, Failures
  <2>. QED
    BY <1>1, <2>1, <2>2
<1>3. CASE ReceiveFileHeader(t)
  <2>1. rev' \in Seq(RevTokens)
    BY <1>0, <1>3, Written DEF ReceiveFileHeader, ReceiverEnds, Ignore
  <2>2. ReceiverTyped'
    <3>1. rphase = "file" /\ rfile \in 1..NFiles
      BY <1>0, <1>3 DEF ReceiveFileHeader, ReceiverTyped
    <3>2. CASE /\ rphase' = "main" /\ received' = received \cup {rfile}
               /\ rfile' = 0 /\ base' = 0
      BY <1>0, <3>1, <3>2 DEF ReceiverTyped
    <3>3. CASE UNCHANGED <<rfile, base, received>> /\ rphase' \in {"file", "data", "cancelled"}
      BY <1>0, <3>1, <3>3 DEF ReceiverTyped, Final, Failures
    <3>. QED
      BY <1>3, <3>2, <3>3 DEF ReceiveFileHeader, ReceiverEnds, Ignore
  <2>. QED
    BY <1>1, <2>1, <2>2
<1>. QED
  BY <1>2, <1>3

LEMMA ReceiveInfoTyped ==
  ASSUME Typed, NEW t \in FwdTokens, ReceiveInfo(t)
  PROVE  ReceiverTyped' /\ DiskTyped' /\ rev' \in Seq(RevTokens)
<1>1. t.file \in 1..NFiles /\ Dest[t.file] \in Names
  BY Constants DEF ReceiveInfo, FwdTokens
<1>2. disk[Dest[t.file]] \in Seq((1..NFiles) \X Nat)
  BY <1>1 DEF Typed, DiskTyped
<1>3. base' \in Nat
  BY <1>2, LenProperties DEF ReceiveInfo
<1>4. rev' \in Seq(RevTokens)
  BY <1>3, Written DEF ReceiveInfo, Reply, HeaderTypes, Typed
<1>5. DiskTyped'
  <2>1. <<>> \in Seq((1..NFiles) \X Nat)
    OBVIOUS
  <2>. QED
    BY <1>1, <2>1 DEF ReceiveInfo, Opened, Typed, DiskTyped
<1>6. ReceiverTyped'
  <2>1. rphase' = "file" /\ rfile' = t.file /\ received' = received
    BY DEF ReceiveInfo
  <2>2. received \subseteq 1..NFiles
    BY DEF Typed, ReceiverTyped
  <2>. QED
    BY <1>1, <1>3, <2>1, <2>2 DEF ReceiverTyped
<1>. QED
  BY <1>4, <1>5, <1>6

LEMMA ReceiveDataTyped ==
  ASSUME Typed, NEW t \in FwdTokens, ReceiveData(t)
  PROVE  ReceiverTyped' /\ DiskTyped' /\ UNCHANGED rev
<1>. DEFINE x == Bytes(t.file, t.from, t.to)
<1>1. t.file \in 1..NFiles /\ t.from \in Nat /\ t.to \in Nat
  BY DEF ReceiveData, FwdTokens, Token
<1>2. x \in Seq((1..NFiles) \X Nat)
  BY <1>1, BytesAre
<1>3. disk' = [disk EXCEPT ![Dest[rfile]] = @ \o x] /\ rfile \in 1..NFiles
  BY DEF ReceiveData, Typed, ReceiverTyped
<1>. HIDE DEF x
<1>4. Dest[rfile] \in Names /\ disk[Dest[rfile]] \in Seq((1..NFiles) \X Nat)
  BY <1>3, Constants DEF Typed, DiskTyped
<1>5. disk[Dest[rfile]] \o x \in Seq((1..NFiles) \X Nat)
  BY <1>2, <1>4, ConcatProperties
<1>6. DiskTyped'
  BY <1>3, <1>5 DEF Typed, DiskTyped
<1>7. ReceiverTyped'
  BY <1>3 DEF ReceiveData, Typed, ReceiverTyped
<1>. QED
  BY <1>6, <1>7 DEF ReceiveData

LEMMA ReceiverReadsTyped ==
  ASSUME Typed, ReceiverReads
  PROVE  ReceiverTyped' /\ DiskTyped' /\ rev' \in Seq(RevTokens)
<1>0. /\ Head(fwd) \in FwdTokens /\ ReceiverTyped /\ DiskTyped /\ rev \in Seq(RevTokens)
  BY TailAt DEF ReceiverReads, Typed
<1>1. ASSUME UNCHANGED disk PROVE DiskTyped'
  BY <1>0, <1>1 DEF DiskTyped
<1>2. CASE ReceiveHeader(Head(fwd)) \/ ReceiveFileHeader(Head(fwd))
  BY <1>1, <1>2, ReceiveHeaderTyped
<1>3. CASE ReceiveInfo(Head(fwd))
  BY <1>0, <1>3, ReceiveInfoTyped
<1>4. CASE ReceiveData(Head(fwd))
  BY <1>0, <1>4, ReceiveDataTyped
<1>5. ASSUME ReceiverEnds("protocol") PROVE ReceiverTyped' /\ DiskTyped' /\ rev' \in Seq(RevTokens)
  BY <1>0, <1>1, <1>5, ReceiverEndsTyped DEF Final, Failures
<1>6. CASE ReceiveUnexpected(Head(fwd))
  BY <1>5, <1>6 DEF ReceiveUnexpected
<1>7. CASE ReceiveIntoSubpacket(Head(fwd))
  <2>1. CASE rphase' = "garbled" /\ UNCHANGED <<rfile, base, disk, received, rev>>
    BY <1>0, <1>1, <2>1 DEF ReceiverTyped
  <2>. QED
    BY <1>5, <1>7, <2>1 DEF ReceiveIntoSubpacket
<1>. QED
  BY <1>2, <1>3, <1>4, <1>6, <1>7 DEF ReceiverReads

LEMMA TypedStep ==
  ASSUME Typed, [Next]_vars
  PROVE  Typed'
<1>0. /\ SenderTyped /\ ReceiverTyped /\ DiskTyped /\ BoundsTyped
      /\ fwd \in Seq(FwdTokens) /\ rev \in Seq(RevTokens)
  BY DEF Typed
<1>a. ASSUME UNCHANGED senderVars PROVE SenderTyped'
  BY <1>0, <1>a DEF senderVars, SenderTyped
<1>b. ASSUME UNCHANGED receiverVars PROVE ReceiverTyped' /\ DiskTyped'
  BY <1>0, <1>b DEF receiverVars, ReceiverTyped, DiskTyped
<1>c. ASSUME UNCHANGED boundVars, skipped' \subseteq 1..NFiles PROVE BoundsTyped'
  BY <1>0, <1>c DEF boundVars, BoundsTyped
<1>d. skipped \subseteq 1..NFiles
  BY <1>0 DEF BoundsTyped
<1>e. fwd # <<>> => Tail(fwd) \in Seq(FwdTokens)
  BY <1>0, TailAt
<1>f. rev # <<>> => Tail(rev) \in Seq(RevTokens)
  BY <1>0, TailAt
<1>1. CASE SenderStart
  <2>1. fwd' \in Seq(FwdTokens)
    BY <1>0, <1>1, Written DEF SenderStart, HeaderTypes
  <2>2. SenderTyped'
    BY <1>0, <1>1 DEF SenderStart, SenderTyped
  <2>3. UNCHANGED <<receiverVars, skipped, rev, boundVars>>
    BY <1>1 DEF SenderStart
  <2>. QED
    BY <1>0, <1>b, <1>c, <1>d, <2>1, <2>2, <2>3 DEF Typed
<1>2. CASE SenderReads
  <2>1. rev' = Tail(rev) /\ rev # <<>> /\ UNCHANGED <<receiverVars, boundVars>>
    BY <1>2 DEF SenderReads
  <2>. QED
    BY <1>2, <1>b, <1>c, <1>f, <2>1, SenderReadsTyped DEF Typed
<1>3. CASE SenderTimeout
  <2>1. UNCHANGED <<receiverVars, skipped, rev, faults, sessions>>
    BY <1>3 DEF SenderTimeout
  <2>2. BoundsTyped'
    <3>1. late' \in 0..MaxLate
      <4>1. late' = late \/ (late < MaxLate /\ late' = late + 1)
        BY <1>3 DEF SenderTimeout, TimerFires
      <4>. QED
        BY <1>0, <4>1, Constants DEF BoundsTyped
    <3>. QED
      BY <1>0, <2>1, <3>1 DEF BoundsTyped
  <2>. QED
    BY <1>0, <1>3, <1>b, <2>1, <2>2, SenderTimeoutTyped DEF Typed
<1>4. CASE ReceiverStart
  <2>1. rev' \in Seq(RevTokens)
    BY <1>0, <1>4, Written DEF ReceiverStart, Reply, HeaderTypes
  <2>2. ReceiverTyped' /\ DiskTyped'
    BY <1>0, <1>4 DEF ReceiverStart, ReceiverTyped, DiskTyped
  <2>3. UNCHANGED <<senderVars, skipped, fwd, boundVars>>
    BY <1>4 DEF ReceiverStart
  <2>. QED
    BY <1>0, <1>a, <1>c, <1>d, <2>1, <2>2, <2>3 DEF Typed
<1>5. CASE ReceiverReads
  <2>1. fwd # <<>> /\ fwd' = Tail(fwd) /\ UNCHANGED <<senderVars, skipped, boundVars>>
    BY <1>5 DEF ReceiverReads
  <2>. QED
    BY <1>5, <1>a, <1>c, <1>d, <1>e, <2>1, ReceiverReadsTyped DEF Typed
<1>6. CASE ReceiverTimeout
  <2>1. ReceiverEnds("timeout") /\ UNCHANGED <<senderVars, skipped, fwd, faults, sessions>>
    BY <1>6 DEF ReceiverTimeout
  <2>2. ReceiverTyped' /\ UNCHANGED <<disk, rev>>
    BY <1>0, <2>1, ReceiverEndsTyped DEF Final, Failures
  <2>3. DiskTyped'
    BY <1>0, <2>2 DEF DiskTyped
  <2>4. BoundsTyped'
    BY <1>0, <1>6, <2>1, Constants DEF ReceiverTimeout, TimerFires, BoundsTyped
  <2>. QED
    BY <1>0, <1>a, <2>1, <2>2, <2>3, <2>4 DEF Typed
<1>g. ASSUME Fault, UNCHANGED skipped PROVE BoundsTyped'
  BY <1>0, <1>g, Constants DEF Fault, BoundsTyped
<1>7. CASE ForwardFault
  <2>1. fwd' \in Seq(FwdTokens)
    <3>1. fwd # <<>>
      BY <1>7 DEF ForwardFault
    <3>2. << [Head(fwd) EXCEPT !.ok = FALSE] >> \o Tail(fwd) \in Seq(FwdTokens)
      BY <1>0, <3>1, Damaged
    <3>. QED
      BY <1>7, <1>e, <3>1, <3>2 DEF ForwardFault
  <2>2. Fault /\ UNCHANGED <<senderVars, receiverVars, skipped, rev>>
    BY <1>7 DEF ForwardFault
  <2>. QED
    BY <1>0, <1>a, <1>b, <1>g, <2>1, <2>2 DEF Typed
<1>8. CASE ReverseFault
  <2>1. rev' \in Seq(RevTokens)
    <3>1. rev # <<>>
      BY <1>8 DEF ReverseFault
    <3>2. << [Head(rev) EXCEPT !.ok = FALSE] >> \o Tail(rev) \in Seq(RevTokens)
      BY <1>0, <3>1, Damaged
    <3>. QED
      BY <1>8, <1>f, <3>1, <3>2 DEF ReverseFault
  <2>2. Fault /\ UNCHANGED <<senderVars, receiverVars, skipped, fwd>>
    BY <1>8 DEF ReverseFault
  <2>. QED
    BY <1>0, <1>a, <1>b, <1>g, <2>1, <2>2 DEF Typed
<1>9. CASE ForeignSkip
  <2>1. rev' \in Seq(RevTokens)
    BY <1>0, <1>9, Written DEF ForeignSkip, Reply, HeaderTypes
  <2>2. ReceiverTyped' /\ DiskTyped'
    BY <1>0, <1>9 DEF ForeignSkip, ReceiverTyped, DiskTyped
  <2>3. fwd # <<>> /\ fwd' = Tail(fwd) /\ UNCHANGED <<senderVars, skipped, boundVars>>
    BY <1>9 DEF ForeignSkip
  <2>. QED
    BY <1>a, <1>c, <1>d, <1>e, <2>1, <2>2, <2>3 DEF Typed
<1>10. CASE ForeignAbort
  <2>1. fwd' \in Seq(FwdTokens) /\ rev' \in Seq(RevTokens)
    BY <1>0, <1>10, Written DEF ForeignAbort, Reply, HeaderTypes
  <2>2. Fault /\ UNCHANGED <<sfile, attempt, rfile, base, disk, received, skipped>>
    BY <1>10 DEF ForeignAbort
  <2>3. sphase' \in {sphase, "cancelled"} /\ rphase' \in {rphase, "cancelled"}
    BY <1>10 DEF ForeignAbort
  <2>4. SenderTyped'
    BY <1>0, <2>2, <2>3 DEF SenderTyped, Final, Failures
  <2>5. ReceiverTyped' /\ DiskTyped'
    BY <1>0, <2>2, <2>3 DEF ReceiverTyped, DiskTyped, Final, Failures
  <2>. QED
    BY <1>g, <2>1, <2>2, <2>4, <2>5 DEF Typed
<1>11. CASE Cut
  <2>1. /\ fwd' = <<>> /\ rev' = <<>>
        /\ UNCHANGED <<sfile, attempt, rfile, base, received, skipped, boundVars>>
    BY <1>11 DEF Cut
  <2>2. fwd' \in Seq(FwdTokens) /\ rev' \in Seq(RevTokens)
    BY <2>1
  <2>3. DiskTyped'
    <3>1. CASE UNCHANGED disk
      BY <1>0, <3>1 DEF DiskTyped
    <3>2. CASE Open /\ \E k \in base..Len(disk[Dest[rfile]]) :
                 disk' = [disk EXCEPT ![Dest[rfile]] = SubSeq(@, 1, k)]
      <4>1. rfile \in 1..NFiles
        BY <1>0, <3>2, Constants DEF Open, ReceiverTyped
      <4>. QED
        BY <3>2, <4>1, DiskCut
    <3>. QED
      BY <1>11, <3>1, <3>2 DEF Cut
  <2>4. sphase' \in {sphase, "cut"} /\ rphase' \in {rphase, "cut"}
    BY <1>11 DEF Cut
  <2>5. SenderTyped'
    BY <1>0, <2>1, <2>4 DEF SenderTyped, Final, Failures
  <2>6. ReceiverTyped'
    BY <1>0, <2>1, <2>4 DEF ReceiverTyped, Final, Failures
  <2>. QED
    BY <1>c, <1>d, <2>1, <2>2, <2>3, <2>5, <2>6 DEF Typed
<1>12. CASE DieBeforeClose
  <2>1. rev' \in Seq(RevTokens)
    BY <1>0, <1>12, Written DEF DieBeforeClose, Reply, HeaderTypes
  <2>2. rfile \in 1..NFiles
    BY <1>0, <1>12 DEF DieBeforeClose, ReceiverTyped
  <2>3. DiskTyped'
    BY <1>12, <2>2, DiskCut DEF DieBeforeClose
  <2>4. ReceiverTyped'
    BY <1>0, <1>12 DEF DieBeforeClose, ReceiverTyped, Final
  <2>5. fwd # <<>> /\ fwd' = Tail(fwd) /\ UNCHANGED <<senderVars, skipped, boundVars>>
    BY <1>12 DEF DieBeforeClose
  <2>. QED
    BY <1>a, <1>c, <1>d, <1>e, <2>1, <2>3, <2>4, <2>5 DEF Typed
<1>13. CASE Restart
  <2>1. fwd' \in Seq(FwdTokens) /\ rev' \in Seq(RevTokens)
    BY <1>13 DEF Restart
  <2>2. SenderTyped' /\ ReceiverTyped'
    BY <1>13, Constants DEF Restart, SenderTyped, ReceiverTyped
  <2>3. BoundsTyped'
    BY <1>0, <1>13, Constants DEF Restart, BoundsTyped
  <2>4. DiskTyped'
    BY <1>0, <1>13 DEF Restart, DiskTyped
  <2>. QED
    BY <2>1, <2>2, <2>3, <2>4 DEF Typed
<1>14. CASE UNCHANGED vars
  BY <1>0, <1>14, <1>a, <1>b, <1>c, <1>d DEF Typed, vars
<1>. QED
  BY <1>1, <1>2, <1>3, <1>4, <1>5, <1>6, <1>7, <1>8, <1>9, <1>10, <1>11, <1>12, <1>13,
     <1>14 DEF Next

LEMMA TypedAlways == Spec => []Typed
BY TypedInit, TypedStep, PTL DEF Spec

\* Nothing a line, a foreign program or a restart does takes an engine out of
\* its types: what is on the line are headers and subpackets of files of the
\* batch, and both retry loops keep to their limit.
THEOREM SessionTypes == Spec => []TypeOK
<1>1. Typed => TypeOK
  <2>. SUFFICES ASSUME Typed PROVE TypeOK
    OBVIOUS
  <2>1. \A i \in 1..Len(fwd) : fwd[i].type \in Types
    <3>1. \A i \in 1..Len(fwd) : fwd[i] \in FwdTokens
      BY ElementOfSeq DEF Typed
    <3>. QED
      BY <3>1 DEF FwdTokens, Token
  <2>2. \A i \in 1..Len(rev) : rev[i].type \in HeaderTypes
    <3>1. \A i \in 1..Len(rev) : rev[i] \in RevTokens
      BY ElementOfSeq DEF Typed
    <3>. QED
      BY <3>1 DEF RevTokens
  <2>. QED
    BY <2>1, <2>2 DEF Typed, TypeOK, SenderTyped, ReceiverTyped, DiskTyped, BoundsTyped
<1>. QED
  BY <1>1, TypedAlways, PTL

-----------------------------------------------------------------------------
(* How what is on the line changes *)

\* r holds nothing that q does not, in no other order.
Weaker(q, r) ==
  /\ \A T : Holds(r, T) => Holds(q, T)
  /\ \A T, U : NoneAfter(q, T, U) => NoneAfter(r, T, U)
  /\ \A f : LastInfo(q, f) => LastInfo(r, f)

LEMMA WeakerSelf == \A q : Weaker(q, q)
BY DEF Weaker

LEMMA WeakerTail ==
  ASSUME NEW S, NEW q \in Seq(S), q # <<>>
  PROVE  /\ Weaker(q, Tail(q))
         /\ \A T : Head(q).type \notin T => (Holds(Tail(q), T) <=> Holds(q, T))
BY HoldsTail, AfterTail, LastInfoTail DEF Weaker

LEMMA WeakerDamaged ==
  ASSUME NEW q, NEW r, SameButOk(q, r)
  PROVE  Weaker(q, r) /\ \A T : Holds(r, T) <=> Holds(q, T)
BY Alike DEF Weaker

LEMMA EmptyHas ==
  /\ \A T : ~Holds(<<>>, T)
  /\ \A T, U : NoneAfter(<<>>, T, U)
  /\ \A f : LastInfo(<<>>, f)
BY DEF Holds, NoneAfter, LastInfo

\* One or two headers more.
LEMMA HeaderHas ==
  ASSUME NEW S, NEW q \in Seq(S), NEW h \in S
  PROVE  /\ \A T : Holds(Append(q, h), T) <=> (Holds(q, T) \/ h.type \in T)
         /\ \A T, U : NoneAfter(q, T, U) /\ (~Holds(q, T) \/ h.type \notin U)
                        => NoneAfter(Append(q, h), T, U)
         /\ \A f : LastInfo(q, f) /\ h.type # "INFO" => LastInfo(Append(q, h), f)
<1>1. <<h>> \in Seq(S) /\ Len(<<h>>) = 1 /\ <<h>>[1] = h
  OBVIOUS
<1>2. Append(q, h) = q \o <<h>>
  BY AppendIsConcat
<1>3. \A T : Holds(<<h>>, T) <=> h.type \in T
  BY <1>1 DEF Holds
<1>4. \A T, U : NoneAfter(<<h>>, T, U)
  BY <1>1 DEF NoneAfter
<1>5. ASSUME h.type # "INFO" PROVE \A f : LastInfo(<<h>>, f)
  BY <1>1, <1>5 DEF LastInfo
<1>6. \A T : Holds(q \o <<h>>, T) <=> (Holds(q, T) \/ h.type \in T)
  BY <1>1, <1>3, HoldsConcat
<1>7. \A T, U : NoneAfter(q, T, U) /\ (~Holds(q, T) \/ h.type \notin U)
                  => NoneAfter(q \o <<h>>, T, U)
  BY <1>1, <1>3, <1>4, AfterConcat
<1>8. \A f : LastInfo(q, f) /\ h.type # "INFO" => LastInfo(q \o <<h>>, f)
  BY <1>1, <1>5, LastInfoConcat
<1>. QED
  BY <1>2, <1>6, <1>7, <1>8

LEMMA PairHas ==
  ASSUME NEW S, NEW a \in S, NEW b \in S
  PROVE  /\ <<a, b>> \in Seq(S)
         /\ \A T : Holds(<<a, b>>, T) <=> (a.type \in T \/ b.type \in T)
         /\ \A f : a.type # "INFO" /\ b.file = f => LastInfo(<<a, b>>, f)
<1>1. <<a, b>> \in Seq(S) /\ Len(<<a, b>>) = 2 /\ <<a, b>>[1] = a /\ <<a, b>>[2] = b
  OBVIOUS
<1>2. \A i \in 1..2 : i = 1 \/ i = 2
  OBVIOUS
<1>3. \A T : Holds(<<a, b>>, T) <=> (a.type \in T \/ b.type \in T)
  BY <1>1, <1>2 DEF Holds
<1>4. \A f : a.type # "INFO" /\ b.file = f => LastInfo(<<a, b>>, f)
  BY <1>1, <1>2 DEF LastInfo
<1>. QED
  BY <1>1, <1>3, <1>4

\* ZFILE and its subpacket are written.
LEMMA FileSent ==
  ASSUME NEW q \in Seq(FwdTokens), NEW f \in 1..NFiles
  PROVE  LET r == q \o <<Header("ZFILE"), Info(f)>>
         IN /\ Holds(r, StreamTypes) <=> Holds(q, StreamTypes)
            /\ Holds(r, {"ZRQINIT"}) <=> Holds(q, {"ZRQINIT"})
            /\ Holds(r, {"INFO"})
            /\ LastInfo(r, f)
            /\ NoneAfter(q, Types, {"ZRQINIT"}) => NoneAfter(r, Types, {"ZRQINIT"})
            /\ ~Holds(q, StreamTypes) =>
                 NoneAfter(r, StreamTypes, {"INFO"}) /\ NoneAfter(r, {"ZEOF"}, StreamTypes)
<1>. DEFINE a == Header("ZFILE")
            b == Info(f)
            x == <<a, b>>
            r == q \o x
<1>1. /\ a \in FwdTokens /\ a.type = "ZFILE"
      /\ b \in FwdTokens /\ b.type = "INFO" /\ b.file = f
  BY HeaderToken DEF HeaderTypes
<1>. HIDE DEF a, b
<1>2. /\ x \in Seq(FwdTokens) /\ LastInfo(x, f) /\ Holds(x, {"INFO"})
      /\ ~Holds(x, StreamTypes) /\ ~Holds(x, {"ZRQINIT"})
  BY <1>1, PairHas DEF StreamTypes, DataTypes
<1>. HIDE DEF x
<1>3. \A T : Holds(r, T) <=> (Holds(q, T) \/ Holds(x, T))
  BY <1>2, HoldsConcat
<1>4. LastInfo(r, f)
  BY <1>2, LastInfoConcat
<1>5. NoneAfter(x, Types, {"ZRQINIT"}) /\ NoneAfter(x, {"ZEOF"}, StreamTypes)
      /\ NoneAfter(x, StreamTypes, {"INFO"})
  BY <1>2, AfterNone
<1>6. ASSUME NoneAfter(q, Types, {"ZRQINIT"}) PROVE NoneAfter(r, Types, {"ZRQINIT"})
  BY <1>2, <1>5, <1>6, AfterConcat
<1>7. ASSUME ~Holds(q, StreamTypes)
      PROVE  NoneAfter(r, StreamTypes, {"INFO"}) /\ NoneAfter(r, {"ZEOF"}, StreamTypes)
  <2>1. ~Holds(r, StreamTypes)
    BY <1>2, <1>3, <1>7
  <2>. QED
    BY <2>1, AfterNone
<1>. QED
  BY <1>2, <1>3, <1>4, <1>6, <1>7 DEF r, x, a, b

\* A file's stream is written.
LEMMA StreamSent ==
  ASSUME NEW q \in Seq(FwdTokens), NEW f \in 1..NFiles, NEW n \in Nat
  PROVE  LET r == q \o Stream(f, n)
         IN /\ Holds(r, {"INFO"}) <=> Holds(q, {"INFO"})
            /\ Holds(r, {"ZRQINIT"}) <=> Holds(q, {"ZRQINIT"})
            /\ \A g : LastInfo(q, g) => LastInfo(r, g)
            /\ NoneAfter(q, Types, {"ZRQINIT"}) => NoneAfter(r, Types, {"ZRQINIT"})
            /\ ~Holds(q, StreamTypes) =>
                 NoneAfter(r, StreamTypes, {"INFO"}) /\ NoneAfter(r, {"ZEOF"}, StreamTypes)
<1>. DEFINE x == Stream(f, n)
            r == q \o x
<1>1. /\ x \in Seq(FwdTokens) /\ ~Holds(x, {"INFO"}) /\ ~Holds(x, {"ZRQINIT"})
      /\ NoneAfter(x, {"ZEOF"}, StreamTypes)
  BY StreamShape
<1>. HIDE DEF x
<1>2. \A T : Holds(r, T) <=> (Holds(q, T) \/ Holds(x, T))
  BY <1>1, HoldsConcat
<1>3. \A g : LastInfo(x, g)
  BY <1>1 DEF LastInfo, Holds
<1>4. \A g : LastInfo(q, g) => LastInfo(r, g)
  BY <1>1, <1>3, LastInfoConcat
<1>5. NoneAfter(x, Types, {"ZRQINIT"}) /\ NoneAfter(x, StreamTypes, {"INFO"})
  BY <1>1, AfterNone
<1>6. ASSUME NoneAfter(q, Types, {"ZRQINIT"}) PROVE NoneAfter(r, Types, {"ZRQINIT"})
  BY <1>1, <1>5, <1>6, AfterConcat
<1>7. ASSUME ~Holds(q, StreamTypes)
      PROVE  NoneAfter(r, StreamTypes, {"INFO"}) /\ NoneAfter(r, {"ZEOF"}, StreamTypes)
  <2>1. ~Holds(q, {"ZEOF"})
    BY <1>7 DEF Holds, StreamTypes
  <2>2. NoneAfter(q, StreamTypes, {"INFO"}) /\ NoneAfter(q, {"ZEOF"}, StreamTypes)
    BY <1>7, <2>1, AfterNone
  <2>. QED
    BY <1>1, <1>5, <1>7, <2>1, <2>2, AfterConcat
<1>. QED
  BY <1>1, <1>2, <1>4, <1>6, <1>7 DEF r, x

\* A header is written to the receiver.
LEMMA HeaderSent ==
  ASSUME NEW q \in Seq(FwdTokens), NEW t \in HeaderTypes \ {"ZDATA", "ZEOF", "ZRQINIT"}
  PROVE  LET r == Append(q, Header(t))
         IN /\ \A T \in {StreamTypes, {"INFO"}, {"ZRQINIT"}} : Holds(r, T) <=> Holds(q, T)
            /\ \A g : LastInfo(q, g) => LastInfo(r, g)
            /\ \A T \in {StreamTypes, {"ZEOF"}, Types} :
               \A U \in {StreamTypes, {"INFO"}, {"ZRQINIT"}} :
                 NoneAfter(q, T, U) => NoneAfter(r, T, U)
<1>. DEFINE h == Header(t)
            r == Append(q, h)
<1>1. h \in FwdTokens /\ h.type = t
  BY HeaderToken
<1>2. h.type # "INFO" /\ h.type \notin StreamTypes /\ h.type # "ZRQINIT"
  BY <1>1 DEF HeaderTypes, StreamTypes, DataTypes
<1>. HIDE DEF h
<1>. QED
  BY <1>1, <1>2, HeaderHas DEF h

-----------------------------------------------------------------------------
(* The two ends and the line between them *)

\* Everything but what KnownInv says.
MeetInv == FwdInv /\ RevInv /\ PhaseInv /\ FileInv /\ ConfirmInv

LEMMA LineInit == Init => LineInv
<1>. SUFFICES ASSUME Init PROVE LineInv
  OBVIOUS
<1>1. fwd = <<>> /\ rev = <<>> /\ sphase = "start" /\ rphase = "start"
  BY DEF Init
<1>2. ~Streams /\ ~Infos /\ ~Asked /\ ~Answered /\ ~Sending
  BY <1>1, EmptyHas DEF Streams, Infos, Asked, Answered, Sending
<1>3. FwdInv /\ RevInv
  BY <1>1, <1>2, EmptyHas DEF FwdInv, RevInv
<1>4. PhaseInv
  BY <1>1, <1>2, EmptyHas DEF PhaseInv
<1>. QED
  BY <1>1, <1>3, <1>4 DEF LineInv, FileInv, ConfirmInv, KnownInv

LEMMA MeetStart ==
  ASSUME Typed, LineInv, SenderStart
  PROVE  MeetInv'
<1>1. /\ fwd = <<>> /\ ~Asked /\ sphase' = "init" /\ rphase' = rphase /\ rev' = rev
      /\ fwd' = Append(<<>>, Header("ZRQINIT"))
  BY DEF SenderStart, LineInv, PhaseInv, receiverVars
<1>2. Header("ZRQINIT") \in FwdTokens /\ Header("ZRQINIT").type = "ZRQINIT" /\ <<>> \in Seq(FwdTokens)
  BY HeaderToken DEF HeaderTypes
<1>3. \A T : "ZRQINIT" \notin T => ~Holds(fwd', T)
  BY <1>1, <1>2, HeaderHas, EmptyHas
<1>4. ~Streams' /\ ~Infos' /\ ~Sending'
  BY <1>1, <1>3 DEF Streams, Infos, Sending, StreamTypes, DataTypes
<1>5. ~Asked'
  BY <1>1 DEF Asked
<1>6. NoneAfter(fwd', Types, {"ZRQINIT"})
  BY <1>1, <1>2, HeaderHas, EmptyHas
<1>7. ~Holds(fwd', {"ZEOF"}) /\ ~Holds(fwd', StreamTypes)
  BY <1>3 DEF StreamTypes, DataTypes
<1>8. FwdInv'
  BY <1>6, <1>7, AfterNone DEF FwdInv
<1>9. RevInv'
  BY <1>1, <1>4, <1>5 DEF LineInv, RevInv
<1>10. PhaseInv'
  BY <1>1, <1>4, <1>5 DEF LineInv, PhaseInv
<1>. QED
  BY <1>1, <1>8, <1>9, <1>10 DEF MeetInv, FileInv, ConfirmInv

\* The sender goes to a file, or to the end.
LEMMA MeetGoTo ==
  ASSUME Typed, LineInv, Alive => ~Streams, NEW f \in 1..(NFiles + 1), GoTo(f),
         rev # <<>>, rev' = Tail(rev), UNCHANGED receiverVars
  PROVE  MeetInv'
<1>1. /\ fwd \in Seq(FwdTokens) /\ rphase' = rphase /\ rfile' = rfile /\ sfile' = f
      /\ rphase # "start" /\ sphase' \in {"zrpos", "fin"}
  BY GoToTyped DEF receiverVars, LineInv, PhaseInv, Typed
<1>2. Weaker(rev, rev')
  BY WeakerTail DEF Typed
<1>3. /\ FwdInv' /\ (Streams' <=> Streams)
      /\ Holds(fwd', {"ZRQINIT"}) <=> Holds(fwd, {"ZRQINIT"})
      /\ sphase' = "zrpos" => Infos' /\ LastInfo(fwd', f)
  <2>1. CASE f \in 1..NFiles /\ fwd' = fwd \o <<Header("ZFILE"), Info(f)>>
    <3>1. FwdInv'
      BY <1>1, <2>1, FileSent DEF LineInv, FwdInv, Alive, Streams
    <3>. QED
      BY <1>1, <2>1, <3>1, FileSent DEF Streams, Infos
  <2>2. CASE sphase' = "fin" /\ fwd' = Append(fwd, Header("ZFIN"))
    <3>1. "ZFIN" \in HeaderTypes \ {"ZDATA", "ZEOF", "ZRQINIT"}
      BY DEF HeaderTypes
    <3>2. FwdInv'
      BY <1>1, <2>2, <3>1, HeaderSent DEF LineInv, FwdInv, Alive
    <3>. QED
      BY <1>1, <2>2, <3>1, <3>2, HeaderSent DEF Streams
  <2>. QED
    BY <1>1, <2>1, <2>2, GoToTyped
<1>4. Asked' => Asked
  BY <1>2 DEF Asked, Weaker
<1>5. Sending' <=> Streams
  BY <1>1, <1>3 DEF Sending
<1>6. Alive' <=> Alive
  BY <1>1 DEF Alive
<1>7. RevInv'
  BY <1>1, <1>2, <1>4, <1>5 DEF LineInv, RevInv, Weaker, Sending
<1>8. PhaseInv'
  <2>1. rphase \in {"start", "main", "info"} => Alive
    BY DEF Alive, Final, Failures
  <2>. QED
    BY <1>1, <1>3, <1>4, <1>5, <1>6, <2>1 DEF LineInv, PhaseInv, Sending
<1>9. FileInv'
  BY <1>1, <1>3 DEF FileInv
<1>. QED
  BY <1>1, <1>3, <1>7, <1>8, <1>9 DEF MeetInv, ConfirmInv

\* The sender sends a file's stream.
LEMMA MeetStream ==
  ASSUME Typed, LineInv, sphase = "zrpos", rev # <<>>, rev' = Tail(rev),
         Head(rev).type = "ZRPOS", sphase' = "eof",
         fwd' = fwd \o Stream(sfile, Head(rev).from), UNCHANGED <<sfile, receiverVars>>
  PROVE  MeetInv'
<1>1. /\ fwd \in Seq(FwdTokens) /\ rev \in Seq(RevTokens) /\ sfile \in 1..NFiles
      /\ rphase' = rphase /\ rfile' = rfile /\ sfile' = sfile
  BY DEF Typed, SenderTyped, receiverVars
<1>2. Head(rev).from \in Nat
  BY <1>1, TailAt DEF RevTokens, Token
<1>3. Asked
  BY <1>1, HoldsTail DEF Asked
<1>4. ~Streams /\ rphase \in {"file"} \cup Final /\ ~Holds(fwd, {"ZRQINIT"})
  BY <1>3 DEF LineInv, RevInv, PhaseInv, Sending
<1>5. ~Asked' /\ ~Answered'
  <2>1. ~Holds(rev', {"ZRPOS"} \cup Confirming)
    BY <1>1, AfterTail DEF LineInv, RevInv
  <2>. QED
    BY <2>1 DEF Asked, Answered, Holds
<1>6. FwdInv'
  BY <1>1, <1>2, <1>4, StreamSent DEF LineInv, FwdInv, Streams
<1>7. /\ Infos' <=> Infos
      /\ ~Holds(fwd', {"ZRQINIT"})
      /\ LastInfo(fwd, sfile) => LastInfo(fwd', sfile)
  BY <1>1, <1>2, <1>4, StreamSent DEF Infos
<1>8. NoneAfter(rev', {"ZRPOS"}, {"ZRPOS"} \cup Confirming)
  BY <1>1, AfterTail DEF LineInv, RevInv
<1>9. RevInv'
  BY <1>5, <1>8 DEF RevInv
<1>10. PhaseInv'
  BY <1>1, <1>4, <1>7 DEF PhaseInv, Final, Failures
<1>11. FileInv'
  BY <1>1, <1>7 DEF LineInv, FileInv
<1>. QED
  BY <1>5, <1>6, <1>9, <1>10, <1>11 DEF MeetInv, ConfirmInv

\* The sender stays where it is, or ends.
LEMMA MeetStays ==
  ASSUME Typed, LineInv, sphase' \in {sphase} \cup Final, UNCHANGED <<sfile, fwd, receiverVars>>,
         Weaker(rev, rev'), rphase = "start" => rev' = rev
  PROVE  MeetInv'
<1>1. rphase' = rphase /\ rfile' = rfile /\ received' = received /\ sfile' = sfile /\ fwd' = fwd
  BY DEF receiverVars
<1>2. (Streams' <=> Streams) /\ (Infos' <=> Infos) /\ (Alive' <=> Alive)
  BY <1>1 DEF Streams, Infos, Alive
<1>3. (Asked' => Asked) /\ (Answered' => Answered)
  BY DEF Asked, Answered, Weaker
<1>4. "eof" \notin Final /\ "start" \notin Final /\ "zrpos" \notin Final /\ "fin" \notin Final
  BY DEF Final, Failures
<1>5. Sending' => Sending
  BY <1>2, <1>4 DEF Sending
<1>6. FwdInv'
  BY <1>1, <1>2 DEF LineInv, FwdInv
<1>7. RevInv'
  BY <1>1, <1>3, <1>5 DEF LineInv, RevInv, Weaker
<1>8. PhaseInv'
  BY <1>1, <1>2, <1>3, <1>4, <1>5 DEF LineInv, PhaseInv
<1>9. FileInv'
  BY <1>1, <1>2, <1>4 DEF LineInv, FileInv
<1>10. ConfirmInv'
  BY <1>1, <1>2, <1>3, <1>4 DEF LineInv, ConfirmInv, Weaker
<1>. QED
  BY <1>6, <1>7, <1>8, <1>9, <1>10 DEF MeetInv

LEMMA MeetSenderReads ==
  ASSUME Typed, LineInv, SenderReads
  PROVE  MeetInv'
<1>1. rev # <<>> /\ rev' = Tail(rev) /\ UNCHANGED receiverVars /\ NFiles \in Nat
  BY Constants DEF SenderReads
<1>2. sphase # "start"
  BY DEF SenderReads, AwaitZrinit, AwaitZrpos, AwaitConfirmation
<1>3. sphase \in {"init", "zrpos"} => (Alive => ~Streams)
  BY DEF LineInv, PhaseInv, Final, Failures
<1>4. Weaker(rev, rev')
  BY <1>1, WeakerTail DEF Typed
<1>5. ASSUME sphase \in {"zrpos", "eof"} PROVE sfile + 1 \in 1..(NFiles + 1)
  BY <1>1, <1>5 DEF Typed, SenderTyped
<1>6. CASE sphase = "init" /\ GoTo(1)
  <2>1. 1 \in 1..(NFiles + 1)
    BY <1>1
  <2>. QED
    BY <1>1, <1>3, <1>6, <2>1, MeetGoTo
<1>7. CASE /\ sphase = "zrpos" /\ Head(rev).type = "ZRPOS" /\ sphase' = "eof"
           /\ fwd' = fwd \o Stream(sfile, Head(rev).from) /\ UNCHANGED sfile
  BY <1>1, <1>7, MeetStream
<1>8. CASE sphase = "zrpos" /\ GoTo(sfile + 1)
  BY <1>1, <1>3, <1>5, <1>8, MeetGoTo
<1>9. CASE sphase = "eof" /\ Head(rev).type \in {"ZRINIT", "ZACK"} /\ GoTo(sfile + 1)
  <2>1. Answered
    BY <1>1, <1>9, HoldsTail DEF Answered, Confirming, Typed
  <2>2. Alive => ~Streams
    BY <1>9, <2>1 DEF LineInv, ConfirmInv
  <2>. QED
    BY <1>1, <1>5, <1>9, <2>2, MeetGoTo
<1>10. CASE \E how \in Failures \cup {"returned"} : SenderEnds(how)
  <2>1. sphase' \in Final /\ UNCHANGED <<sfile, fwd>>
    BY <1>10 DEF SenderEnds, Final
  <2>. QED
    BY <1>1, <1>2, <1>4, <2>1, MeetStays DEF LineInv, PhaseInv
<1>11. CASE \E how \in Failures : NextAttempt(how) /\ UNCHANGED <<sfile, fwd>>
  <2>1. sphase' \in {sphase} \cup Final /\ UNCHANGED <<sfile, fwd>>
    BY <1>11 DEF NextAttempt, Final
  <2>. QED
    BY <1>1, <1>2, <1>4, <2>1, MeetStays DEF LineInv, PhaseInv
<1>. QED
  BY <1>6, <1>7, <1>8, <1>9, <1>10, <1>11, SenderReadsOne DEF SenderAnswers

LEMMA MeetSenderTimeout ==
  ASSUME Typed, LineInv, SenderTimeout
  PROVE  MeetInv'
<1>1. rev' = rev /\ UNCHANGED receiverVars /\ sphase # "start"
  BY DEF SenderTimeout
<1>2. Weaker(rev, rev')
  BY <1>1, WeakerSelf
<1>3. CASE fwd' = fwd
  <2>1. sphase' \in {sphase} \cup Final /\ UNCHANGED <<sfile, fwd>>
    BY <1>3 DEF SenderTimeout, NextAttempt, SenderEnds, Final, Failures
  <2>. QED
    BY <1>1, <1>2, <2>1, MeetStays
<1>4. CASE /\ sphase = "zrpos" /\ NextAttempt("no ZRPOS") /\ UNCHANGED sfile
           /\ fwd' = fwd \o <<Header("ZFILE"), Info(sfile)>>
  <2>1. /\ fwd \in Seq(FwdTokens) /\ sfile \in 1..NFiles
        /\ rphase' = rphase /\ rfile' = rfile /\ sfile' = sfile
    BY <1>1, <1>4 DEF Typed, SenderTyped, receiverVars
  <2>2. rphase # "start"
    BY <1>4 DEF LineInv, PhaseInv
  <2>3. sphase' \in {"zrpos"} \cup Final
    BY <1>4 DEF NextAttempt, Final, Failures
  <2>4. Alive => ~Streams
    BY <1>4 DEF LineInv, PhaseInv, Final, Failures
  <2>5. FwdInv'
    BY <1>4, <2>1, <2>4, FileSent DEF LineInv, FwdInv, Alive, Streams
  <2>6. /\ Streams' <=> Streams
        /\ Infos' /\ LastInfo(fwd', sfile)
        /\ Holds(fwd', {"ZRQINIT"}) <=> Holds(fwd, {"ZRQINIT"})
    BY <1>4, <2>1, FileSent DEF Streams, Infos
  <2>7. (Asked' <=> Asked) /\ (Alive' <=> Alive)
    BY <1>1, <2>1 DEF Asked, Alive
  <2>8. Sending' <=> Streams
    BY <2>3, <2>6 DEF Sending, Final, Failures
  <2>9. RevInv'
    BY <1>1, <2>1, <2>7, <2>8 DEF LineInv, RevInv, Sending
  <2>10. rphase \in {"start", "main", "info"} => Alive
    BY DEF Alive, Final, Failures
  <2>11. sphase' # "start" /\ sphase' # "eof"
    BY <2>3 DEF Final, Failures
  <2>12. PhaseInv'
    BY <2>1, <2>2, <2>4, <2>6, <2>7, <2>8, <2>10, <2>11 DEF LineInv, PhaseInv, Sending
  <2>13. FileInv'
    BY <2>1, <2>6 DEF FileInv
  <2>. QED
    BY <2>5, <2>9, <2>11, <2>12, <2>13 DEF MeetInv, ConfirmInv
<1>. QED
  BY <1>3, <1>4 DEF SenderTimeout, SenderEnds

\* The receiver reads on, answers with no ZRPOS, or ends.
LEMMA MeetReceiver ==
  ASSUME Typed, LineInv, Alive, UNCHANGED <<senderVars, rfile, received>>, Weaker(fwd, fwd'),
         sphase = "start" => fwd' = fwd,
         rphase' = "start" => rphase = "start" /\ rev' = rev,
         rphase' \in {"start", "main", "info"} => rphase \in {"start", "main", "info"},
         rphase' \in {"file", "data"} => rphase \in {"file", "data"} /\ (Infos' <=> Infos),
         Asked => rphase' \in {"file"} \cup Final,
         Asked' => Asked,
         NoneAfter(rev', {"ZRPOS"}, {"ZRPOS"} \cup Confirming),
         Answered' => Answered \/ sphase # "eof"
  PROVE  MeetInv'
<1>1. sphase' = sphase /\ sfile' = sfile /\ rfile' = rfile /\ received' = received
  BY DEF senderVars
<1>2. (Streams' => Streams) /\ (Infos' => Infos)
      /\ (Holds(fwd', {"ZRQINIT"}) => Holds(fwd, {"ZRQINIT"}))
  BY DEF Streams, Infos, Weaker
<1>3. Sending' => Sending
  BY <1>1, <1>2 DEF Sending
<1>4. FwdInv'
  BY DEF LineInv, FwdInv, Weaker
<1>5. RevInv'
  BY <1>3 DEF LineInv, RevInv
<1>6. PhaseInv'
  BY <1>1, <1>2, <1>3 DEF LineInv, PhaseInv
<1>7. FileInv'
  BY <1>1 DEF LineInv, FileInv, Weaker
<1>8. rphase # "cut"
  BY DEF Alive, Final
<1>9. ConfirmInv'
  BY <1>1, <1>2, <1>8 DEF LineInv, ConfirmInv
<1>. QED
  BY <1>4, <1>5, <1>6, <1>7, <1>9 DEF MeetInv

\* A header other than ZRPOS and those that confirm.
LEMMA ReplyHas ==
  ASSUME Typed, LineInv, NEW t \in HeaderTypes \ {"ZRPOS"}, rev' = Append(rev, Header(t)),
         t \in Confirming => ~Asked
  PROVE  /\ Asked' => Asked
         /\ NoneAfter(rev', {"ZRPOS"}, {"ZRPOS"} \cup Confirming)
         /\ Answered' => Answered \/ t \in Confirming
<1>1. Header(t) \in RevTokens /\ Header(t).type = t /\ rev \in Seq(RevTokens)
  BY HeaderToken DEF Typed
<1>2. \A T : Holds(rev', T) <=> (Holds(rev, T) \/ t \in T)
  BY <1>1, HeaderHas
<1>3. ~Holds(rev, {"ZRPOS"}) \/ t \notin {"ZRPOS"} \cup Confirming
  BY DEF Asked
<1>4. NoneAfter(rev', {"ZRPOS"}, {"ZRPOS"} \cup Confirming)
  BY <1>1, <1>3, HeaderHas DEF LineInv, RevInv
<1>. QED
  BY <1>2, <1>4 DEF Asked, Answered

\* The receiver answers.
LEMMA MeetReplies ==
  ASSUME Typed, LineInv, Alive, rphase # "start",
         UNCHANGED <<senderVars, rfile, received>>, Weaker(fwd, fwd'),
         sphase = "start" => fwd' = fwd,
         NEW t \in HeaderTypes \ {"ZRPOS"}, rev' = Append(rev, Header(t)),
         t \in Confirming => ~Asked /\ ~Sending,
         \/ rphase' \in Final
         \/ rphase' = "main" /\ rphase \in {"main", "info"}
  PROVE  MeetInv'
<1>1. rphase' # "start" /\ rphase' \notin {"file", "data"}
  BY DEF Final, Failures
<1>2. rphase' \in {"main", "info"} => rphase' = "main" /\ rphase \in {"main", "info"}
  BY DEF Final, Failures
<1>3. Asked => rphase' \in {"file"} \cup Final
  BY DEF LineInv, RevInv, Final, Failures
<1>4. t \in Confirming => sphase # "eof"
  BY DEF Sending
<1>. QED
  BY <1>1, <1>2, <1>3, <1>4, ReplyHas, MeetReceiver

\* The receiver says nothing.
LEMMA MeetSilent ==
  ASSUME Typed, LineInv, Alive, rev' = rev,
         UNCHANGED <<senderVars, rfile, received>>, Weaker(fwd, fwd'),
         sphase = "start" => fwd' = fwd,
         \/ rphase' \in Final
         \/ rphase' = rphase /\ (Infos' <=> Infos)
         \/ rphase' = "garbled" /\ rphase \in {"info", "data", "garbled"}
         \/ rphase' = "info" /\ rphase = "main"
         \/ rphase' \in {"data", "file"} /\ rphase \in {"data", "file"} /\ ~Asked /\ (Infos' <=> Infos)
  PROVE  MeetInv'
<1>1. (Asked' <=> Asked) /\ (Answered' <=> Answered)
  BY DEF Asked, Answered
<1>2. NoneAfter(rev', {"ZRPOS"}, {"ZRPOS"} \cup Confirming)
  BY DEF LineInv, RevInv
<1>3. Asked => rphase' \in {"file"} \cup Final
  BY DEF LineInv, RevInv, Final, Failures
<1>4. rphase' = "start" => rphase = "start"
  BY DEF Final, Failures
<1>5. rphase' \in {"start", "main", "info"} => rphase \in {"start", "main", "info"}
  BY DEF Final, Failures
<1>6. rphase' \in {"file", "data"} => rphase \in {"file", "data"} /\ (Infos' <=> Infos)
  BY DEF Final, Failures
<1>. QED
  BY <1>1, <1>2, <1>3, <1>4, <1>5, <1>6, MeetReceiver

\* A file's ZEOF is read: nothing of a file, and no question, is on its way.
LEMMA AtZeof ==
  ASSUME Typed, LineInv, rphase = "file", fwd # <<>>, Head(fwd).type = "ZEOF"
  PROVE  /\ ~Infos /\ ~Holds(Tail(fwd), {"INFO"}) /\ ~Holds(Tail(fwd), StreamTypes)
         /\ ~Asked
         /\ sphase \in {"eof"} \cup Final
         /\ sphase = "eof" => sfile = rfile /\ ~Answered
         /\ ~Holds(Tail(fwd), {"ZRQINIT"})
<1>1. fwd \in Seq(FwdTokens) /\ Alive
  BY DEF Typed, Alive, Final, Failures
<1>2. Streams
  BY <1>1, HoldsTail DEF Streams, StreamTypes
<1>3. ~Holds(Tail(fwd), {"INFO"}) /\ ~Holds(Tail(fwd), StreamTypes)
  BY <1>1, AfterTail DEF LineInv, FwdInv, StreamTypes
<1>4. ~Infos
  BY <1>1, <1>3, HoldsTail DEF Infos
<1>5. ~Asked /\ sphase \in {"eof"} \cup Final /\ ~Holds(fwd, {"ZRQINIT"})
  BY <1>1, <1>2 DEF LineInv, RevInv, PhaseInv, Sending
<1>6. sphase = "eof" => sfile = rfile /\ ~Answered
  BY <1>1, <1>2, <1>4 DEF LineInv, FileInv, ConfirmInv
<1>7. ~Holds(Tail(fwd), {"ZRQINIT"})
  BY <1>1, <1>5, HoldsTail
<1>. QED
  BY <1>3, <1>4, <1>5, <1>6, <1>7

\* The receiver closes a file and confirms it.
LEMMA MeetZeof ==
  ASSUME Typed, LineInv, rphase = "file", fwd # <<>>, Head(fwd).type = "ZEOF",
         fwd' = Tail(fwd), rphase' = "main", received' = received \cup {rfile},
         rev' = rev \o <<Header("ZACK"), Header("ZRINIT")>>, UNCHANGED senderVars
  PROVE  MeetInv'
<1>. DEFINE x == <<Header("ZACK"), Header("ZRINIT")>>
<1>1. sphase' = sphase /\ sfile' = sfile /\ rev \in Seq(RevTokens) /\ Weaker(fwd, fwd')
  BY WeakerTail DEF senderVars, Typed
<1>2. x \in Seq(RevTokens) /\ ~Holds(x, {"ZRPOS"})
  <2>1. /\ Header("ZACK") \in RevTokens /\ Header("ZACK").type = "ZACK"
        /\ Header("ZRINIT") \in RevTokens /\ Header("ZRINIT").type = "ZRINIT"
    BY HeaderToken DEF HeaderTypes
  <2>. QED
    BY <2>1, PairHas
<1>3. ~Holds(rev', {"ZRPOS"})
  <2>1. rev' = rev \o x
    OBVIOUS
  <2>. HIDE DEF x
  <2>2. Holds(rev \o x, {"ZRPOS"}) <=> (Holds(rev, {"ZRPOS"}) \/ Holds(x, {"ZRPOS"}))
    BY <1>1, <1>2, HoldsConcat
  <2>. QED
    BY <1>2, <2>1, <2>2, AtZeof DEF Asked
<1>. HIDE DEF x
<1>4. ~Infos' /\ ~Streams' /\ ~Asked' /\ ~Holds(fwd', {"ZRQINIT"})
  BY <1>3, AtZeof DEF Infos, Streams, Asked
<1>5. FwdInv'
  BY <1>1, <1>4, AfterNone DEF LineInv, FwdInv, Weaker, Alive, Final, Failures
<1>6. RevInv'
  BY <1>3, <1>4, AfterNone DEF RevInv
<1>7. PhaseInv'
  BY <1>1, <1>4, AtZeof DEF PhaseInv, Final, Failures
<1>8. FileInv'
  BY <1>1 DEF LineInv, FileInv, Weaker
<1>9. ConfirmInv'
  BY <1>1, <1>4, AtZeof DEF ConfirmInv
<1>. QED
  BY <1>5, <1>6, <1>7, <1>8, <1>9 DEF MeetInv

\* The receiver confirms a file and dies.
LEMMA MeetDies ==
  ASSUME Typed, LineInv, DieBeforeClose
  PROVE  MeetInv'
<1>1. /\ rphase = "file" /\ fwd # <<>> /\ Head(fwd).type = "ZEOF" /\ fwd' = Tail(fwd)
      /\ rphase' = "cut" /\ rev' = Append(rev, Header("ZACK")) /\ ~Alive'
      /\ sphase' = sphase /\ sfile' = sfile /\ rfile' = rfile /\ received' = received
  BY DEF DieBeforeClose, Reply, senderVars, Alive, Final
<1>2. Weaker(fwd, fwd') /\ rev \in Seq(RevTokens)
  BY <1>1, WeakerTail DEF Typed
<1>3. Header("ZACK") \in RevTokens /\ Header("ZACK").type = "ZACK"
  BY HeaderToken DEF HeaderTypes
<1>4. ~Infos' /\ ~Streams' /\ ~Holds(fwd', {"ZRQINIT"}) /\ ~Asked
  BY <1>1, AtZeof DEF Infos, Streams
<1>5. ~Holds(rev', {"ZRPOS"}) /\ ~Asked'
  BY <1>1, <1>2, <1>3, <1>4, HeaderHas DEF Asked
<1>6. FwdInv'
  BY <1>1, <1>2 DEF LineInv, FwdInv, Weaker
<1>7. RevInv'
  BY <1>5, AfterNone DEF RevInv
<1>8. PhaseInv'
  BY <1>1, <1>4, <1>5, AtZeof DEF PhaseInv, Final, Failures
<1>9. FileInv'
  BY <1>1, <1>2 DEF LineInv, FileInv, Weaker
<1>10. ASSUME sphase = "eof" PROVE rfile = sfile /\ NoneAfter(rev', Confirming, HeaderTypes)
  <2>1. ~Holds(rev, Confirming)
    BY <1>1, <1>10, AtZeof DEF Answered
  <2>2. NoneAfter(rev, Confirming, HeaderTypes)
    BY <2>1, AfterNone
  <2>. QED
    BY <1>1, <1>2, <1>3, <1>10, <2>1, <2>2, AtZeof, HeaderHas
<1>11. ConfirmInv'
  BY <1>1, <1>10 DEF ConfirmInv
<1>. QED
  BY <1>6, <1>7, <1>8, <1>9, <1>11 DEF MeetInv

\* The receiver reads what a file is called, and asks for it.
LEMMA MeetInfo ==
  ASSUME Typed, LineInv, fwd # <<>>, fwd' = Tail(fwd), ReceiveInfo(Head(fwd)), UNCHANGED senderVars
  PROVE  MeetInv'
<1>1. /\ rphase = "info" /\ Head(fwd).type = "INFO" /\ rphase' = "file"
      /\ rfile' = Head(fwd).file /\ received' = received
      /\ rev' = Append(rev, Positioned("ZRPOS", base')) /\ base' \in Nat
      /\ sphase' = sphase /\ sfile' = sfile
      /\ fwd \in Seq(FwdTokens) /\ rev \in Seq(RevTokens)
  <2>1. Head(fwd) \in FwdTokens
    BY TailAt DEF Typed
  <2>2. base' \in Nat
    BY <2>1, ReceiveInfoTyped DEF ReceiverTyped
  <2>. QED
    BY <2>2 DEF ReceiveInfo, Reply, senderVars, Typed
<1>2. /\ Positioned("ZRPOS", base') \in RevTokens
      /\ Positioned("ZRPOS", base').type = "ZRPOS"
  BY <1>1, HeaderToken DEF HeaderTypes
<1>3. Infos
  BY <1>1, HoldsTail DEF Infos
<1>4. ~Sending /\ ~Asked
  BY <1>1, <1>3 DEF LineInv, PhaseInv, RevInv, Final, Failures
<1>5. Weaker(fwd, fwd')
  BY <1>1, WeakerTail
<1>6. ~Holds(fwd', {"ZRQINIT"})
  BY <1>1, AfterTail DEF LineInv, FwdInv, Types
<1>7. ~Sending' /\ ~Streams'
  BY <1>1, <1>4, <1>5 DEF Sending, Streams, Weaker
<1>8. Alive
  BY <1>1 DEF Alive, Final, Failures
<1>9. FwdInv'
  BY <1>5, <1>8 DEF LineInv, FwdInv, Weaker
<1>10. NoneAfter(rev', {"ZRPOS"}, {"ZRPOS"} \cup Confirming)
  BY <1>1, <1>2, <1>4, HeaderHas DEF LineInv, RevInv, Asked
<1>11. RevInv'
  BY <1>1, <1>7, <1>10 DEF RevInv
<1>12. PhaseInv'
  BY <1>1, <1>6, <1>7 DEF LineInv, PhaseInv
<1>13. FileInv'
  BY <1>1, <1>5, LastInfoTail DEF LineInv, FileInv, Weaker, Infos
<1>14. ConfirmInv'
  BY <1>7 DEF ConfirmInv, Sending
<1>. QED
  BY <1>9, <1>11, <1>12, <1>13, <1>14 DEF MeetInv

LEMMA MeetReceiverReads ==
  ASSUME Typed, LineInv, ReceiverReads
  PROVE  MeetInv'
<1>. DEFINE t == Head(fwd)
<1>1. /\ fwd # <<>> /\ fwd' = Tail(fwd) /\ UNCHANGED senderVars
      /\ fwd \in Seq(FwdTokens) /\ sphase # "start"
  BY DEF ReceiverReads, Typed, LineInv, PhaseInv
<1>2. Weaker(fwd, fwd') /\ (t.type # "INFO" => (Infos' <=> Infos))
  BY <1>1, WeakerTail DEF Infos
<1>3. t.type \in StreamTypes => Streams /\ ~Asked
  BY <1>1, HoldsTail DEF Streams, LineInv, RevInv, Sending
<1>4. CASE t.type \in HeaderTypes /\ ReceiveHeader(t)
  <2>1. rphase = "main" /\ Alive /\ UNCHANGED <<rfile, received>>
    BY <1>4 DEF ReceiveHeader, ReceiverEnds, Ignore, Alive, Final, Failures
  <2>2. CASE t.type = "ZRQINIT" /\ rphase' = rphase /\ Reply(Header("ZRINIT"))
    <3>1. Holds(fwd, {"ZRQINIT"})
      BY <1>1, <2>2, HoldsTail
    <3>2. ~Asked /\ ~Sending
      BY <3>1 DEF LineInv, PhaseInv
    <3>3. "ZRINIT" \in HeaderTypes \ {"ZRPOS"}
      BY DEF HeaderTypes
    <3>. QED
      BY <1>1, <1>2, <2>1, <2>2, <3>2, <3>3, MeetReplies DEF Reply
  <2>3. CASE rphase' = "returned" /\ Reply(Header("ZFIN"))
    <3>1. "ZFIN" \in HeaderTypes \ {"ZRPOS"} /\ "ZFIN" \notin Confirming /\ "returned" \in Final
      BY DEF HeaderTypes, Confirming, Final
    <3>. QED
      BY <1>1, <1>2, <2>1, <2>3, <3>1, MeetReplies DEF Reply
  <2>4. CASE t.type = "ZFILE" /\ rphase' = "info" /\ rev' = rev
    BY <1>1, <1>2, <2>1, <2>4, MeetSilent
  <2>5. CASE ReceiverEnds("cancelled")
    BY <1>1, <1>2, <2>1, <2>5, MeetSilent DEF ReceiverEnds, Final, Failures
  <2>6. CASE t.type \in HeaderTypes /\ Ignore
    <3>1. rphase' = rphase /\ rev' = rev /\ (Infos' <=> Infos)
      BY <1>2, <2>6 DEF HeaderTypes, Ignore
    <3>. QED
      BY <1>1, <1>2, <2>1, <3>1, MeetSilent
  <2>. QED
    BY <1>4, <2>2, <2>3, <2>4, <2>5, <2>6 DEF ReceiveHeader
<1>5. CASE t.type \in HeaderTypes /\ ReceiveFileHeader(t)
  <2>1. rphase = "file" /\ Alive
    BY <1>5 DEF ReceiveFileHeader, Alive, Final, Failures
  <2>2. CASE t.type = "ZEOF" /\ rphase' = "main" /\ received' = received \cup {rfile}
             /\ rev' = rev \o <<Header("ZACK"), Header("ZRINIT")>>
    BY <1>1, <2>1, <2>2, MeetZeof
  <2>3. CASE t.type = "ZDATA" /\ rphase' = "data" /\ UNCHANGED <<rfile, received, rev>>
    BY <1>1, <1>2, <1>3, <2>1, <2>3, MeetSilent DEF StreamTypes
  <2>4. CASE ReceiverEnds("cancelled")
    BY <1>1, <1>2, <2>1, <2>4, MeetSilent DEF ReceiverEnds, Final, Failures
  <2>5. CASE t.type \in HeaderTypes /\ Ignore
    <3>1. /\ rphase' = rphase /\ rev' = rev /\ (Infos' <=> Infos)
          /\ UNCHANGED <<rfile, received>>
      BY <1>2, <2>5 DEF HeaderTypes, Ignore
    <3>. QED
      BY <1>1, <1>2, <2>1, <3>1, MeetSilent
  <2>. QED
    BY <1>5, <2>2, <2>3, <2>4, <2>5 DEF ReceiveFileHeader
<1>6. CASE ReceiveInfo(t)
  BY <1>1, <1>6, MeetInfo
<1>7. CASE ReceiveData(t)
  <2>1. /\ rphase = "data" /\ rphase' \in {"data", "file"} /\ UNCHANGED <<rfile, received, rev>>
        /\ t.type \in StreamTypes /\ t.type # "INFO" /\ Alive
    BY <1>7 DEF ReceiveData, StreamTypes, DataTypes, Alive, Final, Failures
  <2>. QED
    BY <1>1, <1>2, <1>3, <2>1, MeetSilent
<1>8. CASE ReceiverEnds("protocol") /\ Alive
  BY <1>1, <1>2, <1>8, MeetSilent DEF ReceiverEnds, Final, Failures
<1>9. CASE ReceiveUnexpected(t)
  BY <1>8, <1>9 DEF ReceiveUnexpected, Alive, Final, Failures
<1>10. CASE ReceiveIntoSubpacket(t)
  <2>1. rphase \in {"info", "data", "garbled"} /\ Alive
    BY <1>10 DEF ReceiveIntoSubpacket, Alive, Final, Failures
  <2>2. CASE rphase' = "garbled" /\ UNCHANGED <<rfile, received, rev>>
    BY <1>1, <1>2, <2>1, <2>2, MeetSilent
  <2>. QED
    BY <1>8, <1>10, <2>1, <2>2 DEF ReceiveIntoSubpacket
<1>11. \/ t.type \in HeaderTypes /\ (ReceiveHeader(t) \/ ReceiveFileHeader(t))
       \/ ReceiveInfo(t) \/ ReceiveData(t) \/ ReceiveUnexpected(t) \/ ReceiveIntoSubpacket(t)
  BY DEF ReceiverReads
<1>. QED
  BY <1>4, <1>5, <1>6, <1>7, <1>9, <1>10, <1>11

LEMMA MeetForeign ==
  ASSUME Typed, LineInv, ForeignSkip \/ ForeignAbort
  PROVE  MeetInv'
<1>1. CASE ForeignSkip
  <2>1. /\ rphase = "info" /\ Alive /\ fwd # <<>> /\ fwd' = Tail(fwd) /\ rphase' = "main"
        /\ rev' = Append(rev, Header("ZSKIP")) /\ UNCHANGED <<senderVars, rfile, received>>
    BY <1>1 DEF ForeignSkip, Reply, Alive, Final, Failures
  <2>2. sphase # "start" /\ Weaker(fwd, fwd')
    BY <2>1, WeakerTail DEF LineInv, PhaseInv, Typed
  <2>3. "ZSKIP" \in HeaderTypes \ {"ZRPOS"} /\ "ZSKIP" \notin Confirming
    BY DEF HeaderTypes, Confirming
  <2>. QED
    BY <2>1, <2>2, <2>3, MeetReplies
<1>2. CASE ForeignAbort
  <2>1. PICK t \in Foreign \cap {"ZABORT", "ZCAN"} :
          \/ /\ rphase \in {"main", "file"}
             /\ rphase' = "cancelled"
             /\ Reply(Header(t))
             /\ UNCHANGED <<sphase, fwd>>
          \/ /\ sphase \in {"init", "zrpos", "eof"}
             /\ sphase' = "cancelled"
             /\ fwd' = Append(fwd, Header(t))
             /\ UNCHANGED <<rphase, rev>>
    BY <1>2 DEF ForeignAbort
  <2>2. UNCHANGED <<sfile, attempt, rfile, received>>
    BY <1>2 DEF ForeignAbort
  <2>3. /\ t \in HeaderTypes \ {"ZRPOS"} /\ t \notin Confirming
        /\ t \in HeaderTypes \ {"ZDATA", "ZEOF", "ZRQINIT"} /\ "cancelled" \in Final
    BY DEF HeaderTypes, Confirming, Final, Failures
  <2>4. CASE /\ rphase \in {"main", "file"} /\ rphase' = "cancelled"
             /\ Reply(Header(t)) /\ UNCHANGED <<sphase, fwd>>
    <3>1. Alive /\ rphase # "start" /\ Weaker(fwd, fwd')
      BY <2>4, WeakerSelf DEF Alive, Final, Failures
    <3>. QED
      BY <2>2, <2>3, <2>4, <3>1, MeetReplies DEF Reply, senderVars
  <2>5. CASE /\ sphase \in {"init", "zrpos", "eof"} /\ sphase' = "cancelled"
             /\ fwd' = Append(fwd, Header(t)) /\ UNCHANGED <<rphase, rev>>
    <3>1. fwd \in Seq(FwdTokens) /\ rphase' = rphase /\ rev' = rev
      BY <2>5 DEF Typed
    <3>2. FwdInv'
      BY <2>3, <2>5, <3>1, HeaderSent DEF LineInv, FwdInv, Alive
    <3>3. /\ Streams' <=> Streams
          /\ Infos' <=> Infos
          /\ Holds(fwd', {"ZRQINIT"}) <=> Holds(fwd, {"ZRQINIT"})
      BY <2>3, <2>5, <3>1, HeaderSent DEF Streams, Infos
    <3>4. (Asked' <=> Asked) /\ (Alive' <=> Alive) /\ (Sending' => Sending)
      BY <2>5, <3>1, <3>3 DEF Asked, Alive, Sending
    <3>5. RevInv'
      BY <3>1, <3>4 DEF LineInv, RevInv
    <3>6. PhaseInv'
      BY <2>3, <2>5, <3>1, <3>3, <3>4 DEF LineInv, PhaseInv
    <3>. QED
      BY <2>5, <3>2, <3>5, <3>6 DEF MeetInv, FileInv, ConfirmInv
  <2>. QED
    BY <2>1, <2>4, <2>5
<1>. QED
  BY <1>1, <1>2

LEMMA MeetFaults ==
  ASSUME Typed, LineInv, ForwardFault \/ ReverseFault
  PROVE  MeetInv'
<1>1. CASE ForwardFault
  <2>1. /\ fwd # <<>> /\ Alive /\ UNCHANGED <<senderVars, receiverVars, rev>>
        /\ fwd \in Seq(FwdTokens) /\ sphase # "start"
    BY <1>1 DEF ForwardFault, Alive, LineInv, PhaseInv, Typed
  <2>2. Weaker(fwd, fwd') /\ (Infos' <=> Infos)
    <3>1. CASE Losable(Head(fwd)) /\ fwd' = Tail(fwd)
      BY <2>1, <3>1, WeakerTail DEF Losable, HeaderTypes, Infos
    <3>2. CASE fwd' = << [Head(fwd) EXCEPT !.ok = FALSE] >> \o Tail(fwd)
      BY <2>1, <3>2, Damaged, WeakerDamaged DEF Infos
    <3>. QED
      BY <1>1, <3>1, <3>2 DEF ForwardFault
  <2>. QED
    BY <2>1, <2>2, MeetSilent DEF receiverVars
<1>2. CASE ReverseFault
  <2>1. /\ rev # <<>> /\ UNCHANGED <<senderVars, receiverVars, fwd>>
        /\ rev \in Seq(RevTokens) /\ rphase # "start"
    BY <1>2 DEF ReverseFault, LineInv, PhaseInv, Typed
  <2>2. Weaker(rev, rev')
    <3>1. CASE rev' = Tail(rev)
      BY <2>1, <3>1, WeakerTail
    <3>2. CASE rev' = << [Head(rev) EXCEPT !.ok = FALSE] >> \o Tail(rev)
      BY <2>1, <3>2, Damaged, WeakerDamaged
    <3>. QED
      BY <1>2, <3>1, <3>2 DEF ReverseFault
  <2>. QED
    BY <2>1, <2>2, MeetStays DEF senderVars
<1>. QED
  BY <1>1, <1>2

\* With nothing on the line.
LEMMA MeetBlank ==
  ASSUME fwd' = <<>>, rev' = <<>>,
         \/ sphase' \in Final /\ rphase' \in Final
         \/ sphase' = "start" /\ rphase' = "start"
  PROVE  MeetInv'
<1>1. ~Streams' /\ ~Infos' /\ ~Asked' /\ ~Answered'
  BY EmptyHas DEF Streams, Infos, Asked, Answered
<1>2. sphase' \notin {"zrpos", "eof", "fin"} /\ ~Sending'
  BY <1>1 DEF Sending, Final, Failures
<1>3. FwdInv' /\ RevInv'
  BY <1>1, <1>2, EmptyHas DEF FwdInv, RevInv
<1>4. PhaseInv'
  BY <1>1, <1>2, EmptyHas DEF PhaseInv, Final, Failures
<1>. QED
  BY <1>2, <1>3, <1>4 DEF MeetInv, FileInv, ConfirmInv

LEMMA MeetStep ==
  ASSUME Typed, LineInv, [Next]_vars
  PROVE  MeetInv'
<1>1. CASE SenderStart
  BY <1>1, MeetStart
<1>2. CASE SenderReads
  BY <1>2, MeetSenderReads
<1>3. CASE SenderTimeout
  BY <1>3, MeetSenderTimeout
<1>4. CASE ReceiverStart
  <2>1. /\ rphase = "start" /\ rphase' = "main" /\ rev = <<>> /\ UNCHANGED <<senderVars, fwd, rfile, received>>
        /\ rev' = Append(rev, Header("ZRINIT")) /\ sphase # "eof"
    BY <1>4 DEF ReceiverStart, Reply, LineInv, PhaseInv
  <2>2. Header("ZRINIT") \in RevTokens /\ Header("ZRINIT").type = "ZRINIT" /\ <<>> \in Seq(RevTokens)
    BY HeaderToken DEF HeaderTypes
  <2>3. \A T : Holds(rev', T) <=> "ZRINIT" \in T
    BY <2>1, <2>2, EmptyHas, HeaderHas
  <2>4. ~Asked' /\ ~Asked
    BY <2>1, <2>3, EmptyHas DEF Asked
  <2>5. NoneAfter(rev', {"ZRPOS"}, {"ZRPOS"} \cup Confirming)
    BY <2>1, <2>2, EmptyHas, HeaderHas
  <2>6. Alive /\ Weaker(fwd, fwd')
    BY <2>1, WeakerSelf DEF Alive, Final, Failures
  <2>. QED
    BY <2>1, <2>4, <2>5, <2>6, MeetReceiver
<1>5. CASE ReceiverReads
  BY <1>5, MeetReceiverReads
<1>6. CASE ReceiverTimeout
  <2>1. Alive /\ rphase' \in Final /\ UNCHANGED <<senderVars, fwd, rev, rfile, received>>
    BY <1>6 DEF ReceiverTimeout, ReceiverEnds, Alive, Final, Failures
  <2>. QED
    BY <2>1, WeakerSelf, MeetSilent
<1>7. CASE ForwardFault \/ ReverseFault
  BY <1>7, MeetFaults
<1>8. CASE ForeignSkip \/ ForeignAbort
  BY <1>8, MeetForeign
<1>9. CASE Cut
  BY <1>9, MeetBlank DEF Cut, Final
<1>10. CASE DieBeforeClose
  BY <1>10, MeetDies
<1>11. CASE Restart
  BY <1>11, MeetBlank DEF Restart
<1>12. CASE UNCHANGED vars
  <2>1. /\ UNCHANGED <<sfile, fwd, receiverVars>> /\ sphase' = sphase /\ rev' = rev
    BY <1>12 DEF vars, senderVars
  <2>. QED
    BY <2>1, WeakerSelf, MeetStays
<1>. QED
  BY <1>1, <1>2, <1>3, <1>4, <1>5, <1>6, <1>7, <1>8, <1>9, <1>10, <1>11, <1>12 DEF Next

-----------------------------------------------------------------------------
(* What the sender has left behind *)

\* Nothing is left behind, and what was known still is.
LEMMA KnownKept ==
  ASSUME KnownInv, received \subseteq received', skipped \subseteq skipped',
         sphase' \in {"zrpos", "eof", "fin", "returned"} =>
           sphase \in {"zrpos", "eof", "fin", "returned"} /\ sfile' = sfile,
         rphase = "cut" /\ rev = <<>> => rphase' = "cut" /\ rfile' = rfile /\ rev' = <<>>
  PROVE  KnownInv'
BY DEF KnownInv

\* The sender goes on to the next file.
LEMMA KnownNext ==
  ASSUME Typed, KnownInv, sphase \in {"zrpos", "eof"}, GoTo(sfile + 1),
         rev # <<>>, received' = received, skipped \subseteq skipped',
         \/ sfile \in received \cup skipped'
         \/ rphase' = "cut" /\ rfile' = sfile /\ rev' = <<>>
  PROVE  KnownInv'
<1>1. sfile' = sfile + 1 /\ sfile \in Nat
  BY Constants DEF GoTo, Typed, SenderTyped
<1>2. SUFFICES ASSUME NEW f \in 1..sfile
      PROVE  \/ f \in received' \cup skipped'
             \/ f = sfile /\ rphase' = "cut" /\ rfile' = f /\ rev' = <<>>
  BY <1>1 DEF KnownInv
<1>3. CASE f = sfile
  BY <1>3
<1>4. CASE f # sfile
  <2>1. f \in 1..(sfile - 1)
    BY <1>1, <1>4
  <2>. QED
    BY <2>1 DEF KnownInv
<1>. QED
  BY <1>3, <1>4

LEMMA KnownSenderReads ==
  ASSUME Typed, LineInv, SenderReads
  PROVE  KnownInv'
<1>1. /\ rev # <<>> /\ rev' = Tail(rev) /\ rphase' = rphase /\ rfile' = rfile
      /\ received' = received /\ KnownInv /\ rev \in Seq(RevTokens)
  BY DEF SenderReads, receiverVars, LineInv, Typed
<1>2. CASE sphase = "init" /\ GoTo(1)
  <2>1. sfile' = 1
    BY <1>2 DEF GoTo
  <2>. QED
    BY <2>1 DEF KnownInv
<1>3. CASE /\ sphase = "zrpos" /\ sphase' = "eof" /\ UNCHANGED <<sfile, skipped>>
  BY <1>1, <1>3, KnownKept
<1>4. CASE sphase = "zrpos" /\ GoTo(sfile + 1) /\ skipped' = skipped \cup {sfile}
  BY <1>1, <1>4, KnownNext
<1>5. CASE sphase = "eof" /\ Head(rev).type \in {"ZRINIT", "ZACK"} /\ GoTo(sfile + 1)
           /\ UNCHANGED skipped
  <2>1. Answered
    BY <1>1, <1>5, HoldsTail DEF Answered, Confirming
  <2>2. CASE sfile \in received
    BY <1>1, <1>5, <2>2, KnownNext
  <2>3. CASE rphase = "cut" /\ rfile = sfile /\ NoneAfter(rev, Confirming, HeaderTypes)
    <3>1. ~Holds(rev', HeaderTypes)
      BY <1>1, <1>5, <2>3, AfterTail DEF Confirming
    <3>2. rev' \in Seq(RevTokens)
      BY <1>1, TailAt
    <3>3. rev' = <<>>
      <4>1. \A i \in 1..Len(rev') : rev'[i] \in RevTokens
        BY <3>2, ElementOfSeq
      <4>2. \A i \in 1..Len(rev') : rev'[i].type \in HeaderTypes
        BY <4>1 DEF RevTokens
      <4>3. Len(rev') \in Nat /\ ~(1 \in 1..Len(rev'))
        BY <3>1, <3>2, <4>2, LenProperties DEF Holds
      <4>. QED
        BY <3>2, <4>3, EmptySeq
    <3>. QED
      BY <1>1, <1>5, <2>3, <3>3, KnownNext
  <2>. QED
    BY <1>5, <2>1, <2>2, <2>3 DEF LineInv, ConfirmInv
<1>6. CASE \E how \in Failures \cup {"returned"} :
             SenderEnds(how) /\ (how = "returned" => sphase = "fin") /\ UNCHANGED skipped
  <2>1. /\ sphase' \in {"returned"} => sphase = "fin"
        /\ sphase' \in Failures \cup {"returned"} /\ UNCHANGED <<sfile, skipped>>
    BY <1>6 DEF SenderEnds
  <2>2. sphase' \in {"zrpos", "eof", "fin", "returned"} => sphase = "fin" /\ sfile' = sfile
    BY <2>1 DEF Failures
  <2>. QED
    BY <1>1, <2>1, <2>2, KnownKept
<1>7. CASE \E how \in Failures :
             /\ sphase \in {"zrpos", "eof"} /\ NextAttempt(how) /\ UNCHANGED <<sfile, fwd, skipped>>
  BY <1>1, <1>7, KnownKept
<1>. QED
  BY <1>2, <1>3, <1>4, <1>5, <1>6, <1>7, SenderReadsOne DEF SenderAnswers

LEMMA KnownStep ==
  ASSUME Typed, LineInv, [Next]_vars
  PROVE  KnownInv'
<1>0. KnownInv
  BY DEF LineInv
<1>1. CASE SenderStart
  BY <1>1 DEF SenderStart, KnownInv
<1>2. CASE SenderReads
  BY <1>2, KnownSenderReads
<1>3. CASE SenderTimeout
  <2>1. UNCHANGED <<receiverVars, skipped, rev>>
    BY <1>3 DEF SenderTimeout
  <2>2. /\ sphase' \in {"zrpos", "eof", "fin", "returned"} =>
             sphase \in {"zrpos", "eof", "fin", "returned"}
        /\ sfile' = sfile
    BY <1>3 DEF SenderTimeout, SenderEnds, NextAttempt
  <2>. QED
    BY <1>0, <2>1, <2>2, KnownKept DEF receiverVars
<1>4. CASE ReceiverStart
  BY <1>0, <1>4, KnownKept DEF ReceiverStart, senderVars
<1>5. CASE ReceiverReads
  <2>1. rphase # "cut" /\ UNCHANGED <<senderVars, skipped>>
    BY <1>5 DEF ReceiverReads, ReceiveHeader, ReceiveFileHeader, ReceiveInfo, ReceiveData,
       ReceiveUnexpected, ReceiveIntoSubpacket
  <2>2. received \subseteq received'
    BY <1>5 DEF ReceiverReads, ReceiveHeader, ReceiveFileHeader, ReceiveInfo, ReceiveData,
       ReceiveUnexpected, ReceiveIntoSubpacket, ReceiverEnds, Ignore
  <2>. QED
    BY <1>0, <2>1, <2>2, KnownKept DEF senderVars
<1>6. CASE ReceiverTimeout
  BY <1>0, <1>6, KnownKept DEF ReceiverTimeout, ReceiverEnds, senderVars
<1>7. CASE ForwardFault
  BY <1>0, <1>7, KnownKept DEF ForwardFault, senderVars, receiverVars
<1>8. CASE ReverseFault
  BY <1>0, <1>8, KnownKept DEF ReverseFault, senderVars, receiverVars
<1>9. CASE ForeignSkip
  BY <1>0, <1>9, KnownKept DEF ForeignSkip, senderVars
<1>10. CASE ForeignAbort
  BY <1>0, <1>10, KnownKept DEF ForeignAbort
<1>11. CASE Cut
  <2>1. sphase' \in {"zrpos", "eof", "fin", "returned"} => sphase' = sphase
    BY <1>11 DEF Cut
  <2>2. rphase = "cut" => rphase' = "cut"
    BY <1>11 DEF Cut, Final
  <2>. QED
    BY <1>0, <1>11, <2>1, <2>2, KnownKept DEF Cut
<1>12. CASE DieBeforeClose
  BY <1>0, <1>12, KnownKept DEF DieBeforeClose, senderVars
<1>13. CASE Restart
  BY <1>13 DEF Restart, KnownInv
<1>14. CASE UNCHANGED vars
  BY <1>0, <1>14, KnownKept DEF vars, senderVars, receiverVars
<1>. QED
  BY <1>1, <1>2, <1>3, <1>4, <1>5, <1>6, <1>7, <1>8, <1>9, <1>10, <1>11, <1>12, <1>13, <1>14
     DEF Next

\* The inductive invariant of both ends.
LEMMA LineAlways == Spec => [](Typed /\ LineInv)
<1>1. Init => Typed /\ LineInv
  BY TypedInit, LineInit
<1>2. Typed /\ LineInv /\ [Next]_vars => (Typed /\ LineInv)'
  BY TypedStep, MeetStep, KnownStep DEF LineInv, MeetInv
<1>. QED
  BY <1>1, <1>2, PTL DEF Spec

\* When send() returns, every file of the batch was received whole or refused;
\* all that can be missing is the last file's end, when the receiver died after
\* its ZACK and could answer ZFIN no more.
THEOREM SendKnows == Spec => []SenderKnows
<1>1. Typed /\ LineInv => SenderKnows
  <2>. SUFFICES ASSUME Typed, LineInv, sphase = "returned"
       PROVE  \A f \in 1..NFiles :
                \/ f \in received \cup skipped
                \/ f = NFiles /\ rphase = "cut" /\ rfile = f
    BY DEF SenderKnows
  <2>1. sfile = NFiles + 1 /\ NFiles \in Nat
    BY Constants DEF Typed, SenderTyped
  <2>2. sfile - 1 = NFiles
    BY <2>1
  <2>. QED
    BY <2>2 DEF LineInv, KnownInv
<1>. QED
  BY <1>1, LineAlways, PTL

-----------------------------------------------------------------------------
(* Sessions that nothing disturbs.  The two ends take turns, but for their   *)
(* beginning, where both write unasked and the sender gets a ZRINIT too many *)
(* that costs it an attempt.                                                 *)

Undisturbed == faults = 0 /\ late = 0 /\ rphase # "cut"

Whole(q) == \A i \in 1..Len(q) : q[i].ok

\* Both ends begin, in either order.
Opening ==
  /\ sphase \in {"start", "init"}
  /\ \/ /\ rphase = "start" /\ rev = <<>>
        /\ fwd = IF sphase = "start" THEN <<>> ELSE <<Header("ZRQINIT")>>
     \/ sphase = "start" /\ rphase = "main" /\ fwd = <<>> /\ rev = <<Header("ZRINIT")>>
     \/ /\ sphase = "init" /\ rphase = "main"
        /\ fwd = <<Header("ZRQINIT")>> /\ rev = <<Header("ZRINIT")>>
     \/ /\ sphase = "init" /\ rphase = "main"
        /\ fwd = <<>> /\ rev = <<Header("ZRINIT"), Header("ZRINIT")>>

\* A ZRINIT is yet to be read, was read in vain, or there was none.
Spare ==
  \/ rev = <<Header("ZRINIT")>> /\ attempt = 0
  \/ rev = <<>> /\ attempt <= 1

SpareThen(h) ==
  \/ rev = <<Header("ZRINIT"), h>> /\ attempt = 0
  \/ rev = <<h>> /\ attempt <= 1

\* A file is offered, asked for or refused.
Offering ==
  /\ sphase = "zrpos"
  /\ \/ /\ rphase = "main" /\ rev = <<>> /\ attempt = 0
        /\ fwd = <<Header("ZRQINIT"), Header("ZFILE"), Info(sfile)>>
     \/ rphase = "main" /\ fwd = <<Header("ZFILE"), Info(sfile)>> /\ Spare
     \/ rphase = "info" /\ fwd = <<Info(sfile)>> /\ Spare
     \/ /\ rphase = "file" /\ rfile = sfile /\ fwd = <<>>
        /\ SpareThen(Positioned("ZRPOS", base))
     \/ rphase = "main" /\ fwd = <<>> /\ SpareThen(Header("ZSKIP"))

\* What is left of a stream after its ZDATA, with data and without.
Rest(q) ==
  /\ Len(q) >= 2
  /\ \A i \in 1..Len(q) :
       /\ q[i].ok
       /\ i = Len(q) => q[i].type = "ZEOF"
       /\ i = Len(q) - 1 => q[i].type = "ZCRCE"
       /\ i < Len(q) - 1 => q[i].type = "ZCRCG"

Closes(q) == Len(q) = 1 /\ q[1].ok /\ q[1].type = "ZEOF"

\* The file is sent, and confirmed.
Streaming ==
  /\ sphase = "eof"
  /\ \/ /\ rphase = "file" /\ rfile = sfile /\ rev = <<>>
        /\ \E n \in 0..base : fwd = Stream(sfile, n)
     \/ rphase = "data" /\ rfile = sfile /\ rev = <<>> /\ Rest(fwd)
     \/ rphase = "file" /\ rfile = sfile /\ rev = <<>> /\ Closes(fwd)
     \/ rphase = "main" /\ fwd = <<>> /\ rev = <<Header("ZACK"), Header("ZRINIT")>>

\* Nothing was left to send, and the receiver waits for it.
Stuck ==
  /\ rfile # 0 /\ base >= Sizes[rfile] /\ rev = <<>>
  /\ \/ sphase = "eof" /\ rphase = "data" /\ Closes(fwd)
     \/ sphase \in {"eof"} \cup Failures /\ rphase = "garbled" /\ fwd = <<>>
     \/ sphase \in {"eof"} \cup Final /\ rphase \in Failures

\* ZFIN, and its answer.
Ending ==
  /\ Whole(rev)
  /\ \/ /\ sphase \in {"fin", "returned"} /\ rphase = "main"
        /\ \/ fwd = <<Header("ZRQINIT"), Header("ZFIN")>>
           \/ fwd = <<Header("ZFIN")>>
     \/ sphase \in {"fin", "returned", "cut"} /\ rphase = "returned"

Course == Opening \/ Offering \/ Streaming \/ Stuck \/ Ending

CauseInv == Undisturbed => Course

\* What a header and a subpacket say.
LEMMA Words ==
  /\ \A t : Header(t).type = t /\ Header(t).ok
  /\ \A f : Info(f).type = "INFO" /\ Info(f).ok /\ Info(f).file = f
  /\ \A t, n : Positioned(t, n).type = t /\ Positioned(t, n).ok /\ Positioned(t, n).from = Offset(n)
BY DEF Header, Info, Positioned

\* Lines of up to three tokens.
LEMMA Short ==
  /\ \A a : <<a>> # <<>> /\ Head(<<a>>) = a /\ Tail(<<a>>) = <<>>
  /\ \A a, b : <<a, b>> # <<>> /\ Head(<<a, b>>) = a /\ Tail(<<a, b>>) = <<b>>
  /\ \A a, b, c : <<a, b, c>> # <<>> /\ Head(<<a, b, c>>) = a /\ Tail(<<a, b, c>>) = <<b, c>>
  /\ \A a : Append(<<>>, a) = <<a>>
  /\ \A a, b : Append(<<a>>, b) = <<a, b>> /\ <<>> \o <<a, b>> = <<a, b>>
  /\ \A a, b, c : <<a>> \o <<b, c>> = <<a, b, c>>
<1>1. \A a : <<a>> # <<>> /\ Head(<<a>>) = a /\ Tail(<<a>>) = <<>>
  OBVIOUS
<1>2. \A a, b : <<a, b>> # <<>> /\ Head(<<a, b>>) = a /\ Tail(<<a, b>>) = <<b>>
  OBVIOUS
<1>3. \A a, b, c : <<a, b, c>> # <<>> /\ Head(<<a, b, c>>) = a /\ Tail(<<a, b, c>>) = <<b, c>>
  OBVIOUS
<1>4. \A a : Append(<<>>, a) = <<a>>
  OBVIOUS
<1>5. ASSUME NEW a, NEW b PROVE Append(<<a>>, b) = <<a, b>>
  <2>. DEFINE S == {a, b}
              s == Append(<<a>>, b)
  <2>1. <<a>> \in Seq(S) /\ Len(<<a>>) = 1 /\ <<a>>[1] = a /\ b \in S
    OBVIOUS
  <2>2. <<a, b>> \in Seq(S) /\ Len(<<a, b>>) = 2 /\ <<a, b>>[1] = a /\ <<a, b>>[2] = b
    OBVIOUS
  <2>3. s \in Seq(S) /\ Len(s) = 2 /\ s[1] = a /\ s[2] = b
    BY <2>1, AppendProperties
  <2>. HIDE DEF s
  <2>4. Len(s) = Len(<<a, b>>) /\ \A i \in 1..Len(s) : s[i] = <<a, b>>[i]
    BY <2>2, <2>3
  <2>5. s = <<a, b>>
    BY <2>2, <2>3, <2>4, SeqEqual
  <2>. QED
    BY <2>5 DEF s
<1>6. \A a, b : <<>> \o <<a, b>> = <<a, b>>
  OBVIOUS
<1>7. ASSUME NEW a, NEW b, NEW c PROVE <<a>> \o <<b, c>> = <<a, b, c>>
  <2>. DEFINE S == {a, b, c}
              s == <<a>> \o <<b, c>>
  <2>1. <<a>> \in Seq(S) /\ Len(<<a>>) = 1 /\ <<a>>[1] = a
    OBVIOUS
  <2>2. <<b, c>> \in Seq(S) /\ Len(<<b, c>>) = 2 /\ <<b, c>>[1] = b /\ <<b, c>>[2] = c
    OBVIOUS
  <2>3. /\ <<a, b, c>> \in Seq(S) /\ Len(<<a, b, c>>) = 3
        /\ <<a, b, c>>[1] = a /\ <<a, b, c>>[2] = b /\ <<a, b, c>>[3] = c
    OBVIOUS
  <2>4. s \in Seq(S) /\ Len(s) = 3 /\ s[1] = a /\ s[1 + 1] = b /\ s[1 + 2] = c
    BY <2>1, <2>2, ConcatAt
  <2>. HIDE DEF s
  <2>5. Len(s) = Len(<<a, b, c>>) /\ \A i \in 1..Len(s) : s[i] = <<a, b, c>>[i]
    BY <2>3, <2>4
  <2>6. s = <<a, b, c>>
    BY <2>3, <2>4, <2>5, SeqEqual
  <2>. QED
    BY <2>6 DEF s
<1>. QED
  BY <1>1, <1>2, <1>3, <1>4, <1>5, <1>6, <1>7

\* What is whole stays so.
LEMMA WholeLines ==
  /\ Whole(<<>>)
  /\ \A q \in Seq(RevTokens) : Whole(q) /\ q # <<>> => Head(q).ok /\ Whole(Tail(q))
  /\ \A q \in Seq(RevTokens), t \in HeaderTypes : Whole(q) => Whole(Append(q, Header(t)))
  /\ \A t : Whole(<<Header(t)>>)
  /\ \A t, u : Whole(<<Header(t), Header(u)>>)
<1>1. Whole(<<>>)
  BY DEF Whole
<1>2. ASSUME NEW q \in Seq(RevTokens), Whole(q), q # <<>> PROVE Head(q).ok /\ Whole(Tail(q))
  <2>1. /\ 1 \in 1..Len(q) /\ Head(q) = q[1]
        /\ \A i \in 1..Len(Tail(q)) : i + 1 \in 1..Len(q) /\ Tail(q)[i] = q[i + 1]
    BY <1>2, TailAt
  <2>. QED
    BY <1>2, <2>1 DEF Whole
<1>3. ASSUME NEW q \in Seq(RevTokens), NEW t \in HeaderTypes, Whole(q)
      PROVE  Whole(Append(q, Header(t)))
  <2>1. Header(t) \in RevTokens /\ Header(t).ok
    BY HeaderToken, Words
  <2>2. /\ Len(q) \in Nat /\ Len(Append(q, Header(t))) = Len(q) + 1
        /\ Append(q, Header(t))[Len(q) + 1] = Header(t)
        /\ \A i \in 1..Len(q) : Append(q, Header(t))[i] = q[i]
    BY <2>1, AppendProperties, LenProperties
  <2>3. ASSUME NEW i \in 1..(Len(q) + 1) PROVE Append(q, Header(t))[i].ok
    <3>1. CASE i = Len(q) + 1
      BY <2>1, <2>2, <3>1
    <3>2. CASE i \in 1..Len(q)
      BY <1>3, <2>2, <3>2 DEF Whole
    <3>. QED
      BY <2>2, <3>1, <3>2
  <2>. QED
    BY <2>2, <2>3 DEF Whole
<1>4. \A t : Whole(<<Header(t)>>)
  BY Words DEF Whole
<1>5. \A t, u : Whole(<<Header(t), Header(u)>>)
  BY Words DEF Whole
<1>. QED
  BY <1>1, <1>2, <1>3, <1>4, <1>5

\* A stream's ZDATA is followed by data, if there is any, or by the ZEOF.
LEMMA StreamRest ==
  ASSUME NEW f \in 1..NFiles, NEW n \in Nat
  PROVE  LET q == Stream(f, n)
         IN /\ q # <<>> /\ Head(q).type = "ZDATA" /\ Head(q).ok
            /\ \/ Rest(Tail(q))
               \/ Closes(Tail(q)) /\ n >= Sizes[f]
<1>. DEFINE q == Stream(f, n)
            p == Subpackets(f, n)
            c == Count(f, n)
            r == Tail(q)
<1>1. /\ q \in Seq(FwdTokens) /\ Len(q) = c + 2 /\ c \in Nat
      /\ q[1].type = "ZDATA" /\ q[c + 2].type = "ZEOF" /\ q[1].ok /\ q[c + 2].ok
      /\ \A i \in 1..c : q[i + 1] = p[i]
  BY StreamIs
<1>2. \A i \in 1..c : p[i].ok /\ p[i].type = Term(i, c)
  BY SubpacketFields, Zenon
<1>3. c = 0 => n >= Sizes[f]
  BY PiecesLie, Constants
<1>. HIDE DEF q, p, c, r
<1>4. q # <<>>
  BY <1>1, EmptySeq
<1>5. /\ Head(q) = q[1] /\ Len(r) = c + 1
      /\ \A i \in 1..(c + 1) : r[i] = q[i + 1]
  BY <1>1, <1>4, TailAt DEF r
<1>6. r[c + 1].type = "ZEOF" /\ r[c + 1].ok
  BY <1>1, <1>5
<1>7. \A i \in 1..c : r[i] = p[i]
  BY <1>1, <1>5
<1>10. Head(q).type = "ZDATA" /\ Head(q).ok
  BY <1>1, <1>5
<1>8. ASSUME c = 0 PROVE Closes(r) /\ n >= Sizes[f]
  BY <1>1, <1>3, <1>5, <1>6, <1>8 DEF Closes
<1>9. ASSUME c # 0 PROVE Rest(r)
  <2>1. ASSUME NEW i \in 1..(c + 1)
        PROVE  /\ r[i].ok
               /\ i = c + 1 => r[i].type = "ZEOF"
               /\ i = c => r[i].type = "ZCRCE"
               /\ i < c => r[i].type = "ZCRCG"
    BY <1>1, <1>2, <1>6, <1>7 DEF Term
  <2>2. Len(r) = c + 1 /\ Len(r) >= 2 /\ Len(r) - 1 = c
    BY <1>1, <1>5, <1>9
  <2>. QED
    BY <2>1, <2>2 DEF Rest
<1>11. Rest(r) \/ (Closes(r) /\ n >= Sizes[f])
  BY <1>8, <1>9
<1>. QED
  BY <1>4, <1>10, <1>11 DEF q, r

\* The next token of a stream, and what is left then.
LEMMA RestTail ==
  ASSUME NEW q \in Seq(FwdTokens)
  PROVE  /\ Rest(q) => /\ q # <<>> /\ Head(q).ok
                       /\ \/ Head(q).type = "ZCRCG" /\ Rest(Tail(q))
                          \/ Head(q).type = "ZCRCE" /\ Closes(Tail(q))
         /\ Closes(q) => q # <<>> /\ Head(q).ok /\ Head(q).type = "ZEOF" /\ Tail(q) = <<>>
<1>. DEFINE r == Tail(q)
<1>0. Len(q) \in Nat
  BY LenProperties
<1>1. Len(q) # 0 => /\ q # <<>> /\ Head(q) = q[1] /\ Len(r) = Len(q) - 1 /\ r \in Seq(FwdTokens)
                    /\ \A i \in 1..Len(r) : r[i] = q[i + 1]
  BY TailAt, EmptySeq
<1>. HIDE DEF r
<1>2. ASSUME Closes(q) PROVE q # <<>> /\ Head(q).ok /\ Head(q).type = "ZEOF" /\ r = <<>>
  BY <1>1, <1>2, EmptySeq DEF Closes
<1>3. ASSUME Rest(q)
      PROVE  /\ q # <<>> /\ Head(q).ok
             /\ \/ Head(q).type = "ZCRCG" /\ Rest(r)
                \/ Head(q).type = "ZCRCE" /\ Closes(r)
  <2>1. /\ Len(q) >= 2
        /\ \A i \in 1..Len(q) : /\ q[i].ok
                                /\ i = Len(q) => q[i].type = "ZEOF"
                                /\ i = Len(q) - 1 => q[i].type = "ZCRCE"
                                /\ i < Len(q) - 1 => q[i].type = "ZCRCG"
    BY <1>3 DEF Rest
  <2>4. /\ q # <<>> /\ Head(q) = q[1] /\ Len(r) = Len(q) - 1
        /\ \A i \in 1..Len(r) : r[i] = q[i + 1]
    BY <1>0, <1>1, <2>1
  <2>2. CASE Len(q) = 2
    <3>1. q[1].ok /\ q[2].ok /\ q[1].type = "ZCRCE" /\ q[2].type = "ZEOF"
      BY <2>1, <2>2
    <3>2. Len(r) = 1 /\ r[1] = q[2]
      BY <2>2, <2>4
    <3>. QED
      BY <2>4, <3>1, <3>2 DEF Closes
  <2>3. CASE Len(q) > 2
    <3>1. ASSUME NEW i \in 1..Len(r)
          PROVE  /\ r[i].ok
                 /\ i = Len(r) => r[i].type = "ZEOF"
                 /\ i = Len(r) - 1 => r[i].type = "ZCRCE"
                 /\ i < Len(r) - 1 => r[i].type = "ZCRCG"
      <4>1. i + 1 \in 1..Len(q) /\ r[i] = q[i + 1]
        BY <1>0, <1>1, <2>3
      <4>. QED
        BY <1>0, <1>1, <2>1, <2>3, <4>1
    <3>2. Rest(r)
      <4>1. Len(r) >= 2
        BY <1>0, <2>3, <2>4
      <4>. QED
        BY <3>1, <4>1 DEF Rest
    <3>3. q[1].ok /\ q[1].type = "ZCRCG"
      BY <1>0, <2>1, <2>3
    <3>. QED
      BY <2>4, <3>2, <3>3
  <2>5. Len(q) >= 2
    BY <2>1
  <2>6. Len(q) = 2 \/ Len(q) > 2
    <3>1. \A n \in Nat : n >= 2 => n = 2 \/ n > 2
      OBVIOUS
    <3>. QED
      BY <1>0, <2>5, <3>1, Zenon
  <2>. QED
    BY <2>2, <2>3, <2>6
<1>. QED
  BY <1>2, <1>3 DEF r

-----------------------------------------------------------------------------
(* One step of an undisturbed session *)

LEMMA CourseInit == Init => CauseInv
BY DEF Init, CauseInv, Course, Opening

LEMMA CourseSenderStart ==
  ASSUME Course, SenderStart
  PROVE  Course'
<1>1. /\ sphase = "start" /\ sphase' = "init" /\ fwd' = Append(fwd, Header("ZRQINIT"))
      /\ rphase' = rphase /\ rev' = rev
  BY DEF SenderStart, receiverVars
<1>2. Opening
  BY <1>1 DEF Course, Offering, Streaming, Stuck, Ending, Final, Failures
<1>3. fwd = <<>> /\ fwd' = <<Header("ZRQINIT")>>
  BY <1>1, <1>2, Short DEF Opening
<1>4. Opening'
  BY <1>1, <1>2, <1>3 DEF Opening
<1>. QED
  BY <1>4 DEF Course

LEMMA CourseReceiverStart ==
  ASSUME Course, ReceiverStart
  PROVE  Course'
<1>1. /\ rphase = "start" /\ rphase' = "main" /\ rev' = Append(rev, Header("ZRINIT"))
      /\ sphase' = sphase /\ fwd' = fwd
  BY DEF ReceiverStart, senderVars, Reply
<1>2. Opening
  BY <1>1 DEF Course, Offering, Streaming, Stuck, Ending, Final, Failures
<1>3. rev = <<>> /\ rev' = <<Header("ZRINIT")>>
  BY <1>1, <1>2, Short DEF Opening
<1>4. Opening'
  BY <1>1, <1>2, <1>3 DEF Opening
<1>. QED
  BY <1>4 DEF Course

\* The sender goes to the next file, or to its end.
LEMMA CourseGoTo ==
  ASSUME Typed, NEW f \in 1..(NFiles + 1), GoTo(f), rphase' = "main",
         \/ fwd = <<Header("ZRQINIT")>> /\ rev' = <<>>
         \/ fwd = <<>> /\ rev' = <<>>
         \/ fwd = <<>> /\ rev' = <<Header("ZRINIT")>>
  PROVE  Course'
<1>1. fwd \in Seq(FwdTokens) /\ attempt' = 0
  BY DEF Typed, GoTo
<1>2. CASE sphase' = "zrpos" /\ f \in 1..NFiles /\ fwd' = fwd \o <<Header("ZFILE"), Info(f)>>
  <2>1. sfile' = f
    BY <1>1, GoToTyped
  <2>2. CASE fwd = <<Header("ZRQINIT")>> /\ rev' = <<>>
    <3>1. fwd' = <<Header("ZRQINIT"), Header("ZFILE"), Info(f)>>
      BY <1>2, <2>2, Short
    <3>. QED
      BY <1>1, <1>2, <2>1, <2>2, <3>1 DEF Course, Offering, SpareThen
  <2>3. CASE fwd = <<>> /\ (rev' = <<>> \/ rev' = <<Header("ZRINIT")>>)
    <3>1. fwd' = <<Header("ZFILE"), Info(f)>>
      BY <1>2, <2>3, Short
    <3>2. Spare'
      BY <1>1, <2>3 DEF Spare
    <3>. QED
      BY <1>1, <1>2, <2>1, <2>3, <3>1, <3>2 DEF Course, Offering
  <2>. QED
    BY <2>2, <2>3
<1>3. CASE sphase' = "fin" /\ fwd' = Append(fwd, Header("ZFIN"))
  <2>1. Whole(rev)'
    BY WholeLines
  <2>2. fwd' = <<Header("ZRQINIT"), Header("ZFIN")>> \/ fwd' = <<Header("ZFIN")>>
    BY <1>3, Short
  <2>. QED
    BY <1>3, <2>1, <2>2 DEF Course, Ending
<1>. QED
  BY <1>1, <1>2, <1>3, GoToTyped

\* What wraps gets no bigger.
LEMMA OffsetLess == \A n \in Nat : Offset(n) \in 0..n
<1>1. OffsetMod \in Nat \ {0}
  BY Constants
<1>2. \A m \in Nat \ {0}, n \in Nat : n % m \in 0..n
  OBVIOUS
<1>. QED
  BY <1>1, <1>2 DEF Offset

LEMMA CourseSenderReads ==
  ASSUME Typed, Course, SenderReads, RetryLimit > 1
  PROVE  Course'
<1>1. /\ rev # <<>> /\ rev' = Tail(rev) /\ rev \in Seq(RevTokens) /\ fwd \in Seq(FwdTokens)
      /\ rphase' = rphase /\ rfile' = rfile /\ base' = base /\ base \in Nat /\ NFiles \in Nat
  BY Constants DEF SenderReads, receiverVars, Typed, ReceiverTyped
<1>2. ASSUME Opening PROVE Course'
  <2>1. sphase = "init" /\ rphase = "main"
    BY <1>1, <1>2, Short DEF Opening, SenderReads, AwaitZrinit, AwaitZrpos, AwaitConfirmation
  <2>2. \/ fwd = <<Header("ZRQINIT")>> /\ rev = <<Header("ZRINIT")>>
        \/ fwd = <<>> /\ rev = <<Header("ZRINIT"), Header("ZRINIT")>>
    BY <1>2, <2>1 DEF Opening
  <2>3. Head(rev) = Header("ZRINIT")
    BY <2>2, Short
  <2>4. Head(rev).ok /\ Head(rev).type = "ZRINIT"
    BY <2>3, Words
  <2>5. GoTo(1) /\ 1 \in 1..(NFiles + 1)
    BY <1>1, <2>1, <2>4 DEF SenderReads, AwaitZrinit, AwaitZrpos, AwaitConfirmation
  <2>6. \/ fwd = <<Header("ZRQINIT")>> /\ rev' = <<>>
        \/ fwd = <<>> /\ rev' = <<Header("ZRINIT")>>
    <3>1. CASE fwd = <<Header("ZRQINIT")>> /\ rev = <<Header("ZRINIT")>>
      BY <1>1, <3>1, Short
    <3>2. CASE fwd = <<>> /\ rev = <<Header("ZRINIT"), Header("ZRINIT")>>
      BY <1>1, <3>2, Short
    <3>. QED
      BY <2>2, <3>1, <3>2
  <2>. QED
    BY <1>1, <2>1, <2>5, <2>6, CourseGoTo
<1>3. ASSUME Offering PROVE Course'
  <2>1. sphase = "zrpos" /\ sfile \in 1..NFiles /\ sfile + 1 \in 1..(NFiles + 1)
    BY <1>1, <1>3 DEF Offering, Typed, SenderTyped
  <2>2. Head(rev).ok => AwaitZrpos
    BY <2>1 DEF SenderReads, AwaitZrinit, AwaitConfirmation
  <2>3. ASSUME Head(rev) = Header("ZRINIT"), attempt = 0
        PROVE  UNCHANGED <<sphase, sfile, fwd>> /\ attempt' = 1
    <3>1. Head(rev).ok /\ Head(rev).type = "ZRINIT"
      BY <2>3, Words
    <3>2. NextAttempt("no ZRPOS") /\ UNCHANGED <<sfile, fwd>>
      BY <2>2, <3>1 DEF AwaitZrpos
    <3>3. attempt + 1 < RetryLimit /\ RetryLimit \in Nat /\ attempt + 1 = 1
      BY <2>3, Constants
    <3>4. ~(attempt + 1 >= RetryLimit)
      BY <3>3
    <3>. QED
      BY <3>2, <3>3, <3>4 DEF NextAttempt
  <2>4. CASE Spare
    <3>1. rev = <<Header("ZRINIT")>> /\ attempt = 0
      BY <1>1, <2>4 DEF Spare
    <3>2. Head(rev) = Header("ZRINIT") /\ rev' = <<>>
      BY <1>1, <3>1, Short
    <3>3. UNCHANGED <<sphase, sfile, fwd>> /\ attempt' = 1
      BY <2>3, <3>1, <3>2
    <3>4. Spare'
      BY <3>2, <3>3 DEF Spare
    <3>5. \/ rphase = "main" /\ fwd = <<Header("ZFILE"), Info(sfile)>>
          \/ rphase = "info" /\ fwd = <<Info(sfile)>>
          \/ fwd = <<>>
      BY <1>3, <1>1, <3>1 DEF Offering
    <3>6. CASE fwd = <<>>
      <4>1. PICK h : SpareThen(h) /\ h.type # "ZRINIT"
        BY <1>3, <3>6, Short, Words DEF Offering
      <4>2. Head(rev) = h \/ Tail(rev) = <<h>>
        <5>1. CASE rev = <<Header("ZRINIT"), h>>
          BY <5>1, Short
        <5>2. CASE rev = <<h>>
          BY <5>2, Short
        <5>. QED
          BY <4>1, <5>1, <5>2 DEF SpareThen
      <4>3. Head(rev) # h
        BY <3>2, <4>1, Words
      <4>. QED
        BY <1>1, <3>2, <4>2, <4>3, Short
    <3>. QED
      BY <1>1, <2>1, <3>3, <3>4, <3>5, <3>6 DEF Course, Offering
  <2>5. ASSUME NEW h, SpareThen(h)
        PROVE  \/ rev' = <<h>> /\ attempt' <= 1 /\ UNCHANGED <<sphase, sfile, fwd>>
               \/ Head(rev) = h /\ rev' = <<>>
    <3>1. CASE rev = <<Header("ZRINIT"), h>> /\ attempt = 0
      <4>1. Head(rev) = Header("ZRINIT") /\ rev' = <<h>>
        BY <1>1, <3>1, Short
      <4>. QED
        BY <2>3, <3>1, <4>1 DEF SpareThen
    <3>2. CASE rev = <<h>>
      BY <1>1, <3>2, Short
    <3>. QED
      BY <2>5, <3>1, <3>2 DEF SpareThen
  <2>6. CASE rphase = "file" /\ rfile = sfile /\ fwd = <<>> /\ SpareThen(Positioned("ZRPOS", base))
    <3>1. CASE rev' = <<Positioned("ZRPOS", base)>> /\ attempt' <= 1 /\ UNCHANGED <<sphase, sfile, fwd>>
      BY <1>1, <2>1, <2>6, <3>1 DEF Course, Offering, SpareThen
    <3>2. CASE Head(rev) = Positioned("ZRPOS", base) /\ rev' = <<>>
      <4>1. Head(rev).ok /\ Head(rev).type = "ZRPOS" /\ Head(rev).from = Offset(base)
        BY <3>2, Words
      <4>2. sphase' = "eof" /\ sfile' = sfile /\ fwd' = fwd \o Stream(sfile, Offset(base))
        BY <2>2, <4>1 DEF AwaitZrpos
      <4>3. Offset(base) \in 0..base /\ Offset(base) \in Nat
        BY <1>1, OffsetLess, OffsetNat
      <4>4. fwd' = Stream(sfile, Offset(base))
        BY <2>1, <2>6, <4>2, <4>3, StreamShape, ConcatEmptySeq
      <4>. QED
        BY <1>1, <2>6, <3>2, <4>2, <4>3, <4>4 DEF Course, Streaming
    <3>. QED
      BY <2>5, <2>6, <3>1, <3>2
  <2>7. CASE rphase = "main" /\ fwd = <<>> /\ SpareThen(Header("ZSKIP"))
    <3>1. CASE rev' = <<Header("ZSKIP")>> /\ attempt' <= 1 /\ UNCHANGED <<sphase, sfile, fwd>>
      BY <1>1, <2>1, <2>7, <3>1 DEF Course, Offering, SpareThen
    <3>2. CASE Head(rev) = Header("ZSKIP") /\ rev' = <<>>
      <4>1. Head(rev).ok /\ Head(rev).type = "ZSKIP"
        BY <3>2, Words
      <4>2. GoTo(sfile + 1)
        BY <2>2, <4>1 DEF AwaitZrpos
      <4>. QED
        BY <1>1, <2>1, <2>7, <3>2, <4>2, CourseGoTo
    <3>. QED
      BY <2>5, <2>7, <3>1, <3>2
  <2>. QED
    BY <1>1, <1>3, <2>4, <2>6, <2>7 DEF Offering
<1>4. ASSUME Streaming PROVE Course'
  <2>1. /\ sphase = "eof" /\ rphase = "main" /\ fwd = <<>>
        /\ rev = <<Header("ZACK"), Header("ZRINIT")>>
        /\ sfile + 1 \in 1..(NFiles + 1)
    BY <1>1, <1>4 DEF Streaming, Typed, SenderTyped
  <2>2. Head(rev) = Header("ZACK") /\ rev' = <<Header("ZRINIT")>>
    BY <1>1, <2>1, Short
  <2>3. Head(rev).ok /\ Head(rev).type = "ZACK"
    BY <2>2, Words
  <2>4. GoTo(sfile + 1)
    BY <2>1, <2>3 DEF SenderReads, AwaitZrinit, AwaitZrpos, AwaitConfirmation, Confirms
  <2>. QED
    BY <1>1, <2>1, <2>2, <2>4, CourseGoTo
<1>5. ASSUME Ending PROVE Course'
  <2>1. Head(rev).ok /\ Whole(rev)'
    BY <1>1, <1>5, WholeLines DEF Ending
  <2>2. sphase = "fin" /\ sphase' = "returned" /\ fwd' = fwd
    BY <1>5, <2>1 DEF Ending, SenderReads, AwaitZrinit, AwaitZrpos, AwaitConfirmation, SenderEnds
  <2>. QED
    BY <1>1, <1>5, <2>1, <2>2 DEF Course, Ending
<1>6. ~Stuck
  BY <1>1 DEF Stuck
<1>. QED
  BY <1>2, <1>3, <1>4, <1>5, <1>6 DEF Course

\* In silence either nothing is left to do, or the receiver is stuck.
LEMMA CourseQuiet ==
  ASSUME Course, Quiet
  PROVE  \/ Stuck
         \/ /\ Ending /\ rphase = "returned"
            /\ sphase \in {"fin", "returned", "cut"}
<1>1. ~Opening
  BY Short DEF Quiet, Opening, Final, Failures
<1>2. ~Offering
  <2>1. ASSUME Spare \/ rev = <<>>, fwd # <<>>, rphase \in {"main", "info"} PROVE ~Quiet
    BY <2>1 DEF Quiet, Final, Failures
  <2>2. ASSUME NEW h, SpareThen(h), sphase = "zrpos" PROVE ~Quiet
    <3>1. rev # <<>>
      BY <2>2, Short DEF SpareThen
    <3>. QED
      BY <2>2, <3>1 DEF Quiet, Final, Failures
  <2>. QED
    BY <2>1, <2>2, Short DEF Offering
<1>3. ~Streaming
  <2>1. ASSUME NEW n \in 0..base, fwd = Stream(sfile, n) PROVE fwd # <<>>
    <3>1. fwd # <<>>
      BY <2>1 DEF Stream
    <3>. QED
      BY <3>1
  <2>2. Rest(fwd) \/ Closes(fwd) => fwd # <<>>
    BY DEF Rest, Closes
  <2>. QED
    BY <2>1, <2>2, Short DEF Streaming, Quiet, Final, Failures
<1>4. Ending => rphase = "returned" /\ sphase \in {"fin", "returned", "cut"}
  BY Short DEF Ending, Quiet, Final, Failures
<1>. QED
  BY <1>1, <1>2, <1>3, <1>4 DEF Course

\* So a timer that waits ends only what has no answer to expect.
LEMMA CourseTimeouts ==
  ASSUME Typed, Undisturbed, Course, Undisturbed', SenderTimeout \/ ReceiverTimeout
  PROVE  Course'
<1>1. Quiet
  <2>1. late = 0 /\ late' = 0
    BY DEF Undisturbed
  <2>2. late' # late + 1
    BY <2>1
  <2>. QED
    BY <2>2 DEF SenderTimeout, ReceiverTimeout, TimerFires
<1>2. CASE SenderTimeout
  <2>1. UNCHANGED <<receiverVars, rev>>
    BY <1>2 DEF SenderTimeout
  <2>2. CASE Stuck
    <3>1. sphase = "eof" /\ NextAttempt("no ZRINIT") /\ UNCHANGED fwd
      BY <1>2, <2>2 DEF Stuck, SenderTimeout, Final, Failures
    <3>2. sphase' \in {"eof"} \cup Failures
      BY <3>1 DEF NextAttempt, Failures
    <3>3. rphase # "data"
      <4>1. Closes(fwd) => fwd # <<>>
        BY DEF Closes
      <4>. QED
        BY <1>1, <2>2, <4>1 DEF Stuck, Quiet, Final, Failures
    <3>. QED
      BY <2>1, <2>2, <3>1, <3>2, <3>3 DEF Course, Stuck, receiverVars, Final
  <2>3. CASE Ending /\ rphase = "returned" /\ sphase \in {"fin", "returned", "cut"}
    <3>1. sphase' = "returned"
      BY <1>2, <2>3 DEF SenderTimeout, SenderEnds
    <3>2. Whole(rev)'
      BY <2>1, <2>3 DEF Ending
    <3>. QED
      BY <2>1, <2>3, <3>1, <3>2 DEF Course, Ending, receiverVars
  <2>. QED
    BY <1>1, <2>2, <2>3, CourseQuiet
<1>3. CASE ReceiverTimeout
  <2>1. /\ rphase \in {"main", "info", "file", "data", "garbled"} /\ rphase' = "timeout"
        /\ UNCHANGED <<rfile, base, rev, fwd, sphase>>
    BY <1>3 DEF ReceiverTimeout, ReceiverEnds, senderVars
  <2>2. Stuck /\ sphase \in {"eof"} \cup Final
    BY <1>1, <2>1, CourseQuiet DEF Stuck, Final
  <2>. QED
    BY <2>1, <2>2 DEF Course, Stuck, Failures
<1>. QED
  BY <1>2, <1>3

\* What receive() does with what it may read.
LEMMA ReceiverDoes ==
  ASSUME ReceiverReads, Head(fwd).ok
  PROVE  LET t == Head(fwd).type
         IN /\ rphase = "main" /\ t = "ZRQINIT" =>
                 rphase' = "main" /\ rev' = Append(rev, Header("ZRINIT"))
            /\ rphase = "main" /\ t = "ZFIN" =>
                 rphase' = "returned" /\ rev' = Append(rev, Header("ZFIN"))
            /\ rphase = "main" /\ t = "ZFILE" => rphase' = "info" /\ rev' = rev
            /\ rphase = "info" /\ t = "INFO" =>
                 /\ rphase' = "file" /\ rfile' = Head(fwd).file
                 /\ rev' = Append(rev, Positioned("ZRPOS", base'))
            /\ rphase = "file" /\ t = "ZDATA" =>
                 rphase' = "data" /\ UNCHANGED <<rfile, base, rev>>
            /\ rphase = "file" /\ t = "ZEOF" =>
                 rphase' = "main" /\ rev' = rev \o <<Header("ZACK"), Header("ZRINIT")>>
            /\ rphase = "data" /\ t = "ZCRCG" =>
                 rphase' = "data" /\ UNCHANGED <<rfile, base, rev>>
            /\ rphase = "data" /\ t = "ZCRCE" =>
                 rphase' = "file" /\ UNCHANGED <<rfile, base, rev>>
            /\ rphase = "data" /\ t = "ZEOF" =>
                 rphase' = "garbled" /\ UNCHANGED <<rfile, base, rev>>
            /\ rphase \notin Final
<1>. DEFINE t == Head(fwd)
<1>1. CASE t.type \in HeaderTypes /\ (ReceiveHeader(t) \/ ReceiveFileHeader(t))
  BY <1>1 DEF ReceiveHeader, ReceiveFileHeader, ReceiverEnds, Ignore, Reply, HeaderTypes, Final, Failures
<1>2. CASE ReceiveInfo(t)
  BY <1>2 DEF ReceiveInfo, Reply, Final, Failures
<1>3. CASE ReceiveData(t)
  BY <1>3 DEF ReceiveData, DataTypes, Final, Failures
<1>4. CASE ReceiveUnexpected(t)
  BY <1>4 DEF ReceiveUnexpected, HeaderTypes, Final, Failures
<1>5. CASE ReceiveIntoSubpacket(t)
  BY <1>5 DEF ReceiveIntoSubpacket, HeaderTypes, Final, Failures
<1>. QED
  BY <1>1, <1>2, <1>3, <1>4, <1>5 DEF ReceiverReads

LEMMA CourseReceiverReads ==
  ASSUME Typed, Course, ReceiverReads
  PROVE  Course'
<1>1. /\ fwd # <<>> /\ fwd' = Tail(fwd) /\ rev \in Seq(RevTokens) /\ fwd \in Seq(FwdTokens)
      /\ UNCHANGED <<sphase, sfile, attempt>> /\ NFiles \in Nat
  BY Constants DEF ReceiverReads, senderVars, Typed
<1>2. ASSUME Opening PROVE Course'
  <2>1. /\ sphase = "init" /\ rphase = "main" /\ fwd = <<Header("ZRQINIT")>>
        /\ rev = <<Header("ZRINIT")>>
    BY <1>1, <1>2 DEF Opening, ReceiverReads, ReceiveHeader, ReceiveFileHeader, ReceiveInfo,
       ReceiveData, ReceiveUnexpected, ReceiveIntoSubpacket
  <2>2. Head(fwd) = Header("ZRQINIT") /\ fwd' = <<>>
    BY <1>1, <2>1, Short
  <2>3. Head(fwd).ok /\ Head(fwd).type = "ZRQINIT"
    BY <2>2, Words
  <2>4. rphase' = "main" /\ rev' = Append(rev, Header("ZRINIT"))
    BY <2>1, <2>3, ReceiverDoes
  <2>5. rev' = <<Header("ZRINIT"), Header("ZRINIT")>>
    BY <2>1, <2>4, Short
  <2>. QED
    BY <1>1, <2>1, <2>2, <2>4, <2>5 DEF Course, Opening
<1>3. ASSUME Offering PROVE Course'
  <2>1. sphase = "zrpos" /\ sphase' = "zrpos" /\ sfile' = sfile
    BY <1>1, <1>3 DEF Offering
  <2>2. CASE /\ rphase = "main" /\ rev = <<>> /\ attempt = 0
             /\ fwd = <<Header("ZRQINIT"), Header("ZFILE"), Info(sfile)>>
    <3>1. Head(fwd) = Header("ZRQINIT") /\ fwd' = <<Header("ZFILE"), Info(sfile)>>
      BY <1>1, <2>2, Short
    <3>2. Head(fwd).ok /\ Head(fwd).type = "ZRQINIT"
      BY <3>1, Words
    <3>3. rphase' = "main" /\ rev' = Append(rev, Header("ZRINIT"))
      BY <2>2, <3>2, ReceiverDoes
    <3>4. Spare'
      BY <1>1, <2>2, <3>3, Short DEF Spare
    <3>. QED
      BY <2>1, <3>1, <3>3, <3>4 DEF Course, Offering
  <2>3. CASE rphase = "main" /\ fwd = <<Header("ZFILE"), Info(sfile)>> /\ Spare
    <3>1. Head(fwd) = Header("ZFILE") /\ fwd' = <<Info(sfile)>>
      BY <1>1, <2>3, Short
    <3>2. Head(fwd).ok /\ Head(fwd).type = "ZFILE"
      BY <3>1, Words
    <3>3. rphase' = "info" /\ rev' = rev
      BY <2>3, <3>2, ReceiverDoes
    <3>4. Spare'
      BY <1>1, <2>3, <3>3 DEF Spare
    <3>. QED
      BY <2>1, <3>1, <3>3, <3>4 DEF Course, Offering
  <2>4. CASE rphase = "info" /\ fwd = <<Info(sfile)>> /\ Spare
    <3>1. Head(fwd) = Info(sfile) /\ fwd' = <<>>
      BY <1>1, <2>4, Short
    <3>2. Head(fwd).ok /\ Head(fwd).type = "INFO" /\ Head(fwd).file = sfile
      BY <3>1, Words
    <3>3. rphase' = "file" /\ rfile' = sfile /\ rev' = Append(rev, Positioned("ZRPOS", base'))
      BY <2>4, <3>2, ReceiverDoes
    <3>4. SpareThen(Positioned("ZRPOS", base))'
      BY <1>1, <2>4, <3>3, Short DEF Spare, SpareThen
    <3>. QED
      BY <2>1, <3>1, <3>3, <3>4 DEF Course, Offering
  <2>. QED
    BY <1>1, <1>3, <2>2, <2>3, <2>4 DEF Offering
<1>4. ASSUME Streaming PROVE Course'
  <2>1. sphase = "eof" /\ sphase' = "eof" /\ sfile' = sfile /\ sfile \in 1..NFiles
    BY <1>1, <1>4 DEF Streaming, Typed, SenderTyped
  <2>2. CASE /\ rphase = "file" /\ rfile = sfile /\ rev = <<>>
             /\ \E n \in 0..base : fwd = Stream(sfile, n)
    <3>1. PICK n \in 0..base : fwd = Stream(sfile, n)
      BY <2>2
    <3>2. n \in Nat /\ base \in Nat /\ n <= base /\ Sizes[sfile] \in Nat
      BY <2>1, Constants DEF Typed, ReceiverTyped
    <3>3. /\ Head(fwd).ok /\ Head(fwd).type = "ZDATA"
          /\ Rest(fwd') \/ (Closes(fwd') /\ n >= Sizes[sfile])
      BY <1>1, <2>1, <3>1, <3>2, StreamRest
    <3>4. rphase' = "data" /\ UNCHANGED <<rfile, base, rev>>
      BY <2>2, <3>3, ReceiverDoes
    <3>5. CASE Rest(fwd')
      BY <2>1, <2>2, <3>4, <3>5 DEF Course, Streaming
    <3>6. CASE Closes(fwd') /\ n >= Sizes[sfile]
      <4>1. rfile' # 0 /\ base' >= Sizes[rfile']
        BY <1>1, <2>1, <2>2, <3>2, <3>4, <3>6
      <4>. QED
        BY <2>1, <2>2, <3>4, <3>6, <4>1 DEF Course, Stuck
    <3>. QED
      BY <3>3, <3>5, <3>6
  <2>3. CASE rphase = "data" /\ rfile = sfile /\ rev = <<>> /\ Rest(fwd)
    <3>1. /\ Head(fwd).ok
          /\ \/ Head(fwd).type = "ZCRCG" /\ Rest(fwd')
             \/ Head(fwd).type = "ZCRCE" /\ Closes(fwd')
      BY <1>1, <2>3, RestTail
    <3>2. /\ UNCHANGED <<rfile, base, rev>>
          /\ Head(fwd).type = "ZCRCG" => rphase' = "data"
          /\ Head(fwd).type = "ZCRCE" => rphase' = "file"
      BY <2>3, <3>1, ReceiverDoes
    <3>. QED
      BY <2>1, <2>3, <3>1, <3>2 DEF Course, Streaming
  <2>4. CASE rphase = "file" /\ rev = <<>> /\ Closes(fwd)
    <3>1. Head(fwd).ok /\ Head(fwd).type = "ZEOF" /\ fwd' = <<>>
      BY <1>1, <2>4, RestTail
    <3>2. rphase' = "main" /\ rev' = rev \o <<Header("ZACK"), Header("ZRINIT")>>
      BY <2>4, <3>1, ReceiverDoes
    <3>3. rev' = <<Header("ZACK"), Header("ZRINIT")>>
      BY <2>4, <3>2, Short
    <3>. QED
      BY <2>1, <3>1, <3>2, <3>3 DEF Course, Streaming
  <2>. QED
    BY <1>1, <1>4, <2>2, <2>3, <2>4 DEF Streaming
<1>5. ASSUME Stuck PROVE Course'
  <2>1. rphase \notin Failures
    BY DEF ReceiverReads, ReceiveHeader, ReceiveFileHeader, ReceiveInfo,
       ReceiveData, ReceiveUnexpected, ReceiveIntoSubpacket, Failures
  <2>2. sphase = "eof" /\ rphase = "data" /\ Closes(fwd)
    BY <1>1, <1>5, <2>1 DEF Stuck
  <2>3. Head(fwd).ok /\ Head(fwd).type = "ZEOF" /\ fwd' = <<>>
    BY <1>1, <2>2, RestTail
  <2>4. rphase' = "garbled" /\ UNCHANGED <<rfile, base, rev>>
    BY <2>2, <2>3, ReceiverDoes
  <2>. QED
    BY <1>1, <1>5, <2>2, <2>3, <2>4 DEF Course, Stuck
<1>6. ASSUME Ending PROVE Course'
  <2>1. rphase # "returned"
    BY DEF ReceiverReads, ReceiveHeader, ReceiveFileHeader, ReceiveInfo,
       ReceiveData, ReceiveUnexpected, ReceiveIntoSubpacket
  <2>2. Whole(rev) /\ sphase \in {"fin", "returned"} /\ rphase = "main"
    BY <1>6, <2>1 DEF Ending
  <2>3. CASE fwd = <<Header("ZRQINIT"), Header("ZFIN")>>
    <3>1. Head(fwd) = Header("ZRQINIT") /\ fwd' = <<Header("ZFIN")>>
      BY <1>1, <2>3, Short
    <3>2. Head(fwd).ok /\ Head(fwd).type = "ZRQINIT"
      BY <3>1, Words
    <3>3. rphase' = "main" /\ rev' = Append(rev, Header("ZRINIT"))
      BY <2>2, <3>2, ReceiverDoes
    <3>4. Whole(rev')
      BY <1>1, <2>2, <3>3, WholeLines DEF HeaderTypes
    <3>. QED
      BY <1>1, <2>2, <3>1, <3>3, <3>4 DEF Course, Ending
  <2>4. CASE fwd = <<Header("ZFIN")>>
    <3>1. Head(fwd) = Header("ZFIN")
      BY <2>4, Short
    <3>2. Head(fwd).ok /\ Head(fwd).type = "ZFIN"
      BY <3>1, Words
    <3>3. rphase' = "returned" /\ rev' = Append(rev, Header("ZFIN"))
      BY <2>2, <3>2, ReceiverDoes
    <3>4. Whole(rev')
      BY <1>1, <2>2, <3>3, WholeLines DEF HeaderTypes
    <3>. QED
      BY <1>1, <2>2, <3>3, <3>4 DEF Course, Ending
  <2>. QED
    BY <1>6, <2>1, <2>3, <2>4 DEF Ending
<1>. QED
  BY <1>2, <1>3, <1>4, <1>5, <1>6 DEF Course

\* The file is refused.
LEMMA CourseSkip ==
  ASSUME Typed, Course, ForeignSkip
  PROVE  Course'
<1>1. /\ rphase = "info" /\ fwd' = Tail(fwd) /\ rphase' = "main"
      /\ rev' = Append(rev, Header("ZSKIP")) /\ UNCHANGED <<sphase, sfile, attempt>>
  BY DEF ForeignSkip, Reply, senderVars
<1>2. sphase = "zrpos" /\ fwd = <<Info(sfile)>> /\ Spare
  BY <1>1 DEF Course, Opening, Offering, Streaming, Stuck, Ending, Failures
<1>3. fwd' = <<>>
  BY <1>1, <1>2, Short
<1>4. SpareThen(Header("ZSKIP"))'
  BY <1>1, <1>2, Short DEF Spare, SpareThen
<1>. QED
  BY <1>1, <1>2, <1>3, <1>4 DEF Course, Offering

\* A connection that drops when the receiver is done.
LEMMA CourseCut ==
  ASSUME Typed, Course, Cut, rphase' # "cut"
  PROVE  Course'
<1>1. /\ rphase \in Final /\ rphase' = rphase /\ sphase \notin Final /\ sphase' = "cut"
      /\ rev' = <<>> /\ UNCHANGED <<rfile, base>>
  BY DEF Cut
<1>2. CASE Stuck
  BY <1>1, <1>2 DEF Course, Stuck, Final, Failures
<1>3. CASE Ending
  <2>1. rphase = "returned"
    BY <1>1, <1>3 DEF Ending, Final, Failures
  <2>2. Whole(rev')
    BY <1>1, WholeLines
  <2>. QED
    BY <1>1, <2>1, <2>2 DEF Course, Ending
<1>. QED
  BY <1>1, <1>2, <1>3 DEF Course, Opening, Offering, Streaming, Final, Failures

\* What disturbs a session does so until the next one.
LEMMA CauseStep ==
  ASSUME Typed, CauseInv, [Next]_vars, RetryLimit > 1
  PROVE  CauseInv'
<1>1. CASE Restart
  BY <1>1 DEF Restart, CauseInv, Course, Opening
<1>. SUFFICES ASSUME ~Restart, Undisturbed' PROVE Course'
  BY <1>1 DEF CauseInv
<1>2. Undisturbed
  <2>1. faults' = 0 /\ late' = 0 /\ rphase' # "cut"
    BY DEF Undisturbed
  <2>2. faults \in Nat /\ late \in Nat
    BY Constants DEF Typed, BoundsTyped
  <2>3. faults' = faults \/ faults' = faults + 1
    BY DEF Next, SenderStart, SenderReads, SenderTimeout, ReceiverStart, ReceiverReads,
       ReceiverTimeout, ForwardFault, ReverseFault, Fault, ForeignSkip, ForeignAbort, Cut,
       DieBeforeClose, vars, boundVars
  <2>4. late' = late \/ late' = late + 1
    BY DEF Next, SenderStart, SenderReads, SenderTimeout, ReceiverStart, ReceiverReads,
       ReceiverTimeout, ForwardFault, ReverseFault, Fault, ForeignSkip, ForeignAbort, Cut,
       DieBeforeClose, vars, boundVars, TimerFires
  <2>5. rphase = "cut" => rphase' = "cut"
    BY DEF Next, SenderStart, SenderReads, SenderTimeout, ReceiverStart, ReceiverReads,
       ReceiverTimeout, ForwardFault, ReverseFault, ForeignSkip, ForeignAbort, Cut,
       DieBeforeClose, vars, receiverVars, ReceiveHeader, ReceiveFileHeader, ReceiveInfo,
       ReceiveData, ReceiveUnexpected, ReceiveIntoSubpacket, Final
  <2>. QED
    BY <2>1, <2>2, <2>3, <2>4, <2>5 DEF Undisturbed
<1>3. Course
  BY <1>2 DEF CauseInv
<1>4. ~Fault
  BY <1>2 DEF Undisturbed, Fault
<1>5. CASE SenderStart
  BY <1>3, <1>5, CourseSenderStart
<1>6. CASE SenderReads
  BY <1>3, <1>6, CourseSenderReads
<1>7. CASE SenderTimeout \/ ReceiverTimeout
  BY <1>2, <1>3, <1>7, CourseTimeouts
<1>8. CASE ReceiverStart
  BY <1>3, <1>8, CourseReceiverStart
<1>9. CASE ReceiverReads
  BY <1>3, <1>9, CourseReceiverReads
<1>10. CASE ForwardFault \/ ReverseFault \/ ForeignAbort
  BY <1>4, <1>10 DEF ForwardFault, ReverseFault, ForeignAbort
<1>11. CASE ForeignSkip
  BY <1>3, <1>11, CourseSkip
<1>12. CASE Cut
  BY <1>3, <1>12, CourseCut DEF Undisturbed
<1>13. CASE DieBeforeClose
  BY <1>13 DEF DieBeforeClose, Undisturbed
<1>14. CASE UNCHANGED vars
  BY <1>3, <1>14 DEF vars, senderVars, receiverVars, Course, Opening, Offering, Streaming, Stuck,
     Ending, Spare, SpareThen
<1>. QED
  BY <1>5, <1>6, <1>7, <1>8, <1>9, <1>10, <1>11, <1>12, <1>13, <1>14 DEF Next

\* A session in which nothing was lost, damaged or late, and whose receiver did
\* not die, fails only at a file of which nothing is left to send (_send_file
\* writes ZDATA and no subpacket): whatever is on the disk, whatever was refused.
\* With retry_limit = 1 that is not so: the ZRINIT that receive() writes
\* unasked is read where ZRPOS is awaited, and uses up the only attempt.
THEOREM FailuresHaveCause ==
  ASSUME RetryLimit > 1
  PROVE  Spec => []FailsForCause
<1>1. Typed /\ CauseInv => FailsForCause
  <2>. SUFFICES ASSUME Typed, CauseInv, sphase \in Failures \/ rphase \in Failures,
                       faults = 0, late = 0, rphase # "cut"
       PROVE  rfile # 0 /\ base >= Sizes[rfile]
    BY Constants DEF FailsForCause, Typed, BoundsTyped
  <2>1. Course
    BY DEF CauseInv, Undisturbed
  <2>2. Stuck
    BY <2>1 DEF Course, Opening, Offering, Streaming, Ending, Failures
  <2>. QED
    BY <2>2 DEF Stuck
<1>2. Typed /\ CauseInv /\ [Next]_vars => CauseInv'
  BY CauseStep
<1>. QED
  BY <1>1, <1>2, CourseInit, TypedAlways, PTL DEF Spec

=============================================================================
