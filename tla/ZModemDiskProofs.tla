-------------------------- MODULE ZModemDiskProofs --------------------------
(***************************************************************************)
(* That ZModem's receiver keeps on its disk what Downloads promises, for   *)
(* every batch of files of different names, each shorter than what the     *)
(* four bytes of an offset can say.                                        *)
(***************************************************************************)
EXTENDS ZModemProofs

\* Without the first, two files of the batch go into one; without the second,
\* _encode_offset asks for a wrong place.
NamesDiffer == \A f, g \in 1..NFiles : Dest[f] = Dest[g] => f = g
FilesSmall  == \A f \in 1..NFiles : Sizes[f] < OffsetMod

IsData(t) == t.type \in DataTypes

\* The data in q is in one piece;
OnePiece(q) ==
  \A i, j, k \in 1..Len(q) : i < j /\ j < k /\ IsData(q[i]) /\ IsData(q[k]) => IsData(q[j])

\* goes on to the end of file f;
Joined(q, f) ==
  \A i \in 1..Len(q) : IsData(q[i]) =>
    /\ q[i].file = f
    /\ q[i].to <= Sizes[f]
    /\ i < Len(q)
    /\ IsData(q[i + 1]) => q[i + 1].from = q[i].to + 1
    /\ ~IsData(q[i + 1]) => q[i].to = Sizes[f]

\* and begins after byte n.
Begins(q, n) ==
  \A i \in 1..Len(q) :
    IsData(q[i]) /\ (i = 1 \/ ~IsData(q[i - 1])) => q[i].from = n + 1

\* The data in q is all of file f after its first n bytes; what ends a file of
\* which there is no data ends it there.
Continues(q, f, n) ==
  /\ OnePiece(q) /\ Joined(q, f) /\ Begins(q, n)
  /\ Holds(q, {"ZEOF"}) /\ ~Holds(q, DataTypes) => n = Sizes[f]

\* Positions asked for in q.
AsksFor(q, n) == \A i \in 1..Len(q) : q[i].type = "ZRPOS" => q[i].from = n

Had == Len(disk[Dest[rfile]])

\* What is asked for is what is missing, and what is sent is that.
DataInv ==
  /\ rphase = "file" => AsksFor(rev, Had)
  /\ rphase \in {"file", "data"} /\ ~Infos => Continues(fwd, rfile, Had)

\* A file on the disk is the beginning of the file sent.
DiskInv ==
  \A f \in 1..NFiles :
    /\ Len(disk[Dest[f]]) <= Sizes[f]
    /\ disk[Dest[f]] = Bytes(f, 1, Len(disk[Dest[f]]))

-----------------------------------------------------------------------------
(* Bytes *)

\* Bytes n + 1 .. m of a file.
LEMMA BytesFrom ==
  ASSUME NEW f \in 1..NFiles, NEW n \in Nat, NEW m \in Nat, n <= m
  PROVE  /\ Bytes(f, n + 1, m) \in Seq((1..NFiles) \X Nat)
         /\ Len(Bytes(f, n + 1, m)) = m - n
         /\ \A i \in 1..(m - n) : Bytes(f, n + 1, m)[i] = <<f, n + i>>
<1>1. n + 1 \in Nat /\ n + 1 <= m + 1 /\ m + 1 - (n + 1) = m - n
  OBVIOUS
<1>2. /\ Bytes(f, n + 1, m) \in Seq((1..NFiles) \X Nat)
      /\ Len(Bytes(f, n + 1, m)) = m - n
  BY <1>1, BytesAre
<1>3. ASSUME NEW i \in 1..(m - n) PROVE Bytes(f, n + 1, m)[i] = <<f, n + i>>
  <2>1. (n + 1) - 1 + i = n + i /\ i \in 1..(m + 1 - (n + 1))
    BY <1>1
  <2>2. Bytes(f, n + 1, m)[i] = <<f, (n + 1) - 1 + i>>
    BY <1>1, <2>1, BytesAre
  <2>. QED
    BY <2>1, <2>2
<1>. QED
  BY <1>2, <1>3

LEMMA BytesTo ==
  ASSUME NEW f \in 1..NFiles, NEW m \in Nat
  PROVE  /\ Bytes(f, 1, m) \in Seq((1..NFiles) \X Nat)
         /\ Len(Bytes(f, 1, m)) = m
         /\ \A i \in 1..m : Bytes(f, 1, m)[i] = <<f, i>>
<1>1. 0 \in Nat /\ 0 <= m
  OBVIOUS
<1>2. /\ Bytes(f, 0 + 1, m) \in Seq((1..NFiles) \X Nat)
      /\ Len(Bytes(f, 0 + 1, m)) = m - 0
      /\ \A i \in 1..(m - 0) : Bytes(f, 0 + 1, m)[i] = <<f, 0 + i>>
  BY <1>1, BytesFrom, Zenon
<1>3. 0 + 1 = 1 /\ m - 0 = m
  OBVIOUS
<1>4. \A i \in 1..m : 0 + i = i
  OBVIOUS
<1>. QED
  BY <1>2, <1>3, <1>4

\* A beginning of a beginning, and a beginning with what follows it.
LEMMA BytesCut ==
  ASSUME NEW f \in 1..NFiles, NEW m \in Nat, NEW k \in 0..m
  PROVE  SubSeq(Bytes(f, 1, m), 1, k) = Bytes(f, 1, k)
<1>. DEFINE a == Bytes(f, 1, m)
            b == Bytes(f, 1, k)
            S == (1..NFiles) \X Nat
            s == SubSeq(a, 1, k)
<1>1. a \in Seq(S) /\ Len(a) = m /\ \A i \in 1..m : a[i] = <<f, i>>
  BY BytesTo
<1>2. b \in Seq(S) /\ Len(b) = k /\ \A i \in 1..k : b[i] = <<f, i>>
  <2>1. k \in Nat
    OBVIOUS
  <2>. QED
    BY <2>1, BytesTo
<1>. HIDE DEF a, b, S
<1>3. s \in Seq(S) /\ Len(s) = k /\ \A i \in 1..k : s[i] = a[i]
  <2>1. \A i \in 1..k : a[i] \in S
    BY <1>1, ElementOfSeq
  <2>. QED
    BY <1>1, <2>1, SubSeqProperties
<1>. HIDE DEF s
<1>4. ASSUME NEW i \in 1..k PROVE s[i] = b[i]
  <2>1. i \in 1..m
    OBVIOUS
  <2>. QED
    BY <1>1, <1>2, <1>3, <2>1, Zenon
<1>5. s = b
  BY <1>2, <1>3, <1>4, SeqEqual
<1>. QED
  BY <1>5 DEF s, a, b

LEMMA BytesJoin ==
  ASSUME NEW f \in 1..NFiles, NEW n \in Nat, NEW m \in Nat, n < m
  PROVE  Bytes(f, 1, n) \o Bytes(f, n + 1, m) = Bytes(f, 1, m)
<1>. DEFINE a == Bytes(f, 1, n)
            b == Bytes(f, n + 1, m)
            c == Bytes(f, 1, m)
            S == (1..NFiles) \X Nat
<1>1. a \in Seq(S) /\ Len(a) = n /\ \A i \in 1..n : a[i] = <<f, i>>
  BY BytesTo
<1>2. b \in Seq(S) /\ Len(b) = m - n /\ \A i \in 1..(m - n) : b[i] = <<f, n + i>>
  <2>1. n <= m
    OBVIOUS
  <2>. QED
    BY <2>1, BytesFrom
<1>3. c \in Seq(S) /\ Len(c) = m /\ \A i \in 1..m : c[i] = <<f, i>>
  BY BytesTo
<1>. HIDE DEF a, b, c, S
<1>4. /\ a \o b \in Seq(S) /\ Len(a \o b) = m
      /\ \A i \in 1..n : (a \o b)[i] = a[i]
      /\ \A i \in 1..(m - n) : (a \o b)[n + i] = b[i]
  BY <1>1, <1>2, ConcatAt
<1>5. ASSUME NEW i \in 1..m PROVE (a \o b)[i] = c[i]
  <2>1. CASE i \in 1..n
    BY <1>1, <1>3, <1>4, <2>1
  <2>2. CASE i \notin 1..n
    <3>1. i - n \in 1..(m - n) /\ n + (i - n) = i
      BY <2>2
    <3>2. (a \o b)[i] = b[i - n] /\ b[i - n] = <<f, i>>
      BY <1>2, <1>4, <3>1
    <3>. QED
      BY <1>3, <3>2
  <2>. QED
    BY <2>1, <2>2
<1>. QED
  BY <1>3, <1>4, <1>5, SeqEqual DEF a, b, c

-----------------------------------------------------------------------------
(* Data on the line *)

LEMMA DataTail ==
  ASSUME NEW q \in Seq(FwdTokens), q # <<>>, NEW f, NEW n, Continues(q, f, n)
  PROVE  /\ ~IsData(Head(q)) => Continues(Tail(q), f, n)
         /\ IsData(Head(q)) =>
              /\ Head(q).file = f /\ Head(q).from = n + 1 /\ Head(q).to <= Sizes[f]
              /\ Continues(Tail(q), f, Head(q).to)
<1>. DEFINE r == Tail(q)
<1>1. /\ Len(q) \in Nat \ {0} /\ Len(r) = Len(q) - 1 /\ Head(q) = q[1]
      /\ \A i \in 1..Len(r) : r[i] = q[i + 1]
  BY TailAt
<1>2. \A T : Holds(q, T) <=> (Head(q).type \in T \/ Holds(r, T))
  BY HoldsTail
<1>. HIDE DEF r
<1>3. \A i \in 1..Len(r) : i + 1 \in 1..Len(q) /\ r[i] = q[i + 1]
  BY <1>1
<1>4. OnePiece(r)
  <2>1. SUFFICES ASSUME NEW i \in 1..Len(r), NEW j \in 1..Len(r), NEW k \in 1..Len(r),
                        i < j, j < k, IsData(r[i]), IsData(r[k])
        PROVE  IsData(r[j])
    BY DEF OnePiece
  <2>2. i + 1 < j + 1 /\ j + 1 < k + 1
    BY <2>1
  <2>. QED
    BY <1>3, <2>1, <2>2 DEF Continues, OnePiece
<1>5. Joined(r, f)
  <2>1. SUFFICES ASSUME NEW i \in 1..Len(r), IsData(r[i])
        PROVE  /\ r[i].file = f
               /\ r[i].to <= Sizes[f]
               /\ i < Len(r)
               /\ IsData(r[i + 1]) => r[i + 1].from = r[i].to + 1
               /\ ~IsData(r[i + 1]) => r[i].to = Sizes[f]
    BY DEF Joined
  <2>2. i + 1 < Len(q)
    BY <1>3, <2>1 DEF Continues, Joined
  <2>3. i < Len(r) /\ i + 1 \in 1..Len(r)
    BY <1>1, <2>2
  <2>. QED
    BY <1>3, <2>1, <2>3 DEF Continues, Joined
<1>6. 1 \in 1..Len(q)
  BY <1>1
<1>7. ASSUME NEW i \in 1..Len(r), i # 1 PROVE i - 1 \in 1..Len(r) /\ r[i - 1] = q[i]
  <2>1. i - 1 \in 1..Len(r) /\ (i - 1) + 1 = i
    BY <1>1, <1>7
  <2>. QED
    BY <1>3, <2>1
<1>8. ASSUME NEW i \in 1..Len(r), IsData(r[i]), i = 1 \/ ~IsData(r[i - 1]) PROVE IsData(q[i + 1])
                /\ (i # 1 => ~IsData(q[i])) /\ i + 1 # 1 /\ (i + 1) - 1 = i
  BY <1>3, <1>7, <1>8
<1>9. ASSUME ~IsData(Head(q)) PROVE Begins(r, n)
  <2>1. SUFFICES ASSUME NEW i \in 1..Len(r), IsData(r[i]), i = 1 \/ ~IsData(r[i - 1])
        PROVE  r[i].from = n + 1
    BY DEF Begins
  <2>2. ~IsData(q[i])
    BY <1>1, <1>8, <1>9, <2>1
  <2>. QED
    BY <1>3, <1>8, <2>1, <2>2 DEF Continues, Begins
<1>10. ASSUME IsData(Head(q)) PROVE Begins(r, Head(q).to)
  <2>1. SUFFICES ASSUME NEW i \in 1..Len(r), IsData(r[i]), i = 1 \/ ~IsData(r[i - 1])
        PROVE  r[i].from = Head(q).to + 1
    BY DEF Begins
  <2>2. i = 1
    <3>1. SUFFICES ASSUME i # 1 PROVE FALSE
      OBVIOUS
    <3>2. i \in 1..Len(q) /\ i + 1 \in 1..Len(q) /\ 1 < i /\ i < i + 1
      BY <1>1, <3>1
    <3>. QED
      BY <1>1, <1>6, <1>8, <1>10, <2>1, <3>1, <3>2 DEF Continues, OnePiece
  <2>3. r[1] = q[1 + 1]
    BY <1>3, <2>2
  <2>. QED
    BY <1>1, <1>6, <1>10, <2>1, <2>2, <2>3 DEF Continues, Joined
<1>11. ASSUME IsData(Head(q))
       PROVE  /\ Head(q).file = f /\ Head(q).from = n + 1 /\ Head(q).to <= Sizes[f]
              /\ ~IsData(q[1 + 1]) => Head(q).to = Sizes[f]
              /\ 1 < Len(q)
  BY <1>1, <1>6, <1>11 DEF Continues, Joined, Begins
<1>12. ASSUME ~IsData(Head(q)), Holds(r, {"ZEOF"}), ~Holds(r, DataTypes) PROVE n = Sizes[f]
  BY <1>2, <1>12 DEF Continues, IsData
<1>13. ASSUME IsData(Head(q)), ~Holds(r, DataTypes) PROVE Head(q).to = Sizes[f]
  <2>1. 1 \in 1..Len(r) /\ r[1] = q[1 + 1]
    BY <1>1, <1>3, <1>11, <1>13
  <2>. QED
    BY <1>11, <1>13, <2>1 DEF Holds, IsData
<1>. QED
  BY <1>4, <1>5, <1>9, <1>10, <1>11, <1>12, <1>13 DEF Continues, r

LEMMA DataDamaged ==
  ASSUME NEW q, NEW r, SameButOk(q, r), NEW f, NEW n, Len(q) \in Nat, Continues(q, f, n)
  PROVE  Continues(r, f, n)
<1>1. Len(r) = Len(q) /\ \A i \in 1..Len(q) : /\ IsData(r[i]) <=> IsData(q[i])
                                              /\ r[i].file = q[i].file
                                              /\ r[i].from = q[i].from /\ r[i].to = q[i].to
  BY DEF SameButOk, IsData
<1>2. \A T : Holds(r, T) <=> Holds(q, T)
  BY Alike
<1>3. OnePiece(r)
  BY <1>1 DEF Continues, OnePiece
<1>4. Joined(r, f)
  <2>1. SUFFICES ASSUME NEW i \in 1..Len(r), IsData(r[i])
        PROVE  /\ r[i].file = f
               /\ r[i].to <= Sizes[f]
               /\ i < Len(r)
               /\ IsData(r[i + 1]) => r[i + 1].from = r[i].to + 1
               /\ ~IsData(r[i + 1]) => r[i].to = Sizes[f]
    BY DEF Joined
  <2>2. i < Len(q) /\ i + 1 \in 1..Len(q)
    BY <1>1, <2>1 DEF Continues, Joined
  <2>. QED
    BY <1>1, <2>1, <2>2 DEF Continues, Joined
<1>5. Begins(r, n)
  <2>1. \A i \in 1..Len(q) : i # 1 => i - 1 \in 1..Len(q)
    OBVIOUS
  <2>. QED
    BY <1>1, <2>1 DEF Continues, Begins
<1>. QED
  BY <1>2, <1>3, <1>4, <1>5 DEF Continues

\* Something that is not of a file follows.
LEMMA DataHeader ==
  ASSUME NEW q \in Seq(FwdTokens), NEW h \in FwdTokens, ~IsData(h), h.type # "ZEOF",
         NEW f, NEW n, Continues(q, f, n)
  PROVE  Continues(Append(q, h), f, n)
<1>. DEFINE r == Append(q, h)
<1>1. /\ Len(q) \in Nat /\ Len(r) = Len(q) + 1 /\ r[Len(q) + 1] = h
      /\ \A i \in 1..Len(q) : r[i] = q[i]
  BY AppendProperties, LenProperties
<1>2. /\ Holds(r, {"ZEOF"}) <=> Holds(q, {"ZEOF"})
      /\ Holds(r, DataTypes) <=> Holds(q, DataTypes)
  BY HeaderHas DEF IsData
<1>. HIDE DEF r
<1>3. ASSUME NEW i \in 1..Len(r), IsData(r[i]) PROVE i \in 1..Len(q) /\ r[i] = q[i] /\ IsData(q[i])
  BY <1>1, <1>3
<1>4. OnePiece(r)
  <2>1. SUFFICES ASSUME NEW i \in 1..Len(r), NEW j \in 1..Len(r), NEW k \in 1..Len(r),
                        i < j, j < k, IsData(r[i]), IsData(r[k])
        PROVE  IsData(r[j])
    BY DEF OnePiece
  <2>2. i \in 1..Len(q) /\ j \in 1..Len(q) /\ k \in 1..Len(q)
    BY <1>1, <1>3, <2>1
  <2>. QED
    BY <1>1, <2>1, <2>2 DEF Continues, OnePiece
<1>5. Joined(r, f)
  <2>1. SUFFICES ASSUME NEW i \in 1..Len(r), IsData(r[i])
        PROVE  /\ r[i].file = f
               /\ r[i].to <= Sizes[f]
               /\ i < Len(r)
               /\ IsData(r[i + 1]) => r[i + 1].from = r[i].to + 1
               /\ ~IsData(r[i + 1]) => r[i].to = Sizes[f]
    BY DEF Joined
  <2>2. i \in 1..Len(q) /\ i < Len(q) /\ i + 1 \in 1..Len(q) /\ i < Len(r)
    BY <1>1, <1>3, <2>1 DEF Continues, Joined
  <2>. QED
    BY <1>1, <2>1, <2>2 DEF Continues, Joined
<1>6. Begins(r, n)
  <2>1. SUFFICES ASSUME NEW i \in 1..Len(r), IsData(r[i]), i = 1 \/ ~IsData(r[i - 1])
        PROVE  r[i].from = n + 1
    BY DEF Begins
  <2>2. i \in 1..Len(q) /\ r[i] = q[i] /\ IsData(q[i])
    BY <1>3, <2>1
  <2>3. i # 1 => i - 1 \in 1..Len(q)
    BY <2>2
  <2>. QED
    BY <1>1, <2>1, <2>2, <2>3 DEF Continues, Begins
<1>. QED
  BY <1>2, <1>4, <1>5, <1>6 DEF Continues, r

\* No stream, no data.
LEMMA DataNone ==
  ASSUME NEW q, NEW f, NEW n, ~Holds(q, StreamTypes)
  PROVE  Continues(q, f, n)
<1>1. ~Holds(q, {"ZEOF"}) /\ \A i \in 1..Len(q) : ~IsData(q[i])
  BY DEF Holds, StreamTypes, IsData
<1>. QED
  BY <1>1 DEF Continues, OnePiece, Joined, Begins

\* Where the data of a stream is, after what was on the line before.
LEMMA StreamData ==
  ASSUME NEW q \in Seq(FwdTokens), ~Holds(q, StreamTypes), NEW f \in 1..NFiles, NEW n \in Nat
  PROVE  LET r == q \o Stream(f, n)
             c == Count(f, n)
             l == Len(q) + 1
         IN /\ c \in Nat /\ l \in Nat \ {0} /\ Len(r) = l + c + 1
            /\ \A k \in 1..c :
                 /\ IsData(r[l + k]) /\ r[l + k].file = f
                 /\ r[l + k].from = n + (k - 1) * SubSize + 1
                 /\ r[l + k].to = End(f, n, k)
            /\ \A i \in 1..(l + c + 1) : i <= l \/ i > l + c => ~IsData(r[i])
<1>. DEFINE x == Stream(f, n)
            r == q \o x
            c == Count(f, n)
            l == Len(q) + 1
            p == Subpackets(f, n)
<1>1. /\ x \in Seq(FwdTokens) /\ Len(x) = c + 2 /\ c \in Nat
      /\ x[1].type = "ZDATA" /\ x[c + 2].type = "ZEOF"
      /\ \A i \in 1..c : x[i + 1] = p[i] /\ p[i].type \in DataTypes
  BY StreamIs
<1>2. \A k \in 1..c : /\ p[k].file = f /\ p[k].from = n + (k - 1) * SubSize + 1
                      /\ p[k].to = End(f, n, k)
  BY SubpacketFields
<1>. HIDE DEF x, c, p
<1>3. /\ Len(q) \in Nat /\ Len(r) = Len(q) + c + 2
      /\ \A i \in 1..Len(q) : r[i] = q[i]
      /\ \A i \in 1..(c + 2) : r[Len(q) + i] = x[i]
  <2>0. x \in Seq(FwdTokens)
    BY <1>1
  <2>1. /\ Len(q) \in Nat /\ Len(q \o x) = Len(q) + Len(x)
        /\ \A i \in 1..Len(q) : (q \o x)[i] = q[i]
        /\ \A i \in 1..Len(x) : (q \o x)[Len(q) + i] = x[i]
    <3>1. Len(q) \in Nat /\ Len(q \o x) = Len(q) + Len(x)
      BY <2>0, ConcatAt
    <3>2. \A i \in 1..Len(q) : (q \o x)[i] = q[i]
      BY <2>0, ConcatAt
    <3>3. \A i \in 1..Len(x) : (q \o x)[Len(q) + i] = x[i]
      BY <2>0, ConcatAt
    <3>. QED
      BY <3>1, <3>2, <3>3
  <2>2. Len(q) + Len(x) = Len(q) + c + 2
    BY <1>1, <2>1
  <2>. QED
    BY <1>1, <2>1, <2>2
<1>. HIDE DEF r
<1>4. ASSUME NEW k \in 1..c PROVE r[l + k] = p[k]
  <2>1. k + 1 \in 1..(c + 2) /\ Len(q) + (k + 1) = l + k
    BY <1>1, <1>3
  <2>2. r[Len(q) + (k + 1)] = x[k + 1]
    BY <1>3, <2>1
  <2>. QED
    BY <1>1, <2>1, <2>2
<1>5. ASSUME NEW k \in 1..c
      PROVE  /\ IsData(r[l + k]) /\ r[l + k].file = f
             /\ r[l + k].from = n + (k - 1) * SubSize + 1
             /\ r[l + k].to = End(f, n, k)
  <2>1. IsData(p[k])
    BY <1>1 DEF IsData
  <2>. QED
    BY <1>2, <1>4, <2>1
<1>6. ASSUME NEW i \in 1..(l + c + 1), i <= l \/ i > l + c PROVE ~IsData(r[i])
  <2>1. CASE i \in 1..Len(q)
    BY <1>3, <2>1 DEF Holds, StreamTypes, IsData
  <2>2. CASE i = l
    <3>1. 1 \in 1..(c + 2)
      BY <1>1
    <3>2. r[i] = x[1]
      BY <1>3, <2>2, <3>1
    <3>. QED
      BY <1>1, <3>2 DEF IsData, DataTypes
  <2>3. CASE i > l + c
    <3>1. i = Len(q) + (c + 2)
      <4>1. Len(q) \in Nat /\ c \in Nat
        BY <1>1, <1>3
      <4>. QED
        BY <2>3, <4>1
    <3>a. c + 2 \in 1..(c + 2)
      BY <1>1
    <3>2. r[i] = x[c + 2]
      BY <1>3, <3>1, <3>a
    <3>. QED
      BY <1>1, <3>2 DEF IsData, DataTypes
  <2>. QED
    BY <1>3, <1>6, <2>1, <2>2, <2>3
<1>7. c \in Nat /\ l \in Nat \ {0} /\ Len(r) = l + c + 1
  BY <1>1, <1>3
<1>. HIDE DEF l
<1>. QED
  BY <1>5, <1>6, <1>7 DEF r, x, c, l

\* _send_file sends what is missing of a file.
LEMMA DataStream ==
  ASSUME NEW q \in Seq(FwdTokens), ~Holds(q, StreamTypes), NEW f \in 1..NFiles,
         NEW n \in Nat, n <= Sizes[f]
  PROVE  Continues(q \o Stream(f, n), f, n)
<1>. DEFINE r == q \o Stream(f, n)
            c == Count(f, n)
            l == Len(q) + 1
<1>1. /\ c \in Nat /\ l \in Nat \ {0} /\ Len(r) = l + c + 1
      /\ \A k \in 1..c :
           /\ IsData(r[l + k]) /\ r[l + k].file = f
           /\ r[l + k].from = n + (k - 1) * SubSize + 1
           /\ r[l + k].to = End(f, n, k)
      /\ \A i \in 1..(l + c + 1) : i <= l \/ i > l + c => ~IsData(r[i])
  BY StreamData
<1>2. /\ c = 0 <=> Sizes[f] <= n
      /\ \A k \in 1..c : End(f, n, k) <= Sizes[f]
      /\ Sizes[f] \in Nat /\ SubSize \in Nat
  BY PiecesLie, Constants
<1>3. \A k \in 1..c : End(f, n, k) = IF k = c THEN Sizes[f] ELSE n + k * SubSize
  BY DEF End
<1>. HIDE DEF r, c, l
<1>4. ASSUME NEW i \in 1..Len(r)
      PROVE  /\ IsData(r[i]) <=> i - l \in 1..c
             /\ l + (i - l) = i
  <2>1. CASE i - l \in 1..c
    <3>1. l + (i - l) = i
      BY <1>1
    <3>. QED
      BY <1>1, <2>1, <3>1
  <2>2. CASE i - l \notin 1..c
    BY <1>1, <2>2
  <2>. QED
    BY <2>1, <2>2
<1>5. ASSUME NEW i \in 1..Len(r), IsData(r[i])
      PROVE  /\ i - l \in 1..c /\ r[i].file = f
             /\ r[i].from = n + ((i - l) - 1) * SubSize + 1
             /\ r[i].to = End(f, n, i - l)
  <2>1. i - l \in 1..c /\ l + (i - l) = i
    BY <1>4, <1>5
  <2>. QED
    BY <1>1, <2>1
<1>6. OnePiece(r)
  <2>1. SUFFICES ASSUME NEW i \in 1..Len(r), NEW j \in 1..Len(r), NEW k \in 1..Len(r),
                        i < j, j < k, IsData(r[i]), IsData(r[k])
        PROVE  IsData(r[j])
    BY DEF OnePiece
  <2>2. i - l \in 1..c /\ k - l \in 1..c
    BY <1>4, <2>1
  <2>3. j - l \in 1..c
    BY <1>1, <2>1, <2>2
  <2>. QED
    BY <1>4, <2>3
<1>7. Joined(r, f)
  <2>1. SUFFICES ASSUME NEW i \in 1..Len(r), IsData(r[i])
        PROVE  /\ r[i].file = f
               /\ r[i].to <= Sizes[f]
               /\ i < Len(r)
               /\ IsData(r[i + 1]) => r[i + 1].from = r[i].to + 1
               /\ ~IsData(r[i + 1]) => r[i].to = Sizes[f]
    BY DEF Joined
  <2>. DEFINE k == i - l
  <2>2. k \in 1..c /\ r[i].file = f /\ r[i].to = End(f, n, k)
    BY <1>5, <2>1
  <2>3. i < Len(r) /\ i + 1 \in 1..Len(r) /\ (i + 1) - l = k + 1
    BY <1>1, <2>2
  <2>4. ASSUME IsData(r[i + 1]) PROVE r[i + 1].from = r[i].to + 1
    <3>1. k + 1 \in 1..c /\ r[i + 1].from = n + (((i + 1) - l) - 1) * SubSize + 1
      BY <1>5, <2>3, <2>4
    <3>2. k # c /\ r[i].to = n + k * SubSize
      BY <1>1, <1>3, <2>2, <3>1
    <3>3. ((i + 1) - l) - 1 = k
      BY <1>1, <2>3
    <3>. HIDE DEF k
    <3>. QED
      BY <3>1, <3>2, <3>3
  <2>5. ASSUME ~IsData(r[i + 1]) PROVE r[i].to = Sizes[f]
    <3>1. k + 1 \notin 1..c
      BY <1>4, <2>3, <2>5
    <3>2. k = c
      BY <1>1, <2>2, <3>1
    <3>. QED
      BY <1>3, <2>2, <3>2
  <2>6. r[i].to <= Sizes[f]
    BY <1>2, <2>2
  <2>. HIDE DEF k
  <2>. QED
    BY <2>2, <2>3, <2>4, <2>5, <2>6
<1>8. Begins(r, n)
  <2>1. SUFFICES ASSUME NEW i \in 1..Len(r), IsData(r[i]), i = 1 \/ ~IsData(r[i - 1])
        PROVE  r[i].from = n + 1
    BY DEF Begins
  <2>2. i - l \in 1..c /\ r[i].from = n + ((i - l) - 1) * SubSize + 1
    BY <1>5, <2>1
  <2>3. i - 1 \in 1..Len(r) /\ (i - 1) - l = (i - l) - 1
    BY <1>1, <2>2
  <2>4. (i - l) - 1 \notin 1..c
    BY <1>4, <2>1, <2>3
  <2>5. (i - l) - 1 = 0
    BY <1>1, <2>2, <2>4
  <2>6. n + 0 * SubSize + 1 = n + 1
    BY <1>2
  <2>. QED
    BY <2>2, <2>5, <2>6
<1>9. ASSUME ~Holds(r, DataTypes) PROVE n = Sizes[f]
  <2>1. c = 0
    <3>1. SUFFICES ASSUME c # 0 PROVE FALSE
      OBVIOUS
    <3>2. 1 \in 1..c /\ l + 1 \in 1..Len(r)
      BY <1>1, <3>1
    <3>. QED
      BY <1>1, <1>9, <3>2 DEF Holds, IsData
  <2>. QED
    BY <1>2, <2>1
<1>. QED
  BY <1>6, <1>7, <1>8, <1>9 DEF Continues, r

-----------------------------------------------------------------------------
(* What is asked for and what is sent *)

LEMMA AsksLess ==
  /\ \A n : \A q \in Seq(RevTokens) : q # <<>> /\ AsksFor(q, n) =>
       AsksFor(Tail(q), n) /\ (Head(q).type = "ZRPOS" => Head(q).from = n)
  /\ \A q, r, n : SameButOk(q, r) /\ AsksFor(q, n) => AsksFor(r, n)
  /\ \A q, n : ~Holds(q, {"ZRPOS"}) => AsksFor(q, n)
  /\ \A n : \A q \in Seq(RevTokens), h \in RevTokens :
       AsksFor(q, n) /\ (h.type = "ZRPOS" => h.from = n) => AsksFor(Append(q, h), n)
<1>1. ASSUME NEW q \in Seq(RevTokens), NEW n, q # <<>>, AsksFor(q, n)
      PROVE  AsksFor(Tail(q), n) /\ (Head(q).type = "ZRPOS" => Head(q).from = n)
  <2>1. /\ \A i \in 1..Len(Tail(q)) : i + 1 \in 1..Len(q) /\ Tail(q)[i] = q[i + 1]
        /\ 1 \in 1..Len(q) /\ Head(q) = q[1]
    BY <1>1, TailAt
  <2>. QED
    BY <1>1, <2>1 DEF AsksFor
<1>2. \A q, r, n : SameButOk(q, r) /\ AsksFor(q, n) => AsksFor(r, n)
  BY DEF SameButOk, AsksFor
<1>3. \A q, n : ~Holds(q, {"ZRPOS"}) => AsksFor(q, n)
  BY DEF Holds, AsksFor
<1>4. ASSUME NEW q \in Seq(RevTokens), NEW h \in RevTokens, NEW n, AsksFor(q, n),
             h.type = "ZRPOS" => h.from = n
      PROVE  AsksFor(Append(q, h), n)
  <2>1. /\ Len(q) \in Nat /\ Len(Append(q, h)) = Len(q) + 1
        /\ Append(q, h)[Len(q) + 1] = h
        /\ \A i \in 1..Len(q) : Append(q, h)[i] = q[i]
    BY AppendProperties, LenProperties
  <2>. QED
    BY <1>4, <2>1 DEF AsksFor
<1>. QED
  BY <1>1, <1>2, <1>3, <1>4

\* The file stays open, or none is.
LEMMA DataKept ==
  ASSUME DataInv,
         rphase' \in {"file", "data"} =>
           /\ rphase \in {"file", "data"} /\ rfile' = rfile /\ disk' = disk
           /\ rphase' = "file" => AsksFor(rev', Had)
           /\ ~Infos' => ~Infos /\ (Continues(fwd, rfile, Had) => Continues(fwd', rfile, Had))
  PROVE  DataInv'
<1>1. rfile' = rfile /\ disk' = disk => Had' = Had
  BY DEF Had
<1>. QED
  BY <1>1 DEF DataInv

\* The sender writes something other than a stream.
LEMMA DataSender ==
  ASSUME Typed, DataInv, UNCHANGED receiverVars, AsksFor(rev, Had) => AsksFor(rev', Had),
         \/ fwd' = fwd
         \/ Infos'
         \/ \E t \in HeaderTypes \ {"ZEOF"} : fwd' = Append(fwd, Header(t))
  PROVE  DataInv'
<1>1. rphase' = rphase /\ rfile' = rfile /\ disk' = disk /\ fwd \in Seq(FwdTokens)
  BY DEF receiverVars, Typed
<1>2. CASE fwd' = fwd
  BY <1>1, <1>2, DataKept DEF DataInv, Infos
<1>3. CASE Infos'
  BY <1>1, <1>3, DataKept DEF DataInv
<1>4. CASE \E t \in HeaderTypes \ {"ZEOF"} : fwd' = Append(fwd, Header(t))
  <2>1. PICK t \in HeaderTypes \ {"ZEOF"} : fwd' = Append(fwd, Header(t))
    BY <1>4
  <2>2. Header(t) \in FwdTokens /\ Header(t).type = t /\ ~IsData(Header(t)) /\ t # "INFO"
    BY HeaderToken DEF IsData, HeaderTypes, DataTypes
  <2>3. Infos' <=> Infos
    BY <1>1, <2>1, <2>2, HeaderHas DEF Infos
  <2>4. Continues(fwd, rfile, Had) => Continues(fwd', rfile, Had)
    BY <1>1, <2>1, <2>2, DataHeader
  <2>. QED
    BY <1>1, <2>3, <2>4, DataKept DEF DataInv
<1>. QED
  BY <1>2, <1>3, <1>4

\* The sender sends the stream that was asked for.
LEMMA DataSent ==
  ASSUME Typed, LineInv, DataInv, DiskInv, UNCHANGED receiverVars, sphase = "zrpos",
         rev # <<>>, rev' = Tail(rev), Head(rev).type = "ZRPOS",
         fwd' = fwd \o Stream(sfile, Head(rev).from)
  PROVE  DataInv'
<1>1. /\ rphase' = rphase /\ rfile' = rfile /\ disk' = disk /\ fwd \in Seq(FwdTokens)
      /\ rev \in Seq(RevTokens) /\ sfile \in 1..NFiles
  BY DEF receiverVars, Typed, SenderTyped
<1>2. Head(rev) \in RevTokens /\ Asked
  BY <1>1, TailAt, HoldsTail DEF Asked
<1>3. ~Streams /\ rphase \in {"file"} \cup Final
  BY <1>2 DEF LineInv, RevInv, Sending
<1>4. Head(rev).from \in Nat
  BY <1>2 DEF RevTokens, Token
<1>5. Infos' <=> Infos
  BY <1>1, <1>4, StreamSent DEF Infos
<1>6. SUFFICES ASSUME rphase = "file"
      PROVE  DataInv'
  BY <1>1, <1>3 DEF DataInv, Final, Failures
<1>7. AsksFor(rev', Had) /\ Head(rev).from = Had
  BY <1>1, <1>6, AsksLess DEF DataInv
<1>8. ASSUME ~Infos PROVE Continues(fwd', rfile, Had)
  <2>1. rfile = sfile
    BY <1>6, <1>8 DEF LineInv, FileInv
  <2>2. Had <= Sizes[rfile] /\ Had \in Nat
    BY <1>1, <1>4, <1>7, <2>1 DEF DiskInv, Had
  <2>. QED
    BY <1>1, <1>3, <1>7, <2>1, <2>2, DataStream DEF Streams
<1>. QED
  BY <1>1, <1>5, <1>6, <1>7, <1>8, DataKept

LEMMA DataSenderReads ==
  ASSUME Typed, LineInv, DataInv, DiskInv, SenderReads
  PROVE  DataInv'
<1>1. /\ rev # <<>> /\ rev' = Tail(rev) /\ UNCHANGED receiverVars
      /\ fwd \in Seq(FwdTokens) /\ rev \in Seq(RevTokens) /\ NFiles \in Nat
  BY Constants DEF SenderReads, Typed
<1>2. AsksFor(rev, Had) => AsksFor(rev', Had)
  BY <1>1, AsksLess
<1>3. ASSUME NEW f \in 1..(NFiles + 1), GoTo(f) PROVE DataInv'
  <2>1. CASE f \in 1..NFiles /\ fwd' = fwd \o <<Header("ZFILE"), Info(f)>>
    <3>1. Infos'
      BY <1>1, <2>1, FileSent DEF Infos
    <3>. QED
      BY <1>1, <1>2, <3>1, DataSender
  <2>2. CASE fwd' = Append(fwd, Header("ZFIN"))
    <3>1. "ZFIN" \in HeaderTypes \ {"ZEOF"}
      BY DEF HeaderTypes
    <3>. QED
      BY <1>1, <1>2, <2>2, <3>1, DataSender
  <2>. QED
    BY <1>1, <1>3, <2>1, <2>2, GoToTyped
<1>4. 1 \in 1..(NFiles + 1) /\ (sphase \in {"zrpos", "eof"} => sfile + 1 \in 1..(NFiles + 1))
  BY <1>1 DEF Typed, SenderTyped
<1>5. ASSUME fwd' = fwd PROVE DataInv'
  BY <1>1, <1>2, <1>5, DataSender
<1>6. \/ sphase = "init" /\ GoTo(1)
      \/ sphase \in {"zrpos", "eof"} /\ GoTo(sfile + 1)
      \/ fwd' = fwd
      \/ /\ sphase = "zrpos" /\ Head(rev).type = "ZRPOS"
         /\ fwd' = fwd \o Stream(sfile, Head(rev).from)
  BY SenderReadsOne DEF SenderAnswers, SenderEnds
<1>. QED
  BY <1>1, <1>3, <1>4, <1>5, <1>6, DataSent

LEMMA OffsetSmall == \A n \in Nat : n < OffsetMod => Offset(n) = n
<1>1. OffsetMod \in Nat \ {0}
  BY Constants
<1>2. \A m \in Nat \ {0}, n \in Nat : n < m => n % m = n
  OBVIOUS
<1>. QED
  BY <1>1, <1>2 DEF Offset

\* The receiver asks for a file.
LEMMA DataInfo ==
  ASSUME Typed, LineInv, DiskInv, FilesSmall, NamesDiffer, fwd # <<>>, fwd' = Tail(fwd),
         ReceiveInfo(Head(fwd))
  PROVE  DataInv' /\ disk' = disk
<1>. DEFINE f == Head(fwd).file
<1>1. /\ rphase = "info" /\ Head(fwd).type = "INFO" /\ rphase' = "file" /\ rfile' = f
      /\ base' = Len(disk[Dest[f]]) /\ disk' = Opened(disk, Dest[f])
      /\ rev' = Append(rev, Positioned("ZRPOS", base'))
      /\ fwd \in Seq(FwdTokens) /\ rev \in Seq(RevTokens)
  BY DEF ReceiveInfo, Reply, Typed
<1>2. f \in 1..NFiles /\ Dest[f] \in Names
  <2>1. Head(fwd) \in FwdTokens
    BY <1>1, TailAt
  <2>. QED
    BY <1>1, <2>1, Constants DEF FwdTokens
<1>. HIDE DEF f
<1>3. disk \in [Names -> Seq((1..NFiles) \X Nat)] /\ disk[Dest[f]] \in Seq((1..NFiles) \X Nat)
  BY <1>2 DEF Typed, DiskTyped
<1>4. disk' = disk
  <2>1. CASE Len(disk[Dest[f]]) > 0
    BY <1>1, <2>1 DEF Opened
  <2>2. CASE ~(Len(disk[Dest[f]]) > 0)
    <3>1. disk[Dest[f]] = <<>>
      BY <1>3, <2>2, LenProperties, EmptySeq
    <3>. QED
      BY <1>1, <1>2, <1>3, <2>2, <3>1 DEF Opened
  <2>. QED
    BY <2>1, <2>2
<1>5. Had' = base' /\ base' \in Nat
  BY <1>1, <1>3, <1>4, LenProperties DEF Had
<1>6. base' < OffsetMod
  <2>1. base' <= Sizes[f] /\ Sizes[f] < OffsetMod /\ Sizes[f] \in Nat /\ OffsetMod \in Nat
    BY <1>1, <1>2, Constants DEF DiskInv, FilesSmall
  <2>. QED
    BY <1>5, <2>1
<1>7. Offset(base') = base'
  BY <1>5, <1>6, OffsetSmall
<1>8. /\ Positioned("ZRPOS", base') \in RevTokens
      /\ Positioned("ZRPOS", base').from = base'
  BY <1>5, <1>7, HeaderToken DEF HeaderTypes
<1>9. ~Asked
  BY <1>1 DEF LineInv, RevInv, Final, Failures
<1>10. AsksFor(rev', base')
  BY <1>1, <1>8, <1>9, AsksLess DEF Asked
<1>11. Infos
  BY <1>1, HoldsTail DEF Infos
<1>12. ~Streams
  BY <1>1, <1>11 DEF LineInv, PhaseInv, Sending
<1>13. ~Holds(fwd', StreamTypes)
  BY <1>1, <1>12, HoldsTail DEF Streams
<1>14. Continues(fwd', rfile', Had')
  BY <1>13, DataNone
<1>. QED
  BY <1>1, <1>4, <1>5, <1>10, <1>14 DEF DataInv

\* A subpacket that is read is the next of the open file.
LEMMA AtData ==
  ASSUME Typed, LineInv, DataInv, fwd # <<>>, ReceiveData(Head(fwd))
  PROVE  /\ ~Infos /\ ~Asked /\ rfile \in 1..NFiles /\ Had \in Nat
         /\ Head(fwd).file = rfile /\ Head(fwd).from = Had + 1
         /\ Head(fwd).to \in Nat /\ Had < Head(fwd).to /\ Head(fwd).to <= Sizes[rfile]
         /\ Continues(Tail(fwd), rfile, Head(fwd).to)
<1>1. /\ rphase = "data" /\ IsData(Head(fwd)) /\ fwd \in Seq(FwdTokens)
      /\ rfile \in 1..NFiles /\ Alive
  BY DEF ReceiveData, IsData, Typed, ReceiverTyped, Alive, Final, Failures
<1>2. Head(fwd) \in FwdTokens
  BY <1>1, TailAt
<1>3. Head(fwd).from \in Nat /\ Head(fwd).to \in Nat /\ Head(fwd).from <= Head(fwd).to
  BY <1>1, <1>2 DEF IsData, FwdTokens, Token
<1>4. Head(fwd).type \in StreamTypes /\ Head(fwd).type # "INFO"
  BY <1>1 DEF IsData, StreamTypes, DataTypes
<1>5. ~Asked
  BY <1>1, <1>4, HoldsTail DEF LineInv, RevInv, Sending, Streams
<1>6. ~Infos
  <2>1. ~Holds(Tail(fwd), {"INFO"})
    BY <1>1, <1>4, AfterTail DEF LineInv, FwdInv
  <2>. QED
    BY <1>1, <1>4, <2>1, HoldsTail DEF Infos
<1>7. Continues(fwd, rfile, Had)
  BY <1>1, <1>6 DEF DataInv
<1>8. Had \in Nat
  <2>1. disk[Dest[rfile]] \in Seq((1..NFiles) \X Nat)
    BY <1>1, Constants DEF Typed, DiskTyped
  <2>. QED
    BY <2>1, LenProperties DEF Had
<1>9. /\ Head(fwd).file = rfile /\ Head(fwd).from = Had + 1 /\ Head(fwd).to <= Sizes[rfile]
      /\ Continues(Tail(fwd), rfile, Head(fwd).to)
  BY <1>1, <1>7, DataTail
<1>10. Had < Head(fwd).to
  BY <1>3, <1>8, <1>9
<1>. QED
  BY <1>1, <1>3, <1>5, <1>6, <1>8, <1>9, <1>10

\* Where the other files are.
LEMMA OneFileChanged ==
  ASSUME Typed, NamesDiffer, NEW f \in 1..NFiles, NEW v, disk' = [disk EXCEPT ![Dest[f]] = v]
  PROVE  \A g \in 1..NFiles : disk'[Dest[g]] = IF g = f THEN v ELSE disk[Dest[g]]
<1>1. disk \in [Names -> Seq((1..NFiles) \X Nat)] /\ Dest[f] \in Names
  BY Constants DEF Typed, DiskTyped
<1>2. ASSUME NEW g \in 1..NFiles PROVE disk'[Dest[g]] = IF g = f THEN v ELSE disk[Dest[g]]
  <2>1. Dest[g] \in Names /\ (Dest[g] = Dest[f] => g = f)
    BY Constants DEF NamesDiffer
  <2>2. CASE g = f
    BY <1>1, <2>2
  <2>3. CASE g # f
    BY <1>1, <2>1, <2>3
  <2>. QED
    BY <2>2, <2>3
<1>. QED
  BY <1>2

\* What the disk holds after a subpacket.
LEMMA DataWritten ==
  ASSUME Typed, LineInv, DataInv, DiskInv, NamesDiffer, fwd # <<>>, ReceiveData(Head(fwd))
  PROVE  LET m == Head(fwd).to
         IN /\ \A g \in 1..NFiles :
                 disk'[Dest[g]] = IF g = rfile THEN Bytes(g, 1, m) ELSE disk[Dest[g]]
            /\ Len(disk'[Dest[rfile]]) = m
<1>. DEFINE m == Head(fwd).to
<1>1. /\ rfile \in 1..NFiles /\ Had \in Nat /\ m \in Nat /\ Had < m
      /\ Head(fwd).file = rfile /\ Head(fwd).from = Had + 1
  BY AtData
<1>. HIDE DEF m
<1>2. disk' = [disk EXCEPT ![Dest[rfile]] = disk[Dest[rfile]] \o Bytes(rfile, Had + 1, m)]
  BY <1>1 DEF ReceiveData, m
<1>3. disk[Dest[rfile]] \o Bytes(rfile, Had + 1, m) = Bytes(rfile, 1, m)
  <2>1. disk[Dest[rfile]] = Bytes(rfile, 1, Had)
    BY <1>1 DEF DiskInv, Had
  <2>2. Bytes(rfile, 1, Had) \o Bytes(rfile, Had + 1, m) = Bytes(rfile, 1, m)
    BY <1>1, BytesJoin
  <2>. QED
    BY <2>1, <2>2
<1>4. \A g \in 1..NFiles :
        disk'[Dest[g]] = IF g = rfile THEN Bytes(rfile, 1, m) ELSE disk[Dest[g]]
  <2>. DEFINE v == Bytes(rfile, 1, m)
  <2>1. disk' = [disk EXCEPT ![Dest[rfile]] = v]
    BY <1>2, <1>3
  <2>2. rfile \in 1..NFiles
    BY <1>1
  <2>. HIDE DEF v
  <2>3. ASSUME NEW g \in 1..NFiles
        PROVE  disk'[Dest[g]] = IF g = rfile THEN v ELSE disk[Dest[g]]
    <3>1. disk \in [Names -> Seq((1..NFiles) \X Nat)] /\ Dest[rfile] \in Names
      BY <2>2, Constants DEF Typed, DiskTyped
    <3>2. Dest[g] \in Names /\ (Dest[g] = Dest[rfile] => g = rfile)
      BY <2>2, Constants DEF NamesDiffer
    <3>3. CASE g = rfile
      BY <2>1, <3>1, <3>3
    <3>4. CASE g # rfile
      BY <2>1, <3>1, <3>2, <3>4
    <3>. QED
      BY <3>3, <3>4
  <2>. QED
    BY <2>3 DEF v
<1>5. Len(Bytes(rfile, 1, m)) = m
  BY <1>1, BytesTo
<1>. QED
  BY <1>1, <1>4, <1>5 DEF m

LEMMA DataReceived ==
  ASSUME Typed, LineInv, DataInv, DiskInv, NamesDiffer, fwd # <<>>, fwd' = Tail(fwd),
         ReceiveData(Head(fwd))
  PROVE  DataInv' /\ DiskInv'
<1>1. rfile' = rfile /\ rev' = rev
  BY DEF ReceiveData
<1>2. Had' = Head(fwd).to
  BY <1>1, DataWritten DEF Had
<1>3. Continues(fwd', rfile', Had')
  BY <1>1, <1>2, AtData
<1>4. AsksFor(rev', Had')
  BY <1>1, AtData, AsksLess DEF Asked
<1>5. DataInv'
  BY <1>3, <1>4 DEF DataInv
<1>6. ASSUME NEW g \in 1..NFiles
      PROVE  /\ Len(disk'[Dest[g]]) <= Sizes[g]
             /\ disk'[Dest[g]] = Bytes(g, 1, Len(disk'[Dest[g]]))
  <2>1. CASE g = rfile
    <3>1. disk'[Dest[g]] = Bytes(g, 1, Head(fwd).to) /\ Len(disk'[Dest[g]]) = Head(fwd).to
      BY <2>1, DataWritten
    <3>. QED
      BY <2>1, <3>1, AtData
  <2>2. CASE g # rfile
    <3>1. disk'[Dest[g]] = disk[Dest[g]]
      BY <2>2, DataWritten
    <3>. QED
      BY <3>1 DEF DiskInv
  <2>. QED
    BY <2>1, <2>2
<1>7. DiskInv'
  BY <1>6 DEF DiskInv
<1>. QED
  BY <1>5, <1>7

LEMMA DataReceiverReads ==
  ASSUME Typed, LineInv, DataInv, DiskInv, NamesDiffer, FilesSmall, ReceiverReads
  PROVE  DataInv' /\ DiskInv'
<1>. DEFINE t == Head(fwd)
<1>1. fwd # <<>> /\ fwd' = Tail(fwd) /\ fwd \in Seq(FwdTokens)
  BY DEF ReceiverReads, Typed
<1>2. disk' = disk => DiskInv'
  BY DEF DiskInv
<1>3. rphase' \notin {"file", "data"} => DataInv'
  BY DEF DataInv
<1>4. CASE t.type \in HeaderTypes /\ ReceiveHeader(t)
  BY <1>2, <1>3, <1>4 DEF ReceiveHeader, ReceiverEnds, Ignore
<1>5. CASE t.type \in HeaderTypes /\ ReceiveFileHeader(t)
  <2>1. CASE rphase' \notin {"file", "data"} /\ disk' = disk
    BY <1>2, <1>3, <2>1
  <2>2. CASE /\ rphase' \in {"file", "data"} /\ rphase = "file"
             /\ rphase' = "file" => rphase = "file"
             /\ UNCHANGED <<rfile, disk, rev>>
    <3>1. t.type # "INFO" /\ ~IsData(t)
      BY <1>5 DEF HeaderTypes, DataTypes, IsData
    <3>2. Infos' <=> Infos
      BY <1>1, <3>1, HoldsTail DEF Infos
    <3>3. Continues(fwd, rfile, Had) => Continues(fwd', rfile, Had)
      BY <1>1, <3>1, DataTail
    <3>. QED
      BY <1>2, <2>2, <3>2, <3>3, DataKept DEF DataInv
  <2>. QED
    BY <1>5, <2>1, <2>2 DEF ReceiveFileHeader, ReceiverEnds, Ignore
<1>6. CASE ReceiveInfo(t)
  BY <1>1, <1>2, <1>6, DataInfo
<1>7. CASE ReceiveData(t)
  BY <1>1, <1>7, DataReceived
<1>8. CASE ReceiveUnexpected(t) \/ ReceiveIntoSubpacket(t)
  BY <1>2, <1>3, <1>8 DEF ReceiveUnexpected, ReceiveIntoSubpacket, ReceiverEnds
<1>. QED
  BY <1>4, <1>5, <1>6, <1>7, <1>8 DEF ReceiverReads

\* What the disk holds after a crash.
LEMMA DiskCrash ==
  ASSUME Typed, DiskInv, NamesDiffer, rfile \in 1..NFiles, NEW k \in base..Had,
         disk' = [disk EXCEPT ![Dest[rfile]] = SubSeq(@, 1, k)]
  PROVE  /\ k \in Nat /\ Had \in Nat /\ DiskInv'
         /\ \A g \in 1..NFiles :
              disk'[Dest[g]] = IF g = rfile THEN Bytes(g, 1, k) ELSE disk[Dest[g]]
<1>1. disk[Dest[rfile]] \in Seq((1..NFiles) \X Nat) /\ base \in Nat
  BY Constants DEF Typed, DiskTyped, ReceiverTyped
<1>2. Had \in Nat /\ k \in 0..Had /\ k \in Nat
  BY <1>1, LenProperties DEF Had
<1>3. disk[Dest[rfile]] = Bytes(rfile, 1, Had) /\ Had <= Sizes[rfile] /\ Sizes[rfile] \in Nat
  BY Constants DEF DiskInv, Had
<1>4. SubSeq(disk[Dest[rfile]], 1, k) = Bytes(rfile, 1, k)
  BY <1>2, <1>3, BytesCut
<1>5. disk' = [disk EXCEPT ![Dest[rfile]] = Bytes(rfile, 1, k)]
  BY <1>4
<1>6. \A g \in 1..NFiles :
        disk'[Dest[g]] = IF g = rfile THEN Bytes(rfile, 1, k) ELSE disk[Dest[g]]
  BY <1>5, OneFileChanged
<1>7. Len(Bytes(rfile, 1, k)) = k /\ k <= Sizes[rfile]
  <2>1. Len(Bytes(rfile, 1, k)) = k
    BY <1>2, BytesTo
  <2>2. k <= Sizes[rfile]
    BY <1>2, <1>3
  <2>. QED
    BY <2>1, <2>2
<1>8. DiskInv'
  BY <1>6, <1>7 DEF DiskInv
<1>. QED
  BY <1>2, <1>6, <1>8

LEMMA DataFaults ==
  ASSUME Typed, DataInv, ForwardFault \/ ReverseFault
  PROVE  DataInv'
<1>0. fwd \in Seq(FwdTokens) /\ rev \in Seq(RevTokens)
  BY DEF Typed
<1>1. CASE ForwardFault
  <2>1. fwd # <<>> /\ UNCHANGED <<receiverVars, rev>>
    BY <1>1 DEF ForwardFault
  <2>2. CASE Losable(Head(fwd)) /\ fwd' = Tail(fwd)
    <3>1. Head(fwd).type # "INFO" /\ ~IsData(Head(fwd))
      BY <2>2 DEF Losable, HeaderTypes, DataTypes, IsData
    <3>2. Infos' <=> Infos
      BY <1>0, <2>1, <2>2, <3>1, HoldsTail DEF Infos
    <3>3. Continues(fwd, rfile, Had) => Continues(fwd', rfile, Had)
      BY <1>0, <2>1, <2>2, <3>1, DataTail
    <3>. QED
      BY <2>1, <3>2, <3>3, DataKept DEF DataInv, receiverVars
  <2>3. CASE fwd' = << [Head(fwd) EXCEPT !.ok = FALSE] >> \o Tail(fwd)
    <3>1. SameButOk(fwd, fwd') /\ Len(fwd) \in Nat
      BY <1>0, <2>1, <2>3, Damaged, LenProperties
    <3>2. Infos' <=> Infos
      BY <3>1, Alike DEF Infos
    <3>3. Continues(fwd, rfile, Had) => Continues(fwd', rfile, Had)
      BY <3>1, DataDamaged
    <3>. QED
      BY <2>1, <3>2, <3>3, DataKept DEF DataInv, receiverVars
  <2>. QED
    BY <1>1, <2>2, <2>3 DEF ForwardFault
<1>2. CASE ReverseFault
  <2>1. rev # <<>> /\ UNCHANGED <<receiverVars, fwd>>
    BY <1>2 DEF ReverseFault
  <2>2. AsksFor(rev, Had) => AsksFor(rev', Had)
    <3>1. CASE rev' = Tail(rev)
      BY <1>0, <2>1, <3>1, AsksLess
    <3>2. CASE rev' = << [Head(rev) EXCEPT !.ok = FALSE] >> \o Tail(rev)
      <4>1. SameButOk(rev, rev')
        BY <1>0, <2>1, <3>2, Damaged
      <4>. QED
        BY <4>1, AsksLess
    <3>. QED
      BY <1>2, <3>1, <3>2 DEF ReverseFault
  <2>. QED
    BY <2>1, <2>2, DataSender
<1>. QED
  BY <1>1, <1>2

LEMMA DataStep ==
  ASSUME Typed, LineInv, DataInv, DiskInv, NamesDiffer, FilesSmall, [Next]_vars
  PROVE  DataInv' /\ DiskInv'
<1>1. disk' = disk => DiskInv'
  BY DEF DiskInv
<1>2. rphase' \notin {"file", "data"} => DataInv'
  BY DEF DataInv
<1>3. CASE SenderStart
  <2>1. "ZRQINIT" \in HeaderTypes \ {"ZEOF"}
    BY DEF HeaderTypes
  <2>. QED
    BY <1>1, <1>3, <2>1, DataSender DEF SenderStart, receiverVars
<1>4. CASE SenderReads
  BY <1>1, <1>4, DataSenderReads DEF SenderReads, receiverVars
<1>5. CASE SenderTimeout
  <2>1. UNCHANGED <<receiverVars, rev>>
    BY <1>5 DEF SenderTimeout
  <2>2. CASE sphase = "zrpos" /\ fwd' = fwd \o <<Header("ZFILE"), Info(sfile)>>
    <3>1. fwd \in Seq(FwdTokens) /\ sfile \in 1..NFiles
      BY <2>2 DEF Typed, SenderTyped
    <3>2. Infos'
      BY <2>2, <3>1, FileSent DEF Infos
    <3>. QED
      BY <1>1, <2>1, <3>2, DataSender DEF receiverVars
  <2>3. CASE fwd' = fwd
    BY <1>1, <2>1, <2>3, DataSender DEF receiverVars
  <2>. QED
    BY <1>5, <2>2, <2>3 DEF SenderTimeout, SenderEnds
<1>6. CASE ReceiverStart
  BY <1>1, <1>2, <1>6 DEF ReceiverStart
<1>7. CASE ReceiverReads
  BY <1>7, DataReceiverReads
<1>8. CASE ReceiverTimeout
  BY <1>1, <1>2, <1>8 DEF ReceiverTimeout, ReceiverEnds
<1>9. CASE ForwardFault \/ ReverseFault
  BY <1>1, <1>9, DataFaults DEF ForwardFault, ReverseFault, receiverVars
<1>10. CASE ForeignSkip
  BY <1>1, <1>2, <1>10 DEF ForeignSkip
<1>11. CASE ForeignAbort
  <2>1. UNCHANGED <<rfile, base, disk, received>>
    BY <1>11 DEF ForeignAbort
  <2>2. CASE rphase' = "cancelled"
    BY <1>1, <1>2, <2>1, <2>2
  <2>3. CASE /\ UNCHANGED <<rphase, rev>>
             /\ \E t \in {"ZABORT", "ZCAN"} : fwd' = Append(fwd, Header(t))
    <3>1. {"ZABORT", "ZCAN"} \subseteq HeaderTypes \ {"ZEOF"}
      BY DEF HeaderTypes
    <3>. QED
      BY <1>1, <2>1, <2>3, <3>1, DataSender DEF receiverVars
  <2>. QED
    BY <1>11, <2>2, <2>3 DEF ForeignAbort
<1>12. CASE Cut
  <2>1. rphase' \notin {"file", "data"}
    BY <1>12 DEF Cut, Final, Failures
  <2>2. CASE disk' = disk
    BY <1>1, <1>2, <2>1, <2>2
  <2>3. CASE Open /\ \E k \in base..Had : disk' = [disk EXCEPT ![Dest[rfile]] = SubSeq(@, 1, k)]
    <3>1. rfile \in 1..NFiles
      BY <2>3, Constants DEF Open, Typed, ReceiverTyped
    <3>. QED
      BY <1>2, <2>1, <2>3, <3>1, DiskCrash
  <2>. QED
    BY <1>12, <2>2, <2>3 DEF Cut, Had
<1>13. CASE DieBeforeClose
  <2>1. rphase' \notin {"file", "data"} /\ rfile \in 1..NFiles
    BY <1>13 DEF DieBeforeClose, Typed, ReceiverTyped
  <2>2. \E k \in base..Had : disk' = [disk EXCEPT ![Dest[rfile]] = SubSeq(@, 1, k)]
    BY <1>13 DEF DieBeforeClose, Had
  <2>. QED
    BY <1>2, <2>1, <2>2, DiskCrash
<1>14. CASE Restart
  BY <1>1, <1>2, <1>14 DEF Restart
<1>15. CASE UNCHANGED vars
  BY <1>1, <1>15, DataSender DEF vars, receiverVars
<1>. QED
  BY <1>3, <1>4, <1>5, <1>6, <1>7, <1>8, <1>9, <1>10, <1>11, <1>12, <1>13, <1>14, <1>15
     DEF Next

LEMMA DataInit == Init => DataInv /\ DiskInv
<1>. SUFFICES ASSUME Init PROVE DataInv /\ DiskInv
  OBVIOUS
<1>1. DataInv
  BY DEF Init, DataInv
<1>2. ASSUME NEW f \in 1..NFiles
      PROVE  /\ Len(disk[Dest[f]]) <= Sizes[f]
             /\ disk[Dest[f]] = Bytes(f, 1, Len(disk[Dest[f]]))
  <2>1. disk[Dest[f]] = <<>> /\ Sizes[f] \in Nat
    BY Constants DEF Init
  <2>2. Bytes(f, 1, 0) = <<>>
    <3>1. Bytes(f, 1, 0) \in Seq((1..NFiles) \X Nat) /\ Len(Bytes(f, 1, 0)) = 0
      BY BytesTo
    <3>. QED
      BY <3>1, EmptySeq
  <2>. QED
    BY <2>1, <2>2
<1>. QED
  BY <1>1, <1>2 DEF DiskInv

-----------------------------------------------------------------------------
(* The promise *)

\* The disk and what of it is safe, as Promise names them.
OnDisk == [f \in 1..NFiles |-> disk[Dest[f]]]
Safe   == [f \in 1..NFiles |->
             IF Open /\ f = rfile THEN base ELSE Len(disk[Dest[f]])]

LEMMA OnDiskChanged ==
  ASSUME NEW f \in 1..NFiles, NEW v,
         \A g \in 1..NFiles : disk'[Dest[g]] = IF g = f THEN v ELSE disk[Dest[g]]
  PROVE  OnDisk' = [OnDisk EXCEPT ![f] = v]
BY DEF OnDisk

LEMMA SafeChanged ==
  ASSUME NEW f \in 1..NFiles, NEW n,
         \A g \in 1..NFiles : Safe'[g] = IF g = f THEN n ELSE Safe[g]
  PROVE  Safe' = [Safe EXCEPT ![f] = n]
<1>1. Safe = [g \in 1..NFiles |-> Safe[g]] /\ Safe' = [g \in 1..NFiles |-> Safe'[g]]
  BY DEF Safe
<1>. QED
  BY <1>1

\* As long as a file is open, or none is, nothing becomes safe or unsafe.
LEMMA SafeKept ==
  ASSUME UNCHANGED <<disk, received>>, Open' = Open, Open => rfile' = rfile /\ base' = base
  PROVE  UNCHANGED Promise!vars
<1>1. Safe' = Safe
  BY DEF Safe
<1>2. OnDisk' = OnDisk
  BY DEF OnDisk
<1>. QED
  BY <1>1, <1>2 DEF Promise!vars, Safe, OnDisk

\* A file that is asked for is safe as it is.
LEMMA SafeOpened ==
  ASSUME UNCHANGED <<disk, received>>, ~Open, base' = Len(disk[Dest[rfile']])
  PROVE  UNCHANGED Promise!vars
<1>1. Safe' = Safe
  BY DEF Safe
<1>2. OnDisk' = OnDisk
  BY DEF OnDisk
<1>. QED
  BY <1>1, <1>2 DEF Promise!vars, Safe, OnDisk

\* A file that is closed is safe as it is.
LEMMA SafeClosed ==
  ASSUME UNCHANGED disk, Open, rfile \in 1..NFiles, ~Open'
  PROVE  Safe' = [Safe EXCEPT ![rfile] = Len(OnDisk[rfile])] /\ OnDisk' = OnDisk
<1>1. \A g \in 1..NFiles : Safe'[g] = IF g = rfile THEN Len(disk[Dest[rfile]]) ELSE Safe[g]
  BY DEF Safe
<1>2. Safe' = [Safe EXCEPT ![rfile] = Len(disk[Dest[rfile]])]
  BY <1>1, SafeChanged
<1>. QED
  BY <1>2 DEF OnDisk

LEMMA PromiseClosed ==
  ASSUME UNCHANGED <<disk, received>>, Open, rfile \in 1..NFiles, ~Open'
  PROVE  Promise!Next
<1>1. Promise!Open(rfile)
  BY SafeClosed DEF Promise!Open, Safe, OnDisk
<1>. QED
  BY <1>1 DEF Promise!Next, Promise!Open

\* A subpacket extends the open file.
LEMMA PromiseData ==
  ASSUME Typed, LineInv, DataInv, DiskInv, NamesDiffer, fwd # <<>>, ReceiveData(Head(fwd))
  PROVE  Promise!Next
<1>. DEFINE m == Head(fwd).to
<1>1. /\ rfile \in 1..NFiles /\ Had \in Nat /\ m \in Nat /\ Had < m /\ m <= Sizes[rfile]
      /\ Sizes[rfile] \in Nat
  BY AtData, Constants
<1>2. \A g \in 1..NFiles :
        disk'[Dest[g]] = IF g = rfile THEN Bytes(g, 1, m) ELSE disk[Dest[g]]
  BY DataWritten
<1>3. /\ rphase = "data" /\ rphase' \in {"file", "data"}
      /\ rfile' = rfile /\ base' = base /\ received' = received
  BY DEF ReceiveData
<1>. HIDE DEF m
<1>4. Safe' = Safe
  <2>1. Open /\ Open'
    BY <1>1, <1>3 DEF Open
  <2>. QED
    BY <1>2, <1>3, <2>1 DEF Safe
<1>5. SubSeq(FileBytes(rfile), 1, m) = Bytes(rfile, 1, m)
  <2>1. m \in 0..Sizes[rfile]
    BY <1>1
  <2>. QED
    BY <1>1, <2>1, BytesCut DEF FileBytes
<1>6. OnDisk' = [OnDisk EXCEPT ![rfile] = SubSeq(FileBytes(rfile), 1, m)]
  <2>. DEFINE v == SubSeq(FileBytes(rfile), 1, m)
  <2>1. \A g \in 1..NFiles : disk'[Dest[g]] = IF g = rfile THEN v ELSE disk[Dest[g]]
    BY <1>2, <1>5
  <2>. HIDE DEF v
  <2>2. OnDisk' = [OnDisk EXCEPT ![rfile] = v]
    BY <2>1 DEF OnDisk
  <2>. QED
    BY <2>2 DEF v
<1>7. m \in Len(OnDisk[rfile])..Len(FileBytes(rfile))
  <2>1. Len(FileBytes(rfile)) = Sizes[rfile]
    BY <1>1, BytesTo DEF FileBytes
  <2>2. Len(OnDisk[rfile]) = Had
    BY <1>1 DEF OnDisk, Had
  <2>. QED
    BY <1>1, <2>1, <2>2
<1>8. Promise!Extend(rfile)
  BY <1>1, <1>3, <1>4, <1>6, <1>7 DEF Promise!Extend, OnDisk, Safe
<1>. QED
  BY <1>1, <1>8 DEF Promise!Next, Promise!Extend

\* ZEOF closes and reports a file that is whole.
LEMMA PromiseEof ==
  ASSUME Typed, LineInv, DataInv, DiskInv, fwd # <<>>, rphase = "file",
         Head(fwd).type = "ZEOF", rphase' \notin {"file", "data", "garbled"},
         received' = received \cup {rfile}, UNCHANGED disk
  PROVE  Promise!Next
<1>1. rfile \in 1..NFiles /\ Alive /\ fwd \in Seq(FwdTokens)
  BY DEF Typed, ReceiverTyped, Alive, Final, Failures
<1>2. ~Infos
  <2>1. ~Holds(Tail(fwd), {"INFO"})
    BY <1>1, AfterTail DEF LineInv, FwdInv, StreamTypes
  <2>. QED
    BY <1>1, <2>1, HoldsTail DEF Infos
<1>3. Holds(fwd, {"ZEOF"}) /\ ~Holds(fwd, DataTypes)
  <2>1. ~Holds(Tail(fwd), StreamTypes)
    BY <1>1, AfterTail DEF LineInv, FwdInv
  <2>2. DataTypes \subseteq StreamTypes /\ "ZEOF" \notin DataTypes
    BY DEF StreamTypes, DataTypes
  <2>3. ~Holds(Tail(fwd), DataTypes)
    BY <2>1, <2>2 DEF Holds
  <2>. QED
    BY <1>1, <2>2, <2>3, HoldsTail
<1>4. disk[Dest[rfile]] = FileBytes(rfile)
  BY <1>1, <1>2, <1>3 DEF DataInv, Continues, DiskInv, Had, FileBytes
<1>5. Safe' = [Safe EXCEPT ![rfile] = Len(OnDisk[rfile])] /\ OnDisk' = OnDisk
  BY <1>1, SafeClosed DEF Open
<1>6. Promise!Report(rfile)
  BY <1>1, <1>4, <1>5 DEF Promise!Report, OnDisk, Safe
<1>. QED
  BY <1>1, <1>6 DEF Promise!Next, Promise!Report

\* A crash takes nothing that was there when the file was opened.
LEMMA PromiseCrash ==
  ASSUME Typed, DiskInv, NamesDiffer, Open, rfile \in 1..NFiles, NEW k \in base..Had,
         disk' = [disk EXCEPT ![Dest[rfile]] = SubSeq(@, 1, k)],
         ~Open', received' = received
  PROVE  Promise!Next
<1>1. /\ k \in Nat /\ Had \in Nat
      /\ \A g \in 1..NFiles :
           disk'[Dest[g]] = IF g = rfile THEN Bytes(g, 1, k) ELSE disk[Dest[g]]
  BY DiskCrash
<1>2. Len(Bytes(rfile, 1, k)) = k
  BY <1>1, BytesTo
<1>3. k \in 0..Had
  BY <1>1
<1>4. SubSeq(OnDisk[rfile], 1, k) = Bytes(rfile, 1, k) /\ Len(OnDisk[rfile]) = Had
  BY <1>1, <1>3, BytesCut DEF DiskInv, OnDisk, Had
<1>5. OnDisk' = [OnDisk EXCEPT ![rfile] = SubSeq(OnDisk[rfile], 1, k)]
  <2>. DEFINE v == SubSeq(OnDisk[rfile], 1, k)
  <2>1. \A g \in 1..NFiles : disk'[Dest[g]] = IF g = rfile THEN v ELSE disk[Dest[g]]
    BY <1>1, <1>4
  <2>. HIDE DEF v
  <2>2. OnDisk' = [OnDisk EXCEPT ![rfile] = v]
    BY <2>1 DEF OnDisk
  <2>. QED
    BY <2>2 DEF v
<1>6. Safe' = [Safe EXCEPT ![rfile] = k]
  <2>1. \A g \in 1..NFiles : Len(disk'[Dest[g]]) = IF g = rfile THEN k ELSE Len(disk[Dest[g]])
    BY <1>1, <1>2
  <2>2. \A g \in 1..NFiles : Safe'[g] = Len(disk'[Dest[g]])
    BY DEF Safe
  <2>3. \A g \in 1..NFiles : g # rfile => Safe[g] = Len(disk[Dest[g]])
    BY DEF Safe
  <2>. QED
    BY <2>1, <2>2, <2>3 DEF Safe
<1>7. k \in Safe[rfile]..Len(OnDisk[rfile])
  BY <1>4 DEF Safe
<1>8. Promise!Interrupt(rfile)
  BY <1>5, <1>6, <1>7 DEF Promise!Interrupt, OnDisk, Safe
<1>. QED
  BY <1>8 DEF Promise!Next, Promise!Interrupt

\* The receiver stops, or goes on with the same file.
LEMMA PromiseEnds ==
  ASSUME Typed, UNCHANGED <<disk, received>>,
         ~Open' \/ (Open /\ Open' /\ UNCHANGED <<rfile, base>>)
  PROVE  [Promise!Next]_(Promise!vars)
<1>1. CASE Open' = Open
  <2>1. UNCHANGED Promise!vars
    BY <1>1, SafeKept
  <2>. QED
    BY <2>1
<1>2. CASE Open /\ ~Open'
  <2>1. rfile \in 1..NFiles
    BY <1>2, Constants DEF Open, Typed, ReceiverTyped
  <2>2. Promise!Next
    BY <1>2, <2>1, PromiseClosed
  <2>. QED
    BY <2>2
<1>3. Open' \in BOOLEAN /\ Open \in BOOLEAN
  BY DEF Open
<1>. QED
  BY <1>1, <1>2, <1>3

LEMMA PromiseReceiverReads ==
  ASSUME Typed, LineInv, DataInv, DiskInv, NamesDiffer, FilesSmall, ReceiverReads
  PROVE  [Promise!Next]_(Promise!vars)
<1>. DEFINE t == Head(fwd)
<1>1. fwd # <<>> /\ fwd' = Tail(fwd)
  BY DEF ReceiverReads
<1>2. CASE t.type \in HeaderTypes /\ ReceiveHeader(t)
  BY <1>2, PromiseEnds DEF ReceiveHeader, ReceiverEnds, Ignore, Open
<1>3. CASE t.type \in HeaderTypes /\ ReceiveFileHeader(t)
  <2>1. CASE t.type = "ZEOF"
    <3>1. Promise!Next
      BY <1>1, <1>3, <2>1, PromiseEof DEF ReceiveFileHeader
    <3>. QED
      BY <3>1
  <2>2. CASE t.type # "ZEOF"
    <3>1. UNCHANGED <<rfile, base, disk, received>> /\ rphase = "file" /\ rfile \in 1..NFiles
      BY <1>3, <2>2 DEF ReceiveFileHeader, ReceiverEnds, Ignore, Typed, ReceiverTyped
    <3>2. ~Open' \/ (Open /\ Open')
      BY <3>1, Constants DEF Open
    <3>. QED
      BY <3>1, <3>2, PromiseEnds
  <2>. QED
    BY <2>1, <2>2
<1>4. CASE ReceiveInfo(t)
  <2>1. disk' = disk
    BY <1>1, <1>4, DataInfo
  <2>2. ~Open /\ received' = received /\ base' = Len(disk[Dest[rfile']])
    BY <1>4 DEF ReceiveInfo, Open
  <2>3. UNCHANGED Promise!vars
    BY <2>1, <2>2, SafeOpened
  <2>. QED
    BY <2>3
<1>5. CASE ReceiveData(t)
  <2>1. Promise!Next
    BY <1>1, <1>5, PromiseData
  <2>. QED
    BY <2>1
<1>6. CASE ReceiveUnexpected(t) \/ ReceiveIntoSubpacket(t)
  <2>1. UNCHANGED <<rfile, base, disk, received>>
    BY <1>6 DEF ReceiveUnexpected, ReceiveIntoSubpacket, ReceiverEnds
  <2>2. ~Open' \/ (Open /\ Open')
    BY <1>6, <2>1 DEF ReceiveUnexpected, ReceiveIntoSubpacket, ReceiverEnds, Open, Typed,
       ReceiverTyped
  <2>. QED
    BY <2>1, <2>2, PromiseEnds
<1>. QED
  BY <1>2, <1>3, <1>4, <1>5, <1>6 DEF ReceiverReads

LEMMA PromiseStep ==
  ASSUME Typed, LineInv, DataInv, DiskInv, NamesDiffer, FilesSmall, [Next]_vars
  PROVE  [Promise!Next]_(Promise!vars)
<1>1. CASE UNCHANGED receiverVars
  <2>1. UNCHANGED <<disk, received, rfile, base>> /\ Open' = Open
    BY <1>1 DEF receiverVars, Open
  <2>2. UNCHANGED Promise!vars
    BY <2>1, SafeKept
  <2>. QED
    BY <2>2
<1>2. CASE SenderStart \/ SenderReads \/ SenderTimeout \/ ForwardFault \/ ReverseFault
  BY <1>1, <1>2 DEF SenderStart, SenderReads, SenderTimeout, ForwardFault, ReverseFault
<1>3. CASE ReceiverStart
  BY <1>3, PromiseEnds DEF ReceiverStart, Open
<1>4. CASE ReceiverReads
  BY <1>4, PromiseReceiverReads
<1>5. CASE ReceiverTimeout
  BY <1>5, PromiseEnds DEF ReceiverTimeout, ReceiverEnds, Open
<1>6. CASE ForeignSkip
  BY <1>6, PromiseEnds DEF ForeignSkip, Open
<1>7. CASE ForeignAbort
  <2>1. UNCHANGED <<rfile, base, disk, received>>
    BY <1>7 DEF ForeignAbort
  <2>2. CASE rphase' = "cancelled"
    BY <2>1, <2>2, PromiseEnds DEF Open
  <2>3. CASE rphase' = rphase
    BY <1>1, <2>1, <2>3 DEF receiverVars
  <2>. QED
    BY <1>7, <2>2, <2>3 DEF ForeignAbort
<1>8. CASE Cut
  <2>1. ~Open' /\ received' = received
    BY <1>8 DEF Cut, Open, Final, Failures
  <2>2. CASE disk' = disk
    BY <2>1, <2>2, PromiseEnds
  <2>3. CASE Open /\ \E k \in base..Had : disk' = [disk EXCEPT ![Dest[rfile]] = SubSeq(@, 1, k)]
    <3>1. rfile \in 1..NFiles
      BY <2>3, Constants DEF Open, Typed, ReceiverTyped
    <3>2. Promise!Next
      BY <2>1, <2>3, <3>1, PromiseCrash
    <3>. QED
      BY <3>2
  <2>. QED
    BY <1>8, <2>2, <2>3 DEF Cut, Had
<1>9. CASE DieBeforeClose
  <2>1. ~Open' /\ received' = received /\ rphase = "file" /\ rfile \in 1..NFiles
    BY <1>9 DEF DieBeforeClose, Open, Typed, ReceiverTyped
  <2>2. Open
    BY <2>1, Constants DEF Open
  <2>3. \E k \in base..Had : disk' = [disk EXCEPT ![Dest[rfile]] = SubSeq(@, 1, k)]
    BY <1>9 DEF DieBeforeClose, Had
  <2>4. Promise!Next
    BY <2>1, <2>2, <2>3, PromiseCrash
  <2>. QED
    BY <2>4
<1>10. CASE Restart
  <2>1. ~Open /\ ~Open' /\ received' = {} /\ disk' = disk
    BY <1>10 DEF Restart, SessionOver, Open, Final, Failures
  <2>2. Safe' = Safe /\ OnDisk' = OnDisk
    BY <2>1 DEF Safe, OnDisk
  <2>3. Promise!Again
    BY <2>1, <2>2 DEF Promise!Again, Safe, OnDisk
  <2>. QED
    BY <2>3 DEF Promise!Next, Promise!Again
<1>11. CASE UNCHANGED vars
  BY <1>1, <1>11 DEF vars
<1>. QED
  BY <1>2, <1>3, <1>4, <1>5, <1>6, <1>7, <1>8, <1>9, <1>10, <1>11 DEF Next

\* The whole receiver's invariant.
LEMMA DiskAlways ==
  ASSUME NamesDiffer, FilesSmall
  PROVE  Spec => [](Typed /\ LineInv /\ DataInv /\ DiskInv)
<1>1. Init => DataInv /\ DiskInv
  BY DataInit
<1>2. Typed /\ LineInv /\ DataInv /\ DiskInv /\ [Next]_vars => (DataInv /\ DiskInv)'
  BY DataStep
<1>3. Spec => [](Typed /\ LineInv)
  BY LineAlways
<1>. QED
  BY <1>1, <1>2, <1>3, PTL DEF Spec

\* Over any number of sessions, cut and resumed anywhere, on a line that damages
\* what it carries and loses headers: the receiver's disk keeps Downloads'
\* promise (_receive_file's resume offset, _send_file's seek and the order in
\* which _receive_file_data writes, closes and answers).
THEOREM DiskKeepsPromise ==
  ASSUME NamesDiffer, FilesSmall
  PROVE  Spec => KeepsPromise
<1>1. Init => Promise!Init
  <2>. SUFFICES ASSUME Init PROVE Promise!Init
    OBVIOUS
  <2>1. \A f \in 1..NFiles : disk[Dest[f]] = <<>>
    BY Constants DEF Init
  <2>2. ~Open /\ received = {}
    BY DEF Init, Open
  <2>. QED
    BY <2>1, <2>2 DEF Promise!Init
<1>2. Typed /\ LineInv /\ DataInv /\ DiskInv /\ [Next]_vars => [Promise!Next]_(Promise!vars)
  BY PromiseStep
<1>. QED
  BY <1>1, <1>2, DiskAlways, PTL DEF Spec, KeepsPromise, Promise!Spec

-----------------------------------------------------------------------------
(* What follows from the promise *)

\* A reported file is whole, and out of reach of a crash.
Kept == \A f \in received : OnDisk[f] = FileBytes(f) /\ Safe[f] = Sizes[f]

LEMMA WholeFile ==
  ASSUME NEW f \in 1..NFiles
  PROVE  /\ FileBytes(f) \in Seq((1..NFiles) \X Nat) /\ Len(FileBytes(f)) = Sizes[f]
         /\ Sizes[f] \in Nat
         /\ SubSeq(FileBytes(f), 1, Sizes[f]) = FileBytes(f)
<1>1. Sizes[f] \in Nat /\ Sizes[f] \in 0..Sizes[f]
  BY Constants
<1>. QED
  BY <1>1, BytesTo, BytesCut DEF FileBytes

\* Whatever Downloads does to it.
LEMMA KeptStep ==
  ASSUME Typed, Kept, [Promise!Next]_(Promise!vars)
  PROVE  Kept'
<1>1. received \subseteq 1..NFiles
  BY DEF Typed, ReceiverTyped
<1>2. /\ OnDisk = [g \in 1..NFiles |-> OnDisk[g]] /\ Safe = [g \in 1..NFiles |-> Safe[g]]
  BY DEF OnDisk, Safe
<1>3. ASSUME NEW f \in 1..NFiles, OnDisk' = OnDisk, received' = received,
             Safe' = [Safe EXCEPT ![f] = Len(OnDisk[f])]
      PROVE  Kept'
  BY <1>1, <1>2, <1>3, WholeFile DEF Kept
<1>4. ASSUME NEW f \in 1..NFiles, Safe' = Safe, received' = received,
             NEW k \in Len(OnDisk[f])..Sizes[f],
             OnDisk' = [OnDisk EXCEPT ![f] = SubSeq(FileBytes(f), 1, k)]
      PROVE  Kept'
  <2>1. f \in received => k = Sizes[f]
    BY <1>1, <1>4, WholeFile DEF Kept
  <2>. QED
    BY <1>1, <1>2, <1>4, <2>1, WholeFile DEF Kept
<1>5. ASSUME NEW f \in 1..NFiles, OnDisk' = OnDisk, received' = received \cup {f},
             OnDisk[f] = FileBytes(f), Safe' = [Safe EXCEPT ![f] = Len(OnDisk[f])]
      PROVE  Kept'
  BY <1>1, <1>2, <1>5, WholeFile DEF Kept
<1>6. ASSUME NEW f \in 1..NFiles, received' = received,
             NEW k \in Safe[f]..Len(OnDisk[f]),
             OnDisk' = [OnDisk EXCEPT ![f] = SubSeq(OnDisk[f], 1, k)],
             Safe' = [Safe EXCEPT ![f] = k]
      PROVE  Kept'
  <2>1. f \in received => k = Sizes[f] /\ OnDisk[f] = FileBytes(f)
    BY <1>1, <1>6, WholeFile DEF Kept
  <2>. QED
    BY <1>1, <1>2, <1>6, <2>1, WholeFile DEF Kept
<1>7. CASE UNCHANGED Promise!vars
  <2>1. OnDisk' = OnDisk /\ Safe' = Safe /\ received' = received
    BY <1>7 DEF Promise!vars, OnDisk, Safe
  <2>. QED
    BY <2>1 DEF Kept
<1>8. CASE Promise!Again
  BY <1>8 DEF Promise!Again, Kept
<1>9. ASSUME NEW f \in 1..NFiles, Promise!Open(f) PROVE Kept'
  BY <1>3, <1>9 DEF Promise!Open, OnDisk, Safe
<1>10. ASSUME NEW f \in 1..NFiles, Promise!Extend(f) PROVE Kept'
  <2>1. /\ Safe' = Safe /\ received' = received
        /\ \E k \in Len(OnDisk[f])..Len(FileBytes(f)) :
             OnDisk' = [OnDisk EXCEPT ![f] = SubSeq(FileBytes(f), 1, k)]
    BY <1>10 DEF Promise!Extend, OnDisk, Safe
  <2>. QED
    BY <1>4, <2>1, WholeFile
<1>11. ASSUME NEW f \in 1..NFiles, Promise!Report(f) PROVE Kept'
  <2>1. /\ OnDisk' = OnDisk /\ received' = received \cup {f} /\ OnDisk[f] = FileBytes(f)
        /\ Safe' = [Safe EXCEPT ![f] = Len(OnDisk[f])]
    BY <1>11 DEF Promise!Report, OnDisk, Safe
  <2>. QED
    BY <1>5, <2>1
<1>12. ASSUME NEW f \in 1..NFiles, Promise!Interrupt(f) PROVE Kept'
  <2>1. /\ received' = received
        /\ \E k \in Safe[f]..Len(OnDisk[f]) :
             /\ OnDisk' = [OnDisk EXCEPT ![f] = SubSeq(OnDisk[f], 1, k)]
             /\ Safe' = [Safe EXCEPT ![f] = k]
    BY <1>12 DEF Promise!Interrupt, OnDisk, Safe
  <2>. QED
    BY <1>6, <2>1
<1>. QED
  BY <1>7, <1>8, <1>9, <1>10, <1>11, <1>12 DEF Promise!Next

\* What its user relies on: from the moment receive() reports a file to the end
\* of the session, through whatever a sender repeats and wherever the session is
\* cut, the file on the disk is the file sent.
THEOREM ReportedIsWhole ==
  ASSUME NamesDiffer, FilesSmall
  PROVE  Spec => [](\A f \in received : disk[Dest[f]] = FileBytes(f))
<1>1. Init => Kept
  BY DEF Init, Kept
<1>2. Typed /\ LineInv /\ DataInv /\ DiskInv /\ [Next]_vars => [Promise!Next]_(Promise!vars)
  BY PromiseStep
<1>3. Typed /\ Kept /\ [Promise!Next]_(Promise!vars) => Kept'
  BY KeptStep
<1>4. Typed /\ Kept => \A f \in received : disk[Dest[f]] = FileBytes(f)
  BY DEF Kept, OnDisk, Typed, ReceiverTyped
<1>. QED
  BY <1>1, <1>2, <1>3, <1>4, DiskAlways, PTL DEF Spec

=============================================================================
