---------------------------- MODULE FramingProofs ----------------------------
(***************************************************************************)
(* What is written is read: for every batch of headers and subpackets, and *)
(* whatever their bytes.                                                   *)
(***************************************************************************)
EXTENDS Framing, CrcProofs

-----------------------------------------------------------------------------
(* Sequences                                                                 *)

LEMMA Front1 ==
  ASSUME NEW S, NEW a \in S, NEW s \in Seq(S)
  PROVE  /\ << a >> \in Seq(S) /\ << a >> \o s \in Seq(S) /\ << a >> \o s # <<>>
         /\ Head(<< a >> \o s) = a /\ Tail(<< a >> \o s) = s
         /\ Len(<< a >> \o s) = Len(s) + 1
<1>. DEFINE t == << a >> \o s
<1>1. << a >> \in Seq(S) /\ Len(<< a >>) = 1 /\ << a >>[1] = a
  OBVIOUS
<1>2. /\ t \in Seq(S) /\ Len(t) = 1 + Len(s) /\ Len(s) \in Nat
      /\ \A i \in 1..(1 + Len(s)) : t[i] = IF i <= 1 THEN << a >>[i] ELSE s[i - 1]
  BY <1>1, ConcatProperties, LenProperties
<1>. HIDE DEF t
<1>3. t # <<>>
  BY <1>2
<1>4. Head(t) = a
  BY <1>1, <1>2, <1>3
<1>5. Tail(t) = s
  <2>1. /\ Tail(t) \in Seq(S) /\ Len(Tail(t)) = Len(t) - 1
        /\ \A i \in 1..Len(Tail(t)) : Tail(t)[i] = t[i + 1]
    BY <1>2, <1>3, HeadTailProperties
  <2>2. Len(Tail(t)) = Len(s)
    BY <1>2, <2>1
  <2>3. ASSUME NEW i \in 1..Len(Tail(t)) PROVE Tail(t)[i] = s[i]
    <3>1. i + 1 \in 1..(1 + Len(s)) /\ ~(i + 1 <= 1) /\ (i + 1) - 1 = i
      BY <1>2, <2>2
    <3>. QED BY <1>2, <2>1, <3>1
  <2>. QED BY <2>1, <2>2, <2>3, SeqEqual
<1>. QED BY <1>1, <1>2, <1>3, <1>4, <1>5 DEF t

LEMMA HeadAndTail ==
  ASSUME NEW S, NEW s \in Seq(S), s # <<>>
  PROVE  s = << Head(s) >> \o Tail(s) /\ Head(s) \in S /\ Tail(s) \in Seq(S)
<1>. DEFINE t == << Head(s) >> \o Tail(s)
            u == Tail(s)
<1>1. /\ Head(s) \in S /\ u \in Seq(S) /\ Len(u) = Len(s) - 1
      /\ \A i \in 1..Len(u) : u[i] = s[i + 1]
  BY HeadTailProperties
<1>2. Len(s) \in Nat \ {0} /\ Head(s) = s[1]
  BY EmptySeq
<1>3. /\ t \in Seq(S) /\ Len(t) = 1 + Len(u)
      /\ \A i \in 1..(1 + Len(u)) : t[i] = IF i <= 1 THEN << Head(s) >>[i] ELSE u[i - 1]
  <2>1. << Head(s) >> \in Seq(S) /\ Len(<< Head(s) >>) = 1
    BY <1>1
  <2>. QED BY <1>1, <2>1, ConcatProperties
<1>4. << Head(s) >>[1] = s[1]
  BY <1>2
<1>. HIDE DEF t, u
<1>5. ASSUME NEW i \in 1..Len(s) PROVE t[i] = s[i]
  <2>1. CASE i = 1
    BY <1>1, <1>2, <1>3, <1>4, <2>1
  <2>2. CASE i # 1
    <3>1. i \in 1..(1 + Len(u)) /\ ~(i <= 1) /\ i - 1 \in 1..Len(u) /\ (i - 1) + 1 = i
      BY <1>1, <1>2, <2>2
    <3>. QED BY <1>1, <1>3, <3>1
  <2>. QED BY <2>1, <2>2
<1>6. Len(t) = Len(s)
  BY <1>1, <1>2, <1>3
<1>7. t = s
  BY <1>3, <1>5, <1>6, SeqEqual
<1>. QED BY <1>1, <1>7 DEF t, u

\* Taking the next one over.
LEMMA TakeOver ==
  ASSUME NEW S, NEW r \in Seq(S), NEW a \in S, NEW s \in Seq(S)
  PROVE  /\ Append(r, a) \o s = r \o (<< a >> \o s)
         /\ Append(r, a) \in Seq(S) /\ Len(Append(r, a)) = Len(r) + 1
<1>1. << a >> \in Seq(S)
  OBVIOUS
<1>2. Append(r, a) = r \o << a >>
  BY AppendIsConcat
<1>3. (r \o << a >>) \o s = r \o (<< a >> \o s)
  BY <1>1, ConcatAssociative
<1>. QED BY <1>2, <1>3, AppendProperties

\* x and what follows.
Before(x, s) == << x >> \o s

LEMMA BeforeParts ==
  ASSUME NEW S, NEW a \in S, NEW s \in Seq(S)
  PROVE  /\ Before(a, s) \in Seq(S) /\ Before(a, s) # <<>> /\ Len(Before(a, s)) = Len(s) + 1
         /\ Head(Before(a, s)) = a /\ Tail(Before(a, s)) = s
BY Front1 DEF Before

LEMMA SplitFirst ==
  ASSUME NEW S, NEW s \in Seq(S), s # <<>>
  PROVE  \E a \in S, t \in Seq(S) : s = Before(a, t)
BY HeadAndTail DEF Before

LEMMA TakeBefore ==
  ASSUME NEW S, NEW r \in Seq(S), NEW a \in S, NEW s \in Seq(S)
  PROVE  /\ Append(r, a) \o s = r \o Before(a, s)
         /\ Append(r, a) \in Seq(S) /\ Len(Append(r, a)) = Len(r) + 1
BY TakeOver DEF Before

\* Induction over sequences, by their length.
LEMMA SeqInduction ==
  ASSUME NEW S, NEW P, <<>> \in P,
         \A s \in Seq(S) : s \in P => \A x \in S : Append(s, x) \in P
  PROVE  Seq(S) \subseteq P
<1>. DEFINE N == {k \in Nat : \A s \in Seq(S) : Len(s) = k => s \in P}
<1>1. 0 \in N
  <2>1. ASSUME NEW s \in Seq(S), Len(s) = 0 PROVE s = <<>>
    BY <2>1, EmptySeq
  <2>. QED BY <2>1
<1>2. ASSUME NEW k \in Nat, k \in N PROVE k + 1 \in N
  <2>. SUFFICES ASSUME NEW s \in Seq(S), Len(s) = k + 1 PROVE s \in P
    OBVIOUS
  <2>1. s # <<>>
    BY EmptySeq
  <2>2. PICK t \in Seq(S), x \in S : s = Append(t, x)
    BY <2>1, SequenceEmptyOrAppend
  <2>3. Len(t) = k
    <3>1. Len(s) = Len(t) + 1 /\ Len(t) \in Nat
      BY <2>2, AppendProperties, LenProperties
    <3>. QED BY <3>1
  <2>4. t \in P
    BY <1>2, <2>3
  <2>. QED BY <2>2, <2>4
<1>3. Nat \subseteq N
  <2>. HIDE DEF N
  <2>. QED BY <1>1, <1>2, SetInduction
<1>. QED BY <1>3, LenProperties

-----------------------------------------------------------------------------
(* FlattenSeq                                                                *)

Joining(B) == [p \in Seq(B) \X Seq(B) |-> p[1] \o p[2]]

\* What FlattenSeq's definition says of its function.
Flattens(f, seqs) ==
  f = [i \in 1..Len(seqs) |-> IF i = 1 THEN seqs[i] ELSE f[i - 1] \o seqs[i]]

LEMMA JoiningType ==
  ASSUME NEW B
  PROVE  /\ Joining(B) \in [Seq(B) \X Seq(B) -> Seq(B)]
         /\ \A s, t \in Seq(B) : Joining(B)[<< s, t >>] = s \o t
         /\ <<>> \in Seq(B)
<1>1. \A p \in Seq(B) \X Seq(B) : p[1] \o p[2] \in Seq(B)
  BY ConcatProperties
<1>2. Joining(B) \in [Seq(B) \X Seq(B) -> Seq(B)]
  BY <1>1 DEF Joining
<1>3. \A s, t \in Seq(B) : Joining(B)[<< s, t >>] = s \o t
  BY DEF Joining
<1>4. <<>> \in Seq(B)
  OBVIOUS
<1>. QED BY <1>2, <1>3, <1>4

\* It is a loop.
LEMMA FlattenIsLoop ==
  ASSUME NEW B, NEW seqs \in Seq(Seq(B))
  PROVE  FlattenSeq(seqs) = Loop(Joining(B), <<>>, seqs)
<1>. DEFINE m == Len(seqs)
            g == CHOOSE f : Flattens(f, seqs)
<1>1. PICK f : Values(f, Seq(B), Joining(B), <<>>, seqs)
  BY JoiningType, LoopTurns
<1>2. m \in Nat /\ \A i \in 1..m : seqs[i] \in Seq(B)
  BY LenProperties, ElementOfSeq
<1>3. /\ f[0] = <<>> /\ Loop(Joining(B), <<>>, seqs) = f[m]
      /\ \A i \in 0..m : f[i] \in Seq(B)
      /\ \A i \in 1..m : f[i] = Joining(B)[<< f[i - 1], seqs[i] >>]
  BY <1>1 DEF Values
<1>4. \A i \in 1..m : f[i] = f[i - 1] \o seqs[i]
  <2>. SUFFICES ASSUME NEW i \in 1..m PROVE f[i] = f[i - 1] \o seqs[i]
    OBVIOUS
  <2>1. i - 1 \in 0..m
    BY <1>2
  <2>. QED BY <1>2, <1>3, <2>1, JoiningType
<1>5. FlattenSeq(seqs) = IF m = 0 THEN seqs ELSE g[m]
  BY DEF FlattenSeq, Flattens
<1>6. CASE m = 0
  BY <1>3, <1>5, <1>6, EmptySeq
<1>7. CASE m # 0
  <2>. DEFINE h == [i \in 1..m |-> f[i]]
  <2>4. \A i \in 1..m : f[i] = IF i = 1 THEN seqs[i] ELSE f[i - 1] \o seqs[i]
    <3>. SUFFICES ASSUME NEW i \in 1..m, i = 1 PROVE f[i] = seqs[i]
      BY <1>4
    <3>1. f[i] = f[i - 1] \o seqs[i]
      BY <1>4
    <3>2. i - 1 = 0
      OBVIOUS
    <3>3. seqs[i] \in Seq(B)
      BY <1>2
    <3>4. <<>> \o seqs[i] = seqs[i]
      BY <3>3, ConcatEmptySeq
    <3>. QED BY <1>3, <3>1, <3>2, <3>4
  <2>1. Flattens(h, seqs)
    <3>1. ASSUME NEW i \in 1..m
          PROVE  f[i] = IF i = 1 THEN seqs[i] ELSE h[i - 1] \o seqs[i]
      <4>1. i # 1 => i - 1 \in 1..m
        BY <1>2
      <4>2. i # 1 => h[i - 1] = f[i - 1]
        BY <4>1
      <4>. QED BY <2>4, <4>2
    <3>. QED BY <3>1 DEF Flattens
  <2>2. Flattens(g, seqs)
    <3>. HIDE DEF h
    <3>. QED BY <2>1
  <2>. HIDE DEF g, h
  <2>3. \A i \in 1..m : g[i] = IF i = 1 THEN seqs[i] ELSE g[i - 1] \o seqs[i]
    BY <2>2 DEF Flattens
  <2>. DEFINE N == {k \in Nat : k + 1 <= m => g[k + 1] = f[k + 1]}
  <2>5. 0 \in N
    BY <1>2, <1>7, <2>3, <2>4
  <2>6. ASSUME NEW k \in Nat, k \in N PROVE k + 1 \in N
    <3>. SUFFICES ASSUME (k + 1) + 1 <= m PROVE g[(k + 1) + 1] = f[(k + 1) + 1]
      OBVIOUS
    <3>. DEFINE i == (k + 1) + 1
    <3>1. i \in 1..m /\ i # 1 /\ i - 1 = k + 1
      BY <1>2
    <3>. HIDE DEF i
    <3>2. g[i - 1] = f[i - 1]
      BY <1>2, <2>6, <3>1
    <3>3. g[i] = f[i]
      BY <2>3, <2>4, <3>1, <3>2
    <3>. QED BY <3>3 DEF i
  <2>7. Nat \subseteq N
    <3>. HIDE DEF N
    <3>. QED BY <2>5, <2>6, SetInduction
  <2>8. m - 1 \in Nat /\ (m - 1) + 1 = m
    BY <1>2, <1>7
  <2>9. g[m] = f[m]
    <3>1. m - 1 \in N
      BY <2>7, <2>8
    <3>2. (m - 1) + 1 <= m => g[(m - 1) + 1] = f[(m - 1) + 1]
      BY <3>1
    <3>. QED BY <1>2, <2>8, <3>2
  <2>. QED BY <1>3, <1>5, <1>7, <2>9
<1>. QED BY <1>6, <1>7

LEMMA FlattenEmpty == FlattenSeq(<<>>) = <<>>
BY DEF FlattenSeq

LEMMA FlattenType ==
  ASSUME NEW B, NEW seqs \in Seq(Seq(B)) PROVE FlattenSeq(seqs) \in Seq(B)
<1>1. Loop(Joining(B), <<>>, seqs) \in Seq(B)
  BY JoiningType, LoopType
<1>. QED BY <1>1, FlattenIsLoop

LEMMA FlattenAppend ==
  ASSUME NEW B, NEW seqs \in Seq(Seq(B)), NEW x \in Seq(B)
  PROVE  FlattenSeq(Append(seqs, x)) = FlattenSeq(seqs) \o x
<1>1. Append(seqs, x) \in Seq(Seq(B))
  BY AppendProperties
<1>2. FlattenSeq(seqs) = Loop(Joining(B), <<>>, seqs)
      /\ FlattenSeq(Append(seqs, x)) = Loop(Joining(B), <<>>, Append(seqs, x))
  BY <1>1, FlattenIsLoop
<1>3. Loop(Joining(B), <<>>, Append(seqs, x))
        = Joining(B)[<< Loop(Joining(B), <<>>, seqs), x >>]
  <2>. DEFINE S == Seq(B)
              J == Joining(B)
  <2>1. IsTurn(J, S, S) /\ <<>> \in S /\ seqs \in Seq(S) /\ x \in S
    BY JoiningType DEF IsTurn
  <2>. HIDE DEF S, J
  <2>2. Loop(J, <<>>, Append(seqs, x)) = Turned(J, Loop(J, <<>>, seqs), x)
    BY <2>1, LoopAppend
  <2>. QED BY <2>2 DEF J, Turned
<1>4. Loop(Joining(B), <<>>, seqs) \in Seq(B)
  BY JoiningType, LoopType
<1>5. Joining(B)[<< Loop(Joining(B), <<>>, seqs), x >>] = Loop(Joining(B), <<>>, seqs) \o x
  BY <1>4, JoiningType
<1>. QED BY <1>2, <1>3, <1>5

\* The first comes first.
LEMMA FlattenFirst ==
  ASSUME NEW B, NEW x \in Seq(B), NEW seqs \in Seq(Seq(B))
  PROVE  FlattenSeq(<< x >> \o seqs) = x \o FlattenSeq(seqs)
<1>. DEFINE P == {s \in Seq(Seq(B)) : FlattenSeq(<< x >> \o s) = x \o FlattenSeq(s)}
<1>0. << x >> \in Seq(Seq(B)) /\ <<>> \in Seq(Seq(B)) /\ <<>> \in Seq(B)
  OBVIOUS
<1>1. <<>> \in P
  <2>1. << x >> \o <<>> = << x >> /\ << x >> = Append(<<>>, x)
    BY <1>0, ConcatEmptySeq
  <2>2. FlattenSeq(Append(<<>>, x)) = FlattenSeq(<<>>) \o x
    BY <1>0, FlattenAppend
  <2>3. <<>> \o x = x /\ x \o <<>> = x
    BY ConcatEmptySeq
  <2>. QED BY <1>0, <2>1, <2>2, <2>3, FlattenEmpty
<1>2. ASSUME NEW s \in Seq(Seq(B)), s \in P, NEW y \in Seq(B) PROVE Append(s, y) \in P
  <2>1. /\ Append(s, y) \in Seq(Seq(B)) /\ Append(s, y) = s \o << y >>
        /\ << y >> \in Seq(Seq(B)) /\ << x >> \o s \in Seq(Seq(B))
    BY <1>0, AppendProperties, AppendIsConcat, ConcatProperties
  <2>2. << x >> \o Append(s, y) = Append(<< x >> \o s, y)
    <3>1. << x >> \o (s \o << y >>) = (<< x >> \o s) \o << y >>
      BY <1>0, <2>1, ConcatAssociative
    <3>2. (<< x >> \o s) \o << y >> = Append(<< x >> \o s, y)
      BY <2>1, AppendIsConcat
    <3>. QED BY <2>1, <3>1, <3>2
  <2>3. FlattenSeq(Append(<< x >> \o s, y)) = FlattenSeq(<< x >> \o s) \o y
    BY <2>1, FlattenAppend
  <2>4. FlattenSeq(Append(s, y)) = FlattenSeq(s) \o y
    BY FlattenAppend
  <2>5. (x \o FlattenSeq(s)) \o y = x \o (FlattenSeq(s) \o y)
    <3>1. FlattenSeq(s) \in Seq(B)
      BY FlattenType
    <3>. QED BY <3>1, ConcatAssociative
  <2>. QED BY <1>2, <2>1, <2>2, <2>3, <2>4, <2>5
<1>3. Seq(Seq(B)) \subseteq P
  <2>. HIDE DEF P
  <2>. QED BY <1>1, <1>2, SeqInduction
<1>. QED BY <1>3

-----------------------------------------------------------------------------
(* Sequences made element by element                                         *)

Mapped(g, s) == [i \in 1..Len(s) |-> g[s[i]]]

IsMap(g, S, T) == g \in [S -> T]

LEMMA MappedType ==
  ASSUME NEW S, NEW T, NEW g, IsMap(g, S, T), NEW s \in Seq(S)
  PROVE  /\ Mapped(g, s) \in Seq(T) /\ Len(Mapped(g, s)) = Len(s)
         /\ \A i \in 1..Len(s) : Mapped(g, s)[i] = g[s[i]]
<1>1. Len(s) \in Nat /\ \A i \in 1..Len(s) : g[s[i]] \in T
  BY LenProperties, ElementOfSeq DEF IsMap
<1>2. Mapped(g, s) \in [1..Len(s) -> T]
  BY <1>1 DEF Mapped
<1>3. Mapped(g, s) \in Seq(T) /\ Len(Mapped(g, s)) = Len(s)
  BY <1>1, <1>2
<1>. QED BY <1>3 DEF Mapped

LEMMA MappedEmpty ==
  ASSUME NEW g PROVE Mapped(g, <<>>) = <<>>
BY DEF Mapped

LEMMA MappedFirst ==
  ASSUME NEW S, NEW T, NEW g, IsMap(g, S, T), NEW x \in S, NEW s \in Seq(S)
  PROVE  Mapped(g, Before(x, s)) = Before(g[x], Mapped(g, s))
<1>. DEFINE t == << x >> \o s
            u == Mapped(g, t)
            v == << g[x] >> \o Mapped(g, s)
<1>1. << x >> \in Seq(S) /\ Len(<< x >>) = 1 /\ << x >>[1] = x
  OBVIOUS
<1>2. /\ t \in Seq(S) /\ Len(t) = 1 + Len(s) /\ Len(s) \in Nat
      /\ \A i \in 1..(1 + Len(s)) : t[i] = IF i <= 1 THEN << x >>[i] ELSE s[i - 1]
  BY <1>1, ConcatProperties, LenProperties
<1>3. g[x] \in T
  BY DEF IsMap
<1>4. << g[x] >> \in Seq(T) /\ Len(<< g[x] >>) = 1 /\ << g[x] >>[1] = g[x]
  BY <1>3
<1>5. /\ Mapped(g, s) \in Seq(T) /\ Len(Mapped(g, s)) = Len(s)
      /\ \A i \in 1..Len(s) : Mapped(g, s)[i] = g[s[i]]
  BY MappedType
<1>6. /\ v \in Seq(T) /\ Len(v) = 1 + Len(s)
      /\ \A i \in 1..(1 + Len(s)) : v[i] = IF i <= 1 THEN << g[x] >>[i] ELSE Mapped(g, s)[i - 1]
  BY <1>4, <1>5, ConcatProperties
<1>. HIDE DEF t
<1>7. u \in Seq(T) /\ Len(u) = Len(t) /\ \A i \in 1..Len(t) : u[i] = g[t[i]]
  BY <1>2, MappedType
<1>. HIDE DEF u, v
<1>8. ASSUME NEW i \in 1..(1 + Len(s)) PROVE u[i] = v[i]
  <2>1. CASE i = 1
    <3>1. t[1] = x /\ v[1] = g[x]
      BY <1>1, <1>2, <1>4, <1>6
    <3>. QED BY <1>2, <1>7, <2>1, <3>1
  <2>2. CASE i # 1
    <3>1. ~(i <= 1) /\ i - 1 \in 1..Len(s)
      BY <1>2, <2>2
    <3>2. t[i] = s[i - 1]
      BY <1>2, <3>1
    <3>3. v[i] = Mapped(g, s)[i - 1]
      BY <1>6, <3>1
    <3>4. Mapped(g, s)[i - 1] = g[s[i - 1]]
      BY <1>5, <3>1
    <3>5. u[i] = g[t[i]]
      BY <1>2, <1>7
    <3>. QED BY <3>2, <3>3, <3>4, <3>5
  <2>. QED BY <2>1, <2>2
<1>9. u = v
  BY <1>2, <1>6, <1>7, <1>8, SeqEqual
<1>. QED BY <1>9 DEF t, u, v, Before

LEMMA MappedAppend ==
  ASSUME NEW S, NEW T, NEW g, IsMap(g, S, T), NEW x \in S, NEW s \in Seq(S)
  PROVE  Mapped(g, Append(s, x)) = Append(Mapped(g, s), g[x])
<1>. DEFINE t == Append(s, x)
            u == Mapped(g, t)
            m == Mapped(g, s)
            v == Append(m, g[x])
<1>1. /\ t \in Seq(S) /\ Len(t) = Len(s) + 1 /\ Len(s) \in Nat
      /\ (\A i \in 1..Len(s) : t[i] = s[i]) /\ t[Len(s) + 1] = x
  BY AppendProperties, LenProperties
<1>2. m \in Seq(T) /\ Len(m) = Len(s) /\ \A i \in 1..Len(s) : m[i] = g[s[i]]
  BY MappedType
<1>. HIDE DEF t, m
<1>3. u \in Seq(T) /\ Len(u) = Len(t) /\ \A i \in 1..Len(t) : u[i] = g[t[i]]
  BY <1>1, MappedType
<1>4. /\ v \in Seq(T) /\ Len(v) = Len(m) + 1
      /\ (\A i \in 1..Len(m) : v[i] = m[i]) /\ v[Len(m) + 1] = g[x]
  <2>1. g[x] \in T
    BY DEF IsMap
  <2>. QED BY <1>2, <2>1, AppendProperties
<1>. HIDE DEF u, v
<1>5. ASSUME NEW i \in 1..Len(u) PROVE u[i] = v[i]
  BY <1>1, <1>2, <1>3, <1>4
<1>6. u = v
  BY <1>1, <1>2, <1>3, <1>4, <1>5, SeqEqual
<1>. QED BY <1>6 DEF t, u, m, v

-----------------------------------------------------------------------------
(* Bytes, their escapes and their digits                                     *)

LEMMA ByteNat == Byte \subseteq Nat /\ \A k \in Nat : k < 256 => k \in Byte
BY DEF Byte

LEMMA ToggleBack ==
  ASSUME NEW b \in Byte PROVE Toggle(b) \in Byte /\ Toggle(Toggle(b)) = b
<1>1. 64 \in Byte /\ b \in Nat /\ 64 \in Nat
  BY ByteNat
<1>2. Xor(b, 64) \in Byte
  BY <1>1, XorWidths
<1>3. Xor(Xor(b, 64), 64) = b
  BY <1>1, XorTwice
<1>. QED BY <1>2, <1>3 DEF Toggle

\* Six bits stay.
LEMMA ToggleLow ==
  ASSUME NEW b \in Byte PROVE Toggle(b) % 64 = b % 64
<1>. DEFINE q == b \div 64
            r == b % 64
            y == Xor(q, 1)
<1>1. b \in Nat
  BY ByteNat
<1>2. q \in Nat /\ r \in Nat /\ r < 64 /\ b = 64 * q + r /\ r \in Under(64) /\ 0 \in Under(64)
  BY <1>1 DEF Under
<1>3. y \in Nat
  BY <1>2, XorStep
<1>. HIDE DEF q, r
<1>4. Xor(64 * q + r, 64 * 1 + 0) = 64 * y + Xor(r, 0)
  BY <1>2, SplitsAt DEF Splits
<1>5. Xor(r, 0) = r /\ 64 * 1 + 0 = 64
  BY <1>2, XorNothing
<1>. HIDE DEF y
<1>6. Toggle(b) = 64 * y + r
  BY <1>2, <1>4, <1>5 DEF Toggle
<1>7. (64 * y + r) % 64 = r
  BY <1>2, <1>3
<1>. QED BY <1>6, <1>7 DEF r

\* No escaped byte looks like a terminator.
LEMMA ToggledNoTerm ==
  ASSUME NEW b \in Byte, MustEscape(b) PROVE Toggle(b) \notin Terms
<1>1. b % 64 \in {17, 19, 24, 63}
  BY DEF MustEscape, ZDLE
<1>2. \A t \in Terms : t % 64 \in {40, 41, 42, 43}
  BY DEF Terms, ZCRCE, ZCRCG, ZCRCQ, ZCRCW
<1>. QED BY <1>1, <1>2, ToggleLow

LEMMA TermsAreBytes ==
  /\ Terms \subseteq Byte /\ ZDLE \in Byte /\ ZDLE \notin Terms /\ MustEscape(ZDLE)
  /\ 13 \in Byte /\ 10 \in Byte /\ 42 \in Byte /\ 42 # ZDLE
  /\ \A f \in DOMAIN Forms : Forms[f] \in Byte
  /\ \A f, g \in DOMAIN Forms : Forms[f] = Forms[g] => f = g
  /\ DOMAIN Forms = {"hex", "bin16", "bin32"}
BY ByteNat DEF Terms, ZCRCE, ZCRCG, ZCRCQ, ZCRCW, ZDLE, Forms, MustEscape

Escaped(b) == IF MustEscape(b) THEN << ZDLE, Toggle(b) >> ELSE << b >>
Escape     == [b \in Byte |-> Escaped(b)]

LEMMA EscapeType == IsMap(Escape, Byte, Seq(Byte)) /\ \A b \in Byte : Escape[b] = Escaped(b)
<1>1. ASSUME NEW b \in Byte PROVE Escaped(b) \in Seq(Byte)
  BY ToggleBack, TermsAreBytes DEF Escaped
<1>. QED BY <1>1 DEF Escape, IsMap

LEMMA EncodeMaps ==
  ASSUME NEW data \in Seq(Byte) PROVE ZdleEncode(data) = FlattenSeq(Mapped(Escape, data))
<1>1. \A i \in 1..Len(data) : data[i] \in Byte
  BY ElementOfSeq
<1>2. [i \in 1..Len(data) |-> IF MustEscape(data[i]) THEN << ZDLE, Toggle(data[i]) >>
                                                     ELSE << data[i] >>]
        = [i \in 1..Len(data) |-> Escape[data[i]]]
  BY <1>1 DEF Escape, Escaped
<1>. QED BY <1>2 DEF ZdleEncode, Mapped

LEMMA EncodeType ==
  ASSUME NEW data \in Seq(Byte) PROVE ZdleEncode(data) \in Seq(Byte)
<1>1. Mapped(Escape, data) \in Seq(Seq(Byte))
  BY EscapeType, MappedType
<1>. QED BY <1>1, EncodeMaps, FlattenType

LEMMA EncodeEmpty == ZdleEncode(<<>>) = <<>>
<1>1. <<>> \in Seq(Byte)
  OBVIOUS
<1>. QED BY <1>1, EncodeMaps, MappedEmpty, FlattenEmpty

LEMMA EncodeFirst ==
  ASSUME NEW b \in Byte, NEW rest \in Seq(Byte)
  PROVE  ZdleEncode(<< b >> \o rest) = Escaped(b) \o ZdleEncode(rest)
<1>1. << b >> \o rest \in Seq(Byte)
  BY Front1
<1>2. ZdleEncode(<< b >> \o rest) = FlattenSeq(Mapped(Escape, << b >> \o rest))
  BY <1>1, EncodeMaps
<1>3. Mapped(Escape, << b >> \o rest) = << Escape[b] >> \o Mapped(Escape, rest)
  <2>1. Mapped(Escape, Before(b, rest)) = Before(Escape[b], Mapped(Escape, rest))
    BY EscapeType, MappedFirst
  <2>. QED BY <2>1 DEF Before
<1>4. Escape[b] \in Seq(Byte) /\ Mapped(Escape, rest) \in Seq(Seq(Byte))
  <2>1. Mapped(Escape, rest) \in Seq(Seq(Byte))
    BY EscapeType, MappedType
  <2>2. Escape[b] \in Seq(Byte)
    BY EscapeType DEF IsMap
  <2>. QED BY <2>1, <2>2
<1>5. FlattenSeq(<< Escape[b] >> \o Mapped(Escape, rest)) = Escape[b] \o FlattenSeq(Mapped(Escape, rest))
  BY <1>4, FlattenFirst
<1>. QED BY <1>2, <1>3, <1>5, EncodeMaps, EscapeType

-----------------------------------------------------------------------------
(* CRCs as bytes                                                             *)

LEMMA HalfBytes ==
  ASSUME NEW c \in Halves PROVE c \div 256 \in Byte /\ c % 256 \in Byte
<1>1. c \in Nat /\ c < 65536
  BY HalvesUnder DEF Under, HalfRange
<1>2. c \div 256 \in Nat /\ c \div 256 < 256 /\ c % 256 \in Nat /\ c % 256 < 256
  BY <1>1
<1>. QED BY <1>2, ByteNat

LEMMA Bytes16Type ==
  ASSUME NEW c \in Halves PROVE Bytes16(c) \in Seq(Byte) /\ Len(Bytes16(c)) = 2
<1>1. c \div 256 \in Byte /\ c % 256 \in Byte
  BY HalfBytes
<1>2. \A x, y \in Byte : << x, y >> \in Seq(Byte) /\ Len(<< x, y >>) = 2
  OBVIOUS
<1>. QED BY <1>1, <1>2 DEF Bytes16

LEMMA Bytes32Type ==
  ASSUME NEW w \in Words PROVE Bytes32(w) \in Seq(Byte) /\ Len(Bytes32(w)) = 4
<1>1. /\ w.lo % 256 \in Byte /\ w.lo \div 256 \in Byte
      /\ w.hi % 256 \in Byte /\ w.hi \div 256 \in Byte
  BY WordParts, HalfBytes
<1>2. \A x, y, u, v \in Byte : << x, y, u, v >> \in Seq(Byte) /\ Len(<< x, y, u, v >>) = 4
  OBVIOUS
<1>. QED BY <1>1, <1>2 DEF Bytes32

LEMMA ConcatParts ==
  ASSUME NEW S, NEW r \in Seq(S), NEW s \in Seq(S)
  PROVE  /\ SubSeq(r \o s, 1, Len(r)) = r
         /\ SubSeq(r \o s, Len(r) + 1, Len(r) + Len(s)) = s
<1>. DEFINE t == r \o s
            u == SubSeq(t, 1, Len(r))
            v == SubSeq(t, Len(r) + 1, Len(r) + Len(s))
<1>1. /\ t \in Seq(S) /\ Len(t) = Len(r) + Len(s) /\ Len(r) \in Nat /\ Len(s) \in Nat
      /\ \A i \in 1..(Len(r) + Len(s)) : t[i] = IF i <= Len(r) THEN r[i] ELSE s[i - Len(r)]
      /\ \A i \in 1..Len(t) : t[i] \in S
  BY ConcatProperties, LenProperties, ElementOfSeq
<1>. HIDE DEF t
<1>2. /\ u \in Seq(S) /\ Len(u) = Len(r)
      /\ \A i \in 1..Len(r) : u[i] = t[i]
  <2>1. \A i \in 1..Len(r) : t[i] \in S
    BY <1>1
  <2>2. /\ u \in Seq(S) /\ Len(u) = IF 1 <= Len(r) THEN Len(r) - 1 + 1 ELSE 0
        /\ \A i \in 1..(Len(r) - 1 + 1) : u[i] = t[1 + i - 1]
    BY <1>1, <2>1, SubSeqProperties
  <2>. QED BY <1>1, <2>2
<1>3. /\ v \in Seq(S) /\ Len(v) = Len(s)
      /\ \A i \in 1..Len(s) : v[i] = t[Len(r) + i]
  <2>. DEFINE a == Len(r) + 1
              b == Len(r) + Len(s)
  <2>1. a \in Int /\ b \in Int /\ \A i \in a..b : t[i] \in S
    BY <1>1
  <2>2. /\ v \in Seq(S) /\ Len(v) = IF a <= b THEN b - a + 1 ELSE 0
        /\ \A i \in 1..(b - a + 1) : v[i] = t[a + i - 1]
    BY <2>1, SubSeqProperties
  <2>3. b - a + 1 = Len(s) /\ (~(a <= b) => Len(s) = 0)
    BY <1>1
  <2>4. \A i \in 1..Len(s) : a + i - 1 = Len(r) + i
    BY <1>1
  <2>. QED BY <2>2, <2>3, <2>4
<1>. HIDE DEF u, v
<1>4. u = r
  <2>1. \A i \in 1..Len(r) : u[i] = r[i]
    BY <1>1, <1>2
  <2>. QED BY <1>2, <2>1, SeqEqual
<1>5. v = s
  <2>1. \A i \in 1..Len(s) : v[i] = s[i]
    <3>. SUFFICES ASSUME NEW i \in 1..Len(s) PROVE v[i] = s[i]
      OBVIOUS
    <3>1. Len(r) + i \in 1..(Len(r) + Len(s)) /\ ~(Len(r) + i <= Len(r))
          /\ (Len(r) + i) - Len(r) = i
      BY <1>1
    <3>. QED BY <1>1, <1>3, <3>1
  <2>. QED BY <1>3, <2>1, SeqEqual
<1>. QED BY <1>4, <1>5 DEF t, u, v

-----------------------------------------------------------------------------
(* Hexadecimal digits                                                        *)

LEMMA DigitBack ==
  ASSUME NEW d \in Nat, d < 16
  PROVE  /\ Digit(d) \in Byte /\ IsDigit(Digit(d)) /\ ValueOf(Digit(d)) = d
         /\ Digit(d) \notin {13, 10, 141}
<1>1. Digit(d) \in Nat /\ Digit(d) < 256
  BY DEF Digit
<1>2. CASE d < 10
  BY <1>1, <1>2, ByteNat DEF Digit, IsDigit, ValueOf
<1>3. CASE ~(d < 10)
  BY <1>1, <1>3, ByteNat DEF Digit, IsDigit, ValueOf
<1>. QED BY <1>2, <1>3

Nibbles(b) == << Digit(b \div 16), Digit(b % 16) >>
HexOf      == [b \in Byte |-> Nibbles(b)]

LEMMA NibblesOfByte ==
  ASSUME NEW b \in Byte
  PROVE  /\ b \div 16 \in Nat /\ b \div 16 < 16 /\ b % 16 \in Nat /\ b % 16 < 16
         /\ 16 * (b \div 16) + (b % 16) = b
<1>1. b \in Nat /\ b < 256
  BY DEF Byte
<1>. QED BY <1>1

LEMMA HexOfType ==
  /\ IsMap(HexOf, Byte, Seq(Byte))
  /\ \A b \in Byte : /\ HexOf[b] = Nibbles(b) /\ Nibbles(b) \in Seq(Byte) /\ Len(Nibbles(b)) = 2
                     /\ Nibbles(b)[1] = Digit(b \div 16) /\ Nibbles(b)[2] = Digit(b % 16)
<1>1. ASSUME NEW b \in Byte PROVE Digit(b \div 16) \in Byte /\ Digit(b % 16) \in Byte
  BY NibblesOfByte, DigitBack
<1>2. \A x, y \in Byte : /\ << x, y >> \in Seq(Byte) /\ Len(<< x, y >>) = 2
                         /\ << x, y >>[1] = x /\ << x, y >>[2] = y
  OBVIOUS
<1>3. \A b \in Byte : /\ Nibbles(b) \in Seq(Byte) /\ Len(Nibbles(b)) = 2
                      /\ Nibbles(b)[1] = Digit(b \div 16) /\ Nibbles(b)[2] = Digit(b % 16)
  BY <1>1, <1>2 DEF Nibbles
<1>. QED BY <1>3 DEF HexOf, IsMap

LEMMA HexMaps ==
  ASSUME NEW data \in Seq(Byte) PROVE Hex(data) = FlattenSeq(Mapped(HexOf, data))
<1>1. \A i \in 1..Len(data) : data[i] \in Byte
  BY ElementOfSeq
<1>2. [i \in 1..Len(data) |-> << Digit(data[i] \div 16), Digit(data[i] % 16) >>]
        = [i \in 1..Len(data) |-> HexOf[data[i]]]
  BY <1>1 DEF HexOf, Nibbles
<1>. QED BY <1>2 DEF Hex, Mapped

\* The digits at their places.
HexSpells(s) ==
  /\ Hex(s) \in Seq(Byte) /\ Len(Hex(s)) = 2 * Len(s)
  /\ \A i \in 1..Len(s) : /\ Hex(s)[2 * i - 1] = Digit(s[i] \div 16)
                          /\ Hex(s)[2 * i] = Digit(s[i] % 16)

LEMMA HexAppend ==
  ASSUME NEW s \in Seq(Byte), NEW x \in Byte
  PROVE  Hex(Append(s, x)) = Hex(s) \o Nibbles(x)
<1>1. Append(s, x) \in Seq(Byte)
  BY AppendProperties
<1>2. Mapped(HexOf, Append(s, x)) = Append(Mapped(HexOf, s), HexOf[x])
  BY HexOfType, MappedAppend
<1>3. Mapped(HexOf, s) \in Seq(Seq(Byte)) /\ HexOf[x] \in Seq(Byte) /\ HexOf[x] = Nibbles(x)
  <2>1. Mapped(HexOf, s) \in Seq(Seq(Byte))
    BY HexOfType, MappedType
  <2>. QED BY <2>1, HexOfType
<1>4. FlattenSeq(Append(Mapped(HexOf, s), HexOf[x])) = FlattenSeq(Mapped(HexOf, s)) \o HexOf[x]
  BY <1>3, FlattenAppend
<1>. QED BY <1>1, <1>2, <1>3, <1>4, HexMaps

LEMMA HexSpelled == \A s \in Seq(Byte) : HexSpells(s)
<1>. DEFINE P == {s \in Seq(Byte) : HexSpells(s)}
<1>1. <<>> \in P
  <2>1. <<>> \in Seq(Byte) /\ Len(<<>>) = 0
    OBVIOUS
  <2>2. Hex(<<>>) = <<>>
    BY <2>1, HexMaps, MappedEmpty, FlattenEmpty
  <2>3. 2 * 0 = 0 /\ 1..0 = {}
    OBVIOUS
  <2>4. HexSpells(<<>>)
    BY <2>1, <2>2, <2>3 DEF HexSpells
  <2>. QED BY <2>1, <2>4
<1>2. ASSUME NEW s \in Seq(Byte), s \in P, NEW x \in Byte PROVE Append(s, x) \in P
  <2>. DEFINE t == Append(s, x)
              h == Hex(s)
              k == Hex(t)
              q == Nibbles(x)
  <2>1. /\ t \in Seq(Byte) /\ Len(t) = Len(s) + 1 /\ Len(s) \in Nat
        /\ (\A i \in 1..Len(s) : t[i] = s[i]) /\ t[Len(s) + 1] = x
    BY AppendProperties, LenProperties
  <2>2. /\ h \in Seq(Byte) /\ Len(h) = 2 * Len(s)
        /\ \A i \in 1..Len(s) : h[2 * i - 1] = Digit(s[i] \div 16) /\ h[2 * i] = Digit(s[i] % 16)
    BY <1>2 DEF HexSpells
  <2>3. k = h \o q
    BY HexAppend
  <2>4. q \in Seq(Byte) /\ Len(q) = 2 /\ q[1] = Digit(x \div 16) /\ q[2] = Digit(x % 16)
    BY HexOfType
  <2>. HIDE DEF t, h, k, q
  <2>5. /\ k \in Seq(Byte) /\ Len(k) = Len(h) + 2
        /\ \A i \in 1..(Len(h) + 2) : k[i] = IF i <= Len(h) THEN h[i] ELSE q[i - Len(h)]
    <3>1. /\ k \in Seq(Byte) /\ Len(k) = Len(h) + Len(q)
          /\ \A i \in 1..(Len(h) + Len(q)) : k[i] = IF i <= Len(h) THEN h[i] ELSE q[i - Len(h)]
      BY <2>2, <2>3, <2>4, ConcatProperties, Zenon
    <3>. QED BY <2>4, <3>1
  <2>6. ASSUME NEW i \in 1..Len(t)
        PROVE  k[2 * i - 1] = Digit(t[i] \div 16) /\ k[2 * i] = Digit(t[i] % 16)
    <3>1. CASE i <= Len(s)
      <4>1. 2 * i - 1 \in 1..(Len(h) + 2) /\ 2 * i \in 1..(Len(h) + 2)
            /\ 2 * i - 1 <= Len(h) /\ 2 * i <= Len(h) /\ i \in 1..Len(s)
        BY <2>1, <2>2, <3>1
      <4>2. k[2 * i - 1] = h[2 * i - 1] /\ k[2 * i] = h[2 * i]
        BY <2>5, <4>1
      <4>. QED BY <2>1, <2>2, <4>1, <4>2
    <3>2. CASE ~(i <= Len(s))
      <4>1. i = Len(s) + 1 /\ t[i] = x
        BY <2>1, <3>2
      <4>2. 2 * i - 1 = Len(h) + 1 /\ 2 * i = Len(h) + 2
        BY <2>1, <2>2, <4>1
      <4>3. k[Len(h) + 1] = q[1] /\ k[Len(h) + 2] = q[2]
        <5>. DEFINE m == Len(h)
        <5>1. /\ m + 1 \in 1..(m + 2) /\ ~(m + 1 <= m) /\ (m + 1) - m = 1
              /\ m + 2 \in 1..(m + 2) /\ ~(m + 2 <= m) /\ (m + 2) - m = 2
          BY <2>1, <2>2
        <5>. QED BY <2>5, <5>1
      <4>. QED BY <2>4, <4>1, <4>2, <4>3
    <3>. QED BY <3>1, <3>2
  <2>7. Len(k) = 2 * Len(t)
    BY <2>1, <2>2, <2>5
  <2>8. HexSpells(t)
    BY <2>5, <2>6, <2>7 DEF HexSpells, k
  <2>. QED BY <2>1, <2>8 DEF t
<1>3. Seq(Byte) \subseteq P
  <2>. HIDE DEF P
  <2>. QED BY <1>1, <1>2, SeqInduction
<1>. QED BY <1>3

LEMMA HexDigits ==
  ASSUME NEW s \in Seq(Byte)
  PROVE  /\ Hex(s) \in Seq(Byte) /\ Len(Hex(s)) = 2 * Len(s)
         /\ \A k \in 1..(2 * Len(s)) : IsDigit(Hex(s)[k]) /\ Hex(s)[k] \notin {13, 10, 141}
<1>1. HexSpells(s) /\ Len(s) \in Nat /\ \A i \in 1..Len(s) : s[i] \in Byte
  BY HexSpelled, LenProperties, ElementOfSeq
<1>2. ASSUME NEW k \in 1..(2 * Len(s))
      PROVE  IsDigit(Hex(s)[k]) /\ Hex(s)[k] \notin {13, 10, 141}
  <2>1. PICK i \in 1..Len(s) : k = 2 * i - 1 \/ k = 2 * i
    <3>1. (k + 1) \div 2 \in 1..Len(s)
          /\ (k = 2 * ((k + 1) \div 2) - 1 \/ k = 2 * ((k + 1) \div 2))
      BY <1>1
    <3>. QED BY <3>1
  <2>2. s[i] \in Byte
    BY <1>1
  <2>3. Hex(s)[k] = Digit(s[i] \div 16) \/ Hex(s)[k] = Digit(s[i] % 16)
    BY <1>1, <2>1 DEF HexSpells
  <2>4. /\ s[i] \div 16 \in Nat /\ s[i] \div 16 < 16
        /\ s[i] % 16 \in Nat /\ s[i] % 16 < 16
    BY <2>2, NibblesOfByte
  <2>5. \A d \in Nat : d < 16 => IsDigit(Digit(d)) /\ Digit(d) \notin {13, 10, 141}
    BY DigitBack
  <2>. QED BY <2>3, <2>4, <2>5
<1>. QED BY <1>1, <1>2 DEF HexSpells

\* The bytes after the a-th, up to the b-th, have the digits from i1 to i2.
Spans(s, a, b, j, i1, i2) ==
  /\ s \in Seq(Byte) /\ a \in Nat /\ b \in Nat /\ a <= b /\ b <= Len(s)
  /\ j = a + 1 /\ i1 = 2 * a + 1 /\ i2 = 2 * b

LEMMA PairsBack ==
  ASSUME NEW s, NEW a, NEW b, NEW j, NEW i1, NEW i2, Spans(s, a, b, j, i1, i2)
  PROVE  Pairs(SubSeq(Hex(s), i1, i2)) = SubSeq(s, j, b)
<1>0. /\ s \in Seq(Byte) /\ a \in Nat /\ b \in Nat /\ a <= b /\ b <= Len(s)
      /\ j = a + 1 /\ i1 = 2 * a + 1 /\ i2 = 2 * b
  BY DEF Spans
<1>. DEFINE h == Hex(s)
            u == SubSeq(h, i1, i2)
            v == SubSeq(s, a + 1, b)
            p == Pairs(u)
<1>1. HexSpells(s) /\ Len(s) \in Nat /\ \A i \in 1..Len(s) : s[i] \in Byte
  BY <1>0, HexSpelled, LenProperties, ElementOfSeq
<1>2. /\ h \in Seq(Byte) /\ Len(h) = 2 * Len(s) /\ \A i \in 1..Len(h) : h[i] \in Byte
      /\ \A i \in 1..Len(s) : h[2 * i - 1] = Digit(s[i] \div 16) /\ h[2 * i] = Digit(s[i] % 16)
  BY <1>1, ElementOfSeq DEF HexSpells
<1>. HIDE DEF h
<1>3. Len(u) = 2 * (b - a) /\ \A i \in 1..(2 * (b - a)) : u[i] = h[2 * a + i]
  <2>1. i1 \in Int /\ i2 \in Int /\ \A i \in i1..i2 : h[i] \in Byte
    BY <1>0, <1>1, <1>2
  <2>2. /\ Len(u) = IF i1 <= i2 THEN i2 - i1 + 1 ELSE 0
        /\ \A i \in 1..(i2 - i1 + 1) : u[i] = h[i1 + i - 1]
    BY <2>1, SubSeqProperties
  <2>3. i2 - i1 + 1 = 2 * (b - a) /\ (~(i1 <= i2) => 2 * (b - a) = 0)
        /\ \A i \in Nat : i1 + i - 1 = 2 * a + i
    BY <1>0, <1>1
  <2>. HIDE DEF u
  <2>4. Len(u) = 2 * (b - a)
    BY <2>2, <2>3
  <2>5. ASSUME NEW i \in 1..(2 * (b - a)) PROVE u[i] = h[2 * a + i]
    <3>1. i \in 1..(i2 - i1 + 1) /\ i \in Nat
      BY <1>0, <2>3
    <3>2. u[i] = h[i1 + i - 1]
      BY <2>2, <3>1
    <3>. QED BY <2>3, <3>1, <3>2
  <2>. QED BY <2>4, <2>5
<1>4. v \in Seq(Byte) /\ Len(v) = b - a /\ \A i \in 1..(b - a) : v[i] = s[a + i]
  <2>1. a + 1 \in Int /\ b \in Int /\ \A i \in (a + 1)..b : s[i] \in Byte
    BY <1>0, <1>1
  <2>2. /\ v \in Seq(Byte) /\ Len(v) = IF a + 1 <= b THEN b - (a + 1) + 1 ELSE 0
        /\ \A i \in 1..(b - (a + 1) + 1) : v[i] = s[(a + 1) + i - 1]
    BY <2>1, SubSeqProperties
  <2>3. b - (a + 1) + 1 = b - a /\ (~(a + 1 <= b) => b - a = 0)
    BY <1>0
  <2>4. ASSUME NEW i \in 1..(b - a) PROVE v[i] = s[a + i]
    <3>1. i \in 1..(b - (a + 1) + 1) /\ (a + 1) + i - 1 = a + i
      BY <1>0
    <3>. QED BY <2>2, <3>1
  <2>5. Len(v) = b - a
    BY <2>2, <2>3
  <2>. QED BY <2>2, <2>4, <2>5
<1>. HIDE DEF u, v
<1>5. p = [i \in 1..(b - a) |-> 16 * ValueOf(u[2 * i - 1]) + ValueOf(u[2 * i])]
  <2>1. Len(u) \div 2 = b - a
    BY <1>0, <1>3
  <2>. QED BY <2>1 DEF Pairs
<1>6. ASSUME NEW i \in 1..(b - a)
      PROVE  16 * ValueOf(u[2 * i - 1]) + ValueOf(u[2 * i]) = s[a + i]
  <2>. DEFINE x == s[a + i]
  <2>1. a + i \in 1..Len(s) /\ 2 * i - 1 \in 1..(2 * (b - a)) /\ 2 * i \in 1..(2 * (b - a))
        /\ 2 * a + (2 * i - 1) = 2 * (a + i) - 1 /\ 2 * a + 2 * i = 2 * (a + i)
    BY <1>0, <1>1
  <2>2. x \in Byte /\ u[2 * i - 1] = Digit(x \div 16) /\ u[2 * i] = Digit(x % 16)
    BY <1>0, <1>1, <1>2, <1>3, <2>1
  <2>. HIDE DEF x
  <2>3. ValueOf(Digit(x \div 16)) = x \div 16 /\ ValueOf(Digit(x % 16)) = x % 16
    BY <2>2, NibblesOfByte, DigitBack
  <2>4. 16 * (x \div 16) + (x % 16) = x
    BY <2>2, NibblesOfByte
  <2>. QED BY <2>2, <2>3, <2>4 DEF x
<1>7. p = [i \in 1..(b - a) |-> s[a + i]]
  BY <1>0, <1>5, <1>6
<1>8. v = [i \in 1..(b - a) |-> s[a + i]]
  <2>1. v \in [1..Len(v) -> Byte]
    BY <1>4, LenProperties
  <2>. QED BY <1>0, <1>4, <2>1
<1>. QED BY <1>0, <1>7, <1>8 DEF u, v, h

-----------------------------------------------------------------------------
(* What is written                                                           *)

LEMMA ItemParts ==
  ASSUME NEW it \in Items
  PROVE  /\ it.form \in DOMAIN Forms \cup {"sub"} /\ it.bytes \in Seq(Byte)
         /\ it = [form |-> it.form, bytes |-> it.bytes]
         /\ it.form = "sub" => it.bytes # <<>> /\ Last(it.bytes) \in Terms
         /\ it.form # "sub" => Len(it.bytes) = 5
BY DEF Items

\* A header's CRC, and the header with it.
CrcBytes(it) == IF it.form = "bin32" THEN Bytes32(crc32(it.bytes)) ELSE Bytes16(crc16(it.bytes))
Checked(it)  == it.bytes \o CrcBytes(it)
Size(it)     == IF it.form = "bin32" THEN 9 ELSE 7

LEMMA CheckedParts ==
  ASSUME NEW it \in Items, it.form # "sub"
  PROVE  /\ CrcBytes(it) \in Seq(Byte) /\ Checked(it) \in Seq(Byte) /\ Len(Checked(it)) = Size(it)
         /\ SubSeq(Checked(it), 1, 5) = it.bytes
         /\ SubSeq(Checked(it), 6, Size(it)) = CrcBytes(it)
<1>1. it.bytes \in Seq(Byte) /\ Len(it.bytes) = 5
  BY ItemParts
<1>2. CrcBytes(it) \in Seq(Byte) /\ Len(CrcBytes(it)) = IF it.form = "bin32" THEN 4 ELSE 2
  <2>1. crc16(it.bytes) \in Halves /\ crc32(it.bytes) \in Words
    BY <1>1, Crc16Type, Crc32Type
  <2>. QED BY <2>1, Bytes16Type, Bytes32Type DEF CrcBytes
<1>. DEFINE c == CrcBytes(it)
            d == it.bytes
<1>. HIDE DEF c, d
<1>3. /\ d \o c \in Seq(Byte) /\ Len(d \o c) = Len(d) + Len(c)
      /\ SubSeq(d \o c, 1, Len(d)) = d /\ SubSeq(d \o c, Len(d) + 1, Len(d) + Len(c)) = c
  BY <1>1, <1>2, ConcatProperties, ConcatParts DEF c, d
<1>4. Len(d) = 5 /\ Len(d) + 1 = 6 /\ Len(d) + Len(c) = Size(it)
  BY <1>1, <1>2 DEF c, d, Size
<1>. QED BY <1>2, <1>3, <1>4 DEF Checked, c, d

\* Bytes one after the other.
LEMMA Two ==
  ASSUME NEW S, NEW a \in S, NEW b \in S
  PROVE  /\ << a, b >> \in Seq(S)
         /\ << a, b >> = << a >> \o << b >>
<1>. DEFINE s == << a, b >>
<1>1. s \in Seq(S) /\ s # <<>> /\ Head(s) = a /\ Tail(s) = << b >>
  OBVIOUS
<1>. HIDE DEF s
<1>2. s = << Head(s) >> \o Tail(s)
  BY <1>1, HeadAndTail
<1>. QED BY <1>1, <1>2 DEF s

LEMMA Three ==
  ASSUME NEW S, NEW a \in S, NEW b \in S, NEW c \in S
  PROVE  /\ << a, b, c >> \in Seq(S)
         /\ << a, b, c >> = << a >> \o << b, c >>
<1>. DEFINE s == << a, b, c >>
<1>1. s \in Seq(S) /\ s # <<>> /\ Head(s) = a /\ Tail(s) = << b, c >>
  OBVIOUS
<1>. HIDE DEF s
<1>2. s = << Head(s) >> \o Tail(s)
  BY <1>1, HeadAndTail
<1>. QED BY <1>1, <1>2 DEF s

LEMMA TwoBefore ==
  ASSUME NEW S, NEW a \in S, NEW b \in S, NEW s \in Seq(S)
  PROVE  << a, b >> \o s = Before(a, Before(b, s))
<1>1. << a >> \in Seq(S) /\ << b >> \in Seq(S)
  OBVIOUS
<1>2. << a, b >> = << a >> \o << b >>
  BY Two
<1>3. << a, b >> \o s = << a >> \o (<< b >> \o s)
  BY <1>1, <1>2, ConcatAssociative
<1>. QED BY <1>3 DEF Before

LEMMA ThreeBefore ==
  ASSUME NEW S, NEW a \in S, NEW b \in S, NEW c \in S, NEW s \in Seq(S)
  PROVE  << a, b, c >> \o s = Before(a, Before(b, Before(c, s)))
<1>1. << a >> \in Seq(S) /\ << b, c >> \in Seq(S)
  OBVIOUS
<1>2. << a, b, c >> = << a >> \o << b, c >>
  BY Three
<1>3. (<< a >> \o << b, c >>) \o s = << a >> \o (<< b, c >> \o s)
  BY <1>1, ConcatAssociative
<1>4. << b, c >> \o s = Before(b, Before(c, s))
  BY TwoBefore
<1>. QED BY <1>2, <1>3, <1>4 DEF Before

LEMMA FourBefore ==
  ASSUME NEW S, NEW a \in S, NEW b \in S, NEW c \in S, NEW d \in S, NEW s \in Seq(S)
  PROVE  << a, b, c, d >> \o s = Before(a, Before(b, Before(c, Before(d, s))))
<1>. DEFINE t == << a, b, c, d >>
<1>1. << a >> \in Seq(S) /\ << b, c, d >> \in Seq(S)
  OBVIOUS
<1>2. t = << a >> \o << b, c, d >>
  <2>1. t \in Seq(S) /\ t # <<>> /\ Head(t) = a /\ Tail(t) = << b, c, d >>
    OBVIOUS
  <2>. HIDE DEF t
  <2>2. t = << Head(t) >> \o Tail(t)
    BY <2>1, HeadAndTail
  <2>. QED BY <2>1, <2>2
<1>3. (<< a >> \o << b, c, d >>) \o s = << a >> \o (<< b, c, d >> \o s)
  BY <1>1, ConcatAssociative
<1>4. << b, c, d >> \o s = Before(b, Before(c, Before(d, s)))
  BY ThreeBefore
<1>. QED BY <1>2, <1>3, <1>4 DEF Before

\* A header with T behind it, from its digits or bytes on; from its ZDLE on; and
\* from the k-th "*" before that on.
BodyWire(it, T) ==
  IF it.form = "hex" THEN Hex(Checked(it)) \o (Before(13, Before(10, T)))
                     ELSE ZdleEncode(Checked(it)) \o T
FormWire(it, T) == Before(Forms[it.form], BodyWire(it, T))
Marked(it, T)   == Before(ZDLE, FormWire(it, T))
Stars(k, T)     == IF k = 0 THEN T ELSE IF k = 1 THEN Before(42, T) ELSE Before(42, Before(42, T))
StarsOf(it)     == IF it.form = "hex" THEN 2 ELSE 1

\* The end of a subpacket: from its ZDLE on, from the terminator on, and from
\* the CRC on.
CheckOf(it)       == Bytes32(crc32(it.bytes))
CheckWire(it, T)  == ZdleEncode(CheckOf(it)) \o T
TermWire(it, T)   == Before(Last(it.bytes), CheckWire(it, T))
EndWire(it, T)    == Before(ZDLE, TermWire(it, T))

LEMMA WireTypes ==
  ASSUME NEW it \in Items, NEW T \in Seq(Byte)
  PROVE  /\ it.form # "sub" => /\ BodyWire(it, T) \in Seq(Byte) /\ FormWire(it, T) \in Seq(Byte)
                               /\ Marked(it, T) \in Seq(Byte) /\ Forms[it.form] \in Byte
         /\ CheckOf(it) \in Seq(Byte) /\ Len(CheckOf(it)) = 4
         /\ CheckWire(it, T) \in Seq(Byte)
         /\ it.form = "sub" => /\ TermWire(it, T) \in Seq(Byte) /\ EndWire(it, T) \in Seq(Byte)
                               /\ Last(it.bytes) \in Byte
<1>1. it.bytes \in Seq(Byte)
  BY ItemParts
<1>2. \A b \in Byte : \A s \in Seq(Byte) : Before(b, s) \in Seq(Byte)
  BY BeforeParts
<1>3. CheckOf(it) \in Seq(Byte) /\ Len(CheckOf(it)) = 4
  <2>1. crc32(it.bytes) \in Words
    BY <1>1, Crc32Type
  <2>. QED BY <2>1, Bytes32Type DEF CheckOf
<1>4. CheckWire(it, T) \in Seq(Byte)
  <2>1. ZdleEncode(CheckOf(it)) \in Seq(Byte)
    BY <1>3, EncodeType
  <2>. QED BY <2>1, ConcatProperties DEF CheckWire
<1>5. ASSUME it.form = "sub"
      PROVE  TermWire(it, T) \in Seq(Byte) /\ EndWire(it, T) \in Seq(Byte) /\ Last(it.bytes) \in Byte
  <2>1. Last(it.bytes) \in Byte /\ ZDLE \in Byte
    BY <1>5, ItemParts, TermsAreBytes
  <2>2. TermWire(it, T) \in Seq(Byte)
    BY <1>2, <1>4, <2>1 DEF TermWire
  <2>. QED BY <1>2, <2>1, <2>2 DEF EndWire
<1>6. ASSUME it.form # "sub"
      PROVE  /\ BodyWire(it, T) \in Seq(Byte) /\ FormWire(it, T) \in Seq(Byte)
             /\ Marked(it, T) \in Seq(Byte) /\ Forms[it.form] \in Byte
  <2>1. Forms[it.form] \in Byte /\ ZDLE \in Byte /\ 13 \in Byte /\ 10 \in Byte
    BY <1>6, ItemParts, TermsAreBytes
  <2>2. Checked(it) \in Seq(Byte)
    BY <1>6, CheckedParts
  <2>3. Hex(Checked(it)) \in Seq(Byte) /\ ZdleEncode(Checked(it)) \in Seq(Byte)
    BY <2>2, HexDigits, EncodeType
  <2>4. Before(13, Before(10, T)) \in Seq(Byte)
    BY <1>2, <2>1
  <2>5. BodyWire(it, T) \in Seq(Byte)
    BY <2>3, <2>4, ConcatProperties DEF BodyWire
  <2>6. FormWire(it, T) \in Seq(Byte)
    BY <1>2, <2>1, <2>5 DEF FormWire
  <2>. QED BY <1>2, <2>1, <2>5, <2>6 DEF Marked
<1>. QED BY <1>3, <1>4, <1>5, <1>6

LEMMA EncodedHeader ==
  ASSUME NEW it \in Items, it.form # "sub", NEW T \in Seq(Byte)
  PROVE  Encoded(it) \in Seq(Byte) /\ Encoded(it) \o T = Stars(StarsOf(it), Marked(it, T))
<1>. DEFINE d == Checked(it)
            f == Forms[it.form]
<1>1. f \in Byte /\ ZDLE \in Byte /\ 13 \in Byte /\ 10 \in Byte /\ 42 \in Byte
  BY ItemParts, TermsAreBytes
<1>2. d \in Seq(Byte) /\ Hex(d) \in Seq(Byte) /\ ZdleEncode(d) \in Seq(Byte)
  <2>1. d \in Seq(Byte)
    BY CheckedParts
  <2>. HIDE DEF d
  <2>. QED BY <2>1, HexDigits, EncodeType
<1>3. /\ << 42, ZDLE, f >> \in Seq(Byte) /\ << 42, 42, ZDLE, f >> \in Seq(Byte)
      /\ << 13, 10 >> \in Seq(Byte)
  <2>. HIDE DEF f
  <2>. QED BY <1>1
<1>4. CASE it.form = "hex"
  <2>. DEFINE u == << 42, 42, ZDLE, f >>
              v == << 13, 10 >>
  <2>1. Encoded(it) = (u \o Hex(d)) \o v
    BY <1>4 DEF Encoded, BuildHexHeader, Checked, CrcBytes
  <2>2. u \in Seq(Byte) /\ v \in Seq(Byte)
    BY <1>3
  <2>3. v \o T = Before(13, Before(10, T))
    BY <1>1, TwoBefore
  <2>4. ASSUME NEW s \in Seq(Byte) PROVE u \o s = Before(42, Before(42, Before(ZDLE, Before(f, s))))
    <3>. HIDE DEF f
    <3>. QED BY <1>1, FourBefore
  <2>. HIDE DEF u, v, d, f
  <2>5. u \o Hex(d) \in Seq(Byte) /\ v \o T \in Seq(Byte) /\ Hex(d) \o (v \o T) \in Seq(Byte)
    BY <1>2, <2>2, ConcatProperties
  <2>6. Encoded(it) \in Seq(Byte)
    BY <2>1, <2>2, <2>5, ConcatProperties
  <2>7. Encoded(it) \o T = (u \o Hex(d)) \o (v \o T)
    BY <2>1, <2>2, <2>5, ConcatAssociative
  <2>8. (u \o Hex(d)) \o (v \o T) = u \o (Hex(d) \o (v \o T))
    <3>. DEFINE y == v \o T
                x == Hex(d)
    <3>1. u \in Seq(Byte) /\ x \in Seq(Byte) /\ y \in Seq(Byte)
      BY <1>2, <2>2, <2>5
    <3>. HIDE DEF x, y
    <3>2. (u \o x) \o y = u \o (x \o y)
      BY <3>1, ConcatAssociative
    <3>. QED BY <3>2 DEF x, y
  <2>9. Encoded(it) \o T
          = Before(42, Before(42, Before(ZDLE, Before(f, Hex(d) \o (v \o T)))))
    BY <2>4, <2>5, <2>7, <2>8
  <2>10. Marked(it, T) = Before(ZDLE, Before(f, Hex(d) \o (v \o T)))
    BY <1>4, <2>3 DEF Marked, FormWire, BodyWire, d, f
  <2>. QED BY <1>4, <2>6, <2>9, <2>10 DEF Stars, StarsOf
<1>5. CASE it.form # "hex"
  <2>. DEFINE u == << 42, ZDLE, f >>
  <2>1. Encoded(it) = u \o ZdleEncode(d)
    <3>1. it.form \in {"bin16", "bin32"}
      BY <1>5, ItemParts, TermsAreBytes
    <3>. QED BY <3>1 DEF Encoded, BuildBin16Header, BuildBin32Header, Checked, CrcBytes
  <2>2. u \in Seq(Byte)
    BY <1>3
  <2>4. ASSUME NEW s \in Seq(Byte) PROVE u \o s = Before(42, Before(ZDLE, Before(f, s)))
    <3>. HIDE DEF f
    <3>. QED BY <1>1, ThreeBefore
  <2>. HIDE DEF u, d, f
  <2>5. ZdleEncode(d) \o T \in Seq(Byte)
    BY <1>2, ConcatProperties
  <2>6. Encoded(it) \in Seq(Byte)
    BY <1>2, <2>1, <2>2, ConcatProperties
  <2>7. Encoded(it) \o T = u \o (ZdleEncode(d) \o T)
    BY <1>2, <2>1, <2>2, ConcatAssociative
  <2>10. Marked(it, T) = Before(ZDLE, Before(f, ZdleEncode(d) \o T))
    BY <1>5 DEF Marked, FormWire, BodyWire, d, f
  <2>9. u \o (ZdleEncode(d) \o T) = Before(42, Before(ZDLE, Before(f, ZdleEncode(d) \o T)))
    BY <2>4, <2>5
  <2>. QED BY <1>5, <2>6, <2>7, <2>9, <2>10 DEF Stars, StarsOf
<1>. QED BY <1>4, <1>5

LEMMA FrontAndLast ==
  ASSUME NEW S, NEW s \in Seq(S), s # <<>>
  PROVE  Front(s) \in Seq(S) /\ Last(s) \in S /\ Append(Front(s), Last(s)) = s
<1>1. PICK t \in Seq(S), x \in S : s = Append(t, x)
  BY SequenceEmptyOrAppend
<1>2. Len(s) = Len(t) + 1 /\ Len(t) \in Nat /\ s[Len(t) + 1] = x
  BY <1>1, AppendProperties, LenProperties
<1>3. Last(s) = x
  BY <1>2 DEF Last
<1>4. SubSeq(s, 1, Len(t)) = t
  <2>1. << x >> \in Seq(S)
    OBVIOUS
  <2>2. s = t \o << x >>
    BY <1>1, AppendIsConcat
  <2>. QED BY <2>1, <2>2, ConcatParts
<1>5. Len(s) - 1 = Len(t)
  BY <1>2
<1>6. Front(s) = t
  BY <1>4, <1>5 DEF Front
<1>. QED BY <1>1, <1>3, <1>6

LEMMA EncodedSub ==
  ASSUME NEW it \in Items, it.form = "sub", NEW T \in Seq(Byte)
  PROVE  /\ Encoded(it) \in Seq(Byte)
         /\ Encoded(it) \o T = ZdleEncode(Front(it.bytes)) \o EndWire(it, T)
<1>. DEFINE d == ZdleEncode(Front(it.bytes))
            l == Last(it.bytes)
            u == << ZDLE, l >>
            c == ZdleEncode(CheckOf(it))
<1>1. l \in Byte /\ ZDLE \in Byte /\ u \in Seq(Byte) /\ it.bytes \in Seq(Byte) /\ it.bytes # <<>>
  <2>1. l \in Byte /\ ZDLE \in Byte
    BY ItemParts, TermsAreBytes
  <2>. HIDE DEF l
  <2>2. u \in Seq(Byte)
    BY <2>1
  <2>. QED BY <2>1, <2>2, ItemParts
<1>2. d \in Seq(Byte) /\ c \in Seq(Byte)
  <2>1. Front(it.bytes) \in Seq(Byte) /\ CheckOf(it) \in Seq(Byte)
    BY <1>1, FrontAndLast, WireTypes
  <2>. QED BY <2>1, EncodeType
<1>3. Encoded(it) = (d \o u) \o c
  BY DEF Encoded, DataSubpacket, CheckOf
<1>4. ASSUME NEW s \in Seq(Byte) PROVE u \o s = Before(ZDLE, Before(l, s))
  <2>. HIDE DEF l
  <2>. QED BY <1>1, TwoBefore
<1>. HIDE DEF d, u, c
<1>5. d \o u \in Seq(Byte) /\ c \o T \in Seq(Byte)
  BY <1>1, <1>2, ConcatProperties
<1>6. Encoded(it) \in Seq(Byte)
  BY <1>2, <1>3, <1>5, ConcatProperties
<1>7. Encoded(it) \o T = (d \o u) \o (c \o T)
  BY <1>2, <1>3, <1>5, ConcatAssociative
<1>8. (d \o u) \o (c \o T) = d \o (u \o (c \o T))
  <2>. DEFINE y == c \o T
  <2>1. d \in Seq(Byte) /\ u \in Seq(Byte) /\ y \in Seq(Byte)
    BY <1>1, <1>2, <1>5
  <2>. HIDE DEF y
  <2>2. (d \o u) \o y = d \o (u \o y)
    BY <2>1, ConcatAssociative
  <2>. QED BY <2>2 DEF y
<1>9. EndWire(it, T) = u \o (c \o T)
  BY <1>4, <1>5 DEF EndWire, TermWire, CheckWire, c
<1>. QED BY <1>6, <1>7, <1>8, <1>9 DEF d

Encoding    == [it \in Items |-> Encoded(it)]
Flow(todo)  == FlattenSeq(Mapped(Encoding, todo))

LEMMA EncodingType == IsMap(Encoding, Items, Seq(Byte)) /\ \A it \in Items : Encoding[it] = Encoded(it)
<1>1. <<>> \in Seq(Byte)
  OBVIOUS
<1>2. \A it \in Items : Encoded(it) \in Seq(Byte)
  BY <1>1, EncodedHeader, EncodedSub
<1>. QED BY <1>2 DEF Encoding, IsMap

LEMMA FlowType ==
  ASSUME NEW todo \in Seq(Items) PROVE Flow(todo) \in Seq(Byte)
<1>1. Mapped(Encoding, todo) \in Seq(Seq(Byte))
  BY EncodingType, MappedType
<1>. QED BY <1>1, FlattenType DEF Flow

LEMMA FlowEmpty == Flow(<<>>) = <<>>
BY MappedEmpty, FlattenEmpty DEF Flow

LEMMA FlowFirst ==
  ASSUME NEW it \in Items, NEW todo \in Seq(Items)
  PROVE  Flow(Before(it, todo)) = Encoded(it) \o Flow(todo)
<1>1. Mapped(Encoding, Before(it, todo)) = Before(Encoding[it], Mapped(Encoding, todo))
  BY EncodingType, MappedFirst
<1>2. Encoding[it] \in Seq(Byte) /\ Mapped(Encoding, todo) \in Seq(Seq(Byte))
  <2>1. Mapped(Encoding, todo) \in Seq(Seq(Byte))
    BY EncodingType, MappedType
  <2>2. Encoding[it] \in Seq(Byte)
    BY EncodingType DEF IsMap
  <2>. QED BY <2>1, <2>2
<1>3. FlattenSeq(<< Encoding[it] >> \o Mapped(Encoding, todo))
        = Encoding[it] \o FlattenSeq(Mapped(Encoding, todo))
  BY <1>2, FlattenFirst
<1>. QED BY <1>1, <1>3, EncodingType DEF Flow, Before

-----------------------------------------------------------------------------
(* The invariant: what is collected and what is still on the wire make up    *)
(* the items.                                                                *)

\* h is to come, or its second byte.
Coming(h, esc, T) == IF esc THEN Before(Toggle(h), T) ELSE Escaped(h) \o T

\* Of full, got has come, and w brings the rest and then T.
UnderWay(got, full, esc, w, T) ==
  \E h \in Byte, rest \in Seq(Byte) :
    /\ got \o Before(h, rest) = full
    /\ esc => MustEscape(h)
    /\ w = Coming(h, esc, ZdleEncode(rest) \o T)

\* The same without escapes.
Spelling(got, full, w, T) ==
  \E h \in Byte, rest \in Seq(Byte) : got \o Before(h, rest) = full /\ w = Before(h, rest \o T)

\* The variables of the reader, in one.
Reader == [wire |-> wire, mode |-> mode, escaped |-> escaped, n |-> n, raw |-> raw, check |-> check,
           want |-> want]

\* A reader that reads a header, or a subpacket, with T after it.
InHeader(r, it, T) ==
  \/ /\ r.mode = "scan"
     /\ \E k \in 0..2 : r.n + k <= 2 /\ r.wire = Stars(k, Marked(it, T))
  \/ r.mode = "fmt" /\ r.wire = FormWire(it, T)
  \/ /\ r.mode = "hex" /\ it.form = "hex" /\ r.n = Len(r.raw)
     /\ Spelling(r.raw, Hex(Checked(it)), r.wire, Before(13, Before(10, T)))
  \/ /\ r.mode \in {"bin16", "bin32"} /\ it.form = r.mode
     /\ UnderWay(r.raw, Checked(it), r.escaped, r.wire, T)

InSub(r, it, T) ==
  \/ r.mode = "sub" /\ UnderWay(r.raw, Front(it.bytes), r.escaped, r.wire, EndWire(it, T))
  \/ /\ r.mode = "sub" /\ r.raw = Front(it.bytes)
     /\ r.wire = IF r.escaped THEN TermWire(it, T) ELSE EndWire(it, T)
  \/ r.mode = "crc" /\ r.raw = it.bytes /\ UnderWay(r.check, CheckOf(it), r.escaped, r.wire, T)

InItem(r, it, T) == IF it.form = "sub" THEN InSub(r, it, T) ELSE InHeader(r, it, T)

\* One with todo before it.
Reads(r, todo) ==
  \/ todo = <<>> /\ r.wire = <<>> /\ r.mode \in {"scan", "sub", "timeout"}
  \/ \E it \in Items, after \in Seq(Items) : todo = Before(it, after) /\ InItem(r, it, Flow(after))

\* One that has a hex header but for its CR and LF.
InTrail(r, todo) ==
  /\ r.mode = "trail"
  /\ \/ r.n = 0 /\ r.wire = Before(13, Before(10, Flow(todo)))
     \/ r.n = 1 /\ r.wire = Before(10, Flow(todo))

\* What is expected after i items.
Wants == {"header", "info", "data"}

Planned(batch, w) ==
  /\ w \in [0..Len(batch) -> Wants]
  /\ w[0] = "header"
  /\ \A i \in 1..Len(batch) :
       /\ batch[i].form = "sub" <=> w[i - 1] # "header"
       /\ w[i] = After(w[i - 1], batch[i])

OnPlan(r, batch, done, todo, w) ==
  /\ done \in Seq(Items) /\ todo \in Seq(Items) /\ batch = done \o todo
  /\ Planned(batch, w)
  /\ \/ r.want = w[Len(done)] /\ Reads(r, todo)
     \/ /\ done # <<>> /\ Last(done).form = "hex"
        /\ AfterHeader(Last(done).bytes[1]) = w[Len(done)]
        /\ InTrail(r, todo)

Clean == \E todo, w : OnPlan(Reader, items, delivered, todo, w)

TypeInv ==
  /\ TypeOK
  /\ items \in Batches
  /\ wire \in Seq(Byte)
  /\ mode \in {"scan", "fmt"} => raw = <<>> /\ ~escaped
  /\ mode \notin {"crc"} \cup Raised => check = <<>>
  /\ mode = "crc" => raw # <<>>

CleanInv == TypeInv /\ (faults = 0 => Clean)

-----------------------------------------------------------------------------
(* Reading what comes escaped, or spelled out                                *)

LEMMA ComingForms ==
  ASSUME NEW h \in Byte, NEW T \in Seq(Byte)
  PROVE  /\ MustEscape(h) => Coming(h, FALSE, T) = Before(ZDLE, Coming(h, TRUE, T))
         /\ ~MustEscape(h) => Coming(h, FALSE, T) = Before(h, T)
         /\ Coming(h, TRUE, T) = Before(Toggle(h), T)
<1>1. ASSUME MustEscape(h) PROVE Escaped(h) \o T = Before(ZDLE, Before(Toggle(h), T))
  <2>1. Toggle(h) \in Byte /\ ZDLE \in Byte
    BY ToggleBack, TermsAreBytes
  <2>2. << ZDLE, Toggle(h) >> \o T = Before(ZDLE, Before(Toggle(h), T))
    BY <2>1, TwoBefore
  <2>. QED BY <1>1, <2>2 DEF Escaped
<1>2. ASSUME ~MustEscape(h) PROVE Escaped(h) \o T = Before(h, T)
  BY <1>2 DEF Escaped, Before
<1>. QED BY <1>1, <1>2 DEF Coming

\* Where nothing is left, T follows; else something is under way.
LEMMA MoreOrNot ==
  ASSUME NEW got \in Seq(Byte), NEW rest \in Seq(Byte), NEW T \in Seq(Byte),
         NEW full, full = got \o rest
  PROVE  \/ rest = <<>> /\ got = full /\ ZdleEncode(rest) \o T = T
         \/ UnderWay(got, full, FALSE, ZdleEncode(rest) \o T, T)
<1>1. CASE rest = <<>>
  <2>1. <<>> \o T = T /\ got \o <<>> = got
    BY ConcatEmptySeq
  <2>. QED BY <1>1, <2>1, EncodeEmpty
<1>2. CASE rest # <<>>
  <2>1. PICK h \in Byte, more \in Seq(Byte) : rest = Before(h, more)
    BY <1>2, SplitFirst
  <2>2. ZdleEncode(rest) = Escaped(h) \o ZdleEncode(more)
    BY <2>1, EncodeFirst DEF Before
  <2>. DEFINE x == ZdleEncode(more)
              y == Escaped(h)
  <2>3. x \in Seq(Byte) /\ y \in Seq(Byte)
    <3>1. y \in Seq(Byte)
      BY EscapeType DEF IsMap
    <3>. QED BY <3>1, EncodeType
  <2>. HIDE DEF x, y
  <2>4. (y \o x) \o T = y \o (x \o T)
    BY <2>3, ConcatAssociative
  <2>5. ZdleEncode(rest) \o T = Coming(h, FALSE, x \o T)
    BY <2>2, <2>4 DEF Coming, x, y
  <2>. QED BY <2>1, <2>5 DEF UnderWay, x
<1>. QED BY <1>1, <1>2

\* A byte of it.
Starts(esc, b)        == ~esc /\ b = ZDLE
Meant(esc, b)         == IF esc THEN Toggle(b) ELSE b
With(got, esc, b)     == IF Starts(esc, b) THEN got ELSE Append(got, Meant(esc, b))
StepOn(got, full, esc, w, T, b, rest) ==
  /\ b \in Byte /\ rest \in Seq(Byte) /\ w = Before(b, rest)
  /\ esc => b \notin Terms
  /\ With(got, esc, b) \in Seq(Byte)
  /\ \/ /\ UnderWay(With(got, esc, b), full, Starts(esc, b), rest, T)
        /\ Len(With(got, esc, b)) < Len(full)
     \/ With(got, esc, b) = full /\ rest = T /\ ~Starts(esc, b)

LEMMA UnderWayShorter ==
  ASSUME NEW got \in Seq(Byte), NEW full, NEW esc, NEW w, NEW T, UnderWay(got, full, esc, w, T)
  PROVE  full \in Seq(Byte) /\ Len(got) < Len(full)
<1>1. PICK h \in Byte, rest \in Seq(Byte) : got \o Before(h, rest) = full
  BY DEF UnderWay
<1>2. Before(h, rest) \in Seq(Byte) /\ Len(Before(h, rest)) = Len(rest) + 1 /\ Len(rest) \in Nat
      /\ Len(got) \in Nat
  BY BeforeParts, LenProperties
<1>3. Len(got \o Before(h, rest)) = Len(got) + Len(Before(h, rest)) /\ got \o Before(h, rest) \in Seq(Byte)
  BY <1>2, ConcatProperties
<1>. QED BY <1>1, <1>2, <1>3

LEMMA UnderWayStep ==
  ASSUME NEW got \in Seq(Byte), NEW full, NEW esc \in BOOLEAN, NEW w, NEW T \in Seq(Byte),
         UnderWay(got, full, esc, w, T)
  PROVE  \E b, rest : StepOn(got, full, esc, w, T, b, rest)
<1>1. PICK h \in Byte, more \in Seq(Byte) :
        got \o Before(h, more) = full /\ (esc => MustEscape(h))
        /\ w = Coming(h, esc, ZdleEncode(more) \o T)
  BY DEF UnderWay
<1>. DEFINE X == ZdleEncode(more) \o T
<1>2. X \in Seq(Byte)
  <2>1. ZdleEncode(more) \in Seq(Byte)
    BY EncodeType
  <2>. QED BY <2>1, ConcatProperties
<1>3. Toggle(h) \in Byte /\ Toggle(Toggle(h)) = h /\ ZDLE \in Byte
  BY ToggleBack, TermsAreBytes
\* A byte that is taken as it is meant.
<1>4. ASSUME NEW b \in Byte, w = Before(b, X), Meant(esc, b) = h, ~Starts(esc, b),
             esc => b \notin Terms
      PROVE  StepOn(got, full, esc, w, T, b, X)
  <2>. DEFINE new == Append(got, h)
  <2>1. With(got, esc, b) = new
    BY <1>4 DEF With
  <2>2. new \in Seq(Byte) /\ new \o more = full
    <3>1. Append(got, h) \in Seq(Byte) /\ Append(got, h) \o more = got \o Before(h, more)
      BY TakeBefore
    <3>. QED BY <1>1, <3>1
  <2>3. \/ more = <<>> /\ new = full /\ X = T
        \/ UnderWay(new, full, FALSE, X, T)
    <3>. HIDE DEF new
    <3>. QED BY <2>2, MoreOrNot
  <2>4. Starts(esc, b) = FALSE
    BY <1>4 DEF Starts
  <2>. HIDE DEF new, X
  <2>5. UnderWay(new, full, FALSE, X, T) => Len(new) < Len(full)
    BY <2>2, UnderWayShorter
  <2>. QED BY <1>2, <1>4, <2>1, <2>2, <2>3, <2>4, <2>5 DEF StepOn
<1>5. CASE esc
  <2>1. w = Before(Toggle(h), X)
    BY <1>1, <1>2, <1>5, ComingForms
  <2>2. Toggle(h) \notin Terms
    BY <1>1, <1>5, ToggledNoTerm
  <2>3. Meant(esc, Toggle(h)) = h /\ ~Starts(esc, Toggle(h))
    BY <1>3, <1>5 DEF Meant, Starts
  <2>. HIDE DEF X
  <2>. QED BY <1>3, <1>4, <2>1, <2>2, <2>3
<1>6. CASE ~esc /\ ~MustEscape(h)
  <2>0. w = Coming(h, FALSE, X)
    BY <1>1, <1>6 DEF Coming
  <2>. HIDE DEF X
  <2>1. w = Before(h, X)
    BY <1>2, <1>6, <2>0, ComingForms
  <2>2. h # ZDLE
    BY <1>6, TermsAreBytes
  <2>3. Meant(esc, h) = h /\ ~Starts(esc, h)
    BY <1>6, <2>2 DEF Meant, Starts
  <2>. QED BY <1>4, <1>6, <2>1, <2>3
<1>7. CASE ~esc /\ MustEscape(h)
  <2>. DEFINE Y == Coming(h, TRUE, X)
  <2>0. w = Coming(h, FALSE, X)
    BY <1>1, <1>7 DEF Coming
  <2>1. w = Before(ZDLE, Y)
    <3>. HIDE DEF X
    <3>. QED BY <1>2, <1>7, <2>0, ComingForms
  <2>2. Y \in Seq(Byte)
    <3>1. Y = Before(Toggle(h), X)
      BY DEF Coming
    <3>. HIDE DEF X, Y
    <3>. QED BY <1>2, <1>3, <3>1, BeforeParts
  <2>3. Starts(esc, ZDLE) = TRUE
    BY <1>7 DEF Starts
  <2>4. With(got, esc, ZDLE) = got
    BY <2>3 DEF With
  <2>5. UnderWay(got, full, TRUE, Y, T)
    BY <1>1, <1>7 DEF UnderWay
  <2>. HIDE DEF Y
  <2>6. Len(got) < Len(full)
    BY <2>5, UnderWayShorter
  <2>7. StepOn(got, full, esc, w, T, ZDLE, Y)
    BY <1>3, <1>7, <2>1, <2>2, <2>3, <2>4, <2>5, <2>6 DEF StepOn
  <2>. QED BY <2>7
<1>. QED BY <1>5, <1>6, <1>7

LEMMA SpellingStep ==
  ASSUME NEW got \in Seq(Byte), NEW full, NEW w, NEW T \in Seq(Byte), Spelling(got, full, w, T)
  PROVE  \E b \in Byte, rest \in Seq(Byte) :
           /\ w = Before(b, rest) /\ full \in Seq(Byte) /\ Len(got) < Len(full)
           /\ b = full[Len(got) + 1]
           /\ \/ Append(got, b) = full /\ rest = T
              \/ Spelling(Append(got, b), full, rest, T) /\ Len(Append(got, b)) < Len(full)
<1>1. PICK h \in Byte, more \in Seq(Byte) : got \o Before(h, more) = full /\ w = Before(h, more \o T)
  BY DEF Spelling
<1>. DEFINE new == Append(got, h)
            X == more \o T
<1>2. X \in Seq(Byte)
  BY ConcatProperties
<1>3. /\ new \in Seq(Byte) /\ new \o more = full /\ Len(new) = Len(got) + 1
      /\ new[Len(got) + 1] = h /\ Len(got) \in Nat /\ Len(more) \in Nat
  <2>1. new[Len(got) + 1] = h /\ Len(got) \in Nat /\ Len(more) \in Nat
    BY AppendProperties, LenProperties
  <2>2. /\ Append(got, h) \in Seq(Byte) /\ Append(got, h) \o more = got \o Before(h, more)
        /\ Len(Append(got, h)) = Len(got) + 1
    BY TakeBefore
  <2>. QED BY <1>1, <2>1, <2>2
<1>. HIDE DEF new
<1>4. /\ full \in Seq(Byte) /\ Len(full) = Len(new) + Len(more)
      /\ \A i \in 1..(Len(new) + Len(more)) :
           full[i] = IF i <= Len(new) THEN new[i] ELSE more[i - Len(new)]
  BY <1>3, ConcatProperties
<1>5. Len(got) < Len(full) /\ full[Len(got) + 1] = h
  BY <1>3, <1>4
<1>6. CASE more = <<>>
  <2>1. new \o <<>> = new /\ <<>> \o T = T
    BY <1>3, ConcatEmptySeq
  <2>2. new = full /\ X = T
    BY <1>3, <1>6, <2>1
  <2>. HIDE DEF X
  <2>3. w = Before(h, X)
    BY <1>1 DEF X
  <2>. QED BY <1>2, <1>4, <1>5, <2>2, <2>3 DEF new
<1>7. CASE more # <<>>
  <2>1. PICK a \in Byte, s \in Seq(Byte) : more = Before(a, s)
    BY <1>7, SplitFirst
  <2>2. X = Before(a, s \o T)
    <3>1. << a >> \in Seq(Byte)
      OBVIOUS
    <3>2. (<< a >> \o s) \o T = << a >> \o (s \o T)
      BY <3>1, ConcatAssociative
    <3>. QED BY <2>1, <3>2 DEF Before
  <2>3. Spelling(new, full, X, T)
    BY <1>3, <2>1, <2>2 DEF Spelling
  <2>4. Len(new) < Len(full)
    <3>1. Len(more) \in Nat \ {0}
      BY <1>7, EmptySeq
    <3>. QED BY <1>3, <1>4, <3>1
  <2>. HIDE DEF X
  <2>5. w = Before(h, X)
    BY <1>1 DEF X
  <2>. QED BY <1>2, <1>4, <1>5, <2>3, <2>4, <2>5 DEF new
<1>. QED BY <1>6, <1>7

\* It begins so.
LEMMA SpellingBegins ==
  ASSUME NEW full \in Seq(Byte), full # <<>>, NEW T \in Seq(Byte)
  PROVE  Spelling(<<>>, full, full \o T, T)
<1>1. PICK a \in Byte, s \in Seq(Byte) : full = Before(a, s)
  BY SplitFirst
<1>2. << a >> \in Seq(Byte) /\ <<>> \in Seq(Byte)
  OBVIOUS
<1>3. (<< a >> \o s) \o T = << a >> \o (s \o T)
  BY <1>2, ConcatAssociative
<1>4. <<>> \o full = full
  BY ConcatEmptySeq
<1>5. full \o T = Before(a, s \o T)
  BY <1>1, <1>3 DEF Before
<1>. QED BY <1>1, <1>4, <1>5 DEF Spelling

-----------------------------------------------------------------------------
(* Between items                                                             *)

\* The item that comes next, and what is expected after it.
Position(batch, done, it, after) ==
  /\ done \in Seq(Items) /\ it \in Items /\ after \in Seq(Items)
  /\ batch = done \o Before(it, after)

LEMMA AtItem ==
  ASSUME NEW batch, NEW done, NEW it, NEW after, Position(batch, done, it, after),
         NEW w, Planned(batch, w)
  PROVE  /\ it.form = "sub" <=> w[Len(done)] # "header"
         /\ Append(done, it) \in Seq(Items) /\ batch = Append(done, it) \o after
         /\ Append(done, it) # <<>> /\ Last(Append(done, it)) = it
         /\ w[Len(Append(done, it))] = After(w[Len(done)], it)
         /\ Len(done) \in 0..Len(batch) /\ Len(Append(done, it)) \in 0..Len(batch)
<1>. DEFINE new == Append(done, it)
            d == Len(done)
<1>0. /\ done \in Seq(Items) /\ it \in Items /\ after \in Seq(Items)
      /\ batch = done \o Before(it, after)
  BY DEF Position
<1>1. /\ new \in Seq(Items) /\ Len(new) = d + 1 /\ new[d + 1] = it /\ d \in Nat
      /\ new # <<>>
  BY <1>0, AppendProperties, LenProperties
<1>2. batch = new \o after
  <2>1. Append(done, it) \o after = done \o Before(it, after)
    BY <1>0, TakeBefore
  <2>. QED BY <1>0, <2>1
<1>. HIDE DEF new
<1>3. /\ Len(batch) = Len(new) + Len(after) /\ Len(after) \in Nat
      /\ \A i \in 1..(Len(new) + Len(after)) :
           batch[i] = IF i <= Len(new) THEN new[i] ELSE after[i - Len(new)]
  <2>1. /\ Len(new \o after) = Len(new) + Len(after)
        /\ \A i \in 1..(Len(new) + Len(after)) :
             (new \o after)[i] = IF i <= Len(new) THEN new[i] ELSE after[i - Len(new)]
    BY <1>0, <1>1, ConcatProperties
  <2>2. Len(after) \in Nat
    BY <1>0, LenProperties
  <2>. QED BY <1>2, <2>1, <2>2
<1>4. d + 1 \in 1..Len(batch) /\ batch[d + 1] = it /\ (d + 1) - 1 = d
  BY <1>1, <1>3
<1>5. /\ batch[d + 1].form = "sub" <=> w[(d + 1) - 1] # "header"
      /\ w[d + 1] = After(w[(d + 1) - 1], batch[d + 1])
  BY <1>4 DEF Planned
<1>6. Last(new) = it
  BY <1>1 DEF Last
<1>7. d \in 0..Len(batch) /\ Len(new) \in 0..Len(batch)
  BY <1>1, <1>3
<1>. QED BY <1>1, <1>2, <1>4, <1>5, <1>6, <1>7 DEF new

\* A reader that begins is on the plan.
LEMMA ReaderBegins ==
  ASSUME NEW batch, NEW done \in Seq(Items), NEW todo \in Seq(Items), batch = done \o todo,
         NEW w, Planned(batch, w), NEW r, r.want = w[Len(done)],
         r.mode = IF r.want = "header" THEN "scan" ELSE "sub",
         r.escaped = FALSE, r.n = 0, r.raw = <<>>, r.wire = Flow(todo)
  PROVE  OnPlan(r, batch, done, todo, w)
<1>1. CASE todo = <<>>
  <2>1. r.wire = <<>> /\ r.mode \in {"scan", "sub"}
    BY <1>1, FlowEmpty
  <2>. QED BY <1>1, <2>1 DEF OnPlan, Reads
<1>2. CASE todo # <<>>
  <2>1. PICK it \in Items, after \in Seq(Items) : todo = Before(it, after)
    BY <1>2, SplitFirst
  <2>2. it.form = "sub" <=> r.want # "header"
    <3>1. Position(batch, done, it, after)
      BY <2>1 DEF Position
    <3>2. it.form = "sub" <=> w[Len(done)] # "header"
      BY <3>1, AtItem
    <3>. QED BY <3>2
  <2>. DEFINE T == Flow(after)
  <2>3. T \in Seq(Byte) /\ r.wire = Encoded(it) \o T
    BY <2>1, FlowType, FlowFirst
  <2>. HIDE DEF T
  <2>4. CASE it.form = "sub"
    <3>. DEFINE f == Front(it.bytes)
                e == EndWire(it, T)
    <3>1. f \in Seq(Byte) /\ <<>> \in Seq(Byte) /\ e \in Seq(Byte)
        <4>1. it.bytes \in Seq(Byte) /\ it.bytes # <<>>
        BY <2>4, ItemParts
      <4>2. f \in Seq(Byte)
        BY <4>1, FrontAndLast
      <4>3. e \in Seq(Byte)
        BY <2>3, <2>4, WireTypes
      <4>. QED BY <4>2, <4>3
    <3>2. r.wire = ZdleEncode(f) \o e
      BY <2>3, <2>4, EncodedSub
    <3>. HIDE DEF f, e
    <3>3. f = <<>> \o f
      BY <3>1, ConcatEmptySeq
    <3>4. \/ <<>> = f /\ r.wire = e
          \/ UnderWay(<<>>, f, FALSE, r.wire, e)
      BY <3>1, <3>2, <3>3, MoreOrNot
    <3>5. r.mode = "sub"
      BY <2>2, <2>4
    <3>6. InSub(r, it, T)
      BY <3>4, <3>5 DEF InSub, f, e
    <3>. QED BY <2>1, <2>4, <3>6 DEF OnPlan, Reads, InItem, T
  <2>5. CASE it.form # "sub"
    <3>1. r.wire = Stars(StarsOf(it), Marked(it, T))
      BY <2>3, <2>5, EncodedHeader
    <3>2. StarsOf(it) \in 0..2 /\ 0 + StarsOf(it) <= 2
      BY DEF StarsOf
    <3>3. r.mode = "scan"
      BY <2>2, <2>5
    <3>4. InHeader(r, it, T)
      BY <3>1, <3>2, <3>3 DEF InHeader
    <3>. QED BY <2>1, <2>5, <3>4 DEF OnPlan, Reads, InItem, T
  <2>. QED BY <2>4, <2>5
<1>. QED BY <1>1, <1>2

\* The one item that is being read.
Amid(it, after, w) ==
  /\ Position(items, delivered, it, after)
  /\ Planned(items, w) /\ want = w[Len(delivered)]
  /\ it.form = "sub" <=> want # "header"

LEMMA StillReading ==
  ASSUME NEW it, NEW after, NEW w, Amid(it, after, w),
         UNCHANGED <<items, delivered, want>>, InItem(Reader', it, Flow(after))
  PROVE  Clean'
<1>1. Before(it, after) \in Seq(Items)
  BY BeforeParts DEF Amid, Position
<1>2. Reads(Reader', Before(it, after))
  BY DEF Reads, Amid, Position
<1>3. Reader'.want = w[Len(delivered')]
  BY DEF Amid, Reader
<1>4. OnPlan(Reader', items', delivered', Before(it, after), w)
  BY <1>1, <1>2, <1>3 DEF OnPlan, Amid, Position
<1>. QED BY <1>4 DEF Clean

LEMMA NextBegins ==
  ASSUME NEW it, NEW after, NEW w, Amid(it, after, w),
         items' = items, delivered' = Append(delivered, it), wire' = Flow(after),
         Begin(After(want, it))
  PROVE  Clean'
<1>1. /\ Append(delivered, it) \in Seq(Items) /\ items = Append(delivered, it) \o after
      /\ w[Len(Append(delivered, it))] = After(want, it)
  <2>1. Position(items, delivered, it, after) /\ Planned(items, w)
    BY DEF Amid, Position
  <2>2. /\ Append(delivered, it) \in Seq(Items) /\ items = Append(delivered, it) \o after
        /\ w[Len(Append(delivered, it))] = After(w[Len(delivered)], it)
    BY <2>1, AtItem
  <2>. QED BY <2>2 DEF Amid
<1>2. Reader'.want = w[Len(delivered')] /\ Reader'.escaped = FALSE /\ Reader'.n = 0
      /\ Reader'.raw = <<>> /\ Reader'.wire = Flow(after)
      /\ Reader'.mode = IF Reader'.want = "header" THEN "scan" ELSE "sub"
  BY <1>1 DEF Begin, Reader
<1>3. OnPlan(Reader', items', delivered', after, w)
  <2>1. delivered' \in Seq(Items) /\ after \in Seq(Items) /\ items' = delivered' \o after
        /\ Planned(items', w)
    BY <1>1 DEF Amid, Position
  <2>. QED BY <1>2, <2>1, ReaderBegins
<1>. QED BY <1>3 DEF Clean

-----------------------------------------------------------------------------
(* A byte of a header                                                        *)

\* Which reader takes it.
LEMMA ReadModes ==
  ASSUME ReadByte
  PROVE  /\ wire # <<>> /\ wire' = Tail(wire) /\ items' = items /\ faults' = faults
         /\ \/ mode = "scan" /\ Scan(Head(wire))
            \/ mode = "fmt" /\ ReadFormat(Head(wire))
            \/ mode = "hex" /\ ReadHex(Head(wire))
            \/ mode = "trail" /\ ReadTrail(Head(wire))
            \/ mode \in {"bin16", "bin32"} /\ ReadBin(Head(wire))
            \/ mode = "sub" /\ ReadData(Head(wire))
            \/ mode = "crc" /\ ReadCheck(Head(wire))
BY DEF ReadByte, Scan, ReadFormat, ReadHex, ReadTrail, ReadBin, ReadData, ReadCheck

\* The byte and what follows it.
LEMMA ReadFirst ==
  ASSUME ReadByte, NEW b, b \in Byte, NEW s, s \in Seq(Byte), wire = Before(b, s)
  PROVE  Head(wire) = b /\ wire' = s
<1>1. Head(Before(b, s)) = b /\ Tail(Before(b, s)) = s
  BY BeforeParts
<1>. QED BY <1>1, ReadModes

\* The invariant's clauses for a header whose item stays.
StillHeader(it, after, w) ==
  Amid(it, after, w) /\ it.form # "sub" /\ ReadByte /\ TypeInv

LEMMA HeaderTypes ==
  ASSUME NEW it, NEW after, NEW w, StillHeader(it, after, w)
  PROVE  /\ it \in Items /\ it.form # "sub" /\ Flow(after) \in Seq(Byte)
         /\ BodyWire(it, Flow(after)) \in Seq(Byte) /\ FormWire(it, Flow(after)) \in Seq(Byte)
         /\ Marked(it, Flow(after)) \in Seq(Byte) /\ Forms[it.form] \in Byte
         /\ Amid(it, after, w) /\ ReadByte /\ items' = items
<1>1. it \in Items /\ after \in Seq(Items) /\ it.form # "sub" /\ Amid(it, after, w) /\ ReadByte
  BY DEF StillHeader, Amid, Position
<1>2. Flow(after) \in Seq(Byte)
  BY <1>1, FlowType
<1>. QED BY <1>1, <1>2, WireTypes, ReadModes

LEMMA CleanScan ==
  ASSUME NEW it, NEW after, NEW w, StillHeader(it, after, w), mode = "scan",
         NEW k \in 0..2, n + k <= 2, wire = Stars(k, Marked(it, Flow(after)))
  PROVE  Clean'
<1>. DEFINE T == Flow(after)
            M == Marked(it, T)
<1>1. M \in Seq(Byte) /\ FormWire(it, T) \in Seq(Byte) /\ it.form # "sub"
      /\ Amid(it, after, w) /\ ReadByte /\ items' = items
  BY HeaderTypes
<1>2. Scan(Head(wire)) /\ n \in Nat /\ ScanLimit \in Nat /\ ScanLimit > 2
  BY <1>1, ReadModes, ConstantsAssumption DEF StillHeader, TypeInv, TypeOK
<1>3. CASE k = 0
  <2>1. wire = Before(ZDLE, FormWire(it, T)) /\ ZDLE \in Byte
    BY <1>3, TermsAreBytes DEF Stars, Marked
  <2>2. Head(wire) = ZDLE /\ wire' = FormWire(it, T)
    BY <1>1, <2>1, ReadFirst
  <2>3. mode' = "fmt" /\ UNCHANGED <<escaped, n, raw, check, want, delivered>>
    BY <1>2, <2>2 DEF Scan
  <2>4. InItem(Reader', it, T)
    BY <1>1, <2>2, <2>3 DEF InItem, InHeader, Reader
  <2>. QED BY <1>1, <2>3, <2>4, StillReading
<1>4. CASE k # 0
  <2>1. k - 1 \in 0..2 /\ wire = Before(42, Stars(k - 1, M))
    BY <1>4 DEF Stars
  <2>2. Stars(k - 1, M) \in Seq(Byte) /\ 42 \in Byte /\ 42 # ZDLE
    <3>1. Before(42, M) \in Seq(Byte) /\ 42 \in Byte /\ 42 # ZDLE
      BY <1>1, TermsAreBytes, BeforeParts
    <3>. QED BY <1>1, <1>4, <3>1 DEF Stars
  <2>. HIDE DEF M
  <2>3. Head(wire) = 42 /\ wire' = Stars(k - 1, M)
    BY <1>1, <2>1, <2>2, ReadFirst
  <2>4. n + 1 < ScanLimit /\ (n + 1) + (k - 1) <= 2
    BY <1>2, <1>4
  <2>5. n' = n + 1 /\ UNCHANGED <<mode, escaped, raw, check, want, delivered>>
    BY <1>2, <2>2, <2>3, <2>4 DEF Scan
  <2>6. n' + (k - 1) <= 2
    BY <2>4, <2>5
  <2>7. InHeader(Reader', it, T)
    BY <2>1, <2>3, <2>5, <2>6 DEF InHeader, Reader, M
  <2>8. InItem(Reader', it, T)
    BY <1>1, <2>7 DEF InItem
  <2>. QED BY <1>1, <2>5, <2>8, StillReading
<1>. QED BY <1>3, <1>4

LEMMA CleanFormat ==
  ASSUME NEW it, NEW after, NEW w, StillHeader(it, after, w), mode = "fmt",
         wire = FormWire(it, Flow(after))
  PROVE  Clean'
<1>. DEFINE T == Flow(after)
            B == BodyWire(it, T)
            f == it.form
<1>1. B \in Seq(Byte) /\ it \in Items /\ Forms[f] \in Byte /\ T \in Seq(Byte) /\ f # "sub"
      /\ Amid(it, after, w) /\ ReadByte /\ items' = items
  BY HeaderTypes
<1>2. ReadFormat(Head(wire)) /\ raw = <<>> /\ ~escaped /\ escaped \in BOOLEAN
  BY <1>1, ReadModes DEF StillHeader, TypeInv, TypeOK
<1>3. f \in DOMAIN Forms /\ f \in {"hex", "bin16", "bin32"}
  BY <1>1, ItemParts, TermsAreBytes
<1>4. wire = Before(Forms[f], B)
  BY DEF FormWire
<1>5. Head(wire) = Forms[f] /\ wire' = B
  <2>. HIDE DEF B, f
  <2>. QED BY <1>1, <1>4, ReadFirst
<1>6. mode' = f /\ n' = 0 /\ UNCHANGED <<escaped, raw, check, want, delivered>>
  <2>1. \A g \in DOMAIN Forms : Forms[g] = Forms[f] => g = f
    BY <1>3, TermsAreBytes
  <2>. HIDE DEF f, B
  <2>. QED BY <1>2, <1>3, <1>5, <2>1 DEF ReadFormat
<1>7. Checked(it) \in Seq(Byte) /\ Len(Checked(it)) = Size(it) /\ Size(it) \in Nat \ {0}
  BY <1>1, CheckedParts DEF Size
<1>8. CASE f = "hex"
  <2>. DEFINE H == Hex(Checked(it))
              C == Before(13, Before(10, T))
  <2>1. H \in Seq(Byte) /\ Len(H) = 2 * Size(it)
    BY <1>7, HexDigits
  <2>2. H # <<>>
    <3>1. Len(H) # 0
      BY <1>7, <2>1
    <3>. QED BY <3>1, EmptySeq
  <2>3. C \in Seq(Byte)
    <3>1. 13 \in Byte /\ 10 \in Byte
      BY TermsAreBytes
    <3>2. Before(10, T) \in Seq(Byte)
      BY <1>1, <3>1, BeforeParts
    <3>. QED BY <3>1, <3>2, BeforeParts
  <2>4. wire' = H \o C
    BY <1>5, <1>8 DEF BodyWire
  <2>. HIDE DEF H, C
  <2>5. Spelling(raw', H, wire', C)
    BY <1>2, <1>6, <2>1, <2>2, <2>3, <2>4, SpellingBegins
  <2>6. n' = Len(raw')
    BY <1>2, <1>6
  <2>7. InHeader(Reader', it, T)
    BY <1>6, <1>8, <2>5, <2>6 DEF InHeader, Reader, H, C
  <2>8. InItem(Reader', it, T)
    BY <1>1, <2>7 DEF InItem
  <2>. QED BY <1>1, <1>6, <2>8, StillReading
<1>9. CASE f # "hex"
  <2>. DEFINE d == Checked(it)
  <2>1. wire' = ZdleEncode(d) \o T
    BY <1>5, <1>9 DEF BodyWire
  <2>2. d # <<>>
    <3>1. Len(d) # 0
      BY <1>7
    <3>. QED BY <3>1, EmptySeq
  <2>3. <<>> \in Seq(Byte) /\ d = <<>> \o d
    BY <1>7, ConcatEmptySeq
  <2>4. d \in Seq(Byte)
    BY <1>7
  <2>. HIDE DEF d
  <2>5. UnderWay(<<>>, d, FALSE, wire', T)
    BY <1>1, <2>1, <2>2, <2>3, <2>4, MoreOrNot
  <2>6. raw' = <<>> /\ escaped' = FALSE
    BY <1>2, <1>6
  <2>7. InHeader(Reader', it, T)
    BY <1>3, <1>6, <1>9, <2>5, <2>6 DEF InHeader, Reader, d
  <2>8. InItem(Reader', it, T)
    BY <1>1, <2>7 DEF InItem
  <2>. QED BY <1>1, <1>6, <2>8, StillReading
<1>. QED BY <1>8, <1>9

\* The fourteen digits of a header give it.
LEMMA HexGives ==
  ASSUME NEW it \in Items, it.form = "hex", HexDone(Hex(Checked(it)))
  PROVE  /\ mode' = "trail" /\ n' = 0 /\ delivered' = Append(delivered, it)
         /\ UNCHANGED <<escaped, raw, check, want>>
<1>. DEFINE c == Checked(it)
            H == Hex(c)
<1>1. /\ c \in Seq(Byte) /\ Len(c) = 7 /\ SubSeq(c, 1, 5) = it.bytes
      /\ SubSeq(c, 6, 7) = Bytes16(crc16(it.bytes))
  BY CheckedParts DEF Size, CrcBytes
<1>. HIDE DEF c
<1>2. \A k \in 1..14 : IsDigit(H[k])
  <2>1. \A k \in 1..(2 * Len(c)) : IsDigit(Hex(c)[k])
    BY <1>1, HexDigits
  <2>. QED BY <1>1, <2>1
<1>3. Pairs(SubSeq(H, 1, 10)) = it.bytes
  <2>1. Spans(c, 0, 5, 1, 1, 10)
    BY <1>1 DEF Spans
  <2>2. ASSUME NEW a, NEW b, NEW j, NEW i1, NEW i2, a = 0, b = 5, j = 1, i1 = 1, i2 = 10
        PROVE  Pairs(SubSeq(Hex(c), i1, i2)) = SubSeq(c, j, b)
    <3>1. Spans(c, a, b, j, i1, i2)
      BY <2>1, <2>2
    <3>. QED BY <3>1, PairsBack
  <2>. QED BY <1>1, <2>2
<1>4. Pairs(SubSeq(H, 11, 14)) = Bytes16(crc16(it.bytes))
  <2>1. Spans(c, 5, 7, 6, 11, 14)
    BY <1>1 DEF Spans
  <2>2. ASSUME NEW a, NEW b, NEW j, NEW i1, NEW i2, a = 5, b = 7, j = 6, i1 = 11, i2 = 14
        PROVE  Pairs(SubSeq(Hex(c), i1, i2)) = SubSeq(c, j, b)
    <3>1. Spans(c, a, b, j, i1, i2)
      BY <2>1, <2>2
    <3>. QED BY <3>1, PairsBack
  <2>. QED BY <1>1, <2>2
<1>5. HexDone(H)
  BY DEF c
<1>. HIDE DEF H
<1>6. /\ mode' = "trail" /\ n' = 0
      /\ delivered' = Append(delivered, Hdr("hex", it.bytes))
      /\ UNCHANGED <<escaped, raw, check, want>>
  <2>1. \A k \in 1..10 : IsDigit(H[k])
    BY <1>2
  <2>2. \A k \in 11..14 : IsDigit(H[k])
    BY <1>2
  <2>. QED BY <1>2, <1>3, <1>4, <1>5, <2>1, <2>2 DEF HexDone, Matches
<1>7. Hdr("hex", it.bytes) = it
  BY ItemParts DEF Hdr
<1>. QED BY <1>6, <1>7

LEMMA CleanHex ==
  ASSUME NEW it, NEW after, NEW w, StillHeader(it, after, w), mode = "hex", it.form = "hex",
         n = Len(raw),
         Spelling(raw, Hex(Checked(it)), wire, Before(13, Before(10, Flow(after))))
  PROVE  Clean'
<1>. DEFINE T == Flow(after)
            C == Before(13, Before(10, T))
            H == Hex(Checked(it))
<1>1. it \in Items /\ T \in Seq(Byte) /\ Amid(it, after, w) /\ ReadByte /\ items' = items
  BY HeaderTypes
<1>2. ReadHex(Head(wire)) /\ raw \in Seq(Byte)
  BY <1>1, ReadModes DEF StillHeader, TypeInv, TypeOK
<1>3. C \in Seq(Byte)
  <2>1. 13 \in Byte /\ 10 \in Byte
    BY TermsAreBytes
  <2>2. Before(10, T) \in Seq(Byte)
    BY <1>1, <2>1, BeforeParts
  <2>. QED BY <2>1, <2>2, BeforeParts
<1>4. Len(H) = 14 /\ \A k \in 1..14 : H[k] \notin {13, 10, 141}
  <2>1. Checked(it) \in Seq(Byte) /\ Len(Checked(it)) = 7
    BY <1>1, CheckedParts DEF Size
  <2>2. Len(H) = 2 * Len(Checked(it)) /\ \A k \in 1..(2 * Len(Checked(it))) : H[k] \notin {13, 10, 141}
    BY <2>1, HexDigits
  <2>. QED BY <2>1, <2>2
<1>h. Spelling(raw, H, wire, C)
  OBVIOUS
<1>. HIDE DEF C, H
<1>5. PICK b \in Byte, rest \in Seq(Byte) :
        /\ wire = Before(b, rest) /\ H \in Seq(Byte) /\ Len(raw) < Len(H)
        /\ b = H[Len(raw) + 1]
        /\ \/ Append(raw, b) = H /\ rest = C
           \/ Spelling(Append(raw, b), H, rest, C) /\ Len(Append(raw, b)) < Len(H)
  BY <1>2, <1>3, <1>h, SpellingStep
<1>6. Head(wire) = b /\ wire' = rest
  BY <1>1, <1>5, ReadFirst
<1>7. Len(raw) \in Nat /\ Len(Append(raw, b)) = Len(raw) + 1
  BY <1>2, LenProperties, AppendProperties
<1>8. b \notin {13, 10, 141}
  <2>1. Len(raw) + 1 \in 1..14
    BY <1>4, <1>5, <1>7
  <2>. QED BY <1>4, <1>5, <2>1
<1>. DEFINE digits == Append(raw, b)
<1>9. \/ Complete(digits) /\ HexDone(digits)
      \/ ~Complete(digits) /\ n + 1 < 16 /\ n' = n + 1 /\ raw' = digits
         /\ UNCHANGED <<mode, escaped, check, want, delivered>>
      \/ ~Complete(digits) /\ n + 1 >= 16 /\ Fail("protocol")
  BY <1>2, <1>6, <1>8 DEF ReadHex
<1>10. CASE digits = H
  <2>1. HexDone(Hex(Checked(it))) /\ rest = C
    <3>1. Len(digits) = 14
      BY <1>4, <1>10
    <3>2. ~(Len(digits) < Len(H))
      BY <1>4, <3>1
    <3>. HIDE DEF digits
    <3>. QED BY <1>5, <1>9, <1>10, <3>1, <3>2 DEF Complete, H, digits
  <2>2. /\ mode' = "trail" /\ n' = 0 /\ delivered' = Append(delivered, it)
        /\ UNCHANGED <<escaped, raw, check, want>>
    BY <1>1, <2>1, HexGives
  <2>3. wire' = Before(13, Before(10, Flow(after)))
    BY <1>6, <2>1 DEF C
  <2>4. InTrail(Reader', after)
    BY <2>2, <2>3 DEF InTrail, Reader
  <2>5. /\ Append(delivered, it) \in Seq(Items) /\ items = Append(delivered, it) \o after
        /\ Append(delivered, it) # <<>> /\ Last(Append(delivered, it)) = it
        /\ w[Len(Append(delivered, it))] = After(w[Len(delivered)], it)
        /\ after \in Seq(Items) /\ Planned(items, w)
    <3>1. Position(items, delivered, it, after) /\ Planned(items, w)
      BY <1>1 DEF Amid
    <3>2. /\ Append(delivered, it) \in Seq(Items) /\ items = Append(delivered, it) \o after
          /\ Append(delivered, it) # <<>> /\ Last(Append(delivered, it)) = it
          /\ w[Len(Append(delivered, it))] = After(w[Len(delivered)], it)
      BY <3>1, AtItem
    <3>. QED BY <3>1, <3>2 DEF Position
  <2>6. AfterHeader(it.bytes[1]) = w[Len(Append(delivered, it))]
    BY <2>5 DEF After
  <2>7. OnPlan(Reader', items', delivered', after, w)
    BY <1>1, <2>2, <2>4, <2>5, <2>6 DEF OnPlan
  <2>. QED BY <2>7 DEF Clean
<1>11. CASE digits # H
  <2>1. Spelling(digits, H, rest, C) /\ Len(digits) < 14
    BY <1>4, <1>5, <1>11
  <2>a. Len(digits) \in Nat
    BY <1>7
  <2>. HIDE DEF digits
  <2>2. ~Complete(digits) /\ n + 1 < 16 /\ n + 1 = Len(digits)
    <3>1. n + 1 = Len(digits) /\ n \in Nat
      BY <1>7 DEF digits
    <3>2. Len(digits) < 14
      BY <2>1
    <3>3. \A k \in Nat : k < 14 => k # 14
      OBVIOUS
    <3>5. Len(digits) # 14
      BY <2>a, <3>2, <3>3, Zenon
    <3>4. n + 1 < 16
      BY <2>a, <3>1, <3>2
    <3>. QED BY <3>1, <3>4, <3>5 DEF Complete
  <2>3. n' = n + 1 /\ raw' = digits /\ UNCHANGED <<mode, escaped, check, want, delivered>>
    <3>1. ~(n + 1 >= 16)
      BY <2>a, <2>2
    <3>. QED BY <1>9, <2>2, <3>1
  <2>4. InHeader(Reader', it, T)
    BY <1>6, <2>1, <2>2, <2>3 DEF InHeader, Reader, H, C
  <2>5. InItem(Reader', it, T)
    BY <2>4 DEF InItem
  <2>. QED BY <1>1, <2>3, <2>5, StillReading
<1>. QED BY <1>10, <1>11

LEMMA CleanBin ==
  ASSUME NEW it, NEW after, NEW w, StillHeader(it, after, w), mode \in {"bin16", "bin32"},
         it.form = mode, UnderWay(raw, Checked(it), escaped, wire, Flow(after))
  PROVE  Clean'
<1>. DEFINE T == Flow(after)
            d == Checked(it)
            size == Size(it)
<1>1. it \in Items /\ T \in Seq(Byte) /\ Amid(it, after, w) /\ ReadByte /\ items' = items
  BY HeaderTypes
<1>2. ReadBin(Head(wire)) /\ raw \in Seq(Byte) /\ escaped \in BOOLEAN
  BY <1>1, ReadModes DEF StillHeader, TypeInv, TypeOK
<1>3. d \in Seq(Byte) /\ Len(d) = size /\ SubSeq(d, 1, 5) = it.bytes /\ SubSeq(d, 6, size) = CrcBytes(it)
  BY <1>1, CheckedParts
<1>h. UnderWay(raw, d, escaped, wire, T)
  OBVIOUS
<1>. HIDE DEF T, d, size
<1>4. PICK b, rest : StepOn(raw, d, escaped, wire, T, b, rest)
  BY <1>1, <1>2, <1>h, UnderWayStep
<1>5. Head(wire) = b /\ wire' = rest
  BY <1>1, <1>4, ReadFirst DEF StepOn
<1>. DEFINE got == With(raw, escaped, b)
            starts == Starts(escaped, b)
<1>6. /\ StartsEscape(b) = starts
      /\ got = IF StartsEscape(b) THEN raw ELSE Append(raw, Collected(b))
  BY DEF StartsEscape, Starts, With, Meant, Collected
<1>7. size = IF mode = "bin32" THEN 9 ELSE 7
  BY DEF Size, size
<1>8. CASE got = d
  <2>1. rest = T /\ ~starts
    <3>1. ~(Len(got) < Len(d))
      BY <1>3, <1>7, <1>8
    <3>. QED BY <1>4, <3>1 DEF StepOn
  <2>2. /\ SubSeq(got, 1, 5) = it.bytes
        /\ SubSeq(got, 6, size) = IF mode = "bin32" THEN Bytes32(crc32(it.bytes))
                                                    ELSE Bytes16(crc16(it.bytes))
    BY <1>3, <1>8 DEF CrcBytes
  <2>3. Len(got) = size
    BY <1>3, <1>8
  <2>. HIDE DEF got, starts
  <2>4. delivered' = Append(delivered, Hdr(mode, it.bytes)) /\ Begin(AfterHeader(it.bytes[1]))
    <3>1. ~(Len(got) < size)
      BY <1>7, <2>3
    <3>. QED BY <1>2, <1>5, <1>6, <1>7, <2>2, <2>3, <3>1 DEF ReadBin, Matches
  <2>5. Hdr(mode, it.bytes) = it
    BY <1>1, ItemParts DEF Hdr
  <2>6. After(want, it) = AfterHeader(it.bytes[1])
    BY DEF After
  <2>7. wire' = Flow(after)
    BY <1>5, <2>1 DEF T
  <2>. QED BY <1>1, <2>4, <2>5, <2>6, <2>7, NextBegins
<1>9. CASE got # d
  <2>1. UnderWay(got, d, starts, rest, T) /\ Len(got) < size
    BY <1>3, <1>4, <1>9 DEF StepOn
  <2>a. Len(got) \in Nat
    <3>1. got \in Seq(Byte)
      BY <1>4 DEF StepOn
    <3>. QED BY <3>1, LenProperties
  <2>. HIDE DEF got
  <2>2. escaped' = starts /\ raw' = got /\ UNCHANGED <<mode, n, check, want, delivered>>
    <3>0. size \in Nat /\ Len(got) < size
      BY <1>7, <2>1
    <3>1. Len(got) # size
      BY <2>a, <3>0
    <3>2. EscapeEnds(b) /\ raw' = got /\ UNCHANGED <<mode, n, check, want, delivered>>
      BY <1>2, <1>5, <1>6, <1>7, <3>1 DEF ReadBin
    <3>. QED BY <1>6, <3>2 DEF EscapeEnds
  <2>3. InHeader(Reader', it, T)
    BY <1>5, <2>1, <2>2 DEF InHeader, Reader, d
  <2>4. InItem(Reader', it, Flow(after))
    BY <2>3 DEF InItem, T
  <2>. QED BY <1>1, <2>2, <2>4, StillReading
<1>. QED BY <1>8, <1>9

-----------------------------------------------------------------------------
(* A byte after a hex header, and of a subpacket                             *)

\* A hex header has been read, but for its CR and LF.
AtTrail(todo, w) ==
  /\ delivered \in Seq(Items) /\ todo \in Seq(Items) /\ items = delivered \o todo
  /\ Planned(items, w)
  /\ delivered # <<>> /\ Last(delivered).form = "hex"
  /\ AfterHeader(Last(delivered).bytes[1]) = w[Len(delivered)]

LEMMA CleanTrail ==
  ASSUME NEW todo, NEW w, AtTrail(todo, w), InTrail(Reader, todo), ReadByte
  PROVE  Clean'
<1>. DEFINE F == Flow(todo)
<1>1. /\ F \in Seq(Byte) /\ 13 \in Byte /\ 10 \in Byte
      /\ Before(10, F) \in Seq(Byte)
  <2>1. F \in Seq(Byte)
    BY FlowType DEF AtTrail
  <2>2. 13 \in Byte /\ 10 \in Byte
    BY TermsAreBytes
  <2>. HIDE DEF F
  <2>. QED BY <2>1, <2>2, BeforeParts
<1>2. mode = "trail" /\ ReadTrail(Head(wire)) /\ items' = items
  BY ReadModes DEF InTrail, Reader
<1>3. CASE n = 0
  <2>1. wire = Before(13, Before(10, F))
    BY <1>3 DEF InTrail, Reader
  <2>. HIDE DEF F
  <2>2. wire' = Before(10, F)
    BY <1>1, <2>1, ReadFirst
  <2>3. n' = 1 /\ UNCHANGED <<mode, escaped, raw, check, want, delivered>>
    BY <1>2, <1>3 DEF ReadTrail
  <2>4. InTrail(Reader', todo)
    BY <1>2, <2>2, <2>3 DEF InTrail, Reader, F
  <2>5. OnPlan(Reader', items', delivered', todo, w)
    BY <1>2, <2>3, <2>4 DEF OnPlan, AtTrail
  <2>. QED BY <2>5 DEF Clean
<1>4. CASE n = 1
  <2>1. wire = Before(10, F)
    BY <1>4 DEF InTrail, Reader
  <2>. HIDE DEF F
  <2>2. wire' = F
    BY <1>1, <2>1, ReadFirst
  <2>3. HexReturned
    BY <1>2, <1>4 DEF ReadTrail
  <2>4. Reader'.want = w[Len(delivered')] /\ Reader'.escaped = FALSE /\ Reader'.n = 0
        /\ Reader'.raw = <<>> /\ Reader'.wire = Flow(todo)
        /\ Reader'.mode = IF Reader'.want = "header" THEN "scan" ELSE "sub"
    BY <2>2, <2>3 DEF HexReturned, Begin, Reader, AtTrail, F
  <2>5. delivered' \in Seq(Items) /\ todo \in Seq(Items) /\ items' = delivered' \o todo
        /\ Planned(items', w)
    BY <1>2, <2>3 DEF AtTrail, HexReturned
  <2>6. OnPlan(Reader', items', delivered', todo, w)
    BY <2>4, <2>5, ReaderBegins
  <2>. QED BY <2>6 DEF Clean
<1>. QED BY <1>3, <1>4 DEF InTrail, Reader

\* The same for a subpacket.
StillSub(it, after, w) ==
  Amid(it, after, w) /\ it.form = "sub" /\ ReadByte /\ TypeInv

LEMMA SubTypes ==
  ASSUME NEW it, NEW after, NEW w, StillSub(it, after, w)
  PROVE  /\ it \in Items /\ it.form = "sub" /\ Flow(after) \in Seq(Byte)
         /\ TermWire(it, Flow(after)) \in Seq(Byte) /\ EndWire(it, Flow(after)) \in Seq(Byte)
         /\ CheckWire(it, Flow(after)) \in Seq(Byte)
         /\ CheckOf(it) \in Seq(Byte) /\ Len(CheckOf(it)) = 4
         /\ Last(it.bytes) \in Terms /\ Last(it.bytes) \in Byte
         /\ Front(it.bytes) \in Seq(Byte) /\ Append(Front(it.bytes), Last(it.bytes)) = it.bytes
         /\ Amid(it, after, w) /\ ReadByte /\ items' = items
         /\ escaped \in BOOLEAN /\ raw \in Seq(Byte) /\ check \in Seq(Byte)
<1>1. it \in Items /\ after \in Seq(Items) /\ it.form = "sub" /\ Amid(it, after, w) /\ ReadByte
  BY DEF StillSub, Amid, Position
<1>2. Flow(after) \in Seq(Byte)
  BY <1>1, FlowType
<1>3. it.bytes \in Seq(Byte) /\ it.bytes # <<>> /\ Last(it.bytes) \in Terms
  BY <1>1, ItemParts
<1>4. Front(it.bytes) \in Seq(Byte) /\ Append(Front(it.bytes), Last(it.bytes)) = it.bytes
  BY <1>3, FrontAndLast
<1>5. escaped \in BOOLEAN /\ raw \in Seq(Byte) /\ check \in Seq(Byte)
  BY DEF StillSub, TypeInv, TypeOK
<1>. QED BY <1>1, <1>2, <1>3, <1>4, <1>5, WireTypes, ReadModes

\* A byte of its data.
LEMMA CleanData ==
  ASSUME NEW it, NEW after, NEW w, StillSub(it, after, w), mode = "sub",
         UnderWay(raw, Front(it.bytes), escaped, wire, EndWire(it, Flow(after)))
  PROVE  Clean'
<1>. DEFINE T == Flow(after)
            E == EndWire(it, T)
            f == Front(it.bytes)
<1>1. /\ it \in Items /\ it.form = "sub" /\ E \in Seq(Byte) /\ f \in Seq(Byte)
      /\ Amid(it, after, w) /\ ReadByte /\ items' = items
      /\ escaped \in BOOLEAN /\ raw \in Seq(Byte)
  BY SubTypes
<1>h. UnderWay(raw, f, escaped, wire, E)
  OBVIOUS
<1>. HIDE DEF T, E, f
<1>2. PICK b, rest : StepOn(raw, f, escaped, wire, E, b, rest)
  BY <1>1, <1>h, UnderWayStep
<1>3. Head(wire) = b /\ wire' = rest
  BY <1>1, <1>2, ReadFirst DEF StepOn
<1>. DEFINE got == With(raw, escaped, b)
            starts == Starts(escaped, b)
<1>4. /\ StartsEscape(b) = starts
      /\ got = IF StartsEscape(b) THEN raw ELSE Append(raw, Collected(b))
  BY DEF StartsEscape, Starts, With, Meant, Collected
<1>5. ~(escaped /\ b \in Terms)
  BY <1>2 DEF StepOn
<1>. HIDE DEF got, starts
<1>6. escaped' = starts /\ raw' = got /\ UNCHANGED <<mode, n, check, want, delivered>>
  <2>1. ReadData(Head(wire))
    BY <1>1, ReadModes
  <2>. QED BY <1>3, <1>4, <1>5, <2>1 DEF ReadData, EscapeEnds
<1>7. \/ UnderWay(got, f, starts, rest, E)
      \/ got = f /\ rest = E /\ ~starts
  BY <1>2 DEF StepOn, got, starts
<1>8. InSub(Reader', it, T)
  BY <1>3, <1>6, <1>7 DEF InSub, Reader, E, f
<1>9. InItem(Reader', it, Flow(after))
  BY <1>1, <1>8 DEF InItem, T
<1>. QED BY <1>1, <1>6, <1>9, StillReading

\* The end of it.
LEMMA CleanEnd ==
  ASSUME NEW it, NEW after, NEW w, StillSub(it, after, w), mode = "sub",
         raw = Front(it.bytes),
         wire = IF escaped THEN TermWire(it, Flow(after)) ELSE EndWire(it, Flow(after))
  PROVE  Clean'
<1>. DEFINE T == Flow(after)
            W == TermWire(it, T)
            l == Last(it.bytes)
            c == CheckOf(it)
            C == CheckWire(it, T)
<1>1. /\ it \in Items /\ it.form = "sub" /\ W \in Seq(Byte) /\ C \in Seq(Byte) /\ T \in Seq(Byte)
      /\ l \in Terms /\ l \in Byte /\ Append(Front(it.bytes), l) = it.bytes
      /\ c \in Seq(Byte) /\ Len(c) = 4
      /\ Amid(it, after, w) /\ ReadByte /\ items' = items
      /\ escaped \in BOOLEAN /\ raw \in Seq(Byte)
  BY SubTypes
<1>2. ReadData(Head(wire)) /\ ZDLE \in Byte /\ check = <<>>
  <2>1. check = <<>>
    BY DEF StillSub, TypeInv, Raised
  <2>. QED BY <1>1, <2>1, ReadModes, TermsAreBytes
<1>3. EndWire(it, T) = Before(ZDLE, W) /\ W = Before(l, C)
  BY DEF EndWire, TermWire
<1>4. CASE ~escaped
  <2>. HIDE DEF W, T
  <2>1. wire = Before(ZDLE, W)
    BY <1>3, <1>4 DEF T
  <2>2. Head(wire) = ZDLE /\ wire' = W
    BY <1>1, <1>2, <2>1, ReadFirst
  <2>3. escaped' = TRUE /\ UNCHANGED <<mode, raw, n, check, want, delivered>>
    BY <1>2, <1>4, <2>2 DEF ReadData, EscapeEnds, StartsEscape
  <2>4. InSub(Reader', it, T)
    BY <2>2, <2>3 DEF InSub, Reader, W
  <2>5. InItem(Reader', it, Flow(after))
    BY <1>1, <2>4 DEF InItem, T
  <2>. QED BY <1>1, <2>3, <2>5, StillReading
<1>5. CASE escaped
  <2>1. wire = Before(l, C)
    BY <1>3, <1>5
  <2>. HIDE DEF W, T, l, C, c
  <2>2. Head(wire) = l /\ wire' = C
    BY <1>1, <2>1, ReadFirst
  <2>3. escaped' = FALSE /\ mode' = "crc" /\ raw' = Append(raw, l)
        /\ UNCHANGED <<n, check, want, delivered>>
    BY <1>1, <1>2, <1>5, <2>2 DEF ReadData, EscapeEnds, StartsEscape
  <2>4. raw' = it.bytes
    BY <1>1, <2>3
  <2>5. UnderWay(<<>>, c, FALSE, C, T)
    <3>1. <<>> \in Seq(Byte) /\ c = <<>> \o c /\ c # <<>>
      <4>1. c = <<>> \o c
        BY <1>1, ConcatEmptySeq
      <4>2. Len(c) # 0
        BY <1>1
      <4>3. c # <<>>
        BY <1>1, <4>2, EmptySeq
      <4>. QED BY <4>1, <4>3
    <3>2. C = ZdleEncode(c) \o T
      BY DEF C, CheckWire, c
    <3>. QED BY <1>1, <3>1, <3>2, MoreOrNot
  <2>6. InSub(Reader', it, T)
    BY <1>2, <2>2, <2>3, <2>4, <2>5 DEF InSub, Reader, c
  <2>7. InItem(Reader', it, Flow(after))
    BY <1>1, <2>6 DEF InItem, T
  <2>. QED BY <1>1, <2>3, <2>7, StillReading
<1>. QED BY <1>1, <1>4, <1>5

\* A byte of its CRC.
LEMMA CleanCheck ==
  ASSUME NEW it, NEW after, NEW w, StillSub(it, after, w), mode = "crc",
         raw = it.bytes, UnderWay(check, CheckOf(it), escaped, wire, Flow(after))
  PROVE  Clean'
<1>. DEFINE T == Flow(after)
            c == CheckOf(it)
<1>1. /\ it \in Items /\ it.form = "sub" /\ T \in Seq(Byte)
      /\ c \in Seq(Byte) /\ Len(c) = 4
      /\ Amid(it, after, w) /\ ReadByte /\ items' = items
      /\ escaped \in BOOLEAN /\ check \in Seq(Byte)
  BY SubTypes
<1>2. ReadCheck(Head(wire))
  BY <1>1, ReadModes
<1>h. UnderWay(check, c, escaped, wire, T) /\ c = Bytes32(crc32(raw))
  BY DEF CheckOf
<1>. HIDE DEF T, c
<1>3. PICK b, rest : StepOn(check, c, escaped, wire, T, b, rest)
  BY <1>1, <1>h, UnderWayStep
<1>4. Head(wire) = b /\ wire' = rest
  BY <1>1, <1>3, ReadFirst DEF StepOn
<1>. DEFINE got == With(check, escaped, b)
            starts == Starts(escaped, b)
<1>5. /\ StartsEscape(b) = starts
      /\ got = IF StartsEscape(b) THEN check ELSE Append(check, Collected(b))
  BY DEF StartsEscape, Starts, With, Meant, Collected
<1>6. \/ UnderWay(got, c, starts, rest, T) /\ Len(got) < Len(c)
      \/ got = c /\ rest = T /\ ~starts
  BY <1>3 DEF StepOn
<1>7. Len(got) \in Nat
  <2>1. got \in Seq(Byte)
    BY <1>3 DEF StepOn
  <2>. QED BY <2>1, LenProperties
<1>. HIDE DEF got, starts
<1>8. CASE got = c
  <2>1. rest = T /\ Len(got) = 4 /\ ~(Len(got) < 4) /\ ~(Len(got) < Len(c))
    <3>1. \A k \in Nat : k = 4 => ~(k < 4)
      OBVIOUS
    <3>2. Len(got) = 4 /\ Len(got) = Len(c)
      BY <1>1, <1>8, Zenon
    <3>3. ~(Len(got) < 4)
      BY <1>7, <3>1, <3>2, Zenon
    <3>4. ~(Len(got) < Len(c))
      BY <1>1, <3>3, Zenon
    <3>. QED BY <1>6, <3>2, <3>3, <3>4
  <2>2. delivered' = Append(delivered, [form |-> "sub", bytes |-> raw]) /\ Begin(AfterSub(want, Last(raw)))
    BY <1>2, <1>4, <1>5, <1>8, <1>h, <2>1 DEF ReadCheck, Matches
  <2>3. [form |-> "sub", bytes |-> raw] = it
    BY <1>1, ItemParts
  <2>4. After(want, it) = AfterSub(want, Last(raw))
    BY <1>1 DEF After
  <2>5. wire' = Flow(after)
    BY <1>4, <2>1 DEF T
  <2>. QED BY <1>1, <2>2, <2>3, <2>4, <2>5, NextBegins
<1>9. CASE got # c
  <2>1. UnderWay(got, c, starts, rest, T) /\ Len(got) < 4
    BY <1>1, <1>6, <1>9
  <2>2. Len(got) # 4
    <3>1. \A k \in Nat : k < 4 => k # 4
      OBVIOUS
    <3>. QED BY <1>7, <2>1, <3>1, Zenon
  <2>3. escaped' = starts /\ check' = got /\ UNCHANGED <<mode, n, raw, want, delivered>>
    BY <1>2, <1>4, <1>5, <2>2 DEF ReadCheck, EscapeEnds
  <2>4. InSub(Reader', it, T)
    BY <1>4, <2>1, <2>3 DEF InSub, Reader, c
  <2>5. InItem(Reader', it, Flow(after))
    BY <1>1, <2>4 DEF InItem, T
  <2>. QED BY <1>1, <2>3, <2>5, StillReading
<1>. QED BY <1>8, <1>9

-----------------------------------------------------------------------------
(* A clean line stays clean                                                  *)

LEMMA CleanByte ==
  ASSUME NEW it, NEW after, NEW w, Amid(it, after, w), InItem(Reader, it, Flow(after)),
         ReadByte, TypeInv
  PROVE  Clean'
<1>1. CASE it.form = "sub"
  <2>1. StillSub(it, after, w) /\ InSub(Reader, it, Flow(after))
    BY <1>1 DEF StillSub, InItem
  <2>2. CASE mode = "sub" /\ UnderWay(raw, Front(it.bytes), escaped, wire, EndWire(it, Flow(after)))
    BY <2>1, <2>2, CleanData
  <2>3. CASE /\ mode = "sub" /\ raw = Front(it.bytes)
             /\ wire = IF escaped THEN TermWire(it, Flow(after)) ELSE EndWire(it, Flow(after))
    BY <2>1, <2>3, CleanEnd
  <2>4. CASE mode = "crc" /\ raw = it.bytes /\ UnderWay(check, CheckOf(it), escaped, wire, Flow(after))
    BY <2>1, <2>4, CleanCheck
  <2>. QED BY <2>1, <2>2, <2>3, <2>4 DEF InSub, Reader
<1>2. CASE it.form # "sub"
  <2>1. StillHeader(it, after, w) /\ InHeader(Reader, it, Flow(after))
    BY <1>2 DEF StillHeader, InItem
  <2>2. CASE mode = "scan"
    <3>1. PICK k \in 0..2 : n + k <= 2 /\ wire = Stars(k, Marked(it, Flow(after)))
      BY <2>1, <2>2 DEF InHeader, Reader
    <3>. QED BY <2>1, <2>2, <3>1, CleanScan
  <2>3. CASE mode = "fmt" /\ wire = FormWire(it, Flow(after))
    BY <2>1, <2>3, CleanFormat
  <2>4. CASE /\ mode = "hex" /\ it.form = "hex" /\ n = Len(raw)
             /\ Spelling(raw, Hex(Checked(it)), wire, Before(13, Before(10, Flow(after))))
    BY <2>1, <2>4, CleanHex
  <2>5. CASE /\ mode \in {"bin16", "bin32"} /\ it.form = mode
             /\ UnderWay(raw, Checked(it), escaped, wire, Flow(after))
    BY <2>1, <2>5, CleanBin
  <2>. QED BY <2>1, <2>2, <2>3, <2>4, <2>5 DEF InHeader, Reader
<1>. QED BY <1>1, <1>2

\* While an item is read there is more of it to come.
LEMMA MoreToCome ==
  ASSUME NEW it \in Items, NEW T \in Seq(Byte), NEW r, r.escaped \in BOOLEAN, InItem(r, it, T)
  PROVE  r.wire # <<>> /\ r.mode # "trail"
<1>1. \A b \in Byte : \A s \in Seq(Byte) : Before(b, s) # <<>> /\ Before(b, s) \in Seq(Byte)
  BY BeforeParts
<1>2. ASSUME NEW got, NEW full, NEW X \in Seq(Byte), UnderWay(got, full, r.escaped, r.wire, X)
      PROVE  r.wire # <<>>
  <2>1. PICK h \in Byte, rest \in Seq(Byte) : r.wire = Coming(h, r.escaped, ZdleEncode(rest) \o X)
    BY <1>2 DEF UnderWay
  <2>. DEFINE Y == ZdleEncode(rest) \o X
  <2>2. Y \in Seq(Byte)
    <3>1. ZdleEncode(rest) \in Seq(Byte)
      BY EncodeType
    <3>. QED BY <3>1, ConcatProperties
  <2>. HIDE DEF Y
  <2>3. Toggle(h) \in Byte /\ ZDLE \in Byte
    BY ToggleBack, TermsAreBytes
  <2>f. /\ MustEscape(h) => Coming(h, FALSE, Y) = Before(ZDLE, Coming(h, TRUE, Y))
        /\ ~MustEscape(h) => Coming(h, FALSE, Y) = Before(h, Y)
        /\ Coming(h, TRUE, Y) = Before(Toggle(h), Y)
    BY <2>2, ComingForms
  <2>4. Coming(h, TRUE, Y) # <<>> /\ Coming(h, TRUE, Y) \in Seq(Byte)
    <3>1. Before(Toggle(h), Y) # <<>> /\ Before(Toggle(h), Y) \in Seq(Byte)
      BY <1>1, <2>2, <2>3
    <3>. QED BY <2>f, <3>1
  <2>5. Coming(h, FALSE, Y) # <<>>
    <3>. DEFINE Z == Coming(h, TRUE, Y)
    <3>. HIDE DEF Z
    <3>0. Z \in Seq(Byte)
      BY <2>4 DEF Z
    <3>1. CASE MustEscape(h)
      <4>1. Before(ZDLE, Z) # <<>>
        BY <1>1, <2>3, <3>0
      <4>. QED BY <2>f, <3>1, <4>1 DEF Z
    <3>2. CASE ~MustEscape(h)
      <4>1. Before(h, Y) # <<>>
        BY <1>1, <2>2
      <4>. QED BY <2>f, <3>2, <4>1
    <3>. QED BY <3>1, <3>2
  <2>6. r.wire = Coming(h, TRUE, Y) \/ r.wire = Coming(h, FALSE, Y)
    <3>1. r.escaped = TRUE \/ r.escaped = FALSE
      OBVIOUS
    <3>. QED BY <2>1, <3>1 DEF Y
  <2>. QED BY <2>4, <2>5, <2>6
<1>3. CASE it.form = "sub"
  <2>1. EndWire(it, T) \in Seq(Byte) /\ TermWire(it, T) \in Seq(Byte)
    BY <1>3, WireTypes
  <2>2. EndWire(it, T) # <<>> /\ TermWire(it, T) # <<>>
    <3>1. ZDLE \in Byte /\ Last(it.bytes) \in Byte /\ CheckWire(it, T) \in Seq(Byte)
      BY <1>3, WireTypes, TermsAreBytes
    <3>. QED BY <1>1, <2>1, <3>1 DEF EndWire, TermWire
  <2>3. InSub(r, it, T)
    BY <1>3 DEF InItem
  <2>4. r.mode # "trail"
    BY <2>3 DEF InSub
  <2>. QED BY <1>2, <2>1, <2>2, <2>3, <2>4 DEF InSub
<1>4. CASE it.form # "sub"
  <2>1. /\ FormWire(it, T) \in Seq(Byte) /\ Marked(it, T) \in Seq(Byte) /\ BodyWire(it, T) \in Seq(Byte)
        /\ Forms[it.form] \in Byte /\ ZDLE \in Byte /\ 42 \in Byte
    BY <1>4, WireTypes, TermsAreBytes
  <2>2. FormWire(it, T) # <<>> /\ Marked(it, T) # <<>>
    BY <1>1, <2>1 DEF FormWire, Marked
  <2>3. \A k \in 0..2 : Stars(k, Marked(it, T)) # <<>>
    BY <1>1, <2>1, <2>2 DEF Stars
  <2>4. InHeader(r, it, T)
    BY <1>4 DEF InItem
  <2>5. r.mode # "trail"
    BY <2>4 DEF InHeader
  <2>6. ASSUME NEW got, NEW full, NEW X \in Seq(Byte), Spelling(got, full, r.wire, X)
        PROVE  r.wire # <<>>
    <3>1. PICK h \in Byte, rest \in Seq(Byte) : r.wire = Before(h, rest \o X)
      BY <2>6 DEF Spelling
    <3>2. rest \o X \in Seq(Byte)
      BY ConcatProperties
    <3>. QED BY <1>1, <3>1, <3>2
  <2>7. Before(13, Before(10, T)) \in Seq(Byte)
    <3>1. 13 \in Byte /\ 10 \in Byte
      BY TermsAreBytes
    <3>. QED BY <1>1, <3>1
  <2>8. \/ \E k \in 0..2 : r.wire = Stars(k, Marked(it, T))
        \/ r.wire = FormWire(it, T)
        \/ Spelling(r.raw, Hex(Checked(it)), r.wire, Before(13, Before(10, T)))
        \/ UnderWay(r.raw, Checked(it), r.escaped, r.wire, T)
    BY <2>4 DEF InHeader
  <2>9. r.wire # <<>>
    BY <1>2, <2>2, <2>3, <2>6, <2>7, <2>8
  <2>. QED BY <2>5, <2>9
<1>. QED BY <1>3, <1>4

LEMMA CleanStep ==
  ASSUME TypeInv, Clean, faults = 0, Next \/ UNCHANGED vars, faults' = 0
  PROVE  Clean'
<1>1. PICK todo, w : OnPlan(Reader, items, delivered, todo, w)
  BY DEF Clean
<1>2. /\ delivered \in Seq(Items) /\ todo \in Seq(Items) /\ items = delivered \o todo
      /\ Planned(items, w)
  BY <1>1 DEF OnPlan
<1>e. escaped \in BOOLEAN /\ Reader.escaped = escaped /\ Reader.wire = wire /\ Reader.mode = mode
      /\ Reader.want = want
  BY DEF TypeInv, TypeOK, Reader
<1>3. ASSUME Reads(Reader, todo), want = w[Len(delivered)], todo # <<>>
      PROVE  \E it \in Items, after \in Seq(Items) :
               Amid(it, after, w) /\ InItem(Reader, it, Flow(after))
  <2>1. PICK it \in Items, after \in Seq(Items) :
          todo = Before(it, after) /\ InItem(Reader, it, Flow(after))
    BY <1>3 DEF Reads
  <2>2. Position(items, delivered, it, after)
    BY <1>2, <2>1 DEF Position
  <2>3. it.form = "sub" <=> want # "header"
    BY <1>2, <1>3, <2>2, AtItem
  <2>. QED BY <1>2, <1>3, <2>1, <2>2, <2>3 DEF Amid
<1>4. \/ want = w[Len(delivered)] /\ Reads(Reader, todo)
      \/ AtTrail(todo, w) /\ InTrail(Reader, todo)
  BY <1>1, <1>e DEF OnPlan, AtTrail
<1>5. ASSUME AtTrail(todo, w), InTrail(Reader, todo) PROVE wire # <<>> /\ mode = "trail"
  <2>1. Flow(todo) \in Seq(Byte) /\ 13 \in Byte /\ 10 \in Byte
    BY <1>2, FlowType, TermsAreBytes
  <2>2. \A b \in Byte : \A s \in Seq(Byte) : Before(b, s) # <<>> /\ Before(b, s) \in Seq(Byte)
    BY BeforeParts
  <2>. QED BY <1>5, <1>e, <2>1, <2>2 DEF InTrail
<1>6. ASSUME ReadByte PROVE Clean'
  <2>1. wire # <<>>
    BY <1>6, ReadModes
  <2>2. CASE want = w[Len(delivered)] /\ Reads(Reader, todo)
    <3>1. CASE todo = <<>>
      <4>1. \E it \in Items, after \in Seq(Items) : todo = Before(it, after)
        BY <1>e, <2>1, <2>2 DEF Reads
      <4>. QED BY <3>1, <4>1, BeforeParts
    <3>2. CASE todo # <<>>
      BY <1>3, <1>6, <2>2, <3>2, CleanByte
    <3>. QED BY <3>1, <3>2
  <2>3. CASE AtTrail(todo, w) /\ InTrail(Reader, todo)
    BY <1>6, <2>3, CleanTrail
  <2>. QED BY <1>4, <2>2, <2>3
<1>7. ASSUME ReadTimeout PROVE Clean'
  <2>1. ~Fault
    BY DEF Fault
  <2>2. wire = <<>> /\ wire' = <<>> /\ items' = items
    BY <1>7, <2>1 DEF ReadTimeout
  <2>3. want = w[Len(delivered)] /\ Reads(Reader, todo)
    BY <1>4, <1>5, <2>2
  <2>4. todo = <<>>
    <3>1. SUFFICES ASSUME todo # <<>> PROVE FALSE
      OBVIOUS
    <3>2. PICK it \in Items, after \in Seq(Items) : InItem(Reader, it, Flow(after))
      BY <1>3, <2>3, <3>1
    <3>3. Flow(after) \in Seq(Byte)
      BY FlowType
    <3>4. wire # <<>>
      BY <1>e, <3>2, <3>3, MoreToCome
    <3>. QED BY <2>2, <3>4
  <2>5. mode # "trail"
    <3>1. SUFFICES ASSUME mode = "trail" PROVE FALSE
      OBVIOUS
    <3>2. PICK it \in Items, after \in Seq(Items) : InItem(Reader, it, Flow(after))
      BY <1>e, <2>3, <3>1 DEF Reads
    <3>3. Flow(after) \in Seq(Byte)
      BY FlowType
    <3>. QED BY <1>e, <3>1, <3>2, <3>3, MoreToCome
  <2>6. Fail("timeout")
    BY <1>7, <2>1, <2>5 DEF ReadTimeout
  <2>7. Reads(Reader', todo) /\ Reader'.want = w[Len(delivered')]
    BY <2>2, <2>3, <2>4, <2>6 DEF Reads, Reader, Fail
  <2>8. delivered' = delivered
    BY <2>6 DEF Fail
  <2>9. OnPlan(Reader', items', delivered', todo, w)
    BY <1>2, <2>2, <2>7, <2>8 DEF OnPlan
  <2>. QED BY <2>9 DEF Clean
<1>8. ASSUME LineFault PROVE Clean'
  BY <1>8 DEF LineFault, Fault
<1>9. CASE UNCHANGED vars
  <2>1. Reader' = Reader /\ items' = items /\ delivered' = delivered
    BY <1>9 DEF vars, Reader
  <2>2. OnPlan(Reader', items', delivered', todo, w)
    BY <1>1, <2>1
  <2>. QED BY <2>2 DEF Clean
<1>. QED BY <1>6, <1>7, <1>8, <1>9 DEF Next

-----------------------------------------------------------------------------
(* Types                                                                     *)

\* TypeInv, but for the line.
ReaderInv ==
  /\ mode \in Reading \cup Raised
  /\ escaped \in BOOLEAN
  /\ n \in Nat
  /\ mode = "scan" => n < ScanLimit
  /\ mode = "hex" => n < 16
  /\ mode = "trail" => n < 2
  /\ raw \in Seq(Byte)
  /\ mode = "hex" => Len(raw) < 14
  /\ mode \in {"bin16", "bin32"} => Len(raw) < 9
  /\ check \in Seq(Byte) /\ Len(check) < 4
  /\ want \in Wants
  /\ mode \in {"scan", "fmt"} => raw = <<>> /\ ~escaped
  /\ mode \notin {"crc"} \cup Raised => check = <<>>
  /\ mode = "crc" => raw # <<>>

LineInv == items \in Batches /\ wire \in Seq(Byte) /\ faults \in 0..MaxFaults

LEMMA TypeParts == TypeInv <=> ReaderInv /\ LineInv
BY DEF TypeInv, TypeOK, ReaderInv, LineInv, Wants

LEMMA TypePartsNext == TypeInv' <=> ReaderInv' /\ LineInv'
BY DEF TypeInv, TypeOK, ReaderInv, LineInv, Wants

LEMMA BeginTypes ==
  ASSUME NEW w \in Wants, Begin(w) PROVE ReaderInv'
<1>1. <<>> \in Seq(Byte) /\ Len(<<>>) = 0
  OBVIOUS
<1>2. ScanLimit \in Nat /\ 0 < ScanLimit
  BY ConstantsAssumption
<1>3. mode' \in {"scan", "sub"} /\ n' = 0 /\ escaped' = FALSE /\ want' \in Wants
      /\ raw' = <<>> /\ check' = <<>>
  BY DEF Begin
<1>4. raw' \in Seq(Byte) /\ check' \in Seq(Byte) /\ Len(check') = 0
  BY <1>1, <1>3
<1>5. Len(check') < 4
  BY <1>4
<1>6. /\ mode' \in Reading \cup Raised /\ n' \in Nat /\ n' < ScanLimit
      /\ mode' \notin {"hex", "trail", "bin16", "bin32", "crc"}
  BY <1>2, <1>3 DEF Reading
<1>. QED BY <1>3, <1>4, <1>5, <1>6 DEF ReaderInv

LEMMA FailTypes ==
  ASSUME ReaderInv, NEW how \in Raised, Fail(how) PROVE ReaderInv'
<1>1. how \in Reading \cup Raised /\ how \notin {"scan", "fmt", "hex", "trail", "bin16", "bin32", "crc"}
  BY DEF Raised
<1>. QED BY <1>1 DEF Fail, ReaderInv

LEMMA WantsTypes ==
  /\ \A type : AfterHeader(type) \in Wants
  /\ \A w, term : AfterSub(w, term) \in Wants
BY DEF AfterHeader, AfterSub, Wants

LEMMA RaisedTypes == {"protocol", "value", "timeout"} = Raised
BY DEF Raised

LEMMA ReadTypes ==
  ASSUME TypeInv, ReadByte PROVE ReaderInv'
<1>. DEFINE b == Head(wire)
<1>1. ReaderInv /\ wire # <<>> /\ b \in Byte
  <2>1. ReaderInv /\ LineInv /\ wire # <<>>
    BY TypeParts, ReadModes
  <2>. QED BY <2>1, HeadTailProperties DEF LineInv
<1>2. ScanLimit \in Nat
  BY ConstantsAssumption
<1>3. \A s \in Seq(Byte), c \in Byte :
        Append(s, c) \in Seq(Byte) /\ Append(s, c) # <<>> /\ Len(Append(s, c)) = Len(s) + 1
  BY AppendProperties
<1>4. Collected(b) \in Byte
  BY <1>1, ToggleBack DEF Collected
<1>5. Len(raw) \in Nat /\ Len(check) \in Nat
  BY <1>1, LenProperties DEF ReaderInv
<1>. HIDE DEF b
<1>6. ASSUME Scan(b) PROVE ReaderInv'
  <2>1. CASE mode' = "fmt" /\ UNCHANGED <<escaped, n, raw, check, want, delivered>>
    BY <1>1, <1>6, <2>1 DEF ReaderInv, Scan, Reading, Raised
  <2>2. CASE n + 1 < ScanLimit /\ n' = n + 1 /\ UNCHANGED <<mode, escaped, raw, check, want, delivered>>
    BY <1>1, <1>2, <1>6, <2>2 DEF ReaderInv, Scan
  <2>3. CASE Fail("protocol")
    BY <1>1, <2>3, FailTypes, RaisedTypes
  <2>. QED BY <1>6, <2>1, <2>2, <2>3 DEF Scan
<1>7. ASSUME ReadFormat(b) PROVE ReaderInv'
  <2>1. CASE \E f \in DOMAIN Forms : Forms[f] = b /\ mode' = f /\ n' = 0
             /\ UNCHANGED <<escaped, raw, check, want, delivered>>
    <3>1. mode' \in {"hex", "bin16", "bin32"} /\ n' = 0 /\ UNCHANGED <<escaped, raw, check, want>>
      BY <2>1, TermsAreBytes
    <3>2. raw = <<>> /\ check = <<>> /\ Len(<<>>) = 0
      BY <1>1, <1>7 DEF ReadFormat, ReaderInv, Raised
    <3>. QED BY <1>1, <3>1, <3>2 DEF ReaderInv, Reading, Raised
  <2>2. CASE Fail("protocol")
    BY <1>1, <2>2, FailTypes, RaisedTypes
  <2>. QED BY <1>7, <2>1, <2>2 DEF ReadFormat
<1>8. ASSUME ReadHex(b) PROVE ReaderInv'
  <2>. DEFINE digits == IF b \in {13, 10, 141} THEN raw ELSE Append(raw, b)
  <2>1. digits \in Seq(Byte) /\ Len(digits) \in Nat /\ Len(digits) <= Len(raw) + 1
    BY <1>1, <1>3, <1>5 DEF ReaderInv
  <2>2. mode = "hex" /\ n \in Nat /\ Len(raw) < 14
    BY <1>1, <1>8 DEF ReadHex, ReaderInv
  <2>3. \/ HexDone(digits)
        \/ /\ ~Complete(digits) /\ n + 1 < 16 /\ n' = n + 1 /\ raw' = digits
           /\ UNCHANGED <<mode, escaped, check, want, delivered>>
        \/ Fail("protocol")
    BY <1>8 DEF ReadHex
  <2>. HIDE DEF digits
  <2>4. CASE HexDone(digits)
    <3>1. CASE Fail("protocol")
      BY <1>1, <3>1, FailTypes, RaisedTypes
    <3>2. CASE Fail("value")
      BY <1>1, <3>2, FailTypes, RaisedTypes
    <3>3. CASE mode' = "trail" /\ n' = 0 /\ UNCHANGED <<escaped, raw, check, want>>
      <4>1. check = <<>>
        BY <1>1, <2>2 DEF ReaderInv, Raised
      <4>. QED BY <1>1, <3>3, <4>1 DEF ReaderInv, Reading, Raised
    <3>. QED BY <2>4, <3>1, <3>2, <3>3 DEF HexDone
  <2>5. CASE /\ ~Complete(digits) /\ n + 1 < 16 /\ n' = n + 1 /\ raw' = digits
             /\ UNCHANGED <<mode, escaped, check, want, delivered>>
    <3>1. Len(digits) < 14
      <4>1. Len(digits) # 14
        BY <2>5 DEF Complete
      <4>2. \A k, l \in Nat : l < 14 /\ k <= l + 1 /\ k # 14 => k < 14
        OBVIOUS
      <4>. QED BY <1>5, <2>1, <2>2, <4>1, <4>2, Zenon
    <3>. QED BY <1>1, <2>1, <2>2, <2>5, <3>1 DEF ReaderInv
  <2>6. CASE Fail("protocol")
    BY <1>1, <2>6, FailTypes, RaisedTypes
  <2>. QED BY <2>3, <2>4, <2>5, <2>6
<1>9. ASSUME ReadTrail(b) PROVE ReaderInv'
  <2>1. CASE n' = 1 /\ UNCHANGED <<mode, escaped, raw, check, want, delivered>>
    BY <1>1, <1>9, <2>1 DEF ReaderInv, ReadTrail
  <2>2. CASE HexReturned
    BY <2>2, WantsTypes, BeginTypes DEF HexReturned
  <2>. QED BY <1>9, <2>1, <2>2 DEF ReadTrail
<1>10. ASSUME ReadBin(b) PROVE ReaderInv'
  <2>. DEFINE got == IF StartsEscape(b) THEN raw ELSE Append(raw, Collected(b))
              size == IF mode = "bin32" THEN 9 ELSE 7
              bytes == SubSeq(got, 1, 5)
  <2>1. got \in Seq(Byte) /\ size \in {7, 9} /\ mode \in {"bin16", "bin32"}
    BY <1>1, <1>3, <1>4, <1>10 DEF ReaderInv, ReadBin
  <2>2. \/ Len(got) < size /\ EscapeEnds(b) /\ raw' = got /\ UNCHANGED <<mode, n, check, want, delivered>>
        \/ Begin(AfterHeader(bytes[1]))
        \/ Fail("protocol")
    BY <1>10 DEF ReadBin
  <2>3. StartsEscape(b) \in BOOLEAN
    BY DEF StartsEscape
  <2>. HIDE DEF got, bytes, size
  <2>4. CASE Len(got) < size /\ EscapeEnds(b) /\ raw' = got
             /\ UNCHANGED <<mode, n, check, want, delivered>>
    <3>1. Len(got) < 9
      <4>1. \A k \in Nat : k < 7 \/ k < 9 => k < 9
        OBVIOUS
      <4>2. Len(got) \in Nat
        BY <2>1, LenProperties
      <4>. QED BY <2>1, <2>4, <4>1, <4>2
    <3>2. escaped' \in BOOLEAN
      BY <2>3, <2>4 DEF EscapeEnds
    <3>. QED BY <1>1, <2>1, <2>4, <3>1, <3>2 DEF ReaderInv
  <2>5. CASE Begin(AfterHeader(bytes[1]))
    BY <2>5, WantsTypes, BeginTypes
  <2>6. CASE Fail("protocol")
    BY <1>1, <2>6, FailTypes, RaisedTypes
  <2>. QED BY <2>2, <2>4, <2>5, <2>6
<1>11. ASSUME ReadData(b) PROVE ReaderInv'
  <2>1. escaped' \in BOOLEAN /\ mode = "sub" /\ UNCHANGED <<n, check, want>> /\ check = <<>>
    BY <1>1, <1>11 DEF ReadData, EscapeEnds, StartsEscape, ReaderInv, Raised
  <2>2. CASE mode' = "crc" /\ raw' = Append(raw, b)
    <3>1. raw' \in Seq(Byte) /\ raw' # <<>>
      BY <1>1, <1>3, <2>2 DEF ReaderInv
    <3>. QED BY <1>1, <2>1, <2>2, <3>1 DEF ReaderInv, Reading, Raised
  <2>3. CASE raw' = (IF StartsEscape(b) THEN raw ELSE Append(raw, Collected(b))) /\ mode' = mode
    <3>1. raw' \in Seq(Byte)
      BY <1>1, <1>3, <1>4, <2>3 DEF ReaderInv
    <3>. QED BY <1>1, <2>1, <2>3, <3>1 DEF ReaderInv, Reading, Raised
  <2>. QED BY <1>11, <2>2, <2>3 DEF ReadData
<1>12. ASSUME ReadCheck(b) PROVE ReaderInv'
  <2>. DEFINE got == IF StartsEscape(b) THEN check ELSE Append(check, Collected(b))
  <2>1. got \in Seq(Byte) /\ mode = "crc"
    BY <1>1, <1>3, <1>4, <1>12 DEF ReaderInv, ReadCheck
  <2>2. \/ Len(got) < 4 /\ EscapeEnds(b) /\ check' = got /\ UNCHANGED <<mode, n, raw, want, delivered>>
        \/ Begin(AfterSub(want, Last(raw)))
        \/ Fail("protocol")
    BY <1>12 DEF ReadCheck
  <2>3. StartsEscape(b) \in BOOLEAN
    BY DEF StartsEscape
  <2>. HIDE DEF got
  <2>4. CASE Len(got) < 4 /\ EscapeEnds(b) /\ check' = got
             /\ UNCHANGED <<mode, n, raw, want, delivered>>
    <3>1. escaped' \in BOOLEAN
      BY <2>3, <2>4 DEF EscapeEnds
    <3>. QED BY <1>1, <2>1, <2>4, <3>1 DEF ReaderInv
  <2>5. CASE Begin(AfterSub(want, Last(raw)))
    BY <2>5, WantsTypes, BeginTypes
  <2>6. CASE Fail("protocol")
    BY <1>1, <2>6, FailTypes, RaisedTypes
  <2>. QED BY <2>2, <2>4, <2>5, <2>6
<1>. QED BY <1>6, <1>7, <1>8, <1>9, <1>10, <1>11, <1>12, ReadModes DEF b

\* What a byte turns into is a byte.
LEMMA DamagedType ==
  ASSUME NEW a \in Byte, NEW b \in NoiseBytes \cup Flipped(a) PROVE b \in Byte
<1>1. 1 \in Byte /\ 2 \in Byte /\ 64 \in Byte /\ 128 \in Byte
  BY ByteNat
<1>2. Flipped(a) \subseteq Byte
  BY <1>1, XorWidths DEF Flipped
<1>. QED BY <1>2, ConstantsAssumption

LEMMA TypeStep == TypeInv /\ (Next \/ UNCHANGED vars) => TypeInv'
<1>. SUFFICES ASSUME TypeInv, Next \/ UNCHANGED vars PROVE TypeInv'
  OBVIOUS
<1>1. ReaderInv /\ items \in Batches /\ wire \in Seq(Byte) /\ faults \in 0..MaxFaults
  BY TypeParts DEF LineInv
<1>2. MaxFaults \in Nat
  BY ConstantsAssumption
<1>3. wire # <<>> => Head(wire) \in Byte /\ Tail(wire) \in Seq(Byte)
  BY <1>1, HeadTailProperties
<1>4. CASE ReadByte
  <2>1. LineInv'
    BY <1>1, <1>3, <1>4, ReadModes DEF LineInv
  <2>. QED BY <1>4, <2>1, ReadTypes, TypePartsNext
<1>5. CASE ReadTimeout
  <2>1. faults' \in 0..MaxFaults
    BY <1>1, <1>2, <1>5 DEF ReadTimeout, Fault
  <2>2. LineInv'
    BY <1>1, <1>5, <2>1 DEF ReadTimeout, LineInv
  <2>3. CASE Fail("timeout")
    BY <1>1, <2>2, <2>3, FailTypes, RaisedTypes, TypePartsNext
  <2>4. CASE HexReturned
    <3>1. ReaderInv'
      BY <2>4, WantsTypes, BeginTypes DEF HexReturned
    <3>. QED BY <2>2, <3>1, TypePartsNext
  <2>. QED BY <1>5, <2>3, <2>4 DEF ReadTimeout
<1>6. CASE LineFault
  <2>1. faults' \in 0..MaxFaults
    BY <1>1, <1>2, <1>6 DEF LineFault, Fault
  <2>2. wire' \in Seq(Byte)
    <3>1. wire # <<>>
      BY <1>6 DEF LineFault
    <3>2. ASSUME NEW b \in NoiseBytes \cup Flipped(Head(wire)), wire' = << b >> \o Tail(wire)
          PROVE  wire' \in Seq(Byte)
      <4>1. b \in Byte
        BY <1>3, <3>1, DamagedType
      <4>2. Before(b, Tail(wire)) \in Seq(Byte)
        BY <1>3, <3>1, <4>1, BeforeParts
      <4>. QED BY <3>2, <4>2 DEF Before
    <3>. QED BY <1>3, <1>6, <3>1, <3>2 DEF LineFault
  <2>3. LineInv'
    BY <1>1, <1>6, <2>1, <2>2 DEF LineFault, LineInv
  <2>4. ReaderInv'
    BY <1>1, <1>6 DEF LineFault, ReaderInv
  <2>. QED BY <2>3, <2>4, TypePartsNext
<1>7. CASE UNCHANGED vars
  <2>1. ReaderInv' /\ LineInv'
    BY <1>1, <1>7 DEF vars, ReaderInv, LineInv
  <2>. QED BY <2>1, TypePartsNext
<1>. QED BY <1>4, <1>5, <1>6, <1>7 DEF Next

LEMMA CleanInit == Init => CleanInv
<1>. SUFFICES ASSUME Init PROVE CleanInv
  OBVIOUS
<1>1. items \in Seq(Items) /\ Orderly(items) /\ items \in Batches
  BY BatchesAssumption DEF Init
<1>2. wire = Flow(items)
  <2>1. \A i \in 1..Len(items) : items[i] \in Items
    BY <1>1, ElementOfSeq
  <2>2. \A i \in 1..Len(items) : Encoded(items[i]) = Encoding[items[i]]
    BY <2>1 DEF Encoding
  <2>3. [i \in 1..Len(items) |-> Encoded(items[i])] = [i \in 1..Len(items) |-> Encoding[items[i]]]
    BY <2>2, Zenon
  <2>4. wire = FlattenSeq([i \in 1..Len(items) |-> Encoded(items[i])])
    BY DEF Init
  <2>. QED BY <2>3, <2>4, Zenon DEF Flow, Mapped
<1>3. TypeInv
  <2>1. wire \in Seq(Byte)
    BY <1>1, <1>2, FlowType
  <2>2. LineInv
    BY <1>1, <2>1, ConstantsAssumption DEF Init, LineInv
  <2>3. ReaderInv
    <3>1. <<>> \in Seq(Byte) /\ Len(<<>>) = 0
      OBVIOUS
    <3>2. mode = "scan" /\ want = "header" /\ n = 0 /\ escaped = FALSE /\ raw = <<>> /\ check = <<>>
      BY DEF Init
    <3>3. raw \in Seq(Byte) /\ check \in Seq(Byte) /\ Len(check) = 0
      BY <3>1, <3>2
    <3>4. Len(check) < 4
      BY <3>3
    <3>5. /\ mode \in Reading \cup Raised /\ n \in Nat /\ n < ScanLimit /\ want \in Wants
          /\ mode \notin {"hex", "trail", "bin16", "bin32", "crc"}
      BY <3>2, ConstantsAssumption DEF Reading, Wants
    <3>. QED BY <3>2, <3>3, <3>4, <3>5 DEF ReaderInv
  <2>. QED BY <2>2, <2>3, TypeParts
<1>4. Clean
  <2>1. PICK w \in [0..Len(items) -> Wants] :
          /\ w[0] = "header"
          /\ \A i \in 1..Len(items) :
               /\ items[i].form = "sub" <=> w[i - 1] # "header"
               /\ w[i] = After(w[i - 1], items[i])
    BY <1>1 DEF Orderly, Wants
  <2>2. Planned(items, w)
    BY <2>1 DEF Planned
  <2>3. <<>> \in Seq(Items) /\ items = <<>> \o items /\ Len(<<>>) = 0 /\ delivered = <<>>
    <3>1. items = <<>> \o items
      BY <1>1, ConcatEmptySeq
    <3>. QED BY <3>1 DEF Init
  <2>4. /\ Reader.want = w[Len(delivered)] /\ Reader.escaped = FALSE /\ Reader.n = 0
        /\ Reader.raw = <<>> /\ Reader.wire = Flow(items)
        /\ Reader.mode = IF Reader.want = "header" THEN "scan" ELSE "sub"
    BY <1>2, <2>1, <2>3 DEF Init, Reader
  <2>5. delivered \in Seq(Items) /\ items = delivered \o items
    BY <2>3
  <2>6. OnPlan(Reader, items, delivered, items, w)
    BY <1>1, <2>2, <2>4, <2>5, ReaderBegins
  <2>. QED BY <2>6 DEF Clean
<1>. QED BY <1>3, <1>4 DEF CleanInv

LEMMA CleanNext == CleanInv /\ [Next]_vars => CleanInv'
<1>. SUFFICES ASSUME CleanInv, Next \/ UNCHANGED vars PROVE CleanInv'
  OBVIOUS
<1>1. TypeInv /\ TypeInv'
  BY TypeStep DEF CleanInv
<1>2. ASSUME faults' = 0 PROVE Clean'
  <2>1. faults = 0
    <3>1. faults \in Nat
      BY <1>1, ConstantsAssumption DEF TypeInv, TypeOK
    <3>2. faults' = faults \/ faults' = faults + 1
      BY DEF Next, ReadByte, ReadTimeout, LineFault, Fault, vars
    <3>. QED BY <1>2, <3>1, <3>2
  <2>. QED BY <1>1, <1>2, <2>1, CleanStep DEF CleanInv
<1>. QED BY <1>1, <1>2 DEF CleanInv

LEMMA CleanAlways == Spec => []CleanInv
BY CleanInit, CleanNext, PTL DEF Spec

-----------------------------------------------------------------------------
(* The theorems                                                              *)

\* The readers stay in their loops, whatever is lost or damaged on the line:
\* a header in hex never has more than fourteen digits in sixteen bytes, no
\* reader collects more of a header or a CRC than there is of it
\* (_read_hex_header, _read_bin_header and _read_data_subpacket_with_term).
THEOREM ReadersInBounds == Spec => []TypeOK
<1>1. CleanInv => TypeOK
  BY DEF CleanInv, TypeInv
<1>. QED BY <1>1, CleanAlways, PTL

\* On a clean line every header and every subpacket is returned as it was sent,
\* for all bytes that they can hold and all sequences of them that send() and
\* receive() can exchange (_build_hex_header, _build_bin32_header,
\* _build_data_subpacket and _zdle_encode against _read_header and
\* _read_data_subpacket_with_term).
THEOREM CleanLineDelivers == Spec => []CleanDelivery
<1>1. CleanInv => CleanDelivery
  <2>. SUFFICES ASSUME CleanInv, faults = 0 PROVE IsPrefix(delivered, items)
                                                   /\ (mode \in Raised => mode = "timeout" /\ delivered = items)
    BY DEF CleanDelivery
  <2>1. PICK todo, w : OnPlan(Reader, items, delivered, todo, w)
    BY DEF CleanInv, Clean
  <2>2. delivered \in Seq(Items) /\ todo \in Seq(Items) /\ items = delivered \o todo
    BY <2>1 DEF OnPlan
  <2>3. IsPrefix(delivered, items)
    <3>1. Len(items) = Len(delivered) + Len(todo) /\ Len(delivered) \in Nat /\ Len(todo) \in Nat
      BY <2>2, ConcatProperties, LenProperties
    <3>2. SubSeq(items, 1, Len(delivered)) = delivered
      BY <2>2, ConcatParts
    <3>. QED BY <3>1, <3>2 DEF IsPrefix
  <2>4. ASSUME mode \in Raised PROVE mode = "timeout" /\ delivered = items
    <3>1. Reader.mode = mode /\ mode \notin {"scan", "fmt", "hex", "trail", "bin16", "bin32", "sub", "crc"}
      BY <2>4 DEF Reader, Raised
    <3>2. Reads(Reader, todo)
      BY <2>1, <3>1 DEF OnPlan, InTrail
    <3>3. todo = <<>> /\ mode = "timeout"
      <4>1. \A it, T : ~InItem(Reader, it, T)
        BY <3>1 DEF InItem, InSub, InHeader
      <4>. QED BY <3>1, <3>2, <4>1 DEF Reads
    <3>4. delivered \o <<>> = delivered
      BY <2>2, ConcatEmptySeq
    <3>. QED BY <2>2, <3>3, <3>4
  <2>. QED BY <2>3, <2>4
<1>. QED BY <1>1, CleanAlways, PTL

\* The CRCs that the tables of crc.py give are those of the polynomials, a bit
\* at a time, for all data.
THEOREM TablesAreRight == Spec => []CrcTablesAgree
<1>1. CrcTablesAgree
  BY Crc16Agrees, Crc32Agrees DEF CrcTablesAgree
<1>. QED BY <1>1, PTL
=============================================================================
