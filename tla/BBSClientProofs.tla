-------------------------- MODULE BBSClientProofs --------------------------
(***************************************************************************)
(* What BBSClient keeps for every script of a BBS, however it is cut into  *)
(* chunks, and for any number of keys and resizes: the terminal is put     *)
(* back, a transfer has the line to itself, and what the BBS means as text *)
(* is shown, once and in order.                                            *)
(***************************************************************************)
EXTENDS BBSClient, SequenceTheorems, TLAPS

Phases == {"read", "scan", "cmd", "session", "ended", "raised", "closed"}

-----------------------------------------------------------------------------
(* The terminal *)

\* The saved mode is there whenever the terminal is raw, and then only.
TerminalInv ==
  /\ rphase \in Phases
  /\ rphase \in {"session", "closed"} => tty = "cooked" /\ orig_tc = "none"
  /\ rphase \notin {"session", "closed"} => tty = "raw" /\ orig_tc = "cooked"

LEMMA TerminalInit == Init => TerminalInv
BY DEF Init, TerminalInv, Phases

\* Steps that touch neither the terminal nor the phase of the reader.
LEMMA TerminalIdle ==
  ASSUME TerminalInv,
         \/ BbsSends \/ BbsHangsUp \/ SessionReads \/ Type \/ Local \/ Resize
  PROVE  TerminalInv'
<1>1. UNCHANGED <<rphase, tty, orig_tc>>
  BY DEF BbsSends, BbsHangsUp, SessionReads, Type, Local, TakeKey, KeyTimeout,
     Resize, ttyVars
<1>. QED
  BY <1>1 DEF TerminalInv

\* The reader leaves the terminal alone, but for the beginning of a transfer.
LEMMA TerminalRemote ==
  ASSUME TerminalInv, Remote
  PROVE  TerminalInv'
<1>1. CASE /\ rphase \in {"read", "scan", "cmd"}
           /\ rphase' \in {"read", "scan", "cmd", "ended", "raised"}
           /\ UNCHANGED ttyVars
  BY <1>1 DEF TerminalInv, Phases, ttyVars
<1>2. CASE rphase = "scan" /\ rphase' = "session" /\ RestoreTerminal
  BY <1>2 DEF TerminalInv, Phases, RestoreTerminal, ttyVars
<1>3. CASE Read \/ ReadTimeout \/ ScanIac \/ AwaitCommand \/ Command \/ ChunkDone
  BY <1>1, <1>3 DEF Read, ReadTimeout, ScanIac, AwaitCommand, Command, ChunkDone, NextRound
<1>4. CASE ScanByte
  BY <1>1, <1>2, <1>4 DEF ScanByte
<1>. QED
  BY <1>3, <1>4 DEF Remote

\* A transfer ends, or the client does: the mode goes back where it came from.
LEMMA TerminalEnds ==
  ASSUME TerminalInv, SessionEnds \/ RunEnds \/ Interrupt
  PROVE  TerminalInv'
<1>1. CASE SessionEnds
  BY <1>1 DEF SessionEnds, SetRaw, TerminalInv, Phases
<1>2. CASE RunEnds \/ Interrupt
  BY <1>2 DEF RunEnds, Interrupt, RestoreTerminal, TerminalInv, Phases, ttyVars
<1>. QED
  BY <1>1, <1>2

\* The terminal is raw while the client is connected, and as it was during a
\* transfer and after run(), however that ends.
THEOREM TerminalIsRestored == Spec => []TerminalRestored
<1>1. Init => TerminalInv
  BY TerminalInit
<1>2. TerminalInv /\ [Next]_vars => TerminalInv'
  <2>1. SUFFICES ASSUME TerminalInv, [Next]_vars PROVE TerminalInv'
    OBVIOUS
  <2>2. CASE UNCHANGED vars
    BY <2>1, <2>2 DEF vars, ttyVars, TerminalInv
  <2>3. CASE Next
    BY <2>1, <2>3, TerminalIdle, TerminalRemote, TerminalEnds DEF Next
  <2>. QED
    BY <2>1, <2>2, <2>3
<1>3. TerminalInv => TerminalRestored
  BY DEF TerminalInv, TerminalRestored
<1>. QED
  BY <1>1, <1>2, <1>3, PTL DEF Spec

-----------------------------------------------------------------------------
(* The line *)

\* The flag is up exactly during a transfer, until run() is over; then both
\* tasks are.
FlagInv ==
  /\ rphase \in Phases
  /\ in_transfer \in BOOLEAN
  /\ rphase # "closed" => (in_transfer <=> rphase = "session")
  /\ rphase = "closed" => lphase = "ended"
  /\ queue \in Seq({"key", "quit"})
  /\ line \in Nat

LEMMA FlagInit == Init => FlagInv
<1>1. Init => queue \in Seq({"key", "quit"}) /\ line \in Nat
  BY DEF Init
<1>2. Init => rphase = "read" /\ in_transfer = FALSE
  BY DEF Init
<1>. QED
  BY <1>1, <1>2 DEF FlagInv, Phases

\* The reader raises the flag with the transfer, and not otherwise.
LEMMA FlagRemote ==
  ASSUME FlagInv, Remote
  PROVE  FlagInv'
<1>1. /\ rphase \in {"read", "scan", "cmd"}
      /\ UNCHANGED keyVars
  BY DEF Remote, Read, ReadTimeout, ScanByte, ScanIac, AwaitCommand, Command, ChunkDone
<1>2. \/ /\ rphase' \in {"read", "scan", "cmd", "ended", "raised"}
         /\ UNCHANGED in_transfer
      \/ rphase' = "session" /\ in_transfer' = TRUE
  BY DEF Remote, Read, ReadTimeout, ScanByte, ScanIac, AwaitCommand, Command, ChunkDone,
     NextRound
<1>3. line' \in {line, line + 1}
  BY DEF Remote, Read, ReadTimeout, ScanByte, ScanIac, AwaitCommand, Command, ChunkDone
<1>4. queue' \in Seq({"key", "quit"}) /\ line' \in Nat
  BY <1>1, <1>3 DEF FlagInv, keyVars
<1>5. CASE rphase' = "session" /\ in_transfer' = TRUE
  BY <1>4, <1>5 DEF FlagInv, Phases
<1>6. CASE /\ rphase' \in {"read", "scan", "cmd", "ended", "raised"}
           /\ UNCHANGED in_transfer
  BY <1>1, <1>4, <1>6 DEF FlagInv, Phases
<1>. QED
  BY <1>2, <1>5, <1>6

\* Keys and resizes leave the flag alone.
LEMMA FlagLocal ==
  ASSUME FlagInv, Type \/ Local \/ Resize
  PROVE  FlagInv'
<1>1. UNCHANGED <<rphase, in_transfer>> /\ line' \in {line, line + 1}
  BY DEF Type, Local, TakeKey, KeyTimeout, Resize
<1>2. queue' \in Seq({"key", "quit"})
  BY DEF Type, Local, TakeKey, KeyTimeout, Resize, keyVars, FlagInv
<1>3. rphase = "closed" => lphase' = "ended"
  BY DEF Type, Local, TakeKey, KeyTimeout, Resize, keyVars, FlagInv
<1>. QED
  BY <1>1, <1>2, <1>3 DEF FlagInv

\* What the BBS does, and the steps of a transfer.
LEMMA FlagOthers ==
  ASSUME FlagInv, BbsSends \/ BbsHangsUp \/ SessionReads \/ SessionEnds
  PROVE  FlagInv'
<1>1. CASE BbsSends \/ BbsHangsUp \/ SessionReads
  BY <1>1 DEF BbsSends, BbsHangsUp, SessionReads, keyVars, FlagInv
<1>2. CASE SessionEnds
  BY <1>2 DEF SessionEnds, Reopen, keyVars, FlagInv, Phases
<1>. QED
  BY <1>1, <1>2

LEMMA FlagEnds ==
  ASSUME FlagInv, RunEnds \/ Interrupt
  PROVE  FlagInv'
BY DEF RunEnds, Interrupt, FlagInv, Phases

\* Nothing but the local task takes from the queue.
LEMMA QueueKept ==
  ASSUME FlagInv, Next, queue # <<>>, queue' = Tail(queue)
  PROVE  TakeKey
<1>1. Len(Tail(queue)) = Len(queue) - 1 /\ Len(queue) \in Nat
  BY DEF FlagInv
<1>2. ASSUME queue' = queue PROVE FALSE
  BY <1>1, <1>2
<1>3. ASSUME NEW k \in {"key", "quit"}, queue' = Append(queue, k) PROVE FALSE
  <2>1. Len(Append(queue, k)) = Len(queue) + 1
    BY DEF FlagInv
  <2>. QED
    BY <1>1, <1>3, <2>1
<1>4. CASE Type
  BY <1>3, <1>4 DEF Type
<1>5. CASE \/ BbsSends \/ BbsHangsUp \/ SessionReads \/ SessionEnds
           \/ Remote \/ Resize \/ RunEnds \/ Interrupt \/ KeyTimeout
  BY <1>2, <1>5 DEF BbsSends, BbsHangsUp, SessionReads, SessionEnds, Remote, Read,
     ReadTimeout, ScanByte, ScanIac, AwaitCommand, Command, ChunkDone, Resize, RunEnds,
     Interrupt, KeyTimeout, keyVars
<1>. QED
  BY <1>4, <1>5 DEF Next, Local

\* Who writes to the BBS outside of a transfer.
LEMMA LineKept ==
  ASSUME FlagInv, Next, rphase = "session"
  PROVE  line' = line
<1>1. CASE \/ BbsSends \/ BbsHangsUp \/ SessionReads \/ SessionEnds \/ Type
           \/ KeyTimeout \/ RunEnds \/ Interrupt
  BY <1>1 DEF BbsSends, BbsHangsUp, SessionReads, SessionEnds, Type, KeyTimeout,
     RunEnds, Interrupt
<1>2. CASE Remote
  BY <1>2 DEF Remote, Read, ReadTimeout, ScanByte, ScanIac, AwaitCommand, Command, ChunkDone
<1>3. CASE TakeKey \/ Resize
  BY <1>3 DEF TakeKey, Resize, FlagInv
<1>. QED
  BY <1>1, <1>2, <1>3 DEF Next, Local

\* A transfer has the line to itself, and a key is thrown away only amid one.
THEOREM TransferOwnsLine == Spec => SessionOwnsLine
<1>1. Init => FlagInv
  BY FlagInit
<1>2. FlagInv /\ [Next]_vars => FlagInv'
  <2>1. SUFFICES ASSUME FlagInv, [Next]_vars PROVE FlagInv'
    OBVIOUS
  <2>2. CASE UNCHANGED vars
    BY <2>1, <2>2 DEF vars, keyVars, FlagInv
  <2>3. CASE Next
    BY <2>1, <2>3, FlagRemote, FlagLocal, FlagOthers, FlagEnds DEF Next
  <2>. QED
    BY <2>1, <2>2, <2>3
<1>3. FlagInv /\ [Next]_vars =>
        [ /\ line' # line => rphase # "session"
          /\ DropsKey => rphase = "session" ]_vars
  <2>1. SUFFICES ASSUME FlagInv, Next
        PROVE  /\ line' # line => rphase # "session"
               /\ DropsKey => rphase = "session"
    OBVIOUS
  <2>2. line' # line => rphase # "session"
    BY <2>1, LineKept
  <2>3. ASSUME DropsKey PROVE rphase = "session"
    <3>1. TakeKey
      BY <2>1, <2>3, QueueKept DEF DropsKey
    <3>2. in_transfer
      BY <2>1, <2>3, <3>1 DEF TakeKey, DropsKey, FlagInv
    <3>. QED
      BY <2>1, <3>1, <3>2 DEF TakeKey, FlagInv
  <2>. QED
    BY <2>2, <2>3
<1>. QED
  BY <1>1, <1>2, <1>3, PTL DEF Spec, SessionOwnsLine

-----------------------------------------------------------------------------
(* The order of what is shown *)

Ascending(s) == \A i, j \in 1..Len(s) : i < j => s[i] < s[j]
UpTo(s, p)   == \A i \in 1..Len(s) : s[i] <= p

\* A later byte may join what is in order.
LEMMA JoinsInOrder ==
  ASSUME NEW s \in Seq(Nat), NEW p \in Nat, NEW q \in Nat, p < q,
         Ascending(s), UpTo(s, p)
  PROVE  /\ Append(s, q) \in Seq(Nat)
         /\ Ascending(Append(s, q))
         /\ UpTo(Append(s, q), q)
<1>1. /\ Append(s, q) \in Seq(Nat)
      /\ Len(Append(s, q)) = Len(s) + 1 /\ Len(s) \in Nat
      /\ \A i \in 1..Len(s) : Append(s, q)[i] = s[i]
      /\ Append(s, q)[Len(s) + 1] = q
  BY AppendProperties
<1>2. \A i \in 1..Len(s) : s[i] \in Nat
  BY ElementOfSeq
<1>. QED
  BY <1>1, <1>2 DEF Ascending, UpTo

\* What is in order still is when its end is cut off.
LEMMA PrefixInOrder ==
  ASSUME NEW s \in Seq(Nat), NEW t \in Seq(Nat), NEW p \in Nat,
         Ascending(s \o t), UpTo(s \o t, p)
  PROVE  Ascending(s) /\ UpTo(s, p)
<1>. DEFINE u == s \o t
<1>1. /\ Len(u) = Len(s) + Len(t) /\ Len(s) \in Nat /\ Len(t) \in Nat
      /\ \A i \in 1..Len(s) : u[i] = s[i]
  BY ConcatProperties, LenProperties
<1>2. /\ \A i, j \in 1..Len(u) : i < j => u[i] < u[j]
      /\ \A i \in 1..Len(u) : u[i] <= p
  BY DEF Ascending, UpTo
<1>. HIDE DEF u
<1>3. 1..Len(s) \subseteq 1..Len(u)
  BY <1>1
<1>. QED
  BY <1>1, <1>2, <1>3 DEF Ascending, UpTo

LEMMA HeadBeforeTail ==
  ASSUME NEW s \in Seq(Nat), s # <<>>
  PROVE  s = << Head(s) >> \o Tail(s)
OBVIOUS

\* Concatenation under a name of its own: where the name is not expanded the
\* provers see an operation with the laws of the two lemmas and no more.
Cat(x, y) == x \o y

LEMMA CatClosed == \A x, y \in Seq(Nat) : Cat(x, y) \in Seq(Nat)
BY ConcatProperties DEF Cat

LEMMA Associative ==
  \A x, y, z \in Seq(Nat) : Cat(Cat(x, y), z) = Cat(x, Cat(y, z))
BY ConcatAssociative DEF Cat

LEMMA Regroup ==
  \A s, d, h, t, u \in Seq(Nat) :
    Cat(Cat(s, Cat(d, h)), Cat(t, u)) = Cat(Cat(Cat(s, d), Cat(h, t)), u)
<1>. SUFFICES ASSUME NEW s \in Seq(Nat), NEW d \in Seq(Nat), NEW h \in Seq(Nat),
                     NEW t \in Seq(Nat), NEW u \in Seq(Nat)
     PROVE  Cat(Cat(s, Cat(d, h)), Cat(t, u)) = Cat(Cat(Cat(s, d), Cat(h, t)), u)
  OBVIOUS
<1>1. Cat(s, Cat(d, h)) = Cat(Cat(s, d), h)
  BY Associative
<1>2. Cat(Cat(Cat(s, d), h), Cat(t, u)) = Cat(Cat(Cat(Cat(s, d), h), t), u)
  <2>1. Cat(Cat(s, d), h) \in Seq(Nat)
    BY CatClosed
  <2>. QED
    BY <2>1, Associative, Zenon
<1>3. Cat(Cat(Cat(s, d), h), t) = Cat(Cat(s, d), Cat(h, t))
  BY CatClosed, Associative
<1>. QED
  BY <1>1, <1>2, <1>3

\* A byte that goes through the window leaves the order of the three as it is.
LEMMA ThroughWindow ==
  ASSUME NEW s \in Seq(Nat), NEW d \in Seq(Nat), NEW w \in Seq(Nat), NEW q \in Nat,
         w # <<>>
  PROVE  (s \o Append(d, Head(w))) \o Append(Tail(w), q) = Append((s \o d) \o w, q)
<1>1. Head(w) \in Nat /\ Tail(w) \in Seq(Nat)
  BY HeadTailProperties
<1>2. << Head(w) >> \in Seq(Nat) /\ << q >> \in Seq(Nat)
  BY <1>1
<1>. DEFINE h == << Head(w) >>
            t == Tail(w)
<1>. HIDE DEF h, t
<1>3. h \in Seq(Nat) /\ t \in Seq(Nat) /\ << q >> \in Seq(Nat)
  BY <1>1, <1>2 DEF h, t
<1>4. Append(d, Head(w)) = d \o h
  BY <1>1, AppendIsConcat DEF h
<1>5. Append(Tail(w), q) = t \o << q >>
  BY <1>1, AppendIsConcat DEF t
<1>6. w = h \o t
  BY HeadBeforeTail DEF h, t
<1>7. (s \o (d \o h)) \o (t \o << q >>) = ((s \o d) \o (h \o t)) \o << q >>
  <2>. DEFINE u == << q >>
  <2>1. u \in Seq(Nat)
    BY <1>3
  <2>. HIDE DEF u
  <2>2. Cat(Cat(s, Cat(d, h)), Cat(t, u)) = Cat(Cat(Cat(s, d), Cat(h, t)), u)
    BY <1>3, <2>1, Regroup
  <2>. QED
    BY <2>2, Zenon DEF u, Cat
<1>8. (s \o d) \o (h \o t) \in Seq(Nat)
  BY <1>3, ConcatProperties
<1>9. Append((s \o d) \o (h \o t), q) = ((s \o d) \o (h \o t)) \o << q >>
  BY <1>8, AppendIsConcat
<1>. QED
  BY <1>4, <1>5, <1>6, <1>7, <1>9, Zenon

\* The three parts of the output, in order, of bytes already handled; between
\* the byte IAC and the end of its command the window is empty.
OrderInv ==
  /\ shown \in Seq(Nat) /\ display \in Seq(Nat) /\ magic_buf \in Seq(Nat)
  /\ sent \in Nat /\ taken \in Nat /\ pos \in Nat
  /\ pos <= taken
  /\ Ascending(Output) /\ UpTo(Output, pos)
  /\ rphase = "cmd" => magic_buf = <<>>

LEMMA OrderInit == Init => OrderInv
<1>. SUFFICES ASSUME Init PROVE OrderInv
  OBVIOUS
<1>1. <<>> \in Seq(Nat) /\ <<>> \o <<>> = <<>> /\ Len(<<>>) = 0
  BY EmptySeq, ConcatEmptySeq
<1>2. Output = <<>> \o <<>> \o <<>>
  BY DEF Init, Output
<1>3. Output = <<>>
  BY <1>1, <1>2
<1>4. Ascending(Output) /\ UpTo(Output, 0)
  BY <1>1, <1>3 DEF Ascending, UpTo
<1>5. /\ shown = <<>> /\ display = <<>> /\ magic_buf = <<>>
      /\ sent = 0 /\ taken = 0 /\ pos = 0
  BY DEF Init
<1>. QED
  BY <1>1, <1>4, <1>5 DEF OrderInv

\* Steps that show nothing and move the readers forward.
LEMMA OrderKept ==
  ASSUME OrderInv, UNCHANGED textVars,
         sent' \in Nat, taken' \in Nat, pos' \in Nat, pos <= pos', pos' <= taken',
         rphase' = "cmd" => rphase = "cmd"
  PROVE  OrderInv'
<1>1. Output' = Output
  BY DEF textVars, Output
<1>2. Output \in Seq(Nat)
  BY ConcatProperties DEF OrderInv, Output
<1>3. \A i \in 1..Len(Output) : Output[i] \in Nat
  BY <1>2, ElementOfSeq
<1>4. UpTo(Output, pos')
  BY <1>3 DEF OrderInv, UpTo
<1>. QED
  BY <1>1, <1>4 DEF OrderInv, textVars, Ascending, UpTo

\* Flush moves everything to the terminal, in the order it has.
LEMMA OrderFlush ==
  ASSUME OrderInv, Flush, UNCHANGED <<sent, taken, pos>>
  PROVE  OrderInv'
<1>1. /\ shown' = Output /\ Output \in Seq(Nat)
      /\ display' = <<>> /\ magic_buf' = <<>> /\ <<>> \in Seq(Nat)
  BY ConcatProperties DEF Flush, Output, OrderInv
<1>2. Output' = Output
  BY <1>1, ConcatEmptySeq DEF Output
<1>. QED
  BY <1>1, <1>2 DEF OrderInv, Ascending, UpTo

\* A new byte at the end of the output, or the output without its end.
LEMMA OrderJoined ==
  ASSUME OrderInv, NEW q \in Nat, pos < q, q <= taken,
         pos' = q, UNCHANGED <<sent, taken>>,
         shown' \in Seq(Nat), display' \in Seq(Nat), magic_buf' \in Seq(Nat),
         rphase' # "cmd",
         \/ Output' = Append(Output, q)
         \/ \E t \in Seq(Nat) : Append(Output, q) = Output' \o t
  PROVE  OrderInv'
<1>1. Output \in Seq(Nat) /\ Output' \in Seq(Nat)
  BY ConcatProperties DEF OrderInv, Output
<1>2. Ascending(Append(Output, q)) /\ UpTo(Append(Output, q), q)
  BY <1>1, JoinsInOrder DEF OrderInv
<1>3. Ascending(Output') /\ UpTo(Output', q)
  BY <1>1, <1>2, PrefixInOrder
<1>. QED
  BY <1>3 DEF OrderInv, Ascending, UpTo

\* The window with the next byte, what stays of it and what is ready to be shown.
Longer == Append(magic_buf, pos + 1)
Window == Slide(Longer)
Ready  == IF Len(Longer) > 4 THEN Append(display, Head(Longer)) ELSE display
Found  == [i \in 1..Len(Window) |-> Val(Window[i])] = Magic

\* The next byte joins the end of the output, whatever leaves the window.
LEMMA ScanParts ==
  ASSUME OrderInv, pos < taken
  PROVE  /\ Window \in Seq(Nat) /\ Ready \in Seq(Nat)
         /\ (shown \o Ready) \o Window = Append(Output, pos + 1)
<1>. DEFINE q == pos + 1
<1>1. q \in Nat
  BY DEF OrderInv
<1>. HIDE DEF q
<1>2. Longer \in Seq(Nat) /\ Longer # <<>> /\ Len(Longer) = Len(magic_buf) + 1
  BY <1>1, AppendProperties DEF OrderInv, Longer, q
<1>3. CASE Len(Longer) > 4
  <2>1. magic_buf # <<>>
    BY <1>2, <1>3, EmptySeq DEF OrderInv
  <2>2. Head(Longer) = Head(magic_buf) /\ Tail(Longer) = Append(Tail(magic_buf), q)
    BY <1>1, <2>1, HeadTailAppend DEF OrderInv, Longer, q
  <2>3. Head(Longer) \in Nat /\ Tail(Longer) \in Seq(Nat)
    BY <1>2, HeadTailProperties
  <2>4. Window = Tail(Longer) /\ Ready = Append(display, Head(Longer))
    BY <1>3 DEF Slide, Window, Ready
  <2>5. (shown \o Append(display, Head(magic_buf))) \o Append(Tail(magic_buf), q)
          = Append((shown \o display) \o magic_buf, q)
    BY <1>1, <2>1, ThroughWindow DEF OrderInv
  <2>. QED
    BY <2>2, <2>3, <2>4, <2>5, AppendProperties DEF OrderInv, Output, q
<1>4. CASE ~(Len(Longer) > 4)
  <2>1. Window = Longer /\ Ready = display
    BY <1>4 DEF Slide, Window, Ready
  <2>2. shown \o display \in Seq(Nat) /\ << q >> \in Seq(Nat)
    BY <1>1, ConcatProperties DEF OrderInv
  <2>3. (shown \o display) \o (magic_buf \o << q >>)
          = ((shown \o display) \o magic_buf) \o << q >>
    <3>. DEFINE u == << q >>
                r == shown \o display
    <3>. HIDE DEF u, r
    <3>1. u \in Seq(Nat) /\ r \in Seq(Nat) /\ magic_buf \in Seq(Nat)
      BY <2>2 DEF u, r, OrderInv
    <3>2. (r \o magic_buf) \o u = r \o (magic_buf \o u)
      BY <3>1, ConcatAssociative
    <3>. QED
      BY <3>2 DEF u, r
  <2>4. Longer = magic_buf \o << q >>
    BY <1>1, AppendIsConcat DEF OrderInv, Longer, q
  <2>5. Append(Output, q) = ((shown \o display) \o magic_buf) \o << q >>
    BY <1>1, <2>2, ConcatProperties, AppendIsConcat DEF OrderInv, Output
  <2>. QED
    BY <1>2, <2>1, <2>3, <2>4, <2>5 DEF OrderInv, q
<1>. QED
  BY <1>3, <1>4

\* The byte goes into the window, or the window into the transfer.
LEMMA OrderScan ==
  ASSUME OrderInv, ScanByte
  PROVE  OrderInv'
<1>. DEFINE q == pos + 1
<1>1. /\ q \in Nat /\ pos < q /\ q <= taken /\ pos' = q
      /\ UNCHANGED <<sent, taken>> /\ rphase' # "cmd"
  BY DEF ScanByte, OrderInv, bbsVars
<1>2. /\ Window \in Seq(Nat) /\ Ready \in Seq(Nat)
      /\ (shown \o Ready) \o Window = Append(Output, q)
  <2>1. pos < taken
    BY DEF ScanByte
  <2>. QED
    BY <2>1, ScanParts, Zenon DEF q
<1>. HIDE DEF q
<1>3. CASE magic_buf' = Window /\ display' = Ready /\ shown' = shown
  <2>1. Output' = Append(Output, q)
    BY <1>2, <1>3 DEF Output
  <2>. QED
    BY <1>1, <1>2, <1>3, <2>1, OrderJoined DEF OrderInv
<1>4. CASE shown' = shown \o Ready /\ display' = <<>> /\ magic_buf' = <<>>
  <2>1. shown \o Ready \in Seq(Nat) /\ <<>> \in Seq(Nat)
    BY <1>2, ConcatProperties, EmptySeq DEF OrderInv
  <2>2. Output' = shown \o Ready
    BY <1>4, <2>1, ConcatEmptySeq DEF Output
  <2>3. Append(Output, q) = Output' \o Window
    BY <1>2, <2>2
  <2>. QED
    BY <1>1, <1>2, <1>4, <2>1, <2>3, OrderJoined
<1>. QED
  BY <1>3, <1>4 DEF ScanByte, Longer, Window, Ready

\* IAC IAC adds its second byte; the window is empty then.
LEMMA OrderCommand ==
  ASSUME OrderInv, Command
  PROVE  OrderInv'
<1>1. PICK n \in 1..taken :
        /\ CommandEnds(n) /\ pos' = n
        /\ display' = IF Val(pos + 2) = "IAC" THEN Append(display, n) ELSE display
  BY DEF Command
<1>2. /\ n \in Nat /\ pos < n /\ n <= taken /\ magic_buf = <<>>
      /\ UNCHANGED <<sent, taken, shown, magic_buf>> /\ rphase' # "cmd"
  BY <1>1 DEF Command, CommandEnds, OrderInv, bbsVars
<1>3. CASE display' = display
  BY <1>1, <1>2, <1>3, OrderKept DEF OrderInv, textVars
<1>4. CASE display' = Append(display, n)
  <2>1. shown \o display \in Seq(Nat) /\ << n >> \in Seq(Nat) /\ display' \in Seq(Nat)
    BY <1>2, <1>4, ConcatProperties, AppendProperties DEF OrderInv
  <2>2. Output = shown \o display
    BY <1>2, <2>1, ConcatEmptySeq DEF Output
  <2>3. shown \o (display \o << n >>) = (shown \o display) \o << n >>
    BY <2>1, ConcatAssociative DEF OrderInv
  <2>4. /\ display' = display \o << n >>
        /\ Append(shown \o display, n) = (shown \o display) \o << n >>
    BY <1>2, <1>4, <2>1, AppendIsConcat DEF OrderInv
  <2>5. shown \o display' \in Seq(Nat)
    BY <2>1, ConcatProperties DEF OrderInv
  <2>6. Output' = shown \o display'
    BY <1>2, <2>5, ConcatEmptySeq DEF Output
  <2>7. Output' = Append(Output, n)
    BY <2>2, <2>3, <2>4, <2>6
  <2>. QED
    BY <1>1, <1>2, <2>1, <2>7, OrderJoined DEF OrderInv
<1>. QED
  BY <1>1, <1>3, <1>4

\* Every step keeps the order.
LEMMA OrderStep ==
  ASSUME OrderInv, [Next]_vars
  PROVE  OrderInv'
<1>1. CASE \/ UNCHANGED vars \/ BbsSends \/ BbsHangsUp \/ Type \/ Local \/ Resize
           \/ RunEnds \/ Interrupt \/ Read \/ ReadTimeout \/ AwaitCommand
  <2>1. /\ UNCHANGED textVars /\ pos' = pos
        /\ rphase' = "cmd" => rphase = "cmd"
    BY <1>1 DEF vars, BbsSends, BbsHangsUp, Type, Local, TakeKey, KeyTimeout, Resize,
       RunEnds, Interrupt, Read, ReadTimeout, AwaitCommand, readVars
  <2>2. sent' \in {sent, sent + 1}
    BY <1>1 DEF vars, BbsSends, BbsHangsUp, Type, Local, TakeKey, KeyTimeout, Resize,
       RunEnds, Interrupt, Read, ReadTimeout, AwaitCommand, bbsVars
  <2>3. taken' \in {taken, taken + 1} \/ (taken' = sent /\ taken < sent)
    BY <1>1 DEF vars, BbsSends, BbsHangsUp, Type, Local, TakeKey, KeyTimeout, Resize,
       RunEnds, Interrupt, Read, ReadTimeout, AwaitCommand, readVars
  <2>. QED
    BY <2>1, <2>2, <2>3, OrderKept DEF OrderInv
<1>2. CASE SessionReads \/ SessionEnds
  <2>1. /\ UNCHANGED <<textVars, sent>> /\ rphase' # "cmd"
        /\ \/ pos' = taken /\ taken' = taken
           \/ /\ pos' = pos + 1
              /\ taken' = IF taken > pos THEN taken ELSE pos + 1
    BY <1>2 DEF SessionReads, SessionEnds, bbsVars
  <2>. QED
    BY <2>1, OrderKept DEF OrderInv
<1>3. CASE ScanIac \/ ChunkDone
  BY <1>3, OrderFlush DEF ScanIac, ChunkDone, bbsVars, readVars
<1>4. CASE ScanByte
  BY <1>4, OrderScan
<1>5. CASE Command
  BY <1>5, OrderCommand
<1>. QED
  BY <1>1, <1>2, <1>3, <1>4, <1>5 DEF Next, Remote

\* No byte is shown twice, nor after a later one, wherever the chunks end.
THEOREM NothingTwice == Spec => []InOrder
<1>1. Init => OrderInv
  BY OrderInit
<1>2. OrderInv /\ [Next]_vars => OrderInv'
  BY OrderStep
<1>3. OrderInv => InOrder
  BY DEF OrderInv, InOrder, Ascending
<1>. QED
  BY <1>1, <1>2, <1>3, PTL DEF Spec

-----------------------------------------------------------------------------
(* The text: what a BBS means as text is shown, once and in order, and     *)
(* nothing else; and an offer that comes in one piece begins a transfer:   *)
(* for every script, in any chunks, whatever sessions take of it.          *)

(* Types *)

Place == 1..Len(script)

\* TypeOK, with the three parts of the output one by one.
Typed ==
  /\ script \in Scripts
  /\ sent \in 0..Len(script) /\ taken \in 0..sent /\ pos \in 0..taken
  /\ rphase \in Phases
  /\ magic_buf \in Seq(Place) /\ display \in Seq(Place) /\ shown \in Seq(Place)
  /\ Len(magic_buf) <= 4
  /\ session \subseteq Place /\ cut \subseteq Place
  /\ lphase \in {"run", "ended"}
  /\ queue \in Seq({"key", "quit"}) /\ line \in Nat
  /\ typed \in 0..MaxKeys /\ resizes \in 0..MaxResizes
  /\ running \in BOOLEAN /\ in_transfer \in BOOLEAN /\ gone \in BOOLEAN
  /\ tty \in {"raw", "cooked"} /\ orig_tc \in {"none", "raw", "cooked"}

LEMMA TypedIsType == Typed => TypeOK
BY DEF Typed, TypeOK, Phases, Place

LEMMA ScriptLength == Typed => Len(script) \in Nat
BY ConstantsAssumption, LenProperties DEF Typed

LEMMA PlaceNat == ASSUME Typed PROVE \A q \in Place : q \in Nat \ {0}
BY ScriptLength DEF Place

LEMMA TypeInit == Init => Typed
<1>. SUFFICES ASSUME Init PROVE Typed
  OBVIOUS
<1>1. script \in Scripts /\ Len(script) \in Nat
  BY ConstantsAssumption, LenProperties DEF Init
<1>2. /\ magic_buf \in Seq(Place) /\ display \in Seq(Place) /\ shown \in Seq(Place)
      /\ Len(magic_buf) <= 4 /\ queue \in Seq({"key", "quit"})
  BY EmptySeq DEF Init
<1>3. /\ 0 \in 0..Len(script) /\ 0 \in 0..0 /\ 0 \in 0..MaxKeys /\ 0 \in 0..MaxResizes
  BY <1>1, ConstantsAssumption
<1>4. /\ sent = 0 /\ taken = 0 /\ pos = 0 /\ line = 0 /\ typed = 0 /\ resizes = 0
      /\ rphase = "read" /\ session = {} /\ cut = {} /\ lphase = "run"
      /\ running = TRUE /\ in_transfer = FALSE /\ gone = FALSE
      /\ tty = "raw" /\ orig_tc = "cooked"
  BY DEF Init
<1>. QED
  BY <1>1, <1>2, <1>3, <1>4 DEF Typed, Phases

\* The BBS, what is typed, and the window's size.
LEMMA TypeOthers ==
  ASSUME Typed, BbsSends \/ BbsHangsUp \/ Type \/ Local \/ Resize
  PROVE  Typed'
<1>0. queue \in Seq({"key", "quit"})
  BY DEF Typed
<1>3. queue' \in Seq({"key", "quit"})
  BY <1>0 DEF BbsSends, BbsHangsUp, Type, Local, TakeKey, KeyTimeout, Resize, keyVars
<1>. USE DEF Typed
<1>1. UNCHANGED <<script, rphase, taken, pos, magic_buf, display, shown, session, cut,
                  in_transfer, tty, orig_tc>>
  BY DEF BbsSends, BbsHangsUp, Type, Local, TakeKey, KeyTimeout, Resize, textVars,
     readVars, ttyVars, bbsVars
<1>2. /\ sent' = sent \/ (sent' = sent + 1 /\ sent < Len(script))
      /\ gone' \in BOOLEAN
  BY DEF BbsSends, BbsHangsUp, Type, Local, TakeKey, KeyTimeout, Resize, bbsVars
<1>7. line' \in Nat
  BY DEF BbsSends, BbsHangsUp, Type, Local, TakeKey, KeyTimeout, Resize
<1>8. sent' \in 0..Len(script) /\ taken \in 0..sent'
  BY <1>2, ScriptLength
<1>4. typed' \in 0..MaxKeys /\ resizes' \in 0..MaxResizes
  BY ConstantsAssumption DEF BbsSends, BbsHangsUp, Type, Local, TakeKey, KeyTimeout,
     Resize, keyVars
<1>5. lphase' \in {"run", "ended"} /\ running' \in BOOLEAN
  BY DEF BbsSends, BbsHangsUp, Type, Local, TakeKey, KeyTimeout, NextKey, Resize, keyVars
<1>6. Place' = Place
  BY <1>1 DEF Place
<1>. QED
  BY <1>1, <1>2, <1>3, <1>4, <1>5, <1>6, <1>7, <1>8

\* What the reader leaves alone, whatever it does.
Frame ==
  /\ UNCHANGED <<script, sent, gone, lphase, queue, typed, resizes>>
  /\ line' \in Nat /\ running' \in BOOLEAN /\ in_transfer' \in BOOLEAN
  /\ tty' \in {"raw", "cooked"} /\ orig_tc' \in {"none", "raw", "cooked"}
  /\ rphase' \in Phases

LEMMA TypeKept ==
  ASSUME Typed, Frame,
         taken' \in 0..sent, pos' \in 0..taken',
         magic_buf' \in Seq(Place), display' \in Seq(Place), shown' \in Seq(Place),
         Len(magic_buf') <= 4,
         session' \subseteq Place, cut' \subseteq Place
  PROVE  Typed'
<1>1. Place' = Place
  BY DEF Frame, Place
<1>. QED
  BY <1>1 DEF Frame, Typed

LEMMA FlushTypes ==
  ASSUME Typed, Flush
  PROVE  /\ magic_buf' \in Seq(Place) /\ display' \in Seq(Place) /\ shown' \in Seq(Place)
         /\ Len(magic_buf') <= 4
BY ConcatProperties, EmptySeq DEF Flush, Typed

LEMMA FrameRemote ==
  ASSUME Typed, Remote \/ SessionReads \/ SessionEnds
  PROVE  Frame
<1>. USE DEF Typed
<1>1. UNCHANGED <<script, sent, gone, lphase, queue, typed, resizes>>
  BY DEF Remote, Read, ReadTimeout, ScanByte, ScanIac, AwaitCommand, Command, ChunkDone,
     SessionReads, SessionEnds, bbsVars, keyVars
<1>2. line' \in Nat
  BY DEF Remote, Read, ReadTimeout, ScanByte, ScanIac, AwaitCommand, Command, ChunkDone,
     SessionReads, SessionEnds
<1>3. running' \in BOOLEAN /\ in_transfer' \in BOOLEAN
  BY DEF Remote, Read, ReadTimeout, ScanByte, ScanIac, AwaitCommand, Command, ChunkDone,
     SessionReads, SessionEnds, Reopen
<1>4. tty' \in {"raw", "cooked"} /\ orig_tc' \in {"none", "raw", "cooked"}
  BY DEF Remote, Read, ReadTimeout, ScanByte, ScanIac, AwaitCommand, Command, ChunkDone,
     SessionReads, SessionEnds, ttyVars, SetRaw, RestoreTerminal
<1>5. rphase' \in Phases
  BY DEF Remote, Read, ReadTimeout, ScanByte, ScanIac, AwaitCommand, Command, ChunkDone,
     SessionReads, SessionEnds, NextRound, Phases
<1>. QED
  BY <1>1, <1>2, <1>3, <1>4, <1>5 DEF Frame

LEMMA FrameEnds ==
  ASSUME Typed, RunEnds \/ Interrupt
  PROVE  Typed'
<1>. USE DEF Typed
<1>1. /\ UNCHANGED <<script, sent, gone, queue, typed, resizes, line, running, in_transfer,
                     taken, pos, magic_buf, display, shown, session, cut>>
      /\ lphase' = "ended" /\ rphase' = "closed"
      /\ tty' \in {"raw", "cooked"} /\ orig_tc' \in {"none", "raw", "cooked"}
  BY DEF RunEnds, Interrupt, RestoreTerminal, bbsVars, readVars, textVars, ttyVars
<1>2. Place' = Place
  BY <1>1 DEF Place
<1>. QED
  BY <1>1, <1>2 DEF Phases

LEMMA WindowTypes ==
  ASSUME Typed, pos < taken
  PROVE  /\ pos + 1 \in Place
         /\ Longer \in Seq(Place) /\ Len(Longer) = Len(magic_buf) + 1
         /\ Window \in Seq(Place) /\ Len(Window) <= 4
         /\ Ready \in Seq(Place)
<1>1. pos + 1 \in Place
  BY ScriptLength DEF Typed, Place
<1>6. magic_buf \in Seq(Place) /\ Len(magic_buf) \in Nat /\ Len(magic_buf) <= 4
  BY LenProperties DEF Typed
<1>2. /\ Longer \in Seq(Place) /\ Longer # <<>>
      /\ Len(Longer) = Len(magic_buf) + 1
  BY <1>1, <1>6, AppendProperties DEF Longer
<1>3. /\ Head(Longer) \in Place /\ Tail(Longer) \in Seq(Place)
      /\ Len(Tail(Longer)) = Len(Longer) - 1
  BY <1>2, HeadTailProperties
<1>4. Window \in Seq(Place) /\ Len(Window) <= 4
  BY <1>2, <1>3, <1>6 DEF Window, Slide
<1>5. Ready \in Seq(Place)
  BY <1>3, AppendProperties DEF Ready, Typed
<1>. QED
  BY <1>1, <1>2, <1>4, <1>5

LEMMA TypeScan ==
  ASSUME Typed, ScanByte
  PROVE  Typed'
<1>1. Frame
  BY FrameRemote DEF Remote
<1>2. /\ pos < taken /\ pos' = pos + 1
      /\ UNCHANGED <<taken, cut, sent, script>>
  BY DEF ScanByte, bbsVars
<1>3. taken' \in 0..sent /\ pos' \in 0..taken'
  BY <1>2, ScriptLength DEF Typed
<1>4. shown \o Ready \in Seq(Place) /\ <<>> \in Seq(Place) /\ Len(<<>>) <= 4
  BY <1>2, WindowTypes, ConcatProperties, EmptySeq DEF Typed
<1>5. CASE ~Found
  BY <1>1, <1>2, <1>3, <1>5, WindowTypes, TypeKept
     DEF ScanByte, Found, Window, Longer, Ready, Typed
<1>6. CASE Found
  <2>1. /\ magic_buf' = <<>> /\ display' = <<>> /\ shown' = shown \o Ready
        /\ session' = session \cup {Window[i] : i \in 1..4}
    BY <1>6 DEF ScanByte, Found, Window, Longer, Ready
  <2>2. Len(Window) = 4
    BY <1>6 DEF Found, Magic
  <2>3. {Window[i] : i \in 1..4} \subseteq Place
    BY <1>2, <2>2, WindowTypes, ElementOfSeq
  <2>. QED
    BY <1>1, <1>2, <1>3, <1>4, <2>1, <2>3, TypeKept DEF Typed
<1>. QED
  BY <1>5, <1>6

LEMMA TypeCommand ==
  ASSUME Typed, Command
  PROVE  Typed'
<1>1. Frame
  BY FrameRemote DEF Remote
<1>2. PICK n \in 1..taken :
        /\ pos' = n
        /\ display' = IF Val(pos + 2) = "IAC" THEN Append(display, n) ELSE display
  BY DEF Command
<1>3. UNCHANGED <<magic_buf, shown, taken, session, cut>>
  BY DEF Command
<1>4. n \in Place /\ taken' \in 0..sent /\ n \in 0..taken'
  BY <1>3, ScriptLength DEF Typed, Place
<1>5. display' \in Seq(Place)
  BY <1>2, <1>4, AppendProperties DEF Typed
<1>. QED
  BY <1>1, <1>2, <1>3, <1>4, <1>5, TypeKept DEF Typed

LEMMA TypeRemote ==
  ASSUME Typed, Remote \/ SessionReads \/ SessionEnds
  PROVE  Typed'
<1>1. Frame
  BY FrameRemote
<1>2. CASE Read \/ ReadTimeout \/ AwaitCommand
  <2>1. /\ UNCHANGED <<textVars, pos, session, cut>>
        /\ taken' = taken \/ taken' = sent \/ (taken < sent /\ taken' = taken + 1)
    BY <1>2 DEF Read, ReadTimeout, AwaitCommand, readVars
  <2>2. taken' \in 0..sent /\ pos' \in 0..taken'
    BY <2>1, ScriptLength DEF Typed
  <2>. QED
    BY <1>1, <2>1, <2>2, TypeKept DEF Typed, textVars
<1>3. CASE ScanIac \/ ChunkDone
  <2>1. Flush /\ UNCHANGED <<taken, pos, session>>
    BY <1>3 DEF ScanIac, ChunkDone, readVars
  <2>2. cut' \subseteq Place
    <3>1. 1..pos \subseteq Place /\ cut \subseteq Place
      BY ScriptLength DEF Typed, Place
    <3>2. cut' = cut \/ cut' \subseteq cut \cup 1..pos
      BY <1>3 DEF ScanIac, ChunkDone, readVars
    <3>. QED
      BY <3>1, <3>2
  <2>. QED
    BY <1>1, <2>1, <2>2, FlushTypes, TypeKept DEF Typed
<1>4. CASE SessionReads \/ SessionEnds
  <2>1. UNCHANGED <<textVars, cut>>
    BY <1>4 DEF SessionReads, SessionEnds
  <2>2. taken' \in 0..sent /\ pos' \in 0..taken'
    BY <1>4, ScriptLength DEF SessionReads, SessionEnds, Typed
  <2>3. session' \subseteq Place
    <3>1. (pos + 1)..taken \subseteq Place /\ session \subseteq Place
      BY ScriptLength DEF Typed, Place
    <3>2. pos < sent => pos + 1 \in Place
      BY ScriptLength DEF Typed, Place
    <3>. QED
      BY <1>4, <3>1, <3>2 DEF SessionReads, SessionEnds
  <2>. QED
    BY <1>1, <2>1, <2>2, <2>3, TypeKept DEF Typed, textVars
<1>. QED
  BY <1>2, <1>3, <1>4, TypeScan, TypeCommand DEF Remote

LEMMA TypeStep ==
  ASSUME Typed, [Next]_vars
  PROVE  Typed'
<1>1. CASE UNCHANGED vars
  BY <1>1 DEF vars, bbsVars, textVars, readVars, keyVars, ttyVars, Typed, Place
<1>2. CASE Next
  BY <1>2, TypeOthers, TypeRemote, FrameEnds DEF Next
<1>. QED
  BY <1>1, <1>2

\* Every variable stays in its type: the window holds four bytes at most, and
\* what is taken, handled and shown was sent.
THEOREM ClientTypes == Spec => []TypeOK
<1>1. Init => Typed
  BY TypeInit
<1>2. Typed /\ [Next]_vars => Typed'
  BY TypeStep
<1>. QED
  BY <1>1, <1>2, TypedIsType, PTL DEF Spec

-----------------------------------------------------------------------------
(* The script *)

Begins(s) == CHOOSE B \in SUBSET (1..(Len(s) + 1)) : Beginnings(s, B)

Chars(s)  == {s[i] : i \in 1..Len(s)}
Meant     == {p \in 1..pos : script[p].text} \ session

\* The window is the last bytes the reader took.
WindowInv ==
  /\ rphase = "scan" =>
       \A i \in 1..Len(magic_buf) : magic_buf[i] + Len(magic_buf) = pos + i
  /\ Len(magic_buf) <= pos
  /\ rphase \notin {"scan", "closed"} => magic_buf = <<>>
  /\ rphase \in {"read", "ended", "session"} => display = <<>>

\* The reader is where a byte of text or a command begins, also when a session
\* gives up: it came after an offer.
PlaceInv ==
  /\ rphase \in {"read", "scan", "cmd", "session"} => pos + 1 \in Begins(script)
  /\ rphase = "cmd" => pos < taken /\ Val(pos + 1) = "IAC"
  /\ session \subseteq 1..pos
  /\ rphase = "session" =>
       pos \in session /\ \E p \in 1..pos : Offers(script, p)

\* An offer of which the reader has a part is in the window, cut, or lost to
\* a session.
PartInv ==
  rphase \in {"read", "scan", "cmd", "session"} =>
    \A p \in 1..pos :
      Offers(script, p) /\ pos < p + 3 =>
        \/ p \in cut
        \/ session \cap p..pos # {}
        \/ rphase = "scan" /\ pos < p + Len(magic_buf)

\* What is shown, or about to be, is what was meant as text, and no other byte.
ShownInv == Chars(Output) = Meant

TextParts == WindowInv /\ PlaceInv /\ PartInv /\ ShownInv /\ OfferTaken

TextInv == Typed /\ OrderInv /\ TextParts

LEMMA ScriptBegins ==
  ASSUME Typed
  PROVE  Beginnings(script, Begins(script))
<1>1. script \in Scripts
  BY DEF Typed
<1>2. \E B \in SUBSET (1..(Len(script) + 1)) : Beginnings(script, B)
  BY <1>1, ConstantsAssumption
<1>. QED
  BY <1>2 DEF Begins

LEMMA ScriptItem ==
  ASSUME Typed, NEW p \in Place
  PROVE  /\ script[p] = [val |-> Val(p), text |-> script[p].text]
         /\ script[p].text \in BOOLEAN
<1>1. script \in Seq([val : Values, text : BOOLEAN])
  BY ConstantsAssumption DEF Typed
<1>2. script[p] \in [val : Values, text : BOOLEAN]
  BY <1>1, ElementOfSeq DEF Place
<1>. QED
  BY <1>2 DEF Val

\* A byte that begins no command is text, and the next byte begins something.
LEMMA TextBegins ==
  ASSUME Typed, NEW b \in Place, b \in Begins(script), Val(b) # "IAC"
  PROVE  script[b].text /\ b + 1 \in Begins(script)
<1>1. b \in Begins(script) \cap 1..Len(script)
  BY DEF Place
<1>. QED
  BY <1>1, ScriptBegins DEF Beginnings, Telnet, Val

\* What the reader takes for a command is one.
LEMMA CommandIsTelnet ==
  ASSUME Typed, NEW n \in 1..taken, CommandEnds(n), Val(pos + 1) = "IAC"
  PROVE  Telnet(script, pos + 1, n)
<1>1. /\ Len(script) \in Nat /\ taken <= Len(script) /\ pos \in Nat /\ n \in Nat
      /\ n <= Len(script)
  BY ScriptLength DEF Typed
<1>2. /\ pos + 2 = (pos + 1) + 1 /\ pos + 3 = (pos + 1) + 2 /\ pos + 4 = (pos + 1) + 3
      /\ pos + 1 < n
  BY <1>1 DEF CommandEnds
<1>3. CASE Val(pos + 2) = "SB"
  <2>1. EndsSub(n) /\ \A k \in (pos + 4)..(n - 1) : ~EndsSub(k)
    BY <1>3 DEF CommandEnds, Options
  <2>2. n \in {k \in (pos + 4)..Len(script) :
               script[k - 1].val = "IAC" /\ script[k].val = "SE"}
    BY <1>1, <2>1 DEF EndsSub, Val
  <2>3. \A k \in (pos + 4)..(n - 1) : ~(script[k - 1].val = "IAC" /\ script[k].val = "SE")
    BY <1>1, <2>1 DEF EndsSub, Val
  <2>. QED
    BY <1>1, <1>2, <1>3, <2>2, <2>3 DEF Telnet, Val
<1>4. CASE Val(pos + 2) # "SB"
  BY <1>1, <1>2, <1>4 DEF CommandEnds, Telnet, Val
<1>. QED
  BY <1>3, <1>4

LEMMA OneEnd ==
  ASSUME NEW s, Len(s) \in Nat, NEW b \in Nat, NEW m \in Nat, NEW n \in Nat,
         Telnet(s, b, m), Telnet(s, b, n)
  PROVE  m = n
<1>1. CASE s[b + 1].val = "SB"
  BY <1>1 DEF Telnet, Options
<1>2. CASE s[b + 1].val # "SB"
  BY <1>2 DEF Telnet
<1>. QED
  BY <1>1, <1>2

\* Nothing of a command is text, but for the second byte of IAC IAC, and after
\* it something begins.
LEMMA CommandBegins ==
  ASSUME Typed, NEW n \in 1..taken, CommandEnds(n), Val(pos + 1) = "IAC",
         pos + 1 \in Begins(script)
  PROVE  /\ n + 1 \in Begins(script)
         /\ \A k \in (pos + 1)..n :
              script[k].text <=> (k = n /\ Val(pos + 2) = "IAC")
<1>. DEFINE b == pos + 1
<1>1. /\ Len(script) \in Nat /\ b \in 1..Len(script) /\ b \in Nat /\ n \in 1..Len(script)
      /\ n \in Nat /\ b + 1 = pos + 2
  BY ScriptLength DEF Typed, CommandEnds
<1>2. Telnet(script, b, n)
  BY CommandIsTelnet
<1>3. b \in Begins(script) \cap 1..Len(script)
  BY <1>1
<1>. HIDE DEF b
<1>4. /\ script[b].val = "IAC"
      /\ \E m \in 1..Len(script) : Telnet(script, b, m)
  BY <1>1, <1>2 DEF Telnet
<1>5. \E m \in 1..Len(script) :
        /\ Telnet(script, b, m)
        /\ m + 1 \in Begins(script)
        /\ \A k \in b..m : script[k].text <=> (k = m /\ script[b + 1].val = "IAC")
  BY <1>3, <1>4, ScriptBegins DEF Beginnings
<1>6. PICK m \in 1..Len(script) :
        /\ Telnet(script, b, m)
        /\ m + 1 \in Begins(script)
        /\ \A k \in b..m : script[k].text <=> (k = m /\ script[b + 1].val = "IAC")
  BY <1>5
<1>7. m = n
  BY <1>1, <1>2, <1>6, OneEnd
<1>. QED
  BY <1>1, <1>6, <1>7 DEF Val, b

\* The bytes of an offer.
LEMMA OfferBytes ==
  ASSUME Typed, NEW p \in Nat \ {0}, Offers(script, p), NEW q \in p..(p + 3)
  PROVE  /\ q \in Place /\ script[q].text
         /\ Val(q) = Magic[q - p + 1]
         /\ Val(q) # "IAC"
<1>0. p + 3 <= Len(script) /\ Len(script) \in Nat
  BY ScriptLength DEF Offers
<1>1. q - p + 1 \in 1..4 /\ p + (q - p + 1) - 1 = q /\ q \in Place
  BY <1>0 DEF Place
<1>2. script[q] = [val |-> Magic[q - p + 1], text |-> TRUE]
  BY <1>1 DEF Offers
<1>3. Magic[q - p + 1] # "IAC"
  BY <1>1 DEF Magic
<1>. QED
  BY <1>1, <1>2, <1>3 DEF Val

\* After an offer every byte begins something.
LEMMA AfterOffer ==
  ASSUME Typed, NEW p \in Place, Offers(script, p), NEW q \in Nat,
         p <= q, q <= Len(script) + 1
  PROVE  q \in Begins(script) /\ (q \in Place => Val(q) # "IAC" /\ script[q].text)
<1>1. /\ \A r \in p..Len(script) : r \in Begins(script) /\ Val(r) # "IAC"
      /\ Len(script) \in Nat
  BY ScriptBegins, ScriptLength DEF Beginnings, Place, Val
<1>2. ASSUME q \in Place PROVE q \in Begins(script) /\ Val(q) # "IAC" /\ script[q].text
  <2>1. q \in p..Len(script)
    BY <1>1, <1>2 DEF Place
  <2>. QED
    BY <1>1, <1>2, <2>1, TextBegins
<1>3. ASSUME q \notin Place PROVE q \in Begins(script)
  <2>1. q = Len(script) + 1 /\ Len(script) \in Place /\ Len(script) \in p..Len(script)
    BY <1>1, <1>3 DEF Place
  <2>. QED
    BY <1>1, <2>1, TextBegins
<1>. QED
  BY <1>2, <1>3

-----------------------------------------------------------------------------
(* What is shown *)

LEMMA CharsConcat ==
  ASSUME NEW s \in Seq(Nat), NEW t \in Seq(Nat)
  PROVE  Chars(s \o t) = Chars(s) \cup Chars(t)
<1>1. /\ Len(s \o t) = Len(s) + Len(t) /\ Len(s) \in Nat /\ Len(t) \in Nat
      /\ \A i \in 1..Len(s) : (s \o t)[i] = s[i]
      /\ \A i \in 1..Len(t) : (s \o t)[Len(s) + i] = t[i]
  BY ConcatProperties, LenProperties
<1>2. ASSUME NEW x \in Chars(s \o t) PROVE x \in Chars(s) \cup Chars(t)
  <2>1. PICK i \in 1..(Len(s) + Len(t)) : x = (s \o t)[i]
    BY <1>1 DEF Chars
  <2>2. CASE i <= Len(s)
    <3>1. i \in 1..Len(s)
      BY <1>1, <2>2
    <3>. QED
      BY <1>1, <2>1, <3>1 DEF Chars
  <2>3. CASE ~(i <= Len(s))
    <3>1. i - Len(s) \in 1..Len(t) /\ Len(s) + (i - Len(s)) = i
      BY <1>1, <2>3
    <3>. QED
      BY <1>1, <2>1, <3>1 DEF Chars
  <2>. QED
    BY <2>2, <2>3
<1>3. ASSUME NEW x \in Chars(s) PROVE x \in Chars(s \o t)
  <2>1. PICK i \in 1..Len(s) : x = s[i]
    BY DEF Chars
  <2>2. i \in 1..Len(s \o t) /\ (s \o t)[i] = x
    BY <1>1, <2>1
  <2>. QED
    BY <2>2 DEF Chars
<1>4. ASSUME NEW x \in Chars(t) PROVE x \in Chars(s \o t)
  <2>1. PICK i \in 1..Len(t) : x = t[i]
    BY DEF Chars
  <2>2. Len(s) + i \in 1..Len(s \o t) /\ (s \o t)[Len(s) + i] = x
    BY <1>1, <2>1
  <2>. QED
    BY <2>2 DEF Chars
<1>. QED
  BY <1>2, <1>3, <1>4

LEMMA CharsAppend ==
  ASSUME NEW s \in Seq(Nat), NEW q \in Nat
  PROVE  Chars(Append(s, q)) = Chars(s) \cup {q}
<1>1. << q >> \in Seq(Nat) /\ Append(s, q) = s \o << q >>
  BY AppendIsConcat
<1>2. Chars(<< q >>) = {q}
  BY DEF Chars
<1>. QED
  BY <1>1, <1>2, CharsConcat

\* What is in order holds no byte twice.
LEMMA PartsDisjoint ==
  ASSUME NEW s \in Seq(Nat), NEW t \in Seq(Nat), Ascending(s \o t)
  PROVE  Chars(s) \cap Chars(t) = {}
<1>. SUFFICES ASSUME NEW i \in 1..Len(s), NEW j \in 1..Len(t), s[i] = t[j]
     PROVE  FALSE
  BY DEF Chars
<1>. DEFINE u == s \o t
<1>1. /\ Len(u) = Len(s) + Len(t) /\ Len(s) \in Nat /\ Len(t) \in Nat
      /\ u[i] = s[i] /\ u[Len(s) + j] = t[j]
  BY ConcatProperties, LenProperties
<1>2. s[i] \in Nat
  BY ElementOfSeq
<1>3. \A k, l \in 1..Len(u) : k < l => u[k] < u[l]
  BY DEF Ascending
<1>. HIDE DEF u
<1>4. i \in 1..Len(u) /\ Len(s) + j \in 1..Len(u) /\ i < Len(s) + j
  BY <1>1
<1>5. u[i] < u[Len(s) + j]
  BY <1>3, <1>4
<1>. QED
  BY <1>1, <1>2, <1>5

\* The window after the next byte: the last bytes, four at most.
LEMMA WindowAt ==
  ASSUME Typed, WindowInv, rphase = "scan", pos < taken
  PROVE  /\ Len(Window) \in Nat
         /\ Len(magic_buf) # 4 => Len(Window) = Len(magic_buf) + 1
         /\ Len(magic_buf) = 4 => Len(Window) = 4
         /\ \A i \in 1..Len(Window) : Window[i] + Len(Window) = pos + 1 + i
<1>7. magic_buf \in Seq(Place) /\ Len(magic_buf) <= 4 /\ pos \in Nat
  BY ScriptLength DEF Typed
<1>8. Len(magic_buf) \in Nat
  BY <1>7, LenProperties
<1>9. pos + 1 \in Place
  BY WindowTypes
<1>10. \A m \in Nat : m <= 4 => m \in 0..4 /\ (m # 4 => m + 1 \in 1..4)
  OBVIOUS
<1>11. Len(magic_buf) \in 0..4
  BY <1>7, <1>8, <1>10, Zenon
<1>1. /\ pos \in Nat /\ Len(magic_buf) \in 0..4 /\ magic_buf \in Seq(Place)
      /\ pos + 1 \in Place
  BY <1>7, <1>9, <1>11, Zenon
<1>2. /\ Longer \in Seq(Place) /\ Longer # <<>> /\ Len(Longer) = Len(magic_buf) + 1
      /\ \A i \in 1..Len(magic_buf) : Longer[i] = magic_buf[i]
      /\ Longer[Len(magic_buf) + 1] = pos + 1
  BY <1>1, AppendProperties DEF Longer
<1>3. \A i \in 1..Len(Longer) : Longer[i] + Len(Longer) = pos + 1 + i
  <2>1. SUFFICES ASSUME NEW i \in 1..(Len(magic_buf) + 1)
        PROVE  Longer[i] + (Len(magic_buf) + 1) = pos + 1 + i
    BY <1>2
  <2>2. CASE i \in 1..Len(magic_buf)
    <3>1. magic_buf[i] + Len(magic_buf) = pos + i /\ Longer[i] = magic_buf[i]
      BY <1>2, <2>2 DEF WindowInv
    <3>2. magic_buf[i] \in Nat
      BY <1>1, <2>2, ElementOfSeq, ScriptLength DEF Place
    <3>. QED
      BY <1>1, <3>1, <3>2
  <2>3. CASE i = Len(magic_buf) + 1
    BY <1>1, <1>2, <2>3
  <2>. QED
    BY <1>1, <2>2, <2>3
<1>4. /\ Tail(Longer) \in Seq(Place) /\ Len(Tail(Longer)) = Len(Longer) - 1
      /\ \A i \in 1..Len(Tail(Longer)) : Tail(Longer)[i] = Longer[i + 1]
  BY <1>2, HeadTailProperties
<1>5. CASE Len(magic_buf) = 4
  <2>1. Window = Tail(Longer) /\ Len(Window) = 4 /\ Len(Longer) = 5
    BY <1>2, <1>4, <1>5 DEF Window, Slide
  <2>2. ASSUME NEW i \in 1..4 PROVE Window[i] + 4 = pos + 1 + i
    <3>1. Window[i] = Longer[i + 1] /\ i + 1 \in 1..Len(Longer)
      <4>0. Len(Tail(Longer)) = 4 /\ i + 1 \in 1..5
        BY <2>1
      <4>1. i \in 1..Len(Tail(Longer)) /\ i + 1 \in 1..5
        BY <4>0, Zenon
      <4>2. Tail(Longer)[i] = Longer[i + 1]
        BY <1>4, <4>1
      <4>. QED
        BY <2>1, <4>1, <4>2
    <3>2. Longer[i + 1] \in Nat
      BY <1>2, <3>1, ElementOfSeq, ScriptLength DEF Place
    <3>3. Longer[i + 1] + 5 = pos + 1 + (i + 1)
      BY <1>3, <2>1, <3>1
    <3>. QED
      BY <1>1, <2>2, <3>1, <3>2, <3>3
  <2>3. \A i \in 1..Len(Window) : Window[i] + Len(Window) = pos + 1 + i
    BY <2>1, <2>2
  <2>. QED
    BY <1>5, <2>1, <2>3
<1>6. CASE Len(magic_buf) # 4
  <2>1. Len(Longer) \in 1..4 /\ Len(magic_buf) # 4
    BY <1>2, <1>6, <1>7, <1>8, <1>10, Zenon
  <2>2. Window = Longer
    <3>1. \A l \in 1..4 : ~(l > 4)
      OBVIOUS
    <3>. QED
      BY <2>1, <3>1, Zenon DEF Window, Slide
  <2>3. Len(Window) \in Nat /\ Len(Window) = Len(magic_buf) + 1
    BY <1>2, <2>1, <2>2
  <2>4. \A i \in 1..Len(Window) : Window[i] + Len(Window) = pos + 1 + i
    BY <1>3, <2>2
  <2>. QED
    BY <2>1, <2>3, <2>4
<1>. QED
  BY <1>5, <1>6, Zenon

\* Steps that handle no byte: what the reader has is where it was.
LEMMA TextIdle ==
  ASSUME TextInv,
         UNCHANGED <<script, textVars, pos, session, cut>>,
         taken \in Nat, taken' \in Nat, taken <= taken',
         \/ rphase' \in {rphase, "closed"}
         \/ rphase = "read" /\ rphase' \in {"scan", "ended"}
         \/ rphase = "cmd" /\ rphase' = "raised"
  PROVE  TextParts'
<1>1. UNCHANGED <<magic_buf, display, shown, Begins(script), Output, Meant>>
  BY DEF textVars, Output, Meant
<1>2. WindowInv'
  <2>1. Len(<<>>) = 0
    OBVIOUS
  <2>. QED
    BY <1>1, <2>1 DEF TextInv, TextParts, WindowInv
<1>3. PlaceInv'
  BY <1>1 DEF TextInv, TextParts, PlaceInv, Val, OrderInv
<1>4. PartInv'
  BY <1>1 DEF TextInv, TextParts, PartInv
<1>5. ShownInv' /\ OfferTaken'
  BY <1>1 DEF TextInv, TextParts, ShownInv, OfferTaken
<1>. QED
  BY <1>2, <1>3, <1>4, <1>5 DEF TextParts

LEMMA FlushKeeps ==
  ASSUME TextInv, Flush
  PROVE  /\ Output' = Output
         /\ magic_buf' = <<>> /\ display' = <<>> /\ Len(<<>>) = 0
<1>1. Output \in Seq(Nat)
  BY ConcatProperties DEF TextInv, OrderInv, Output
<1>. QED
  BY <1>1, ConcatEmptySeq DEF Flush, Output

\* A command begins, and so no offer is in hand.
LEMMA TextScanIac ==
  ASSUME TextInv, ScanIac
  PROVE  TextParts'
<1>1. /\ UNCHANGED <<script, pos, session, cut, taken>> /\ rphase = "scan" /\ rphase' = "cmd"
      /\ Val(pos + 1) = "IAC" /\ pos < taken /\ Flush
  BY DEF ScanIac, bbsVars, readVars
<1>2. UNCHANGED <<Output, Meant, Begins(script)>> /\ magic_buf' = <<>> /\ Len(<<>>) = 0
  BY <1>1, FlushKeeps DEF Meant
<1>3. pos \in Nat /\ 0 <= pos
  BY DEF TextInv, OrderInv
<1>4. \A p \in 1..pos : ~(Offers(script, p) /\ pos < p + 3)
  <2>1. SUFFICES ASSUME NEW p \in 1..pos, Offers(script, p), pos < p + 3 PROVE FALSE
    OBVIOUS
  <2>2. p \in Nat \ {0} /\ pos + 1 \in p..(p + 3)
    BY <1>3, <2>1
  <2>. QED
    BY <1>1, <2>1, <2>2, OfferBytes DEF TextInv
<1>5. WindowInv' /\ PlaceInv'
  BY <1>1, <1>2, <1>3 DEF TextInv, TextParts, WindowInv, PlaceInv, Val
<1>6. PartInv'
  BY <1>1, <1>4 DEF PartInv
<1>. QED
  BY <1>1, <1>2, <1>5, <1>6 DEF TextInv, TextParts, ShownInv, OfferTaken

\* The end of a chunk cuts what offer is in hand.
LEMMA TextChunkDone ==
  ASSUME TextInv, ChunkDone
  PROVE  TextParts'
<1>1. /\ UNCHANGED <<script, pos, session, taken>> /\ rphase = "scan"
      /\ rphase' \in {"read", "ended"} /\ Flush
      /\ cut' = cut \cup {p \in 1..pos : Offers(script, p) /\ pos < p + 3}
  BY DEF ChunkDone, bbsVars, NextRound
<1>2. /\ UNCHANGED <<Output, Meant, Begins(script)>>
      /\ magic_buf' = <<>> /\ display' = <<>> /\ Len(<<>>) = 0
  BY <1>1, FlushKeeps DEF Meant
<1>3. pos \in Nat /\ 0 <= pos
  BY DEF TextInv, OrderInv
<1>4. WindowInv' /\ PlaceInv'
  BY <1>1, <1>2, <1>3 DEF TextInv, TextParts, WindowInv, PlaceInv, Val
<1>5. PartInv'
  BY <1>1 DEF PartInv
<1>6. OfferTaken'
  BY <1>1 DEF OfferTaken, TextInv, TextParts
<1>. QED
  BY <1>1, <1>2, <1>4, <1>5, <1>6 DEF TextInv, TextParts, ShownInv

\* A session takes what it reads, and what is dropped with it.
LEMMA TextSession ==
  ASSUME TextInv, SessionReads \/ SessionEnds
  PROVE  TextParts'
<1>1. /\ UNCHANGED <<script, sent, textVars, cut>> /\ rphase = "session"
      /\ rphase' \in {"session", "scan"}
      /\ pos \in Nat /\ pos' \in Nat /\ pos <= pos' /\ pos' <= Len(script) /\ Len(script) \in Nat
      /\ session' = session \cup (pos + 1)..pos'
  <2>1. Typed /\ Len(script) \in Nat
    BY ScriptLength DEF TextInv
  <2>2. CASE SessionEnds
    BY <2>1, <2>2 DEF SessionEnds, bbsVars, Typed
  <2>3. CASE SessionReads
    <3>1. (pos + 1)..(pos + 1) = {pos + 1}
      BY <2>1 DEF Typed
    <3>. QED
      BY <2>1, <2>3, <3>1 DEF SessionReads, bbsVars, Typed
  <2>. QED
    BY <2>2, <2>3
<1>2. /\ magic_buf' = <<>> /\ display' = <<>> /\ Len(<<>>) = 0 /\ Output' = Output
      /\ Begins(script)' = Begins(script)
  BY <1>1 DEF TextInv, TextParts, WindowInv, textVars, Output
<1>3. /\ session \subseteq 1..pos /\ pos \in session
      /\ \E p \in 1..pos : Offers(script, p)
  BY <1>1 DEF TextInv, TextParts, PlaceInv
<1>4. WindowInv'
  BY <1>1, <1>2 DEF WindowInv
<1>5. PlaceInv'
  <2>1. PICK p \in 1..pos : Offers(script, p)
    BY <1>3
  <2>2. p \in Place /\ pos' + 1 \in Nat /\ p <= pos' + 1 /\ pos' + 1 <= Len(script) + 1
    <3>1. \A k, l, m \in Nat : k <= l /\ l <= m =>
            /\ l + 1 \in Nat /\ l + 1 <= m + 1
            /\ \A r \in 1..k : r \in 1..m /\ r <= l + 1
      OBVIOUS
    <3>. QED
      BY <1>1, <3>1, Zenon DEF Place
  <2>3. pos' + 1 \in Begins(script)
    BY <2>1, <2>2, AfterOffer DEF TextInv
  <2>4. session' \subseteq 1..pos' /\ p \in 1..pos' /\ pos' \in session'
    BY <1>1, <1>3
  <2>. QED
    BY <1>1, <1>2, <2>1, <2>3, <2>4 DEF PlaceInv
<1>6. PartInv'
  <2>1. SUFFICES ASSUME NEW p \in 1..pos', Offers(script, p), pos' < p + 3
        PROVE  session' \cap p..pos' # {}
    BY <1>1 DEF PartInv
  <2>2. pos' \in session' /\ pos' \in p..pos'
    BY <1>1, <1>3, <2>1
  <2>. QED
    BY <2>2
<1>7. ShownInv'
  <2>1. \A q \in 1..pos' : q \in 1..pos \/ q \in (pos + 1)..pos'
    BY <1>1
  <2>2. 1..pos \subseteq 1..pos' /\ \A q \in 1..pos : q \notin (pos + 1)..pos'
    BY <1>1
  <2>3. Meant' = Meant
    BY <1>1, <2>1, <2>2 DEF Meant
  <2>. QED
    BY <1>2, <2>3 DEF TextInv, TextParts, ShownInv
<1>8. OfferTaken'
  <2>1. SUFFICES ASSUME NEW p \in 1..Len(script), Offers(script, p), p + 3 <= pos',
                        session' \cap p..(p + 3) = {}
        PROVE  p \in cut
    BY <1>1 DEF OfferTaken
  <2>2. CASE p + 3 <= pos
    BY <1>1, <2>1, <2>2 DEF OfferTaken, TextInv, TextParts
  <2>3. CASE ~(p + 3 <= pos)
    <3>1. p + 3 \in (pos + 1)..pos' /\ p + 3 \in p..(p + 3)
      BY <1>1, <2>1, <2>3
    <3>. QED
      BY <1>1, <2>1, <3>1
  <2>. QED
    BY <2>2, <2>3
<1>. QED
  BY <1>4, <1>5, <1>6, <1>7, <1>8 DEF TextParts

\* A command is passed over; of IAC IAC the second byte is to be shown.
LEMMA TextCommand ==
  ASSUME TextInv, Command
  PROVE  TextParts'
<1>1. PICK n \in 1..taken :
        /\ CommandEnds(n) /\ pos' = n
        /\ display' = IF Val(pos + 2) = "IAC" THEN Append(display, n) ELSE display
  BY DEF Command
<1>2. /\ UNCHANGED <<script, magic_buf, shown, taken, session, cut>> /\ rphase = "cmd"
      /\ rphase' \in {"scan", "raised"}
  BY DEF Command, bbsVars
<1>3. /\ magic_buf = <<>> /\ Len(<<>>) = 0 /\ pos + 1 \in Begins(script)
      /\ Val(pos + 1) = "IAC" /\ session \subseteq 1..pos
  BY <1>2 DEF TextInv, TextParts, WindowInv, PlaceInv
<1>4. /\ pos \in Nat /\ n \in Nat /\ pos + 1 < n /\ 0 <= n
      /\ n <= Len(script) /\ Len(script) \in Nat
  BY <1>1, ScriptLength DEF TextInv, Typed, CommandEnds
<1>5. /\ n + 1 \in Begins(script)
      /\ \A k \in (pos + 1)..n :
           script[k].text <=> (k = n /\ Val(pos + 2) = "IAC")
  BY <1>1, <1>3, CommandBegins DEF TextInv
<1>6. Val(pos + 2) = "IAC" => n = pos + 2
  BY <1>1 DEF CommandEnds, Options
<1>7. \A p \in 1..n : Offers(script, p) => p + 3 <= pos
  <2>1. SUFFICES ASSUME NEW p \in 1..n, Offers(script, p), ~(p + 3 <= pos) PROVE FALSE
    OBVIOUS
  <2>2. p \in Nat \ {0}
    OBVIOUS
  <2>3. CASE p <= pos + 1
    <3>1. pos + 1 \in p..(p + 3)
      BY <1>4, <2>1, <2>2, <2>3
    <3>. QED
      BY <1>3, <2>1, <2>2, <3>1, OfferBytes DEF TextInv
  <2>4. CASE ~(p <= pos + 1)
    <3>1. p \in (pos + 1)..n /\ p \in p..(p + 3)
      BY <1>4, <2>2, <2>4
    <3>2. script[p].text /\ Val(p) # "IAC"
      BY <2>1, <2>2, <3>1, OfferBytes DEF TextInv
    <3>. QED
      BY <1>5, <1>6, <3>1, <3>2
  <2>. QED
    BY <2>3, <2>4
<1>8. WindowInv' /\ PlaceInv'
  <2>1. session' \subseteq 1..pos'
    BY <1>1, <1>2, <1>3, <1>4
  <2>2. pos' + 1 \in Begins(script)' /\ 0 <= pos'
    BY <1>1, <1>2, <1>4, <1>5
  <2>. QED
    BY <1>2, <1>3, <2>1, <2>2 DEF WindowInv, PlaceInv
<1>9. PartInv' /\ OfferTaken'
  <2>1. ASSUME NEW p \in 1..pos', Offers(script, p) PROVE p + 3 <= pos
    BY <1>1, <1>7, <2>1
  <2>2. ASSUME NEW p \in 1..pos', Offers(script, p) PROVE ~(pos' < p + 3)
    BY <1>1, <1>4, <2>1, <2>2
  <2>3. ASSUME NEW p \in 1..Len(script), Offers(script, p), p + 3 <= pos'
        PROVE  p + 3 <= pos
    <3>1. p \in 1..pos'
      BY <1>1, <1>4, <2>3
    <3>. QED
      BY <2>1, <2>3, <3>1
  <2>4. OfferTaken
    BY DEF TextInv, TextParts
  <2>. QED
    BY <1>2, <2>2, <2>3, <2>4 DEF PartInv, OfferTaken
<1>10. ShownInv'
  <2>1. /\ shown \in Seq(Nat) /\ display \in Seq(Nat) /\ shown \o display \in Seq(Nat)
        /\ <<>> \in Seq(Nat)
    BY ConcatProperties, EmptySeq DEF TextInv, OrderInv
  <2>2. Output = shown \o display
    BY <1>3, <2>1, ConcatEmptySeq DEF Output
  <2>3. Chars(Output) = Chars(shown) \cup Chars(display)
    BY <2>1, <2>2, CharsConcat
  <2>4. display' \in Seq(Nat) /\ Chars(display') =
          IF Val(pos + 2) = "IAC" THEN Chars(display) \cup {n} ELSE Chars(display)
    BY <1>1, <1>4, <2>1, CharsAppend, AppendProperties
  <2>5. Output' = shown \o display'
    BY <1>2, <1>3, <2>1, <2>4, ConcatProperties, ConcatEmptySeq DEF Output
  <2>6. Chars(Output') = Chars(shown) \cup Chars(display')
    BY <2>1, <2>4, <2>5, CharsConcat
  <2>7. \A q \in 1..n : q \in 1..pos \/ q \in (pos + 1)..n
    BY <1>4
  <2>8. /\ 1..pos \subseteq 1..n /\ n \in 1..n /\ n \in (pos + 1)..n
        /\ \A q \in 1..pos : q \notin (pos + 1)..n
    BY <1>4
  <2>9. Meant' = IF Val(pos + 2) = "IAC" THEN Meant \cup {n} ELSE Meant
    BY <1>1, <1>2, <1>3, <1>5, <2>7, <2>8 DEF Meant
  <2>. QED
    BY <2>3, <2>4, <2>6, <2>9 DEF TextInv, TextParts, ShownInv
<1>. QED
  BY <1>8, <1>9, <1>10 DEF TextParts

\* The next byte of the scan, before it is known whether it ends an offer.
LEMMA ScanPlace ==
  ASSUME TextInv, rphase = "scan", pos < taken, Val(pos + 1) # "IAC"
  PROVE  /\ pos \in Nat /\ pos + 1 \in Place /\ pos + 1 \notin session
         /\ script[pos + 1].text /\ pos + 2 \in Begins(script)
<1>1. pos \in Nat /\ pos + 1 \in Place /\ (pos + 1) + 1 = pos + 2
  BY WindowTypes DEF TextInv, Typed
<1>2. pos + 1 \in Begins(script) /\ session \subseteq 1..pos
  BY DEF TextInv, TextParts, PlaceInv
<1>3. pos + 1 \notin 1..pos
  BY <1>1
<1>. QED
  BY <1>1, <1>2, <1>3, TextBegins DEF TextInv

\* With the next byte, what was meant grows by it.
LEMMA ScanShown ==
  ASSUME TextInv, rphase = "scan", pos < taken, Val(pos + 1) # "IAC"
  PROVE  /\ Chars(shown \o Ready) \cup Chars(Window)
              = {p \in 1..(pos + 1) : script[p].text} \ session
         /\ Chars(shown \o Ready) \cap Chars(Window) = {}
         /\ Chars((shown \o Ready) \o Window)
              = Chars(shown \o Ready) \cup Chars(Window)
<1>1. /\ Window \in Seq(Nat) /\ Ready \in Seq(Nat)
      /\ (shown \o Ready) \o Window = Append(Output, pos + 1)
  BY ScanParts DEF TextInv
<1>2. shown \o Ready \in Seq(Nat) /\ Output \in Seq(Nat)
  BY <1>1, ConcatProperties DEF TextInv, OrderInv, Output
<1>3. pos \in Nat /\ pos + 1 \in Nat /\ pos < pos + 1
  BY ScanPlace
<1>4. Chars(Append(Output, pos + 1)) = Meant \cup {pos + 1}
  BY <1>2, <1>3, CharsAppend DEF TextInv, TextParts, ShownInv
<1>5. Ascending((shown \o Ready) \o Window)
  BY <1>1, <1>2, <1>3, JoinsInOrder DEF TextInv, OrderInv
<1>6. /\ \A q \in 1..(pos + 1) : q \in 1..pos \/ q = pos + 1
      /\ 1..pos \subseteq 1..(pos + 1) /\ pos + 1 \in 1..(pos + 1)
  BY <1>3
<1>7. Meant \cup {pos + 1} = {p \in 1..(pos + 1) : script[p].text} \ session
  BY <1>6, ScanPlace DEF Meant
<1>. QED
  BY <1>1, <1>2, <1>4, <1>5, <1>7, CharsConcat, PartsDisjoint

\* A window that holds the magic holds an offer.
LEMMA FoundIsOffer ==
  ASSUME TextInv, rphase = "scan", pos < taken, Val(pos + 1) # "IAC", Found
  PROVE  /\ Len(Window) = 4 /\ pos - 2 \in 1..(pos + 1)
         /\ Offers(script, pos - 2)
         /\ Window[4] = pos + 1
<1>0. Len(Window) = 4
  <2>1. Len(Window) \in Nat
    BY WindowTypes, LenProperties DEF TextInv
  <2>2. 1..Len(Window) = DOMAIN Magic /\ DOMAIN Magic = 1..4
    <3>1. DOMAIN [i \in 1..Len(Window) |-> Val(Window[i])] = 1..Len(Window)
      BY Zenon
    <3>2. DOMAIN Magic = 1..4
      BY DEF Magic
    <3>. QED
      BY <3>1, <3>2, Zenon DEF Found
  <2>3. \A m \in Nat : 1..m = 1..4 => m = 4
    OBVIOUS
  <2>. QED
    BY <2>1, <2>2, <2>3
<1>1. Len(Window) = 4 /\ \A k \in 1..4 : Val(Window[k]) = Magic[k]
  <2>1. ASSUME NEW k \in 1..4 PROVE Val(Window[k]) = Magic[k]
    <3>1. [j \in 1..4 |-> Val(Window[j])][k] = Magic[k]
      BY <1>0, Zenon DEF Found
    <3>. QED
      BY <3>1, Zenon
  <2>. QED
    BY <1>0, <2>1
<1>2. /\ Window \in Seq(Place)
      /\ \A k \in 1..4 : Window[k] + 4 = pos + 1 + k
  BY <1>1, WindowTypes, WindowAt DEF TextInv, TextParts
<1>3. pos \in Nat /\ pos + 1 <= Len(script) /\ Len(script) \in Nat
  BY ScanPlace, ScriptLength DEF Place, TextInv
<1>4. \A k \in 1..4 : Window[k] \in Nat \ {0}
  <2>1. \A k \in 1..4 : Window[k] \in Place
    BY <1>0, <1>2, ElementOfSeq
  <2>. QED
    BY <2>1, PlaceNat DEF TextInv
<1>5. \A k \in 1..4 : Window[k] = (pos - 2) + k - 1
  <2>1. \A w, q \in Nat : \A k \in 1..4 : w + 4 = q + 1 + k => w = (q - 2) + k - 1
    OBVIOUS
  <2>. QED
    BY <1>2, <1>3, <1>4, <2>1
<1>6. pos - 2 \in 1..(pos + 1) /\ Window[4] = pos + 1
  BY <1>3, <1>4, <1>5
<1>7. \A k \in 1..4 : Window[k] \in Place /\ script[Window[k]].text
  <2>1. SUFFICES ASSUME NEW k \in 1..4
        PROVE  Window[k] \in Place /\ script[Window[k]].text
    OBVIOUS
  <2>2. Window[k] \in Place
    BY <1>1, <1>2, ElementOfSeq
  <2>3. Window[k] \in Chars(Window)
    BY <1>1 DEF Chars
  <2>. QED
    BY <2>2, <2>3, ScanShown
<1>8. \A k \in 1..4 : script[Window[k]] = [val |-> Magic[k], text |-> TRUE]
  <2>1. SUFFICES ASSUME NEW k \in 1..4
        PROVE  script[Window[k]] = [val |-> Magic[k], text |-> TRUE]
    OBVIOUS
  <2>2. /\ script[Window[k]] = [val |-> Val(Window[k]), text |-> script[Window[k]].text]
        /\ script[Window[k]].text \in BOOLEAN
    BY <1>7, ScriptItem DEF TextInv
  <2>3. script[Window[k]].text = TRUE
    BY <1>7, <2>2
  <2>. QED
    BY <1>1, <2>2, <2>3, Zenon
<1>9. (pos - 2) + 3 <= Len(script)
  BY <1>3
<1>. QED
  BY <1>1, <1>5, <1>6, <1>8, <1>9 DEF Offers

\* An offer whose last byte comes is in the window, unless it was cut or lost.
LEMMA OfferIsFound ==
  ASSUME TextInv, rphase = "scan", pos < taken, Val(pos + 1) # "IAC",
         NEW p \in Nat \ {0}, Offers(script, p), p + 3 = pos + 1,
         p \notin cut, session \cap p..pos = {}
  PROVE  Found
<1>1. pos \in Nat /\ p \in 1..pos /\ pos < p + 3 /\ p = pos - 2
  BY ScanPlace
<1>2. pos < p + Len(magic_buf)
  BY <1>1 DEF TextInv, TextParts, PartInv
<1>3. magic_buf \in Seq(Place) /\ Len(magic_buf) <= 4
  BY DEF TextInv, Typed
<1>4. Len(magic_buf) \in Nat
  BY <1>3, LenProperties
<1>5. \A m \in Nat : m <= 4 /\ pos < p + m => m = 4 \/ (m # 4 /\ m + 1 = 4)
  BY <1>1
<1>6. Len(Window) = 4
  BY <1>2, <1>3, <1>4, <1>5, WindowAt DEF TextInv, TextParts
<1>7. ASSUME NEW k \in 1..4 PROVE Val(Window[k]) = Magic[k]
  <2>1. Window[k] + 4 = pos + 1 + k
    BY <1>6, WindowAt DEF TextInv, TextParts
  <2>2. Window \in Seq(Place)
    BY WindowTypes DEF TextInv
  <2>3. Window[k] \in Nat
    <3>1. Window[k] \in Place
      BY <1>6, <2>2, ElementOfSeq
    <3>. QED
      BY <3>1, PlaceNat DEF TextInv
  <2>4. Window[k] = p + k - 1 /\ Window[k] \in p..(p + 3) /\ Window[k] - p + 1 = k
    BY <1>1, <2>1, <2>3
  <2>. QED
    BY <2>4, OfferBytes DEF TextInv
<1>8. Magic = [i \in 1..4 |-> Magic[i]]
  BY DEF Magic
<1>. QED
  BY <1>6, <1>7, <1>8 DEF Found

\* The byte goes into the window; no offer is complete with it.
LEMMA TextPasses ==
  ASSUME TextInv, ScanByte, ~Found
  PROVE  TextParts'
<1>1. /\ rphase = "scan" /\ pos < taken /\ Val(pos + 1) # "IAC" /\ pos' = pos + 1
      /\ UNCHANGED <<script, taken, cut>>
  BY DEF ScanByte, bbsVars
<1>2. /\ magic_buf' = Window /\ display' = Ready
      /\ UNCHANGED <<rphase, shown, session>>
  BY DEF ScanByte, Found, Window, Longer, Ready
<1>3. /\ pos \in Nat /\ pos + 1 \in Nat /\ pos + 1 \in Place /\ pos + 1 \notin session
      /\ pos + 2 \in Begins(script) /\ session \subseteq 1..pos
  BY <1>1, ScanPlace DEF TextInv, TextParts, PlaceInv
<1>4. /\ Len(Window) \in Nat
      /\ Len(magic_buf) # 4 => Len(Window) = Len(magic_buf) + 1
      /\ Len(magic_buf) = 4 => Len(Window) = 4
      /\ \A i \in 1..Len(Window) : Window[i] + Len(Window) = pos + 1 + i
  BY <1>1, WindowAt DEF TextInv, TextParts
<1>5. Len(magic_buf) \in Nat /\ Len(magic_buf) <= pos
  BY LenProperties DEF TextInv, Typed, TextParts, WindowInv
<1>6. WindowInv'
  <2>1. Len(Window) <= pos + 1
    <3>1. \A m, w \in Nat : (m # 4 => w = m + 1) /\ (m = 4 => w = 4) /\ m <= pos => w <= pos + 1
      BY <1>3
    <3>. QED
      BY <1>4, <1>5, <3>1
  <2>. QED
    BY <1>1, <1>2, <1>4, <2>1 DEF WindowInv
<1>7. PlaceInv'
  <2>1. 1..pos \subseteq 1..(pos + 1) /\ (pos + 1) + 1 = pos + 2
    BY <1>3
  <2>. QED
    BY <1>1, <1>2, <1>3, <2>1 DEF PlaceInv
<1>8. ShownInv'
  <2>1. Chars(Output') = Chars((shown \o Ready) \o Window)
    BY <1>2 DEF Output
  <2>2. Meant' = {p \in 1..(pos + 1) : script[p].text} \ session
    BY <1>1, <1>2 DEF Meant
  <2>. QED
    BY <1>1, <2>1, <2>2, ScanShown DEF ShownInv
<1>9. PartInv'
  <2>1. SUFFICES ASSUME NEW p \in 1..(pos + 1), Offers(script, p), pos + 1 < p + 3
        PROVE  \/ p \in cut
               \/ session \cap p..(pos + 1) # {}
               \/ pos + 1 < p + Len(Window)
    BY <1>1, <1>2 DEF PartInv
  <2>2. CASE p = pos + 1
    <3>1. Len(Window) > 0
      <4>1. \A m, w \in Nat : (m # 4 => w = m + 1) /\ (m = 4 => w = 4) => w > 0
        OBVIOUS
      <4>. QED
        BY <1>4, <1>5, <4>1
    <3>. QED
      BY <1>3, <1>4, <2>2, <3>1
  <2>3. CASE p # pos + 1
    <3>1. p \in 1..pos /\ pos < p + 3 /\ p..pos \subseteq p..(pos + 1)
      BY <1>3, <2>1, <2>3
    <3>2. \/ p \in cut \/ session \cap p..pos # {} \/ pos < p + Len(magic_buf)
      BY <1>1, <2>1, <3>1 DEF TextInv, TextParts, PartInv
    <3>3. ASSUME pos < p + Len(magic_buf) PROVE pos + 1 < p + Len(Window)
      <4>1. \A m, w \in Nat : /\ m # 4 => w = m + 1
                              /\ m = 4 => w = 4
                              /\ pos < p + m
                              => pos + 1 < p + w
        BY <1>3, <2>1, <3>1
      <4>. QED
        BY <1>4, <1>5, <3>3, <4>1
    <3>. QED
      BY <3>1, <3>2, <3>3
  <2>. QED
    BY <2>2, <2>3
<1>10. OfferTaken'
  <2>1. SUFFICES ASSUME NEW p \in 1..Len(script), Offers(script, p), p + 3 <= pos + 1,
                        session \cap p..(p + 3) = {}
        PROVE  p \in cut
    BY <1>1, <1>2 DEF OfferTaken
  <2>2. CASE p + 3 <= pos
    BY <2>1, <2>2 DEF OfferTaken, TextInv, TextParts
  <2>3. CASE ~(p + 3 <= pos)
    <3>1. p \in Nat \ {0} /\ p + 3 = pos + 1 /\ p..pos \subseteq p..(p + 3)
      BY <1>3, <2>1, <2>3
    <3>. QED
      BY <1>1, <2>1, <3>1, OfferIsFound
  <2>. QED
    BY <2>2, <2>3
<1>. QED
  BY <1>6, <1>7, <1>8, <1>9, <1>10 DEF TextParts

\* The byte completes an offer: a session takes over, with the window.
LEMMA TextFound ==
  ASSUME TextInv, ScanByte, Found
  PROVE  TextParts'
<1>1. /\ rphase = "scan" /\ pos < taken /\ Val(pos + 1) # "IAC" /\ pos' = pos + 1
      /\ UNCHANGED <<script, taken, cut>>
  BY DEF ScanByte, bbsVars
<1>2. /\ magic_buf' = <<>> /\ display' = <<>> /\ shown' = shown \o Ready
      /\ session' = session \cup {Window[i] : i \in 1..4} /\ rphase' = "session"
  BY DEF ScanByte, Found, Window, Longer, Ready
<1>3. /\ pos \in Nat /\ pos + 1 \in Nat /\ pos + 1 \in Place /\ pos + 1 \notin session
      /\ pos + 2 \in Begins(script) /\ session \subseteq 1..pos
  BY <1>1, ScanPlace DEF TextInv, TextParts, PlaceInv
<1>4. /\ Len(Window) = 4 /\ pos - 2 \in 1..(pos + 1) /\ Offers(script, pos - 2)
      /\ Window[4] = pos + 1
  BY <1>1, FoundIsOffer
<1>5. session' = session \cup Chars(Window) /\ pos + 1 \in session'
  BY <1>2, <1>4 DEF Chars
<1>6. Chars(Window) \subseteq 1..(pos + 1)
  BY <1>1, ScanShown
<1>7. WindowInv'
  <2>1. Len(<<>>) = 0
    OBVIOUS
  <2>. QED
    BY <1>1, <1>2, <1>3, <2>1 DEF WindowInv
<1>8. PlaceInv'
  <2>1. 1..pos \subseteq 1..(pos + 1) /\ (pos + 1) + 1 = pos + 2
    BY <1>3
  <2>. QED
    BY <1>1, <1>2, <1>3, <1>4, <1>5, <1>6, <2>1 DEF PlaceInv
<1>9. PartInv'
  <2>1. \A p \in 1..(pos + 1) : pos + 1 \in p..(pos + 1)
    BY <1>3
  <2>. QED
    BY <1>1, <1>5, <2>1 DEF PartInv
<1>10. ShownInv'
  <2>1. Ready \in Seq(Nat) /\ shown \in Seq(Nat)
    BY <1>1, ScanParts DEF TextInv, OrderInv
  <2>2. Output' = shown \o Ready
    BY <1>2, <2>1, ConcatProperties, ConcatEmptySeq DEF Output
  <2>3. Meant' = {p \in 1..(pos + 1) : script[p].text} \ (session \cup Chars(Window))
    BY <1>1, <1>5 DEF Meant
  <2>. QED
    BY <1>1, <2>2, <2>3, ScanShown DEF ShownInv
<1>11. OfferTaken'
  <2>1. SUFFICES ASSUME NEW p \in 1..Len(script), Offers(script, p), p + 3 <= pos + 1,
                        session' \cap p..(p + 3) = {}
        PROVE  p \in cut
    BY <1>1 DEF OfferTaken
  <2>2. CASE p + 3 <= pos
    BY <1>5, <2>1, <2>2 DEF OfferTaken, TextInv, TextParts
  <2>3. CASE ~(p + 3 <= pos)
    <3>1. pos + 1 \in p..(p + 3)
      BY <1>3, <2>1, <2>3
    <3>. QED
      BY <1>5, <2>1, <3>1
  <2>. QED
    BY <2>2, <2>3
<1>. QED
  BY <1>7, <1>8, <1>9, <1>10, <1>11 DEF TextParts

LEMMA TextInit == Init => TextInv
<1>. SUFFICES ASSUME Init PROVE TextInv
  OBVIOUS
<1>1. Typed /\ OrderInv
  BY TypeInit, OrderInit
<1>2. /\ script \in Scripts /\ rphase = "read" /\ pos = 0 /\ session = {} /\ cut = {}
      /\ magic_buf = <<>> /\ display = <<>> /\ shown = <<>>
      /\ Len(<<>>) = 0
  BY DEF Init
<1>3. Output = <<>>
  BY <1>2, EmptySeq, ConcatEmptySeq DEF Output
<1>4. 1..0 = {} /\ 0 <= 0 /\ 0 + 1 = 1
  OBVIOUS
<1>5. 1 \in Begins(script)
  BY <1>1, ScriptBegins DEF Beginnings
<1>6. ShownInv
  BY <1>2, <1>3, <1>4 DEF ShownInv, Chars, Meant
<1>7. WindowInv /\ PlaceInv /\ PartInv
  BY <1>2, <1>4, <1>5 DEF WindowInv, PlaceInv, PartInv
<1>8. OfferTaken
  <2>1. \A p \in 1..Len(script) : ~(p + 3 <= 0)
    BY <1>1, ScriptLength
  <2>. QED
    BY <1>2, <2>1 DEF OfferTaken
<1>. QED
  BY <1>1, <1>6, <1>7, <1>8 DEF TextInv, TextParts

LEMMA TextStep ==
  ASSUME TextInv, [Next]_vars
  PROVE  TextParts'
<1>1. taken \in Nat /\ sent \in Nat /\ taken <= sent
  BY ScriptLength DEF TextInv, Typed
<1>2. CASE \/ UNCHANGED vars \/ BbsSends \/ BbsHangsUp \/ Type \/ Local \/ Resize
           \/ RunEnds \/ Interrupt \/ Read \/ ReadTimeout \/ AwaitCommand
  <2>1. UNCHANGED <<script, textVars, pos, session, cut>>
    BY <1>2 DEF vars, BbsSends, BbsHangsUp, Type, Local, TakeKey, KeyTimeout, Resize,
       RunEnds, Interrupt, Read, ReadTimeout, AwaitCommand, readVars, bbsVars
  <2>2. taken' \in {taken, taken + 1, sent}
    BY <1>2 DEF vars, BbsSends, BbsHangsUp, Type, Local, TakeKey, KeyTimeout, Resize,
       RunEnds, Interrupt, Read, ReadTimeout, AwaitCommand, readVars
  <2>3. \/ rphase' \in {rphase, "closed"}
        \/ rphase = "read" /\ rphase' \in {"scan", "ended"}
        \/ rphase = "cmd" /\ rphase' = "raised"
    BY <1>2 DEF vars, BbsSends, BbsHangsUp, Type, Local, TakeKey, KeyTimeout, Resize,
       RunEnds, Interrupt, Read, ReadTimeout, AwaitCommand
  <2>4. taken' \in Nat /\ taken <= taken'
    BY <1>1, <2>2
  <2>. QED
    BY <1>1, <2>1, <2>3, <2>4, TextIdle
<1>3. CASE \/ ScanIac \/ ChunkDone \/ SessionReads \/ SessionEnds \/ ScanByte \/ Command
  BY <1>3, TextScanIac, TextChunkDone, TextSession, TextCommand, TextPasses, TextFound
<1>. QED
  BY <1>2, <1>3 DEF Next, Remote

LEMMA TextAlways == Spec => []TextInv
<1>1. Init => TextInv
  BY TextInit
<1>2. TextInv /\ [Next]_vars => TextInv'
  <2>1. SUFFICES ASSUME TextInv, [Next]_vars PROVE TextInv'
    OBVIOUS
  <2>2. TextParts' /\ OrderInv'
    BY <2>1, TextStep, OrderStep DEF TextInv
  <2>3. Typed'
    BY <2>1, TypeStep DEF TextInv
  <2>. QED
    BY <2>2, <2>3 DEF TextInv
<1>. QED
  BY <1>1, <1>2, PTL DEF Spec

\* What the BBS means as text is shown once and in order, but for what a
\* transfer took, and nothing else is; nothing is held back while the client
\* waits for more: for every script, cut into chunks in any way.
THEOREM TextIsShown == Spec => []TextInOrder
<1>1. TextInv => TextInOrder
  <2>1. SUFFICES ASSUME TextInv PROVE TextInOrder
    OBVIOUS
  <2>2. InOrder
    BY <2>1 DEF TextInv, OrderInv, InOrder, Ascending
  <2>3. {Output[i] : i \in 1..Len(Output)} = {p \in 1..pos : script[p].text} \ session
    BY <2>1 DEF TextInv, TextParts, ShownInv, Chars, Meant
  <2>4. /\ rphase \in {"read", "cmd", "ended"} => magic_buf = <<>>
        /\ rphase \in {"read", "ended"} => display = <<>>
    BY <2>1 DEF TextInv, TextParts, WindowInv
  <2>. QED
    BY <2>2, <2>3, <2>4 DEF TextInOrder
<1>. QED
  BY <1>1, TextAlways, PTL

\* An offer that no chunk's end cuts in two, and of which no session took a
\* byte for its own, begins a transfer.
THEOREM OfferIsTaken == Spec => []OfferTaken
<1>1. TextInv => OfferTaken
  BY DEF TextInv, TextParts
<1>. QED
  BY <1>1, TextAlways, PTL
=============================================================================
