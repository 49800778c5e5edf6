----------------------------- MODULE BBSClient -----------------------------
(***************************************************************************)
(* The telnet client of demos/bbs.py: one task reads what the BBS sends,   *)
(* answers its commands, shows its text and hands the line to Z-Modem when *)
(* a transfer is offered; the other sends what is typed.  They share the   *)
(* flags _running and _in_transfer, and the writer.                        *)
(*                                                                         *)
(* A byte is its place in what the BBS sends; places have a value, and the *)
(* BBS's meaning: text, or part of a command.  The reader takes one byte   *)
(* or command of its chunk per step, which is finer than the event loop,   *)
(* whose tasks switch only where they await.  Standard input is a tty.     *)
(***************************************************************************)
EXTENDS Naturals, Sequences, FiniteSets

CONSTANTS
  Scripts,    \* what a BBS may send: sequences of [val, text]
  MaxKeys,    \* bound: reads of standard input that hold something
  MaxResizes  \* bound: changes of the window's size

Magic   == <<"*", "*", "ZDLE", "B">>
Options == {"WILL", "WONT", "DO", "DONT"}
Values  == Options \cup {"*", "ZDLE", "B", "IAC", "SB", "SE", "NOP", "opt", "other"}

\* Bytes p..p+3 of s offer a transfer.
Offers(s, p) ==
  p + 3 <= Len(s) /\ \A k \in 1..4 : s[p + k - 1] = [val |-> Magic[k], text |-> TRUE]

\* A telnet command: IAC, and what belongs to it up to place n.
Telnet(s, b, n) ==
  /\ s[b].val = "IAC" /\ b < n /\ n <= Len(s)
  /\ \/ s[b + 1].val \in Options /\ n = b + 2
     \/ /\ s[b + 1].val = "SB"
        /\ n \in {k \in (b + 3)..Len(s) : s[k - 1].val = "IAC" /\ s[k].val = "SE"}
        /\ \A k \in (b + 3)..(n - 1) : ~(s[k - 1].val = "IAC" /\ s[k].val = "SE")
     \/ s[b + 1].val \notin Options \cup {"SB"} /\ n = b + 1

\* B is where the bytes of text and the commands of s begin, and s says of its
\* bytes what they are: IAC IAC stands for its second byte, the rest of a
\* command, or of one that s does not finish, is no text.  After an offer there
\* is no command: a session that gives up anywhere would leave the reader amid
\* one.
Beginnings(s, B) ==
  /\ 1 \in B
  /\ \A b \in B \cap 1..Len(s) :
       \/ s[b].val # "IAC" /\ s[b].text /\ b + 1 \in B
       \/ \E n \in 1..Len(s) :
            /\ Telnet(s, b, n)
            /\ n + 1 \in B
            /\ \A k \in b..n : s[k].text <=> (k = n /\ s[b + 1].val = "IAC")
       \/ /\ s[b].val = "IAC"
          /\ \A n \in 1..Len(s) : ~Telnet(s, b, n)
          /\ \A k \in b..Len(s) : ~s[k].text
  /\ \A p \in 1..Len(s) : Offers(s, p) =>
       \A q \in p..Len(s) : q \in B /\ s[q].val # "IAC"

ASSUME ConstantsAssumption ==
  /\ Scripts \subseteq Seq([val : Values, text : BOOLEAN])
  /\ \A s \in Scripts : \E B \in SUBSET (1..(Len(s) + 1)) : Beginnings(s, B)
  /\ MaxKeys \in Nat
  /\ MaxResizes \in Nat

VARIABLES
  (* the BBS *)
  script,       \* what it sends
  sent,         \* how much of it has come in
  gone,         \* it has closed the connection
  (* _remote_to_local *)
  rphase,       \* read, scan, cmd, session; ended, raised; closed: run() is over
  taken,        \* bytes taken from the stream: the end of the chunk
  pos,          \* bytes handled
  magic_buf,    \* window of the scan, bytes as places
  display,      \* bytes ready to be shown
  shown,        \* bytes written to the terminal
  session,      \* history: bytes a transfer read, or made the client drop
  cut,          \* history: offers with the end of a chunk inside
  (* _local_to_remote *)
  lphase,       \* run, ended
  queue,        \* what was typed
  line,         \* history: writes to the BBS outside of transfers
  typed, resizes,
  (* shared *)
  running, in_transfer,
  tty,          \* mode of the terminal: raw or cooked
  orig_tc       \* the mode to restore, or none

bbsVars   == <<script, sent, gone>>
textVars  == <<magic_buf, display, shown>>
readVars  == <<taken, pos, session, cut>>
keyVars   == <<lphase, queue, typed>>
ttyVars   == <<tty, orig_tc>>
vars == <<bbsVars, rphase, textVars, readVars, keyVars, line, resizes,
          running, in_transfer, ttyVars>>

Val(p) == script[p].val

-----------------------------------------------------------------------------
(* The BBS, the terminal *)

BbsSends ==
  /\ sent < Len(script) /\ ~gone /\ rphase # "closed"
  /\ sent' = sent + 1
  /\ UNCHANGED <<script, gone, rphase, textVars, readVars, keyVars, line,
                 resizes, running, in_transfer, ttyVars>>

BbsHangsUp ==
  /\ ~gone /\ rphase # "closed"
  /\ gone' = TRUE
  /\ UNCHANGED <<script, sent, rphase, textVars, readVars, keyVars, line,
                 resizes, running, in_transfer, ttyVars>>

\* Faulty: the mode saved only when the client starts.
SetRawUnsaved == tty' = "raw" /\ UNCHANGED orig_tc

SetRaw == orig_tc' = tty /\ tty' = "raw"

RestoreTerminal ==
  \/ orig_tc # "none" /\ tty' = orig_tc /\ orig_tc' = "none"
  \/ orig_tc = "none" /\ UNCHANGED ttyVars

-----------------------------------------------------------------------------
(* _remote_to_local *)

\* Faulty: the window first, which holds the later bytes.
FlushBackwards ==
  shown' = shown \o magic_buf \o display /\ display' = <<>> /\ magic_buf' = <<>>

\* display and then the window go to the terminal.
Flush ==
  shown' = shown \o display \o magic_buf /\ display' = <<>> /\ magic_buf' = <<>>

\* The loop condition, looked at between chunks.
NextRound == rphase' = IF running THEN "read" ELSE "ended"

\* Faulty: nothing read is nothing new.
NeverAtEof == FALSE

\* The stream is read to its end: read() is empty, readexactly() raises.
AtEof == taken = sent /\ gone

\* read(4096) returns what has come in; or, at the end of the stream, nothing.
Read ==
  /\ rphase = "read"
  /\ \/ /\ taken < sent
        /\ taken' = sent
        /\ rphase' = "scan"
        /\ UNCHANGED running
     \/ /\ AtEof
        /\ running' = FALSE
        /\ rphase' = "ended"
        /\ UNCHANGED taken
  /\ UNCHANGED <<bbsVars, textVars, pos, session, cut, keyVars, line, resizes,
                 in_transfer, ttyVars>>

\* Faulty: read() without a time-out.
ReadForever == FALSE

\* It times out, and the other task wants to end.
ReadTimeout ==
  /\ rphase = "read"
  /\ taken = sent /\ ~gone /\ ~running
  /\ rphase' = "ended"
  /\ UNCHANGED <<bbsVars, textVars, readVars, keyVars, line, resizes, running,
                 in_transfer, ttyVars>>

\* Faulty: two bytes leave it; one too many stay.
SlideFar(w)  == IF Len(w) > 4 THEN Tail(Tail(w)) ELSE w
SlideLate(w) == IF Len(w) > 5 THEN Tail(w) ELSE w

\* The window holds four bytes; what leaves it is to be shown.
Slide(w) == IF Len(w) > 4 THEN Tail(w) ELSE w

\* Any byte but IAC; the fourth of the magic begins a transfer, with the line
\* closed to keys and the terminal as it was.
ScanByte ==
  LET longer == Append(magic_buf, pos + 1)
      window == Slide(longer)
      ready  == IF Len(longer) > 4 THEN Append(display, Head(longer)) ELSE display
      found  == [i \in 1..Len(window) |-> Val(window[i])] = Magic
  IN /\ rphase = "scan" /\ pos < taken
     /\ Val(pos + 1) # "IAC"
     /\ pos' = pos + 1
     /\ \/ /\ ~found
           /\ magic_buf' = window /\ display' = ready
           /\ UNCHANGED <<rphase, shown, session, in_transfer, ttyVars>>
        \/ /\ found
           /\ shown' = shown \o ready
           /\ display' = <<>> /\ magic_buf' = <<>>
           /\ session' = session \cup {window[i] : i \in 1..4}
           /\ rphase' = "session"
           /\ in_transfer' = TRUE
           /\ RestoreTerminal
     /\ UNCHANGED <<bbsVars, taken, cut, keyVars, line, resizes, running>>

\* IAC: what came before it is shown at once.
ScanIac ==
  /\ rphase = "scan" /\ pos < taken
  /\ Val(pos + 1) = "IAC"
  /\ Flush
  /\ rphase' = "cmd"
  /\ UNCHANGED <<bbsVars, readVars, keyVars, line, resizes, running,
                 in_transfer, ttyVars>>

EndsSub(n) == n >= pos + 4 /\ Val(n - 1) = "IAC" /\ Val(n) = "SE"

\* The command that begins after pos is known to end with byte n: an option
\* takes one more byte, a subnegotiation lasts to the first IAC SE.
CommandEnds(n) ==
  /\ pos + 2 <= n /\ n <= taken
  /\ LET cmd == Val(pos + 2)
     IN \/ cmd \in Options /\ n = pos + 3
        \/ cmd = "SB" /\ EndsSub(n) /\ \A k \in (pos + 4)..(n - 1) : ~EndsSub(k)
        \/ cmd \notin Options \cup {"SB"} /\ n = pos + 2

\* The chunk ends amid the command: readexactly(1), with no time-out.
AwaitCommand ==
  /\ rphase = "cmd"
  /\ \A n \in 1..taken : ~CommandEnds(n)
  /\ \/ taken < sent /\ taken' = taken + 1 /\ UNCHANGED rphase
     \/ AtEof /\ rphase' = "raised" /\ UNCHANGED taken
  /\ UNCHANGED <<bbsVars, textVars, pos, session, cut, keyVars, line, resizes,
                 running, in_transfer, ttyVars>>

\* A command is handled: DO and WILL are answered, IAC IAC is a byte of text,
\* the rest is passed over.  The answer fails when the connection is gone.
Command ==
  /\ rphase = "cmd"
  /\ \E n \in 1..taken :
       /\ CommandEnds(n)
       /\ pos' = n
       /\ display' = IF Val(pos + 2) = "IAC" THEN Append(display, n) ELSE display
  /\ \/ /\ Val(pos + 2) \in {"DO", "WILL"}
        /\ \/ line' = line + 1 /\ rphase' = "scan"
           \/ gone /\ rphase' = "raised" /\ UNCHANGED line
     \/ /\ Val(pos + 2) \notin {"DO", "WILL"}
        /\ rphase' = "scan"
        /\ UNCHANGED line
  /\ UNCHANGED <<bbsVars, magic_buf, shown, taken, session, cut, keyVars,
                 resizes, running, in_transfer, ttyVars>>

\* The end of a chunk: what is in the window is shown, offer or not.
ChunkDone ==
  /\ rphase = "scan" /\ pos = taken
  /\ Flush
  /\ NextRound
  /\ cut' = cut \cup {p \in 1..pos : Offers(script, p) /\ pos < p + 3}
  /\ UNCHANGED <<bbsVars, taken, pos, session, keyVars, line, resizes, running,
                 in_transfer, ttyVars>>

\* Z-Modem reads a byte: of the chunk, then of the stream.
SessionReads ==
  /\ rphase = "session" /\ pos < sent
  /\ pos' = pos + 1
  /\ taken' = IF taken > pos THEN taken ELSE pos + 1
  /\ session' = session \cup {pos + 1}
  /\ UNCHANGED <<bbsVars, rphase, textVars, cut, keyVars, line, resizes,
                 running, in_transfer, ttyVars>>

\* Faulty: not when receive() raises.
ReopenIfOk == in_transfer' \in {FALSE, in_transfer}

\* _do_zmodem_receive lets keys through again.
Reopen == in_transfer' = FALSE

\* ZModem.receive() returns or raises, anywhere: what it left of the chunk is
\* dropped with its transport.
SessionEnds ==
  /\ rphase = "session"
  /\ session' = session \cup (pos + 1)..taken
  /\ pos' = taken
  /\ rphase' = "scan"
  /\ Reopen
  /\ SetRaw
  /\ UNCHANGED <<bbsVars, textVars, taken, cut, keyVars, line, resizes, running>>

-----------------------------------------------------------------------------
(* _local_to_remote, and the window *)

\* Something is typed; "quit" holds a Ctrl+], or is a terminal that is gone.
Type ==
  /\ typed < MaxKeys /\ lphase = "run"
  /\ typed' = typed + 1
  /\ \E k \in {"key", "quit"} : queue' = Append(queue, k)
  /\ UNCHANGED <<bbsVars, rphase, textVars, readVars, lphase, line,
                 resizes, running, in_transfer, ttyVars>>

\* The loop condition, looked at after each item of the queue.
NextKey == lphase' = IF running' THEN "run" ELSE "ended"

\* An item of the queue: the end, a key to drop amid a transfer, or to send.
TakeKey ==
  /\ lphase = "run" /\ queue # <<>>
  /\ queue' = Tail(queue)
  /\ \/ /\ Head(queue) = "quit"
        /\ running' = FALSE
        /\ UNCHANGED line
     \/ /\ Head(queue) = "key" /\ in_transfer
        /\ UNCHANGED <<line, running>>
     \/ /\ Head(queue) = "key" /\ ~in_transfer
        /\ line' = line + 1
        /\ UNCHANGED running
     \/ /\ Head(queue) = "key" /\ ~in_transfer /\ gone
        /\ running' = FALSE
        /\ UNCHANGED line
  /\ NextKey
  /\ UNCHANGED <<bbsVars, rphase, textVars, readVars, typed, resizes,
                 in_transfer, ttyVars>>

\* get() times out, and the other task has ended.
KeyTimeout ==
  /\ lphase = "run" /\ queue = <<>> /\ ~running
  /\ lphase' = "ended"
  /\ UNCHANGED <<bbsVars, rphase, textVars, readVars, queue, typed,
                 line, resizes, running, in_transfer, ttyVars>>

\* SIGWINCH: _on_winch writes at once, between two steps of the tasks.
Resize ==
  /\ rphase # "closed" /\ resizes < MaxResizes
  /\ resizes' = resizes + 1
  /\ \/ ~in_transfer /\ line' = line + 1
     \/ in_transfer /\ UNCHANGED line
  /\ UNCHANGED <<bbsVars, rphase, textVars, readVars, keyVars, running,
                 in_transfer, ttyVars>>

-----------------------------------------------------------------------------
(* run() *)

\* gather() returns when both tasks have, or raises when the reader does.
RunEnds ==
  /\ \/ rphase = "ended" /\ lphase = "ended"
     \/ rphase = "raised"
  /\ rphase' = "closed" /\ lphase' = "ended"
  /\ RestoreTerminal
  /\ UNCHANGED <<bbsVars, textVars, readVars, queue, typed, line,
                 resizes, running, in_transfer>>

\* SIGINT cancels both tasks wherever they are: _do_zmodem_receive is left
\* at its await, and only run()'s finally clause is executed.
Interrupt ==
  /\ rphase # "closed"
  /\ rphase' = "closed" /\ lphase' = "ended"
  /\ RestoreTerminal
  /\ UNCHANGED <<bbsVars, textVars, readVars, queue, typed, line,
                 resizes, running, in_transfer>>

-----------------------------------------------------------------------------

\* Connected, the terminal in raw mode.
Init ==
  /\ script \in Scripts /\ sent = 0 /\ gone = FALSE
  /\ rphase = "read" /\ taken = 0 /\ pos = 0
  /\ magic_buf = <<>> /\ display = <<>> /\ shown = <<>>
  /\ session = {} /\ cut = {}
  /\ lphase = "run" /\ queue = <<>> /\ line = 0
  /\ typed = 0 /\ resizes = 0
  /\ running = TRUE /\ in_transfer = FALSE
  /\ tty = "raw" /\ orig_tc = "cooked"

Remote == \/ Read \/ ReadTimeout \/ ScanByte \/ ScanIac \/ AwaitCommand
          \/ Command \/ ChunkDone

Local == TakeKey \/ KeyTimeout

Next ==
  \/ BbsSends \/ BbsHangsUp
  \/ Remote \/ SessionReads \/ SessionEnds
  \/ Type \/ Local \/ Resize
  \/ RunEnds \/ Interrupt

Spec == Init /\ [][Next]_vars

\* The event loop runs both tasks, and every session ends (Terminates in
\* ZModem: each of its reads has a time-out).  The BBS and the user owe nothing.
FairSpec ==
  Spec /\ WF_vars(Remote) /\ WF_vars(SessionEnds) /\ WF_vars(Local) /\ WF_vars(RunEnds)

-----------------------------------------------------------------------------
(* Properties *)

\* Every variable stays in its type.
TypeOK ==
  /\ script \in Scripts
  /\ sent \in 0..Len(script) /\ taken \in 0..sent /\ pos \in 0..taken
  /\ rphase \in {"read", "scan", "cmd", "session", "ended", "raised", "closed"}
  /\ \A s \in {magic_buf, display, shown} : s \in Seq(1..Len(script))
  /\ Len(magic_buf) <= 4
  /\ session \subseteq 1..Len(script) /\ cut \subseteq 1..Len(script)
  /\ lphase \in {"run", "ended"}
  /\ queue \in Seq({"key", "quit"}) /\ line \in Nat
  /\ typed \in 0..MaxKeys /\ resizes \in 0..MaxResizes
  /\ running \in BOOLEAN /\ in_transfer \in BOOLEAN /\ gone \in BOOLEAN
  /\ tty \in {"raw", "cooked"} /\ orig_tc \in {"none", "raw", "cooked"}

Output == shown \o display \o magic_buf

\* No byte is shown twice, nor after a later one.
InOrder == \A i, j \in 1..Len(Output) : i < j => Output[i] < Output[j]

\* What the BBS means as text is shown once and in order, but for what a
\* transfer took; commands are not shown; nothing is held back while the
\* client waits for more (the window, the flushes and the IAC branches of
\* _remote_to_local, wherever a chunk ends).
TextInOrder ==
  /\ InOrder
  /\ {Output[i] : i \in 1..Len(Output)} = {p \in 1..pos : script[p].text} \ session
  /\ rphase \in {"read", "cmd", "ended"} => magic_buf = <<>>
  /\ rphase \in {"read", "ended"} => display = <<>>

\* An offer that comes in one piece begins a transfer, whatever stands before
\* it ("ZModem transfers initiated by the BBS are detected automatically",
\* README.md).  One that a chunk's end cut in two is shown instead:
\* _remote_to_local empties its window there.
OfferTaken ==
  \A p \in 1..Len(script) :
    Offers(script, p) /\ p + 3 <= pos /\ session \cap p..(p + 3) = {} =>
      p \in cut

\* The terminal is raw while the client is connected, and as it was during a
\* transfer and after run(), however that ends: the saved mode is never
\* overwritten by raw mode, nor restored twice (_set_raw, _restore_terminal).
TerminalRestored ==
  tty = IF rphase \in {"session", "closed"} THEN "cooked" ELSE "raw"

\* A key leaves the queue, and does not reach a BBS that is there.
DropsKey ==
  /\ queue # <<>> /\ Head(queue) = "key" /\ queue' = Tail(queue)
  /\ line' = line /\ ~gone

\* A transfer has the line to itself, and a key is thrown away only amid one:
\* the flag that _on_winch and _local_to_remote go by is up exactly while
\* _do_zmodem_receive runs.
SessionOwnsLine ==
  [][ /\ line' # line => rphase # "session"
      /\ DropsKey => rphase = "session" ]_vars

\* A BBS that hangs up ends the client, also amid a command or a transfer.
HangupEnds == gone ~> rphase = "closed"

\* So does the user, as soon as no transfer is on; unless a command of the
\* BBS stays unfinished, since that is awaited without a time-out.
QuitEnds == ~running ~> (rphase = "closed" \/ (rphase = "cmd" /\ taken = sent))
=============================================================================
