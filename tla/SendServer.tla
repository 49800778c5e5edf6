----------------------------- MODULE SendServer -----------------------------
(***************************************************************************)
(* The demos over TCP: the server of demos/send.py, which sends one batch  *)
(* of files to each client that connects, or to the first only, and the    *)
(* clients of demos/receive.py.  Each client and each handler is a task.   *)
(*                                                                         *)
(* The Z-Modem session between a handler and its client is reduced to the  *)
(* files that have arrived, and keeps what ZModem shows of it: the sender  *)
(* goes on when the receiver has the file, send() returns only when it has *)
(* them all, and a file of which nothing is left to send (an empty one, or *)
(* one that the client has already) fails the session at both ends.        *)
(*                                                                         *)
(* Two things depend on what is installed.  rich keeps one live display    *)
(* per console: a second one is nested in it, or, before rich 14.1,        *)
(* refused with a LiveError.  And asyncio's Server.wait_closed() waits,    *)
(* since Python 3.12, until every connection is closed.                    *)
(***************************************************************************)
EXTENDS Naturals, FiniteSets

CONSTANTS
  Clients,    \* processes that run yw-receive, each once
  NFiles,     \* files of the batch
  Modes,      \* values --serve-forever may have
  Lacks,      \* sets of files: those of which a client may lack something
  Nesting,    \* whether the rich that is installed nests displays
  WaitClosed, \* whether wait_closed() waits for connections
  MaxFaults   \* bound: connections that drop, files that cannot be opened,
              \* clients slower than a time-out

ASSUME ConstantsAssumption ==
  /\ IsFiniteSet(Clients)
  /\ NFiles \in Nat \ {0}
  /\ Modes \subseteq BOOLEAN
  /\ Lacks \subseteq SUBSET (1..NFiles)
  /\ Nesting \subseteq BOOLEAN
  /\ WaitClosed \subseteq BOOLEAN
  /\ MaxFaults \in Nat

VARIABLES
  serve_forever, nested, waits,   \* never change
  left,       \* files of which the client lacks something; never changes
  server,     \* serve(): listening, waiting (in gather), closing (at the end
              \* of async with), returned
  serving,    \* is_serving()
  awaited,    \* the handlers that gather() was given
  interrupted,
  handler,    \* task of each client: none, accepted, starting, sending,
              \* closing and draining (its finally clause), done, crashed
  ok,         \* handlers whose send() returned
  lives,      \* displays the server's console holds, by handler
  client,     \* idle, backlog, session; returned, failed, refused, reset
  begun,      \* files the client has seen begin, each with a display of its own
  got,        \* files the client has
  faults      \* faults and slow programs so far

setting     == <<serve_forever, nested, waits, left>>
sessionVars == <<client, begun, got>>
serverVars  == <<server, serving, awaited, interrupted>>
handlerVars == <<handler, ok, lives>>
vars == <<setting, serverVars, handlerVars, sessionVars, faults>>

ClientFinal == {"returned", "failed", "refused", "reset"}
Pending     == {c \in Clients : handler[c] \in {"starting", "sending", "closing", "draining"}}
Backlog     == {c \in Clients : client[c] = "backlog"}
Accepted    == {c \in Clients : handler[c] = "accepted"}

\* Connections that the server has not closed: a handler that crashed leaves
\* its own open.
Connections == {c \in Clients : handler[c] \notin {"none", "done"}}

Fault == faults < MaxFaults /\ faults' = faults + 1

\* Live.start(): a console that has a display refuses another, or nests it.
MayStart(n) == n = 0 \/ nested

\* For some of the clients a new state, for the others the old one.
With(f, S, v) == [c \in Clients |-> IF c \in S THEN v ELSE f[c]]

-----------------------------------------------------------------------------
(* serve() *)

\* The event loop accepts every connection that waits.
Accept ==
  /\ serving
  /\ Backlog # {}
  /\ handler' = With(handler, Backlog, "accepted")
  /\ client' = With(client, Backlog, "session")
  /\ UNCHANGED <<setting, serverVars, ok, lives, begun, got, faults>>

\* Faulty: closed only by the poll, a turn of the loop later.
StaysOpen == UNCHANGED serving

\* server.close(), unless it serves for ever.
StopsListening == serving' = (serving /\ serve_forever)

\* One turn later _client_factory is called for each of them, and makes its
\* task; a single-shot server closes, which resets whoever came after them.
Connected ==
  /\ Accepted # {}
  /\ handler' = With(handler, Accepted, "starting")
  /\ StopsListening
  /\ client' = IF serving' THEN client ELSE With(client, Backlog, "reset")
  /\ UNCHANGED <<setting, server, awaited, interrupted, ok, lives, begun, got,
                 faults>>

\* Faulty: the task of one client awaited.
AwaitedOne == IF Pending = {} THEN {} ELSE {CHOOSE c \in Pending : TRUE}

\* gather(*pending)
AwaitedAll == Pending

\* The poll of a single-shot server finds it closed.
Poll ==
  /\ server = "listening" /\ ~serving
  /\ server' = "waiting"
  /\ awaited' = AwaitedAll
  /\ UNCHANGED <<setting, serving, interrupted, handlerVars,
                 sessionVars, faults>>

\* Every task cancelled: a handler that sends goes to its finally clause, one
\* that is in it, or had not begun, ends with its connection open.
CancelHandlers ==
  handler' = [c \in Clients |->
                CASE handler[c] \in {"accepted", "starting", "draining"} -> "crashed"
                  [] handler[c] = "sending" -> "closing"
                  [] OTHER -> handler[c]]

\* The tasks it waits for have ended, however they did.
Gathered ==
  /\ server = "waiting"
  /\ awaited \cap Pending = {}
  /\ server' = "closing"
  /\ UNCHANGED <<setting, serving, awaited, interrupted, handlerVars, sessionVars,
                 faults>>

\* The server is closed, and, as the Python has it, all its connections are.
Closed == waits => Connections = {}

\* serve() returns, and asyncio.run() cancels what is left.
Return ==
  /\ server = "closing"
  /\ Closed
  /\ server' = "returned"
  /\ CancelHandlers
  /\ UNCHANGED <<setting, serving, awaited, interrupted, ok, lives, sessionVars,
                 faults>>

\* Ctrl+C cancels serve() where it waits: the server is closed, and gather()
\* hands it on to its tasks and awaits them.  In wait_closed() it cancels
\* everything; for ever, serve_forever() has a wait_closed() of its own, after
\* which comes the other.
Interrupt ==
  /\ server # "returned"
  /\ serving' = FALSE /\ interrupted' = TRUE
  /\ client' = With(client, Backlog, "reset")
  /\ \/ server = "listening" /\ server' = "closing" /\ UNCHANGED handler
     \/ server = "waiting" /\ CancelHandlers /\ UNCHANGED server
     \/ server = "closing" /\ CancelHandlers /\ server' = "returned"
     \/ server = "closing" /\ serve_forever /\ CancelHandlers /\ UNCHANGED server
  /\ UNCHANGED <<setting, awaited, ok, lives, begun, got, faults>>

-----------------------------------------------------------------------------
(* _handle_client() *)

\* The files are opened, and SESSION_START starts the display: when that
\* fails, so does send(), before it has written anything.
HandlerStarts(c) ==
  /\ handler[c] = "starting"
  /\ \/ /\ MayStart(Cardinality(lives))
        /\ lives' = lives \cup {c}
        /\ handler' = [handler EXCEPT ![c] = "sending"]
     \/ /\ ~MayStart(Cardinality(lives))
        /\ handler' = [handler EXCEPT ![c] = "closing"]
        /\ UNCHANGED lives
  /\ UNCHANGED <<setting, serverVars, ok, sessionVars, faults>>

\* A file cannot be opened: that is before the try statement, and the task
\* ends without closing the connection.
HandlerCrashes(c) ==
  /\ handler[c] = "starting"
  /\ Fault
  /\ handler' = [handler EXCEPT ![c] = "crashed"]
  /\ UNCHANGED <<setting, serverVars, ok, lives, sessionVars>>

\* send() returns: the client has every file, and has answered ZFIN, unless
\* that wait timed out.
HandlerReturns(c) ==
  /\ handler[c] = "sending" /\ got[c] = NFiles
  /\ \/ client[c] = "returned" /\ UNCHANGED faults
     \/ client[c] = "session" /\ Fault
  /\ handler' = [handler EXCEPT ![c] = "closing"]
  /\ ok' = ok \cup {c}
  /\ UNCHANGED <<setting, serverVars, lives, sessionVars>>

\* send() raises: the client is gone, or the connection drops.
HandlerFails(c) ==
  /\ handler[c] = "sending"
  /\ \/ Fault
     \/ client[c] = "failed" /\ UNCHANGED faults
  /\ handler' = [handler EXCEPT ![c] = "closing"]
  /\ UNCHANGED <<setting, serverVars, ok, lives, sessionVars>>

\* Faulty: only the display of a transfer that went well stopped.
StopIfOk(c) == lives' = IF c \in ok THEN lives \ {c} ELSE lives

\* panel.finish() stops the display.
StopDisplay(c) == lives' = lives \ {c}

\* The finally clause: display and files closed, end of stream written.
HandlerEnds(c) ==
  /\ handler[c] = "closing"
  /\ handler' = [handler EXCEPT ![c] = "draining"]
  /\ StopDisplay(c)
  /\ UNCHANGED <<setting, serverVars, ok, sessionVars, faults>>

\* The client's output has been read to its end.
Drained(c) == client[c] \in ClientFinal

\* The connection is closed, for want of output if it is not at its end.
HandlerCloses(c) ==
  /\ handler[c] = "draining"
  /\ \/ Drained(c) /\ UNCHANGED faults
     \/ ~Drained(c) /\ Fault
  /\ handler' = [handler EXCEPT ![c] = "done"]
  /\ UNCHANGED <<setting, serverVars, ok, lives, sessionVars>>

\* Nothing in the code closes the connection of a handler that has crashed: it
\* closes when its writer is collected or its client resets it, or never.
LeftOpenCloses(c) ==
  /\ handler[c] = "crashed"
  /\ handler' = [handler EXCEPT ![c] = "done"]
  /\ UNCHANGED <<setting, serverVars, ok, lives, sessionVars, faults>>

-----------------------------------------------------------------------------
(* receive() of demos/receive.py *)

Connect(c) ==
  /\ client[c] = "idle"
  /\ client' = [client EXCEPT ![c] = IF serving THEN "backlog" ELSE "refused"]
  /\ UNCHANGED <<setting, serverVars, handlerVars, begun, got, faults>>

\* Faulty: one file too many.
FilesLeftLate(c) == got[c] <= NFiles

\* The loop of send() over the files.
FilesLeft(c) == got[c] < NFiles

\* FILE_START: a display for each file, stopped by finish() after the last.
FileStarts(c) ==
  /\ client[c] = "session" /\ handler[c] = "sending"
  /\ begun[c] = got[c] /\ FilesLeft(c)
  /\ begun' = [begun EXCEPT ![c] = @ + 1]
  /\ \/ MayStart(begun[c]) /\ UNCHANGED client
     \/ ~MayStart(begun[c]) /\ client' = [client EXCEPT ![c] = "failed"]
  /\ UNCHANGED <<setting, serverVars, handlerVars, got, faults>>

\* The client is at a file of which it lacks nothing.
NothingLeft(c) == begun[c] > got[c] /\ begun[c] \notin left[c]

\* The rest of the file.
FileArrives(c) ==
  /\ client[c] = "session" /\ handler[c] = "sending"
  /\ begun[c] > got[c] /\ ~NothingLeft(c)
  /\ got' = [got EXCEPT ![c] = @ + 1]
  /\ UNCHANGED <<setting, serverVars, handlerVars, client, begun, faults>>

\* ZFIN is read: receive() returns, with exit code 0.
ClientReturns(c) ==
  /\ client[c] = "session" /\ got[c] = NFiles
  /\ client' = [client EXCEPT ![c] = "returned"]
  /\ UNCHANGED <<setting, serverVars, handlerVars, begun, got, faults>>

\* Faulty: the end of the stream noticed, but no time-out.
SeesEnd(c) == handler[c] \in {"draining", "done"}

\* The handler says no more: the stream is at its end, or a read times out.
HandlerGone(c) == handler[c] \in {"draining", "done", "crashed"}

\* receive() raises: it waits for a subpacket of a file that has none, it lacks
\* files, or its answer to ZFIN meets a connection that is closed, or that drops.
ClientFails(c) ==
  /\ client[c] = "session"
  /\ \/ NothingLeft(c) /\ UNCHANGED faults
     \/ HandlerGone(c) /\ got[c] < NFiles /\ UNCHANGED faults
     \/ handler[c] = "done" /\ UNCHANGED faults
     \/ Fault
  /\ client' = [client EXCEPT ![c] = "failed"]
  /\ UNCHANGED <<setting, serverVars, handlerVars, begun, got>>

-----------------------------------------------------------------------------

Init ==
  /\ serve_forever \in Modes /\ nested \in Nesting /\ waits \in WaitClosed
  /\ left \in [Clients -> Lacks]
  /\ server = "listening" /\ serving = TRUE /\ awaited = {} /\ interrupted = FALSE
  /\ handler = [c \in Clients |-> "none"] /\ ok = {} /\ lives = {}
  /\ client = [c \in Clients |-> "idle"]
  /\ begun = [c \in Clients |-> 0] /\ got = [c \in Clients |-> 0]
  /\ faults = 0

Handler(c) ==
  HandlerStarts(c) \/ HandlerReturns(c) \/ HandlerFails(c)
    \/ HandlerEnds(c) \/ HandlerCloses(c)

Session(c) ==
  FileStarts(c) \/ FileArrives(c) \/ ClientReturns(c) \/ ClientFails(c)

Next ==
  \/ Accept \/ Connected \/ Poll \/ Gathered \/ Return \/ Interrupt
  \/ \E c \in Clients :
       \/ Connect(c) \/ Session(c)
       \/ Handler(c) \/ HandlerCrashes(c) \/ LeftOpenCloses(c)

Spec == Init /\ [][Next]_vars

\* The server's loop and every process run on, and a read that is not
\* answered times out; nobody has to connect, to press Ctrl+C, or to close what
\* is left open.
FairSpec ==
  /\ Spec
  /\ WF_vars(Accept) /\ WF_vars(Connected) /\ WF_vars(Poll)
  /\ WF_vars(Gathered) /\ WF_vars(Return)
  /\ \A c \in Clients : WF_vars(Handler(c)) /\ WF_vars(Session(c))

-----------------------------------------------------------------------------
(* Properties *)

\* Every variable stays in its type.
TypeOK ==
  /\ serve_forever \in BOOLEAN /\ nested \in BOOLEAN /\ waits \in BOOLEAN
  /\ left \in [Clients -> SUBSET (1..NFiles)]
  /\ server \in {"listening", "waiting", "closing", "returned"}
  /\ serving \in BOOLEAN /\ interrupted \in BOOLEAN
  /\ awaited \subseteq Clients /\ ok \subseteq Clients /\ lives \subseteq Clients
  /\ handler \in [Clients -> {"none", "accepted", "starting", "sending",
                              "closing", "draining", "done", "crashed"}]
  /\ client \in [Clients -> {"idle", "backlog", "session"} \cup ClientFinal]
  /\ begun \in [Clients -> 0..NFiles] /\ got \in [Clients -> 0..NFiles]
  /\ faults \in 0..MaxFaults

\* serve() of a single-shot server returns when no handler is left, however
\* many the event loop had accepted before the first of them closed it
\* (the poll, gather(*pending), and the callbacks that discard from it).
NobodyLeftBehind ==
  server = "returned" /\ ~interrupted =>
    \A c \in Clients : handler[c] \in {"none", "done", "crashed"}

\* The server's console holds displays of running handlers only: each is
\* stopped, however its transfer ends (the finally clause of _handle_client).
DisplaysStopped ==
  \A c \in lives : handler[c] \in {"sending", "closing"}

\* A display that is refused: of one of several files (receive.py starts a
\* display for each), or of one of several handlers.
Refusals(c) == ~nested /\ (NFiles > 1 \/ \E d \in Clients \ {c} : handler[d] # "none")

\* Without a fault or a Ctrl+C a client that was not turned away returns with
\* every file: serve() does not return while one is being served, which would
\* cancel its handler.  It fails in two cases only: at a file of which nothing
\* is left to send (an empty one, or one it has; zmodem.py:365), and by a rich
\* that allows one display.
CleanClientSucceeds ==
  \A c \in Clients :
    client[c] = "failed" /\ faults = 0 /\ ~interrupted =>
      NothingLeft(c) \/ Refusals(c)

\* A client that has connected comes to an end, served or not.
ClientsEnd ==
  \A c \in Clients : client[c] = "backlog" ~> client[c] \in ClientFinal

\* A handler has crashed, nobody has closed its connection, and the Python
\* waits for it.
LeftOpen == waits /\ \E c \in Clients : handler[c] = "crashed"

\* The first connection ends a single-shot server: it stops listening, serves
\* whom it accepted, who may be several, and returns; unless a crashed handler's
\* connection stays open for good, for which Python 3.12 waits (the end of
\* "async with server" in serve()).
SingleShotReturns ==
  \A c \in Clients :
    ~serve_forever /\ client[c] = "backlog" ~> (server = "returned" \/ []LeftOpen)
=============================================================================
