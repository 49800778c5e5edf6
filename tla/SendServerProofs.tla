-------------------------- MODULE SendServerProofs --------------------------
(***************************************************************************)
(* What SendServer keeps for any number of clients and files, with any     *)
(* number of faults: a single-shot server that returns has left no handler *)
(* behind, and the displays on its console are those of running handlers.  *)
(***************************************************************************)
EXTENDS SendServer, FiniteSetTheorems, TLAPS

HandlerStates == {"none", "accepted", "starting", "sending", "closing",
                  "draining", "done", "crashed"}

\* What the task of one handler does, or becomes of it.
HandlerStep(c) == Handler(c) \/ HandlerCrashes(c) \/ LeftOpenCloses(c)

\* What serve() does, or the event loop on its behalf.
ServerStep == Accept \/ Connected \/ Poll \/ Gathered \/ Return \/ Interrupt

-----------------------------------------------------------------------------
(* Types *)

\* The steps of a handler, one kind of it after the other.
LEMMA HandlerTypes ==
  ASSUME TypeOK, NEW c \in Clients, HandlerStep(c)
  PROVE  TypeOK'
<1>1. /\ lives' \subseteq Clients /\ ok' \subseteq Clients
      /\ handler' \in [Clients -> HandlerStates]
  BY DEF TypeOK, HandlerStates, HandlerStep, Handler, HandlerStarts, HandlerCrashes,
     HandlerReturns, HandlerFails, HandlerEnds, StopDisplay, HandlerCloses,
     LeftOpenCloses
<1>2. faults' \in 0..MaxFaults
  BY ConstantsAssumption DEF TypeOK, HandlerStep, Handler, HandlerStarts,
     HandlerCrashes, HandlerReturns, HandlerFails, HandlerEnds, HandlerCloses,
     LeftOpenCloses, Fault
<1>3. UNCHANGED <<setting, serverVars, sessionVars>>
  BY DEF HandlerStep, Handler, HandlerStarts, HandlerCrashes, HandlerReturns,
     HandlerFails, HandlerEnds, HandlerCloses, LeftOpenCloses
<1>. QED
  BY <1>1, <1>2, <1>3 DEF TypeOK, HandlerStates, setting, serverVars, sessionVars

\* The steps of a client.
LEMMA ClientTypes ==
  ASSUME TypeOK, NEW c \in Clients, Connect(c) \/ Session(c)
  PROVE  TypeOK'
<1>1. client' \in [Clients -> {"idle", "backlog", "session"} \cup ClientFinal]
  BY DEF TypeOK, ClientFinal, Connect, Session, FileStarts, FileArrives, ClientReturns,
     ClientFails
<1>2. begun' \in [Clients -> 0..NFiles] /\ got' \in [Clients -> 0..NFiles]
  BY ConstantsAssumption DEF TypeOK, Connect, Session, FileStarts, FilesLeft, FileArrives,
     ClientReturns, ClientFails
<1>3. faults' \in 0..MaxFaults
  BY ConstantsAssumption DEF TypeOK, Connect, Session, FileStarts, FileArrives,
     ClientReturns, ClientFails, Fault
<1>4. UNCHANGED <<setting, serverVars, handlerVars>>
  BY DEF Connect, Session, FileStarts, FileArrives, ClientReturns, ClientFails
<1>. QED
  BY <1>1, <1>2, <1>3, <1>4 DEF TypeOK, setting, serverVars, handlerVars

\* The steps of serve().
LEMMA ServerTypes ==
  ASSUME TypeOK, ServerStep
  PROVE  TypeOK'
<1>1. /\ server' \in {"listening", "waiting", "closing", "returned"}
      /\ serving' \in BOOLEAN /\ interrupted' \in BOOLEAN
  BY DEF TypeOK, serverVars, ServerStep, Accept, Connected, StopsListening, Poll,
     Gathered, Return, Interrupt
<1>2. awaited' \subseteq Clients
  BY DEF TypeOK, serverVars, ServerStep, Accept, Connected, Poll, AwaitedAll, Pending,
     Gathered, Return, Interrupt
<1>3. handler' \in [Clients -> HandlerStates]
  BY DEF TypeOK, HandlerStates, handlerVars, ServerStep, Accept, Connected, With, Poll,
     Gathered, Return, Interrupt, CancelHandlers
<1>4. client' \in [Clients -> {"idle", "backlog", "session"} \cup ClientFinal]
  BY DEF TypeOK, ClientFinal, sessionVars, ServerStep, Accept, Connected, With, Poll,
     Gathered, Return, Interrupt
<1>5. UNCHANGED <<setting, ok, lives, begun, got, faults>>
  BY DEF ServerStep, Accept, Connected, Poll, Gathered, Return, Interrupt, handlerVars,
     sessionVars
<1>. QED
  BY <1>1, <1>2, <1>3, <1>4, <1>5 DEF TypeOK, HandlerStates, setting

\* The three tasks and the console stay within their types, whatever fails and
\* whoever connects.
THEOREM TypesHold == Spec => []TypeOK
<1>1. Init => TypeOK
  <2>. SUFFICES ASSUME Init PROVE TypeOK
    OBVIOUS
  <2>1. 0 \in 0..NFiles /\ 0 \in 0..MaxFaults
    BY ConstantsAssumption
  <2>2. /\ serve_forever \in BOOLEAN /\ nested \in BOOLEAN /\ waits \in BOOLEAN
        /\ left \in [Clients -> SUBSET (1..NFiles)]
    BY ConstantsAssumption DEF Init
  <2>. QED
    BY <2>1, <2>2 DEF Init, TypeOK, ClientFinal
<1>2. TypeOK /\ [Next]_vars => TypeOK'
  <2>1. CASE UNCHANGED vars
    BY <2>1 DEF vars, setting, serverVars, handlerVars, sessionVars, TypeOK
  <2>2. CASE Next
    BY <2>2, HandlerTypes, ClientTypes, ServerTypes DEF Next, HandlerStep, ServerStep
  <2>. QED
    BY <2>1, <2>2
<1>. QED
  BY <1>1, <1>2, PTL DEF Spec

-----------------------------------------------------------------------------
(* Handlers *)

\* A server that has closed itself has no connection without its task, so the
\* handlers that it polls are all there will be; and those that gather() was
\* not given have ended.
PendingInv ==
  /\ handler \in [Clients -> HandlerStates]
  /\ ~interrupted /\ ~serving => Accepted = {}
  /\ ~interrupted /\ server # "listening" => ~serving
  /\ ~interrupted /\ server # "listening" => Pending \subseteq awaited
  /\ ~interrupted /\ server \in {"closing", "returned"} => Pending = {}

\* Between none and done a handler is accepted or pending.
LEMMA PendingIsWhole ==
  PendingInv => NobodyLeftBehind
BY DEF PendingInv, NobodyLeftBehind, HandlerStates, Pending, Accepted

\* A task of a handler never begins another.
LEMMA HandlerPending ==
  ASSUME PendingInv, NEW c \in Clients, HandlerStep(c)
  PROVE  PendingInv'
<1>1. /\ handler' \in [Clients -> HandlerStates]
      /\ Accepted' \subseteq Accepted /\ Pending' \subseteq Pending
  BY DEF PendingInv, HandlerStates, Accepted, Pending, HandlerStep, Handler,
     HandlerStarts, HandlerCrashes, HandlerReturns, HandlerFails, HandlerEnds,
     HandlerCloses, LeftOpenCloses
<1>2. UNCHANGED serverVars
  BY DEF HandlerStep, Handler, HandlerStarts, HandlerCrashes, HandlerReturns,
     HandlerFails, HandlerEnds, HandlerCloses, LeftOpenCloses
<1>. QED
  BY <1>1, <1>2 DEF PendingInv, serverVars

\* The steps of serve(), one after the other.
LEMMA ServerPending ==
  ASSUME PendingInv, ServerStep
  PROVE  PendingInv'
<1>1. handler' \in [Clients -> HandlerStates]
  BY DEF PendingInv, HandlerStates, handlerVars, ServerStep, Accept, Connected, With,
     Poll, Gathered, Return, Interrupt, CancelHandlers
<1>2. CASE Accept
  <2>1. serving /\ UNCHANGED serverVars
    BY <1>2 DEF Accept
  <2>. QED
    BY <1>1, <2>1 DEF PendingInv, serverVars
<1>3. CASE Connected
  <2>1. /\ Accepted # {} /\ Accepted' = {}
        /\ UNCHANGED <<server, awaited, interrupted>>
    BY <1>3 DEF PendingInv, Connected, With, Accepted
  <2>2. interrupted \/ (serving /\ server = "listening")
    BY <2>1 DEF PendingInv
  <2>. QED
    BY <1>1, <1>3, <2>1, <2>2 DEF PendingInv
<1>4. CASE Poll
  <2>1. /\ ~serving /\ server = "listening" /\ server' = "waiting"
        /\ awaited' = Pending /\ UNCHANGED <<serving, interrupted, handler>>
    BY <1>4 DEF Poll, AwaitedAll, handlerVars
  <2>2. Pending' = Pending /\ Accepted' = Accepted
    BY <2>1 DEF Pending, Accepted
  <2>. QED
    BY <1>1, <2>1, <2>2 DEF PendingInv
<1>5. CASE Gathered
  <2>1. /\ server = "waiting" /\ server' = "closing" /\ awaited \cap Pending = {}
        /\ UNCHANGED <<serving, awaited, interrupted, handler>>
    BY <1>5 DEF Gathered, handlerVars
  <2>2. Pending' = Pending /\ Accepted' = Accepted
    BY <2>1 DEF Pending, Accepted
  <2>3. ~interrupted => ~serving /\ Pending \subseteq awaited /\ Accepted = {}
    BY <2>1 DEF PendingInv
  <2>. QED
    BY <1>1, <2>1, <2>2, <2>3 DEF PendingInv
<1>6. CASE Return
  <2>1. /\ server = "closing" /\ server' = "returned"
        /\ UNCHANGED <<serving, awaited, interrupted>> /\ CancelHandlers
    BY <1>6 DEF Return
  <2>2. ASSUME ~interrupted PROVE ~serving /\ Pending = {} /\ Accepted = {}
    BY <2>1, <2>2 DEF PendingInv
  <2>3. ASSUME ~interrupted PROVE handler' = handler
    <3>1. \A c \in Clients :
            handler[c] \notin {"accepted", "starting", "sending", "draining"}
      BY <2>2, <2>3 DEF Pending, Accepted
    <3>. QED
      BY <2>1, <3>1 DEF CancelHandlers, PendingInv
  <2>4. ASSUME ~interrupted PROVE Pending' = {} /\ Accepted' = {}
    BY <2>2, <2>3, <2>4 DEF Pending, Accepted
  <2>. QED
    BY <1>1, <2>1, <2>2, <2>4 DEF PendingInv
<1>7. CASE Interrupt
  BY <1>1, <1>7 DEF PendingInv, Interrupt
<1>. QED
  BY <1>2, <1>3, <1>4, <1>5, <1>6, <1>7 DEF ServerStep

LEMMA PendingInit == Init => PendingInv
BY DEF Init, PendingInv, HandlerStates, Accepted, Pending

LEMMA PendingStep == PendingInv /\ [Next]_vars => PendingInv'
<1>1. ASSUME PendingInv, UNCHANGED <<serverVars, handler>> PROVE PendingInv'
  BY <1>1 DEF PendingInv, serverVars, Accepted, Pending
<1>2. ASSUME NEW c \in Clients, Connect(c) \/ Session(c)
      PROVE  UNCHANGED <<serverVars, handler>>
  BY <1>2 DEF Connect, Session, FileStarts, FileArrives, ClientReturns, ClientFails,
     handlerVars
<1>3. UNCHANGED vars => UNCHANGED <<serverVars, handler>>
  BY DEF vars, handlerVars
<1>. QED
  BY <1>1, <1>2, <1>3, HandlerPending, ServerPending DEF Next, HandlerStep, ServerStep

\* serve() of a single-shot server returns, unless Ctrl+C ends it, when every
\* handler it made has run to its end, for any number of clients.
THEOREM NobodyIsLeftBehind == Spec => []NobodyLeftBehind
BY PendingInit, PendingStep, PendingIsWhole, PTL DEF Spec

-----------------------------------------------------------------------------
(* Displays *)

\* A client that is not accepted has no handler, so accepting it takes none from
\* a display.
DisplayInv ==
  /\ lives \subseteq Clients
  /\ handler \in [Clients -> HandlerStates]
  /\ client \in [Clients -> {"idle", "backlog", "session"} \cup ClientFinal]
  /\ \A c \in Clients : client[c] \in {"idle", "backlog"} => handler[c] = "none"
  /\ DisplaysStopped

\* The steps of a handler and of its client.
LEMMA HandlerDisplays ==
  ASSUME DisplayInv, NEW c \in Clients, HandlerStep(c)
  PROVE  DisplayInv'
<1>1. handler[c] # "none" /\ client' = client
  BY DEF HandlerStep, Handler, HandlerStarts, HandlerCrashes, HandlerReturns,
     HandlerFails, HandlerEnds, HandlerCloses, LeftOpenCloses, sessionVars
<1>2. /\ lives' \subseteq Clients
      /\ handler' \in [Clients -> HandlerStates]
      /\ DisplaysStopped'
      /\ \A d \in Clients \ {c} : handler'[d] = handler[d]
  BY DEF DisplayInv, DisplaysStopped, HandlerStates, HandlerStep, Handler,
     HandlerStarts, HandlerCrashes, HandlerReturns, HandlerFails, HandlerEnds,
     StopDisplay, HandlerCloses, LeftOpenCloses
<1>. QED
  BY <1>1, <1>2 DEF DisplayInv

LEMMA ClientDisplays ==
  ASSUME DisplayInv, NEW c \in Clients, Connect(c) \/ Session(c)
  PROVE  DisplayInv'
<1>1. /\ client' \in [Clients -> {"idle", "backlog", "session"} \cup ClientFinal]
      /\ \A d \in Clients :
           client'[d] \in {"idle", "backlog"} => client[d] \in {"idle", "backlog"}
  BY DEF DisplayInv, ClientFinal, Connect, Session, FileStarts, FileArrives, ClientReturns,
     ClientFails
<1>2. UNCHANGED handlerVars
  BY DEF Connect, Session, FileStarts, FileArrives, ClientReturns, ClientFails
<1>. QED
  BY <1>1, <1>2 DEF DisplayInv, DisplaysStopped, handlerVars

\* The steps of serve(): a handler with a display is beyond accepting, and is
\* at most cancelled, which takes it to its finally clause.
LEMMA ServerDisplays ==
  ASSUME DisplayInv, ServerStep
  PROVE  DisplayInv'
<1>1. handler' \in [Clients -> HandlerStates] /\ lives' = lives
  BY DEF DisplayInv, HandlerStates, handlerVars, ServerStep, Accept, Connected, With,
     Poll, Gathered, Return, Interrupt, CancelHandlers
<1>2. client' \in [Clients -> {"idle", "backlog", "session"} \cup ClientFinal]
  BY DEF DisplayInv, ClientFinal, sessionVars, ServerStep, Accept, Connected, With,
     Poll, Gathered, Return, Interrupt
<1>3. \A c \in Clients :
        /\ client'[c] \in {"idle", "backlog"} => client[c] \in {"idle", "backlog"}
        /\ handler[c] = "none" => handler'[c] = "none" \/ client'[c] = "session"
        /\ handler[c] \in {"sending", "closing"} => handler'[c] \in {"sending", "closing"}
  BY DEF DisplayInv, HandlerStates, ClientFinal, sessionVars, handlerVars, ServerStep,
     Accept, Backlog, Connected, Accepted, With, Poll, Gathered, Return, Interrupt,
     CancelHandlers
<1>. QED
  BY <1>1, <1>2, <1>3 DEF DisplayInv, DisplaysStopped

LEMMA DisplayInit == Init => DisplayInv
BY DEF Init, DisplayInv, DisplaysStopped, HandlerStates, ClientFinal

LEMMA DisplayStep == DisplayInv /\ [Next]_vars => DisplayInv'
<1>. SUFFICES ASSUME DisplayInv, [Next]_vars PROVE DisplayInv'
  OBVIOUS
<1>1. CASE UNCHANGED vars
  BY <1>1 DEF vars, handlerVars, sessionVars, DisplayInv, DisplaysStopped
<1>2. CASE Next
  BY <1>2, HandlerDisplays, ClientDisplays, ServerDisplays DEF Next, HandlerStep, ServerStep
<1>. QED
  BY <1>1, <1>2

\* The display of a handler comes after its task has begun and is gone before
\* the task goes on to drain the connection, however its transfer ends.
THEOREM DisplaysAreStopped == Spec => []DisplaysStopped
<1>1. DisplayInv => DisplaysStopped
  BY DEF DisplayInv
<1>. QED
  BY <1>1, DisplayInit, DisplayStep, PTL DEF Spec

-----------------------------------------------------------------------------
(* Clients *)

\* Where nothing went wrong yet: a handler that has stopped sending left its
\* client with every file, or met one that had failed, or was refused a display;
\* and it is done only after its client is.
Clean(c) ==
  /\ handler[c] # "crashed"
  /\ handler[c] \in {"closing", "draining"} =>
       got[c] = NFiles \/ client[c] = "failed" \/ Refusals(c)
  /\ handler[c] = "done" => client[c] \in ClientFinal
  /\ client[c] = "failed" => NothingLeft(c) \/ Refusals(c)

CleanInv == faults = 0 /\ ~interrupted => \A c \in Clients : Clean(c)

\* A display is refused where there is another, of another handler.
LEMMA RefusedForAnother ==
  ASSUME DisplayInv, NEW c \in Clients, handler[c] = "starting",
         ~MayStart(Cardinality(lives))
  PROVE  Refusals(c)
<1>1. ~nested /\ Cardinality(lives) # 0
  BY DEF MayStart
<1>2. lives # {}
  BY <1>1, FS_EmptySet
<1>3. PICK d \in lives : handler[d] \in {"sending", "closing"}
  BY <1>2 DEF DisplayInv, DisplaysStopped
<1>. QED
  BY <1>1, <1>3 DEF DisplayInv, Refusals

\* Refusals last: no handler goes back to none.
LEMMA RefusalsLast ==
  ASSUME TypeOK, NEW c \in Clients, Refusals(c), UNCHANGED setting,
         \A d \in Clients : handler'[d] = "none" => handler[d] = "none"
  PROVE  Refusals(c)'
BY DEF Refusals, setting

\* A client that is at a file of which nothing is left stays there.
LEMMA NothingLeftLasts ==
  ASSUME NEW c \in Clients, NothingLeft(c), UNCHANGED setting,
         begun'[c] = begun[c], got'[c] = got[c]
  PROVE  NothingLeft(c)'
BY DEF NothingLeft, setting

\* A step of a handler: what it goes by is what the client of the same name has.
LEMMA CleanHandler ==
  ASSUME TypeOK, DisplayInv, CleanInv, faults' = 0, ~interrupted,
         NEW c \in Clients, HandlerStep(c)
  PROVE  \A d \in Clients : Clean(d)'
<1>1. faults = 0
  BY ConstantsAssumption DEF TypeOK, HandlerStep, Handler, HandlerStarts,
     HandlerCrashes, HandlerReturns, HandlerFails, HandlerEnds, HandlerCloses,
     LeftOpenCloses, Fault
<1>2. \A d \in Clients : Clean(d)
  BY <1>1 DEF CleanInv
<1>3. /\ UNCHANGED <<setting, client, begun, got>>
      /\ handler' \in [Clients -> HandlerStates]
      /\ \A d \in Clients \ {c} : handler'[d] = handler[d]
      /\ handler[c] # "none" /\ handler'[c] # "none"
  BY DEF TypeOK, HandlerStates, HandlerStep, Handler, HandlerStarts, HandlerCrashes,
     HandlerReturns, HandlerFails, HandlerEnds, HandlerCloses, LeftOpenCloses,
     sessionVars
<1>4. \A d \in Clients : /\ Refusals(d) => Refusals(d)'
                         /\ NothingLeft(d) => NothingLeft(d)'
  BY <1>3, RefusalsLast, NothingLeftLasts
<1>5. ASSUME NEW d \in Clients \ {c} PROVE Clean(d)'
  BY <1>2, <1>3, <1>4, <1>5 DEF Clean, ClientFinal
<1>6. Clean(c)'
  <2>1. client[c] = "failed" => NothingLeft(c)' \/ Refusals(c)'
    BY <1>2, <1>4 DEF Clean
  <2>2. CASE HandlerStarts(c)
    <3>1. handler[c] = "starting"
      BY <2>2 DEF HandlerStarts
    <3>2. \/ handler'[c] = "sending"
          \/ handler'[c] = "closing" /\ ~MayStart(Cardinality(lives))
      BY <2>2 DEF HandlerStarts, TypeOK
    <3>3. ~MayStart(Cardinality(lives)) => Refusals(c)'
      BY <3>1, <1>4, RefusedForAnother
    <3>. QED
      BY <1>3, <2>1, <3>2, <3>3 DEF Clean
  <2>3. CASE HandlerCrashes(c)
    BY <2>3, <1>1 DEF HandlerCrashes, Fault
  <2>4. CASE HandlerReturns(c)
    <3>1. handler'[c] = "closing" /\ got[c] = NFiles
      BY <2>4 DEF HandlerReturns, TypeOK
    <3>. QED
      BY <1>3, <2>1, <3>1 DEF Clean
  <2>5. CASE HandlerFails(c)
    <3>1. handler'[c] = "closing" /\ client[c] = "failed"
      BY <1>1, <2>5 DEF HandlerFails, TypeOK, Fault
    <3>. QED
      BY <1>3, <2>1, <3>1 DEF Clean
  <2>6. CASE HandlerEnds(c)
    <3>1. handler[c] = "closing" /\ handler'[c] = "draining"
      BY <2>6 DEF HandlerEnds, TypeOK
    <3>. QED
      BY <1>2, <1>3, <1>4, <2>1, <3>1 DEF Clean
  <2>7. CASE HandlerCloses(c)
    <3>1. handler'[c] = "done" /\ client[c] \in ClientFinal
      BY <1>1, <2>7 DEF HandlerCloses, TypeOK, Fault, Drained
    <3>. QED
      BY <1>3, <2>1, <3>1 DEF Clean, ClientFinal
  <2>8. ~LeftOpenCloses(c)
    BY <1>2 DEF LeftOpenCloses, Clean
  <2>. QED
    BY <2>2, <2>3, <2>4, <2>5, <2>6, <2>7, <2>8 DEF HandlerStep, Handler
<1>. QED
  BY <1>5, <1>6

\* A step of a client; it fails by rich, or by a handler that is gone.
LEMMA CleanClient ==
  ASSUME TypeOK, DisplayInv, CleanInv, faults' = 0, ~interrupted,
         NEW c \in Clients, Connect(c) \/ Session(c)
  PROVE  \A d \in Clients : Clean(d)'
<1>1. faults = 0
  BY ConstantsAssumption DEF TypeOK, Connect, Session, FileStarts, FileArrives,
     ClientReturns, ClientFails, Fault
<1>2. \A d \in Clients : Clean(d)
  BY <1>1 DEF CleanInv
<1>3. /\ UNCHANGED <<setting, handler>>
      /\ \A d \in Clients \ {c} :
           client'[d] = client[d] /\ begun'[d] = begun[d] /\ got'[d] = got[d]
  BY DEF TypeOK, Connect, Session, FileStarts, FileArrives, ClientReturns, ClientFails,
     handlerVars
<1>4. \A d \in Clients : Refusals(d) <=> Refusals(d)'
  BY <1>3 DEF Refusals, setting
<1>5. ASSUME NEW d \in Clients \ {c} PROVE Clean(d)'
  <2>1. NothingLeft(d) => NothingLeft(d)'
    BY <1>3, <1>5, NothingLeftLasts
  <2>. QED
    BY <1>2, <1>3, <1>4, <1>5, <2>1 DEF Clean
<1>6. Clean(c)'
  <2>1. CASE Connect(c)
    <3>1. /\ client[c] = "idle" /\ client'[c] \in {"backlog", "refused"}
          /\ handler[c] = "none" /\ got' = got
      BY <2>1 DEF Connect, TypeOK, DisplayInv
    <3>. QED
      BY <1>3, <3>1 DEF Clean
  <2>2. CASE FileStarts(c)
    <3>1. handler[c] = "sending" /\ got' = got
      BY <2>2 DEF FileStarts
    <3>2. client'[c] = "failed" => ~nested /\ NFiles > 1
      <4>1. ASSUME client'[c] = "failed" PROVE ~MayStart(begun[c])
        BY <2>2, <4>1 DEF FileStarts
      <4>2. begun[c] \in 0..NFiles /\ begun[c] = got[c] /\ got[c] < NFiles
        BY <2>2 DEF FileStarts, FilesLeft, TypeOK
      <4>. QED
        BY <4>1, <4>2, ConstantsAssumption DEF MayStart
    <3>3. client'[c] = "failed" => Refusals(c)'
      BY <1>4, <3>2 DEF Refusals
    <3>. QED
      BY <1>3, <3>1, <3>3 DEF Clean
  <2>3. CASE FileArrives(c)
    <3>1. handler[c] = "sending" /\ client[c] = "session" /\ client' = client
      BY <2>3 DEF FileArrives
    <3>. QED
      BY <1>3, <3>1 DEF Clean
  <2>4. CASE ClientReturns(c)
    <3>1. client'[c] = "returned" /\ got[c] = NFiles /\ got' = got
      BY <2>4 DEF ClientReturns, TypeOK
    <3>. QED
      BY <1>2, <1>3, <3>1 DEF Clean, ClientFinal
  <2>5. CASE ClientFails(c)
    <3>1. /\ client[c] = "session" /\ client'[c] = "failed"
          /\ begun' = begun /\ got' = got
          /\ \/ NothingLeft(c)
             \/ HandlerGone(c) /\ got[c] < NFiles
             \/ handler[c] = "done"
      BY <1>1, <2>5 DEF ClientFails, TypeOK, Fault
    <3>2. got[c] < NFiles => got[c] # NFiles
      BY ConstantsAssumption DEF TypeOK
    <3>3. NothingLeft(c) \/ Refusals(c)
      BY <1>2, <3>1, <3>2 DEF Clean, HandlerGone, ClientFinal
    <3>4. NothingLeft(c)' \/ Refusals(c)'
      BY <1>3, <1>4, <3>1, <3>3, NothingLeftLasts
    <3>. QED
      BY <1>2, <1>3, <1>4, <3>1, <3>4 DEF Clean, ClientFinal
  <2>. QED
    BY <2>1, <2>2, <2>3, <2>4, <2>5 DEF Session
<1>. QED
  BY <1>5, <1>6

\* serve() cancels nobody: where it returns, every handler has ended.
LEMMA CleanServer ==
  ASSUME TypeOK, PendingInv, DisplayInv, CleanInv, faults = 0, ~interrupted',
         ServerStep
  PROVE  \A d \in Clients : Clean(d)'
<1>1. ~interrupted /\ ~Interrupt
  BY DEF ServerStep, Accept, Connected, Poll, Gathered, Return, Interrupt, serverVars
<1>2. \A d \in Clients : Clean(d)
  BY <1>1 DEF CleanInv
<1>3. UNCHANGED <<setting, begun, got>>
  BY DEF ServerStep, Accept, Connected, Poll, Gathered, Return, Interrupt, sessionVars
<1>4. \A d \in Clients : \/ handler'[d] = handler[d]
                         \/ handler'[d] \in {"accepted", "starting"}
  <2>1. CASE Accept
    BY <2>1 DEF Accept, With, TypeOK
  <2>2. CASE Connected
    BY <2>2 DEF Connected, With, TypeOK
  <2>3. CASE Poll
    BY <2>3 DEF Poll, handlerVars
  <2>4. CASE Gathered
    BY <2>4 DEF Gathered, handlerVars
  <2>5. CASE Return
    <3>1. Pending = {} /\ Accepted = {} /\ CancelHandlers
      BY <1>1, <2>5 DEF Return, PendingInv
    <3>2. \A d \in Clients :
            handler[d] \notin {"accepted", "starting", "sending", "draining"}
      BY <3>1 DEF Pending, Accepted
    <3>. QED
      BY <3>1, <3>2 DEF CancelHandlers
  <2>. QED
    BY <1>1, <2>1, <2>2, <2>3, <2>4, <2>5 DEF ServerStep
<1>5. \A d \in Clients : \/ client'[d] = client[d]
                         \/ client[d] = "backlog" /\ client'[d] \in {"session", "reset"}
  BY <1>1 DEF TypeOK, ServerStep, Accept, Connected, Poll, Gathered, Return,
     sessionVars, With, Backlog
<1>6. \A d \in Clients : handler'[d] = "none" => handler[d] = "none"
  BY <1>4
<1>7. \A d \in Clients : /\ Refusals(d) => Refusals(d)'
                         /\ NothingLeft(d) => NothingLeft(d)'
  BY <1>3, <1>6, RefusalsLast, NothingLeftLasts
<1>. SUFFICES ASSUME NEW d \in Clients PROVE Clean(d)'
  OBVIOUS
<1>8. CASE client'[d] = client[d]
  BY <1>2, <1>3, <1>4, <1>7, <1>8 DEF Clean, ClientFinal
<1>9. CASE client[d] = "backlog" /\ client'[d] \in {"session", "reset"}
  <2>1. handler[d] = "none"
    BY <1>9 DEF DisplayInv
  <2>. QED
    BY <1>4, <1>9, <2>1 DEF Clean
<1>. QED
  BY <1>5, <1>8, <1>9

LEMMA CleanStep ==
  TypeOK /\ PendingInv /\ DisplayInv /\ CleanInv /\ [Next]_vars => CleanInv'
<1>. SUFFICES ASSUME TypeOK, PendingInv, DisplayInv, CleanInv, [Next]_vars,
                     faults' = 0, ~interrupted'
     PROVE  \A d \in Clients : Clean(d)'
  BY DEF CleanInv
<1>1. CASE UNCHANGED vars
  <2>1. UNCHANGED <<setting, handler, client, begun, got, faults, interrupted>>
    BY <1>1 DEF vars, handlerVars, sessionVars, serverVars
  <2>2. \A d \in Clients : Clean(d)
    BY <2>1 DEF CleanInv
  <2>. QED
    BY <2>1, <2>2 DEF Clean, Refusals, NothingLeft, setting
<1>2. CASE ServerStep
  <2>1. faults' = faults
    BY <1>2 DEF ServerStep, Accept, Connected, Poll, Gathered, Return, Interrupt
  <2>. QED
    BY <1>2, <2>1, CleanServer
<1>3. ASSUME NEW c \in Clients, Connect(c) \/ Session(c) \/ HandlerStep(c)
      PROVE  \A d \in Clients : Clean(d)'
  <2>1. interrupted' = interrupted
    BY <1>3 DEF Connect, Session, FileStarts, FileArrives, ClientReturns, ClientFails,
       HandlerStep, Handler, HandlerStarts, HandlerCrashes, HandlerReturns,
       HandlerFails, HandlerEnds, HandlerCloses, LeftOpenCloses, serverVars
  <2>. QED
    BY <1>3, <2>1, CleanClient, CleanHandler
<1>. QED
  BY <1>1, <1>2, <1>3 DEF Next, HandlerStep, ServerStep

\* With no fault and no Ctrl+C a client that was not turned away fails only at a
\* file of which nothing is left to send, or where rich refuses a display, for
\* any number of clients and files and whatever each client lacks.
THEOREM CleanClientsSucceed == Spec => []CleanClientSucceeds
<1>1. Init => PendingInv /\ DisplayInv /\ CleanInv
  BY PendingInit, DisplayInit DEF Init, CleanInv, Clean, ClientFinal
<1>2. PendingInv /\ DisplayInv /\ CleanInv /\ TypeOK /\ [Next]_vars =>
        PendingInv' /\ DisplayInv' /\ CleanInv'
  BY PendingStep, DisplayStep, CleanStep
<1>3. CleanInv => CleanClientSucceeds
  BY DEF CleanInv, Clean, CleanClientSucceeds
<1>. QED
  BY <1>1, <1>2, <1>3, TypesHold, PTL DEF Spec
=============================================================================
