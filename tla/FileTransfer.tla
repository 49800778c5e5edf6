---------------------------- MODULE FileTransfer ----------------------------
(***************************************************************************)
(* What one X-Modem transfer promises its two callers, whatever the        *)
(* protocol does on the line.  receive() either hands the caller's stream  *)
(* the whole file, in one write, and returns, or raises and leaves the     *)
(* stream alone; send() returns only when the other side has returned, and *)
(* otherwise raises.  Nobody revises a verdict.                            *)
(***************************************************************************)
CONSTANT File      \* the contents of the sender's stream, in blocks

VARIABLES
  out,             \* what receive() has written to its output stream
  rverdict,        \* how receive() ended: "active" until it does
  sverdict         \* how send() ended

vars == <<out, rverdict, sverdict>>

Verdicts == {"active", "returned", "raised"}

Init ==
  /\ out = <<>>
  /\ rverdict = "active"
  /\ sverdict = "active"

\* receive() commits the file and returns.
Deliver ==
  /\ rverdict = "active"
  /\ rverdict' = "returned"
  /\ out' = File
  /\ UNCHANGED sverdict

\* receive() raises: the output stream stays as it was.
AbandonReceive ==
  /\ rverdict = "active"
  /\ rverdict' = "raised"
  /\ UNCHANGED <<out, sverdict>>

\* send() returns: the file has arrived.
ConfirmSend ==
  /\ sverdict = "active"
  /\ rverdict = "returned"
  /\ sverdict' = "returned"
  /\ UNCHANGED <<out, rverdict>>

\* send() raises, perhaps not knowing that the file did arrive.
AbandonSend ==
  /\ sverdict = "active"
  /\ sverdict' = "raised"
  /\ UNCHANGED <<out, rverdict>>

Next == Deliver \/ AbandonReceive \/ ConfirmSend \/ AbandonSend

Spec == Init /\ [][Next]_vars
=============================================================================
