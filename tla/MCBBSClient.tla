---------------------------- MODULE MCBBSClient ----------------------------
(* Values of BBSClient's constants that a .cfg cannot write. *)
EXTENDS BBSClient

Text(vals) == [i \in 1..Len(vals) |-> [val |-> vals[i], text |-> TRUE]]
Cmd(vals)  == [i \in 1..Len(vals) |-> [val |-> vals[i], text |-> FALSE]]

Offer == Text(Magic)

\* A literal IAC: the first of the two is not text.
LiteralIac == Cmd(<<"IAC">>) \o Text(<<"IAC">>)

SmallScripts ==
  { \* a star too many before the offer; the session's bytes and what follows
    Text(<<"other", "*">>) \o Offer \o Text(<<"other", "other">>),
    \* options, a literal IAC amid half an offer
    Cmd(<<"IAC", "DO", "opt">>) \o Text(<<"*">>) \o LiteralIac
      \o Text(<<"*", "ZDLE">>) \o Cmd(<<"IAC", "WONT", "opt">>),
    \* a command in the middle of an offer, so that there is none
    Text(<<"*", "*">>) \o Cmd(<<"IAC", "NOP">>) \o Text(<<"ZDLE", "B", "SE">>),
    \* a subnegotiation, two transfers
    Cmd(<<"IAC", "SB", "opt", "IAC", "SE">>) \o Offer \o Offer \o Text(<<"other">>) }
=============================================================================
