------------------------------ MODULE MCZModem ------------------------------
(* Values of ZModem's constants that a .cfg cannot write. *)
EXTENDS ZModem

\* Two files: two subpackets and a part of one, then a part of one.
TwoFiles == <<3, 1>>
TwoNames == <<"a", "b">>

\* One file, and one name for two files.
OneFile   == <<3>>
OneName   == <<"a">>
SameNames == <<"a", "a">>
=============================================================================
