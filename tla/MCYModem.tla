------------------------------ MODULE MCYModem ------------------------------
(* Values of YModem's constants that a .cfg cannot write. *)
EXTENDS YModem

\* A file longer than the number cycle, an empty one, a short one.
ThreeFiles == <<7, 0, 2>>

\* One file, of two blocks.
OneFile == <<2>>
=============================================================================
