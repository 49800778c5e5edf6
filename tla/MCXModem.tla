------------------------------ MODULE MCXModem ------------------------------
(* Values of XModem's constants that a .cfg cannot write. *)
EXTENDS XModem

\* The bytes after a frame's number are data: read as headers, they are noise.
DataTail == <<"JUNK", "JUNK", "JUNK">>

\* A short tail, which a patient receiver survives.
ShortTail == <<"JUNK">>

\* What is left of a frame holds CANs.
CanTail == <<"CAN", "CAN">>
=============================================================================
