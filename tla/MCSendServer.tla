---------------------------- MODULE MCSendServer ----------------------------
(* Values of SendServer's constants that a .cfg cannot write. *)
EXTENDS SendServer

Either == {FALSE, TRUE}

\* A client lacks all files, or all but the last: an empty one, or one it has.
AllOrButLast == {1..NFiles, 1..(NFiles - 1)}
=============================================================================
