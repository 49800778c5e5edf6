----------------------------- MODULE Downloads ------------------------------
(***************************************************************************)
(* What resumable downloads promise: whatever happens to the sessions that *)
(* carry it, a file on the receiver's disk is a prefix of the file sent;   *)
(* it loses bytes only to a crash, and no more of them than were written   *)
(* since it was opened; and a session reports it only when it is whole.    *)
(***************************************************************************)
EXTENDS Naturals, Sequences

CONSTANT Files,    \* names
         Contents  \* the bytes of each file

VARIABLES disk,    \* what the receiver has of each file
          safe,    \* how much of each a crash cannot take
          reported \* the files this session has reported as received

vars == <<disk, safe, reported>>

Init ==
  /\ disk = [n \in Files |-> <<>>]
  /\ safe = [n \in Files |-> 0]
  /\ reported = {}

\* A file is opened where the last session left it.
Open(n) ==
  /\ safe' = [safe EXCEPT ![n] = Len(disk[n])]
  /\ UNCHANGED <<disk, reported>>

\* The next bytes of a file arrive.
Extend(n) ==
  /\ \E k \in Len(disk[n])..Len(Contents[n]) :
       disk' = [disk EXCEPT ![n] = SubSeq(Contents[n], 1, k)]
  /\ UNCHANGED <<safe, reported>>

\* A whole file is closed and reported.
Report(n) ==
  /\ disk[n] = Contents[n]
  /\ safe' = [safe EXCEPT ![n] = Len(disk[n])]
  /\ reported' = reported \cup {n}
  /\ UNCHANGED disk

\* A session ends with file n open: part of what is not safe may be lost.
Interrupt(n) ==
  /\ \E k \in safe[n]..Len(disk[n]) :
       /\ disk' = [disk EXCEPT ![n] = SubSeq(disk[n], 1, k)]
       /\ safe' = [safe EXCEPT ![n] = k]
  /\ UNCHANGED reported

\* Another session begins.
Again ==
  /\ reported' = {}
  /\ UNCHANGED <<disk, safe>>

Next ==
  \/ \E n \in Files : Open(n) \/ Extend(n) \/ Report(n) \/ Interrupt(n)
  \/ Again

Spec == Init /\ [][Next]_vars
=============================================================================
