--------------------------- MODULE ResumableCopy ---------------------------
(***************************************************************************)
(* What a pull task promises its owner, when nobody edits the source and   *)
(* the disk takes its writes: the task is listed with a point it can be    *)
(* resumed from, which only moves on, a slice at a time; when at most a    *)
(* slice is left a file that holds the whole source, and less than a slice *)
(* behind it, is put in place, once; and the task leaves the list as       *)
(* complete only after that.                                               *)
(***************************************************************************)
EXTENDS Naturals, Sequences

CONSTANTS
  Source,    \* the file to copy
  Lenth,     \* units in a slice
  Contents   \* what a file can be

VARIABLES
  state,     \* "open" while the task is listed, then how it left the list
  point,     \* where a restart resumes
  placed     \* the files put in place, in order

vars == <<state, point, placed>>

Init == state = "open" /\ point = 0 /\ placed = << >>

\* The whole source, and less than a slice behind it.
Holds(f) ==
  /\ \A k \in 1..Len(Source) : k <= Len(f) /\ f[k] = Source[k]
  /\ Len(f) < Len(Source) + Lenth

Advance ==
  /\ state = "open" /\ point + Lenth < Len(Source)
  /\ point' = point + Lenth
  /\ UNCHANGED <<state, placed>>

Place ==
  /\ state = "open" /\ placed = << >> /\ point + Lenth >= Len(Source)
  /\ placed' \in Seq(Contents) /\ Len(placed') = 1 /\ Holds(placed'[1])
  /\ UNCHANGED <<state, point>>

Leave(how) ==
  /\ state = "open" /\ state' = how /\ point' = 0
  /\ UNCHANGED placed

Finish == placed # << >> /\ Leave("complete")

Delete == Leave("deleted")

Next == Advance \/ Place \/ Finish \/ Delete

Spec == Init /\ [][Next]_vars
=============================================================================
