-------------------------- MODULE MC_SliceTransfer --------------------------
(* Values for the model checker: a file of five units in slices of two, so  *)
(* that the last slice is a short one.                                     *)
EXTENDS SliceTransfer

Source == <<1, 2, 3, 4, 5>>
SomeUnits == {0, 1, 2, 3, 4, 5, 9}
Unedited == {}
\* The source shrinks, grows by a slice, or is emptied.
Edited == {<<9, 2, 3>>, <<1, 2, 3, 4, 5, 9, 9, 9>>, << >>}
=============================================================================
