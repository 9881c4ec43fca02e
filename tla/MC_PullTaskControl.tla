------------------------- MODULE MC_PullTaskControl -------------------------
(* Symmetry of the goroutines, for the runs that check invariants only.    *)
EXTENDS PullTaskControl, TLC

Goroutines == Permutations(Handlers) \cup Permutations(Workers)
=============================================================================
