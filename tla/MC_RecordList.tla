--------------------------- MODULE MC_RecordList ---------------------------
(* Symmetry of goroutines, keys and values.                                *)
EXTENDS RecordList, TLC

Sym == Permutations(Procs) \cup Permutations(Keys) \cup Permutations(Values)
=============================================================================
