--------------------------- MODULE MCSegmentStore ---------------------------
(* Instances of SegmentStore for TLC: two sessions pushing the same file name
   into one directory, as after a quality switch. *)
EXTENDS SegmentStore, TLC

Symmetric == Permutations(Puts) \union Permutations(Jobs)
=============================================================================
