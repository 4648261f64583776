---------------------------- MODULE MCSegmentStore ----------------------------
(* Instances of SegmentStore for TLC. *)
EXTENDS SegmentStore, TLC

Symmetry == Permutations(Segs) \cup Permutations(Readers) \cup Permutations(Writers)
===============================================================================
