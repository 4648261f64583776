---------------------------- MODULE MCDriveIndexer ----------------------------
(* Instances of DriveIndexer for TLC. *)
EXTENDS DriveIndexer, TLC

Symmetry == Permutations(Files)
===============================================================================
