---------------------------- MODULE MCMetaFollower ----------------------------
(* Instances of MetaFollower for TLC. *)
EXTENDS MetaFollower
===============================================================================
