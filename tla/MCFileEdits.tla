----------------------------- MODULE MCFileEdits -----------------------------
(* Instances of FileEdits for TLC: two requests at once on one server. *)
EXTENDS FileEdits, TLC

StrictAtOnce == {[worm |-> "strict", ttl |-> FALSE, servers |-> Servers, requests |-> 2]}

Symmetry == Permutations(Objects) \cup Permutations(Slots)
===============================================================================
