-------------------------- MODULE MCUploadLifecycle --------------------------
(* Instances of UploadLifecycle for TLC. *)
EXTENDS UploadLifecycle, TLC

CONSTANTS r1, r2

\* Two uploads under the temporary key, or one of each way.
TwoRequests == {r1, r2}
ThreeContents == {r1 :> "staged" @@ r2 :> other : other \in Kinds}
===============================================================================
