---------------------------- MODULE MCDriveServer ----------------------------
(***************************************************************************)
(* The all-in-one server of the Drive, for TLC: edits of one file by its   *)
(* handlers (FileEdits), and its searches on the sidecar client they share *)
(* with the indexer (DriveIndexer).  A behaviour is of the one part that   *)
(* `scene` names; variables of the same kind are shared by the parts, and  *)
(* those a scene does not need stay Unused.                                *)
(***************************************************************************)
EXTENDS FileEdits, TLC

CONSTANTS s1, s2, f1, Unused

VARIABLES
    scene,
    textReady, metaSnap, chain, pointer, pointerUsable, index, stateFile, synced,
    state, unpublished, head, run, sidecar, buffer

indexer ==
    <<textReady, metaSnap, chain, pointer, pointerUsable, index, stateFile, synced,
      state, unpublished, head, run, sidecar, buffer>>

\* One request at a time through two servers, in every WORM mode; and two at
\* once on a server that reuses listings.
Drive(worm, ttl, servers, requests) ==
    [worm |-> worm, ttl |-> ttl, servers |-> servers, requests |-> requests]
InTurn == {Drive(worm, FALSE, {s1, s2}, 1) : worm \in {"off", "append_only", "strict"}}
AtOnce == {Drive("off", TRUE, {s1}, 2)}
AllDrives == InTurn \cup AtOnce

\* A server whose searches use the sidecar of the indexer, which may die; calls
\* fail, also in the middle of a rebuild.
Shared == INSTANCE DriveIndexer WITH
    Files <- {f1}, MaxKey <- 2, TextFiles <- {f1}, MaxEventsPerRun <- 2,
    Snapshot <- TRUE, ReorderedLanding <- FALSE,
    Disturbances <- {"failure", "rebuild failure", "death", "rebuild"}, MaxDisturbances <- 2,
    pc <- folded, metas <- cached, disturbed <- faults

-----------------------------------------------------------------------------
NoEdits == overlay = Unused /\ request = Unused /\ drive = Unused /\ acked = Unused
NoIndexer ==
    /\ textReady = Unused /\ metaSnap = Unused /\ chain = Unused /\ pointer = Unused
    /\ pointerUsable = Unused /\ index = Unused /\ stateFile = Unused /\ synced = Unused
    /\ state = Unused /\ unpublished = Unused /\ head = Unused /\ run = Unused
    /\ sidecar = Unused /\ buffer = Unused

MCInit ==
    \/ scene = "edits" /\ Init /\ NoIndexer
    \/ scene = "search" /\ Shared!Init /\ NoEdits

Edits == scene = "edits" /\ UNCHANGED <<scene, indexer>>
Search == scene = "search" /\ UNCHANGED <<scene, overlay, request, drive, acked>>

MCNext ==
    \/ Edits /\ \E s \in drive.servers : Register(s)
    \/ Edits /\ \E s \in drive.servers : CacheMoves(s)
    \/ Edits /\ \E s \in drive.servers : KeyMoves(s)
    \/ Edits /\ \E s \in drive.servers : Restart(s)
    \/ Edits /\ \E s \in drive.servers : Expire(s)
    \/ Edits /\ \E q \in Slots : \E s \in drive.servers : Begin(q, s)
    \/ Edits /\ \E q \in Slots : List(q)
    \/ Edits /\ \E q \in Slots : LookUp(q)
    \/ Edits /\ \E q \in Slots : AppendState(q)
    \/ Edits /\ \E q \in Slots : Invalidate(q)
    \/ Edits /\ \E q \in Slots : Finish(q)
    \/ Search /\ Shared!AppendEvent
    \/ Search /\ Shared!TextExtracted
    \/ Search /\ Shared!SidecarDies
    \/ Search /\ Shared!SearchCall
    \/ Search /\ Shared!Exit
    \/ Search /\ Shared!StartLocal
    \/ Search /\ Shared!RequestRebuild
    \/ Search /\ Shared!RebuildLoad
    \/ Search /\ Shared!RebuildCommit
    \/ Search /\ Shared!RebuildSave
    \/ Search /\ Shared!RebuildFails
    \/ Search /\ Shared!RunBegin
    \/ Search /\ Shared!RunCommit
    \/ Search /\ Shared!RunSnapshot
    \/ Search /\ Shared!RunSave
    \/ Search /\ Shared!RunCheckpoint
    \/ Search /\ Shared!RunPublishNothing
    \/ Search /\ Shared!RunPublish
    \/ Search /\ Shared!RunSaveGeneration
    \/ Search /\ Shared!RunFails
    \/ Search /\ Shared!StartAdopt
    \/ Search /\ Shared!AdoptState
    \/ Search /\ Shared!StartRebuild

MCSpec == MCInit /\ [][MCNext]_<<scene, vars, indexer>>

Symmetry == Permutations(Objects) \cup Permutations(Slots)

-----------------------------------------------------------------------------
\* A server never hides what it answered for, and a reused listing never wins
\* over a newer index (Server.overlayStates, Server.invalidateOverlay).
ReadsAreCurrent == scene = "edits" => ReadYourWrites /\ ReadNotBehindIndex

\* In turn, every edit is based on the one before it, and no object that was
\* given to the file is lost (Server.resolveFile, Server.newVersion).
EditsInTurn == scene = "edits" => EditsFollow /\ NothingLostInTurn

\* The write-once modes remove and rewrite nothing (worm.CheckUpdate).
WrittenOnce == scene = "edits" => WriteOnce

\* Nothing is published before it is chained, even while searches restart the
\* sidecar under the indexer and the index itself is incomplete
\* (DriveIndexer; Indexer.runAndLog).
PublishedIsChained == scene = "search" => Shared!PublishedIsChained
===============================================================================
