----------------------------- MODULE MetaFollower -----------------------------
(***************************************************************************)
(* The meta cache of a server in split mode (drive/snapshot follower.go,   *)
(* pointer.go).  The pointer carries a bounded history of the file ids     *)
(* each generation re-indexed; a follower re-reads only those snapshots,   *)
(* or all of them when the history does not reach back.  Meanwhile the     *)
(* indexer folds on, writes snapshots, publishes, crashes and adopts.      *)
(*                                                                         *)
(* The indexer is the one of DriveIndexer, seen from the ids it reports as *)
(* changed: a run indexes and commits, writes snapshots one by one, saves  *)
(* its key and publishes.                                                  *)
(***************************************************************************)
EXTENDS Integers, Sequences, FiniteSets, SequencesExt

CONSTANTS
    Files,
    MaxBatch,       \* Config.MaxEventsPerRun
    MaxHistory,     \* maxHistoryGenerations
    MaxIds,         \* maxHistoryIDs
    MaxKey,         \* bound: journal events
    MaxErrors,      \* bound: failed calls
    MaxStops        \* bound: crashes of either process and reindex requests

ASSUME FollowerAssumption ==
    /\ {MaxBatch, MaxHistory, MaxIds} \subseteq Nat \ {0}
    /\ {MaxKey, MaxErrors, MaxStops} \subseteq Nat

VARIABLES
    \* The bucket.
    journal,        \* the file each event is a state of, in key order
    snap,           \* meta/{file}.json: the event of the stored state
    pointer,        \* generation, last_journal_key and history of meta.json
    \* The indexer.
    ipc, last, batch, todo, unpub,
    disk,           \* drive-state.json; synced: the opstamp is the published one
    \* The follower.
    rpc, served, target, plan, fresh, metas,
    spent           \* errors and stops so far

bucketVars   == <<journal, snap, pointer>>
indexerVars  == <<ipc, last, batch, todo, unpub, disk>>
followerVars == <<rpc, served, target, plan, fresh, metas>>
vars == <<bucketVars, indexerVars, followerVars, spent>>

None      == [f \in Files |-> 0]
NoPointer == [gen |-> 0, last |-> 0, history |-> <<>>]
NoDisk    == [ok |-> FALSE, last |-> 0, gen |-> 0, synced |-> FALSE]
Published == [on |-> FALSE, full |-> FALSE, ids |-> {}]
AllNew    == [on |-> TRUE, full |-> TRUE, ids |-> {}]

Init ==
    /\ journal = <<>> /\ snap = None /\ pointer = NoPointer
    /\ ipc = "down" /\ last = 0 /\ batch = 0 /\ todo = {} /\ unpub = Published
    /\ disk = NoDisk
    /\ rpc = "idle" /\ served = NoPointer /\ target = NoPointer
    /\ plan = {} /\ fresh = None /\ metas = None
    /\ spent = [errors |-> 0, stops |-> 0]

Fault   == spent.errors < MaxErrors /\ spent' = [spent EXCEPT !.errors = @ + 1]
Stopped == spent.stops < MaxStops /\ spent' = [spent EXCEPT !.stops = @ + 1]

\* The event that holds the state of f at `key`.
StateAt(f, key) ==
    LET ks == {k \in 1..key : journal[k] = f}
    IN  IF ks = {} THEN 0 ELSE CHOOSE k \in ks : \A h \in ks : h <= k

\* A server appends an event.
AppendEvent ==
    /\ Len(journal) < MaxKey
    /\ \E f \in Files : journal' = Append(journal, f)
    /\ UNCHANGED <<snap, pointer, indexerVars, followerVars, spent>>

(***************************************************************************)
(* The indexer.                                                            *)
(***************************************************************************)

\* The files of the events after `lo` and at or before `hi`.
Touched(lo, hi) == {journal[k] : k \in lo + 1 .. hi}

\* Snapshots are written in the order in which files first appear in the batch.
FirstSeen(f) ==
    \E k \in last + 1 .. batch :
        journal[k] = f /\ \A h \in last + 1 .. k - 1 : journal[h] \notin todo

\* Variant: the ids of the last run replace those of a run not yet published.
Unpublished_LastRun(ids) == [on |-> TRUE, full |-> unpub.full, ids |-> ids]

\* markUnpublished after a commit.
Unpublished(ids) ==
    [on |-> TRUE, full |-> unpub.full,
     ids |-> IF unpub.full THEN {} ELSE unpub.ids \cup ids]

\* The listing of a run up to its commit.
Fold ==
    LET hi == IF Len(journal) - last > MaxBatch THEN last + MaxBatch ELSE Len(journal)
    IN
    /\ ipc = "idle" /\ hi > last
    /\ batch' = hi /\ todo' = Touched(last, hi)
    /\ unpub' = Unpublished(todo')
    /\ disk' = [disk EXCEPT !.synced = FALSE]
    /\ ipc' = "snap"
    /\ UNCHANGED <<bucketVars, last, followerVars, spent>>

EndRun == ipc' = "idle" /\ batch' = 0 /\ todo' = {}

\* WriteSnapshot of the next file; an error ends the run.
WriteSnapshot ==
    /\ ipc = "snap" /\ todo # {}
    /\ \/ /\ \E f \in todo :
                /\ FirstSeen(f)
                /\ snap' = [snap EXCEPT ![f] = StateAt(f, batch)]
                /\ todo' = todo \ {f}
          /\ UNCHANGED <<ipc, batch, spent>>
       \/ Fault /\ EndRun /\ UNCHANGED snap
    /\ UNCHANGED <<journal, pointer, last, unpub, disk, followerVars>>

\* setLast and saveState.
SaveKey ==
    /\ ipc = "snap" /\ todo = {}
    /\ last' = batch
    /\ disk' = [disk EXCEPT !.last = batch]
    /\ EndRun
    /\ UNCHANGED <<bucketVars, unpub, followerVars, spent>>

IdsIn(history) == FoldSeq(LAMBDA c, n : n + Cardinality(c.changed), 0, history)

\* Variant: the history is cut in the middle.
Trimmed_KeepsFirst(history) ==
    IF Len(history) > MaxHistory THEN <<history[1]>> \o SubSeq(history, 3, Len(history))
    ELSE history

\* The longest tail within the bounds, and at least one entry.
Trimmed(history) ==
    LET fits == {i \in 1..Len(history) :
                   \/ i = Len(history)
                   \/ /\ Len(history) - i < MaxHistory
                      /\ IdsIn(SubSeq(history, i, Len(history))) <= MaxIds}
    IN  SubSeq(history, CHOOSE i \in fits : \A j \in fits : i <= j, Len(history))

AppendHistory(history, c) ==
    IF c.full THEN <<[gen |-> c.gen, full |-> TRUE, changed |-> {}]>>
    ELSE Trimmed(Append(history, c))

NewPointer ==
    LET gen == pointer.gen + 1 IN
    [gen |-> gen, last |-> last,
     history |-> AppendHistory(pointer.history,
                               [gen |-> gen, full |-> unpub.full, changed |-> unpub.ids])]

\* publishPendingLocked: the base is the pointer in the bucket.
Publish ==
    /\ ipc = "idle" /\ unpub.on
    /\ \/ /\ pointer' = NewPointer
          /\ unpub' = Published
          /\ disk' = [disk EXCEPT !.gen = pointer.gen + 1, !.synced = TRUE]
          /\ UNCHANGED spent
       \/ \* The PUT fails, whether or not it was stored.
          /\ Fault /\ UNCHANGED unpub
          /\ \/ UNCHANGED <<pointer, disk>>
             \/ pointer' = NewPointer /\ disk' = [disk EXCEPT !.synced = TRUE]
    /\ UNCHANGED <<journal, snap, ipc, last, batch, todo, followerVars>>

Crash ==
    /\ ipc # "down" /\ Stopped
    /\ ipc' = "down" /\ last' = 0 /\ batch' = 0 /\ todo' = {} /\ unpub' = Published
    /\ \/ UNCHANGED disk
       \/ disk' = NoDisk
    /\ UNCHANGED <<bucketVars, followerVars>>

\* The state a rebuild from the snapshots leaves.
Rebuilt ==
    /\ last' = CHOOSE k \in {snap[f] : f \in Files} \cup {0} : \A f \in Files : snap[f] <= k
    /\ unpub' = AllNew
    /\ disk' = [ok |-> TRUE, last |-> last', gen |-> disk.gen, synced |-> FALSE]

\* Variant: a restarted indexer does not compare opstamps.
Ahead_Never == FALSE

\* The local index has commits the bucket does not have.
Ahead == pointer.gen = 0 \/ ~disk.synced

\* Start: adopt, rebuild, or go on with the local directory.
Restart ==
    /\ ipc = "down" /\ ipc' = "idle"
    /\ IF pointer.gen # 0 /\ (~disk.ok \/ disk.gen # pointer.gen)
         THEN /\ last' = pointer.last /\ unpub' = Published
              /\ disk' = [ok |-> TRUE, last |-> pointer.last, gen |-> pointer.gen,
                          synced |-> TRUE]
         ELSE IF ~disk.ok THEN Rebuilt
         ELSE /\ last' = disk.last
              /\ unpub' = IF Ahead THEN AllNew ELSE Published
              /\ UNCHANGED disk
    /\ UNCHANGED <<bucketVars, batch, todo, followerVars, spent>>

\* A reindex request.
Rebuild ==
    /\ ipc = "idle" /\ Stopped
    /\ Rebuilt
    /\ UNCHANGED <<bucketVars, ipc, batch, todo, followerVars>>

(***************************************************************************)
(* The follower.                                                           *)
(***************************************************************************)

\* The history of p has an entry, and none that says "everything", for every
\* generation after `gen`.
Covered(p, gen) ==
    /\ p.gen >= gen
    /\ \A g \in gen + 1 .. p.gen :
         \E c \in ToSet(p.history) : c.gen = g /\ ~c.full

\* The ids changed since `gen`.
ChangedSince(p, gen) == UNION {c.changed : c \in {d \in ToSet(p.history) : d.gen > gen}}

\* HeadPointer and ReadPointer, then ChangesSince the pointer served; a full
\* reload lists the snapshots.
ReadPointer ==
    LET some == served.gen # 0 /\ Covered(pointer, served.gen) IN
    /\ rpc = "idle" /\ pointer.gen # 0 /\ pointer # served
    /\ target' = pointer
    /\ rpc' = IF some THEN "some" ELSE "full"
    /\ plan' = IF some THEN ChangedSince(pointer, served.gen)
               ELSE {f \in Files : snap[f] # 0}
    /\ UNCHANGED <<bucketVars, indexerVars, served, fresh, metas, spent>>

EndRefresh == rpc' = "idle" /\ target' = NoPointer /\ plan' = {} /\ fresh' = None

\* ReadSnapshot of one file; an error leaves the pointer served.
ReadSnapshot ==
    /\ rpc # "idle"
    /\ \/ \E f \in plan :
            /\ plan' = plan \ {f}
            /\ IF rpc = "full"
                 THEN fresh' = [fresh EXCEPT ![f] = snap[f]] /\ UNCHANGED metas
                 ELSE metas' = [metas EXCEPT ![f] = snap[f]] /\ UNCHANGED fresh
            /\ UNCHANGED <<rpc, target, spent>>
       \/ plan # {} /\ Fault /\ EndRefresh /\ UNCHANGED metas
    /\ UNCHANGED <<bucketVars, indexerVars, served>>

\* ReplaceAll after a full reload, then the new pointer.
FinishRefresh ==
    /\ rpc # "idle" /\ plan = {}
    /\ metas' = IF rpc = "full" THEN fresh ELSE metas
    /\ served' = target
    /\ EndRefresh
    /\ UNCHANGED <<bucketVars, indexerVars, spent>>

RestartFollower ==
    /\ served # NoPointer /\ Stopped
    /\ EndRefresh
    /\ served' = NoPointer /\ metas' = None
    /\ UNCHANGED <<bucketVars, indexerVars>>

Run     == Fold \/ WriteSnapshot \/ SaveKey \/ Publish \/ Restart
Refresh == ReadPointer \/ ReadSnapshot \/ FinishRefresh

Next ==
    \/ AppendEvent
    \/ Run \/ Crash \/ Rebuild
    \/ Refresh \/ RestartFollower

Spec == Init /\ [][Next]_vars

\* Both loops begin a round at every interval, and a supervisor restarts the
\* indexer.
FairSpec == Spec /\ WF_vars(Run) /\ WF_vars(Refresh)

(***************************************************************************)
(* Properties.                                                             *)
(***************************************************************************)
Key == 0..MaxKey
Change == [gen : Nat, full : BOOLEAN, changed : SUBSET Files]
Pointer == [gen : Nat, last : Key, history : Seq(Change)]

\* Every variable stays in its range.
TypeOK ==
    /\ journal \in Seq(Files) /\ snap \in [Files -> Key]
    /\ {pointer, served, target} \subseteq Pointer
    /\ ipc \in {"down", "idle", "snap"} /\ last \in Key /\ batch \in Key
    /\ todo \subseteq Files

    /\ unpub \in [on : BOOLEAN, full : BOOLEAN, ids : SUBSET Files]
    /\ disk \in [ok : BOOLEAN, last : Key, gen : Nat, synced : BOOLEAN]
    /\ rpc \in {"idle", "some", "full"} /\ plan \subseteq Files
    /\ fresh \in [Files -> Key] /\ metas \in [Files -> Key]
    /\ spent \in [{"errors", "stops"} -> Nat]

\* A server overlays the journal after the key of the pointer it serves on its
\* meta cache, so no state of the cache is older than that key: whatever
\* generations it skipped and whatever part of an earlier refresh failed.
CacheCoversPointer ==
    served.gen # 0 => \A f \in Files : metas[f] >= StateAt(f, served.last)

\* The history ends with the generation of its pointer and has no hole, so that
\* a follower it reaches back to learns of every generation between; it is never
\* longer than its bounds allow.
HistoryUnbroken ==
    pointer.gen # 0 =>
        LET h == pointer.history IN
        /\ Len(h) \in 1..MaxHistory
        /\ \A i \in 1..Len(h) : h[i].gen = pointer.gen - (Len(h) - i)
        /\ \A i \in 2..Len(h) : ~h[i].full
        /\ Len(h) > 1 => IdsIn(h) <= MaxIds

\* When writes and failures stop, the cache of the server has every state.
CacheConverges == <>[](\A f \in Files : metas[f] = StateAt(f, Len(journal)))

===============================================================================
