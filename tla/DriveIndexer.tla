----------------------------- MODULE DriveIndexer -----------------------------
(***************************************************************************)
(* The indexer of one tenant (drive/indexer): the single writer that folds *)
(* the journal into the search index (held by the drivesearch sidecar),    *)
(* the meta snapshots, the audit checkpoint chain and the published index. *)
(*                                                                         *)
(* Every call that reaches the bucket, the sidecar or the local disk is a  *)
(* step of its own, so handlers of the servers, crashes and failed calls   *)
(* fall between any two of them.  Publication of the index is one PUT of   *)
(* the pointer here; SegmentStore opens it up.                             *)
(***************************************************************************)
EXTENDS DriveJournal, Integers, Sequences

CONSTANTS
    TextFiles,          \* files whose state names an extracted-text object
    MaxEventsPerRun,    \* Config.MaxEventsPerRun
    Snapshot,           \* Config.Snapshot: the index is published
    ReorderedLanding,   \* journal PUTs may land in another order than stamped
    Disturbances,       \* what may come between: a subset of Kinds
    MaxDisturbances     \* bound: how often altogether

\* The process crashes; a call fails; a call of a rebuild fails; the sidecar
\* process dies; a reindex is requested; the sidecar gets a new schema version.
Kinds == {"crash", "failure", "rebuild failure", "death", "rebuild", "upgrade"}

ASSUME IndexerAssumption ==
    /\ TextFiles \subseteq Files
    /\ MaxEventsPerRun \in Nat \ {0} /\ MaxDisturbances \in Nat
    /\ {Snapshot, ReorderedLanding} \subseteq BOOLEAN
    /\ Disturbances \subseteq Kinds

VARIABLES
    \* The bucket.
    journal,        \* key -> event
    textReady,      \* files whose .text.json is there
    metaSnap,       \* meta/{file}.json: the LastEvent of the stored state
    chain,          \* audit/checkpoint-{n}.json, in order
    pointer,        \* search/{tenant}/meta.json
    pointerUsable,  \* the pointer has the schema of the sidecar
    \* The index directory.
    index,          \* what the committed tantivy index holds
    stateFile,      \* drive-state.json
    synced,         \* local opstamp = opstamp of the pointer
    \* The indexer process.
    pc,             \* the next call of the loop
    state,          \* Indexer.state
    metas,          \* the meta cache
    unpublished,    \* Indexer.unpublished
    head,           \* Indexer.head with headLoaded
    run,            \* the locals of runOnceLocked or rebuildLocked
    \* The sidecar process.
    sidecar,        \* "up", "dead" (nobody noticed), "down" (client knows)
    buffer,         \* documents upserted or deleted since the last commit
    disturbed       \* Disturbances so far

bucketVars  == <<journal, textReady, metaSnap, chain, pointer, pointerUsable>>
diskVars    == <<index, stateFile, synced>>
processVars == <<pc, state, metas, unpublished, head, run>>
sidecarVars == <<sidecar, buffer>>
vars == <<bucketVars, diskVars, processVars, sidecarVars, disturbed>>

(***************************************************************************)
(* Values.                                                                 *)
(***************************************************************************)
NoDocs == [f \in Files |-> 0]
\* An index: per file the event its documents were built from (0: none), and
\* the files whose documents include the extracted text.
EmptyIndex == [docs |-> NoDocs, text |-> {}]

FreshState == [last |-> 0, pending |-> {}, generation |-> 0]
NoState    == [last |-> 0, pending |-> {}, generation |-> -1]

NoPointer == [generation |-> 0, last |-> 0, pending |-> {},
              docs |-> NoDocs, text |-> {}]

\* Genesis stands for the digest checkpoint 1 links to; the digest of a
\* checkpoint object is modelled by the object, hashing being injective.
Genesis == <<>>
NoHead  == [loaded |-> FALSE, n |-> 0, last |-> 0, sha |-> Genesis]

EmptyBuffer == [ids |-> {}, docs |-> NoDocs, text |-> {}]

NoRun == [from |-> 0, entries |-> {}, hi |-> 0, pending |-> {}, todo |-> {},
          new |-> NoDocs, committed |-> FALSE, live |-> FALSE]

\* A process in its loop, between two runs: a failed run is logged, not fatal.
InLoop == [NoRun EXCEPT !.live = TRUE]

Disturb(kind) ==
    /\ kind \in Disturbances /\ disturbed < MaxDisturbances
    /\ disturbed' = disturbed + 1

Init ==
    /\ journal = [k \in Keys |-> NoEvent]
    /\ textReady = {}
    /\ metaSnap = NoDocs
    /\ chain = <<>>
    /\ pointer = NoPointer /\ pointerUsable = FALSE
    /\ index = EmptyIndex /\ stateFile = NoState /\ synced = FALSE
    /\ pc = "down" /\ state = FreshState /\ metas = NoDocs
    /\ unpublished = FALSE /\ head = NoHead /\ run = NoRun
    /\ sidecar = "down" /\ buffer = EmptyBuffer
    /\ disturbed = 0

(***************************************************************************)
(* The servers and streamuploader.                                         *)
(***************************************************************************)

\* journal.Append of any handler of any server.  With ReorderedLanding a key
\* stamped earlier than one already stored may still arrive.
Append1(k, e) ==
    /\ journal[k] = NoEvent
    /\ ~ReorderedLanding => Landed(journal) = 1..(k - 1)
    /\ journal' = [journal EXCEPT ![k] = e]
    /\ UNCHANGED <<textReady, metaSnap, chain, pointer, pointerUsable,
                   diskVars, processVars, sidecarVars, disturbed>>

AppendEvent == \E k \in Keys, e \in Event : Append1(k, e)

\* streamuploader's background extraction stores the .text.json of a file.
TextExtracted ==
    /\ \E f \in TextFiles \ textReady : textReady' = textReady \cup {f}
    /\ UNCHANGED <<journal, metaSnap, chain, pointer, pointerUsable,
                   diskVars, processVars, sidecarVars, disturbed>>

(***************************************************************************)
(* The sidecar client.  A call on a dead process fails and marks it down;  *)
(* the next call, whoever makes it, starts a fresh process, whose writer   *)
(* holds nothing.                                                          *)
(***************************************************************************)
SidecarDies ==
    /\ sidecar = "up"
    /\ Disturb("death")
    /\ sidecar' = "dead"
    /\ buffer' = EmptyBuffer
    /\ UNCHANGED <<bucketVars, diskVars, processVars>>

\* A search, facet or best-page request of the server that shares the client.
SearchCall ==
    /\ run.live
    /\ \/ sidecar = "dead" /\ sidecar' = "down"
       \/ sidecar = "down" /\ sidecar' = "up"
    /\ UNCHANGED <<bucketVars, diskVars, processVars, buffer, disturbed>>

CanCall == sidecar # "dead"

\* What the end of the process leaves of its memory and of the sidecar.
Gone ==
    /\ pc' = "down"
    /\ state' = FreshState /\ metas' = NoDocs /\ unpublished' = FALSE
    /\ head' = NoHead /\ run' = NoRun
    /\ sidecar' = "down" /\ buffer' = EmptyBuffer

(***************************************************************************)
(* Start.  The local directory, the state file and the pointer decide      *)
(* between adopting the published index, rebuilding, and going on.         *)
(***************************************************************************)
LocalOK  == stateFile # NoState
Remote   == Snapshot /\ pointer.generation # 0 /\ pointerUsable
MustAdopt == Remote /\ (~LocalOK \/ stateFile.generation # pointer.generation)
\* Documents in the directory, no snapshot in the bucket: another life.
Leftover == metaSnap = NoDocs /\ index.docs # NoDocs

\* A new sidecar finds the directory of another schema and clears it.
SchemaUpgrade ==
    /\ pc = "down"
    /\ Disturb("upgrade")
    /\ index' = EmptyIndex /\ stateFile' = NoState /\ synced' = FALSE
    /\ pointerUsable' = FALSE
    /\ UNCHANGED <<journal, textReady, metaSnap, chain, pointer,
                   processVars, sidecarVars>>

StartLocal ==
    /\ pc = "down" /\ ~MustAdopt /\ LocalOK /\ ~Leftover
    /\ pc' = "begin"
    /\ state' = stateFile
    /\ metas' = metaSnap
    /\ unpublished' = (Snapshot /\ ~(Remote /\ synced))
    /\ sidecar' = "up"
    /\ UNCHANGED <<bucketVars, diskVars, head, run, buffer, disturbed>>

\* adoptLocked up to Prune: the directory now holds the published files.
StartAdopt ==
    /\ pc = "down" /\ MustAdopt
    /\ pc' = "adopt"
    /\ index' = [docs |-> pointer.docs, text |-> pointer.text]
    /\ synced' = TRUE
    /\ UNCHANGED <<bucketVars, stateFile, state, metas, unpublished, head, run,
                   sidecarVars, disturbed>>

\* The rest of adoptLocked: sidecar, state file and meta cache.
AdoptState ==
    /\ pc = "adopt"
    /\ pc' = "begin"
    /\ state' = [last |-> pointer.last, pending |-> pointer.pending,
                 generation |-> pointer.generation]
    /\ stateFile' = state'
    /\ metas' = metaSnap
    /\ unpublished' = FALSE
    /\ sidecar' = "up"
    /\ UNCHANGED <<bucketVars, index, synced, head, run, buffer, disturbed>>

\* rebuildLocked at start: nothing to adopt, or a leftover directory.
StartRebuild ==
    /\ pc = "down" /\ ~MustAdopt /\ (LocalOK => Leftover)
    /\ pc' = "rload"
    /\ state' = IF LocalOK THEN stateFile ELSE FreshState
    /\ index' = EmptyIndex /\ stateFile' = NoState /\ synced' = FALSE
    /\ sidecar' = "up" /\ buffer' = EmptyBuffer
    /\ run' = NoRun
    /\ UNCHANGED <<bucketVars, metas, unpublished, head, disturbed>>

\* An error ends the run.  RunLoop logs it and waits for the next tick; during
\* Start it ends the process.
\* Variant: an error ends the loop.
RunReturnsError_StopsLoop == pc' = "stopped" /\ run' = run

RunReturnsError ==
    /\ pc' = IF run.live THEN "idle" ELSE "exit"
    /\ run' = [NoRun EXCEPT !.live = run.live]

Exit ==
    /\ pc = "exit"
    /\ Gone
    /\ UNCHANGED <<bucketVars, diskVars, disturbed>>

(***************************************************************************)
(* rebuildLocked.                                                          *)
(***************************************************************************)

\* Variant: the documents of deleted files are not removed.
Buffered_KeepsDeleted(ids, states) ==
    LET live == {f \in ids : IsLive(journal, states[f])} IN
    [ids  |-> live,
     docs |-> [f \in Files |-> IF f \in live THEN states[f] ELSE 0],
     text |-> live \cap TextFiles \cap textReady]

\* Documents for a set of files with given states, as fetchText and BuildDocs
\* make them: with the text if it is there.
Buffered(ids, states) ==
    [ids  |-> ids,
     docs |-> [f \in Files |-> IF f \in ids THEN DocOf(journal, states[f]) ELSE 0],
     text |-> {f \in ids \cap TextFiles \cap textReady : IsLive(journal, states[f])}]

\* Variant: a text that is not there is not waited for.
TextMissing_NotRecorded(ids, states) == {}

\* Of those, the files whose text is not there yet.
TextMissing(ids, states) ==
    {f \in (ids \cap TextFiles) \ textReady : IsLive(journal, states[f])}

\* An index, or a buffer, with the documents of the files of b replaced.
Overlaid(base, b) ==
    [docs |-> [f \in Files |-> IF f \in b.ids THEN b.docs[f] ELSE base.docs[f]],
     text |-> (base.text \ b.ids) \cup b.text]

\* Delete and Upsert queue in the writer of the sidecar; Commit applies them.
Queued(b) == [ids  |-> buffer.ids \cup b.ids,
              docs |-> Overlaid(buffer, b).docs, text |-> Overlaid(buffer, b).text]

Committed == Overlaid(index, buffer)

\* A reindex request: Reset stops the sidecar and removes the directory.
RequestRebuild ==
    /\ pc = "idle"
    /\ Disturb("rebuild")
    /\ pc' = "rload"
    /\ index' = EmptyIndex /\ stateFile' = NoState /\ synced' = FALSE
    /\ sidecar' = "up" /\ buffer' = EmptyBuffer
    /\ UNCHANGED <<bucketVars, state, metas, unpublished, head, run>>

\* LoadSnapshots, then an upsert of every live file.
RebuildLoad ==
    LET known == {f \in Files : metaSnap[f] # 0} IN
    /\ pc = "rload" /\ CanCall
    /\ pc' = "rcommit"
    /\ metas' = [f \in Files |-> IF f \in known THEN metaSnap[f] ELSE metas[f]]
    /\ buffer' = Buffered(known, metaSnap)
    /\ sidecar' = "up"
    /\ run' = [run EXCEPT !.hi = Newest({metaSnap[f] : f \in known}),
                          !.pending = TextMissing(known, metaSnap)]
    /\ UNCHANGED <<bucketVars, diskVars, state, unpublished, head, disturbed>>

\* Commit, then the state file; the tail of rebuildLocked is a run.
RebuildCommit ==
    /\ pc = "rcommit" /\ CanCall
    /\ pc' = "rsave"
    /\ index' = Committed /\ buffer' = EmptyBuffer /\ sidecar' = "up"
    \* The opstamp of the new index may or may not be the published one.
    /\ synced' \in BOOLEAN
    /\ UNCHANGED <<bucketVars, stateFile, state, metas, unpublished, head, run,
                   disturbed>>

RebuildSave ==
    /\ pc = "rsave"
    /\ pc' = "begin"
    /\ unpublished' = Snapshot
    /\ state' = [state EXCEPT !.last = run.hi, !.pending = run.pending]
    /\ stateFile' = state'
    /\ run' = [NoRun EXCEPT !.live = run.live]
    /\ UNCHANGED <<bucketVars, index, synced, metas, head, sidecarVars, disturbed>>

\* A failing call between Reset and setLast returns from rebuildLocked.
RebuildFails ==
    /\ pc \in {"rload", "rcommit"}
    /\ \/ ~CanCall /\ sidecar' = "down" /\ UNCHANGED disturbed
       \/ Disturb("rebuild failure") /\ UNCHANGED sidecar
    /\ RunReturnsError
    /\ UNCHANGED <<bucketVars, diskVars, state, metas, unpublished, head, buffer>>

(***************************************************************************)
(* runOnceLocked.                                                          *)
(***************************************************************************)
Entries == ListAfter(journal, state.last, MaxEventsPerRun)

\* Variant: the first state of a batch wins.
Of_First(f, entries) ==
    {k \in entries \cap StateKeys(journal, f) :
        \A h \in entries \cap StateKeys(journal, f) : k <= h}

\* The keys of a batch that carry a state of f.
Of(f, entries) == entries \cap StateKeys(journal, f)

Touched(entries) == {f \in Files : Of(f, entries) # {}}

\* Variant: pending texts are looked at only when the file changes.
Rechecked_Never(entries) == {}

\* Files waiting for their text, without a newer event, whose text is there now.
Rechecked(entries) ==
    {f \in state.pending \ Touched(entries) :
        IsLive(journal, metas[f]) /\ f \in textReady}

\* The order of the snapshot writes: files as first seen in the batch, then the
\* rechecked ones.
Rank(f, r) == IF Of(f, r.entries) # {} THEN Oldest(Of(f, r.entries)) ELSE r.hi + 1

\* The listing, the rechecks, fetchText, and Delete and Upsert when a file
\* changed.  A batch without one only moves the cursor; without any event the
\* run goes on to the checkpoint and the publication it may still owe.
RunBegin ==
    LET entries == Entries
        changed == Touched(entries) \cup Rechecked(entries)
        states  == [f \in Files |-> IF f \in Touched(entries)
                                      THEN Newest(Of(f, entries)) ELSE metas[f]]
        waiting == {f \in state.pending :
                       f \in Touched(entries) \/ IsLive(journal, metas[f])}
    IN
    /\ pc \in {"begin", "idle"}
    /\ run' = [from      |-> state.last,
               entries   |-> entries,
               hi        |-> IF entries = {} THEN state.last ELSE Newest(entries),
               pending   |-> (waiting \ changed) \cup TextMissing(changed, states),
               todo      |-> changed,
               new       |-> states,
               committed |-> changed # {},
               live      |-> run.live]
    /\ IF changed # {}
         THEN /\ CanCall /\ sidecar' = "up"
              /\ pc' = "commit"
              /\ buffer' = Queued(Buffered(changed, states))
         ELSE /\ pc' = IF entries # {} THEN "save" ELSE "chain"
              /\ UNCHANGED sidecarVars
    /\ UNCHANGED <<bucketVars, diskVars, state, metas, unpublished, head, disturbed>>

RunCommit ==
    /\ pc = "commit" /\ CanCall
    /\ pc' = "snap"
    /\ index' = Committed /\ buffer' = EmptyBuffer /\ sidecar' = "up"
    /\ synced' = FALSE
    /\ unpublished' = Snapshot
    /\ UNCHANGED <<bucketVars, stateFile, state, metas, head, run, disturbed>>

\* metas.Put and WriteSnapshot of the next file of the batch.
RunSnapshot ==
    \E f \in run.todo :
        /\ pc = "snap"
        /\ \A g \in run.todo : Rank(f, run) <= Rank(g, run)
        /\ metas' = [metas EXCEPT ![f] = run.new[f]]
        /\ \/ /\ metaSnap' = [metaSnap EXCEPT ![f] = run.new[f]]
              /\ run' = [run EXCEPT !.todo = @ \ {f}]
              /\ pc' = IF run.todo = {f} THEN "save" ELSE "snap"
              /\ UNCHANGED disturbed
           \/ \* The write fails and ends the run.
              /\ Disturb("failure")
              /\ RunReturnsError /\ UNCHANGED metaSnap
        /\ UNCHANGED <<journal, textReady, chain, pointer, pointerUsable, diskVars,
                       state, unpublished, head, sidecarVars>>

\* setLast, then saveState, which may fail and end the run.
RunSave ==
    /\ pc = "save"
    /\ state' = [state EXCEPT !.last = run.hi, !.pending = run.pending]
    /\ \/ /\ stateFile' = state'
          /\ unpublished' = Snapshot
          /\ pc' = "chain" /\ UNCHANGED <<run, disturbed>>
       \/ /\ Disturb("failure")
          /\ RunReturnsError /\ UNCHANGED <<stateFile, unpublished>>
    /\ UNCHANGED <<bucketVars, index, synced, metas, head, sidecarVars>>

(***************************************************************************)
(* checkpoint and audit.Chain.Append.                                      *)
(***************************************************************************)
LastOf(cp) == Newest(cp.leaves)

\* Variant: a restarted process does not read the head.
LoadedHead_Genesis == IF head.loaded THEN head ELSE [NoHead EXCEPT !.loaded = TRUE]

\* Chain.Head, read from the bucket on first use.
LoadedHead ==
    IF head.loaded THEN head
    ELSE IF chain = <<>> THEN [NoHead EXCEPT !.loaded = TRUE]
    ELSE [loaded |-> TRUE, n |-> Len(chain), last |-> LastOf(chain[Len(chain)]),
          sha |-> <<chain[Len(chain)]>>]

\* Variant: only what this run folded is chained.
ChainBatch_NoGap(h, r) == {k \in r.entries : k > h.last}

\* The events between the head and the end of the fold: the gap before the
\* batch, fetched from the journal, and what the batch has after the head.
ChainBatch(h, r) ==
    (IF r.from > h.last THEN ListRange(journal, h.last, r.from) ELSE {})
      \cup {k \in r.entries : k > h.last}

\* Variant: a repeated PUT stores another object.
PutCheckpoint_Appends(n, cp) == Append(chain, cp)

\* PUT of checkpoint n: an object already there is replaced.
PutCheckpoint(n, cp) ==
    IF n <= Len(chain) THEN [chain EXCEPT ![n] = cp] ELSE Append(chain, cp)

RunCheckpoint ==
    LET h     == LoadedHead
        batch == ChainBatch(h, run)
        cp    == [prev |-> h.sha, leaves |-> batch]
    IN
    /\ pc = "chain"
    /\ \/ /\ batch = {}
          /\ pc' = "publish" /\ head' = h
          /\ UNCHANGED <<chain, run, disturbed>>
       \/ /\ batch # {}
          /\ chain' = PutCheckpoint(h.n + 1, cp)
          /\ head' = [loaded |-> TRUE, n |-> h.n + 1, last |-> Newest(batch),
                      sha |-> <<cp>>]
          /\ pc' = "publish" /\ UNCHANGED <<run, disturbed>>
       \/ \* The PUT fails, whether or not the bucket stored the object.
          /\ batch # {}
          /\ chain' \in {chain, PutCheckpoint(h.n + 1, cp)}
          /\ head' = h
          /\ Disturb("failure")
          /\ RunReturnsError
    /\ UNCHANGED <<journal, textReady, metaSnap, pointer, pointerUsable, diskVars,
                   state, metas, unpublished, sidecarVars>>

(***************************************************************************)
(* publishPendingLocked and publishLocked.  The next generation continues  *)
(* from the pointer in the bucket.                                         *)
(***************************************************************************)
\* Variant: the generation continues from the state of the process.
NextPointer_OwnGeneration ==
    [generation |-> state.generation + 1, last |-> state.last,
     pending |-> state.pending, docs |-> index.docs, text |-> index.text]

NextPointer == [generation |-> pointer.generation + 1,
                last |-> state.last, pending |-> state.pending,
                docs |-> index.docs, text |-> index.text]

RunPublishNothing ==
    /\ pc = "publish" /\ ~unpublished
    /\ pc' = "idle" /\ run' = InLoop
    /\ UNCHANGED <<bucketVars, diskVars, state, metas, unpublished, head,
                   sidecarVars, disturbed>>

\* Without a commit in this run the sidecar is asked for the file list.
RunPublish ==
    /\ pc = "publish" /\ unpublished
    /\ IF run.committed THEN UNCHANGED sidecar ELSE CanCall /\ sidecar' = "up"
    /\ \/ /\ pointer' = NextPointer /\ pointerUsable' = TRUE /\ synced' = TRUE
          /\ state' = [state EXCEPT !.generation = NextPointer.generation]
          /\ unpublished' = FALSE
          /\ pc' = "savegen" /\ UNCHANGED <<run, disturbed>>
       \/ \* The PUT of the pointer fails, whether or not it was stored.
          /\ \/ UNCHANGED <<pointer, pointerUsable, synced>>
             \/ pointer' = NextPointer /\ pointerUsable' = TRUE /\ synced' = TRUE
          /\ Disturb("failure")
          /\ RunReturnsError /\ UNCHANGED <<state, unpublished>>
    /\ UNCHANGED <<journal, textReady, metaSnap, chain, index, stateFile, metas,
                   head, buffer>>

RunSaveGeneration ==
    /\ pc = "savegen"
    /\ \/ /\ stateFile' = state
          /\ pc' = "idle" /\ run' = InLoop /\ UNCHANGED disturbed
       \/ Disturb("failure") /\ RunReturnsError /\ UNCHANGED stateFile
    /\ UNCHANGED <<bucketVars, index, synced, state, metas, unpublished, head,
                   sidecarVars>>

\* A call on the sidecar that died, or a listing or a commit that fails.
RunFails ==
    /\ \/ /\ pc \in {"begin", "idle", "commit", "publish"} /\ ~CanCall
          /\ pc = "publish" => unpublished /\ ~run.committed
          /\ sidecar' = "down" /\ UNCHANGED disturbed
       \/ pc \in {"begin", "commit"} /\ Disturb("failure")
          /\ UNCHANGED sidecar
    /\ RunReturnsError
    /\ UNCHANGED <<bucketVars, diskVars, state, metas, unpublished, head, buffer>>

(***************************************************************************)
(* The process ends at any point; the bucket stays, and so does the index  *)
(* directory unless the disk was ephemeral.                                *)
(***************************************************************************)
Crash ==
    /\ pc # "down"
    /\ Disturb("crash")
    /\ Gone
    /\ \/ UNCHANGED diskVars
       \/ \* with the disk
          /\ index' = EmptyIndex /\ stateFile' = NoState /\ synced' = FALSE
    /\ UNCHANGED bucketVars

Start   == Exit \/ StartLocal \/ StartAdopt \/ AdoptState \/ StartRebuild
Rebuild == RebuildLoad \/ RebuildCommit \/ RebuildSave
RunOnce == \/ RunBegin \/ RunCommit \/ RunSnapshot \/ RunSave \/ RunCheckpoint
           \/ RunPublishNothing \/ RunPublish \/ RunSaveGeneration

Next ==
    \/ AppendEvent \/ TextExtracted
    \/ SidecarDies
    \/ Start \/ RequestRebuild \/ Rebuild \/ RebuildFails
    \/ RunOnce \/ RunFails
    \/ SchemaUpgrade \/ Crash

Spec == Init /\ [][Next]_vars

\* All-in-one: the searches of a server use the same sidecar client.
AllInOneSpec == Init /\ [][Next \/ SearchCall]_vars

(***************************************************************************)
(* The loop keeps running: a supervisor restarts the process, Start and    *)
(* Rebuild end, and RunLoop begins a run at least every interval.  Nothing *)
(* is assumed of the servers, of extraction or of failures.                *)
(***************************************************************************)
Fairness == WF_vars(Start) /\ WF_vars(Rebuild \/ RebuildFails)
            /\ WF_vars(RunOnce \/ RunFails)

FairSpec == Spec /\ Fairness

(***************************************************************************)
(* Properties.                                                             *)
(***************************************************************************)
DocMap == [Files -> 0..MaxKey]
IndexType == [docs : DocMap, text : SUBSET Files]
StateType == [last : 0..MaxKey, pending : SUBSET Files, generation : Int]
PointerType == [generation : Nat, last : 0..MaxKey, pending : SUBSET Files,
                docs : DocMap, text : SUBSET Files]
RunType == [from : 0..MaxKey, entries : SUBSET Keys, hi : 0..MaxKey,
            pending : SUBSET Files, todo : SUBSET Files, new : DocMap,
            committed : BOOLEAN, live : BOOLEAN]
BufferType == [ids : SUBSET Files, docs : DocMap, text : SUBSET Files]

\* Every variable stays in its range: indexes, caches and snapshots name
\* journal keys, and the program counter is one of the calls of the loop.
TypeOK ==
    /\ journal \in [Keys -> Event \cup {NoEvent}]
    /\ textReady \subseteq Files
    /\ metaSnap \in DocMap /\ metas \in DocMap
    /\ pointer \in PointerType
    /\ {pointerUsable, synced, unpublished} \subseteq BOOLEAN
    /\ index \in IndexType
    /\ stateFile \in StateType /\ state \in StateType
    /\ pc \in {"down", "adopt", "rload", "rcommit", "rsave", "begin", "idle",
               "commit", "snap", "save", "chain", "publish", "savegen", "exit"}
    /\ head.loaded \in BOOLEAN /\ head.n \in Nat /\ head.last \in 0..MaxKey
    /\ run \in RunType
    /\ sidecar \in {"up", "dead", "down"}
    /\ buffer \in BufferType
    /\ disturbed \in Nat

\* The process folds: its index is neither being replaced nor rebuilt.
Folding == pc \notin {"down", "adopt", "rload", "rcommit", "rsave"}

\* The documents of every file come from its state at `key` or a later one.
Covers(docs, key) ==
    \A f \in Files : docs[f] \in DocsSince(journal, f, key)

\* Whatever journal key the indexer says it has folded (in memory, or in a
\* state file a restart would go on from), the local index holds the effect of every
\* file event up to it: the cursor never runs ahead of the index, over failed
\* and repeated runs, crashes and adoptions.
IndexCoversCursor ==
    /\ Folding => Covers(index.docs, state.last)
    /\ LocalOK /\ ~MustAdopt => Covers(index.docs, stateFile.last)

\* The same for the two copies of the file states that servers and rebuilds
\* read: the cache of the process and the snapshots in the bucket are never
\* behind the cursor, because both are written before it moves.
StatesCoverCursor ==
    Folding => \A f \in Files :
                  /\ StateAt(journal, f, state.last) <= metas[f]
                  /\ StateAt(journal, f, state.last) <= metaSnap[f]

\* An index without the text of f leaves f to a list that will be looked at.
TextKnown(docs, text, pending, last) ==
    \A f \in TextFiles \ text :
        docs[f] # 0 => \/ f \in pending
                       \/ \E k \in StateKeys(journal, f) : k > last

\* A live file indexed without its text is on a list that some later run, or
\* the next process, will look at: the pending list, or the journal after the
\* cursor.  The same holds of the pending list a published pointer carries.
TextNotForgotten ==
    /\ Folding => TextKnown(index.docs, index.text, state.pending, state.last)
    /\ TextKnown(pointer.docs, pointer.text, pointer.pending, pointer.last)

ChainEnd == IF chain = <<>> THEN 0 ELSE LastOf(chain[Len(chain)])

\* The chain has no gap and no overlap: every event up to its end is a leaf of
\* exactly one checkpoint, checkpoints cover increasing ranges, and each links
\* to the one stored before it, whichever PUTs were repeated.
ChainExact ==
    /\ \A n \in 1..Len(chain) :
          /\ chain[n].leaves # {}
          /\ chain[n].prev = IF n = 1 THEN Genesis ELSE <<chain[n - 1]>>
          /\ n > 1 => LastOf(chain[n - 1]) < Oldest(chain[n].leaves)
    /\ UNION {chain[n].leaves : n \in 1..Len(chain)} = ListRange(journal, 0, ChainEnd)

\* No published cursor is past the end of the audit chain: whatever failed,
\* crashed or was adopted before, what a pointer says is folded is also chained.
PublishedIsChained == pointer.last <= ChainEnd

\* A checkpoint in the bucket changes only by growing: a repeated PUT of the
\* last one covers at least what the first one did, and none is ever dropped.
ChainGrows ==
    [][ /\ Len(chain') >= Len(chain)
        /\ \A n \in 1..Len(chain) :
              /\ chain[n].leaves \subseteq chain'[n].leaves
              /\ n < Len(chain) => chain'[n] = chain[n] ]_chain

Published == INSTANCE PublishedIndex
                 WITH generation <- pointer.generation,
                      last <- pointer.last, docs <- pointer.docs

\* Every published generation holds, for every file, the fold of the journal up
\* to the key it carries or a later state, and generations follow each other one
\* by one: the indexer, with all its steps, caches and retries, implements
\* PublishedIndex.
PublishesAFold == Published!Spec

\* When writes, extraction and failures stop, the published index becomes the
\* fold of the whole journal with every text that is there, and stays so.
PublishedConverges ==
    <>[] /\ pointer.docs = FoldTo(journal, MaxKey)
         /\ \A f \in TextFiles \cap textReady : pointer.docs[f] # 0 => f \in pointer.text

\* And the chain covers every event.
ChainConverges == <>[](After(journal, ChainEnd) = {})

===============================================================================
