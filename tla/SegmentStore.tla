----------------------------- MODULE SegmentStore -----------------------------
(***************************************************************************)
(* The published index in the bucket (drive/snapshot): immutable segment   *)
(* files and one pointer that names them.  The indexer uploads what the    *)
(* pointer does not name yet, deletes what has been retired for a grace    *)
(* period, puts the new pointer last and sweeps leftovers.  Followers, the *)
(* servers in split mode, copy the files of the pointer they read into a   *)
(* local directory, one by one, while all this goes on.                    *)
(*                                                                         *)
(* One writer is the deployment the documentation asks for; Writers is a   *)
(* parameter because the code says what it does when there are two.        *)
(***************************************************************************)
EXTENDS Integers, FiniteSets

CONSTANTS
    Writers,        \* indexer processes
    Readers,        \* followers
    Segs,           \* names of segment files (uuids, never used twice)
    Grace,          \* the grace period, in ticks of the clock
    MaxPublish,     \* assumption: the ticks one publication takes at most
    MaxTime,        \* bound: the clock
    MaxGen,         \* bound: generations
    MaxFaults       \* bound: crashes and failed calls

ASSUME SegmentAssumption ==
    /\ {Grace, MaxPublish, MaxTime, MaxGen, MaxFaults} \subseteq Nat

Never == -1

VARIABLES
    \* The bucket.
    now,            \* the clock of the bucket and of the processes
    object,         \* segment -> its LastModified, Never when it is not there
    pointer,        \* meta.json
    lastRef,        \* history: when a pointer in the bucket last named a segment
    \* The indexers.
    wpc,            \* the next call of Publish or SweepOrphans
    wanted,         \* the files of the last commit, in the index directory
    localGen,       \* Generation of drive-state.json, Never without a directory
    draft,          \* the locals of Publish
    own,            \* the pointer Publish returned
    \* The followers.
    rpc, target, dir, localMeta, served,
    faults          \* injected so far

bucketVars == <<object, pointer, lastRef>>
writerVars == <<wpc, wanted, localGen, draft, own>>
readerVars == <<rpc, target, dir, localMeta, served>>
vars == <<now, bucketVars, writerVars, readerVars, faults>>

NotRetired == [s \in Segs |-> Never]
NoPointer  == [gen |-> 0, files |-> {}, retired |-> NotRetired]
NoDraft    == [start |-> 0, prev |-> NoPointer, upload |-> {}, expired |-> {},
               deleted |-> {}]

Present == {s \in Segs : object[s] # Never}

Fault == faults < MaxFaults /\ faults' = faults + 1

Init ==
    /\ now = 0
    /\ object = NotRetired /\ pointer = NoPointer /\ lastRef = NotRetired
    /\ wpc = [w \in Writers |-> "down"] /\ wanted = [w \in Writers |-> {}]
    /\ localGen = [w \in Writers |-> Never]
    /\ draft = [w \in Writers |-> NoDraft] /\ own = [w \in Writers |-> NoPointer]
    /\ rpc = [r \in Readers |-> "idle"] /\ target = [r \in Readers |-> NoPointer]
    /\ dir = [r \in Readers |-> {}] /\ localMeta = [r \in Readers |-> {}]
    /\ served = [r \in Readers |-> NoPointer]
    /\ faults = 0

Publishing == {"upload", "delete", "put"}

\* Time passes; how slow a publication may be is the assumption MaxPublish.
Tick ==
    /\ now < MaxTime
    /\ \A w \in Writers : wpc[w] \in Publishing => now - draft[w].start < MaxPublish
    /\ now' = now + 1
    /\ UNCHANGED <<bucketVars, writerVars, readerVars, faults>>

(***************************************************************************)
(* The index of a writer between two publications.                         *)
(***************************************************************************)

\* Names some process already gave to a segment.
Taken == Present \cup (UNION {wanted[w] : w \in Writers}) \cup pointer.files
           \cup {s \in Segs : lastRef[s] # Never}

\* A commit writes a new segment; merges and deletions drop old ones.
Commit(w) ==
    /\ wpc[w] = "idle"
    /\ \E s \in Segs \ Taken, kept \in SUBSET wanted[w] :
         wanted' = [wanted EXCEPT ![w] = kept \cup {s}]
    /\ UNCHANGED <<now, bucketVars, wpc, localGen, draft, own, readerVars, faults>>

\* Start: adopt the published files when the directory is gone or of another
\* generation, which fails when one of them cannot be fetched; else go on.
Restart(w) ==
    /\ wpc[w] = "down"
    /\ IF pointer.gen # 0 /\ localGen[w] # pointer.gen
         THEN /\ pointer.files \subseteq Present
              /\ wanted' = [wanted EXCEPT ![w] = pointer.files]
              /\ localGen' = [localGen EXCEPT ![w] = pointer.gen]
         ELSE /\ localGen' = [localGen EXCEPT ![w] = IF @ = Never THEN 0 ELSE @]
              /\ UNCHANGED wanted
    /\ wpc' = [wpc EXCEPT ![w] = "idle"]
    /\ UNCHANGED <<now, bucketVars, draft, own, readerVars, faults>>

Crash(w) ==
    /\ wpc[w] # "down"
    /\ Fault
    /\ wpc' = [wpc EXCEPT ![w] = "down"]
    /\ draft' = [draft EXCEPT ![w] = NoDraft] /\ own' = [own EXCEPT ![w] = NoPointer]
    /\ \/ UNCHANGED <<wanted, localGen>>
       \/ \* with the disk
          /\ wanted' = [wanted EXCEPT ![w] = {}]
          /\ localGen' = [localGen EXCEPT ![w] = Never]
    /\ UNCHANGED <<now, bucketVars, readerVars>>

(***************************************************************************)
(* Publish.                                                                *)
(***************************************************************************)

\* The retired files a publication that starts at `start` deletes.
Expired(prev, files, start) ==
    {s \in Segs \ files : prev.retired[s] # Never /\ start - prev.retired[s] >= Grace}

\* HeadPointer and, when the tag is not the one of the cached pointer,
\* ReadPointer: the base is the pointer in the bucket.  The clock is read here.
PublishBegin(w) ==
    /\ wpc[w] = "idle" /\ pointer.gen < MaxGen
    /\ draft' = [draft EXCEPT ![w] =
                    [start   |-> now,
                     prev    |-> pointer,
                     upload  |-> wanted[w] \ pointer.files,
                     expired |-> Expired(pointer, wanted[w], now),
                     deleted |-> {}]]
    /\ wpc' = [wpc EXCEPT ![w] = "upload"]
    /\ UNCHANGED <<now, bucketVars, wanted, localGen, own, readerVars, faults>>

\* An error of an upload or of the pointer ends the publication.
Abandon(w) ==
    /\ Fault
    /\ wpc' = [wpc EXCEPT ![w] = "idle"]
    /\ draft' = [draft EXCEPT ![w] = NoDraft]

Upload(w) ==
    /\ wpc[w] = "upload"
    /\ \/ \E s \in draft[w].upload :
            /\ object' = [object EXCEPT ![s] = now]
            /\ \/ /\ draft' = [draft EXCEPT ![w].upload = @ \ {s}]
                  /\ UNCHANGED <<wpc, faults>>
               \/ Abandon(w)        \* stored, but the answer was an error
       \/ /\ draft[w].upload # {} /\ Abandon(w) /\ UNCHANGED object
       \/ /\ draft[w].upload = {}
          /\ wpc' = [wpc EXCEPT ![w] = "delete"]
          /\ UNCHANGED <<object, draft, faults>>
    /\ UNCHANGED <<now, pointer, lastRef, wanted, localGen, own, readerVars>>

\* A failed delete leaves the file on the list of retired files.
DeleteExpired(w) ==
    /\ wpc[w] = "delete"
    /\ \/ \E s \in draft[w].expired :
            \/ /\ object' = [object EXCEPT ![s] = Never]
               /\ draft' = [draft EXCEPT ![w].expired = @ \ {s},
                                         ![w].deleted = @ \cup {s}]
               /\ UNCHANGED <<wpc, faults>>
            \/ /\ Fault
               /\ draft' = [draft EXCEPT ![w].expired = @ \ {s}]
               /\ UNCHANGED <<object, wpc>>
       \/ /\ draft[w].expired = {}
          /\ wpc' = [wpc EXCEPT ![w] = "put"]
          /\ UNCHANGED <<object, draft, faults>>
    /\ UNCHANGED <<now, pointer, lastRef, wanted, localGen, own, readerVars>>

\* Variant: files that are no longer named are not recorded.
RetiredBy_NotRecorded(d, files) ==
    [s \in Segs |-> IF s \in files \cup d.deleted THEN Never ELSE d.prev.retired[s]]

\* Variant: only the newly retired files are written.
RetiredBy_NewOnly(d, files) == [s \in d.prev.files \ files |-> d.start]

\* What the new pointer says of the files the previous one named or retired.
RetiredBy(d, files) ==
    [s \in Segs |->
        IF s \in files THEN Never
        ELSE IF s \in d.prev.files THEN d.start
        ELSE IF s \in d.deleted THEN Never
        ELSE d.prev.retired[s]]

\* Variant: the generation continues from the pointer in memory.
NewPointer_OwnGeneration(w) ==
    [gen     |-> own[w].gen + 1,
     files   |-> wanted[w],
     retired |-> RetiredBy(draft[w], wanted[w])]

NewPointer(w) ==
    [gen     |-> draft[w].prev.gen + 1,
     files   |-> wanted[w],
     retired |-> RetiredBy(draft[w], wanted[w])]

\* The pointer is replaced; what it named until now was named until now.
ReplacePointer(p) ==
    /\ pointer' = p
    /\ lastRef' = [s \in Segs |-> IF s \in pointer.files THEN now ELSE lastRef[s]]

PutPointer(w) ==
    /\ wpc[w] = "put"
    /\ \/ /\ ReplacePointer(NewPointer(w))
          /\ own' = [own EXCEPT ![w] = NewPointer(w)]
          /\ wpc' = [wpc EXCEPT ![w] = "save"]
          /\ draft' = [draft EXCEPT ![w] = NoDraft]
          /\ UNCHANGED faults
       \/ \* The PUT fails, whether or not the bucket stored the pointer.
          /\ \/ ReplacePointer(NewPointer(w))
             \/ UNCHANGED <<pointer, lastRef>>
          /\ Abandon(w) /\ UNCHANGED own
    /\ UNCHANGED <<now, object, wanted, localGen, readerVars>>

\* Variant: only the retired files are known to the sweep.
Unknown_Named(p) == {s \in Present : p.retired[s] = Never}

\* The listed segment files the pointer neither names nor retires.
Unknown(p) == {s \in Present : s \notin p.files /\ p.retired[s] = Never}

\* saveState, then the listing of SweepOrphans.
SaveGeneration(w) ==
    /\ wpc[w] = "save"
    /\ localGen' = [localGen EXCEPT ![w] = own[w].gen]
    /\ draft' = [draft EXCEPT ![w].expired = Unknown(own[w])]
    /\ wpc' = [wpc EXCEPT ![w] = "sweep"]
    /\ UNCHANGED <<now, bucketVars, wanted, own, readerVars, faults>>

\* HeadObject and DeleteObject of one listed file; an error ends the sweep.
SweepOrphans(w) ==
    /\ wpc[w] = "sweep"
    /\ \/ \E s \in draft[w].expired :
            /\ object' = [object EXCEPT ![s] =
                            IF @ # Never /\ now - @ >= Grace THEN Never ELSE @]
            /\ draft' = [draft EXCEPT ![w].expired = @ \ {s}]
            /\ UNCHANGED <<wpc, faults>>
       \/ /\ draft[w].expired # {} /\ Abandon(w) /\ UNCHANGED object
       \/ /\ draft[w].expired = {}
          /\ wpc' = [wpc EXCEPT ![w] = "idle"]
          /\ UNCHANGED <<object, draft, faults>>
    /\ UNCHANGED <<now, pointer, lastRef, wanted, localGen, own, readerVars>>

(***************************************************************************)
(* The follower.                                                           *)
(***************************************************************************)

\* There is a pointer, and its tag is not the one of the pointer served.
Outdated(r) == pointer.gen # 0 /\ pointer # served[r]

\* HeadPointer, then ReadPointer.
ReadPointer(r) ==
    /\ rpc[r] = "idle" /\ Outdated(r)
    /\ target' = [target EXCEPT ![r] = pointer]
    /\ rpc' = [rpc EXCEPT ![r] = "fetch"]
    /\ UNCHANGED <<now, bucketVars, writerVars, dir, localMeta, served, faults>>

\* An error leaves everything for the next refresh.
RefreshFails(r) ==
    /\ target' = [target EXCEPT ![r] = NoPointer]
    /\ rpc' = [rpc EXCEPT ![r] = "idle"]

\* Download: one missing file after the other, then the local meta.json.
Download(r) ==
    /\ rpc[r] = "fetch"
    /\ \/ \E s \in target[r].files \ dir[r] :
            \/ /\ s \in Present
               /\ dir' = [dir EXCEPT ![r] = @ \cup {s}]
               /\ UNCHANGED <<rpc, target, localMeta, faults>>
            \/ /\ s \in Present => Fault
               /\ s \notin Present => UNCHANGED faults
               /\ RefreshFails(r)
               /\ UNCHANGED <<dir, localMeta>>
       \/ /\ target[r].files \subseteq dir[r]
          /\ localMeta' = [localMeta EXCEPT ![r] = target[r].files]
          /\ rpc' = [rpc EXCEPT ![r] = "reload"]
          /\ UNCHANGED <<dir, target, faults>>
    /\ UNCHANGED <<now, bucketVars, writerVars, served>>

\* Variant: the directory is pruned before the pointer is replaced.
Pruned_Before(r) == dir[r] \cap served[r].files

\* Prune by the new pointer.
Pruned(r) == dir[r] \cap target[r].files

\* Reload of the sidecar and refreshMetas, then Prune.
Reload(r) ==
    /\ rpc[r] = "reload"
    /\ \/ /\ served' = [served EXCEPT ![r] = target[r]]
          /\ dir' = [dir EXCEPT ![r] = Pruned(r)]
          /\ rpc' = [rpc EXCEPT ![r] = "idle"]
          /\ target' = [target EXCEPT ![r] = NoPointer]
          /\ UNCHANGED faults
       \/ /\ Fault /\ RefreshFails(r) /\ UNCHANGED <<served, dir>>
    /\ UNCHANGED <<now, bucketVars, writerVars, localMeta>>

\* The server is restarted, on its directory or on an empty one.
RestartReader(r) ==
    /\ Fault
    /\ RefreshFails(r)
    /\ served' = [served EXCEPT ![r] = NoPointer]
    /\ \/ UNCHANGED <<dir, localMeta>>
       \/ dir' = [dir EXCEPT ![r] = {}] /\ localMeta' = [localMeta EXCEPT ![r] = {}]
    /\ UNCHANGED <<now, bucketVars, writerVars>>

Publish(w) == \/ PublishBegin(w) \/ Upload(w) \/ DeleteExpired(w) \/ PutPointer(w)
              \/ SaveGeneration(w) \/ SweepOrphans(w)

Refresh(r) == ReadPointer(r) \/ Download(r) \/ Reload(r)

Next ==
    \/ Tick
    \/ \E w \in Writers : Commit(w) \/ Restart(w) \/ Crash(w) \/ Publish(w)
    \/ \E r \in Readers : Refresh(r) \/ RestartReader(r)

Spec == Init /\ [][Next]_vars

(***************************************************************************)
(* Properties.                                                             *)
(***************************************************************************)
Times    == Nat \cup {Never}
Pointers == [gen : Nat, files : SUBSET Segs, retired : [Segs -> Times]]
Drafts   == [start : Nat, prev : Pointers, upload : SUBSET Segs,
             expired : SUBSET Segs, deleted : SUBSET Segs]

\* Every variable stays in its range.
TypeOK ==
    /\ now \in Nat /\ object \in [Segs -> Times] /\ lastRef \in [Segs -> Times]
    /\ pointer \in Pointers
    /\ wpc \in [Writers -> {"down", "idle", "upload", "delete", "put", "save", "sweep"}]
    /\ wanted \in [Writers -> SUBSET Segs] /\ localGen \in [Writers -> Times]
    /\ draft \in [Writers -> Drafts] /\ own \in [Writers -> Pointers]
    /\ rpc \in [Readers -> {"idle", "fetch", "reload"}]
    /\ target \in [Readers -> Pointers] /\ served \in [Readers -> Pointers]
    /\ dir \in [Readers -> SUBSET Segs] /\ localMeta \in [Readers -> SUBSET Segs]
    /\ faults \in Nat

\* A reader never sees a pointer to a missing file: at every moment, whatever
\* uploads, deletes or pointer writes failed, were repeated or stored without an
\* answer, all the files the pointer in the bucket names are there.
PointerComplete == pointer.files \subseteq Present

\* A file stays in the bucket for Grace - MaxPublish after the last moment a
\* pointer named it: this is what a reader that has just read that pointer can
\* count on to fetch it.
GraceKept ==
    \A s \in Segs : lastRef[s] # Never /\ now - lastRef[s] < Grace - MaxPublish
                        => s \in Present

\* The index a follower opens is whole: every file of its local meta.json, and
\* of the pointer it says it serves, is in its directory, also after a refresh
\* that stopped half-way or a restart.
LocalIndexWhole ==
    \A r \in Readers : localMeta[r] \cup served[r].files \subseteq dir[r]

\* A follower does not go back to an older generation unless it restarts.
FollowerMovesForward ==
    [][\A r \in Readers : served'[r] # NoPointer => served'[r].gen >= served[r].gen]_served

===============================================================================
