# StreamUploader and StreamUploader Drive in TLA+

This directory specifies the stateful core of the repository in TLA+, checks it with TLC on small
instances and proves part of it with TLAPS. `PROJECT.json` is the machine-readable index: the
components, the runs, the source lines behind each definition, the mutants each property must
catch, the hazards and the theorems.

## 1. The system

Two programs live in this repository.

**StreamUploader** (`internal/server`) issues upload keys, takes one upload per key, inspects the
content, stores it in an S3 bucket, derives thumbnails, previews and text, and tells watchers.

**Drive** (`drive/`, `cmd/drive`) is a document store on such a bucket. Servers append one event
object per change to a journal under a time-ordered key (ULID). One *indexer* per tenant folds the
journal into a search index, per-file snapshots, an audit chain and a published copy of the index.
*Followers* (servers in split mode) download that copy. A server answers reads from its index plus
an *overlay*: the journal after the index key.

| part (source) | state | operations | hard because |
|---|---|---|---|
| journal (`drive/journal`) | event objects by key | `Append`, `ListAfter`, `ListRange` | PUTs land in another order than stamped |
| indexer (`drive/indexer`) | cursor, pending texts, meta cache, unpublished flag, cached chain head, state file | `Start`, adoption, `Rebuild`, `runOnceLocked`, `checkpoint`, `publishLocked` | eight external calls per run; crash or failure between any two |
| sidecar client (`drive/sidecar`) | process handle, documents not yet committed | `call`, `Upsert`, `Commit`, `Reset`, `Search` | the process dies; whoever calls next restarts it |
| meta cache and snapshots (`drive/meta`) | state of each file, `meta/{file}.json` | `Put`, `ReplaceAll`, `WriteSnapshot`, `LoadSnapshots` | written one by one, read meanwhile |
| audit chain (`drive/audit`) | `checkpoint-{n}.json` | `Head`, `Build`, `Append` | a PUT may be stored without an answer, then repeated |
| published index (`drive/snapshot/store.go`, `pointer.go`) | segment objects, `meta.json` with retired list and history | `Publish`, `SweepOrphans`, `Download`, `Prune` | readers fetch what later publications delete |
| follower (`drive/snapshot/follower.go`) | served pointer, local directory, meta cache | `Start`, `Refresh`, `refreshMetas` | skipped generations, refreshes that stop half-way |
| file handlers (`drive/server/files.go`, `overlay.go`) | overlay listing per tenant | register, patch, delete, restore, new version | nothing is locked; old listings; servers of different age |
| WORM policy (`drive/worm`) | none | `CheckUpdate` | must hold along every history |
| access log (`drive/server/access.go`) | recent reads | `shouldRecord`, `recordAccess` | the time taken before the mutex; remembered before written; full log |
| upload lifecycle (`internal/server/server.go`) | upload items in memory; markers, temporary and final objects | create, cancel, upload, cleanup loop | deadlines pass during calls; cleanup, cancel and a second upload meet an upload |
| derived assets (`server.go`, `document.go`) | asset status of an item, task markers, channels of sockets | schedule, run, broadcast, `watchUploads`, `waitUploads`, `waitAsyncTasks` | goroutines, clones of the item and markers in any order; bounded channels |
| shared keys (`server.go`) | a record and a marker per share | `createSharedKey`, `deleteSharedKey`, `deleteObjectAndShares`, `resolveSharedKey` | two objects per share, retried and failing deletions |
| checks of a body (`sanitizer.go`, `document.go`, `clamav.go`) | the staged object, pipes | prefix check, sanitization, virus scan, full scan, password check, copy | each stage decides by another name of the type; readers of a pipe stop early |
| archive guard (`archive_guard.go`) | one budget for all levels | `inspectArchiveObject` and the walks of zip, 7z, tar and streams | nesting, bombs |
| search and facets (`drive/server/search.go`) | none; reads index, key, overlay and cache | `search`, `facets` | the four are read one after the other while a run moves them |
| chain verification (`drive/audit/verify.go`) | none; reads the bucket | `Chain.Verify` | several changes together may cancel out |
| search process (`search/`, Rust), converters, S3 client, configuration, deployment, UI | outside | | |

The parts meet in the bucket. The journal is written by handlers and read by indexer and
overlays; snapshots and pointer are written by the indexer and read by followers; the local index
and the cache are shared by the indexer (or follower) and the handlers of one process; upload
items are shared by the handlers and the cleanup loop of one process, and the markers survive it.

What makes each part correct:

* indexer: nothing at or below the cursor is missing from the index or the cache; no text is
  forgotten; every event is chained exactly once, links intact; what is published is a fold of the
  journal, was chained first, and in the end is the whole journal;
* published index: the pointer never names a missing file, readers get their grace period, a local
  index is always whole;
* follower: its cache is never older than the pointer it serves, and it converges;
* handlers: clients see their own writes, edits build on the newest state, WORM files only gain;
* access log: one event per window; no read without an event, but in the window of a refused one;
* uploads: the item says what is stored, temporary objects have an owner, keys and markers end;
* derived assets: who waits is told ready only when everything is settled, everything settles, a
  watcher sees it;
* shared keys: deleting an object ends its shares and no others;
* checks: nothing is stored that a check would have refused under another name, nothing is cut,
  no goroutine waits for ever, the archive limits hold for the whole tree, metadata goes at every
  level and nothing else does;
* search: no older state than was journaled before the request; exact counts when nothing moves;
* verification: silence means that nothing was touched, findings are exactly the differences.

## 2. Modules and how they correspond to the code

`map` in `PROJECT.json` has the lines of every definition. A definition whose name ends in
`_Something` next to one without is a *variant*: a wrong form the properties must reject.

* **DriveJournal** – keys, events, listings, and folds of the journal (`Newest`, `DocOf`,
  `FoldTo`): the pure vocabulary of the indexer. A payload is reduced to its file and whether it
  is live; access events are chained but not indexed.
* **DriveIndexer** – one tenant's indexer with its bucket, index directory, process and sidecar.
  `pc` is the next external call: `RunBegin` (list, fold, upsert), `RunCommit`, `RunSnapshot` (one
  file at a time), `RunSave`, `RunCheckpoint`, `RunPublish`, `RunSaveGeneration`; `StartLocal`,
  `StartAdopt`, `AdoptState`, `StartRebuild` are the ways through `Start`; `RebuildLoad`,
  `RebuildCommit`, `RebuildSave` are `rebuildLocked`. `RunFails` and the unanswered branches of
  `PutCheckpoint` and `RunPublish` are failed calls, `Crash` loses the process, perhaps the disk.
  `Spec` is split mode; in `AllInOneSpec` the searches of a server use the same sidecar client.
  A digest is modelled by the checkpoint it is taken of.
* **PublishedIndex** – the abstract promise: the pointer moves from one fold of the journal to a
  later one, its generation up by one. DriveIndexer is shown to implement it (`PublishesAFold`,
  with `INSTANCE PublishedIndex`). A published generation may show the texts known when it was
  built.
* **SegmentStore** – the publication opened up: segment objects, uploads, retirement, deletes, the
  pointer PUT, the sweep; readers with their directory, download, reload and prune. `lastRef` is a
  history variable: the last moment a pointer named a segment.
* **MetaFollower** – the history in the pointer and the incremental refresh, against an indexer
  reduced to what it reports as changed. The files of a batch whose snapshots are still to be
  written are a set, written in the order of their first event (`FirstSeen`), as in the code.
* **FileEdits** – one file, several servers: resolve (key, listing, cache), edit, append,
  invalidate. Its environment is what the other modules establish: a server's cache is never
  behind its key (`StatesCoverCursor`, `CacheCoversPointer`), keys are stamped in landing order.
* **AccessLog** – a request takes its time (`Begin`), has its turn in `shouldRecord` (`Ask`, one step:
  it holds a mutex) and appends its event (`Record`). Others may have their turns between any two of
  these, so turns do not follow the times taken. `found` and `after` record the order of the turns.
* **UploadLifecycle** – one step per network call of `createUploadKey`, `cancelUploadKey`,
  `uploadFile` and `CleanupExpiredUploads`, over `item` (memory), `marker`, `temp` and `final`
  (bucket). Content is the request that sent it. Both deadlines are fixed at creation, so the age
  of the key in ticks decides them. Early refusals (`RefuseEarly`) leave the marker, as in the
  code. `crowded` is a history variable: keys that had two uploads at once.
* **UploadEvents** – the end of `uploadFile`: record (`Accept`), announce (`PutMarker`), run in line
  or in a goroutine (`RunInline`, `Spawn`, `Update`, `Tell`, `Unmark`), answer; sockets with a reader
  and a writer (`Watch`, `Deliver`, …); backends in `waitUploads` and `waitAsyncTasks`. Every holder
  of a clone of the item keeps its own (`held`), so that an old one may be broadcast late.
* **UploadFanout** – `putObjectWithSecurityScan`: the copy to the pipes of the S3 PUT, ClamAV and the
  thumbnail or full scan, chunk by chunk, each reader a goroutine. What the checks decide about the
  content is an input here; **Intake** is the same upload with the goroutines folded into stages and
  the decisions opened: every stage picks what it does from the declared type, the extension or the
  bytes, as the code does. `Free`, `Fits`, `SVGPasses`, … are what the sanitizers look for in a file.
* **ArchiveGuard** – the walk of an archive; the recursion of the code is `stack`. `WithinLimits`
  is the reference definition over the whole tree.
* **MediaSanitizer** – the walk over JPEG, PNG, WebP and MP4 parts, against `Stripped`,
  the reference: a recursive function over the tree of parts.
* **SharedKeys** – one step per storage call of creation, revocation and deletion. `orphaned`,
  `misread` and `revoked` are history variables: what a failed call left behind.
* **SearchOverlay** – one request (`AskIndex`, `ReadKey`, `ListOverlay`, `Answer`) against a run
  (`Commit`, `PutCache`, `SetLast`, `RunFails`) and the overlay it shares with other requests.
* **AuditVerify** – the Drive writes journal, originals and checkpoints, somebody changes them,
  `Verify` is evaluated in every state. `written` is a history variable.
* **MC…** – constants, symmetry and, for TLC's coverage, the actions one by one. **MCDriveServer**
  (FileEdits and an all-in-one DriveIndexer) and **MCRequests** (eight components) are unions: the
  components in them share no state, the variable `scene` says whose behaviour it is. The union keeps
  the number of instances small; it composes nothing. What the components of MCRequests are about
  (shares, uploads, policies, limits, …) are constants of MCRequests, as `MCSpec` is also what the
  proofs are about; **MCRequestInputs** defines the values that its configuration gives them.
* **SegmentStore_proofs**, **DriveIndexer_proofs** (types, the chain, the folds, texts and the
  refinement), **MetaFollower_proofs**, **FileEdits_proofs**, **DriveServer_proofs** (the two parts of
  MCDriveServer), **UploadLifecycle_proofs**, **UploadEvents_proofs** and **Requests_proofs** (six of
  the parts of MCRequests) – theorems and proofs, see section 5.

Every module with state defines `TypeOK`. The one of SegmentStore is in a run; those of the indexer,
the follower, the edits and the upload keys are proved; all of them hold (add `INVARIANT TypeOK` to
the configuration, or instantiate the module alone).

Reading of one object after its PUT is taken as consistent in all modules. Any PUT may fail
without effect or be stored without an answer where the caller goes on in memory.

## 3. Runs

| run | what it shows | bounds and why they are enough |
|---|---|---|
| `indexer_faults` | cursor, cache and chain through crashes, failed calls and reindexing | 2 interchangeable files without text; 3 events, batches of 2: a batch that holds a file twice, one that follows a failed one, an event behind the batch; three disturbances, so one may hit the recovery from another |
| `indexer_liveness` | refinement of PublishedIndex, growth of the chain, pending texts, convergence | 2 files, one with text, 2 events in batches of 1, 2 disturbances: a backlog after each |
| `indexer_reordered` (violation) | an event that lands late is never chained | 2 events suffice |
| `indexer_lostbuffer` (violation) | documents lost between upsert and commit | 1 event, 1 death |
| `store_faults` | published files, grace, local index | 3 segments, 3 generations: named, retired and pending at once; grace 2, publication up to 1, clock to 4: a segment may expire; 1 fault |
| `follower_refresh` | the follower's cache | history of 2 generations or 2 ids and 3 events: trimmed by either bound; 1 error, 1 crash or reindex |
| `drive_server` | edits of one file; publication after chaining while searches share the sidecar and rebuilds fail | edits: two servers and one request at a time in three WORM modes, or one server, two requests and reused listings; 3 events, 3 objects, 1 tag, 1 failed append or restart: register, edit, edit by the other. Indexer: 1 file with text, 2 events, 2 disturbances: a death and the restart by a search, or a failed rebuild |
| `edits_lostversion` (violation) | two versions at once, one disappears | 3 events |
| `uploads_deadlines` | upload keys | 1 key, 2 requests (both staged and accepted, one refused, or one direct), 1 cancel at a time, cleanup, 1 crash or failed call; start deadline before finish deadline |
| `upload_events` | derived assets, markers, watchers, wait calls | one upload; one socket with a channel of 1 (so that it overflows) and 2 questions, or one backend; each kind of task off, in line or in a goroutine, documents clear, protected or upfront; 1 failed call or crash |
| `requests` | the eight components of MCRequests | see below |
| `media_offsets` (violation) | chunk offsets of a video after metadata was removed before its data | boxes nested 3 deep (16 in the code): moov, trak, stbl |

The scenes of `requests`, with one failing call each where calls can fail:

| scene | properties | bounds |
|---|---|---|
| SharedKeys | `DeletionIsExact` | 2 shares, 2 objects, 2 deletions (a retry or the other object), 1 revocation, TTLs and clock of 1: a share may be past, not yet past, or endless |
| Intake | `StoredWasInspected`, `StoredWhole`, `ProtectedWasOpened` | 28 files (each family of kinds plain, active, with metadata, damaged, too large, protected, in disguise, with metadata the search does not find) under every declared type and extension that selects another check, known to `mimeFileTypes` or not, five configurations |
| UploadFanout | `ChecksDecide`, `AllEnd` | bodies of 0 to 3 chunks with a scan limit of 1, 2 failures: a reader may stop before, at and after the end of the body |
| ArchiveGuard | `VerdictIsRight` | depth 2, 5 entries, 3 bytes an entry, 5 in total, ratio 2, probe 2: each limit is met exactly and passed by one, also only by the sum over levels |
| MediaSanitizer | `OnlyMetadataGone` | up to 3 parts of a picture, boxes down to stbl, damaged parts anywhere |
| SearchOverlay | `ShownIsCurrent`, `QuietExact` | 2 files, 2 events, pages of 2; a folder, a folder with its subfolders, a text |
| AccessLog | `ReadsAreRecorded` | 3 reads (symmetric) of 2 objects, window 2, clock to 4, a log that is full with one entry (10000 in the code): expired entries are dropped at the second turn, 1 failed append |
| AuditVerify | `VerifyIsExact` | 3 keys, 2 changes: an event and its leaf, or a checkpoint and its successor |

Deadlock is not checked where behaviours stop at a bound (keys, clock, faults); the upload model
never stops, as its cleanup loop does not, and is checked for deadlock.

Limits met while choosing bounds, all of them behaviour of the code:

* *Torn snapshots.* With `MaxEventsPerRun` 3 and a batch f1, f2, f1 the snapshot of f1 carries an
  event newer than that of f2. A crash between the two snapshot writes, loss of the index, and a
  rebuild then take a cursor above the event of f2. `IndexCoversCursor` is violated there; runs
  keep batches of 2, where it holds.
* *Half rebuild.* A rebuild that fails after `Reset` goes on with the old cursor over an empty
  index. Only `drive_server` admits it, for a property that does not depend on the index.
* *Growth of the chain.* After an unanswered checkpoint PUT followed by a reindex, the repeated
  PUT of that number may hold fewer events. `ChainGrows` is checked and proved without reindexing;
  `ChainExact` also with it.
* *Snapshots written over newer ones.* A process that adopts an older published generation after it
  lost its disk folds the same events again, and `WriteSnapshot` overwrites what is newer. Together
  with a second loss this too may leave torn snapshots.
* *Deleted pointer.* Generations start over at 1 and a follower compares numbers. Deletion is an
  operator's act and not modelled; nothing is republished until the next event either. Nor is a
  pointer PUT modelled that lands after a later one.
* *Two indexers.* Continuing from the same pointer, one can delete what the other names. The code
  calls this a deployment error; `OneWriter` is the assumption of the proofs.
* *Overlay bound.* Beyond `MaxOverlay` unfolded events the newest are not seen by their writer.
* *Slow creation.* A creation slower than the start timeout can be cleaned up before its item
  exists; the item then waits until a restart. `Tick` bounds the duration of a creation.
* *Several uploads of a key at once* share one temporary object. `UploadedIsRecorded` and
  `UploadedStays` are about keys without overlapping uploads; the others are about all keys.
* *Failed deletes.* `TempAccounted` is about behaviours without faults: the code ignores the
  result of the delete and then removes the marker that names the object.
* *Wait calls.* A failed HEAD of a marker counts as absent, and a failed PUT of one is only logged:
  `ReadyMeansSettled` is about waiters no such failure misled. The wait for documents looks neither
  at the preview status nor at the processing mode. Markers survive a crash for ever.
* *Broadcasts.* The last message of a task may carry a clone that is older than one sent before, and
  a socket whose channel is full loses messages; `SettledIsSeen` asks that the settled state was
  among those sent.
* *Shares.* `deleteSharesForObject` goes by the listing of a directory. A marker it cannot read makes
  it delete a share of another object (`misread`), though `src/.knowledge` speaks of "markers
  matching target object"; after a failed record delete the retry finds no marker, answers 204 and
  leaves the record (`orphaned`). Expiry times in the past are not enumerated.
* *Early readers.* A reader that closes its pipe makes the copy fail with `ErrClosedPipe`, which is
  reported before its own verdict: an infected body may be answered as a storage error. It is
  refused all the same.
* *Archives.* Duplicate names are not looked for in tar files, a tar.gz has no ratio limit, and a
  `.gz` not named `.tar.gz` is only counted. `WithinLimits` says the same.
* *Checks by name.* A type whose configured mode belongs to another class of checks falls through
  uninspected. `mimeFileTypes` (config.go:1216–1294) has no type for `.mp4` or `.doc`, so any content
  passes under them (server.go:2234–2237): with `per_file_type` set to `mp4: sanitize_metadata` an
  active HTML body named `x.mp4` is stored uninspected, as its mode acts on no text
  (sanitizer.go:115–123). `StoredWasInspected` leaves out texts and pictures for which such a foreign
  extension sets a mode of another class (`ForeignMode`), and nothing else under those extensions.
* *Searches for metadata.* `reject_on_sensitive_metadata` finds no metadata in an invalid PNG
  (sanitizer.go:653–656) or behind the fill bytes of a JPEG (565–593): such a picture is stored with
  it (`Found`), and `StoredWasInspected` says so. Of a video the whole body is searched for short
  names (388–399), so that one without metadata is refused when `gps` or `meta` occurs in its media
  data or in a handler box (`"marked"`): a video that the sanitizer has cleaned need not pass the
  search, and nothing is claimed of that.
* *Reads.* The log remembers a read before its event is written and does not forget it when the write
  fails: the retry of a refused read, within the window, is served with no event. The comment of
  `recordAccess` (access.go:63–64) asks for the event "before any bytes"; `EveryReadAccounted` states
  what is kept, that only reads in the window of a refused one are served so (`Missed`). The time is
  taken before the mutex: a request that took a later one may clear a full log of an entry, and one
  with an earlier time that has its turn afterwards is recorded although its time is within the
  window. `OneEventPerWindow` allows for that request (`found = "full"`) and for no other reason.
* *Documents.* `src/README.md` says that OpenDocument is refused; the code inspects and stores it.
  XHTML, CSV, drawio, EPUB, Parquet, Visio, PSD and AI files are left out; the contents of an OLE
  file have no visible traits. JPEG orientation goes with APP1 although the policy keeps it.
* *Search.* A file renamed but not folded yet is hidden from text searches; later pages do not look
  at the overlay; a hit the index still has may be counted though deleted; facet counts are wrong
  after a run failed behind its commit, until the next one; an edit may be missed by a search while
  a run moves the index, though `src/README.md` says that edits are visible at once. `QuietExact` is
  therefore about listings, first pages and moments without a run.
* *Verification.* A truncated chain, or its last checkpoint rewritten consistently, cannot be seen
  by design: `SilenceIsProof` is about an authentic last checkpoint. A late event below the last
  checkpoint is reported as `extra_event`, although nobody tampered with it. In the model the Drive
  writes no further checkpoint once somebody has changed something.

## 4. Fairness

* DriveIndexer: weak fairness of start, of rebuilds and of runs. `RunLoop` begins a run at every
  interval, a supervisor restarts the process, and each call returns (with or without an error).
  Nothing is assumed of writers, of text extraction or of failures; these are finite by bound.
* MetaFollower: weak fairness of the two loops, both driven by tickers.
* UploadLifecycle: time passes, started handlers run to their end, and `runCleanupLoop` (mode
  `server_loop`) keeps turning. Nobody has to create, upload or cancel. A CLI cleanup has no items
  in memory and would leave them waiting; it is not modelled.
* UploadEvents: weak fairness of the handler, of the task goroutines and of the writer goroutine of
  each socket. Clients and backends owe nothing; a socket may stop reading or leave.
* The other modules state safety only.

## 5. Proofs

A theorem here is for every value of the constants a module's assumption allows (`SegmentAssumption`,
`JournalAssumption` and `IndexerAssumption`, `FollowerAssumption`, `EditsAssumption`,
`UploadAssumption`, `EventsAssumption`, `RequestsAssumption`): any files, followers, servers,
requests, keys, shares, waiters and sockets, any length of the journal or of a body, any batch size
and any number of failures. Every inductive
invariant was first checked by TLC, on instances as large as those of section 3 or larger; some of
the larger searches (uploads, follower, edits) were stopped after up to twenty million states, with
no violation found.

**SegmentStore_proofs**

* `TypeCorrect`: `Spec => []TypeOK`.
* `PointerAlwaysComplete`: with `OneWriter`, `Spec => []PointerComplete`. The property is not
  inductive: a delete is harmless only because what the publication expires is not named by the
  pointer in the bucket *or* by the one being prepared, whichever is current after an unanswered
  PUT. `CompleteInv` adds that: the locals of a publication still describe the pointer it began
  from (`PublicationSafe`), uploads precede deletes (`UploadsDone`), a sweep spares what its
  pointer names (`SweepSafe`), and no named file is on the retired list (`NamedNotRetired`).
* `GracePeriodKept`: with `OneWriter`, `Spec => []GraceKept`. `GraceInv` adds when a file was
  retired: not before it was last named, less the time a publication takes (`GracePending`,
  `OldEnough`), and that what a publication deletes was retired at least `Grace` before it began
  (`GraceWriter`). That a publication takes at most `MaxPublish` is part of the model (`Tick`).
* `LocalIndexAlwaysWhole`: for any number of writers, whatever they delete. `WholeInv` says what each
  step of a download has brought, for the pointer that is served and for the one on disk.
* `FollowerNeverFallsBack`: with `OneWriter`. Needs that the generation in the bucket only grows and
  that no refresh holds one above it.

**DriveIndexer_proofs**, the chain, for `Spec` and `AllInOneSpec`

* `TypesCorrect`: `TypeOK`, with the chain and the head in range.
* `ChainAlwaysExact`, `PublicationsAreChained`: with `InOrder` (events land in key order; without it
  the run `indexer_reordered` refutes the property). The argument is about intervals: the journal is
  `1..Top`, a run lists the interval after its cursor (`RunIsInterval`), each checkpoint is the
  interval between two ends (`Linked`), and a cached head is that of the last checkpoint or of the
  one before, when a PUT was stored and reported failed (`IsHead`). `LinkedIsExact` then says that
  linked intervals cover every event once. Nothing is assumed of failures, deaths or rebuilds.
* `StoredChainGrows`: also without `"rebuild"` among the disturbances; TLC refutes it with.
  `HeadCatchesUp` is what it adds: the cursor covers a checkpoint the head does not know of.

**DriveIndexer_proofs**, the folds, for `Spec`

* `IndexNeverBehind`, `StatesNeverBehind`, `TextNeverForgotten`, and the refinement
  `PublishesTheFold` (`Spec` implements `PublishedIndex!Spec`: initial states to initial states, each
  step to a publication or a stutter). They assume `InOrder`; `RebuildsEnd` (a reindex of a live
  process does not fail half-way and its sidecar does not die); and `[]SnapshotsWhole` (whenever a
  rebuild loads the snapshots, no file misses a state at or before the newest of them). Section 3
  gives the behaviours of the code that break the last two, *half rebuild* and *torn snapshots*; TLC
  finds the properties violated in each. In the all-in-one server they do not hold at all: run
  `indexer_lostbuffer`.
* The invariant `FoldInv` relates each cursor to each copy, file by file: what is on disk or in the
  bucket is good to start from (`DirectoryCovers`, `PointerCovers`), a process has the effect of all
  up to its cursor in the index, the cache and the snapshots (`ProcessCovers`), and a run or a
  rebuild has in its hands what takes it to the cursor it will set (`RunCovers`, `RebuildCovers`).
  `NoStateBetween` is the part that is easily missed: a cursor behind the pointer is harmless only
  when no file event lies between them. `TextInv` says where a file without its text is remembered.
* `NeverKilledKeepsUp`: the four properties from `InOrder` alone when the process is neither killed
  nor asked for a reindex nor upgraded, whatever calls fail and however often the sidecar dies: then
  no rebuild ever finds a snapshot.

**MetaFollower_proofs**

* `TypesCorrect` and `HistoryAlwaysUnbroken` assume nothing.
* `CacheAlwaysCovers`: `Spec /\ [][RebuildsWhole]_vars => []CacheCoversPointer`. `RebuildsWhole` is
  the same assumption about snapshots; with batches of three TLC refutes the property without it.
  `CacheCoversWithDisk` needs nothing of the snapshots when the indexer keeps its directory and is
  not asked for a reindex. The invariant says, of the history, that the ids of the generations
  after the one a follower serves name the file of every event between the two (`Tells`); of the
  indexer, that what it has still to publish names every event after the pointer (`ProcessInv`);
  and of a refresh, that its copy misses only files it has still to read (`FollowerInv`).

**FileEdits_proofs** and **DriveServer_proofs**

* `ReadsFollowIndex` assumes nothing: an answer is never older than the index key the request began
  with, also beyond the overlay bound.
* `ReadsOwnWrites`, `EditsFollowEachOther`, `FilesWrittenOnce` assume `[]ListingsFit`: the events a
  request lists are at most `MaxOverlay`. Section 3, *overlay bound*, is why. The last two are about
  deployments that serve one request at a time and keep no listing (`TurnsUnbuffered`); the mode that
  lets tags be added is write-once only there (`AdditionsInTurn`), the strict one under any overlap.
  `Answered` says that everything a server answered for is in its listing or below its index; `Turns`
  that one request in turn has resolved the newest state.
* `ServerReadsCurrent`, `ServerEditsFollow`, `ServerWritesOnce` are the same for the specification
  that TLC runs, `MCSpec`; its deployments satisfy both assumptions (`InstanceFits`).
* `ServerPublishesChained`: the theory of DriveIndexer_proofs instantiated at the constants of
  `MCSpec`, whose searches share the sidecar and whose rebuilds fail; it assumes nothing.

**UploadLifecycle_proofs**, with nothing assumed of the behaviour

* `TypesCorrect`; `TemporaryAccounted`, by a stronger fact than the property: until a call fails, a
  temporary object has an *upload* between its PUT and its deletion (`Held`). The alternative
  that the property also admits, a marker that is still at `temp`, is never needed before a call
  fails.
* `UploadsAreRecorded`: a key without overlapping uploads has one upload at a time (`Alone`), its
  creation is over (`Created`), and what that upload found at each step is what is stored (`Known`).
* `UploadedStaysUploaded`: an action property, from the same invariant.

**UploadEvents_proofs**, with nothing assumed of the behaviour

* `WaitersAreRight`: `Spec => []ReadyMeansSettled`. The property relates a waiter's last look at the
  bucket to the item; what connects them is spread over the handler and the tasks. `Inv` says which
  tasks have had their turn (`Planned`), what each has still to settle at every step (`Left`,
  `Settling`: exactly the pending assets it owns), that a goroutine has its markers from before its
  start (`Announced`) until its last asset is settled (`Marked`), but for those whose PUT was lost,
  and what a waiter has already looked for in vain (`Seen`).
* `SettledOnce`, an action property, and `GeneratedAssetsExist`, from the same invariant: the three
  goroutines and the handler change only what is pending, and only after the PUT.
* `SocketsAreToldTheTruth`: a message is a copy of the item taken under the lock and sent later by
  whoever took it; `News` says that no copy, held or queued, calls an asset generated that is not
  stored. `TypesCorrect` needs both invariants.

**Requests_proofs**, for `MCSpec` of MCRequests, each about the scene of one component, with nothing
assumed of the behaviour: the properties of run `requests`, for any number of shares, deletions,
revocations, chunks, reads, files, events and checkpoints, any limits and any number of failures.

* `DeletionsAlwaysExact`. `ShareInv` says what ties a deletion to the shares it must end: one that can
  be used has a marker by which a deletion finds it, or a deletion has just taken that marker and
  has its record in hand (`Findable`); while a deletion runs, a share older than it that still has a
  record is on its list, or in its hand, or in the hand of another deletion (`InHand`). Without the
  second deletion in `Taken` this is not inductive: two deletions of one object divide the markers
  between them. `Kept` is the other direction: what no deletion of its object and no revocation
  has touched is stored, record and marker, and is in nobody's hand. Shares that a failed or misread
  call left behind are named by the history variables, as in the property.
* `ChecksAlwaysDecide`, for bodies and scan limits of any length. `Flowing` counts chunks: the PUT
  has taken what the copy sent, one more while a chunk is between two pipes, and the pipes end in
  the way the copy did. So an object under either key is whole (`Whole`), and a staged one is copied
  only after every verdict was waited for (`Waited`). `Undisturbed` is what makes refusals of a body
  without faults the verdict of a check: only a full scan that rejects ever breaks a pipe.
* `UploadsAlwaysWhole`, `ProtectedAlwaysOpened` and `StoredAlwaysInspected`. Each stage of Intake picks
  its check from the declared type, the extension or the bytes; the property is about the bytes.
  `Believed` says that the type that was believed and the prefix agree, `Sanitized`, `Held` and
  `Inspected` what the body has passed at each stage under its names, and `NamesAgree` that the
  names under which a check is picked leave the class of the bytes no way around it. The proof of the
  last theorem goes through the classes one by one. It assumes that the modes fit (`ModesFit`):
  `per_file_type` takes any mode for any name, and a mode that belongs to another class turns a check
  off. `ModesFit` asks nothing of the modes set for extensions without a type of their own; the
  statement itself names what these let by, and the metadata the search does not find (section 3,
  *checks by name* and *searches for metadata*). Of PDF, Office and OpenDocument files it has no
  exception: these are scanned by their type under every mode but `accept_as_is`.
  `ModesAssumption` has TLC confirm it of the policies of the run.
* `ShownAlwaysCurrent`. `Folded`: the cache holds what the overlay no longer lists, whatever a run has
  committed, and the cached overlay never begins behind the index key. `ShownFromOverlay`: what is shown
  is as new as the overlay used, and that one reaches the beginning of the request.
* `QuietAlwaysExact`, from the same invariant. The index counts hits without those the overlay changed,
  then each changed file is taken out by its old state and put in by its new one. `StandsStill` says
  that index, cache and the fold agree while no run moves them, `StillFound` that the numbers a
  request carries are cardinalities of sets in that index, and `Exchanged` that such a count, less the
  files that went and plus those that came, is the cardinality of the new set; this holds for the total
  and for every facet.
* `ReadsAlwaysRecorded`. Times say nothing about the order of turns, so `AccessInv` goes by the turns:
  a request the log told to record itself (`Opener`) has its event, is writing it or was refused
  (`Turns`); one it kept quiet is in the window of an opener (`QuietIsOpened`), because every entry is
  the time of one (`EntriesAreOpeners`). Of every opener the log still has its time or a later one,
  or it was cleared of it by a later request that came a window after it (`NotForgotten`, `Cleared`);
  so of two openers of one key the later came a window after the earlier, or such a request came
  between them (`Spaced`).
* `VerificationAlwaysExact`, for any number of events and of changes made together. Of what was written
  `AuditInv` says that each checkpoint is built over the events after the one before (`Built`) and that
  the spans of keys they cover follow each other without a gap (`Tiled`); of the bucket only that
  nobody adds a checkpoint or gives one another number (`Remains`) – everything else may have changed.
  Silence: at the greatest number at which the chain differs from what was written, the checkpoint
  after it names another predecessor, which is reported; so if the newest checkpoint is as written all
  are (`SilenceProves`). Exactness: in checkpoints as written the leaves of the walk ascend over all
  spans, so that each is accepted (`AsWritten`), the covered keys are the recorded ones, and what is
  found missing, modified or extra is what differs (`VerifyFinds`). The walk over the leaves is stated
  by its places (`Walk`, `Accepted`): a leaf is accepted if its key is above those of all leaves
  before it, which is what comparing it with the last accepted one amounts to.

The invariants of this module were checked by TLC over all states of the run.

Assumptions of a constant that were added for the proofs: `None` is neither a key nor a request nor
a number in UploadLifecycle, there is a server and the slots are finite in FileEdits; in
UploadEvents `None` is no item and there is a kind of text to extract, as without one no text is
scheduled (`ShouldSchedule`, extraction.go:418); in MCRequests `None` is no share, object, body or kind of
document, limits are numbers and files are numbered. Where a proof
needs the least or the greatest of a set of numbers it goes through the well-foundedness of finite
sets (`LeastExists`), as induction over data is out of the prover's reach.

*Only model-checked*:

* all liveness (`TasksSettle` and `SettledIsSeen` among it), and `AllEnd`, which is about ENABLED;
* `VerdictIsRight`: its reference sums sizes over a tree of entries, so that its proof is an induction
  over data; and `OnlyMetadataGone`, whose reference is recursive in the parts;
* folds and texts of the all-in-one indexer, which do not hold in general, and the behaviour of torn
  snapshots and half rebuilds.

## 6. Not modelled

* The conversions themselves: thumbnails, previews, text and metadata extraction. Their scheduling
  and outcome are in UploadEvents.
* The parsers of SVG, markup, PDF and Office files; what they find is a trait of a file in Intake.
* tantivy, tokenizers and ranking; the S3 client (retries, signatures, delayed PUTs).
* Reads: downloads, byte ranges, presigned URLs, the audit export. `streamZipArchive` among them:
  when a `GetObject` fails in the middle its deferred `Close` still ends the file as a valid zip.
* Configuration, command lines, the deployment generator, browser code and the demo.
* Names, authors and locations under WORM: they follow the rule of the tags. Unreadable objects in
  Verify. The schema check of a follower's pointer.

## 7. Plan

1. *Done*: indexer, published index, follower, edits, access log, upload lifecycle; proofs of the
   published index.
2. *Done*: derived assets with their markers and watchers, shared keys, the checks of uploads with
   their goroutines, archives and media, search and facets, verification of the chain.
3. *Done*: proofs of the indexer with the refinement of PublishedIndex, of the follower, of the edits
   and the all-in-one server, of the upload keys and of the derived assets with their waiters.
4. *Done*: proofs of the parts of MCRequests that are not inductions over data: shares, the copy and
   the decisions of the checks, searches, recorded reads, verification of the chain.
5. *Left*: torn snapshots, which want a cursor per snapshot before they can be more than an
   assumption; the parsers of Intake.
