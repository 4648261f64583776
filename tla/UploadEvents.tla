----------------------------- MODULE UploadEvents -----------------------------
(***************************************************************************)
(* What follows an accepted upload (internal/server server.go,             *)
(* document.go): the handler records the item, schedules the derived       *)
(* assets, in line or in goroutines announced by task markers in the       *)
(* bucket, and answers.  Every update is broadcast to the watching         *)
(* sockets; backends wait for the markers to vanish.  One upload.          *)
(***************************************************************************)
EXTENDS Integers, Sequences, FiniteSets

CONSTANTS
    Setups,         \* uploads and configurations, see SetupShape
    TextKinds,      \* TaskKindsForContentType of a file that is no document
    Sockets,        \* watching WebSockets
    Waiters,        \* requests of the backend that wait for tasks
    Capacity,       \* of the channel between a socket's reader and writer
    MaxAsks,        \* bound: client messages per socket
    MaxFaults,      \* bound: crashes and failed storage calls
    None

Assets == {"thumb", "text", "preview"}
Kinds == {"image_thumbnail", "text_extraction", "metadata_extraction", "document_preview"}
Tasks == {"thumb", "text", "doc"}

Modes == {"off", "sequential", "async"}
SetupShape ==
    [doc : {"no", "clear", "protected"}, upfront : BOOLEAN,
     mode : [Tasks -> Modes]]

Statuses == {"none", "pending", "locked", "generated", "skipped", "failed"}
Items == [uploaded : BOOLEAN, asset : [Assets -> Statuses]]

\* A text is only scheduled when there is a kind to extract (ShouldSchedule).
ASSUME EventsAssumption ==
    /\ Setups \subseteq SetupShape
    /\ TextKinds \subseteq Kinds \ {"image_thumbnail", "document_preview"} /\ TextKinds # {}
    /\ Capacity \in Nat \ {0} /\ {MaxAsks, MaxFaults} \subseteq Nat
    /\ None \notin Items

VARIABLES
    setup,      \* the upload and its configuration; never changes
    item,       \* the UploadItem: uploaded or not, status of each asset
    markers,    \* the bucket: task markers
    stored,     \* the bucket: derived objects
    handler,    \* uploadFile from the moment the object is stored
    task,       \* finishThumbnailUpload, finishTextExtraction, runDocument
    socket,     \* watchUploads: registration, channel and both goroutines
    waiter,     \* waitAsyncTasks ("tasks") and getExtractedContent ("text")
    lost,       \* history: kinds whose marker could not be put / removed
    faults      \* bound: spent of MaxFaults

vars == <<setup, item, markers, stored, handler, task, socket, waiter, lost, faults>>

NoAssets == [a \in Assets |-> "none"]
Uploading == [uploaded |-> FALSE, asset |-> NoAssets]
Idle == [pc |-> "idle", set |-> None, to |-> None, then |-> None, held |-> None, marks |-> {}]
Unwatched ==
    [open |-> TRUE, watching |-> FALSE, chan |-> <<>>, held |-> None, asks |-> 0,
     dropped |-> FALSE, saw |-> {}]
Waiting == [pc |-> "idle", what |-> "tasks", pass |-> 1, todo |-> {}, pending |-> FALSE,
            blind |-> FALSE]

Init ==
    /\ setup \in Setups
    /\ item = Uploading /\ markers = {} /\ stored = {}
    /\ handler = [pc |-> "stored", stages |-> <<>>, marks |-> {}, held |-> None]
    /\ task = [t \in Tasks |-> Idle]
    /\ socket = [s \in Sockets |-> Unwatched]
    /\ waiter = [w \in Waiters |-> Waiting]
    /\ lost = [put |-> {}, removed |-> {}] /\ faults = 0

Fault == faults < MaxFaults /\ faults' = faults + 1
Alive == item # None
Settled(i) == \A a \in Assets : i.asset[a] # "pending"

(***************************************************************************)
(* Broadcast.                                                              *)
(***************************************************************************)
\* A send that does not block: a full channel loses the message.
Offered(k, m) ==
    IF ~k.watching THEN k
    ELSE IF Len(k.chan) < Capacity THEN [k EXCEPT !.chan = Append(@, m)]
    ELSE [k EXCEPT !.dropped = TRUE]

\* The watchers of the key are collected under the read lock.
Broadcast(m) == socket' = [s \in Sockets |-> Offered(socket[s], m)]

(***************************************************************************)
(* The tail of uploadFile.                                                 *)
(***************************************************************************)
IsDoc == setup.doc # "no"

Stages ==
    IF IsDoc THEN <<"doc">>
    ELSE IF setup.mode["text"] = "off" THEN IF setup.mode["thumb"] = "off" THEN <<>> ELSE <<"thumb">>
    ELSE IF setup.mode["thumb"] = "off" THEN <<"text">> ELSE <<"thumb", "text">>

\* Variant: documentTaskKinds forgets the text.
TaskKinds_NoText(t) ==
    CASE t = "thumb" -> {"image_thumbnail"}
      [] t = "text" -> TextKinds
      [] t = "doc" -> {"image_thumbnail", "document_preview"}

TaskKinds(t) ==
    CASE t = "thumb" -> {"image_thumbnail"}
      [] t = "text" -> TextKinds
      [] t = "doc" -> {"image_thumbnail", "text_extraction", "document_preview"}

ToMark(stages) ==
    IF stages # <<>> /\ setup.mode[Head(stages)] = "async" THEN TaskKinds(Head(stages)) ELSE {}

\* The assets of a new item; a protected document keeps only its preview.
Pending ==
    [a \in Assets |->
        IF IsDoc THEN IF setup.doc = "protected" /\ a # "preview" THEN "locked" ELSE "pending"
        ELSE IF a # "preview" /\ setup.mode[a] # "off" THEN "pending" ELSE "none"]

Accept ==
    /\ handler.pc = "stored"
    /\ item' = [uploaded |-> TRUE, asset |-> Pending]
    /\ handler' = [pc |-> "schedule", stages |-> Stages, marks |-> ToMark(Stages), held |-> item']
    /\ UNCHANGED <<setup, markers, stored, task, socket, waiter, lost, faults>>

\* A marker that cannot be put is only logged.
PutMarker ==
    /\ handler.pc = "schedule"
    /\ \E k \in handler.marks :
         /\ handler' = [handler EXCEPT !.marks = @ \ {k}]
         /\ \/ markers' = markers \union {k} /\ UNCHANGED <<lost, faults>>
            \/ Fault /\ UNCHANGED markers /\ lost' = [lost EXCEPT !.put = @ \union {k}]
    /\ UNCHANGED <<setup, item, stored, task, socket, waiter>>

Started(t) == [Idle EXCEPT !.pc = "run", !.marks = IF setup.mode[t] = "async" THEN TaskKinds(t) ELSE {}]

\* go finish...; the item of a document is read again for the answer.
Spawn ==
    /\ handler.pc = "schedule" /\ handler.stages # <<>> /\ handler.marks = {}
    /\ LET t == Head(handler.stages) IN
         /\ setup.mode[t] = "async" /\ task[t].pc = "idle"
         /\ task' = [task EXCEPT ![t] = Started(t)]
         /\ handler' = [handler EXCEPT !.stages = Tail(@),
                            !.marks = ToMark(Tail(handler.stages)),
                            !.held = IF IsDoc THEN item ELSE @]
    /\ UNCHANGED <<setup, item, markers, stored, socket, waiter, lost, faults>>

\* The same work in line.
RunInline ==
    /\ handler.pc = "schedule" /\ handler.stages # <<>>
    /\ LET t == Head(handler.stages) IN
         /\ setup.mode[t] = "sequential"
         /\ \/ /\ task[t].pc = "idle" /\ task' = [task EXCEPT ![t] = Started(t)]
               /\ UNCHANGED handler
            \/ /\ task[t].pc = "done" /\ UNCHANGED task
               /\ handler' = [handler EXCEPT !.stages = Tail(@), !.marks = ToMark(Tail(handler.stages)),
                                             !.held = task[t].held]
    /\ UNCHANGED <<setup, item, markers, stored, socket, waiter, lost, faults>>

\* The answer broadcasts the item as it was when the handler last read it.
Answer ==
    /\ handler.pc = "schedule" /\ handler.stages = <<>>
    /\ Broadcast(handler.held)
    /\ handler' = [handler EXCEPT !.pc = "answered", !.held = None]
    /\ UNCHANGED <<setup, item, markers, stored, task, waiter, lost, faults>>

Handler == Accept \/ PutMarker \/ Spawn \/ RunInline \/ Answer

(***************************************************************************)
(* The tasks.  Work ends in an update of one asset, which is broadcast.    *)
(***************************************************************************)
Ends(t) == IF task[t].marks = {} THEN "done" ELSE "unmark"

\* task t goes on to set an asset, and then to the step "then".
Sets(t, a, to, then) ==
    task' = [task EXCEPT ![t].pc = "update", ![t].set = a, ![t].to = to, ![t].then = then]

\* The derived object is stored, or the PUT fails (and may be stored all the same).
Stores(t, a, then) ==
    \/ stored' = stored \union {a} /\ Sets(t, a, "generated", then) /\ UNCHANGED faults
    \/ Fault /\ stored' \in {stored, stored \union {a}} /\ Sets(t, a, "failed", then)

Fails(t, a, then) == Sets(t, a, "failed", then) /\ UNCHANGED <<stored, faults>>

ThumbWork == task["thumb"].pc = "run" /\ (Fails("thumb", "thumb", Ends("thumb")) \/ Stores("thumb", "thumb", Ends("thumb")))

\* Reading the object or extracting may fail, and there may be nothing to store.
TextWork ==
    /\ task["text"].pc = "run"
    /\ \/ Fails("text", "text", Ends("text")) \/ Stores("text", "text", Ends("text"))
       \/ Sets("text", "text", "skipped", Ends("text")) /\ UNCHANGED <<stored, faults>>

Goes(pc) == task' = [task EXCEPT !["doc"].pc = pc] /\ UNCHANGED <<stored, faults>>

\* runDocument: read, open, first page.
DocWork ==
    /\ task["doc"].pc = "run"
    /\ \/ setup.upfront /\ Goes("preview")
       \/ ~setup.upfront /\ Sets("doc", "pending assets", "failed", Ends("doc")) /\ UNCHANGED <<stored, faults>>
       \/ ~setup.upfront /\ setup.doc = "protected" /\ Goes("finish")
       \/ /\ ~setup.upfront /\ setup.doc = "clear"
          /\ Fails("doc", "thumb", "finish") \/ Stores("doc", "thumb", "finish")

\* Variant: only the preview is failed.
Unconverted_Preview == {"preview"}

\* failDocument: the assets it fails.
Unconverted == {a \in Assets : item.asset[a] = "pending"}

DocFinish ==
    /\ task["doc"].pc = "finish"
    /\ \/ Sets("doc", "pending assets", "failed", Ends("doc")) /\ UNCHANGED <<stored, faults>>
       \/ Goes("preview")

AfterPreview ==
    IF setup.doc = "protected" THEN Ends("doc") ELSE IF setup.upfront THEN "thumbnail" ELSE "text"

DocStore ==
    \/ task["doc"].pc = "preview" /\ Stores("doc", "preview", AfterPreview)
    \/ /\ task["doc"].pc = "thumbnail"
       /\ Fails("doc", "thumb", "text") \/ Stores("doc", "thumb", "text")
    \/ /\ task["doc"].pc = "text"
       /\ Fails("doc", "text", Ends("doc")) \/ Stores("doc", "text", Ends("doc"))

Work ==
    /\ ThumbWork \/ TextWork \/ DocWork \/ DocFinish \/ DocStore
    /\ UNCHANGED <<setup, item, markers, handler, socket, waiter, lost>>

Targets(t) == IF task[t].set = "pending assets" THEN Unconverted ELSE {task[t].set}

Changed(t) == [item EXCEPT !.asset = [a \in Assets |-> IF a \in Targets(t) THEN task[t].to ELSE @[a]]]

\* Variant: the item is copied before it is changed.
Copied_Before(t) == item

\* The copy that will be broadcast.
Copied(t) == Changed(t)

\* update...ForUpload, under the lock.
Update(t) ==
    /\ task[t].pc = "update"
    /\ item' = Changed(t)
    /\ task' = [task EXCEPT ![t].pc = "tell", ![t].held = Copied(t)]
    /\ UNCHANGED <<setup, markers, stored, handler, socket, waiter, lost, faults>>

Tell(t) ==
    /\ task[t].pc = "tell" /\ Broadcast(task[t].held)
    /\ task' = [task EXCEPT ![t].pc = task[t].then, ![t].set = None, ![t].to = None, ![t].then = None,
                            ![t].held = IF setup.mode[t] = "sequential" THEN @ ELSE None]
    /\ UNCHANGED <<setup, item, markers, stored, handler, waiter, lost, faults>>

\* The deferred deletes; one that fails leaves its marker.
Unmark(t) ==
    /\ task[t].pc = "unmark"
    /\ \E k \in task[t].marks :
         /\ \/ markers' = markers \ {k} /\ UNCHANGED <<lost, faults>>
            \/ Fault /\ UNCHANGED markers /\ lost' = [lost EXCEPT !.removed = @ \union {k}]
         /\ task' = [task EXCEPT ![t].marks = @ \ {k},
                                 ![t].pc = IF task[t].marks = {k} THEN "done" ELSE @]
    /\ UNCHANGED <<setup, item, stored, handler, socket, waiter>>

TaskStep == Work \/ \E t \in Tasks : Update(t) \/ Tell(t) \/ Unmark(t)

(***************************************************************************)
(* watchUploads.                                                           *)
(***************************************************************************)
Reading(s) == socket[s].open /\ socket[s].held = None
Asking(s) == Reading(s) /\ Alive /\ socket[s].asks < MaxAsks

\* The snapshot is copied under the lock and sent after it.
Watch(s) ==
    /\ Asking(s)
    /\ socket' = [socket EXCEPT ![s].watching = TRUE, ![s].held = item, ![s].asks = @ + 1]

Unwatch(s) ==
    Asking(s) /\ socket' = [socket EXCEPT ![s].watching = FALSE, ![s].asks = @ + 1]

\* Tells nothing of the item.
Pong == Uploading

Ping(s) ==
    Asking(s) /\ socket' = [socket EXCEPT ![s].held = Pong, ![s].asks = @ + 1]

\* The reader's own sends block while the channel is full.
Send(s) ==
    /\ socket[s].open /\ socket[s].held # None /\ Len(socket[s].chan) < Capacity
    /\ socket' = [socket EXCEPT ![s].chan = Append(@, socket[s].held), ![s].held = None]

\* What the client has learnt.
Learnt(m) ==
    IF ~m.uploaded THEN {} ELSE {"uploaded"} \union IF Settled(m) THEN {"settled"} ELSE {}

Write(s) ==
    /\ socket[s].open /\ socket[s].chan # <<>>
    /\ socket' = [socket EXCEPT ![s].chan = Tail(@), ![s].saw = @ \union Learnt(Head(socket[s].chan))]

\* The client closes; the reader returns and takes the channel off the key.
Close(s) ==
    /\ Reading(s)
    /\ socket' = [socket EXCEPT ![s] = [Unwatched EXCEPT !.open = FALSE, !.asks = MaxAsks]]

Client == \E s \in Sockets : Watch(s) \/ Unwatch(s) \/ Ping(s) \/ Close(s)

\* The goroutines of the socket go on.
Deliver(s) ==
    /\ Send(s) \/ Write(s)
    /\ UNCHANGED <<setup, item, markers, stored, handler, task, waiter, lost, faults>>

(***************************************************************************)
(* Waiting: waitAsyncTasks ("tasks"), getExtractedContent with wait        *)
(* ("text"), and waitUploads followed by getExtractedContent ("facts").    *)
(***************************************************************************)
ContentKinds == {"text_extraction", "metadata_extraction"}

\* The kinds asked for: the caller's, or those of the extracted content.
Awaited(what) == IF what = "tasks" THEN Kinds ELSE ContentKinds

Heads(w, what, pass) ==
    [waiter EXCEPT ![w] = [Waiting EXCEPT !.pc = "head", !.what = what, !.pass = pass, !.todo = Awaited(what)]]

\* A backend asks once the upload is answered.
AwaitTasks(w) ==
    /\ Alive /\ handler.pc = "answered" /\ waiter[w].pc = "idle"
    /\ \E what \in {"tasks", "text"} : waiter' = Heads(w, what, 1)
    /\ UNCHANGED faults

\* uploadsForKeys: assets made in line are waited for.
FactsReady ==
    /\ item.uploaded
    /\ \A a \in {"thumb", "text"} : setup.mode[a] = "sequential" => item.asset[a] # "pending"

\* A frontend polls from the start; the application then reads the text.
AwaitFacts(w) ==
    /\ Alive /\ waiter[w].pc = "idle" /\ FactsReady
    /\ waiter' = Heads(w, "facts", 2) /\ UNCHANGED faults

\* HEAD of one marker; an error counts as absent.
HeadMarker(w) ==
    /\ waiter[w].pc = "head"
    /\ \E k \in waiter[w].todo :
         \/ /\ waiter' = [waiter EXCEPT ![w].todo = @ \ {k}, ![w].pending = @ \/ k \in markers]
            /\ UNCHANGED faults
         \/ /\ Fault
            /\ waiter' = [waiter EXCEPT ![w].todo = @ \ {k}, ![w].blind = TRUE]

\* asyncTaskStatuses returns: another round, the deadline, or ready.  The
\* markers are looked at once more before the artifact is read.
RoundEnds(w) ==
    LET me == waiter[w] IN
    /\ me.pc = "head" /\ me.todo = {}
    /\ \/ me.pending /\ me.pass = 1 /\ waiter' = Heads(w, me.what, 1)
       \/ me.pending /\ waiter' = [waiter EXCEPT ![w].pc = "pending"]
       \/ ~me.pending /\ me.what = "tasks" /\ waiter' = [waiter EXCEPT ![w].pc = "ready"]
       \/ ~me.pending /\ me.what = "text" /\ me.pass = 1 /\ waiter' = Heads(w, "text", 2)
       \/ /\ ~me.pending /\ me.pass = 2
          /\ waiter' = [waiter EXCEPT ![w].pc = IF "text" \in stored THEN "generated" ELSE "absent"]
    /\ UNCHANGED faults

Backend == \E w \in Waiters : AwaitTasks(w) \/ AwaitFacts(w) \/ HeadMarker(w) \/ RoundEnds(w)

(***************************************************************************)
(* The process ends: items, goroutines and sockets are gone.               *)
(***************************************************************************)
Crash ==
    /\ Alive /\ Fault /\ item' = None
    /\ handler' = [handler EXCEPT !.pc = IF @ = "answered" THEN @ ELSE "dead", !.stages = <<>>,
                                  !.marks = {}, !.held = None]
    /\ task' = [t \in Tasks |-> Idle]
    /\ socket' = [s \in Sockets |-> [Unwatched EXCEPT !.open = FALSE, !.asks = MaxAsks]]
    /\ waiter' = [w \in Waiters |-> Waiting]
    /\ lost' = [lost EXCEPT !.removed = @ \union markers]
    /\ UNCHANGED <<setup, markers, stored>>

Next ==
    \/ Handler \/ TaskStep
    \/ \E s \in Sockets : Deliver(s)
    \/ Client /\ UNCHANGED <<setup, item, markers, stored, handler, task, waiter, lost, faults>>
    \/ Backend /\ UNCHANGED <<setup, item, markers, stored, handler, task, socket, lost>>
    \/ Crash

\* Goroutines run and calls return; an upload has finitely many steps of its
\* own, so no goroutine can keep another from its turn.  Clients owe nothing.
Fairness ==
    /\ WF_vars(Handler) /\ WF_vars(TaskStep)
    /\ \A s \in Sockets : WF_vars(Deliver(s))

Spec == Init /\ [][Next]_vars /\ Fairness

(***************************************************************************)
(* Properties.                                                             *)
(***************************************************************************)
\* Every variable stays in its range.
TypeOK ==
    /\ setup \in Setups /\ item \in Items \union {None}
    /\ markers \subseteq Kinds /\ stored \subseteq Assets
    /\ handler.held \in Items \union {None} /\ handler.marks \subseteq Kinds
    /\ \A t \in Tasks : task[t].held \in Items \union {None} /\ task[t].marks \subseteq TaskKinds(t)
    /\ \A s \in Sockets : Len(socket[s].chan) <= Capacity /\ socket[s].asks <= MaxAsks
    /\ \A w \in Waiters : waiter[w].todo \subseteq Awaited(waiter[w].what)
    /\ lost \in [put : SUBSET Kinds, removed : SUBSET Kinds] /\ faults \in 0..MaxFaults

AssetOf(k) ==
    CASE k = "image_thumbnail" -> "thumb" [] k = "document_preview" -> "preview" [] OTHER -> "text"

\* Whether no storage error has misled the waiter about the kinds it asked for.
Informed(w) ==
    ~waiter[w].blind /\ lost.put \intersect Awaited(waiter[w].what) = {}

\* A backend that waits after the upload was answered is told "ready" only when
\* every asset of the kinds is settled, however the goroutines interleave with
\* the answer; and a text it is told is absent is never generated later, nor is
\* one that waitUploads waited for.
ReadyMeansSettled ==
    \A w \in Waiters : Alive /\ Informed(w) =>
        /\ waiter[w].pc = "ready" => Settled(item)
        /\ waiter[w].pc = "absent" /\ (waiter[w].what = "text" \/ setup.mode["text"] = "sequential") =>
               item.asset["text"] \notin {"pending", "generated"}

\* Every asset is settled in the end and no marker stays that was not left by a
\* failed delete or a crash, whatever storage call or conversion fails.
TasksSettle == <>[](markers \subseteq lost.removed /\ (Alive => item.uploaded /\ Settled(item)))

\* A socket that goes on watching sees the final state of the assets, unless its
\* channel was full: updates, snapshots and the answer are sent by different
\* goroutines in any order, but none is missed between copy and registration.
SettledIsSeen ==
    \A s \in Sockets :
        (socket[s].watching /\ Alive /\ item.uploaded /\ Settled(item))
            ~> ("settled" \in socket[s].saw \/ socket[s].dropped \/ ~socket[s].watching)
===============================================================================
