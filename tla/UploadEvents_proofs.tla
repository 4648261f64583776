-------------------------- MODULE UploadEvents_proofs --------------------------
(***************************************************************************)
(* Theorems about the events of an upload: a waiting backend that is told  *)
(* "ready" or "absent" is told the truth, a settled asset is never changed *)
(* again, and a generated one is stored.  The inductive invariant says     *)
(* what each task still has to settle at each of its steps, and that the   *)
(* markers of a task are in the bucket from before it is started until its *)
(* last asset is settled.                                                  *)
(***************************************************************************)
EXTENDS UploadEvents, TLAPS

TaskSteps == {"idle", "run", "finish", "preview", "thumbnail", "text", "update", "tell",
              "unmark", "done"}
AtWork == {"run", "finish", "preview", "thumbnail", "text"}
Afters == {"finish", "thumbnail", "text", "unmark", "done"}
Outcomes == {"generated", "skipped", "failed"}
Task == [pc : TaskSteps, set : Assets \cup {"pending assets", None}, to : Statuses \cup {None},
         then : TaskSteps \cup {None}, held : Items \cup {None}, marks : SUBSET Kinds]
Plans == {<<>>, <<"thumb">>, <<"text">>, <<"thumb", "text">>, <<"doc">>}
Waiter == [pc : {"idle", "head", "pending", "ready", "generated", "absent"},
           what : {"tasks", "text", "facts"}, pass : {1, 2}, todo : SUBSET Kinds,
           pending : BOOLEAN, blind : BOOLEAN]

Types ==
    /\ setup \in Setups /\ item \in Items \cup {None}
    /\ markers \in SUBSET Kinds /\ stored \in SUBSET Assets
    /\ handler \in [pc : {"stored", "schedule", "answered", "dead"}, stages : Plans,
                    marks : SUBSET Kinds, held : Items \cup {None}]
    /\ task \in [Tasks -> Task]
    /\ waiter \in [Waiters -> Waiter]
    /\ lost \in [put : SUBSET Kinds, removed : SUBSET Kinds] /\ faults \in 0..MaxFaults

(***************************************************************************)
(* The inductive invariant.                                                *)
(***************************************************************************)
\* The tasks of the upload and the assets each settles.
Uses(t) == IF IsDoc THEN t = "doc" ELSE t # "doc" /\ setup.mode[t] # "off"
Owned(t) == IF t = "doc" THEN Assets ELSE {t}
Elems(st) == {st[i] : i \in 1..Len(st)}

\* A task is started when its turn in the plan has come, and one in line has
\* ended when the next has its turn.
Planned(t) ==
    /\ task[t].pc # "idle" => Uses(t)
    /\ t \in Elems(handler.stages) =>
         /\ Uses(t)
         /\ task[t].pc # "idle" => Head(handler.stages) = t /\ setup.mode[t] = "sequential"
    /\ Uses(t) /\ t \notin Elems(handler.stages) =>
         IF setup.mode[t] = "async" THEN task[t].pc # "idle" ELSE task[t].pc = "done"

\* What task t has still to settle when it is at the step pc.
Left(t, pc) ==
    IF t # "doc" THEN IF pc \in {"idle", "run"} THEN {t} ELSE {}
    ELSE IF setup.doc = "protected"
         THEN IF pc \in {"idle", "run", "finish", "preview"} THEN {"preview"} ELSE {}
    ELSE IF pc \in {"idle", "run"} \/ (pc = "preview" /\ setup.upfront) THEN Assets
    ELSE IF pc \in {"finish", "preview"} THEN {"preview", "text"}
    ELSE IF pc = "thumbnail" THEN {"thumb", "text"}
    ELSE IF pc = "text" THEN {"text"} ELSE {}

\* The steps that a protected or an upfront document does not take.
OffPath ==
    (IF setup.doc = "protected" THEN {"thumbnail", "text"} ELSE {})
      \cup (IF setup.upfront THEN {"finish"} ELSE {})

PendingOf(t) == {a \in Owned(t) : item.asset[a] = "pending"}

\* The assets that are pending are those that the task has still to settle.
Settling(t) ==
    /\ task[t].pc \notin {"update", "tell"} => PendingOf(t) = Left(t, task[t].pc)
    /\ task[t].pc = "update" =>
         /\ task[t].to \in Outcomes
         /\ task[t].set = "pending assets" =>
              t = "doc" /\ Left(t, task[t].then) = {} /\ task[t].to # "generated"
         /\ task[t].set # "pending assets" =>
              /\ task[t].set \in PendingOf(t)
              /\ PendingOf(t) \ {task[t].set} = Left(t, task[t].then)
              /\ task[t].to = "generated" => task[t].set \in stored
    /\ task[t].pc = "tell" => PendingOf(t) = Left(t, task[t].then)
    /\ task[t].pc \in {"update", "tell"} =>
         task[t].then \in Afters /\ (t = "doc" => task[t].then \notin OffPath)
    /\ t = "doc" => task[t].pc \notin OffPath

\* A goroutine at work has its markers, but for those that could not be put.
Marked(t) ==
    setup.mode[t] = "async" /\ task[t].pc \notin {"idle", "unmark", "done"} =>
        TaskKinds(t) \subseteq markers \cup lost.put

TaskInv(t) == Planned(t) /\ Marked(t) /\ (Uses(t) => Settling(t))

\* So has one that is about to be started.
Announced ==
    handler.pc = "schedule" /\ handler.stages # <<>> /\ setup.mode[Head(handler.stages)] = "async"
        => TaskKinds(Head(handler.stages)) \ handler.marks \subseteq markers \cup lost.put

Before == item = Uploading /\ handler.stages = <<>> /\ \A t \in Tasks : task[t].pc = "idle"

OwnMarks == \A t \in Tasks : task[t].marks \subseteq TaskKinds(t)

\* A generated asset is in the bucket.
GeneratedIsStored == Alive => \A a \in Assets : item.asset[a] = "generated" => a \in stored

Flow ==
    /\ handler.pc \in {"stored", "schedule", "answered"}
    /\ handler.pc = "stored" => Before
    /\ handler.pc = "answered" => handler.stages = <<>>
    /\ handler.pc # "stored" =>
         /\ item.uploaded
         /\ \A t \in Tasks : TaskInv(t)
         /\ \A a \in Assets : item.asset[a] = "pending" =>
               \E t \in Tasks : Uses(t) /\ a \in Owned(t)
         /\ Announced
    /\ GeneratedIsStored

Stopped ==
    /\ handler.pc \in {"answered", "dead"}
    /\ \A t \in Tasks : task[t] = Idle
    /\ \A w \in Waiters : waiter[w] = Waiting

\* What a waiter has seen: it asks for tasks after the answer, when markers are
\* only removed, and those it has looked for without a find are not there.
Seen(w) ==
    /\ waiter[w].what # "facts" /\ waiter[w].pc # "idle" => handler.pc = "answered"
    /\ waiter[w].what = "facts" /\ waiter[w].pc # "idle" /\ setup.mode["text"] = "sequential" =>
         handler.pc # "stored" /\ item.asset["text"] # "pending"
    /\ waiter[w].what # "facts" /\ waiter[w].pc = "head" /\ ~waiter[w].pending /\ ~waiter[w].blind =>
         (Awaited(waiter[w].what) \ waiter[w].todo) \cap markers = {}
    /\ waiter[w].what = "tasks" => waiter[w].pc # "absent"
    /\ waiter[w].pc = "ready" \/ waiter[w].what = "tasks" =>
         waiter[w].what = "tasks" /\ waiter[w].pass = 1

\* ReadyMeansSettled of one waiter.
Answers(w) ==
    Informed(w) =>
        /\ waiter[w].pc = "ready" => Settled(item)
        /\ waiter[w].pc = "absent" /\ (waiter[w].what = "text" \/ setup.mode["text"] = "sequential") =>
               item.asset["text"] \notin {"pending", "generated"}

Inv ==
    /\ Types /\ OwnMarks
    /\ IF Alive THEN Flow /\ \A w \in Waiters : Seen(w) /\ Answers(w) ELSE Stopped

\* What is settled stays as it is.
Firm == \A a \in Assets : item.asset[a] # "pending" => item'.asset[a] = item.asset[a]

(***************************************************************************)
(* The operators.                                                          *)
(***************************************************************************)
LEMMA SetupIs ==
  ASSUME Types
  PROVE  /\ setup.doc \in {"no", "clear", "protected"} /\ setup.upfront \in BOOLEAN
         /\ \A t \in Tasks : setup.mode[t] \in Modes
BY EventsAssumption DEF Types, SetupShape

LEMMA KindsAre ==
  /\ \A t \in Tasks : TaskKinds(t) \in SUBSET Kinds /\ TaskKinds(t) # {}
  /\ TaskKinds("text") \subseteq ContentKinds
  /\ TaskKinds("doc") \cap ContentKinds # {}
  /\ TaskKinds("thumb") \cap TaskKinds("text") = {}
  /\ ContentKinds \subseteq Kinds
BY EventsAssumption DEF TaskKinds, Tasks, Kinds, ContentKinds

\* A plan starts with one of its tasks and goes on with the others.
LEMMA PlansAre ==
  ASSUME NEW st \in Plans
  PROVE  /\ Elems(st) \subseteq Tasks
         /\ st = <<>> => Elems(st) = {}
         /\ st # <<>> => /\ Head(st) \in Tasks /\ Head(st) \in Elems(st)
                         /\ Tail(st) \in Plans
                         /\ Elems(Tail(st)) = Elems(st) \ {Head(st)}
<1>1. Elems(<<>>) = {}
  BY DEF Elems
<1>2. /\ Elems(<<"thumb">>) = {"thumb"} /\ Elems(<<"text">>) = {"text"}
      /\ Elems(<<"doc">>) = {"doc"}
  BY DEF Elems
<1>3. Elems(<<"thumb", "text">>) = {"thumb", "text"}
  BY DEF Elems
<1>4. ASSUME NEW t \in Tasks, st = <<t>>, Elems(<<t>>) = {t}
      PROVE  /\ Head(st) = t /\ Elems(st) = {t} /\ Tail(st) = <<>>
  BY <1>4
<1>5. CASE st = <<"thumb", "text">>
  <2>1. Tail(st) = <<"text">> /\ Head(st) = "thumb"
    BY <1>5
  <2> QED  BY <1>2, <1>3, <1>5, <2>1 DEF Plans, Tasks
<1> QED  BY <1>1, <1>2, <1>4, <1>5 DEF Plans, Tasks

LEMMA LeftIs ==
  ASSUME NEW t \in Tasks
  PROVE  /\ Left(t, "unmark") = {} /\ Left(t, "done") = {}
         /\ Left(t, "run") = Left(t, "idle")
         /\ \A pc : Left(t, pc) \subseteq Owned(t)
         /\ Owned(t) \subseteq Assets
BY DEF Left, Owned, Tasks, Assets

\* Only the configuration decides them.
LEMMA SameSetup ==
  ASSUME setup' = setup
  PROVE  /\ \A t : Uses(t)' <=> Uses(t)
         /\ \A t, pc : Left(t, pc)' = Left(t, pc)
         /\ OffPath' = OffPath
BY DEF Uses, IsDoc, Left, OffPath

\* Two tasks of an upload share nothing.
LEMMA Apart ==
  ASSUME NEW t \in Tasks, NEW u \in Tasks, t # u, Uses(t), Uses(u)
  PROVE  Owned(t) \cap Owned(u) = {} /\ TaskKinds(t) \cap TaskKinds(u) = {}
BY KindsAre DEF Uses, Owned, Tasks

LEMMA ItemIs ==
  ASSUME Types, Alive
  PROVE  item \in Items /\ item # None
BY DEF Types, Alive

LEMMA NotNone == \A i \in Items : i # None
BY EventsAssumption

(***************************************************************************)
(* What a step leaves as it was.                                           *)
(***************************************************************************)

\* Nobody who waits is misled by a step that puts no marker after the answer
\* and changes no settled asset.
LEMMA WaiterKept ==
  ASSUME NEW w \in Waiters, Seen(w), Answers(w),
         waiter' = waiter, setup' = setup,
         handler.pc # "stored" => handler'.pc # "stored" /\ Firm,
         handler.pc = "answered" => handler'.pc = "answered" /\ markers' \subseteq markers,
         lost.put \subseteq lost'.put
  PROVE  Seen(w)' /\ Answers(w)'
<1>1. Seen(w)'
  BY DEF Seen, Firm, Assets
<1>2. CASE waiter[w].pc = "ready"
  <2>1. handler.pc # "stored" /\ Firm
    BY <1>2 DEF Seen
  <2>2. Settled(item) => Settled(item')
    BY <2>1 DEF Settled, Firm
  <2> QED  BY <1>1, <1>2, <2>2 DEF Answers, Informed
<1>3. CASE waiter[w].pc = "absent" /\ (waiter[w].what = "text" \/ setup.mode["text"] = "sequential")
  <2>1. handler.pc # "stored" /\ Firm
    BY <1>3 DEF Seen
  <2>2. item.asset["text"] # "pending" => item'.asset["text"] = item.asset["text"]
    BY <2>1 DEF Firm, Assets
  <2> QED  BY <1>1, <1>3, <2>2 DEF Answers, Informed
<1> QED  BY <1>1, <1>2, <1>3 DEF Answers

\* A task is not disturbed by a step of another.
LEMMA OtherTask ==
  ASSUME Inv, Flow, handler.pc # "stored",
         NEW t \in Tasks, NEW u \in Tasks, t # u, Uses(t),
         setup' = setup, task'[u] = task[u],
         \A a \in Assets \ Owned(t) : item'.asset[a] = item.asset[a],
         stored \subseteq stored',
         \/ handler'.stages = handler.stages
         \/ /\ handler.stages # <<>> /\ t = Head(handler.stages)
            /\ handler'.stages = Tail(handler.stages),
         \A k \in Kinds \ TaskKinds(t) : k \in markers \cup lost.put => k \in markers' \cup lost'.put
  PROVE  TaskInv(u)'
<1>1. TaskInv(u) /\ handler.stages \in Plans
  BY DEF Flow, Inv, Types
<1>2. /\ Uses(u)' <=> Uses(u)
      /\ \A pc : Left(u, pc)' = Left(u, pc)
      /\ OffPath' = OffPath
  BY SameSetup
<1>3. Planned(u)'
  <2>1. CASE handler'.stages = handler.stages
    BY <1>1, <1>2, <2>1 DEF TaskInv, Planned
  <2>2. CASE /\ handler.stages # <<>> /\ t = Head(handler.stages)
             /\ handler'.stages = Tail(handler.stages)
    <3>1. Elems(handler'.stages) = Elems(handler.stages) \ {t}
      BY <1>1, <2>2, PlansAre
    <3>2. u \in Elems(handler'.stages) <=> u \in Elems(handler.stages)
      BY <3>1
    <3> QED  BY <1>1, <1>2, <2>2, <3>2 DEF TaskInv, Planned
  <2> QED  BY <2>1, <2>2
<1>4. Marked(u)'
  <2>1. SUFFICES ASSUME setup.mode[u] = "async", task[u].pc \notin {"idle", "unmark", "done"}
                 PROVE  TaskKinds(u) \subseteq markers' \cup lost'.put
    BY DEF Marked
  <2>2. Uses(u) /\ TaskKinds(u) \subseteq markers \cup lost.put
    BY <1>1, <2>1 DEF TaskInv, Planned, Marked
  <2>3. TaskKinds(u) \subseteq Kinds \ TaskKinds(t)
    BY <2>2, Apart, KindsAre
  <2> QED  BY <2>2, <2>3
<1>5. ASSUME Uses(u) PROVE Settling(u)'
  <2>1. Settling(u) /\ Owned(u) \subseteq Assets \ Owned(t)
    BY <1>1, <1>5, Apart, LeftIs DEF TaskInv
  <2>2. PendingOf(u)' = PendingOf(u)
    BY <2>1 DEF PendingOf
  <2> QED  BY <1>2, <2>1, <2>2 DEF Settling
<1> QED  BY <1>2, <1>3, <1>4, <1>5 DEF TaskInv

\* A step of one task, after the upload was accepted.
LEMMA TaskStepKeeps ==
  ASSUME Inv, Flow, Alive, handler.pc # "stored", Types',
         NEW t \in Tasks, Uses(t), TaskInv(t)',
         setup' = setup, waiter' = waiter, lost.put \subseteq lost'.put,
         \A u \in Tasks \ {t} : task'[u] = task[u],
         task'[t].marks \subseteq TaskKinds(t),
         item' \in Items, item'.uploaded = item.uploaded, Firm,
         \A a \in Assets \ Owned(t) : item'.asset[a] = item.asset[a],
         \A a \in Assets : item.asset[a] # "pending" => item'.asset[a] # "pending",
         stored \subseteq stored', GeneratedIsStored',
         \/ handler' = handler
         \/ /\ handler.pc = "schedule" /\ handler'.pc = "schedule"
            /\ handler.stages # <<>> /\ t = Head(handler.stages)
            /\ handler'.stages = Tail(handler.stages),
         markers' \subseteq markers,
         \A k \in Kinds \ TaskKinds(t) : k \in markers \cup lost.put => k \in markers' \cup lost'.put,
         Announced'
  PROVE  Inv'
<1>1. \A u \in Tasks : TaskInv(u)'
  <2>1. \/ handler'.stages = handler.stages
        \/ /\ handler.stages # <<>> /\ t = Head(handler.stages)
           /\ handler'.stages = Tail(handler.stages)
    OBVIOUS
  <2> QED  BY <2>1, OtherTask
<1>2. OwnMarks'
  BY DEF OwnMarks, Inv
<1>3. Alive'
  BY NotNone DEF Alive
<1>4. ASSUME NEW a \in Assets, item'.asset[a] = "pending"
      PROVE  \E u \in Tasks : Uses(u)' /\ a \in Owned(u)
  BY <1>4, SameSetup DEF Flow
<1>5. Flow'
  BY <1>1, <1>4 DEF Flow
<1>6. ASSUME NEW w \in Waiters PROVE Seen(w)' /\ Answers(w)'
  <2>1. Seen(w) /\ Answers(w)
    BY DEF Inv
  <2> QED  BY <2>1, WaiterKept
<1> QED  BY <1>2, <1>3, <1>5, <1>6 DEF Inv

(***************************************************************************)
(* The handler.                                                            *)
(***************************************************************************)
LEMMA InvInit ==
  ASSUME Init
  PROVE  Inv
<1>1. item = Uploading /\ Alive /\ Uploading \in Items /\ NoAssets \in [Assets -> Statuses]
  BY NotNone DEF Init, Alive, Uploading, NoAssets, Items, Statuses, Assets
<1>2. Idle \in Task
  BY DEF Idle, Task, TaskSteps
<1>3. Waiting \in Waiter
  BY DEF Waiting, Waiter
<1>4. Types
  BY <1>1, <1>2, <1>3, EventsAssumption DEF Init, Types, Plans
<1>5. Flow
  BY <1>1 DEF Init, Flow, Before, Idle, GeneratedIsStored, Uploading, NoAssets
<1>6. OwnMarks
  BY DEF Init, OwnMarks, Idle
<1>7. ASSUME NEW w \in Waiters PROVE Seen(w) /\ Answers(w)
  BY DEF Init, Seen, Answers, Waiting
<1> QED  BY <1>1, <1>4, <1>5, <1>6, <1>7 DEF Inv

\* The plan of an upload is its tasks; each has its assets to settle.
LEMMA StagesAre ==
  ASSUME Types
  PROVE  /\ Stages \in Plans
         /\ \A t \in Tasks : t \in Elems(Stages) <=> Uses(t)
<1>1. /\ Elems(<<>>) = {} /\ Elems(<<"thumb">>) = {"thumb"} /\ Elems(<<"text">>) = {"text"}
      /\ Elems(<<"doc">>) = {"doc"}
  BY DEF Elems
<1>2. Elems(<<"thumb", "text">>) = {"thumb", "text"}
  BY DEF Elems
<1>3. Stages \in Plans
  BY DEF Stages, Plans
<1>4. CASE IsDoc
  BY <1>1, <1>3, <1>4 DEF Stages, Uses, Tasks
<1>5. CASE ~IsDoc
  BY <1>1, <1>2, <1>3, <1>5 DEF Stages, Uses, Tasks
<1> QED  BY <1>3, <1>4, <1>5

LEMMA ToMarkIs ==
  ASSUME NEW st \in Plans
  PROVE  /\ ToMark(st) \in SUBSET Kinds
         /\ st # <<>> /\ setup.mode[Head(st)] = "async" => ToMark(st) = TaskKinds(Head(st))
BY PlansAre, KindsAre DEF ToMark

LEMMA AcceptStep ==
  ASSUME Inv, Accept
  PROVE  Inv'
<1>1. Alive /\ Flow /\ Before /\ Types /\ handler.pc = "stored"
  BY DEF Inv, Accept, Stopped, Flow
<1>2. /\ item' = [uploaded |-> TRUE, asset |-> Pending]
      /\ handler' = [pc |-> "schedule", stages |-> Stages, marks |-> ToMark(Stages), held |-> item']
      /\ UNCHANGED <<setup, markers, stored, task, waiter, lost, faults>>
  BY DEF Accept
<1>3. Pending \in [Assets -> {"none", "locked", "pending"}]
  BY DEF Pending
<1>4. item' \in Items /\ Alive'
  <2>1. Pending \in [Assets -> Statuses]
    BY DEF Pending, Statuses
  <2> QED  BY <1>2, <2>1, NotNone DEF Items, Alive
<1>5. Types'
  BY <1>1, <1>2, <1>4, StagesAre, ToMarkIs DEF Types
<1>6. ASSUME NEW t \in Tasks PROVE TaskInv(t)'
  <2>1. task'[t] = task[t] /\ task[t].pc = "idle"
    BY <1>1, <1>2 DEF Before
  <2>2. Planned(t)'
    BY <1>1, <1>2, <2>1, StagesAre, SameSetup DEF Planned
  <2>3. Marked(t)'
    BY <2>1 DEF Marked
  <2>4. ASSUME Uses(t) PROVE Settling(t)'
    <3>1. PendingOf(t)' = Left(t, "idle")
      <4>1. PendingOf(t)' = {a \in Owned(t) : Pending[a] = "pending"}
        BY <1>2 DEF PendingOf
      <4>2. CASE IsDoc
        BY <2>4, <4>1, <4>2, SetupIs, <1>1 DEF Pending, Owned, Left, Uses, IsDoc, Assets
      <4>3. CASE ~IsDoc
        BY <2>4, <4>1, <4>3 DEF Pending, Owned, Left, Uses, Tasks, Assets
      <4> QED  BY <4>2, <4>3
    <3>2. task[t].pc \notin OffPath
      BY <2>1 DEF OffPath
    <3> QED  BY <1>2, <2>1, <3>1, <3>2, SameSetup DEF Settling
  <2> QED  BY <1>2, <2>2, <2>3, <2>4, SameSetup DEF TaskInv
<1>7. ASSUME NEW a \in Assets, item'.asset[a] = "pending"
      PROVE  \E t \in Tasks : Uses(t)' /\ a \in Owned(t)
  <2>1. Pending[a] = "pending"
    BY <1>2, <1>7
  <2>2. CASE IsDoc
    BY <1>2, <2>2, SameSetup DEF Uses, Owned, Tasks
  <2>3. CASE ~IsDoc
    <3>1. a # "preview" /\ setup.mode[a] # "off"
      BY <2>1, <2>3, <1>7 DEF Pending
    <3>2. a \in Tasks /\ a # "doc"
      BY <1>7, <3>1 DEF Assets, Tasks
    <3> QED  BY <1>2, <2>3, <3>1, <3>2, SameSetup DEF Uses, Owned
  <2> QED  BY <2>2, <2>3
<1>8. Announced'
  <2>1. Stages # <<>> /\ setup.mode[Head(Stages)] = "async" => ToMark(Stages) = TaskKinds(Head(Stages))
    BY <1>1, StagesAre, ToMarkIs
  <2> QED  BY <1>2, <2>1 DEF Announced
<1>9. GeneratedIsStored'
  BY <1>2, <1>3 DEF GeneratedIsStored
<1>10. Flow'
  BY <1>2, <1>6, <1>7, <1>8, <1>9 DEF Flow
<1>11. OwnMarks'
  BY <1>2 DEF Inv, OwnMarks
<1>12. ASSUME NEW w \in Waiters PROVE Seen(w)' /\ Answers(w)'
  <2>1. Seen(w) /\ Answers(w)
    BY <1>1 DEF Inv
  <2> QED  BY <1>1, <1>2, <2>1, WaiterKept
<1> QED  BY <1>4, <1>5, <1>10, <1>11, <1>12 DEF Inv

\* Where a task is on its way, the upload was accepted and the process lives.
LEMMA AtTask ==
  ASSUME Inv, NEW t \in Tasks, task[t].pc # "idle"
  PROVE  /\ Alive /\ Flow /\ item \in Items /\ handler.pc # "stored"
         /\ Types /\ Uses(t) /\ TaskInv(t) /\ Settling(t)
         /\ task[t] \in Task
         /\ task[t].marks \subseteq TaskKinds(t)
<1>1. Alive
  BY DEF Inv, Stopped, Idle
<1>2. Flow /\ Types
  BY <1>1 DEF Inv
<1>3. handler.pc # "stored"
  BY <1>2 DEF Flow, Before
<1> QED  BY <1>1, <1>2, <1>3, ItemIs DEF Flow, TaskInv, Planned, Types, Inv, OwnMarks

\* Once it was accepted, an upload that is still handled is alive.
LEMMA AtHandler ==
  ASSUME Inv, handler.pc = "schedule"
  PROVE  /\ Alive /\ Flow /\ item \in Items /\ Types
         /\ \A t \in Tasks : TaskInv(t)
         /\ handler.stages \in Plans
<1>1. Alive /\ Types
  BY DEF Inv, Stopped
<1> QED  BY <1>1, ItemIs DEF Inv, Flow, Types

LEMMA PutMarkerStep ==
  ASSUME Inv, PutMarker
  PROVE  Inv'
<1>0. handler.pc = "schedule"
  BY DEF PutMarker
<1>1. /\ Alive /\ Flow /\ item \in Items /\ Types /\ \A t \in Tasks : TaskInv(t)
      /\ handler.stages \in Plans
  BY <1>0, AtHandler
<1>2. PICK k \in handler.marks :
         /\ handler' = [handler EXCEPT !.marks = @ \ {k}]
         /\ \/ markers' = markers \cup {k} /\ UNCHANGED <<lost, faults>>
            \/ Fault /\ UNCHANGED markers /\ lost' = [lost EXCEPT !.put = @ \cup {k}]
  BY DEF PutMarker
<1>3. UNCHANGED <<setup, item, stored, task, waiter>>
  BY DEF PutMarker
<1>4. /\ k \in Kinds /\ handler'.marks = handler.marks \ {k}
      /\ handler'.pc = handler.pc /\ handler'.stages = handler.stages
      /\ markers \cup lost.put \cup {k} = markers' \cup lost'.put
      /\ lost.put \subseteq lost'.put
  BY <1>1, <1>2 DEF Types
<1>5. Types'
  BY <1>1, <1>2, <1>3, <1>4, EventsAssumption DEF Types, Fault
<1>6. ASSUME NEW t \in Tasks PROVE TaskInv(t)'
  <2>1. TaskInv(t)
    BY <1>1
  <2>2. Planned(t)' /\ Marked(t)'
    BY <1>3, <1>4, <2>1, SameSetup DEF TaskInv, Planned, Marked
  <2>3. Uses(t) => Settling(t)'
    BY <1>3, <2>1, SameSetup DEF TaskInv, Settling, PendingOf
  <2> QED  BY <1>3, <2>2, <2>3, SameSetup DEF TaskInv
<1>7. Announced'
  BY <1>0, <1>1, <1>3, <1>4 DEF Flow, Announced
<1>8. GeneratedIsStored'
  BY <1>1, <1>3 DEF Flow, GeneratedIsStored, Alive
<1>9. Flow'
  BY <1>0, <1>1, <1>3, <1>4, <1>6, <1>7, <1>8, SameSetup DEF Flow
<1>10. OwnMarks' /\ Alive'
  BY <1>1, <1>3 DEF Inv, OwnMarks, Alive
<1>11. ASSUME NEW w \in Waiters PROVE Seen(w)' /\ Answers(w)'
  <2>1. Seen(w) /\ Answers(w)
    BY <1>1 DEF Inv
  <2>2. Firm
    BY <1>3 DEF Firm
  <2> QED  BY <1>0, <1>3, <1>4, <2>1, <2>2, WaiterKept
<1> QED  BY <1>5, <1>9, <1>10, <1>11 DEF Inv

LEMMA HeadIs ==
  ASSUME Inv, handler.pc = "schedule", handler.stages # <<>>
  PROVE  LET t == Head(handler.stages) IN
         /\ t \in Tasks /\ t \in Elems(handler.stages) /\ Uses(t)
         /\ Tail(handler.stages) \in Plans
         /\ Elems(Tail(handler.stages)) = Elems(handler.stages) \ {t}
BY AtHandler, PlansAre DEF TaskInv, Planned

LEMMA StartedIs ==
  ASSUME Types, NEW t \in Tasks
  PROVE  /\ Started(t) \in Task /\ Started(t).pc = "run"
         /\ Started(t).marks = IF setup.mode[t] = "async" THEN TaskKinds(t) ELSE {}
BY KindsAre DEF Started, Idle, Task, TaskSteps

\* A task that is started has everything to settle.
LEMMA StartedSettles ==
  ASSUME Inv, Flow, handler.pc # "stored", NEW t \in Tasks, Uses(t), task[t].pc = "idle",
         task'[t].pc = "run", setup' = setup, item' = item
  PROVE  Settling(t)'
<1>1. Settling(t) /\ Left(t, "run") = Left(t, "idle")
  BY LeftIs DEF Flow, TaskInv
<1>2. PendingOf(t)' = Left(t, "run")'
  BY <1>1, SameSetup DEF Settling, PendingOf
<1>3. "run" \notin OffPath'
  BY DEF OffPath
<1> QED  BY <1>2, <1>3 DEF Settling

LEMMA SpawnStep ==
  ASSUME Inv, Spawn
  PROVE  Inv'
<1>a. handler.pc = "schedule" /\ handler.stages # <<>>
  BY DEF Spawn
<1>b. PICK t \in Tasks : t = Head(handler.stages)
  BY <1>a, HeadIs
<1>0. /\ handler.pc = "schedule" /\ handler.stages # <<>> /\ handler.marks = {}
      /\ setup.mode[t] = "async" /\ task[t].pc = "idle"
      /\ task' = [task EXCEPT ![t] = Started(t)]
      /\ handler' = [handler EXCEPT !.stages = Tail(@),
                         !.marks = ToMark(Tail(handler.stages)),
                         !.held = IF IsDoc THEN item ELSE @]
      /\ UNCHANGED <<setup, item, markers, stored, waiter, lost, faults>>
  BY <1>b DEF Spawn
<1>1. /\ Alive /\ Flow /\ item \in Items /\ Types /\ \A u \in Tasks : TaskInv(u)
      /\ handler.stages \in Plans
  BY <1>0, AtHandler
<1>2. /\ t \in Tasks /\ t \in Elems(handler.stages) /\ Uses(t)
      /\ Tail(handler.stages) \in Plans
      /\ Elems(Tail(handler.stages)) = Elems(handler.stages) \ {t}
  BY <1>0, <1>b, HeadIs
<1>3. /\ task'[t] = Started(t) /\ Started(t) \in Task /\ Started(t).pc = "run"
      /\ Started(t).marks = TaskKinds(t)
      /\ \A u \in Tasks \ {t} : task'[u] = task[u]
      /\ task' \in [Tasks -> Task]
  BY <1>0, <1>1, <1>2, StartedIs DEF Types
<1>4. /\ handler'.pc = "schedule" /\ handler'.stages = Tail(handler.stages)
      /\ handler'.marks = ToMark(Tail(handler.stages))
  BY <1>0, <1>1 DEF Types
<1>5. Types'
  BY <1>0, <1>1, <1>2, <1>3, ToMarkIs DEF Types
<1>6. Planned(t)'
  BY <1>0, <1>2, <1>3, <1>4, SameSetup DEF Planned
<1>7. Marked(t)'
  <2>1. TaskKinds(t) \ handler.marks \subseteq markers \cup lost.put
    BY <1>0, <1>1, <1>b DEF Flow, Announced
  <2> QED  BY <1>0, <2>1 DEF Marked
<1>8. Settling(t)'
  BY <1>0, <1>1, <1>2, <1>3, StartedSettles
<1>9. TaskInv(t)'
  BY <1>6, <1>7, <1>8 DEF TaskInv
<1>10. Announced'
  BY <1>0, <1>2, <1>4, ToMarkIs DEF Announced
<1>11. GeneratedIsStored' /\ Firm
  BY <1>0, <1>1 DEF Flow, GeneratedIsStored, Alive, Firm
<1>12. handler.pc # "stored" /\ t = Head(handler.stages) /\ handler.stages # <<>>
  BY <1>0, <1>b
<1> QED  BY <1>0, <1>1, <1>2, <1>3, <1>4, <1>5, <1>9, <1>10, <1>11, <1>12, TaskStepKeeps

LEMMA RunInlineStep ==
  ASSUME Inv, RunInline
  PROVE  Inv'
<1>a. handler.pc = "schedule" /\ handler.stages # <<>>
  BY DEF RunInline
<1>b. PICK t \in Tasks : t = Head(handler.stages)
  BY <1>a, HeadIs
<1>0. /\ handler.pc = "schedule" /\ handler.stages # <<>>
      /\ setup.mode[t] = "sequential"
      /\ UNCHANGED <<setup, item, markers, stored, waiter, lost, faults>>
  BY <1>b DEF RunInline
<1>1. /\ Alive /\ Flow /\ item \in Items /\ Types /\ \A u \in Tasks : TaskInv(u)
      /\ handler.stages \in Plans
  BY <1>0, AtHandler
<1>2. /\ t \in Tasks /\ t \in Elems(handler.stages) /\ Uses(t)
      /\ Tail(handler.stages) \in Plans
      /\ Elems(Tail(handler.stages)) = Elems(handler.stages) \ {t}
  BY <1>0, <1>b, HeadIs
<1>3. GeneratedIsStored' /\ Firm /\ Marked(t)'
  BY <1>0, <1>1 DEF Flow, GeneratedIsStored, Alive, Firm, Marked
<1>4. handler.pc # "stored" /\ t = Head(handler.stages) /\ handler.stages # <<>>
  BY <1>0, <1>b
<1>5. CASE task[t].pc = "idle" /\ task' = [task EXCEPT ![t] = Started(t)] /\ UNCHANGED handler
  <2>1. /\ task'[t] = Started(t) /\ Started(t) \in Task /\ Started(t).pc = "run"
        /\ Started(t).marks = {}
        /\ \A u \in Tasks \ {t} : task'[u] = task[u]
        /\ task' \in [Tasks -> Task]
    BY <1>0, <1>1, <1>2, <1>5, StartedIs DEF Types
  <2>2. Types'
    BY <1>0, <1>1, <1>5, <2>1 DEF Types
  <2>3. Planned(t)'
    BY <1>0, <1>b, <1>2, <1>5, <2>1, SameSetup DEF Planned
  <2>4. Settling(t)'
    BY <1>0, <1>1, <1>2, <1>5, <2>1, StartedSettles
  <2>5. TaskInv(t)'
    BY <1>3, <2>3, <2>4 DEF TaskInv
  <2>6. Announced'
    BY <1>0, <1>1, <1>5 DEF Flow, Announced
  <2> QED  BY <1>0, <1>1, <1>2, <1>3, <1>4, <1>5, <2>1, <2>2, <2>5, <2>6, TaskStepKeeps
<1>6. CASE /\ task[t].pc = "done" /\ UNCHANGED task
           /\ handler' = [handler EXCEPT !.stages = Tail(@), !.marks = ToMark(Tail(handler.stages)),
                                         !.held = task[t].held]
  <2>1. /\ handler'.pc = "schedule" /\ handler'.stages = Tail(handler.stages)
        /\ handler'.marks = ToMark(Tail(handler.stages))
    BY <1>0, <1>1, <1>6 DEF Types
  <2>2. task[t].held \in Items \cup {None} /\ task[t].marks \subseteq TaskKinds(t)
    BY <1>1, <1>2 DEF Types, Task, Inv, OwnMarks
  <2>3. Types'
    BY <1>0, <1>1, <1>2, <1>6, <2>2, ToMarkIs DEF Types
  <2>4. Planned(t)'
    BY <1>0, <1>2, <1>6, <2>1, SameSetup DEF Planned
  <2>5. Settling(t)'
    <3>1. Settling(t)
      BY <1>1, <1>2 DEF TaskInv
    <3> QED  BY <1>0, <1>6, <3>1, SameSetup DEF Settling, PendingOf
  <2>6. TaskInv(t)'
    BY <1>3, <2>4, <2>5 DEF TaskInv
  <2>7. Announced'
    BY <1>0, <1>2, <2>1, ToMarkIs DEF Announced
  <2> QED  BY <1>0, <1>1, <1>2, <1>3, <1>4, <1>6, <2>1, <2>2, <2>3, <2>6, <2>7, TaskStepKeeps
<1> QED  BY <1>b, <1>5, <1>6 DEF RunInline

\* Steps of sockets and waiters, and the answer, which leave the tasks alone.
LEMMA TasksKept ==
  ASSUME Inv, Flow, Alive, UNCHANGED <<setup, item, markers, stored, task, lost>>,
         \/ handler' = handler
         \/ /\ handler.pc = "schedule" /\ handler.stages = <<>>
            /\ handler'.pc = "answered" /\ handler'.stages = handler.stages
  PROVE  Flow' /\ OwnMarks' /\ Alive' /\ Firm
<1>1. OwnMarks' /\ Alive' /\ Firm /\ GeneratedIsStored'
  BY DEF Inv, OwnMarks, Alive, Firm, Flow, GeneratedIsStored
<1>2. handler'.stages = handler.stages /\ (handler'.pc = "stored" => handler' = handler)
  OBVIOUS
<1>3. ASSUME handler.pc # "stored", NEW t \in Tasks PROVE TaskInv(t)'
  <2>1. TaskInv(t)
    BY <1>3 DEF Flow
  <2>2. Planned(t)' /\ Marked(t)'
    BY <1>2, <2>1, SameSetup DEF TaskInv, Planned, Marked
  <2>3. ASSUME Uses(t) PROVE Settling(t)'
    <3>1. Settling(t) /\ PendingOf(t)' = PendingOf(t)
      BY <2>1, <2>3 DEF TaskInv, PendingOf
    <3>2. OffPath' = OffPath /\ \A pc : Left(t, pc)' = Left(t, pc)
      BY SameSetup
    <3> QED  BY <3>1, <3>2 DEF Settling
  <2> QED  BY <2>2, <2>3, SameSetup DEF TaskInv
<1>4. handler'.pc = "stored" => Before'
  BY <1>2 DEF Flow, Before
<1>5. handler.pc # "stored" => Announced'
  BY DEF Flow, Announced
<1>6. handler.pc # "stored" => item.uploaded /\
        \A a \in Assets : item.asset[a] = "pending" => \E t \in Tasks : Uses(t)' /\ a \in Owned(t)
  BY SameSetup DEF Flow
<1>7. /\ handler'.pc \in {"stored", "schedule", "answered"}
      /\ handler'.pc = "answered" => handler'.stages = <<>>
      /\ handler'.pc # "stored" => handler.pc # "stored"
  BY <1>2 DEF Flow
<1> QED  BY <1>1, <1>3, <1>4, <1>5, <1>6, <1>7 DEF Flow

LEMMA AnswerStep ==
  ASSUME Inv, Answer
  PROVE  Inv'
<1>1. /\ handler.pc = "schedule" /\ handler.stages = <<>>
      /\ handler' = [handler EXCEPT !.pc = "answered", !.held = None]
      /\ UNCHANGED <<setup, item, markers, stored, task, waiter, lost, faults>>
  BY DEF Answer
<1>2. Alive /\ Flow /\ Types
  BY <1>1, AtHandler
<1>3. handler'.pc = "answered" /\ handler'.stages = handler.stages /\ Types'
  BY <1>1, <1>2 DEF Types
<1>4. Flow' /\ OwnMarks' /\ Alive' /\ Firm
  BY <1>1, <1>2, <1>3, TasksKept
<1>5. ASSUME NEW w \in Waiters PROVE Seen(w)' /\ Answers(w)'
  <2>1. Seen(w) /\ Answers(w)
    BY <1>2 DEF Inv
  <2> QED  BY <1>1, <1>3, <1>4, <2>1, WaiterKept
<1> QED  BY <1>3, <1>4, <1>5 DEF Inv

\* Sockets: nothing else looks at them.
LEMMA SocketStep ==
  ASSUME Inv, UNCHANGED <<setup, item, markers, stored, handler, task, waiter, lost, faults>>
  PROVE  Inv'
<1>1. Types'
  BY DEF Inv, Types
<1>2. CASE Alive
  <2>1. Flow' /\ OwnMarks' /\ Alive' /\ Firm
    BY <1>2, TasksKept DEF Inv
  <2>2. ASSUME NEW w \in Waiters PROVE Seen(w)' /\ Answers(w)'
    <3>1. Seen(w) /\ Answers(w)
      BY <1>2 DEF Inv
    <3> QED  BY <2>1, <3>1, WaiterKept
  <2> QED  BY <1>1, <2>1, <2>2 DEF Inv
<1>3. CASE ~Alive
  BY <1>1, <1>3 DEF Inv, OwnMarks, Alive, Stopped
<1> QED  BY <1>2, <1>3

(***************************************************************************)
(* The tasks.                                                              *)
(***************************************************************************)

\* Work goes on to another step that settles as much, or sets one of the assets
\* that are left; the object of a generated one is stored.
WorkOf(t) ==
    /\ Uses(t) /\ task[t].pc \in AtWork
    /\ task' \in [Tasks -> Task] /\ \A u \in Tasks \ {t} : task'[u] = task[u]
    /\ task'[t].marks = task[t].marks /\ task'[t].held = task[t].held
    /\ stored \subseteq stored' /\ stored' \subseteq Assets /\ faults' \in 0..MaxFaults
    /\ \/ /\ task'[t].pc \in {"preview", "finish"} \ OffPath
          /\ Left(t, task'[t].pc) = Left(t, task[t].pc)
       \/ /\ task'[t].pc = "update" /\ task'[t].to \in Outcomes
          /\ task'[t].then \in Afters /\ (t = "doc" => task'[t].then \notin OffPath)
          /\ \/ /\ task'[t].set = "pending assets" /\ t = "doc"
                /\ Left(t, task'[t].then) = {} /\ task'[t].to # "generated"
             \/ /\ task'[t].set \in Assets /\ task'[t].set \in Left(t, task[t].pc)
                /\ Left(t, task[t].pc) \ {task'[t].set} = Left(t, task'[t].then)
                /\ task'[t].to = "generated" => task'[t].set \in stored'

LEMMA SetsIs ==
  ASSUME Types, NEW t \in Tasks, NEW a \in Assets \cup {"pending assets"},
         NEW to \in Outcomes, NEW then \in Afters, Sets(t, a, to, then)
  PROVE  /\ task' \in [Tasks -> Task] /\ \A u \in Tasks \ {t} : task'[u] = task[u]
         /\ task'[t].pc = "update" /\ task'[t].set = a /\ task'[t].to = to
         /\ task'[t].then = then /\ task'[t].marks = task[t].marks
         /\ task'[t].held = task[t].held
<1>1. task[t] \in Task /\ task' = [task EXCEPT ![t] =
          [task[t] EXCEPT !.pc = "update", !.set = a, !.to = to, !.then = then]]
  BY DEF Types, Sets
<1> DEFINE k == [task[t] EXCEPT !.pc = "update", !.set = a, !.to = to, !.then = then]
<1>2. k \in Task /\ k.pc = "update" /\ k.set = a /\ k.to = to /\ k.then = then /\ k.marks = task[t].marks
      /\ k.held = task[t].held
  <2>1. to \in Statuses /\ then \in TaskSteps /\ "update" \in TaskSteps
    BY DEF TaskSteps, Outcomes, Statuses, Afters
  <2> QED  BY <1>1, <2>1 DEF Task
<1> HIDE DEF k
<1> QED  BY <1>1, <1>2 DEF Types, k

\* One asset is made: stored, or failed.
LEMMA MakesIs ==
  ASSUME Types, NEW t \in Tasks, Uses(t), task[t].pc \in AtWork,
         NEW a \in Assets, a \in Left(t, task[t].pc),
         NEW then \in Afters, t = "doc" => then \notin OffPath,
         Left(t, task[t].pc) \ {a} = Left(t, then),
         Fails(t, a, then) \/ Stores(t, a, then)
  PROVE  WorkOf(t)
<1>1. /\ stored \subseteq stored' /\ stored' \subseteq Assets /\ faults' \in 0..MaxFaults
      /\ \E to \in {"generated", "failed"} :
            Sets(t, a, to, then) /\ (to = "generated" => a \in stored')
  <2>1. CASE Fails(t, a, then)
    BY <2>1 DEF Fails, Types
  <2>2. CASE stored' = stored \cup {a} /\ Sets(t, a, "generated", then) /\ UNCHANGED faults
    BY <2>2 DEF Types
  <2>3. CASE Fault /\ stored' \in {stored, stored \cup {a}} /\ Sets(t, a, "failed", then)
    BY <2>3, EventsAssumption DEF Types, Fault
  <2> QED  BY <2>1, <2>2, <2>3 DEF Stores
<1>2. PICK to \in {"generated", "failed"} :
            Sets(t, a, to, then) /\ (to = "generated" => a \in stored')
  BY <1>1
<1>3. to \in Outcomes /\ a \in Assets \cup {"pending assets"}
  BY DEF Outcomes
<1>4. /\ task' \in [Tasks -> Task] /\ \A u \in Tasks \ {t} : task'[u] = task[u]
      /\ task'[t].pc = "update" /\ task'[t].set = a /\ task'[t].to = to
      /\ task'[t].then = then /\ task'[t].marks = task[t].marks
      /\ task'[t].held = task[t].held
  BY <1>2, <1>3, SetsIs
<1> QED  BY <1>1, <1>2, <1>3, <1>4 DEF WorkOf

\* A document goes on, or fails with all that is pending.
LEMMA GoesIs ==
  ASSUME Types, Uses("doc"), task["doc"].pc \in AtWork,
         NEW pc \in {"preview", "finish"} \ OffPath,
         Left("doc", pc) = Left("doc", task["doc"].pc), Goes(pc)
  PROVE  WorkOf("doc")
<1>1. task["doc"] \in Task /\ task' = [task EXCEPT !["doc"] = [task["doc"] EXCEPT !.pc = pc]]
  BY DEF Types, Goes, Tasks
<1> DEFINE k == [task["doc"] EXCEPT !.pc = pc]
<1>2. k \in Task /\ k.pc = pc /\ k.marks = task["doc"].marks /\ k.held = task["doc"].held
  BY <1>1 DEF Task, TaskSteps
<1>3. stored' = stored /\ faults' = faults
  BY DEF Goes
<1> HIDE DEF k
<1> QED  BY <1>1, <1>2, <1>3 DEF Types, k, WorkOf, Tasks

LEMMA GivesUpIs ==
  ASSUME Types, Uses("doc"), task["doc"].pc \in AtWork,
         Sets("doc", "pending assets", "failed", Ends("doc")), UNCHANGED <<stored, faults>>
  PROVE  WorkOf("doc")
<1>1. /\ Ends("doc") \in Afters /\ Ends("doc") \notin OffPath /\ Left("doc", Ends("doc")) = {}
  BY LeftIs DEF Ends, Afters, OffPath, Tasks
<1>2. /\ "failed" \in Outcomes /\ "doc" \in Tasks
      /\ "pending assets" \in Assets \cup {"pending assets"}
  BY DEF Outcomes, Tasks
<1>3. PICK then \in Afters : then = Ends("doc")
  BY <1>1
<1>4. PICK t \in Tasks, a \in Assets \cup {"pending assets"}, to \in Outcomes :
          t = "doc" /\ a = "pending assets" /\ to = "failed"
  BY <1>2
<1>5. Sets(t, a, to, then)
  BY <1>3, <1>4 DEF Sets
<1>6. t \in Tasks /\ to \in Outcomes /\ then \in Afters
  BY <1>3, <1>4
<1>7. a \in Assets \cup {"pending assets"}
  BY <1>4
<1>8. /\ task' \in [Tasks -> Task] /\ \A u \in Tasks \ {t} : task'[u] = task[u]
      /\ task'[t].pc = "update" /\ task'[t].set = a /\ task'[t].to = to
      /\ task'[t].then = then /\ task'[t].marks = task[t].marks
      /\ task'[t].held = task[t].held
  BY <1>5, <1>6, <1>7, SetsIs
<1> QED  BY <1>1, <1>3, <1>4, <1>8 DEF WorkOf, Types

LEMMA EndsAre ==
  ASSUME NEW t \in Tasks
  PROVE  Ends(t) \in Afters /\ Ends(t) \notin OffPath /\ Left(t, Ends(t)) = {}
BY LeftIs DEF Ends, Afters, OffPath

LEMMA WorkIs ==
  ASSUME Inv, Work
  PROVE  /\ \E t \in Tasks : WorkOf(t)
         /\ UNCHANGED <<setup, item, markers, handler, waiter, lost>>
<1> SUFFICES \E t \in Tasks : WorkOf(t)
  BY DEF Work
<1>1. \A t \in Tasks : task[t].pc \in AtWork =>
           Types /\ Uses(t) /\ task[t].pc \notin {"update", "tell"} /\ (t = "doc" => task[t].pc \notin OffPath)
  BY AtTask DEF AtWork, Settling
<1>2. CASE ThumbWork
  <2>1. task["thumb"].pc = "run" /\ "thumb" \in Tasks /\ "thumb" \in Assets /\ "run" \in AtWork
    BY <1>2 DEF ThumbWork, Tasks, Assets, AtWork
  <2>2. Left("thumb", task["thumb"].pc) = {"thumb"}
    BY <2>1 DEF Left
  <2> QED  BY <1>1, <1>2, <2>1, <2>2, EndsAre, MakesIs DEF ThumbWork
<1>3. CASE TextWork
  <2>1. task["text"].pc = "run" /\ "text" \in Tasks /\ "text" \in Assets /\ "run" \in AtWork
    BY <1>3 DEF TextWork, Tasks, Assets, AtWork
  <2>2. Left("text", task["text"].pc) = {"text"}
    BY <2>1 DEF Left
  <2>3. Types /\ Uses("text")
    BY <1>1, <2>1
  <2>4. CASE Fails("text", "text", Ends("text")) \/ Stores("text", "text", Ends("text"))
    BY <2>1, <2>2, <2>3, <2>4, EndsAre, MakesIs
  <2>5. CASE Sets("text", "text", "skipped", Ends("text")) /\ UNCHANGED <<stored, faults>>
    <3>1. "skipped" \in Outcomes /\ "text" \in Assets \cup {"pending assets"}
      BY <2>1 DEF Outcomes
    <3>0. PICK then \in Afters : then = Ends("text")
      BY <2>1, EndsAre
    <3>2. /\ task' \in [Tasks -> Task] /\ \A u \in Tasks \ {"text"} : task'[u] = task[u]
          /\ task'["text"].pc = "update" /\ task'["text"].set = "text"
          /\ task'["text"].to = "skipped"
          /\ task'["text"].then = then /\ task'["text"].marks = task["text"].marks
          /\ task'["text"].held = task["text"].held
      BY <2>1, <2>3, <2>5, <3>1, <3>0, SetsIs
    <3>3. Left("text", task["text"].pc) \ {"text"} = Left("text", then)
      BY <2>1, <2>2, <3>0, EndsAre
    <3> QED  BY <2>1, <2>2, <2>3, <2>5, <3>1, <3>0, <3>2, <3>3 DEF WorkOf, Types
  <2> QED  BY <1>3, <2>1, <2>4, <2>5 DEF TextWork
<1>4. CASE DocWork
  <2>1. task["doc"].pc = "run" /\ "doc" \in Tasks /\ "run" \in AtWork /\ "thumb" \in Assets
    BY <1>4 DEF DocWork, Tasks, AtWork, Assets
  <2>2. Types /\ Uses("doc") /\ setup.doc \in {"clear", "protected"}
    BY <1>1, <2>1, SetupIs DEF Uses, IsDoc
  <2>3. CASE setup.upfront /\ Goes("preview")
    <3>1. "preview" \notin OffPath /\ Left("doc", "preview") = Left("doc", "run")
      BY <2>3 DEF OffPath, Left
    <3> QED  BY <2>1, <2>2, <2>3, <3>1, GoesIs
  <2>4. CASE Sets("doc", "pending assets", "failed", Ends("doc")) /\ UNCHANGED <<stored, faults>>
    BY <2>1, <2>2, <2>4, GivesUpIs
  <2>5. CASE ~setup.upfront /\ setup.doc = "protected" /\ Goes("finish")
    <3>1. "finish" \notin OffPath /\ Left("doc", "finish") = Left("doc", "run")
      BY <2>5 DEF OffPath, Left
    <3> QED  BY <2>1, <2>2, <2>5, <3>1, GoesIs
  <2>6. CASE /\ ~setup.upfront /\ setup.doc = "clear"
             /\ Fails("doc", "thumb", "finish") \/ Stores("doc", "thumb", "finish")
    <3>1. /\ "finish" \in Afters /\ "finish" \notin OffPath
          /\ Left("doc", "run") = Assets /\ Left("doc", "finish") = Assets \ {"thumb"}
      BY <2>6 DEF OffPath, Left, Afters, Assets
    <3> QED  BY <2>1, <2>2, <2>6, <3>1, MakesIs
  <2> QED  BY <1>4, <2>1, <2>3, <2>4, <2>5, <2>6 DEF DocWork
<1>5. CASE DocFinish
  <2>1. task["doc"].pc = "finish" /\ "doc" \in Tasks /\ "finish" \in AtWork
    BY <1>5 DEF DocFinish, Tasks, AtWork
  <2>2. Types /\ Uses("doc") /\ "finish" \notin OffPath /\ setup.doc \in {"clear", "protected"}
    BY <1>1, <2>1, SetupIs DEF Uses, IsDoc
  <2>3. CASE Goes("preview")
    <3>1. "preview" \notin OffPath /\ ~setup.upfront
      BY <2>2 DEF OffPath
    <3>2. Left("doc", "preview") = Left("doc", "finish")
      BY <3>1 DEF Left
    <3> QED  BY <2>1, <2>2, <2>3, <3>1, <3>2, GoesIs
  <2>4. CASE Sets("doc", "pending assets", "failed", Ends("doc")) /\ UNCHANGED <<stored, faults>>
    BY <2>1, <2>2, <2>4, GivesUpIs
  <2> QED  BY <1>5, <2>1, <2>3, <2>4 DEF DocFinish
<1>6. CASE DocStore
  <2>1. /\ task["doc"].pc \in {"preview", "thumbnail", "text"} /\ "doc" \in Tasks
        /\ task["doc"].pc \in AtWork /\ {"preview", "thumb", "text"} \subseteq Assets
    BY <1>6 DEF DocStore, Tasks, AtWork, Assets
  <2>2. /\ Types /\ Uses("doc") /\ task["doc"].pc \notin OffPath
        /\ setup.doc \in {"clear", "protected"} /\ setup.upfront \in BOOLEAN
    BY <1>1, <2>1, SetupIs DEF Uses, IsDoc
  <2>3. CASE task["doc"].pc = "preview" /\ Stores("doc", "preview", AfterPreview)
    <3>1. AfterPreview \in Afters /\ AfterPreview \notin OffPath
      BY <2>1, <2>2, EndsAre DEF AfterPreview, Afters, OffPath
    <3>2. /\ "preview" \in Left("doc", "preview")
          /\ Left("doc", "preview") \ {"preview"} = Left("doc", AfterPreview)
      <4>1. Left("doc", Ends("doc")) = {}
        BY <2>1, EndsAre
      <4>2. CASE setup.doc = "protected"
        <5>1. AfterPreview = Ends("doc") /\ Left("doc", "preview") = {"preview"}
          BY <4>2 DEF AfterPreview, Left
        <5> QED  BY <4>1, <5>1
      <4>3. CASE setup.doc # "protected"
        BY <2>2, <4>3 DEF AfterPreview, Left, Assets
      <4> QED  BY <4>2, <4>3
    <3> QED  BY <2>1, <2>2, <2>3, <3>1, <3>2, MakesIs
  <2>4. CASE /\ task["doc"].pc = "thumbnail"
             /\ Fails("doc", "thumb", "text") \/ Stores("doc", "thumb", "text")
    <3>1. setup.doc # "protected"
      BY <2>2, <2>4 DEF OffPath
    <3>2. /\ "text" \in Afters /\ "text" \notin OffPath
          /\ Left("doc", "thumbnail") = {"thumb", "text"} /\ Left("doc", "text") = {"text"}
      BY <3>1 DEF Afters, OffPath, Left
    <3> QED  BY <2>1, <2>2, <2>4, <3>2, MakesIs
  <2>5. CASE /\ task["doc"].pc = "text"
             /\ Fails("doc", "text", Ends("doc")) \/ Stores("doc", "text", Ends("doc"))
    <3>1. setup.doc # "protected"
      BY <2>2, <2>5 DEF OffPath
    <3>2. Left("doc", "text") = {"text"}
      BY <3>1 DEF Left
    <3> QED  BY <2>1, <2>2, <2>5, <3>2, EndsAre, MakesIs
  <2> QED  BY <1>6, <2>1, <2>3, <2>4, <2>5 DEF DocStore
<1> QED  BY <1>2, <1>3, <1>4, <1>5, <1>6 DEF Work

\* Announced looks at the handler and at markers that are not those of the task.
LEMMA AnnouncedKept ==
  ASSUME Inv, Flow, handler.pc # "stored", NEW t \in Tasks, task[t].pc # "idle", Uses(t),
         handler' = handler, setup' = setup,
         \A k \in Kinds \ TaskKinds(t) : k \in markers \cup lost.put => k \in markers' \cup lost'.put
  PROVE  Announced'
<1>1. SUFFICES ASSUME handler.pc = "schedule", handler.stages # <<>>,
                      setup.mode[Head(handler.stages)] = "async"
               PROVE  TaskKinds(Head(handler.stages)) \ handler.marks \subseteq markers' \cup lost'.put
  BY DEF Announced
<1>2. PICK h \in Tasks : h = Head(handler.stages) /\ h \in Elems(handler.stages) /\ Uses(h)
  BY <1>1, HeadIs
<1>3. TaskInv(h) /\ TaskInv(t)
  BY DEF Flow
<1>4. h # t
  BY <1>1, <1>2, <1>3 DEF TaskInv, Planned
<1>5. TaskKinds(h) \subseteq Kinds \ TaskKinds(t)
  BY <1>2, <1>4, Apart, KindsAre
<1>6. TaskKinds(h) \ handler.marks \subseteq markers \cup lost.put
  BY <1>1, <1>2 DEF Flow, Announced
<1> QED  BY <1>2, <1>5, <1>6

\* A task that goes on, and neither starts nor ends, stays in the plan.
LEMMA PlanKept ==
  ASSUME NEW t \in Tasks, Planned(t), task[t].pc \notin {"idle", "done"}, task'[t].pc # "idle",
         handler' = handler, setup' = setup, Uses(t)
  PROVE  Planned(t)'
BY SameSetup DEF Planned

LEMMA WorkStep ==
  ASSUME Inv, Work
  PROVE  Inv' /\ (Alive => Firm)
<1>1. PICK t \in Tasks : WorkOf(t)
  BY WorkIs
<1>2. UNCHANGED <<setup, item, markers, handler, waiter, lost>>
  BY WorkIs
<1>3. task[t].pc \in AtWork /\ task[t].pc \notin {"idle", "update", "tell", "unmark", "done"}
  BY <1>1 DEF WorkOf, AtWork
<1>4. /\ Alive /\ Flow /\ item \in Items /\ handler.pc # "stored"
      /\ Types /\ Uses(t) /\ TaskInv(t) /\ Settling(t)
      /\ task[t].marks \subseteq TaskKinds(t)
  BY <1>3, AtTask
<1>5. Types'
  BY <1>1, <1>2, <1>4 DEF Types, WorkOf
<1>6. task'[t].pc \in {"preview", "finish", "update"}
  BY <1>1 DEF WorkOf
<1>7. Planned(t)' /\ Marked(t)'
  <2>1. Planned(t)'
    BY <1>2, <1>3, <1>4, <1>6, PlanKept DEF TaskInv
  <2>2. Marked(t)'
    BY <1>2, <1>3, <1>4, <1>6 DEF TaskInv, Marked
  <2> QED  BY <2>1, <2>2
<1>8. Settling(t)'
  <2>1. PendingOf(t) = Left(t, task[t].pc) /\ PendingOf(t)' = PendingOf(t)
    BY <1>2, <1>3, <1>4 DEF Settling, PendingOf
  <2>2. OffPath' = OffPath /\ \A pc : Left(t, pc)' = Left(t, pc)
    BY <1>2, SameSetup
  <2>3. CASE /\ task'[t].pc \in {"preview", "finish"} \ OffPath
             /\ Left(t, task'[t].pc) = Left(t, task[t].pc)
    BY <2>1, <2>2, <2>3 DEF Settling
  <2>4. CASE /\ task'[t].pc = "update" /\ task'[t].to \in Outcomes
             /\ task'[t].then \in Afters /\ (t = "doc" => task'[t].then \notin OffPath)
             /\ task'[t].set = "pending assets" /\ t = "doc"
             /\ Left(t, task'[t].then) = {} /\ task'[t].to # "generated"
    <3>1. "update" \notin OffPath
      BY DEF OffPath
    <3> QED  BY <2>1, <2>2, <2>4, <3>1 DEF Settling
  <2>5. CASE /\ task'[t].pc = "update" /\ task'[t].to \in Outcomes
             /\ task'[t].then \in Afters /\ (t = "doc" => task'[t].then \notin OffPath)
             /\ task'[t].set \in Assets /\ task'[t].set \in Left(t, task[t].pc)
             /\ Left(t, task[t].pc) \ {task'[t].set} = Left(t, task'[t].then)
             /\ task'[t].to = "generated" => task'[t].set \in stored'
    <3>1. "update" \notin OffPath /\ "pending assets" \notin Assets
      BY DEF OffPath, Assets
    <3> QED  BY <2>1, <2>2, <2>5, <3>1 DEF Settling
  <2> QED  BY <1>1, <2>3, <2>4, <2>5 DEF WorkOf
<1>9. TaskInv(t)'
  BY <1>7, <1>8 DEF TaskInv
<1>10. GeneratedIsStored' /\ Firm
  BY <1>1, <1>2, <1>4 DEF Flow, GeneratedIsStored, Alive, Firm, WorkOf
<1>11. Announced'
  BY <1>2, <1>3, <1>4, AnnouncedKept
<1>12. /\ \A u \in Tasks \ {t} : task'[u] = task[u]
       /\ task'[t].marks \subseteq TaskKinds(t) /\ stored \subseteq stored'
  BY <1>1, <1>4 DEF WorkOf
<1>13. Inv'
  BY <1>2, <1>4, <1>5, <1>9, <1>10, <1>11, <1>12, TaskStepKeeps
<1> QED  BY <1>10, <1>13

\* An update changes pending assets of the task, and leaves what is next.
LEMMA UpdateIs ==
  ASSUME Inv, NEW t \in Tasks, Update(t)
  PROVE  /\ task[t].to \in Outcomes
         /\ Targets(t) \cap Assets \subseteq PendingOf(t)
         /\ PendingOf(t) \ Targets(t) = Left(t, task[t].then)
         /\ task[t].to = "generated" => Targets(t) \cap Assets \subseteq stored
<1>1. task[t].pc = "update" /\ Settling(t) /\ Uses(t)
  BY AtTask DEF Update
<1>2. CASE task[t].set = "pending assets"
  BY <1>1, <1>2 DEF Settling, Targets, Unconverted, PendingOf, Owned
<1>3. CASE task[t].set # "pending assets"
  BY <1>1, <1>3 DEF Settling, Targets
<1> QED  BY <1>2, <1>3

LEMMA UpdateStep ==
  ASSUME Inv, NEW t \in Tasks, Update(t)
  PROVE  Inv' /\ Firm
<1>1. /\ task[t].pc = "update"
      /\ item' = Changed(t)
      /\ task' = [task EXCEPT ![t].pc = "tell", ![t].held = Copied(t)]
      /\ UNCHANGED <<setup, markers, stored, handler, waiter, lost, faults>>
  BY DEF Update
<1>2. /\ Alive /\ Flow /\ item \in Items /\ handler.pc # "stored"
      /\ Types /\ Uses(t) /\ TaskInv(t) /\ Settling(t) /\ task[t] \in Task
      /\ task[t].marks \subseteq TaskKinds(t)
  BY <1>1, AtTask
<1>3. /\ task[t].to \in Outcomes /\ task[t].to # "pending"
      /\ Targets(t) \cap Assets \subseteq PendingOf(t)
      /\ PendingOf(t) \ Targets(t) = Left(t, task[t].then)
      /\ task[t].to = "generated" => Targets(t) \cap Assets \subseteq stored
  BY UpdateIs DEF Outcomes
<1>4. /\ item' \in Items /\ item'.uploaded = item.uploaded
      /\ \A a \in Assets : item'.asset[a] = IF a \in Targets(t) THEN task[t].to ELSE item.asset[a]
  <2>1. task[t].to \in Statuses
    BY <1>3 DEF Outcomes, Statuses
  <2>2. item' = [item EXCEPT !.asset = [a \in Assets |-> IF a \in Targets(t) THEN task[t].to ELSE item.asset[a]]]
    BY <1>1 DEF Changed
  <2> QED  BY <1>2, <2>1, <2>2 DEF Items
<1>5. /\ \A u \in Tasks \ {t} : task'[u] = task[u]
      /\ task' \in [Tasks -> Task] /\ task'[t].pc = "tell" /\ task'[t].then = task[t].then
      /\ task'[t].marks = task[t].marks
  <2> DEFINE k == [task[t] EXCEPT !.pc = "tell", !.held = Copied(t)]
  <2>1. task' = [task EXCEPT ![t] = k]
    BY <1>1, <1>2 DEF Types
  <2>2. Copied(t) \in Items
    BY <1>1, <1>4 DEF Copied
  <2>3. k \in Task /\ k.pc = "tell" /\ k.then = task[t].then /\ k.marks = task[t].marks
    BY <1>2, <2>2 DEF Task, TaskSteps
  <2> HIDE DEF k
  <2> QED  BY <1>2, <2>1, <2>3 DEF Types
<1>6. Types'
  BY <1>1, <1>2, <1>4, <1>5 DEF Types
<1>7. Planned(t)' /\ Marked(t)'
  <2>1. Planned(t)'
    BY <1>1, <1>2, <1>5, PlanKept DEF TaskInv
  <2>2. Marked(t)'
    BY <1>1, <1>2, <1>5 DEF TaskInv, Marked
  <2> QED  BY <2>1, <2>2
<1>8. Settling(t)'
  <2>1. PendingOf(t)' = PendingOf(t) \ Targets(t)
    BY <1>2, <1>3, <1>4, LeftIs DEF PendingOf
  <2>2. PendingOf(t)' = Left(t, task[t].then)'
    BY <1>1, <1>3, <1>5, <2>1, SameSetup
  <2>3. "tell" \notin OffPath'
    BY DEF OffPath
  <2> QED  BY <1>1, <1>2, <1>5, <2>2, <2>3, SameSetup DEF Settling
<1>9. TaskInv(t)'
  BY <1>7, <1>8 DEF TaskInv
<1>10. GeneratedIsStored'
  BY <1>1, <1>2, <1>3, <1>4 DEF Flow, GeneratedIsStored
<1>11. Firm
  BY <1>3, <1>4 DEF Firm, PendingOf
<1>12. Announced'
  BY <1>1, <1>2, AnnouncedKept
<1>13. /\ \A a \in Assets \ Owned(t) : item'.asset[a] = item.asset[a]
       /\ \A a \in Assets : item.asset[a] # "pending" => item'.asset[a] # "pending"
  BY <1>3, <1>4 DEF PendingOf
<1>14. Inv'
  BY <1>1, <1>2, <1>4, <1>5, <1>6, <1>9, <1>10, <1>11, <1>12, <1>13, TaskStepKeeps
<1> QED  BY <1>11, <1>14

LEMMA TellStep ==
  ASSUME Inv, NEW t \in Tasks, Tell(t)
  PROVE  Inv' /\ Firm
<1>1. /\ task[t].pc = "tell"
      /\ task' = [task EXCEPT ![t].pc = task[t].then, ![t].set = None, ![t].to = None, ![t].then = None,
                              ![t].held = IF setup.mode[t] = "sequential" THEN @ ELSE None]
      /\ UNCHANGED <<setup, item, markers, stored, handler, waiter, lost, faults>>
  BY DEF Tell
<1>2. /\ Alive /\ Flow /\ item \in Items /\ handler.pc # "stored"
      /\ Types /\ Uses(t) /\ TaskInv(t) /\ Settling(t) /\ task[t] \in Task
      /\ task[t].marks \subseteq TaskKinds(t)
  BY <1>1, AtTask
<1>3. /\ task[t].then \in Afters /\ (t = "doc" => task[t].then \notin OffPath)
      /\ PendingOf(t) = Left(t, task[t].then)
  BY <1>1, <1>2 DEF Settling
<1>4. /\ \A u \in Tasks \ {t} : task'[u] = task[u]
      /\ task' \in [Tasks -> Task] /\ task'[t].pc = task[t].then
      /\ task'[t].marks = task[t].marks
  <2> DEFINE k == [task[t] EXCEPT !.pc = task[t].then, !.set = None, !.to = None, !.then = None,
                       !.held = IF setup.mode[t] = "sequential" THEN @ ELSE None]
  <2>1. task' = [task EXCEPT ![t] = k]
    BY <1>1, <1>2 DEF Types
  <2>2. task[t].then \in TaskSteps
    BY <1>3 DEF Afters, TaskSteps
  <2>3. k \in Task /\ k.pc = task[t].then /\ k.marks = task[t].marks
    BY <1>2, <2>2 DEF Task
  <2> HIDE DEF k
  <2> QED  BY <1>2, <2>1, <2>3 DEF Types
<1>5. Types'
  BY <1>1, <1>2, <1>4 DEF Types
<1>6. Planned(t)'
  BY <1>1, <1>2, <1>3, <1>4, PlanKept DEF TaskInv, Afters
<1>7. Marked(t)'
  BY <1>1, <1>2, <1>4 DEF TaskInv, Marked
<1>8. Settling(t)'
  <2>1. PendingOf(t)' = Left(t, task'[t].pc) /\ task'[t].pc \notin {"update", "tell"}
    BY <1>1, <1>3, <1>4 DEF PendingOf, Afters
  <2>2. OffPath' = OffPath /\ \A pc : Left(t, pc)' = Left(t, pc)
    BY <1>1, SameSetup
  <2> QED  BY <1>3, <1>4, <2>1, <2>2 DEF Settling
<1>9. TaskInv(t)'
  BY <1>6, <1>7, <1>8 DEF TaskInv
<1>10. GeneratedIsStored' /\ Firm
  BY <1>1, <1>2 DEF Flow, GeneratedIsStored, Alive, Firm
<1>11. Announced'
  BY <1>1, <1>2, AnnouncedKept
<1>12. Inv'
  BY <1>1, <1>2, <1>4, <1>5, <1>9, <1>10, <1>11, TaskStepKeeps
<1> QED  BY <1>10, <1>12

LEMMA UnmarkStep ==
  ASSUME Inv, NEW t \in Tasks, Unmark(t)
  PROVE  Inv' /\ Firm
<1>1. /\ task[t].pc = "unmark"
      /\ UNCHANGED <<setup, item, stored, handler, waiter>>
  BY DEF Unmark
<1>2. /\ Alive /\ Flow /\ item \in Items /\ handler.pc # "stored"
      /\ Types /\ Uses(t) /\ TaskInv(t) /\ Settling(t) /\ task[t] \in Task
      /\ task[t].marks \subseteq TaskKinds(t)
  BY <1>1, AtTask
<1>3. PICK k \in task[t].marks :
         /\ \/ markers' = markers \ {k} /\ UNCHANGED <<lost, faults>>
            \/ Fault /\ UNCHANGED markers /\ lost' = [lost EXCEPT !.removed = @ \cup {k}]
         /\ task' = [task EXCEPT ![t].marks = @ \ {k},
                                 ![t].pc = IF task[t].marks = {k} THEN "done" ELSE @]
  BY DEF Unmark
<1>4. /\ \A u \in Tasks \ {t} : task'[u] = task[u]
      /\ task' \in [Tasks -> Task] /\ task'[t].pc \in {"unmark", "done"}
      /\ task'[t].marks = task[t].marks \ {k}
  <2> DEFINE pc == IF task[t].marks = {k} THEN "done" ELSE "unmark"
             j == [task[t] EXCEPT !.marks = @ \ {k}, !.pc = pc]
  <2>1. task' = [task EXCEPT ![t] = j]
    BY <1>1, <1>2, <1>3 DEF Types
  <2>2. j \in Task /\ j.pc \in {"unmark", "done"} /\ j.marks = task[t].marks \ {k}
    BY <1>2 DEF Task, TaskSteps
  <2> HIDE DEF j
  <2> QED  BY <1>2, <2>1, <2>2 DEF Types
<1>5. k \in Kinds /\ k \in TaskKinds(t)
  BY <1>2, <1>3, KindsAre
<1>6. /\ lost' \in [put : SUBSET Kinds, removed : SUBSET Kinds] /\ lost'.put = lost.put
      /\ markers' \subseteq markers /\ markers \ {k} \subseteq markers'
      /\ faults' \in 0..MaxFaults
  BY <1>2, <1>3, <1>5, EventsAssumption DEF Types, Fault
<1>7. Types'
  BY <1>1, <1>2, <1>4, <1>6 DEF Types
<1>8. Planned(t)'
  <2>1. Planned(t)
    BY <1>2 DEF TaskInv
  <2> QED  BY <1>1, <1>4, <2>1, SameSetup DEF Planned
<1>9. Marked(t)'
  BY <1>4 DEF Marked
<1>10. Settling(t)'
  <2>1. PendingOf(t)' = {} /\ Left(t, task'[t].pc) = {}
    BY <1>1, <1>2, <1>4, LeftIs DEF Settling, PendingOf
  <2>2. task'[t].pc \notin OffPath
    BY <1>4 DEF OffPath
  <2> QED  BY <1>1, <1>4, <2>1, <2>2, SameSetup DEF Settling
<1>11. TaskInv(t)'
  BY <1>8, <1>9, <1>10 DEF TaskInv
<1>12. GeneratedIsStored' /\ Firm
  BY <1>1, <1>2 DEF Flow, GeneratedIsStored, Alive, Firm
<1>13. \A m \in Kinds \ TaskKinds(t) : m \in markers \cup lost.put => m \in markers' \cup lost'.put
  BY <1>5, <1>6
<1>14. Announced'
  BY <1>1, <1>2, <1>13, AnnouncedKept
<1>15. /\ task'[t].marks \subseteq TaskKinds(t) /\ lost.put \subseteq lost'.put
  BY <1>2, <1>4, <1>6
<1>16. Inv'
  BY <1>1, <1>2, <1>4, <1>6, <1>7, <1>11, <1>12, <1>13, <1>14, <1>15, TaskStepKeeps
<1> QED  BY <1>12, <1>16

(***************************************************************************)
(* The waiters.                                                            *)
(***************************************************************************)
LEMMA AwaitedIs ==
  /\ \A what : Awaited(what) \in SUBSET Kinds
  /\ Awaited("tasks") = Kinds /\ Awaited("text") = ContentKinds
BY DEF Awaited, Kinds, ContentKinds

\* After the answer, where the markers of the text are gone and none was lost,
\* the text is settled; where all are gone, everything is.
LEMMA QuietIsSettled ==
  ASSUME Inv, Alive, handler.pc = "answered",
         NEW ks \in SUBSET Kinds, ks \cap markers = {}, ks \cap lost.put = {}
  PROVE  /\ ContentKinds \subseteq ks => item.asset["text"] # "pending"
         /\ Kinds \subseteq ks => Settled(item)
<1>1. /\ Flow /\ handler.stages = <<>> /\ Elems(handler.stages) = {} /\ Types
      /\ \A t \in Tasks : TaskInv(t)
  BY PlansAre DEF Inv, Flow, Types
<1>2. ASSUME NEW t \in Tasks, Uses(t), TaskKinds(t) \cap ks # {}
      PROVE  \A a \in Owned(t) : item.asset[a] # "pending"
  <2>1. Planned(t) /\ Marked(t) /\ Settling(t)
    BY <1>1, <1>2 DEF TaskInv
  <2>2. task[t].pc \in {"unmark", "done"}
    <3>1. CASE setup.mode[t] = "async"
      BY <1>1, <1>2, <2>1, <3>1 DEF Planned, Marked
    <3>2. CASE setup.mode[t] # "async"
      BY <1>1, <1>2, <2>1, <3>2 DEF Planned
    <3> QED  BY <3>1, <3>2
  <2>3. PendingOf(t) = {}
    BY <2>1, <2>2, LeftIs DEF Settling
  <2> QED  BY <2>3 DEF PendingOf
<1>3. \A a \in Assets : item.asset[a] = "pending" => \E t \in Tasks : Uses(t) /\ a \in Owned(t)
  BY <1>1 DEF Flow
<1>4. ASSUME Kinds \subseteq ks PROVE Settled(item)
  <2>1. \A t \in Tasks : TaskKinds(t) \cap ks # {}
    BY <1>4, KindsAre
  <2> QED  BY <1>2, <1>3, <2>1 DEF Settled
<1>5. ASSUME ContentKinds \subseteq ks, item.asset["text"] = "pending" PROVE FALSE
  <2>1. PICK t \in Tasks : Uses(t) /\ "text" \in Owned(t)
    BY <1>3, <1>5 DEF Assets
  <2>2. t \in {"text", "doc"}
    BY <2>1 DEF Owned, Tasks
  <2>3. TaskKinds(t) \cap ks # {}
    <3>1. TaskKinds("text") # {}
      BY KindsAre DEF Tasks
    <3> QED  BY <1>5, <2>2, <3>1, KindsAre
  <2> QED  BY <1>2, <1>5, <2>1, <2>3
<1> QED  BY <1>4, <1>5

\* A waiter that goes to look at the markers, or keeps looking.
LEMMA HeadsIs ==
  ASSUME Types, NEW w \in Waiters, NEW what \in {"tasks", "text", "facts"}, NEW pass \in {1, 2},
         waiter' = Heads(w, what, pass)
  PROVE  /\ waiter' \in [Waiters -> Waiter] /\ \A v \in Waiters \ {w} : waiter'[v] = waiter[v]
         /\ waiter'[w].pc = "head" /\ waiter'[w].what = what /\ waiter'[w].pass = pass
         /\ waiter'[w].todo = Awaited(what)
<1> DEFINE m == [Waiting EXCEPT !.pc = "head", !.what = what, !.pass = pass, !.todo = Awaited(what)]
<1>1. waiter' = [waiter EXCEPT ![w] = m]
  BY DEF Heads
<1>2. m \in Waiter /\ m.pc = "head" /\ m.what = what /\ m.pass = pass /\ m.todo = Awaited(what)
  BY AwaitedIs DEF Waiting, Waiter
<1> HIDE DEF m
<1> QED  BY <1>1, <1>2 DEF Types

\* A step of one waiter.
LEMMA WaiterStepKeeps ==
  ASSUME Inv, Alive, NEW w \in Waiters, Seen(w)', Answers(w)',
         waiter' \in [Waiters -> Waiter], \A v \in Waiters \ {w} : waiter'[v] = waiter[v],
         faults' \in 0..MaxFaults,
         UNCHANGED <<setup, item, markers, stored, handler, task, lost>>
  PROVE  Inv'
<1>1. Types'
  BY DEF Inv, Types
<1>2. Flow' /\ OwnMarks' /\ Alive'
  BY TasksKept DEF Inv
<1>3. ASSUME NEW v \in Waiters \ {w} PROVE Seen(v)' /\ Answers(v)'
  BY DEF Inv, Seen, Answers, Informed
<1> QED  BY <1>1, <1>2, <1>3 DEF Inv

LEMMA AwaitStep ==
  ASSUME Inv, NEW w \in Waiters, AwaitTasks(w) \/ AwaitFacts(w),
         UNCHANGED <<setup, item, markers, stored, handler, task, socket, lost>>
  PROVE  Inv'
<1>1. Alive /\ faults' = faults /\ Types /\ Flow /\ item \in Items
  BY ItemIs DEF AwaitTasks, AwaitFacts, Inv
<1>2. CASE AwaitTasks(w)
  <2>1. PICK what \in {"tasks", "text"} : waiter' = Heads(w, what, 1)
    BY <1>2 DEF AwaitTasks
  <2>2. handler.pc = "answered"
    BY <1>2 DEF AwaitTasks
  <2>3. /\ waiter' \in [Waiters -> Waiter] /\ \A v \in Waiters \ {w} : waiter'[v] = waiter[v]
        /\ waiter'[w].pc = "head" /\ waiter'[w].what = what /\ waiter'[w].pass = 1
        /\ waiter'[w].todo = Awaited(what)
    BY <1>1, <2>1, HeadsIs
  <2>4. Seen(w)' /\ Answers(w)'
    BY <2>2, <2>3 DEF Seen, Answers
  <2> QED  BY <1>1, <2>3, <2>4, WaiterStepKeeps DEF Types
<1>3. CASE AwaitFacts(w)
  <2>1. /\ waiter' \in [Waiters -> Waiter] /\ \A v \in Waiters \ {w} : waiter'[v] = waiter[v]
        /\ waiter'[w].pc = "head" /\ waiter'[w].what = "facts" /\ waiter'[w].pass = 2
        /\ waiter'[w].todo = Awaited("facts")
    BY <1>1, <1>3, HeadsIs DEF AwaitFacts
  <2>2. /\ item.uploaded /\ (setup.mode["text"] = "sequential" => item.asset["text"] # "pending")
    BY <1>3 DEF AwaitFacts, FactsReady
  <2>3. handler.pc # "stored"
    BY <1>1, <2>2 DEF Flow, Before, Uploading
  <2>4. Seen(w)' /\ Answers(w)'
    BY <2>1, <2>2, <2>3 DEF Seen, Answers
  <2> QED  BY <1>1, <2>1, <2>4, WaiterStepKeeps DEF Types
<1> QED  BY <1>2, <1>3

\* What holds of a waiter while the process lives.
LEMMA AtWaiter ==
  ASSUME Inv, Alive, NEW w \in Waiters
  PROVE  Types /\ Flow /\ Seen(w) /\ Answers(w) /\ waiter[w] \in Waiter
BY DEF Inv, Types

LEMMA HeadMarkerStep ==
  ASSUME Inv, Alive, NEW w \in Waiters, HeadMarker(w),
         UNCHANGED <<setup, item, markers, stored, handler, task, socket, lost>>
  PROVE  Inv'
<1>1. Types /\ Flow /\ Seen(w) /\ Answers(w) /\ waiter[w] \in Waiter /\ waiter[w].pc = "head"
  BY AtWaiter DEF HeadMarker
<1>2. PICK k \in waiter[w].todo :
         \/ /\ waiter' = [waiter EXCEPT ![w].todo = @ \ {k}, ![w].pending = @ \/ k \in markers]
            /\ UNCHANGED faults
         \/ /\ Fault
            /\ waiter' = [waiter EXCEPT ![w].todo = @ \ {k}, ![w].blind = TRUE]
  BY DEF HeadMarker
<1>3. /\ waiter' \in [Waiters -> Waiter] /\ \A v \in Waiters \ {w} : waiter'[v] = waiter[v]
      /\ waiter'[w].pc = "head" /\ waiter'[w].what = waiter[w].what
      /\ waiter'[w].pass = waiter[w].pass /\ waiter'[w].todo = waiter[w].todo \ {k}
      /\ \/ waiter'[w].blind
         \/ /\ waiter'[w].blind = waiter[w].blind
            /\ waiter'[w].pending = (waiter[w].pending \/ k \in markers)
  <2>1. CASE /\ waiter' = [waiter EXCEPT ![w].todo = @ \ {k}, ![w].pending = @ \/ k \in markers]
    <3> DEFINE found == waiter[w].pending \/ k \in markers
               m == [waiter[w] EXCEPT !.todo = @ \ {k}, !.pending = found]
    <3>1. waiter' = [waiter EXCEPT ![w] = m]
      BY <1>1, <2>1 DEF Types
    <3>2. found \in BOOLEAN
      OBVIOUS
    <3> HIDE DEF found
    <3>3. /\ m \in Waiter /\ m.pc = waiter[w].pc /\ m.what = waiter[w].what
          /\ m.pass = waiter[w].pass /\ m.todo = waiter[w].todo \ {k}
          /\ m.blind = waiter[w].blind /\ m.pending = found
      BY <1>1, <3>2 DEF Waiter
    <3> HIDE DEF m
    <3> QED  BY <1>1, <3>1, <3>3 DEF Types, found
  <2>2. CASE waiter' = [waiter EXCEPT ![w].todo = @ \ {k}, ![w].blind = TRUE]
    <3> DEFINE m == [waiter[w] EXCEPT !.todo = @ \ {k}, !.blind = TRUE]
    <3>1. waiter' = [waiter EXCEPT ![w] = m]
      BY <1>1, <2>2 DEF Types
    <3>2. /\ m \in Waiter /\ m.pc = waiter[w].pc /\ m.what = waiter[w].what
          /\ m.pass = waiter[w].pass /\ m.todo = waiter[w].todo \ {k} /\ m.blind = TRUE
      BY <1>1 DEF Waiter
    <3> HIDE DEF m
    <3> QED  BY <1>1, <3>1, <3>2 DEF Types
  <2> QED  BY <1>2, <2>1, <2>2
<1>4. faults' \in 0..MaxFaults
  BY <1>1, <1>2, EventsAssumption DEF Types, Fault
<1>5. Seen(w)'
  <2>1. CASE waiter'[w].blind
    BY <1>1, <1>3, <2>1 DEF Seen
  <2>2. CASE /\ waiter'[w].blind = waiter[w].blind
             /\ waiter'[w].pending = (waiter[w].pending \/ k \in markers)
    <3>1. ASSUME waiter[w].what # "facts", ~waiter'[w].pending, ~waiter'[w].blind
          PROVE  (Awaited(waiter[w].what) \ waiter'[w].todo) \cap markers = {}
      <4>1. k \notin markers /\ (Awaited(waiter[w].what) \ waiter[w].todo) \cap markers = {}
        BY <1>1, <2>2, <3>1 DEF Seen
      <4> QED  BY <1>3, <4>1
    <3> QED  BY <1>1, <1>3, <3>1 DEF Seen
  <2> QED  BY <1>3, <2>1, <2>2
<1>6. Answers(w)'
  BY <1>3 DEF Answers
<1> QED  BY <1>3, <1>4, <1>5, <1>6, WaiterStepKeeps

LEMMA RoundEndsStep ==
  ASSUME Inv, Alive, NEW w \in Waiters, RoundEnds(w),
         UNCHANGED <<setup, item, markers, stored, handler, task, socket, lost>>
  PROVE  Inv'
<1> DEFINE me == waiter[w]
<1>1. /\ Types /\ Flow /\ Seen(w) /\ Answers(w) /\ me \in Waiter /\ me.pc = "head" /\ me.todo = {}
      /\ faults' = faults
  BY AtWaiter DEF RoundEnds
<1>2. ASSUME NEW what \in {"tasks", "text", "facts"}, what = me.what, NEW pass \in {1, 2},
             pass = 1 \/ what # "tasks", waiter' = Heads(w, what, pass)
      PROVE  Inv'
  <2>1. /\ waiter' \in [Waiters -> Waiter] /\ \A v \in Waiters \ {w} : waiter'[v] = waiter[v]
        /\ waiter'[w].pc = "head" /\ waiter'[w].what = what /\ waiter'[w].pass = pass
        /\ waiter'[w].todo = Awaited(what)
    BY <1>1, <1>2, HeadsIs
  <2>2. Seen(w)' /\ Answers(w)'
    BY <1>1, <1>2, <2>1 DEF Seen, Answers
  <2> QED  BY <1>1, <2>1, <2>2, WaiterStepKeeps DEF Types
<1>3. ASSUME NEW pc \in {"pending", "ready", "generated", "absent"},
             waiter' = [waiter EXCEPT ![w].pc = pc],
             pc # "pending" => ~me.pending,
             pc = "ready" => me.what = "tasks",
             pc = "absent" => me.pass = 2 /\ "text" \notin stored
      PROVE  Inv'
  <2>1. /\ waiter' \in [Waiters -> Waiter] /\ \A v \in Waiters \ {w} : waiter'[v] = waiter[v]
        /\ waiter'[w] = [me EXCEPT !.pc = pc]
    BY <1>1, <1>3 DEF Types, Waiter
  <2>2. /\ waiter'[w].pc = pc /\ waiter'[w].what = me.what /\ waiter'[w].pass = me.pass
        /\ waiter'[w].blind = me.blind
    BY <1>1, <2>1 DEF Waiter
  <2>3. Seen(w)'
    BY <1>1, <1>3, <2>2 DEF Seen
  <2>4. ASSUME Informed(w)', me.what # "facts", ~me.pending
        PROVE  /\ handler.pc = "answered"
               /\ Awaited(me.what) \cap markers = {} /\ Awaited(me.what) \cap lost.put = {}
    BY <1>1, <2>2, <2>4 DEF Informed, Seen
  <2>5. ASSUME Informed(w)', pc = "ready" PROVE Settled(item)
    BY <1>1, <1>3, <2>4, <2>5, AwaitedIs, QuietIsSettled
  <2>6. ASSUME Informed(w)', pc = "absent", me.what = "text" \/ setup.mode["text"] = "sequential"
        PROVE  item.asset["text"] \notin {"pending", "generated"}
    <3>1. item.asset["text"] # "generated"
      BY <1>1, <1>3, <2>6 DEF Flow, GeneratedIsStored, Assets
    <3>2. CASE me.what = "text"
      BY <1>1, <1>3, <2>4, <2>6, <3>1, <3>2, AwaitedIs, QuietIsSettled
    <3>3. CASE me.what = "facts"
      BY <1>1, <2>6, <3>1, <3>3 DEF Seen
    <3>4. me.what # "tasks"
      BY <1>1, <1>3, <2>6 DEF Seen
    <3> QED  BY <1>1, <3>2, <3>3, <3>4 DEF Waiter
  <2>7. Answers(w)'
    BY <2>2, <2>5, <2>6 DEF Answers
  <2> QED  BY <1>1, <2>1, <2>3, <2>7, WaiterStepKeeps DEF Types
<1>4. me.what \in {"tasks", "text", "facts"} /\ me.pass \in {1, 2} /\ me.pending \in BOOLEAN
  BY <1>1 DEF Waiter
<1>5. \/ \E what \in {"tasks", "text", "facts"} : what = me.what /\ waiter' = Heads(w, what, 1)
      \/ me.what = "text" /\ waiter' = Heads(w, "text", 2)
      \/ waiter' = [waiter EXCEPT ![w].pc = "pending"]
      \/ ~me.pending /\ me.what = "tasks" /\ waiter' = [waiter EXCEPT ![w].pc = "ready"]
      \/ /\ ~me.pending /\ me.pass = 2
         /\ waiter' = [waiter EXCEPT ![w].pc = IF "text" \in stored THEN "generated" ELSE "absent"]
  BY <1>4 DEF RoundEnds
<1>6. CASE \E what \in {"tasks", "text", "facts"} : what = me.what /\ waiter' = Heads(w, what, 1)
  BY <1>2, <1>6
<1>7. CASE me.what = "text" /\ waiter' = Heads(w, "text", 2)
  BY <1>2, <1>7
<1>8. CASE waiter' = [waiter EXCEPT ![w].pc = "pending"]
  BY <1>3, <1>8
<1>9. CASE ~me.pending /\ me.what = "tasks" /\ waiter' = [waiter EXCEPT ![w].pc = "ready"]
  BY <1>3, <1>9
<1>10. CASE /\ ~me.pending /\ me.pass = 2
            /\ waiter' = [waiter EXCEPT ![w].pc = IF "text" \in stored THEN "generated" ELSE "absent"]
  <2>1. CASE "text" \in stored
    BY <1>3, <1>10, <2>1
  <2>2. CASE "text" \notin stored
    BY <1>3, <1>10, <2>2
  <2> QED  BY <2>1, <2>2
<1> QED  BY <1>5, <1>6, <1>7, <1>8, <1>9, <1>10

LEMMA CrashStep ==
  ASSUME Inv, Crash
  PROVE  Inv' /\ ~Alive'
<1>1. /\ Alive /\ Types /\ Flow /\ item' = None
  BY DEF Crash, Inv
<1>2. /\ handler' = [handler EXCEPT !.pc = IF @ = "answered" THEN @ ELSE "dead", !.stages = <<>>,
                                    !.marks = {}, !.held = None]
      /\ task' = [t \in Tasks |-> Idle] /\ waiter' = [w \in Waiters |-> Waiting]
      /\ lost' = [lost EXCEPT !.removed = @ \cup markers]
      /\ Fault /\ UNCHANGED <<setup, markers, stored>>
  BY DEF Crash
<1>3. handler'.pc \in {"answered", "dead"}
  BY <1>1, <1>2 DEF Types
<1>4. handler' \in [pc : {"stored", "schedule", "answered", "dead"}, stages : Plans,
                    marks : SUBSET Kinds, held : Items \cup {None}]
  BY <1>1, <1>2 DEF Types, Plans
<1>5. Idle \in Task /\ Waiting \in Waiter
  BY DEF Idle, Task, TaskSteps, Waiting, Waiter
<1>6. Types'
  BY <1>1, <1>2, <1>4, <1>5, EventsAssumption DEF Types, Fault
<1>7. Stopped' /\ OwnMarks' /\ ~Alive'
  BY <1>1, <1>2, <1>3 DEF Stopped, OwnMarks, Idle, Alive
<1> QED  BY <1>6, <1>7 DEF Inv

(***************************************************************************)
(* The invariant holds, and settled assets stay as they are.               *)
(***************************************************************************)
\* While the server lives no step changes an asset that is already settled
\* (updateThumbnailForUpload, updateTextExtractionForUpload, updateDocumentPreview
\* and failDocument).
SettledStays == Alive /\ item.uploaded /\ Alive' => Firm

LEMMA InvNext ==
  ASSUME Inv, [Next]_vars
  PROVE  Inv' /\ SettledStays
<1>1. CASE Handler
  <2>1. Inv'
    BY <1>1, AcceptStep, PutMarkerStep, SpawnStep, RunInlineStep, AnswerStep DEF Handler
  <2>2. CASE Accept
    <3>1. Alive => ~item.uploaded
      BY <2>2 DEF Inv, Accept, Flow, Before, Uploading
    <3> QED  BY <2>1, <3>1 DEF SettledStays
  <2>3. CASE item' = item
    BY <2>1, <2>3 DEF SettledStays, Firm
  <2> QED  BY <1>1, <2>2, <2>3 DEF Handler, PutMarker, Spawn, RunInline, Answer
<1>2. CASE TaskStep
  BY <1>2, WorkStep, UpdateStep, TellStep, UnmarkStep DEF TaskStep, SettledStays
<1>3. CASE \/ \E s \in Sockets : Deliver(s)
           \/ Client /\ UNCHANGED <<setup, item, markers, stored, handler, task, waiter, lost, faults>>
  BY <1>3, SocketStep DEF Deliver, SettledStays, Firm
<1>4. CASE Backend /\ UNCHANGED <<setup, item, markers, stored, handler, task, socket, lost>>
  <2>1. PICK w \in Waiters : AwaitTasks(w) \/ AwaitFacts(w) \/ HeadMarker(w) \/ RoundEnds(w)
    BY <1>4 DEF Backend
  <2>2. CASE AwaitTasks(w) \/ AwaitFacts(w)
    BY <1>4, <2>2, AwaitStep DEF SettledStays, Firm
  <2>3. CASE HeadMarker(w) \/ RoundEnds(w)
    <3>1. Alive
      BY <2>3 DEF Inv, Stopped, Waiting, HeadMarker, RoundEnds
    <3> QED  BY <1>4, <2>3, <3>1, HeadMarkerStep, RoundEndsStep DEF SettledStays, Firm
  <2> QED  BY <2>1, <2>2, <2>3
<1>5. CASE Crash
  BY <1>5, CrashStep DEF SettledStays
<1>6. CASE UNCHANGED vars
  BY <1>6, SocketStep DEF vars, SettledStays, Firm
<1> QED  BY <1>1, <1>2, <1>3, <1>4, <1>5, <1>6 DEF Next

THEOREM EventsInvariant == Spec => []Inv
<1>1. Init => Inv
  BY InvInit
<1>2. Inv /\ [Next]_vars => Inv'
  BY InvNext
<1> QED  BY <1>1, <1>2, PTL DEF Spec

\* A backend that waits after the upload was answered (waitAsyncTasks,
\* getExtractedContent) is told "ready" only when every asset is settled, and a
\* text it is told is absent is never generated later: a marker is put before its
\* task is started and removed after the last asset of the task is settled.
THEOREM WaitersAreRight == Spec => []ReadyMeansSettled
<1>1. Inv => ReadyMeansSettled
  BY DEF Inv, ReadyMeansSettled, Answers
<1> QED  BY <1>1, EventsInvariant, PTL

\* Where an asset is generated its object is in the bucket: the update of the item
\* comes after the PUT.
THEOREM GeneratedAssetsExist == Spec => []GeneratedIsStored
<1>1. Inv => GeneratedIsStored
  BY DEF Inv, Flow, GeneratedIsStored
<1> QED  BY <1>1, EventsInvariant, PTL

\* An asset that is settled, generated or failed or skipped, is never changed again:
\* failDocument after a stored preview, an update after the answer, and the three
\* goroutines in any order touch only what is pending.
THEOREM SettledOnce == Spec => [][SettledStays]_vars
<1>1. Inv /\ [Next]_vars => [SettledStays]_vars
  BY InvNext
<1> QED  BY <1>1, EventsInvariant, PTL DEF Spec

(***************************************************************************)
(* What is sent: sockets, and the copies that will be broadcast.           *)
(***************************************************************************)
Socket == [open : BOOLEAN, watching : BOOLEAN, chan : Seq(Items \cup {None}),
           held : Items \cup {None}, asks : Nat, dropped : BOOLEAN,
           saw : SUBSET {"uploaded", "settled"}]

\* A message tells of no asset that is not in the bucket.
Told(m, st) == m # None => \A a \in Assets : m.asset[a] = "generated" => a \in st

Fits(k, st) ==
    /\ k \in Socket /\ Len(k.chan) <= Capacity /\ k.asks <= MaxAsks
    /\ Told(k.held, st) /\ \A i \in 1..Len(k.chan) : Told(k.chan[i], st)

SocketsFit == \A s \in Sockets : Fits(socket[s], stored)
CopiesTrue == Told(handler.held, stored) /\ \A t \in Tasks : Told(task[t].held, stored)
Listed     == \A w \in Waiters : waiter[w].todo \subseteq Awaited(waiter[w].what)

News ==
    /\ SocketsFit /\ CopiesTrue /\ Listed
    /\ DOMAIN socket = Sockets

LEMMA FitsMore ==
  ASSUME NEW k, NEW st, NEW more, Fits(k, st), st \subseteq more
  PROVE  Fits(k, more)
BY DEF Fits, Told

LEMMA Appended ==
  ASSUME NEW k, NEW st, NEW m \in Items \cup {None}, Fits(k, st), Told(m, st),
         Len(k.chan) < Capacity
  PROVE  LET c == Append(k.chan, m) IN
         /\ c \in Seq(Items \cup {None}) /\ Len(c) <= Capacity
         /\ \A i \in 1..Len(c) : Told(c[i], st)
<1>1. k.chan \in Seq(Items \cup {None}) /\ Len(k.chan) \in Nat /\ Capacity \in Nat
  BY EventsAssumption DEF Fits, Socket
<1> DEFINE c == Append(k.chan, m)
<1>2. /\ c \in Seq(Items \cup {None}) /\ Len(c) = Len(k.chan) + 1
      /\ \A i \in 1..Len(c) : c[i] = IF i = Len(k.chan) + 1 THEN m ELSE k.chan[i]
  BY <1>1
<1>3. ASSUME NEW i \in 1..Len(c) PROVE Told(c[i], st)
  <2>1. CASE i = Len(k.chan) + 1
    BY <1>2, <2>1
  <2>2. CASE i # Len(k.chan) + 1
    <3>1. i \in 1..Len(k.chan) /\ c[i] = k.chan[i]
      BY <1>1, <1>2, <2>2
    <3> QED  BY <3>1 DEF Fits
  <2> QED  BY <2>1, <2>2
<1> HIDE DEF c
<1> QED  BY <1>1, <1>2, <1>3 DEF c

LEMMA OfferedFits ==
  ASSUME NEW k, NEW st, NEW m \in Items \cup {None}, Fits(k, st), Told(m, st)
  PROVE  Fits(Offered(k, m), st)
<1>1. CASE k.watching /\ Len(k.chan) < Capacity
  <2> DEFINE c == Append(k.chan, m)
  <2>1. /\ c \in Seq(Items \cup {None}) /\ Len(c) <= Capacity
        /\ \A i \in 1..Len(c) : Told(c[i], st)
    BY <1>1, Appended
  <2>2. Offered(k, m) = [k EXCEPT !.chan = c]
    BY <1>1 DEF Offered
  <2> HIDE DEF c
  <2> QED  BY <2>1, <2>2 DEF Fits, Socket
<1>2. CASE k.watching /\ ~(Len(k.chan) < Capacity)
  BY <1>2 DEF Offered, Fits, Socket
<1>3. CASE ~k.watching
  BY <1>3 DEF Offered
<1> QED  BY <1>1, <1>2, <1>3

\* What a client asks for changes no message; a closed socket has none.
LEMMA AskedFits ==
  ASSUME NEW k, NEW st, Fits(k, st), NEW watching \in BOOLEAN,
         NEW held \in Items \cup {None}, Told(held, st),
         NEW asks \in Nat, asks <= MaxAsks
  PROVE  Fits([k EXCEPT !.watching = watching, !.held = held, !.asks = asks], st)
<1> DEFINE j == [k EXCEPT !.watching = watching, !.held = held, !.asks = asks]
<1>1. k \in Socket
  BY DEF Fits
<1>2. j \in Socket /\ j.chan = k.chan /\ j.held = held /\ j.asks = asks
  BY <1>1 DEF Socket
<1> HIDE DEF j
<1>3. Fits(j, st)
  BY <1>2 DEF Fits
<1> QED  BY <1>3 DEF j

LEMMA ClosedFits ==
  ASSUME NEW st
  PROVE  Fits([Unwatched EXCEPT !.open = FALSE, !.asks = MaxAsks], st)
<1> DEFINE j == [Unwatched EXCEPT !.open = FALSE, !.asks = MaxAsks]
<1>1. j \in Socket /\ j.chan = <<>> /\ j.held = None /\ j.asks = MaxAsks
  <2>1. MaxAsks \in Nat /\ <<>> \in Seq(Items \cup {None})
    BY EventsAssumption
  <2>2. Unwatched \in Socket /\ Unwatched.chan = <<>> /\ Unwatched.held = None
    BY <2>1 DEF Unwatched, Socket
  <2> QED  BY <2>1, <2>2 DEF Socket
<1> HIDE DEF j
<1>2. Fits(j, st)
  BY <1>1, EventsAssumption DEF Fits, Told
<1> QED  BY <1>2 DEF j

LEMMA BroadcastFits ==
  ASSUME News, NEW m \in Items \cup {None}, Told(m, stored), Broadcast(m)
  PROVE  \A s \in Sockets : Fits(socket'[s], stored)
BY OfferedFits DEF Broadcast, News, SocketsFit

LEMMA NewsInit ==
  ASSUME Init
  PROVE  News
<1>1. Fits(Unwatched, stored)
  BY EventsAssumption DEF Fits, Unwatched, Socket, Told
<1> QED  BY <1>1 DEF Init, News, SocketsFit, CopiesTrue, Listed, Told, Idle, Waiting

LEMMA CopiesNext ==
  ASSUME Inv, CopiesTrue, [Next]_vars
  PROVE  CopiesTrue' /\ stored \subseteq stored'
<1>0. Told(None, stored) /\ Told(None, stored')
  BY DEF Told
<1>item. Alive => Types /\ Told(item, stored)
  BY DEF Inv, Flow, GeneratedIsStored, Told
<1>more. ASSUME NEW m, Told(m, stored), stored \subseteq stored' PROVE Told(m, stored')
  BY <1>more DEF Told
<1>1. CASE Accept
  <2>1. Told(item', stored)
    BY <1>1 DEF Accept, Pending, Told
  <2> QED  BY <1>1, <2>1 DEF Accept, CopiesTrue
<1>2. CASE PutMarker
  <2>1. handler.pc = "schedule" /\ Types
    BY <1>2 DEF PutMarker, Inv
  <2>2. handler'.held = handler.held
    BY <1>2, <2>1 DEF PutMarker, Types
  <2> QED  BY <1>2, <2>2 DEF PutMarker, CopiesTrue
<1>3. CASE Spawn \/ RunInline
  <2>1. Types /\ Alive /\ handler.pc = "schedule" /\ handler.stages # <<>>
    BY <1>3, AtHandler DEF Spawn, RunInline
  <2>2. PICK t \in Tasks : t = Head(handler.stages)
    BY <2>1, HeadIs
  <2>3. Started(t).held = None /\ UNCHANGED stored
    BY <1>3 DEF Started, Idle, Spawn, RunInline
  <2>4. /\ task' = [task EXCEPT ![t] = Started(t)] \/ task' = task
        /\ handler'.held \in {handler.held, item, task[t].held}
    BY <1>3, <2>1, <2>2 DEF Spawn, RunInline, Types
  <2>5. Told(handler'.held, stored)
    BY <1>item, <2>1, <2>4 DEF CopiesTrue
  <2>6. \A u \in Tasks : Told(task'[u].held, stored)
    BY <1>0, <2>1, <2>3, <2>4 DEF CopiesTrue, Types
  <2> QED  BY <2>3, <2>5, <2>6 DEF CopiesTrue
<1>4. CASE Answer
  <2>1. handler'.held = None
    BY <1>4 DEF Answer, Inv, Types
  <2> QED  BY <1>0, <1>4, <2>1 DEF Answer, CopiesTrue
<1>5. CASE Work
  <2>1. PICK t \in Tasks : WorkOf(t)
    BY <1>5, WorkIs
  <2>2. handler' = handler /\ stored \subseteq stored' /\ \A u \in Tasks : task'[u].held = task[u].held
    BY <1>5, <2>1, WorkIs DEF WorkOf
  <2> QED  BY <1>more, <2>2 DEF CopiesTrue
<1>6. ASSUME NEW t \in Tasks, Update(t) PROVE CopiesTrue' /\ stored' = stored
  <2>1. /\ item' = Changed(t) /\ UNCHANGED <<stored, handler>>
        /\ task' = [task EXCEPT ![t].pc = "tell", ![t].held = Copied(t)]
    BY <1>6 DEF Update
  <2>2. Inv' /\ Alive'
    <3>1. task'[t].pc = "tell"
      BY <2>1 DEF Inv, Types, Task
    <3>2. Inv'
      BY <1>6, UpdateStep
    <3> QED  BY <3>1, <3>2 DEF Inv, Stopped, Idle
  <2>3. Told(Copied(t), stored)
    BY <2>1, <2>2 DEF Inv, Flow, GeneratedIsStored, Told, Copied
  <2>4. \A u \in Tasks : task'[u].held \in {task[u].held, Copied(t)}
    <3>1. task \in [Tasks -> Task] /\ task[t] \in Task
      BY DEF Inv, Types
    <3>2. task'[t].held = Copied(t) /\ \A u \in Tasks \ {t} : task'[u] = task[u]
      BY <2>1, <3>1 DEF Task
    <3> QED  BY <3>2
  <2> QED  BY <2>1, <2>3, <2>4 DEF CopiesTrue
<1>7. ASSUME NEW t \in Tasks, Tell(t) \/ Unmark(t) PROVE CopiesTrue' /\ stored' = stored
  <2>1. UNCHANGED <<stored, handler>>
    BY <1>7 DEF Tell, Unmark
  <2>2. /\ task \in [Tasks -> Task] /\ task[t] \in Task
        /\ \A u \in Tasks \ {t} : task'[u] = task[u]
    BY <1>7 DEF Tell, Unmark, Inv, Types
  <2>3. CASE Tell(t)
    <3>1. task'[t].held = IF setup.mode[t] = "sequential" THEN task[t].held ELSE None
      BY <2>2, <2>3 DEF Tell, Task
    <3> QED  BY <1>0, <2>1, <2>2, <3>1 DEF CopiesTrue
  <2>4. CASE Unmark(t)
    <3>1. PICK k : task' = [task EXCEPT ![t].marks = @ \ {k},
                              ![t].pc = IF task[t].marks = {k} THEN "done" ELSE @]
      BY <2>4 DEF Unmark
    <3>2. task'[t] = [task[t] EXCEPT !.marks = @ \ {k},
                              !.pc = IF task[t].marks = {k} THEN "done" ELSE @]
      BY <2>2, <3>1
    <3>3. task'[t].held = task[t].held
      BY <2>2, <3>2 DEF Task
    <3> QED  BY <2>1, <2>2, <3>3 DEF CopiesTrue
  <2> QED  BY <1>7, <2>3, <2>4
<1>8. CASE Crash
  <2>1. handler'.held = None
    BY <1>8 DEF Crash, Inv, Types
  <2> QED  BY <1>0, <1>8, <2>1 DEF Crash, CopiesTrue, Idle
<1>9. CASE UNCHANGED <<stored, handler, task>>
  BY <1>9 DEF CopiesTrue
<1> QED
  BY <1>1, <1>2, <1>3, <1>4, <1>5, <1>6, <1>7, <1>8, <1>9
     DEF Next, Handler, TaskStep, Deliver, vars

LEMMA ListedNext ==
  ASSUME Inv, Listed, [Next]_vars
  PROVE  Listed'
<1>1. CASE waiter' = waiter
  BY <1>1 DEF Listed
<1>2. CASE waiter' = [w \in Waiters |-> Waiting]
  BY <1>2 DEF Listed, Waiting
<1>3. ASSUME NEW w \in Waiters, AwaitTasks(w) \/ AwaitFacts(w) \/ HeadMarker(w) \/ RoundEnds(w)
      PROVE  Listed'
  <2>1. Types /\ waiter[w] \in Waiter
    BY DEF Inv, Types
  <2>2. ASSUME NEW what \in {"tasks", "text", "facts"}, NEW pass \in {1, 2}, waiter' = Heads(w, what, pass)
        PROVE  Listed'
    BY <2>1, <2>2, HeadsIs DEF Listed
  <2>3. ASSUME \A v \in Waiters : /\ waiter'[v].what = waiter[v].what
                                  /\ waiter'[v].todo \subseteq waiter[v].todo
        PROVE  Listed'
    BY <2>3 DEF Listed
  <2>4. CASE AwaitTasks(w)
    BY <2>2, <2>4 DEF AwaitTasks
  <2>5. CASE AwaitFacts(w)
    BY <2>2, <2>5 DEF AwaitFacts
  <2>6. CASE HeadMarker(w)
    BY <2>1, <2>3, <2>6 DEF HeadMarker, Types, Waiter
  <2>7. CASE RoundEnds(w)
    <3>1. waiter[w].what \in {"tasks", "text", "facts"}
      BY <2>1 DEF Waiter
    <3>2. CASE \E what \in {"tasks", "text", "facts"}, pass \in {1, 2} : waiter' = Heads(w, what, pass)
      BY <2>2, <3>2
    <3>3. CASE \E pc : waiter' = [waiter EXCEPT ![w].pc = pc]
      BY <2>1, <2>3, <3>3 DEF Types, Waiter
    <3> QED  BY <2>7, <3>1, <3>2, <3>3 DEF RoundEnds
  <2> QED  BY <1>3, <2>4, <2>5, <2>6, <2>7
<1>4. Handler \/ TaskStep => waiter' = waiter
  BY DEF Handler, Accept, PutMarker, Spawn, RunInline, Answer, TaskStep, Work, Update, Tell, Unmark
<1> QED  BY <1>1, <1>2, <1>3, <1>4 DEF Next, Backend, Crash, Deliver, vars

\* A step of a socket's own goroutines or client.
LEMMA SocketSteps ==
  ASSUME Inv, News, NEW s \in Sockets,
         Send(s) \/ Write(s) \/ Watch(s) \/ Unwatch(s) \/ Ping(s) \/ Close(s)
  PROVE  /\ DOMAIN socket' = Sockets
         /\ \A r \in Sockets : Fits(socket'[r], stored)
<1> DEFINE k == socket[s]
<1>0. Fits(k, stored) /\ k \in Socket
  BY DEF News, SocketsFit, Fits
<1>1. ASSUME NEW j, Fits(j, stored), socket' = [socket EXCEPT ![s] = j]
      PROVE  /\ DOMAIN socket' = Sockets
             /\ \A r \in Sockets : Fits(socket'[r], stored)
  BY <1>1 DEF News, SocketsFit
<1>2. MaxAsks \in Nat /\ Capacity \in Nat /\ k.asks \in Nat
  BY <1>0, EventsAssumption DEF Socket
<1>asked. ASSUME k.asks < MaxAsks, NEW watching \in BOOLEAN,
                 NEW held \in Items \cup {None}, Told(held, stored),
                 socket' = [socket EXCEPT ![s] = [k EXCEPT !.watching = watching, !.held = held,
                                                           !.asks = k.asks + 1]]
          PROVE  /\ DOMAIN socket' = Sockets
                 /\ \A r \in Sockets : Fits(socket'[r], stored)
  <2>1. PICK asks \in Nat : asks = k.asks + 1 /\ asks <= MaxAsks
    BY <1>2, <1>asked
  <2>2. Fits([k EXCEPT !.watching = watching, !.held = held, !.asks = asks], stored)
    BY <1>0, <1>asked, <2>1, AskedFits
  <2> QED  BY <1>1, <1>asked, <2>1, <2>2
<1>3. CASE Send(s)
  <2> DEFINE c == Append(k.chan, k.held)
             j == [k EXCEPT !.chan = c, !.held = None]
  <2>1. socket' = [socket EXCEPT ![s] = j] /\ Len(k.chan) < Capacity
    BY <1>3 DEF Send, News
  <2>2. k.held \in Items \cup {None} /\ Told(k.held, stored)
    BY <1>0 DEF Socket, Fits
  <2>3. /\ c \in Seq(Items \cup {None}) /\ Len(c) <= Capacity
        /\ \A i \in 1..Len(c) : Told(c[i], stored)
    <3>1. PICK m \in Items \cup {None} : m = k.held
      BY <2>2
    <3> QED  BY <1>0, <2>1, <2>2, <3>1, Appended
  <2> HIDE DEF c
  <2>4. Fits(j, stored)
    BY <1>0, <2>3 DEF Fits, Socket, Told
  <2> QED  BY <1>1, <2>1, <2>4
<1>4. CASE Write(s)
  <2> DEFINE c == Tail(k.chan)
             saw == k.saw \cup Learnt(Head(k.chan))
             j == [k EXCEPT !.chan = c, !.saw = saw]
  <2>1. socket' = [socket EXCEPT ![s] = j] /\ k.chan # <<>>
    BY <1>4 DEF Write, News
  <2>2. k.chan \in Seq(Items \cup {None}) /\ Len(k.chan) \in Nat /\ Len(k.chan) <= Capacity
    BY <1>0 DEF Fits, Socket
  <2>3. /\ c \in Seq(Items \cup {None}) /\ Len(c) <= Capacity
        /\ \A i \in 1..Len(c) : Told(c[i], stored)
    <3>1. c \in Seq(Items \cup {None}) /\ Len(c) = Len(k.chan) - 1
      BY <2>1, <2>2
    <3>2. ASSUME NEW i \in 1..Len(c) PROVE Told(c[i], stored)
      <4>1. c[i] = k.chan[i + 1] /\ i + 1 \in 1..Len(k.chan)
        BY <2>1, <2>2, <3>1
      <4> QED  BY <1>0, <4>1 DEF Fits
    <3> QED  BY <1>2, <2>2, <3>1, <3>2
  <2>4. saw \in SUBSET {"uploaded", "settled"}
    <3>1. Learnt(Head(k.chan)) \subseteq {"uploaded", "settled"}
      BY DEF Learnt
    <3> QED  BY <1>0, <3>1 DEF Socket
  <2> HIDE DEF c, saw
  <2>5. Fits(j, stored)
    BY <1>0, <2>3, <2>4 DEF Fits, Socket
  <2> QED  BY <1>1, <2>1, <2>5
<1>5. CASE Watch(s)
  <2>1. Alive /\ k.asks < MaxAsks /\ socket' =
          [socket EXCEPT ![s] = [k EXCEPT !.watching = TRUE, !.held = item, !.asks = k.asks + 1]]
    BY <1>5 DEF Watch, Asking, News
  <2>2. item \in Items /\ Told(item, stored)
    BY <2>1, ItemIs DEF Inv, Flow, GeneratedIsStored, Told
  <2>3. PICK held \in Items \cup {None} : held = item
    BY <2>2
  <2> QED  BY <1>asked, <2>1, <2>2, <2>3
<1>6. CASE Unwatch(s)
  <2>1. k.asks < MaxAsks /\ socket' =
          [socket EXCEPT ![s] = [k EXCEPT !.watching = FALSE, !.asks = k.asks + 1]]
    BY <1>6 DEF Unwatch, Asking, News
  <2>2. PICK held \in Items \cup {None} : held = k.held /\ Told(held, stored)
    BY <1>0 DEF Fits, Socket
  <2>3. [k EXCEPT !.watching = FALSE, !.asks = k.asks + 1]
          = [k EXCEPT !.watching = FALSE, !.held = held, !.asks = k.asks + 1]
    BY <1>0, <2>2 DEF Socket
  <2> QED  BY <1>asked, <2>1, <2>2, <2>3
<1>7. CASE Ping(s)
  <2>1. k.asks < MaxAsks /\ socket' =
          [socket EXCEPT ![s] = [k EXCEPT !.held = Pong, !.asks = k.asks + 1]]
    BY <1>7 DEF Ping, Asking, News
  <2>2. Pong \in Items \cup {None} /\ Told(Pong, stored)
    BY DEF Pong, Uploading, NoAssets, Items, Statuses, Told
  <2>3. PICK watching \in BOOLEAN : watching = k.watching
    BY <1>0 DEF Socket
  <2>4. [k EXCEPT !.held = Pong, !.asks = k.asks + 1]
          = [k EXCEPT !.watching = watching, !.held = Pong, !.asks = k.asks + 1]
    BY <1>0, <2>3 DEF Socket
  <2> QED  BY <1>asked, <2>1, <2>2, <2>3, <2>4
<1>8. CASE Close(s)
  BY <1>1, <1>8, ClosedFits DEF Close
<1> QED  BY <1>3, <1>4, <1>5, <1>6, <1>7, <1>8

LEMMA NewsNext ==
  ASSUME Inv, News, [Next]_vars
  PROVE  News'
<1>1. CopiesTrue' /\ Listed' /\ stored \subseteq stored'
  BY CopiesNext, ListedNext DEF News
<1>2. SUFFICES DOMAIN socket' = Sockets /\ \A s \in Sockets : Fits(socket'[s], stored')
  BY <1>1 DEF News, SocketsFit
<1>3. SUFFICES DOMAIN socket' = Sockets /\ \A s \in Sockets : Fits(socket'[s], stored)
  BY <1>1, FitsMore
<1>4. CASE socket' = socket
  BY <1>4 DEF News, SocketsFit
<1>5. CASE Answer
  <2>1. Broadcast(handler.held) /\ Told(handler.held, stored) /\ handler.held \in Items \cup {None}
    BY <1>5 DEF Answer, News, CopiesTrue, Inv, Types
  <2>2. PICK m \in Items \cup {None} : m = handler.held
    BY <2>1
  <2> QED  BY <2>1, <2>2, BroadcastFits DEF Broadcast
<1>6. ASSUME NEW t \in Tasks, Tell(t)
      PROVE  DOMAIN socket' = Sockets /\ \A s \in Sockets : Fits(socket'[s], stored)
  <2>1. Broadcast(task[t].held) /\ Told(task[t].held, stored) /\ task[t].held \in Items \cup {None}
    BY <1>6 DEF Tell, News, CopiesTrue, Inv, Types, Task
  <2>2. PICK m \in Items \cup {None} : m = task[t].held
    BY <2>1
  <2> QED  BY <2>1, <2>2, BroadcastFits DEF Broadcast
<1>7. ASSUME NEW s \in Sockets, Send(s) \/ Write(s) \/ Watch(s) \/ Unwatch(s) \/ Ping(s) \/ Close(s)
      PROVE  DOMAIN socket' = Sockets /\ \A r \in Sockets : Fits(socket'[r], stored)
  BY <1>7, SocketSteps
<1>8. CASE Crash
  BY <1>8, ClosedFits DEF Crash
<1>9. CASE Handler /\ ~Answer
  BY <1>4, <1>9 DEF Handler, Accept, PutMarker, Spawn, RunInline
<1>10. CASE TaskStep
  BY <1>4, <1>6, <1>10 DEF TaskStep, Work, Update, Unmark
<1> QED  BY <1>4, <1>5, <1>7, <1>8, <1>9, <1>10 DEF Next, Client, Deliver, vars

THEOREM NewsInvariant == Spec => []News
<1>1. Init => News
  BY NewsInit
<1>2. Inv /\ News /\ [Next]_vars => News'
  BY NewsNext
<1> QED  BY <1>1, <1>2, EventsInvariant, PTL DEF Spec

\* No socket is sent, by any of the goroutines that broadcast or answer it, a
\* status that says an asset is generated before its object is in the bucket.
NothingFalseSent ==
    \A s \in Sockets : \A i \in 1..Len(socket[s].chan) : Told(socket[s].chan[i], stored)

THEOREM SocketsAreToldTheTruth == Spec => []NothingFalseSent
<1>1. News => NothingFalseSent
  BY DEF News, SocketsFit, Fits, NothingFalseSent
<1> QED  BY <1>1, NewsInvariant, PTL

\* Every variable stays in its range, and no channel holds more than its capacity.
THEOREM TypesCorrect == Spec => []TypeOK
<1>1. Inv /\ News => TypeOK
  <2>1. ASSUME Inv, News PROVE TypeOK
    <3>1. /\ setup \in Setups /\ item \in Items \cup {None} /\ markers \subseteq Kinds
          /\ stored \subseteq Assets /\ handler.held \in Items \cup {None} /\ handler.marks \subseteq Kinds
          /\ lost \in [put : SUBSET Kinds, removed : SUBSET Kinds] /\ faults \in 0..MaxFaults
      BY <2>1 DEF Inv, Types
    <3>2. \A t \in Tasks : task[t].held \in Items \cup {None} /\ task[t].marks \subseteq TaskKinds(t)
      BY <2>1 DEF Inv, Types, Task, OwnMarks
    <3>3. \A s \in Sockets : Len(socket[s].chan) <= Capacity /\ socket[s].asks <= MaxAsks
      BY <2>1 DEF News, SocketsFit, Fits
    <3> QED  BY <2>1, <3>1, <3>2, <3>3 DEF News, Listed, TypeOK
  <2> QED  BY <2>1
<1> QED  BY <1>1, EventsInvariant, NewsInvariant, PTL
=============================================================================
