------------------------- MODULE UploadLifecycle_proofs -------------------------
(***************************************************************************)
(* What holds of an upload key for any keys, uploads and contents, any     *)
(* deadlines, and any number of crashes and failed calls: a temporary      *)
(* object has an upload that will delete it until a call fails, a finished *)
(* upload records what is stored, and stays finished.                      *)
(***************************************************************************)
EXTENDS UploadLifecycle, TLAPS

(***************************************************************************)
(* The inductive invariants.                                               *)
(***************************************************************************)
UploadSteps ==
    {"checked", "admitted", "late", "uploading", "marked", "stored", "inspected", "copied",
     "discard", "failing", "landed", "unmarked"}
Item == [status : Statuses, body : Requests \union {None}]
Handler(steps) == [pc : steps, key : Keys \union {None}]

\* The items and the bucket.
Data ==
    /\ content \in Contents
    /\ item \in [Keys -> Item]
    /\ age \in [Keys -> (0 .. Oldest) \union {None}]
    /\ marker \in [Keys -> {"none", "plain", "temp"}]
    /\ temp \in [Keys -> Staged \union {None}]
    /\ final \in [Keys -> Requests \union {None}]
    /\ crowded \in SUBSET Keys /\ faults \in 0 .. MaxFaults

\* The handlers have a key while they run.
Handlers ==
    /\ creator \in [Creators -> Handler({"idle", "counted", "marked"})]
    /\ \A c \in Creators : creator[c].key \in Keys <=> creator[c].pc # "idle"
    /\ request \in [Requests -> Handler(UploadSteps \union {"idle", "done"})]
    /\ \A r \in Requests : request[r].key \in Keys <=> request[r].pc \in UploadSteps
    /\ canceler \in Handler({"idle", "checked", "loaded", "unmarked"})
    /\ canceler.key \in Keys <=> canceler.pc # "idle"
    /\ cleaner \in [pc : {"next", "temp", "marker", "item"}, key : Keys \union {None},
                    todo : SUBSET Keys]
    /\ cleaner.key \in Keys <=> cleaner.pc # "next"

\* A key is handled only after its creation began, and leaves no trace before.
Born ==
    /\ \A k \in Keys : age[k] = None => item[k] = Absent /\ marker[k] = "none"
    /\ \A c \in Creators : creator[c].key \in Keys => age[creator[c].key] # None
    /\ \A r \in Requests : request[r].key \in Keys => age[request[r].key] # None
    /\ canceler.key \in Keys => age[canceler.key] # None
    /\ cleaner.key \in Keys => age[cleaner.key] # None
    /\ \A k \in cleaner.todo : age[k] # None

Types == Data /\ Handlers /\ Born

\* Until a call fails, a temporary object belongs to an upload that has stored
\* it and not yet come to its deletion.
Holding == {"stored", "inspected", "copied", "discard"}
Held ==
    faults = 0 => \A k \in Keys : temp[k] # None =>
        \E r \in Requests : request[r].key = k /\ request[r].pc \in Holding

\* The item of a key whose creation runs does not exist, and no other creation
\* has the key.
Created ==
    \A c, d \in Creators : creator[c].key \in Keys =>
        /\ item[creator[c].key] = Absent
        /\ creator[d].key = creator[c].key => c = d

\* A key that never had two uploads in flight has one or none.
Alone ==
    \A k \in Keys \ crowded : \A q, r \in Requests :
        request[q].key = k /\ request[r].key = k => q = r

\* What the one upload r of the key k knows at each step of the objects.
Knows(r, k) ==
    /\ item[k].status # "uploaded"
    /\ request[r].pc \in {"stored", "inspected"} => temp[k] \in {r, None}
    /\ request[r].pc = "inspected" => r \notin Refused
    /\ request[r].pc \in {"copied", "landed", "unmarked"} => final[k] = r
Known ==
    \A k \in Keys \ crowded : \A r \in Requests : request[r].key = k => Knows(r, k)

Inv == Types /\ Created /\ Alone /\ Known /\ UploadedIsRecorded

(***************************************************************************)
(* The handlers and what they set.                                         *)
(***************************************************************************)

\* None is no key, request, or age.
LEMMA NoneIs ==
  /\ None \notin Keys /\ None \notin Requests /\ None \notin Nat
  /\ Oldest \in Nat /\ Contents \subseteq [Requests -> Kinds]
BY UploadAssumption DEF Oldest

\* An upload goes on with its key, or ends.
LEMMA MovesIs ==
  ASSUME Types, NEW r \in Requests, request[r].key \in Keys, NEW pc \in UploadSteps,
         Moves(r, pc)
  PROVE  /\ request' \in [Requests -> Handler(UploadSteps \union {"idle", "done"})]
         /\ request'[r].pc = pc /\ request'[r].key = request[r].key
         /\ \A q \in Requests : request'[q].key = request[q].key
         /\ \A q \in Requests \ {r} : request'[q] = request[q]
         /\ \A q \in Requests : request'[q].key \in Keys <=> request'[q].pc \in UploadSteps
<1>1. /\ request \in [Requests -> Handler(UploadSteps \union {"idle", "done"})]
      /\ \A q \in Requests : request[q].key \in Keys <=> request[q].pc \in UploadSteps
      /\ request' = [request EXCEPT ![r].pc = pc]
  BY DEF Types, Handlers, Moves
<1>2. /\ request'[r].pc = pc /\ request'[r].key = request[r].key
      /\ \A q \in Requests \ {r} : request'[q] = request[q]
  BY <1>1 DEF Handler
<1>3. request' \in [Requests -> Handler(UploadSteps \union {"idle", "done"})]
  BY <1>1 DEF Handler
<1>4. \A q \in Requests : request'[q].key = request[q].key
  BY <1>2
<1> QED  BY <1>1, <1>2, <1>3, <1>4

LEMMA EndsIs ==
  ASSUME Types, NEW r \in Requests, Ends(r)
  PROVE  /\ request' \in [Requests -> Handler(UploadSteps \union {"idle", "done"})]
         /\ request'[r].key = None /\ request'[r].pc = "done"
         /\ \A q \in Requests \ {r} : request'[q] = request[q]
         /\ \A q \in Requests : request'[q].key \in Keys <=> request'[q].pc \in UploadSteps
<1>1. /\ request \in [Requests -> Handler(UploadSteps \union {"idle", "done"})]
      /\ \A q \in Requests : request[q].key \in Keys <=> request[q].pc \in UploadSteps
      /\ request' = [request EXCEPT ![r] = [pc |-> "done", key |-> None]]
  BY DEF Types, Handlers, Ends
<1>2. /\ request'[r] = [pc |-> "done", key |-> None]
      /\ \A q \in Requests \ {r} : request'[q] = request[q]
  BY <1>1
<1>3. request' \in [Requests -> Handler(UploadSteps \union {"idle", "done"})]
  BY <1>1 DEF Handler
<1>4. "done" \notin UploadSteps
  BY DEF UploadSteps
<1> QED  BY <1>1, <1>2, <1>3, <1>4, NoneIs

\* A status set changes one item that exists, and not what it records.
LEMMA SetStatusIs ==
  ASSUME Types, NEW k \in Keys, NEW s \in Statuses, SetStatus(k, s)
  PROVE  /\ item' \in [Keys -> Item]
         /\ \A j \in Keys \ {k} : item'[j] = item[j]
         /\ item'[k].status \in {s, "absent"} /\ item'[k].body = item[k].body
         /\ item[k].status = "absent" => item'[k] = item[k]
         /\ item[k].status # "absent" => item'[k].status = s
<1>1. /\ item \in [Keys -> Item]
      /\ item' = IF item[k].status = "absent" THEN item ELSE [item EXCEPT ![k].status = s]
  BY DEF Types, Data, SetStatus
<1>2. CASE item[k].status = "absent"
  BY <1>1, <1>2
<1>3. CASE item[k].status # "absent"
  <2>1. item' = [item EXCEPT ![k].status = s]
    BY <1>1, <1>3
  <2>2. /\ item'[k].status = s /\ item'[k].body = item[k].body
        /\ \A j \in Keys \ {k} : item'[j] = item[j]
    BY <1>1, <2>1 DEF Item
  <2>3. item' \in [Keys -> Item]
    BY <1>1, <2>1 DEF Item
  <2> QED  BY <1>3, <2>2, <2>3
<1> QED  BY <1>2, <1>3

\* The bound on failures.
LEMMA FaultIs ==
  ASSUME Types, Fault \/ NoFault
  PROVE  faults' \in 0 .. MaxFaults /\ (faults' = 0 => faults = 0 /\ NoFault)
BY UploadAssumption DEF Types, Data, Fault, NoFault

\* What one step of an upload may change: its own place, and the item, marker
\* and objects of its key.
Touches(r) ==
    LET k == request[r].key IN
    /\ Ends(r) \/ \E pc \in UploadSteps : Moves(r, pc)
    /\ \/ item' = item
       \/ \E s \in {"expired", "uploading", "failed"} : SetStatus(k, s)
       \/ item' = [item EXCEPT ![k] = [status |-> "uploaded", body |-> r]]
          /\ item[k].status # "absent"
    /\ marker' = marker \/ \E m \in {"none", "plain", "temp"} : marker' = [marker EXCEPT ![k] = m]
    /\ temp' = temp \/ \E o \in Staged \union {None} : temp' = [temp EXCEPT ![k] = o]
    /\ final' = final \/ \E o \in Requests : final' = [final EXCEPT ![k] = o]
    /\ Fault \/ NoFault
    /\ UNCHANGED <<content, age, creator, canceler, cleaner, crowded>>

LEMMA UploadTouches ==
  ASSUME Types, NEW r \in Requests, Upload(r)
  PROVE  request[r].key \in Keys /\ Touches(r)
<1> DEFINE k == request[r].key
<1>0. /\ request[r].pc \in UploadSteps => k \in Keys
      /\ temp \in [Keys -> Staged \union {None}] /\ Staged \in SUBSET Requests
  BY DEF Types, Handlers, Data, Staged
<1>1. CASE LoadMarker(r)
  BY <1>0, <1>1 DEF LoadMarker, Touches, others, bucket, UploadSteps
<1>2. CASE DropLateMarker(r)
  BY <1>0, <1>2 DEF DropLateMarker, DropMarker, Touches, others, UploadSteps
<1>3. CASE SetUploading(r)
  BY <1>0, <1>3 DEF SetUploading, Touches, others, bucket, UploadSteps, NoFault
<1>4. CASE RefuseEarly(r)
  BY <1>0, <1>4 DEF RefuseEarly, Touches, others, bucket, UploadSteps, NoFault
<1>5. CASE MarkUploading(r)
  <2>1. Marked(r) \in {"none", "plain", "temp"}
    BY DEF Marked
  <2>2. marker' = marker \/ \E m \in {"none", "plain", "temp"} : marker' = [marker EXCEPT ![k] = m]
    BY <1>5, <2>1 DEF MarkUploading, PutMarker
  <2>3. Fault \/ NoFault
    BY <1>5 DEF MarkUploading, PutMarker
  <2> QED  BY <1>0, <1>5, <2>2, <2>3 DEF MarkUploading, Touches, others, UploadSteps
<1>6. CASE PutContent(r)
  <2>1. r \in Staged => r \in Staged \union {None}
    OBVIOUS
  <2>2. temp' = temp \/ \E o \in Staged \union {None} : temp' = [temp EXCEPT ![k] = o]
    BY <1>6, <2>1 DEF PutContent, Stored
  <2>3. final' = final \/ \E o \in Requests : final' = [final EXCEPT ![k] = o]
    BY <1>6 DEF PutContent, Stored
  <2>4. \E pc \in UploadSteps : Moves(r, pc)
    BY <1>6 DEF PutContent, UploadSteps
  <2> QED  BY <1>0, <1>6, <2>2, <2>3, <2>4 DEF PutContent, Touches, others, UploadSteps, NoFault
<1>7. CASE PutFails(r)
  <2>2. temp' = temp \/ \E o \in Staged \union {None} : temp' = [temp EXCEPT ![k] = o]
    BY <1>7 DEF PutFails, Stored
  <2>3. final' = final \/ \E o \in Requests : final' = [final EXCEPT ![k] = o]
    BY <1>7 DEF PutFails, Stored
  <2>4. Fault \/ NoFault
    BY <1>7 DEF PutFails
  <2>5. /\ Ends(r) \/ \E pc \in UploadSteps : Moves(r, pc)
        /\ item' = item \/ SetStatus(k, "failed")
    BY <1>7 DEF PutFails, UploadSteps
  <2> QED  BY <1>0, <1>7, <2>2, <2>3, <2>4, <2>5 DEF PutFails, Touches, others, UploadSteps
<1>8. CASE Inspect(r)
  <2>1. \E pc \in UploadSteps : Moves(r, pc)
    BY <1>8 DEF Inspect, UploadSteps
  <2> QED  BY <1>0, <1>8, <2>1 DEF Inspect, Touches, others, bucket, UploadSteps, NoFault
<1>9. CASE CopyObject(r)
  <2>0. k \in Keys
    BY <1>0, <1>9 DEF CopyObject, UploadSteps
  <2>1. final' = final \/ (temp[k] # None /\ final' = [final EXCEPT ![k] = temp[k]])
    BY <1>9 DEF CopyObject, Copied
  <2>2. temp[k] # None => temp[k] \in Requests
    BY <1>0, <2>0
  <2>3. final' = final \/ \E o \in Requests : final' = [final EXCEPT ![k] = o]
    BY <2>1, <2>2
  <2>4. (\E pc \in UploadSteps : Moves(r, pc)) /\ (Fault \/ NoFault)
    BY <1>9 DEF CopyObject, UploadSteps
  <2> QED  BY <1>9, <2>0, <2>3, <2>4 DEF CopyObject, Touches, others
<1>10. CASE DeleteTemp(r)
  <2>1. /\ temp' = temp \/ \E o \in Staged \union {None} : temp' = [temp EXCEPT ![k] = o]
        /\ Fault \/ NoFault
    BY <1>10 DEF DeleteTemp, DropTemp
  <2>2. \E pc \in UploadSteps : Moves(r, pc)
    BY <1>10 DEF DeleteTemp, UploadSteps
  <2> QED  BY <1>0, <1>10, <2>1, <2>2 DEF DeleteTemp, Touches, others, UploadSteps
<1>11. CASE FailUpload(r)
  BY <1>0, <1>11 DEF FailUpload, Touches, others, bucket, UploadSteps, NoFault
<1>12. CASE FinishMarker(r)
  <2>1. /\ marker' = marker \/ \E m \in {"none", "plain", "temp"} : marker' = [marker EXCEPT ![k] = m]
        /\ Fault \/ NoFault
    BY <1>12 DEF FinishMarker, DropMarker
  <2> QED  BY <1>0, <1>12, <2>1 DEF FinishMarker, Touches, others, UploadSteps
<1>13. CASE SetUploaded(r)
  BY <1>0, <1>13 DEF SetUploaded, Touches, others, bucket, UploadSteps, NoFault
<1> QED  BY <1>1, <1>2, <1>3, <1>4, <1>5, <1>6, <1>7, <1>8, <1>9, <1>10, <1>11, <1>12, <1>13
         DEF Upload

LEMMA UploadTypes ==
  ASSUME Types, NEW r \in Requests, Upload(r)
  PROVE  Types'
<1> DEFINE k == request[r].key
<1>0. Data /\ Handlers /\ Born /\ k \in Keys /\ Touches(r)
  BY UploadTouches DEF Types
<1>1. UNCHANGED <<content, age, creator, canceler, cleaner, crowded>>
  BY <1>0 DEF Touches
<1>2. faults' \in 0 .. MaxFaults
  BY <1>0, FaultIs DEF Touches
<1>3. /\ request' \in [Requests -> Handler(UploadSteps \union {"idle", "done"})]
      /\ \A q \in Requests : request'[q].key \in Keys <=> request'[q].pc \in UploadSteps
      /\ \A q \in Requests : request'[q].key \in {request[q].key, None}
  BY <1>0, MovesIs, EndsIs DEF Touches
<1>4. item' \in [Keys -> Item] /\ \A j \in Keys : item[j].status = "absent" => item'[j] = item[j]
  <2>0. item \in [Keys -> Item]
    BY <1>0 DEF Data
  <2>1. CASE item' = item
    BY <2>0, <2>1
  <2>2. CASE \E s \in {"expired", "uploading", "failed"} : SetStatus(k, s)
    <3>1. PICK s \in {"expired", "uploading", "failed"} : SetStatus(k, s)
      BY <2>2
    <3>2. s \in Statuses
      BY DEF Statuses
    <3> QED  BY <1>0, <3>1, <3>2, SetStatusIs
  <2>3. CASE /\ item' = [item EXCEPT ![k] = [status |-> "uploaded", body |-> r]]
             /\ item[k].status # "absent"
    <3>1. [status |-> "uploaded", body |-> r] \in Item
      BY DEF Item, Statuses
    <3> QED  BY <1>0, <2>0, <2>3, <3>1
  <2> QED  BY <1>0, <2>1, <2>2, <2>3 DEF Touches
<1>5. /\ marker' \in [Keys -> {"none", "plain", "temp"}]
      /\ \A j \in Keys \ {k} : marker'[j] = marker[j]
  BY <1>0 DEF Touches, Data
<1>6. temp' \in [Keys -> Staged \union {None}]
  BY <1>0 DEF Touches, Data
<1>7. final' \in [Keys -> Requests \union {None}]
  BY <1>0 DEF Touches, Data
<1>8. Data'
  BY <1>0, <1>1, <1>2, <1>4, <1>5, <1>6, <1>7 DEF Data, Staged
<1>9. Handlers'
  BY <1>0, <1>1, <1>3 DEF Handlers
<1>10. Born'
  <2>1. age[k] # None
    BY <1>0 DEF Born
  <2>2. \A j \in Keys : age[j] = None => item'[j] = Absent /\ marker'[j] = "none"
    BY <1>0, <1>4, <1>5, <2>1 DEF Born, Absent
  <2>3. \A q \in Requests : request'[q].key \in Keys => age[request'[q].key] # None
    BY <1>0, <1>3, NoneIs DEF Born
  <2> QED  BY <1>0, <1>1, <2>2, <2>3 DEF Born
<1> QED  BY <1>8, <1>9, <1>10 DEF Types

LEMMA TypesInit ==
  Init => Types
<1> SUFFICES ASSUME Init PROVE Types
  OBVIOUS
<1>1. Data
  BY UploadAssumption, NoneIs DEF Init, Data, Item, Absent, Statuses
<1>2. Handlers
  BY NoneIs DEF Init, Handlers, Handler, Idle, Asleep, UploadSteps
<1>3. Born
  BY NoneIs DEF Init, Born, Idle, Asleep
<1> QED  BY <1>1, <1>2, <1>3 DEF Types

\* The status of one item set by the canceler or the cleaner.
LEMMA StatusTypes ==
  ASSUME Types, NEW k \in Keys, NEW s \in Statuses, SetStatus(k, s),
         UNCHANGED <<content, age, marker, temp, final, crowded, faults>>
  PROVE  Data' /\ \A j \in Keys : age[j] = None => item'[j] = Absent /\ marker'[j] = "none"
<1>1. Data /\ Born
  BY DEF Types
<1>2. item' \in [Keys -> Item] /\ \A j \in Keys : item[j].status = "absent" => item'[j] = item[j]
  BY SetStatusIs
<1>3. Data'
  BY <1>1, <1>2 DEF Data, Staged
<1> QED  BY <1>1, <1>2, <1>3 DEF Born, Absent

LEMMA TypesStep ==
  ASSUME Types, [Next]_vars
  PROVE  Types'
<1>0. /\ Data /\ Handlers /\ Born
      /\ item \in [Keys -> Item] /\ age \in [Keys -> (0 .. Oldest) \union {None}]
      /\ marker \in [Keys -> {"none", "plain", "temp"}]
      /\ temp \in [Keys -> Staged \union {None}]
      /\ faults \in 0 .. MaxFaults
      /\ canceler \in Handler({"idle", "checked", "loaded", "unmarked"})
      /\ creator \in [Creators -> Handler({"idle", "counted", "marked"})]
      /\ cleaner \in [pc : {"next", "temp", "marker", "item"}, key : Keys \union {None},
                      todo : SUBSET Keys]
      /\ request \in [Requests -> Handler(UploadSteps \union {"idle", "done"})]
  BY DEF Types, Data, Handlers
<1>1. CASE Tick
  <2>1. /\ age' = [k \in Keys |-> IF age[k] \in 0 .. Oldest - 1 THEN age[k] + 1 ELSE age[k]]
        /\ UNCHANGED <<content, item, marker, temp, final, creator, request, canceler,
                       cleaner, crowded, faults>>
    BY <1>1 DEF Tick, bucket, handlers
  <2>2. \A k \in Keys : age'[k] \in (0 .. Oldest) \union {None} /\ (age'[k] = None <=> age[k] = None)
    BY <1>0, <2>1, NoneIs
  <2>3. Data'
    BY <1>0, <2>1, <2>2 DEF Data, Staged
  <2>4. Handlers' /\ Born'
    BY <1>0, <2>1, <2>2 DEF Handlers, Born
  <2> QED  BY <2>3, <2>4 DEF Types
<1>2. CASE Crash
  <2>1. /\ item' = [k \in Keys |-> Absent] /\ Fault
        /\ request' = [r \in Requests |-> IF request[r].pc = "idle" THEN Idle
                                          ELSE [pc |-> "done", key |-> None]]
        /\ creator' = [c \in Creators |-> Idle] /\ canceler' = Idle /\ cleaner' = Asleep
        /\ UNCHANGED <<content, age, marker, temp, final, crowded>>
    BY <1>2 DEF Crash, bucket
  <2>2. faults' \in 0 .. MaxFaults
    BY <2>1, FaultIs
  <2>3. Absent \in Item
    BY DEF Absent, Item, Statuses
  <2>4. Data'
    BY <1>0, <2>1, <2>2, <2>3 DEF Data, Staged
  <2>5. Handlers'
    BY <2>1, NoneIs DEF Handlers, Handler, Idle, Asleep, UploadSteps
  <2>6. Born'
    BY <1>0, <2>1, NoneIs DEF Born, Idle, Asleep
  <2> QED  BY <2>4, <2>5, <2>6 DEF Types
<1>3. CASE Cancel \/ \E k \in Keys : CancelBegin(k)
  <2>1. /\ UNCHANGED <<content, age, temp, final, creator, request, cleaner, crowded>>
    BY <1>3 DEF Cancel, CancelBegin, CancelLoad, CancelMarker, CancelItem, bucket
  <2>2. /\ canceler' \in Handler({"idle", "checked", "loaded", "unmarked"})
        /\ canceler'.key \in Keys <=> canceler'.pc # "idle"
        /\ canceler'.key \in Keys => age[canceler'.key] # None
    <3>1. Idle \in Handler({"idle", "checked", "loaded", "unmarked"}) /\ Idle.key \notin Keys
          /\ Idle.pc = "idle"
      BY NoneIs DEF Idle, Handler
    <3>2. ASSUME NEW k \in Keys, CancelBegin(k)
          PROVE  /\ canceler' \in Handler({"idle", "checked", "loaded", "unmarked"})
                 /\ canceler'.key = k /\ canceler'.pc # "idle" /\ age[k] # None
      <4>1. canceler' = [pc |-> "checked", key |-> k] /\ item[k].status = "created"
        BY <3>2 DEF CancelBegin
      <4>2. age[k] # None
        BY <1>0, <4>1 DEF Born, Absent
      <4> QED  BY <4>1, <4>2 DEF Handler
    <3>3. ASSUME Cancel
          PROVE  \/ canceler' = Idle
                 \/ \E pc \in {"loaded", "unmarked"} :
                       canceler' = [canceler EXCEPT !.pc = pc] /\ canceler.pc # "idle"
      BY <3>3 DEF Cancel, CancelLoad, CancelMarker, CancelItem
    <3>4. ASSUME NEW pc \in {"loaded", "unmarked"}, canceler' = [canceler EXCEPT !.pc = pc],
                 canceler.pc # "idle"
          PROVE  /\ canceler' \in Handler({"idle", "checked", "loaded", "unmarked"})
                 /\ canceler'.key = canceler.key /\ canceler'.pc # "idle"
      BY <1>0, <3>4 DEF Handler
    <3>5. /\ canceler.pc # "idle" => canceler.key \in Keys
          /\ canceler.key \in Keys => age[canceler.key] # None
      BY <1>0 DEF Handlers, Born
    <3> QED  BY <1>3, <3>1, <3>2, <3>3, <3>4, <3>5
  <2>3. Data' /\ \A j \in Keys : age[j] = None => item'[j] = Absent /\ marker'[j] = "none"
    <3>1. CASE CancelLoad \/ \E k \in Keys : CancelBegin(k)
      <4>1. UNCHANGED <<item, marker>> /\ faults' \in 0 .. MaxFaults
        BY <1>0, <3>1, FaultIs DEF CancelBegin, CancelLoad, bucket
      <4> QED  BY <1>0, <2>1, <4>1 DEF Data, Staged, Born
    <3>2. CASE CancelMarker
      <4>1. UNCHANGED item /\ (Fault \/ NoFault) /\ canceler.pc = "loaded"
            /\ (marker' = marker \/ marker' = [marker EXCEPT ![canceler.key] = "none"])
        BY <3>2 DEF CancelMarker, DropMarker
      <4>2. canceler.key \in Keys /\ faults' \in 0 .. MaxFaults
        BY <1>0, <4>1, FaultIs DEF Handlers
      <4>3. /\ marker' \in [Keys -> {"none", "plain", "temp"}]
            /\ \A j \in Keys : marker'[j] \in {marker[j], "none"}
        BY <1>0, <4>1, <4>2
      <4> QED  BY <1>0, <2>1, <4>1, <4>2, <4>3 DEF Data, Staged, Born
    <3>3. CASE CancelItem
      <4>1. SetStatus(canceler.key, "canceled") /\ canceler.pc = "unmarked"
            /\ UNCHANGED <<marker, faults>>
        BY <3>3 DEF CancelItem, bucket
      <4>2. canceler.key \in Keys /\ "canceled" \in Statuses
        BY <1>0, <4>1 DEF Handlers, Statuses
      <4> QED  BY <2>1, <4>1, <4>2, StatusTypes
    <3> QED  BY <1>3, <3>1, <3>2, <3>3 DEF Cancel
  <2>4. Handlers' /\ Born'
    BY <1>0, <2>1, <2>2, <2>3 DEF Handlers, Born
  <2> QED  BY <2>3, <2>4 DEF Types
<1>4. CASE Clean
  <2>1. /\ UNCHANGED <<content, age, final, creator, request, canceler, crowded>>
    BY <1>4 DEF Clean, CleanBegin, CleanLoad, CleanTemp, CleanMarker, CleanItem, bucket
  <2>2. /\ cleaner' \in [pc : {"next", "temp", "marker", "item"}, key : Keys \union {None},
                         todo : SUBSET Keys]
        /\ cleaner'.key \in Keys <=> cleaner'.pc # "next"
        /\ cleaner'.key \in Keys => age[cleaner'.key] # None
        /\ \A k \in cleaner'.todo : age[k] # None
    <3>0. /\ cleaner.key \in Keys <=> cleaner.pc # "next"
          /\ cleaner.key \in Keys => age[cleaner.key] # None
          /\ \A k \in cleaner.todo : age[k] # None
          /\ cleaner.todo \in SUBSET Keys
      BY <1>0 DEF Handlers, Born
    <3>1. CASE CleanBegin
      <4>1. cleaner' = [Asleep EXCEPT !.todo = {k \in Keys : marker[k] # "none" /\ Expired(k)}]
        BY <3>1 DEF CleanBegin
      <4>2. cleaner' = [pc |-> "next", key |-> None,
                        todo |-> {k \in Keys : marker[k] # "none" /\ Expired(k)}]
        BY <4>1 DEF Asleep
      <4>3. \A k \in Keys : marker[k] # "none" => age[k] # None
        BY <1>0 DEF Born
      <4> QED  BY <4>2, <4>3, NoneIs
    <3>2. CASE \E k \in Keys : CleanLoad(k)
      <4>1. PICK k \in Keys : CleanLoad(k)
        BY <3>2
      <4>2. k \in cleaner.todo /\ cleaner.pc = "next"
            /\ \/ \E pc \in {"temp", "marker"} :
                    cleaner' = [cleaner EXCEPT !.pc = pc, !.key = k, !.todo = @ \ {k}]
               \/ cleaner' = [cleaner EXCEPT !.todo = @ \ {k}]
        BY <4>1 DEF CleanLoad
      <4>3. age[k] # None /\ cleaner.todo \ {k} \in SUBSET Keys
        BY <3>0, <4>2
      <4>4. CASE \E pc \in {"temp", "marker"} :
                    cleaner' = [cleaner EXCEPT !.pc = pc, !.key = k, !.todo = @ \ {k}]
        <5>1. /\ cleaner'.pc \in {"temp", "marker"} /\ cleaner'.key = k
              /\ cleaner'.todo = cleaner.todo \ {k}
              /\ cleaner' \in [pc : {"next", "temp", "marker", "item"},
                               key : Keys \union {None}, todo : SUBSET Keys]
          BY <1>0, <4>3, <4>4
        <5> QED  BY <3>0, <4>3, <5>1
      <4>5. CASE cleaner' = [cleaner EXCEPT !.todo = @ \ {k}]
        <5>1. /\ cleaner'.pc = cleaner.pc /\ cleaner'.key = cleaner.key
              /\ cleaner'.todo = cleaner.todo \ {k}
              /\ cleaner' \in [pc : {"next", "temp", "marker", "item"},
                               key : Keys \union {None}, todo : SUBSET Keys]
          BY <1>0, <4>3, <4>5
        <5> QED  BY <3>0, <5>1
      <4> QED  BY <4>2, <4>4, <4>5
    <3>3. CASE CleanTemp \/ CleanMarker

      <4>1. cleaner.pc # "next"
            /\ \E pc \in {"marker", "item"} : cleaner' = [cleaner EXCEPT !.pc = pc]
        BY <3>3 DEF CleanTemp, CleanMarker
      <4> QED  BY <1>0, <3>0, <4>1
    <3>4. CASE CleanItem
      <4>1. cleaner' = [cleaner EXCEPT !.pc = "next", !.key = None]
        BY <3>4 DEF CleanItem
      <4> QED  BY <1>0, <3>0, <4>1, NoneIs
    <3> QED  BY <1>4, <3>1, <3>2, <3>3, <3>4 DEF Clean
  <2>3. Data' /\ \A j \in Keys : age[j] = None => item'[j] = Absent /\ marker'[j] = "none"
    <3>1. CASE CleanBegin \/ \E k \in Keys : CleanLoad(k)
      <4>1. UNCHANGED <<item, marker, temp>> /\ faults' \in 0 .. MaxFaults
        BY <1>0, <3>1, FaultIs DEF CleanBegin, CleanLoad, bucket
      <4> QED  BY <1>0, <2>1, <4>1 DEF Data, Staged, Born
    <3>2. CASE CleanTemp
      <4>1. UNCHANGED <<item, marker>> /\ (Fault \/ NoFault) /\ cleaner.pc = "temp"
            /\ (temp' = temp \/ temp' = [temp EXCEPT ![cleaner.key] = None])
        BY <3>2 DEF CleanTemp, DropTemp
      <4>2. faults' \in 0 .. MaxFaults /\ temp' \in [Keys -> Staged \union {None}]
        BY <1>0, <4>1, FaultIs
      <4> QED  BY <1>0, <2>1, <4>1, <4>2 DEF Data, Staged, Born
    <3>3. CASE CleanMarker
      <4>1. UNCHANGED <<item, temp>> /\ (Fault \/ NoFault) /\ cleaner.pc = "marker"
            /\ (marker' = marker \/ marker' = [marker EXCEPT ![cleaner.key] = "none"])
        BY <3>3 DEF CleanMarker, DropMarker
      <4>2. faults' \in 0 .. MaxFaults
        BY <4>1, FaultIs
      <4>3. /\ marker' \in [Keys -> {"none", "plain", "temp"}]
            /\ \A j \in Keys : marker'[j] \in {marker[j], "none"}
        BY <1>0, <4>1
      <4> QED  BY <1>0, <2>1, <4>1, <4>2, <4>3 DEF Data, Staged, Born
    <3>4. CASE CleanItem
      <4>1. SetStatus(cleaner.key, "expired") /\ cleaner.pc = "item"
            /\ UNCHANGED <<marker, temp, faults>>
        BY <3>4 DEF CleanItem, bucket
      <4>2. cleaner.key \in Keys /\ "expired" \in Statuses
        BY <1>0, <4>1 DEF Handlers, Statuses
      <4> QED  BY <2>1, <4>1, <4>2, StatusTypes
    <3> QED  BY <1>4, <3>1, <3>2, <3>3, <3>4 DEF Clean
  <2>4. Handlers' /\ Born'
    BY <1>0, <2>1, <2>2, <2>3 DEF Handlers, Born
  <2> QED  BY <2>3, <2>4 DEF Types
<1>5. CASE \E c \in Creators : Create(c)
  <2>1. PICK c \in Creators : Create(c)
    BY <1>5
  <2>2. UNCHANGED <<content, temp, final, request, canceler, cleaner, crowded>>
    BY <2>1 DEF Create, CountKeys, MarkKey, InsertItem, bucket
  <2>3. \A d \in Creators : /\ creator[d].key \in Keys <=> creator[d].pc # "idle"
                            /\ creator[d].key \in Keys => age[creator[d].key] # None
    BY <1>0 DEF Handlers, Born
  <2>4. Idle \in Handler({"idle", "counted", "marked"}) /\ Idle.key \notin Keys /\ Idle.pc = "idle"
    BY NoneIs DEF Idle, Handler
  <2>5. CASE \E k \in Keys : CountKeys(c, k)
    <3>1. PICK k \in Keys : CountKeys(c, k)
      BY <2>5
    <3>2. /\ age' = [age EXCEPT ![k] = 0]
          /\ creator' = [creator EXCEPT ![c] = [pc |-> "counted", key |-> k]]
          /\ UNCHANGED <<item, marker, faults>>
      BY <3>1 DEF CountKeys, bucket
    <3>3. /\ age' \in [Keys -> (0 .. Oldest) \union {None}]
          /\ \A j \in Keys : age'[j] = None => age[j] = None
          /\ age'[k] # None
      BY <1>0, <3>2, NoneIs
    <3>4. /\ creator' \in [Creators -> Handler({"idle", "counted", "marked"})]
          /\ creator'[c].key = k /\ creator'[c].pc # "idle"
          /\ \A d \in Creators \ {c} : creator'[d] = creator[d]
      BY <1>0, <3>2 DEF Handler
    <3>5. Data'
      BY <1>0, <2>2, <3>2, <3>3 DEF Data, Staged
    <3>6. Handlers'
      BY <1>0, <2>2, <2>3, <3>4 DEF Handlers
    <3>7. Born'
      <4>1. \A d \in Creators : creator'[d].key \in Keys => age'[creator'[d].key] # None
        BY <2>3, <3>3, <3>4
      <4>2. cleaner.todo \in SUBSET Keys
        BY <1>0
      <4> QED  BY <1>0, <2>2, <3>2, <3>3, <4>1, <4>2 DEF Born
    <3> QED  BY <3>5, <3>6, <3>7 DEF Types
  <2>6. CASE MarkKey(c)
    <3> DEFINE k == creator[c].key
    <3>1. /\ creator[c].pc = "counted"
          /\ marker' = marker \/ marker' = [marker EXCEPT ![k] = "plain"]
          /\ \/ creator' = [creator EXCEPT ![c].pc = "marked"]
             \/ creator' = [creator EXCEPT ![c] = Idle]
          /\ Fault \/ NoFault
          /\ UNCHANGED <<item, age>>
      BY <2>6 DEF MarkKey
    <3>2. k \in Keys /\ age[k] # None /\ faults' \in 0 .. MaxFaults
      BY <2>3, <3>1, FaultIs
    <3>3. /\ marker' \in [Keys -> {"none", "plain", "temp"}]
          /\ \A j \in Keys \ {k} : marker'[j] = marker[j]
      BY <1>0, <3>1, <3>2
    <3>4. /\ creator' \in [Creators -> Handler({"idle", "counted", "marked"})]
          /\ \A d \in Creators : /\ creator'[d].key \in Keys <=> creator'[d].pc # "idle"
                                 /\ creator'[d].key \in {creator[d].key, None}
      <4>1. CASE creator' = [creator EXCEPT ![c].pc = "marked"]
        BY <1>0, <2>3, <3>1, <4>1 DEF Handler
      <4>2. CASE creator' = [creator EXCEPT ![c] = Idle]
        BY <1>0, <2>3, <2>4, <4>2 DEF Idle
      <4> QED  BY <3>1, <4>1, <4>2
    <3>5. Data'
      BY <1>0, <2>2, <3>1, <3>2, <3>3 DEF Data, Staged
    <3>6. Handlers'
      BY <1>0, <2>2, <3>4 DEF Handlers
    <3>7. Born'
      <4>1. \A d \in Creators : creator'[d].key \in Keys => age[creator'[d].key] # None
        BY <2>3, <3>4, NoneIs
      <4> QED  BY <1>0, <2>2, <3>1, <3>2, <3>3, <4>1 DEF Born
    <3> QED  BY <3>5, <3>6, <3>7 DEF Types
  <2>7. CASE InsertItem(c)
    <3> DEFINE k == creator[c].key
    <3>1. /\ creator[c].pc = "marked"
          /\ item' = [item EXCEPT ![k].status = "created"]
          /\ creator' = [creator EXCEPT ![c] = Idle]
          /\ UNCHANGED <<age, marker, faults>>
      BY <2>7 DEF InsertItem, bucket
    <3>2. k \in Keys /\ age[k] # None
      BY <2>3, <3>1
    <3>3. item' \in [Keys -> Item] /\ \A j \in Keys \ {k} : item'[j] = item[j]
      BY <1>0, <3>1, <3>2 DEF Item, Statuses
    <3>4. /\ creator' \in [Creators -> Handler({"idle", "counted", "marked"})]
          /\ \A d \in Creators : /\ creator'[d].key \in Keys <=> creator'[d].pc # "idle"
                                 /\ creator'[d].key \in {creator[d].key, None}
      BY <1>0, <2>3, <2>4, <3>1 DEF Idle
    <3>5. Data'
      BY <1>0, <2>2, <3>1, <3>3 DEF Data, Staged
    <3>6. Handlers'
      BY <1>0, <2>2, <3>4 DEF Handlers
    <3>7. Born'
      <4>1. \A d \in Creators : creator'[d].key \in Keys => age[creator'[d].key] # None
        BY <2>3, <3>4, NoneIs
      <4> QED  BY <1>0, <2>2, <3>1, <3>2, <3>3, <4>1 DEF Born
    <3> QED  BY <3>5, <3>6, <3>7 DEF Types
  <2> QED  BY <2>1, <2>5, <2>6, <2>7 DEF Create
<1>6. CASE \E r \in Requests, k \in Keys : CheckStatus(r, k)
  <2>1. PICK r \in Requests, k \in Keys : CheckStatus(r, k)
    BY <1>6
  <2>2. /\ request' = [request EXCEPT ![r] = [pc |-> "checked", key |-> k]]
        /\ crowded' \in {crowded, crowded \union {k}} /\ item[k].status # "absent"
        /\ UNCHANGED <<content, item, age, marker, temp, final, creator, canceler, cleaner,
                       faults>>
    BY <2>1 DEF CheckStatus, Accepts, bucket
  <2>3. age[k] # None
    BY <1>0, <2>2 DEF Born, Absent
  <2>4. /\ request' \in [Requests -> Handler(UploadSteps \union {"idle", "done"})]
        /\ request'[r].key = k /\ request'[r].pc \in UploadSteps
        /\ \A q \in Requests \ {r} : request'[q] = request[q]
    BY <1>0, <2>2 DEF Handler, UploadSteps
  <2>5. Data'
    BY <1>0, <2>2 DEF Data, Staged
  <2>6. Handlers'
    BY <1>0, <2>2, <2>4 DEF Handlers
  <2>7. Born'
    BY <1>0, <2>2, <2>3, <2>4 DEF Born
  <2> QED  BY <2>5, <2>6, <2>7 DEF Types
<1>7. CASE UNCHANGED vars
  <2>1. UNCHANGED <<content, item, age, marker, temp, final, creator, request, canceler,
                    cleaner, crowded, faults>>
    BY <1>7 DEF vars, bucket, handlers
  <2>2. Data'
    BY <1>0, <2>1 DEF Data, Staged
  <2> QED  BY <1>0, <2>1, <2>2 DEF Handlers, Born, Types
<1>8. CASE \E r \in Requests : Upload(r)
  BY <1>8, UploadTypes
<1> QED  BY <1>1, <1>2, <1>3, <1>4, <1>5, <1>6, <1>7, <1>8 DEF Next

(***************************************************************************)
(* Temporary objects.                                                      *)
(***************************************************************************)
LEMMA HeldStep ==
  ASSUME Types, Held, [Next]_vars
  PROVE  Held'
<1> SUFFICES ASSUME faults' = 0, NEW k \in Keys, temp'[k] # None
             PROVE  \E q \in Requests : request'[q].key = k /\ request'[q].pc \in Holding
  BY DEF Held
<1>0. /\ Types' /\ Data /\ Handlers
      /\ temp \in [Keys -> Staged \union {None}]
      /\ request \in [Requests -> Handler(UploadSteps \union {"idle", "done"})]
  BY TypesStep DEF Types, Data, Handlers
<1>1. Fault => FALSE
  BY FaultIs DEF Fault, NoFault, Types, Data

<1>2. CASE temp' = temp /\ faults' = faults /\ request' = request
  BY <1>2 DEF Held
<1>3. ASSUME NEW q \in Requests, request[q].key = k, request[q].pc \in Holding,
             request'[q] = request[q]
      PROVE  \E o \in Requests : request'[o].key = k /\ request'[o].pc \in Holding
  BY <1>3
<1>4. ASSUME faults = 0, temp[k] # None
      PROVE  \E q \in Requests : request[q].key = k /\ request[q].pc \in Holding
  BY <1>4 DEF Held
<1>5. CASE \E r \in Requests, j \in Keys : CheckStatus(r, j)
  <2>1. PICK r \in Requests, j \in Keys : CheckStatus(r, j)
    BY <1>5
  <2>2. /\ request[r].pc = "idle" /\ temp' = temp /\ faults' = faults
        /\ request' = [request EXCEPT ![r] = [pc |-> "checked", key |-> j]]
    BY <2>1 DEF CheckStatus, bucket
  <2>3. PICK q \in Requests : request[q].key = k /\ request[q].pc \in Holding
    BY <1>4, <2>2
  <2>4. q # r
    BY <2>2, <2>3 DEF Holding
  <2>5. request'[q] = request[q]
    BY <1>0, <2>2, <2>4
  <2> QED  BY <1>3, <2>3, <2>5
<1>6. CASE Clean
  <2>1. /\ request' = request
        /\ temp' = temp \/ temp' = [temp EXCEPT ![cleaner.key] = None]
        /\ faults' = faults
    BY <1>1, <1>6 DEF Clean, CleanBegin, CleanLoad, CleanTemp, CleanMarker, CleanItem, bucket,
                      DropTemp, DropMarker, NoFault
  <2>2. temp[k] # None
    BY <1>0, <2>1
  <2> QED  BY <1>4, <2>1, <2>2
<1>7. ASSUME NEW r \in Requests, Upload(r)
      PROVE  \E q \in Requests : request'[q].key = k /\ request'[q].pc \in Holding
  <2> DEFINE j == request[r].key
  <2>0. j \in Keys /\ Touches(r)
    BY <1>7, UploadTouches
  <2>1. faults = 0 /\ \A q \in Requests \ {r} : request'[q] = request[q]
    <3>1. \A q \in Requests \ {r} : request'[q] = request[q]
      BY <2>0, MovesIs, EndsIs DEF Touches
    <3> QED  BY <2>0, <3>1, FaultIs DEF Touches
  <2>2. CASE temp[k] # None /\ \E q \in Requests \ {r} : request[q].key = k /\ request[q].pc \in Holding
    BY <1>3, <2>1, <2>2
  <2>3. CASE k = j /\ request'[r].key = j /\ request'[r].pc \in Holding
    BY <2>3
  <2>4. CASE temp[k] = None
    <3>1. PutContent(r) /\ r \in Staged /\ k = j
      <4>1. temp' # temp
        BY <2>4
      <4>2. PutContent(r)
        BY <1>0, <1>1, <1>7, <2>4, <4>1
           DEF Upload, LoadMarker, DropLateMarker, SetUploading, RefuseEarly, MarkUploading,
               PutFails, Inspect, CopyObject, DeleteTemp, FailUpload, FinishMarker,
               SetUploaded, bucket, DropTemp
      <4> QED  BY <1>0, <2>4, <4>1, <4>2 DEF PutContent, Stored
    <3>2. Moves(r, "stored")
      BY <3>1 DEF PutContent
    <3>3. request'[r].key = j /\ request'[r].pc = "stored"
      BY <2>0, <3>2, MovesIs DEF UploadSteps
    <3> QED  BY <2>3, <3>1, <3>3 DEF Holding
  <2>5. CASE temp[k] # None /\ k = j /\ request[r].pc \in Holding
    <3>1. CASE Inspect(r) \/ CopyObject(r)
      <4>1. \E pc \in Holding : Moves(r, pc)
        BY <3>1 DEF Inspect, CopyObject, Holding
      <4>2. PICK pc \in Holding : Moves(r, pc)
        BY <4>1
      <4>3. request'[r].key = j /\ request'[r].pc = pc
        BY <2>0, <4>2, MovesIs DEF UploadSteps, Holding
      <4> QED  BY <2>3, <2>5, <4>3
    <3>2. CASE DeleteTemp(r)
      <4>1. temp' = [temp EXCEPT ![j] = None]
        BY <1>1, <3>2 DEF DeleteTemp, DropTemp
      <4> QED  BY <1>0, <2>0, <2>5, <4>1
    <3>3. Inspect(r) \/ CopyObject(r) \/ DeleteTemp(r)
      BY <1>7, <2>5
         DEF Upload, LoadMarker, DropLateMarker, SetUploading, RefuseEarly, MarkUploading,
             PutContent, PutFails, FailUpload, FinishMarker, SetUploaded, Holding
    <3> QED  BY <3>1, <3>2, <3>3
  <2>6. temp[k] # None => \E q \in Requests : request[q].key = k /\ request[q].pc \in Holding
    BY <1>4, <2>1
  <2> QED  BY <2>2, <2>4, <2>5, <2>6
<1>8. CASE Tick \/ Cancel \/ (\E c \in Creators : Create(c)) \/ (\E j \in Keys : CancelBegin(j))
           \/ UNCHANGED vars
  <2>1. temp' = temp /\ faults' = faults /\ request' = request
    BY <1>1, <1>8
       DEF Tick, Cancel, CancelLoad, CancelMarker, CancelItem, CancelBegin, Create, CountKeys,
           MarkKey, InsertItem, bucket, handlers, vars, NoFault, DropMarker
  <2> QED  BY <1>2, <2>1
<1>9. CASE Crash
  BY <1>1, <1>9 DEF Crash
<1> QED  BY <1>5, <1>6, <1>7, <1>8, <1>9 DEF Next

(***************************************************************************)
(* Creations.                                                              *)
(***************************************************************************)

\* Only a creation gives a key an item.
LEMMA AbsentStays ==
  ASSUME Types, [Next]_vars, NEW k \in Keys, item[k] = Absent,
         ~(\E c \in Creators : InsertItem(c) /\ creator[c].key = k)
  PROVE  item'[k] = Absent
<1>0. /\ item \in [Keys -> Item] /\ item[k].status = "absent"
      /\ canceler.pc # "idle" => canceler.key \in Keys
      /\ cleaner.pc # "next" => cleaner.key \in Keys
      /\ \A c \in Creators : creator[c].pc # "idle" => creator[c].key \in Keys
  BY DEF Types, Data, Handlers, Absent
<1>1. ASSUME NEW j \in Keys, NEW s \in Statuses, SetStatus(j, s) PROVE item'[k] = item[k]
  BY <1>0, <1>1, SetStatusIs
<1>2. ASSUME NEW r \in Requests, Upload(r) PROVE item'[k] = item[k]
  <2>1. request[r].key \in Keys /\ Touches(r)
    BY <1>2, UploadTouches
  <2>2. {"expired", "uploading", "failed"} \subseteq Statuses
    BY DEF Statuses
  <2> QED  BY <1>0, <1>1, <2>1, <2>2 DEF Touches
<1>3. CASE Crash
  BY <1>3 DEF Crash
<1>4. CASE \E c \in Creators : InsertItem(c)
  <2>1. PICK c \in Creators : InsertItem(c)
    BY <1>4
  <2>2. creator[c].key \in Keys /\ creator[c].key # k
        /\ item' = [item EXCEPT ![creator[c].key].status = "created"]
    BY <1>0, <2>1 DEF InsertItem
  <2> QED  BY <1>0, <2>2
<1>5. CASE CancelItem
  <2>1. SetStatus(canceler.key, "canceled") /\ canceler.key \in Keys
    BY <1>0, <1>5 DEF CancelItem
  <2> QED  BY <1>1, <2>1 DEF Statuses
<1>6. CASE CleanItem
  <2>1. SetStatus(cleaner.key, "expired") /\ cleaner.key \in Keys
    BY <1>0, <1>6 DEF CleanItem
  <2> QED  BY <1>1, <2>1 DEF Statuses
<1>7. CASE \/ Tick \/ CancelLoad \/ CancelMarker \/ CleanBegin \/ CleanTemp \/ CleanMarker
           \/ (\E j \in Keys : CancelBegin(j) \/ CleanLoad(j)) \/ UNCHANGED vars
           \/ (\E r \in Requests, j \in Keys : CheckStatus(r, j))
           \/ (\E c \in Creators : MarkKey(c) \/ \E j \in Keys : CountKeys(c, j))
  BY <1>7 DEF Tick, CancelLoad, CancelMarker, CleanBegin, CleanTemp, CleanMarker, CancelBegin,
              CleanLoad, CheckStatus, MarkKey, CountKeys, vars
<1> QED  BY <1>2, <1>3, <1>4, <1>5, <1>6, <1>7 DEF Next, Cancel, Clean, Create

LEMMA CreatedStep ==
  ASSUME Types, Created, [Next]_vars
  PROVE  Created'
<1>0. /\ Handlers /\ Born
      /\ creator \in [Creators -> Handler({"idle", "counted", "marked"})]
      /\ Idle.key \notin Keys
  BY NoneIs DEF Types, Handlers, Idle
<1> SUFFICES ASSUME NEW c \in Creators, NEW d \in Creators, creator'[c].key \in Keys
             PROVE  /\ item'[creator'[c].key] = Absent
                    /\ creator'[d].key = creator'[c].key => c = d
  BY DEF Created
<1>1. CASE /\ creator'[c].key = creator[c].key
           /\ creator'[d].key \in {creator[d].key, None}
           /\ ~InsertItem(c)
  <2>1. item[creator[c].key] = Absent
    BY <1>1 DEF Created
  <2>2. ~(\E e \in Creators : InsertItem(e) /\ creator[e].key = creator[c].key)
    BY <1>1 DEF Created
  <2>3. item'[creator[c].key] = Absent
    BY <1>1, <2>1, <2>2, AbsentStays
  <2> QED  BY <1>1, <2>3, NoneIs DEF Created
<1>2. CASE \E e \in Creators, k \in Keys : CountKeys(e, k)
  <2>1. PICK e \in Creators, k \in Keys : CountKeys(e, k)
    BY <1>2
  <2>2. /\ age[k] = None /\ item' = item
        /\ creator' = [creator EXCEPT ![e] = [pc |-> "counted", key |-> k]]
    BY <2>1 DEF CountKeys
  <2>3. item[k] = Absent /\ \A o \in Creators : creator[o].key # k
    BY <1>0, <2>2 DEF Born
  <2>4. creator'[e].key = k /\ \A o \in Creators \ {e} : creator'[o] = creator[o]
    BY <1>0, <2>2
  <2> QED  BY <2>2, <2>3, <2>4 DEF Created
<1>3. CASE \E e \in Creators : MarkKey(e) \/ InsertItem(e)
  <2>1. PICK e \in Creators : MarkKey(e) \/ InsertItem(e)
    BY <1>3
  <2>2. /\ \A o \in Creators \ {e} : creator'[o] = creator[o]
        /\ creator'[e] = Idle \/ (creator'[e].key = creator[e].key /\ ~InsertItem(e))
    <3>1. CASE InsertItem(e)
      BY <1>0, <3>1 DEF InsertItem
    <3>2. CASE ~InsertItem(e) /\ MarkKey(e)
      BY <1>0, <3>2 DEF MarkKey, Handler
    <3> QED  BY <2>1, <3>1, <3>2
  <2>3. \/ creator'[d].key = creator[d].key
        \/ creator'[d].key = None
    BY <2>2 DEF Idle
  <2>4. creator'[c].key = creator[c].key /\ (c = e => ~InsertItem(e))
    BY <1>0, <2>2
  <2>5. ~InsertItem(c)
    <3>1. CASE c = e
      BY <2>4, <3>1
    <3>2. CASE c # e
      <4>1. InsertItem(c) => creator'[c] = Idle
        BY <1>0 DEF InsertItem
      <4> QED  BY <1>0, <4>1
    <3> QED  BY <3>1, <3>2
  <2> QED  BY <1>1, <2>3, <2>4, <2>5
<1>4. CASE UNCHANGED creator
  <2>1. ~InsertItem(c)
    <3>1. InsertItem(c) => creator'[c] = Idle
      BY <1>0 DEF InsertItem
    <3> QED  BY <1>0, <3>1
  <2> QED  BY <1>1, <1>4, <2>1
<1>5. CASE Crash
  BY <1>0, <1>5 DEF Crash
<1>6. CASE \/ Tick \/ Cancel \/ Clean \/ (\E j \in Keys : CancelBegin(j)) \/ UNCHANGED vars
           \/ (\E r \in Requests, j \in Keys : CheckStatus(r, j))
           \/ (\E r \in Requests : Upload(r))
  <2>1. ASSUME NEW r \in Requests, Upload(r) PROVE UNCHANGED creator
    BY <2>1, UploadTouches DEF Touches
  <2>2. UNCHANGED creator
    BY <1>6, <2>1
       DEF Tick, Cancel, CancelLoad, CancelMarker, CancelItem, CancelBegin, Clean, CleanBegin,
           CleanLoad, CleanTemp, CleanMarker, CleanItem, CheckStatus, handlers, vars
  <2> QED  BY <1>4, <2>2
<1> QED  BY <1>2, <1>3, <1>5, <1>6 DEF Next, Create

(***************************************************************************)
(* What a finished upload records.                                         *)
(***************************************************************************)

\* What is recorded of a key is what is stored.
RecordedOf(k) ==
    /\ final[k] \notin Refused
    /\ item[k].status = "uploaded" => final[k] = item[k].body

\* The keys an upload does not have are left alone.
LEMMA UploadElsewhere ==
  ASSUME Types, NEW r \in Requests, Upload(r)
  PROVE  /\ request[r].key \in Keys
         /\ \A j \in Keys \ {request[r].key} :
               item'[j] = item[j] /\ temp'[j] = temp[j] /\ final'[j] = final[j]
         /\ \A q \in Requests \ {r} : request'[q] = request[q]
         /\ request'[r].key \in {request[r].key, None}
<1> DEFINE k == request[r].key
<1>0. /\ k \in Keys /\ Touches(r)
      /\ item \in [Keys -> Item] /\ temp \in [Keys -> Staged \union {None}]
      /\ final \in [Keys -> Requests \union {None}]
  BY UploadTouches DEF Types, Data
<1>1. \A j \in Keys \ {k} : item'[j] = item[j]
  <2>1. {"expired", "uploading", "failed"} \subseteq Statuses
    BY DEF Statuses
  <2>2. ASSUME NEW s \in Statuses, SetStatus(k, s) PROVE \A j \in Keys \ {k} : item'[j] = item[j]
    BY <1>0, <2>2, SetStatusIs
  <2> QED  BY <1>0, <2>1, <2>2 DEF Touches
<1>2. \A j \in Keys \ {k} : temp'[j] = temp[j] /\ final'[j] = final[j]
  BY <1>0 DEF Touches
<1>3. /\ \A q \in Requests \ {r} : request'[q] = request[q]
      /\ request'[r].key \in {k, None}
  BY <1>0, MovesIs, EndsIs DEF Touches
<1> QED  BY <1>0, <1>1, <1>2, <1>3

\* A step of the one upload of a key.
LEMMA UploadRecords ==
  ASSUME Types, NEW r \in Requests, NEW k \in Keys, request[r].key = k, Upload(r),
         Knows(r, k), RecordedOf(k)
  PROVE  /\ request'[r].key = k => Knows(r, k)'
         /\ RecordedOf(k)'
<1>0. /\ k \in Keys /\ Touches(r) /\ Types'
      /\ item \in [Keys -> Item] /\ temp \in [Keys -> Staged \union {None}]
      /\ final \in [Keys -> Requests \union {None}]
      /\ content' = content
      /\ item[k].status # "uploaded" /\ final[k] \notin Refused
  BY UploadTouches, UploadTypes DEF Types, Data, Touches, Knows, RecordedOf
<1>1. Refused' = Refused /\ None \notin Refused /\ Staged = Staged'
  BY <1>0, NoneIs DEF Refused, Staged
<1>2. ASSUME NEW s \in Statuses, s # "uploaded", SetStatus(k, s)
      PROVE  item'[k].status # "uploaded"
  BY <1>0, <1>2, SetStatusIs
<1>3. {"expired", "uploading", "failed"} \subseteq Statuses
  BY DEF Statuses
<1>4. ASSUME NEW pc \in UploadSteps, Moves(r, pc) PROVE request'[r].pc = pc /\ request'[r].key = k
  BY <1>0, <1>4, MovesIs
<1>5. ASSUME Ends(r) PROVE request'[r].key # k
  BY <1>0, <1>5, EndsIs, NoneIs
<1>6. CASE Ends(r) /\ final' = final /\ item'[k].status # "uploaded"
  BY <1>0, <1>1, <1>5, <1>6 DEF RecordedOf
<1>7. CASE LoadMarker(r)
  <2>1. final' = final /\ item'[k].status # "uploaded"
    BY <1>0, <1>2, <1>3, <1>7 DEF LoadMarker, bucket
  <2>2. CASE Ends(r)
    BY <1>6, <2>1, <2>2
  <2>3. CASE \E pc \in {"admitted", "late"} : Moves(r, pc)
    <3>1. request'[r].pc \in {"admitted", "late"}
      BY <1>4, <2>3 DEF UploadSteps
    <3> QED  BY <1>0, <1>1, <2>1, <3>1 DEF Knows, RecordedOf
  <2> QED  BY <1>7, <2>2, <2>3 DEF LoadMarker
<1>8. CASE DropLateMarker(r)
  BY <1>0, <1>6, <1>8 DEF DropLateMarker
<1>9. CASE SetUploading(r)
  <2>1. final' = final /\ item'[k].status # "uploaded" /\ request'[r].pc = "uploading"
    BY <1>0, <1>2, <1>3, <1>4, <1>9 DEF SetUploading, bucket, UploadSteps
  <2> QED  BY <1>0, <1>1, <2>1 DEF Knows, RecordedOf
<1>10. CASE RefuseEarly(r) \/ FailUpload(r)
  BY <1>0, <1>2, <1>3, <1>6, <1>10 DEF RefuseEarly, FailUpload, bucket
<1>11. CASE MarkUploading(r)
  <2>1. final' = final /\ item' = item /\ request'[r].pc = "marked"
    BY <1>4, <1>11 DEF MarkUploading, UploadSteps
  <2> QED  BY <1>0, <1>1, <2>1 DEF Knows, RecordedOf
<1>12. CASE PutContent(r)
  <2>1. item' = item /\ request'[r].pc = (IF r \in Staged THEN "stored" ELSE "landed")
        /\ Stored(r)
    BY <1>4, <1>12 DEF PutContent, UploadSteps
  <2>2. CASE r \in Staged
    <3>1. temp'[k] = r /\ final' = final
      BY <1>0, <2>1, <2>2 DEF Stored
    <3> QED  BY <1>0, <1>1, <2>1, <2>2, <3>1 DEF Knows, RecordedOf
  <2>3. CASE r \notin Staged
    <3>1. final'[k] = r /\ r \notin Refused
      BY <1>0, <2>1, <2>3 DEF Stored, Staged, Refused
    <3> QED  BY <1>0, <1>1, <2>1, <2>3, <3>1 DEF Knows, RecordedOf
  <2> QED  BY <2>2, <2>3
<1>13. CASE PutFails(r)
  <2>1. item'[k].status # "uploaded"
    BY <1>0, <1>2, <1>3, <1>13 DEF PutFails
  <2>2. final'[k] \notin Refused
    <3>1. CASE Stored(r) /\ r \notin Staged
      BY <1>0, <3>1 DEF Stored, Staged, Refused
    <3>2. CASE final' = final
      BY <1>0, <3>2
    <3> QED  BY <1>13, <3>1, <3>2 DEF PutFails, Stored
  <2>3. Moves(r, "discard") \/ Ends(r)
    BY <1>13 DEF PutFails
  <2>4. request'[r].key = k => request'[r].pc = "discard"
    BY <1>4, <1>5, <2>3 DEF UploadSteps
  <2> QED  BY <1>0, <1>1, <2>1, <2>2, <2>4 DEF Knows, RecordedOf
<1>14. CASE Inspect(r)
  <2>1. /\ item' = item /\ final' = final /\ temp' = temp /\ request[r].pc = "stored"
        /\ request'[r].pc = (IF Passes(k) THEN "inspected" ELSE "discard")
    BY <1>4, <1>14 DEF Inspect, UploadSteps, bucket
  <2>2. temp[k] \in {r, None}
    BY <2>1 DEF Knows
  <2>3. Passes(k) => r \notin Refused
    BY <2>2 DEF Passes
  <2> QED  BY <1>0, <1>1, <2>1, <2>2, <2>3 DEF Knows, RecordedOf
<1>15. CASE CopyObject(r)
  <2>1. /\ item' = item /\ temp' = temp /\ request[r].pc = "inspected"
        /\ final' \in {final, Copied(k)}
        /\ \/ Moves(r, "discard")
           \/ Moves(r, "copied") /\ temp[k] # None /\ final' = Copied(k)
    BY <1>15 DEF CopyObject
  <2>2. temp[k] \in {r, None} /\ r \notin Refused
    BY <2>1 DEF Knows
  <2>3. final'[k] \in {final[k], r} /\ (temp[k] # None /\ final' = Copied(k) => final'[k] = r)
    BY <1>0, <2>1, <2>2 DEF Copied
  <2>4. request'[r].pc = "discard" \/ (request'[r].pc = "copied" /\ final'[k] = r)
    BY <1>4, <2>1, <2>3 DEF UploadSteps
  <2> QED  BY <1>0, <1>1, <2>1, <2>2, <2>3, <2>4 DEF Knows, RecordedOf
<1>16. CASE DeleteTemp(r)
  <2>1. /\ item' = item /\ final' = final
        /\ request'[r].pc = (IF request[r].pc = "copied" THEN "landed" ELSE "failing")
    BY <1>4, <1>16 DEF DeleteTemp, UploadSteps
  <2> QED  BY <1>0, <1>1, <2>1 DEF Knows, RecordedOf
<1>17. CASE FinishMarker(r)
  <2>1. /\ item' = item /\ final' = final /\ request[r].pc = "landed"
        /\ request'[r].pc = "unmarked"
    BY <1>4, <1>17 DEF FinishMarker, UploadSteps
  <2> QED  BY <1>0, <1>1, <2>1 DEF Knows, RecordedOf
<1>18. CASE SetUploaded(r)
  <2>1. /\ Ends(r) /\ final' = final /\ request[r].pc = "unmarked"
        /\ item'[k] = item[k] \/ item'[k].body = r
    BY <1>0, <1>18 DEF SetUploaded, bucket
  <2>2. final[k] = r
    BY <2>1 DEF Knows
  <2> QED  BY <1>0, <1>1, <1>5, <2>1, <2>2 DEF RecordedOf
<1> QED  BY <1>7, <1>8, <1>9, <1>10, <1>11, <1>12, <1>13, <1>14, <1>15, <1>16, <1>17, <1>18
         DEF Upload

\* A key and its uploads.
Fine(k) ==
    /\ \A q, r \in Requests : request[q].key = k /\ request[r].key = k => q = r
    /\ \A r \in Requests : request[r].key = k => Knows(r, k)
    /\ RecordedOf(k)

LEMMA RecordsAreFine ==
  Alone /\ Known /\ UploadedIsRecorded <=> \A k \in Keys \ crowded : Fine(k)
BY DEF Alone, Known, UploadedIsRecorded, Fine, RecordedOf

\* A step that starts no upload of a key, finishes none, and stores nothing.
LEMMA KeepsFine ==
  ASSUME NEW k \in Keys, Fine(k), content' = content,
         final'[k] = final[k], temp'[k] \in {temp[k], None},
         item'[k].status = "uploaded" => item'[k] = item[k],
         \A r \in Requests : request'[r].key = k => request'[r] = request[r]
  PROVE  Fine(k)'
<1>1. Refused' = Refused
  BY DEF Refused
<1>2. ASSUME NEW r \in Requests, request'[r].key = k PROVE Knows(r, k)'
  <2>1. request'[r] = request[r] /\ Knows(r, k)
    BY <1>2 DEF Fine
  <2> QED  BY <1>1, <2>1 DEF Knows
<1>3. RecordedOf(k)'
  BY <1>1 DEF Fine, RecordedOf
<1>4. \A q, r \in Requests : request'[q].key = k /\ request'[r].key = k => q = r
  BY DEF Fine
<1> QED  BY <1>2, <1>3, <1>4 DEF Fine

\* Steps of the canceler, the cleaner, the creations and the clock.
Aside ==
    \/ Tick \/ Cancel \/ Clean
    \/ \E c \in Creators : Create(c)
    \/ \E k \in Keys : CancelBegin(k)

LEMMA AsideIs ==
  ASSUME Types, Aside, NEW k \in Keys
  PROVE  /\ UNCHANGED <<content, final, request, crowded>>
         /\ temp'[k] \in {temp[k], None}
         /\ \/ item'[k] = item[k]
            \/ canceler.key = k /\ item'[k].status = "canceled"
            \/ cleaner.key = k /\ item'[k].status = "expired"
            \/ item'[k].status = "created"
               /\ \E c \in Creators : InsertItem(c) /\ creator[c].key = k
<1>0. /\ item \in [Keys -> Item] /\ temp \in [Keys -> Staged \union {None}]
      /\ canceler.pc # "idle" => canceler.key \in Keys
      /\ cleaner.pc # "next" => cleaner.key \in Keys
      /\ \A c \in Creators : creator[c].pc # "idle" => creator[c].key \in Keys
  BY DEF Types, Data, Handlers
<1>1. CASE CancelItem
  <2>1. SetStatus(canceler.key, "canceled") /\ canceler.key \in Keys
    BY <1>0, <1>1 DEF CancelItem
  <2>2. /\ canceler.key # k => item'[k] = item[k]
        /\ canceler.key = k => item'[k] = item[k] \/ item'[k].status = "canceled"
    BY <2>1, SetStatusIs DEF Statuses
  <2> QED  BY <1>1, <2>2 DEF CancelItem, bucket
<1>2. CASE CleanItem
  <2>1. SetStatus(cleaner.key, "expired") /\ cleaner.key \in Keys
    BY <1>0, <1>2 DEF CleanItem
  <2>2. /\ cleaner.key # k => item'[k] = item[k]
        /\ cleaner.key = k => item'[k] = item[k] \/ item'[k].status = "expired"
    BY <2>1, SetStatusIs DEF Statuses
  <2> QED  BY <1>2, <2>2 DEF CleanItem, bucket
<1>3. CASE CleanTemp
  <2>1. temp'[k] \in {temp[k], None}
    BY <1>0, <1>3 DEF CleanTemp, DropTemp
  <2> QED  BY <1>3, <2>1 DEF CleanTemp
<1>4. CASE \E c \in Creators : InsertItem(c)
  <2>1. PICK c \in Creators : InsertItem(c)
    BY <1>4
  <2>2. creator[c].key \in Keys
        /\ item' = [item EXCEPT ![creator[c].key].status = "created"]
    BY <1>0, <2>1 DEF InsertItem
  <2>3. item'[k] = item[k] \/ (creator[c].key = k /\ item'[k].status = "created")
    BY <1>0, <2>2 DEF Item
  <2>4. UNCHANGED <<content, final, request, crowded, temp>>
    BY <2>1 DEF InsertItem, bucket
  <2> QED  BY <2>1, <2>3, <2>4
<1>5. CASE \/ Tick \/ CancelLoad \/ CancelMarker \/ CleanBegin \/ CleanMarker
           \/ (\E j \in Keys : CancelBegin(j) \/ CleanLoad(j))
           \/ (\E c \in Creators : MarkKey(c) \/ \E j \in Keys : CountKeys(c, j))
  BY <1>5 DEF Tick, CancelLoad, CancelMarker, CleanBegin, CleanMarker, CancelBegin, CleanLoad,
              MarkKey, CountKeys, bucket, handlers
<1> QED  BY <1>1, <1>2, <1>3, <1>4, <1>5 DEF Aside, Cancel, Clean, Create

LEMMA RecordsStep ==
  ASSUME Types, Alone, Known, UploadedIsRecorded, [Next]_vars
  PROVE  Alone' /\ Known' /\ UploadedIsRecorded'
<1>0. /\ \A k \in Keys \ crowded : Fine(k)
      /\ (\A k \in Keys \ crowded' : Fine(k)') => Alone' /\ Known' /\ UploadedIsRecorded'
  <2>1. (Alone /\ Known /\ UploadedIsRecorded <=> \A k \in Keys \ crowded : Fine(k))'
    BY RecordsAreFine, PTL
  <2> QED  BY <2>1, RecordsAreFine
<1> SUFFICES ASSUME NEW k \in Keys, k \notin crowded' PROVE Fine(k)'
  BY <1>0
<1>1. /\ request \in [Requests -> Handler(UploadSteps \union {"idle", "done"})]
      /\ item \in [Keys -> Item]
  BY DEF Types, Handlers, Data
<1>2. CASE Aside
  <2>1. Fine(k)
    BY <1>0, <1>2, AsideIs
  <2>2. item'[k].status = "uploaded" => item'[k] = item[k]
    BY <1>2, AsideIs, Zenon
  <2>3. /\ content' = content /\ final' = final /\ request' = request
        /\ temp'[k] \in {temp[k], None}
    BY <1>2, AsideIs
  <2> QED  BY <2>1, <2>2, <2>3, KeepsFine
<1>3. ASSUME NEW r \in Requests, Upload(r) PROVE Fine(k)'
  <2>1. Fine(k) /\ content' = content
    BY <1>0, <1>3, UploadTouches DEF Touches
  <2>2. CASE request[r].key # k
    <3>1. /\ item'[k] = item[k] /\ temp'[k] = temp[k] /\ final'[k] = final[k]
          /\ \A q \in Requests : request'[q].key = k => request'[q] = request[q]
      BY <1>3, <2>2, UploadElsewhere, NoneIs
    <3> QED  BY <2>1, <3>1, KeepsFine
  <2>3. CASE request[r].key = k
    <3>1. \A q \in Requests : request'[q].key = k => request[q].key = k
      BY <1>3, <2>3, UploadElsewhere
    <3>2. \A q \in Requests : request'[q].key = k => q = r
      BY <2>1, <2>3, <3>1 DEF Fine
    <3>3. Knows(r, k) /\ RecordedOf(k)
      BY <2>1, <2>3 DEF Fine
    <3>4. (request'[r].key = k => Knows(r, k)') /\ RecordedOf(k)'
      BY <1>3, <2>3, <3>3, UploadRecords
    <3>5. \A q \in Requests : request'[q].key = k => Knows(q, k)'
      BY <3>2, <3>4
    <3> QED  BY <3>2, <3>4, <3>5 DEF Fine
  <2> QED  BY <2>2, <2>3
<1>4. ASSUME NEW r \in Requests, NEW j \in Keys, CheckStatus(r, j) PROVE Fine(k)'
  <2>1. /\ request' = [request EXCEPT ![r] = [pc |-> "checked", key |-> j]]
        /\ crowded' = IF InFlight(j) = {} THEN crowded ELSE crowded \union {j}
        /\ UNCHANGED <<content, item, temp, final>> /\ Accepts(item[j].status)
    BY <1>4 DEF CheckStatus, bucket
  <2>2. Fine(k) /\ (k = j => InFlight(k) = {})
    BY <1>0, <2>1
  <2>3. /\ request'[r] = [pc |-> "checked", key |-> j]
        /\ \A q \in Requests \ {r} : request'[q] = request[q]
    BY <1>1, <2>1
  <2>4. CASE k # j
    <3>1. \A q \in Requests : request'[q].key = k => request'[q] = request[q]
      BY <2>3, <2>4
    <3> QED  BY <2>1, <2>2, <3>1, KeepsFine
  <2>5. CASE k = j
    <3>1. \A q \in Requests : request'[q].key = k => q = r
      BY <2>2, <2>3, <2>5 DEF InFlight
    <3>2. item'[k].status # "uploaded" /\ request'[r].pc = "checked"
      BY <2>1, <2>3, <2>5 DEF Accepts
    <3>3. Knows(r, k)'
      BY <3>2 DEF Knows
    <3>4. Refused' = Refused
      BY <2>1 DEF Refused
    <3>5. RecordedOf(k)'
      BY <2>1, <2>2, <3>4 DEF Fine, RecordedOf
    <3>6. \A q \in Requests : request'[q].key = k => Knows(q, k)'
      BY <3>1, <3>3
    <3> QED  BY <3>1, <3>5, <3>6 DEF Fine
  <2> QED  BY <2>4, <2>5
<1>5. CASE Crash
  <2>1. /\ UNCHANGED <<content, final, temp, crowded>>
        /\ item'[k] = Absent
        /\ \A r \in Requests : request'[r].key = None
    BY <1>5 DEF Crash, Idle, bucket
  <2>2. Fine(k) /\ item'[k].status # "uploaded"
    BY <1>0, <2>1 DEF Absent
  <2> QED  BY <2>1, <2>2, KeepsFine, NoneIs
<1>6. CASE UNCHANGED vars
  <2>1. UNCHANGED <<content, item, request, crowded, temp, final>>
    BY <1>6 DEF vars, bucket, handlers
  <2> QED  BY <1>0, <2>1, KeepsFine
<1> QED  BY <1>2, <1>3, <1>4, <1>5, <1>6 DEF Next, Aside

(***************************************************************************)
(* The theorems.                                                           *)
(***************************************************************************)
LEMMA Invariance ==
  Spec => [](Inv /\ Held)
<1>1. Init => Inv /\ Held
  <2> SUFFICES ASSUME Init PROVE Inv /\ Held
    OBVIOUS
  <2>1. Types
    BY TypesInit
  <2>2. Created /\ Alone /\ Known
    BY NoneIs DEF Init, Created, Alone, Known, Idle
  <2>3. UploadedIsRecorded /\ Held
    BY NoneIs DEF Init, UploadedIsRecorded, Held, Refused, Absent
  <2> QED  BY <2>1, <2>2, <2>3 DEF Inv
<1>2. Inv /\ Held /\ [Next]_vars => (Inv /\ Held)'
  BY TypesStep, HeldStep, CreatedStep, RecordsStep DEF Inv
<1> QED  BY <1>1, <1>2, PTL DEF Spec

\* Every variable keeps its type; a key is in no handler and has no item or
\* marker before its creation began.
THEOREM TypesCorrect == Spec => []TypeOK
<1>1. Inv => TypeOK
  <2> SUFFICES ASSUME Inv PROVE TypeOK
    OBVIOUS
  <2>1. Data /\ Handlers /\ Born
    BY DEF Inv, Types
  <2>2. \A c \in Creators : creator[c] \in {Idle} \union [pc : {"counted", "marked"}, key : Keys]
    BY <2>1 DEF Handlers, Handler, Idle
  <2>3. canceler \in {Idle} \union [pc : {"checked", "loaded", "unmarked"}, key : Keys]
    BY <2>1 DEF Handlers, Handler, Idle
  <2>4. \A r \in Requests : request[r].key \in Keys <=> request[r].pc \notin {"idle", "done"}
    BY <2>1 DEF Handlers, Handler, UploadSteps
  <2>5. cleaner.key \in Keys <=> cleaner.pc \in {"temp", "marker", "item"}
    BY <2>1 DEF Handlers
  <2>6. cleaner.todo \subseteq {k \in Keys : age[k] # None}
    BY <2>1 DEF Handlers, Born
  <2>7. \A k \in Keys : age[k] = None => item[k] = Absent /\ marker[k] = "none"
    BY <2>1 DEF Born
  <2> QED  BY <2>1, <2>2, <2>3, <2>4, <2>5, <2>6, <2>7 DEF TypeOK, Data, Item
<1> QED  BY <1>1, Invariance, PTL

\* Until a call fails or the server is killed, a temporary object has an
\* upload in flight that stored it and will delete it (uploadFile).
THEOREM TemporaryAccounted == Spec => []TempAccounted
<1>1. Held => TempAccounted
  BY DEF Held, TempAccounted, InFlight
<1> QED  BY <1>1, Invariance, PTL

\* The item of a finished upload records what is stored under the object key,
\* and that was not refused, however uploads, cancellations, cleanups and
\* restarts interleave, if no two uploads of the key were in flight.
THEOREM UploadsAreRecorded == Spec => []UploadedIsRecorded
<1>1. Inv => UploadedIsRecorded
  BY DEF Inv
<1> QED  BY <1>1, Invariance, PTL

\* A finished upload stays finished: only a cleanup or a cancellation of its
\* key that was under way, or a second upload of it, sets another status.
THEOREM UploadedStaysUploaded == Spec => UploadedStays
<1> DEFINE Other(k) == item[k].status = "uploaded" /\ item'[k].status \notin {"uploaded", "absent"}
           Excuse(k) == cleaner.key = k \/ canceler.key = k \/ k \in crowded
<1>1. ASSUME Inv, [Next]_vars, NEW k \in Keys, Other(k) PROVE Excuse(k)
  <2>0. Types /\ item'[k] # item[k]
    BY <1>1 DEF Inv
  <2>1. CASE Aside
    <3>1. SUFFICES ASSUME NEW c \in Creators, InsertItem(c), creator[c].key = k PROVE FALSE
      BY <2>0, <2>1, AsideIs
    <3>2. item[k] = Absent
      BY <1>1, <3>1 DEF Inv, Created
    <3> QED  BY <1>1, <3>2 DEF Absent
  <2>2. ASSUME NEW r \in Requests, Upload(r) PROVE Excuse(k)
    <3>1. request[r].key = k
      BY <2>0, <2>2, UploadElsewhere
    <3>2. k \notin crowded => Knows(r, k)
      BY <1>1, <3>1 DEF Inv, Known
    <3> QED  BY <1>1, <3>2 DEF Knows
  <2>3. CASE Crash
    BY <1>1, <2>3 DEF Crash, Absent
  <2>4. CASE UNCHANGED vars \/ \E r \in Requests, j \in Keys : CheckStatus(r, j)
    BY <2>0, <2>4 DEF CheckStatus, vars
  <2> QED  BY <1>1, <2>1, <2>2, <2>3, <2>4 DEF Next, Aside
<1>2. Inv /\ [Next]_vars => [\A k \in Keys : Other(k) => Excuse(k)]_vars
  BY <1>1
<1> QED  BY <1>2, Invariance, PTL DEF Spec, UploadedStays
================================================================================
