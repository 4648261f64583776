---------------------------- MODULE UploadLifecycle ----------------------------
(***************************************************************************)
(* The life of an upload key (internal/server server.go) with upload       *)
(* deadlines enabled: creation, cancellation, the upload itself and the    *)
(* cleanup loop, which share the items in memory, the markers in the       *)
(* bucket and the objects.  Every network call is a step of its own.       *)
(* Content is the request that sent it.  Both deadlines of a key are       *)
(* fixed at its creation, so its age decides them.                         *)
(***************************************************************************)
EXTENDS Integers, FiniteSets

CONSTANTS
    Keys, Creators,     \* bounds: upload keys, concurrent creations
    Requests,           \* bound: upload requests, each with its content
    Contents,           \* what the requests may send, see Kinds
    None,
    MaxKeys,            \* MaxUploadKeysPerOwner; all keys have one owner
    Start, Finish,      \* UploadDeadlines.StartTimeout, FinishTimeout, in ticks
    MaxFaults           \* bound: crashes and failed calls

\* Content is stored under the object key at once, or under the temporary key
\* first, where the inspection accepts or refuses it.
Kinds == {"plain", "staged", "refused"}

ASSUME UploadAssumption ==
    /\ Contents \subseteq [Requests -> Kinds] /\ None \notin Requests \union Keys \union Nat
    /\ MaxKeys \in Nat \ {0} /\ {Start, Finish, MaxFaults} \subseteq Nat

VARIABLES
    content,    \* what each request sends; never changes
    item,       \* Server.uploads: status and recorded content
    age,        \* ticks since the creation of a key, None before it
    marker,     \* the deadline marker: "none", "plain" or "temp" (names the temporary key)
    temp,       \* object under the temporary key of a key
    final,      \* object under its object key
    creator,    \* createUploadKey
    request,    \* uploadFile
    canceler,   \* cancelUploadKey
    cleaner,    \* CleanupExpiredUploads
    crowded,    \* history: keys that had two uploads in flight
    faults      \* bound: spent of MaxFaults

bucket == <<marker, temp, final>>
handlers == <<creator, request, canceler, cleaner>>
vars == <<content, item, age, bucket, handlers, crowded, faults>>

Statuses == {"absent", "created", "uploading", "uploaded", "failed", "expired", "canceled"}
Terminal == {"uploaded", "failed", "expired", "canceled"}
Absent == [status |-> "absent", body |-> None]
Idle == [pc |-> "idle", key |-> None]
Asleep == [pc |-> "next", key |-> None, todo |-> {}]

Init ==
    /\ content \in Contents
    /\ item = [k \in Keys |-> Absent] /\ age = [k \in Keys |-> None]
    /\ marker = [k \in Keys |-> "none"]
    /\ temp = [k \in Keys |-> None] /\ final = [k \in Keys |-> None]
    /\ creator = [c \in Creators |-> Idle] /\ request = [r \in Requests |-> Idle]
    /\ canceler = Idle /\ cleaner = Asleep
    /\ crowded = {} /\ faults = 0

Fault == faults < MaxFaults /\ faults' = faults + 1
NoFault == UNCHANGED faults

Oldest == 1 + IF Start > Finish THEN Start ELSE Finish
Past(k, deadline) == age[k] > deadline
Staged == {r \in Requests : content[r] # "plain"}
Refused == {r \in Requests : content[r] = "refused"}
InFlight(k) == {r \in Requests : request[r].key = k}

\* updateUpload: a key without an item stays without.
SetStatus(k, s) ==
    item' = IF item[k].status = "absent" THEN item ELSE [item EXCEPT ![k].status = s]

\* A marker is put or deleted; the call may fail, and a failed put may be stored.
PutMarker(k, m) ==
    \/ marker' = [marker EXCEPT ![k] = m] /\ NoFault
    \/ marker' \in {marker, [marker EXCEPT ![k] = m]} /\ Fault
DropMarker(k) ==
    \/ marker' = [marker EXCEPT ![k] = "none"] /\ NoFault
    \/ UNCHANGED marker /\ Fault

\* Variant: the temporary object is left to somebody else.
DropTemp_Never(k) == UNCHANGED temp /\ NoFault

DropTemp(k) ==
    \/ temp' = [temp EXCEPT ![k] = None] /\ NoFault
    \/ UNCHANGED temp /\ Fault

(***************************************************************************)
(* Time.  Bound: a creation takes at most the start timeout.  A slower one *)
(* could be cleaned up before its item is inserted.                        *)
(***************************************************************************)
Tick ==
    /\ \A c \in Creators : creator[c].pc # "idle" => age[creator[c].key] < Start
    /\ age' = [k \in Keys |-> IF age[k] \in 0 .. Oldest - 1 THEN age[k] + 1 ELSE age[k]]
    /\ UNCHANGED <<content, item, bucket, handlers, crowded, faults>>

-------------------------------------------------------------------------------
(* createUploadKey *)

\* activeUploadKeyCountForOwner
Active == {k \in Keys : item[k].status \in {"created", "uploading"}}

CountKeys(c, k) ==
    /\ creator[c].pc = "idle" /\ age[k] = None
    /\ Cardinality(Active) < MaxKeys
    /\ age' = [age EXCEPT ![k] = 0]
    /\ creator' = [creator EXCEPT ![c] = [pc |-> "counted", key |-> k]]
    /\ UNCHANGED <<content, item, bucket, request, canceler, cleaner, crowded, faults>>

MarkKey(c) ==
    /\ creator[c].pc = "counted"
    /\ \/ marker' = [marker EXCEPT ![creator[c].key] = "plain"] /\ NoFault
          /\ creator' = [creator EXCEPT ![c].pc = "marked"]
       \/ marker' \in {marker, [marker EXCEPT ![creator[c].key] = "plain"]} /\ Fault
          /\ creator' = [creator EXCEPT ![c] = Idle]
    /\ UNCHANGED <<content, item, age, temp, final, request, canceler, cleaner, crowded>>

InsertItem(c) ==
    /\ creator[c].pc = "marked"
    /\ item' = [item EXCEPT ![creator[c].key].status = "created"]
    /\ creator' = [creator EXCEPT ![c] = Idle]
    /\ UNCHANGED <<content, age, bucket, request, canceler, cleaner, crowded, faults>>

Create(c) == (\E k \in Keys : CountKeys(c, k)) \/ MarkKey(c) \/ InsertItem(c)

-------------------------------------------------------------------------------
(* uploadFile *)

\* Variant: a retry of a finished upload is let through.
Accepts_Uploaded(status) == status \notin {"absent", "canceled"}

\* The checks on the status of the item.
Accepts(status) == status \notin {"absent", "uploaded", "canceled"}

Moves(r, pc) == request' = [request EXCEPT ![r].pc = pc]
Ends(r) == request' = [request EXCEPT ![r] = [pc |-> "done", key |-> None]]
others == <<creator, canceler, cleaner, crowded>>

CheckStatus(r, k) ==
    /\ request[r].pc = "idle" /\ Accepts(item[k].status)
    /\ request' = [request EXCEPT ![r] = [pc |-> "checked", key |-> k]]
    /\ crowded' = IF InFlight(k) = {} THEN crowded ELSE crowded \union {k}
    /\ UNCHANGED <<content, item, age, bucket, creator, canceler, cleaner, faults>>

\* The marker is loaded and its start deadline compared.
LoadMarker(r) ==
    LET k == request[r].key IN
    /\ request[r].pc = "checked"
    /\ \/ marker[k] # "none" /\ ~Past(k, Start) /\ Moves(r, "admitted") /\ UNCHANGED item /\ NoFault
       \/ marker[k] # "none" /\ Past(k, Start) /\ Moves(r, "late") /\ SetStatus(k, "expired") /\ NoFault
       \/ marker[k] = "none" /\ Ends(r) /\ UNCHANGED item /\ NoFault
       \/ Ends(r) /\ UNCHANGED item /\ Fault
    /\ UNCHANGED <<content, age, bucket, others>>

DropLateMarker(r) ==
    /\ request[r].pc = "late"
    /\ DropMarker(request[r].key) /\ Ends(r)
    /\ UNCHANGED <<content, item, age, temp, final, others>>

SetUploading(r) ==
    /\ request[r].pc = "admitted"
    /\ SetStatus(request[r].key, "uploading") /\ Moves(r, "uploading")
    /\ UNCHANGED <<content, age, bucket, others, faults>>

\* A size, prefix or format check refuses the content before anything is stored.
RefuseEarly(r) ==
    /\ request[r].pc = "uploading"
    /\ SetStatus(request[r].key, "failed") /\ Ends(r)
    /\ UNCHANGED <<content, age, bucket, others, faults>>

\* TempObjectKey is set exactly for a staged upload.
Marked(r) == IF r \in Staged THEN "temp" ELSE "plain"

MarkUploading(r) ==
    /\ request[r].pc = "uploading"
    /\ PutMarker(request[r].key, Marked(r)) /\ Moves(r, "marked")
    /\ UNCHANGED <<content, item, age, temp, final, others>>

\* The object after the content of r was stored.
Stored(r) ==
    LET k == request[r].key IN
    IF r \in Staged
    THEN temp' = [temp EXCEPT ![k] = r] /\ UNCHANGED final
    ELSE final' = [final EXCEPT ![k] = r] /\ UNCHANGED temp

PutContent(r) ==
    /\ request[r].pc = "marked" /\ ~Past(request[r].key, Finish)
    /\ Stored(r) /\ Moves(r, IF r \in Staged THEN "stored" ELSE "landed")
    /\ UNCHANGED <<content, item, age, marker, others, faults>>

\* The client stops, the stream is refused, the deadline passes: not stored.
PutFails(r) ==
    LET k == request[r].key IN
    /\ request[r].pc = "marked"
    /\ \/ UNCHANGED <<temp, final>> /\ NoFault
       \/ Stored(r) /\ Fault
    /\ IF r \in Staged THEN Moves(r, "discard") /\ UNCHANGED item
                       ELSE Ends(r) /\ SetStatus(k, "failed")
    /\ UNCHANGED <<content, age, marker, others>>

\* Variant: the verdict is on the content that was sent, whatever is stored.
Passes_Anything(k) == TRUE

\* The inspection reads the object that is stored.
Passes(k) == temp[k] \notin Refused \union {None}

Inspect(r) ==
    /\ request[r].pc = "stored"
    /\ Moves(r, IF Passes(request[r].key) THEN "inspected" ELSE "discard")
    /\ UNCHANGED <<content, item, age, bucket, others, faults>>

Copied(k) == IF temp[k] = None THEN final ELSE [final EXCEPT ![k] = temp[k]]

CopyObject(r) ==
    LET k == request[r].key IN
    /\ request[r].pc = "inspected"
    /\ \/ /\ temp[k] # None /\ ~Past(k, Finish)
          /\ final' = Copied(k) /\ Moves(r, "copied") /\ NoFault
       \/ /\ temp[k] = None \/ Past(k, Finish)
          /\ UNCHANGED final /\ Moves(r, "discard") /\ NoFault
       \/ /\ final' \in {final, Copied(k)}
          /\ Moves(r, "discard") /\ Fault
    /\ UNCHANGED <<content, item, age, marker, temp, others>>

DeleteTemp(r) ==
    /\ request[r].pc \in {"copied", "discard"}
    /\ DropTemp(request[r].key)
    /\ Moves(r, IF request[r].pc = "copied" THEN "landed" ELSE "failing")
    /\ UNCHANGED <<content, item, age, marker, final, others>>

FailUpload(r) ==
    /\ request[r].pc = "failing"
    /\ SetStatus(request[r].key, "failed") /\ Ends(r)
    /\ UNCHANGED <<content, age, bucket, others, faults>>

FinishMarker(r) ==
    /\ request[r].pc = "landed"
    /\ DropMarker(request[r].key) /\ Moves(r, "unmarked")
    /\ UNCHANGED <<content, item, age, temp, final, others>>

SetUploaded(r) ==
    LET k == request[r].key IN
    /\ request[r].pc = "unmarked"
    /\ item' = IF item[k].status = "absent" THEN item
               ELSE [item EXCEPT ![k] = [status |-> "uploaded", body |-> r]]
    /\ Ends(r)
    /\ UNCHANGED <<content, age, bucket, others, faults>>

Upload(r) ==
    \/ LoadMarker(r) \/ DropLateMarker(r) \/ SetUploading(r) \/ RefuseEarly(r)
    \/ MarkUploading(r) \/ PutContent(r) \/ PutFails(r) \/ Inspect(r) \/ CopyObject(r)
    \/ DeleteTemp(r) \/ FailUpload(r) \/ FinishMarker(r) \/ SetUploaded(r)

-------------------------------------------------------------------------------
(* cancelUploadKey *)

CancelBegin(k) ==
    /\ canceler.pc = "idle" /\ item[k].status = "created"
    /\ canceler' = [pc |-> "checked", key |-> k]
    /\ UNCHANGED <<content, item, age, bucket, creator, request, cleaner, crowded, faults>>

CancelLoad ==
    /\ canceler.pc = "checked"
    /\ \/ marker[canceler.key] # "none" /\ NoFault /\ canceler' = [canceler EXCEPT !.pc = "loaded"]
       \/ marker[canceler.key] = "none" /\ NoFault /\ canceler' = Idle
       \/ Fault /\ canceler' = Idle
    /\ UNCHANGED <<content, item, age, bucket, creator, request, cleaner, crowded>>

CancelMarker ==
    /\ canceler.pc = "loaded"
    /\ DropMarker(canceler.key) /\ canceler' = [canceler EXCEPT !.pc = "unmarked"]
    /\ UNCHANGED <<content, item, age, temp, final, creator, request, cleaner, crowded>>

CancelItem ==
    /\ canceler.pc = "unmarked"
    /\ SetStatus(canceler.key, "canceled") /\ canceler' = Idle
    /\ UNCHANGED <<content, age, bucket, creator, request, cleaner, crowded, faults>>

Cancel == CancelLoad \/ CancelMarker \/ CancelItem

-------------------------------------------------------------------------------
(* CleanupExpiredUploads, run by runCleanupLoop *)

\* Variant: only keys whose upload has begun are looked at.
Expired_Begun(k) == Past(k, Start) /\ marker[k] = "temp"
\* Variant: only keys that wait for their content are looked at.
Expired_Waiting(k) == Past(k, Start) /\ item[k].status = "created"

\* A deadline of the key has passed.
Expired(k) == Past(k, Start) \/ Past(k, Finish)

\* The markers are listed and the time of the pass is taken; a pass is over
\* when its list is empty.
CleanBegin ==
    /\ cleaner = Asleep
    /\ cleaner' = [Asleep EXCEPT !.todo = {k \in Keys : marker[k] # "none" /\ Expired(k)}]
    /\ UNCHANGED <<content, item, age, bucket, creator, request, canceler, crowded, faults>>

CleanLoad(k) ==
    /\ cleaner.pc = "next" /\ k \in cleaner.todo
    /\ \/ /\ marker[k] # "none" /\ NoFault
          /\ cleaner' = [cleaner EXCEPT !.pc = IF marker[k] = "temp" THEN "temp" ELSE "marker",
                                        !.key = k, !.todo = @ \ {k}]
       \/ marker[k] = "none" /\ NoFault /\ cleaner' = [cleaner EXCEPT !.todo = @ \ {k}]
       \/ Fault /\ cleaner' = [cleaner EXCEPT !.todo = @ \ {k}]
    /\ UNCHANGED <<content, item, age, bucket, creator, request, canceler, crowded>>

CleanTemp ==
    /\ cleaner.pc = "temp"
    /\ DropTemp(cleaner.key) /\ cleaner' = [cleaner EXCEPT !.pc = "marker"]
    /\ UNCHANGED <<content, item, age, marker, final, creator, request, canceler, crowded>>

CleanMarker ==
    /\ cleaner.pc = "marker"
    /\ DropMarker(cleaner.key) /\ cleaner' = [cleaner EXCEPT !.pc = "item"]
    /\ UNCHANGED <<content, item, age, temp, final, creator, request, canceler, crowded>>

CleanItem ==
    /\ cleaner.pc = "item"
    /\ SetStatus(cleaner.key, "expired")
    /\ cleaner' = [cleaner EXCEPT !.pc = "next", !.key = None]
    /\ UNCHANGED <<content, age, bucket, creator, request, canceler, crowded, faults>>

Clean == CleanBegin \/ (\E k \in Keys : CleanLoad(k)) \/ CleanTemp \/ CleanMarker \/ CleanItem

-------------------------------------------------------------------------------
\* The server is killed: memory is lost, requests end, the bucket stays.
Crash ==
    /\ Fault
    /\ item' = [k \in Keys |-> Absent]
    /\ request' = [r \in Requests |-> IF request[r].pc = "idle" THEN Idle ELSE [pc |-> "done", key |-> None]]
    /\ creator' = [c \in Creators |-> Idle] /\ canceler' = Idle /\ cleaner' = Asleep
    /\ UNCHANGED <<content, age, bucket, crowded>>

Next ==
    \/ Tick \/ Crash \/ Cancel \/ Clean
    \/ \E c \in Creators : Create(c)
    \/ \E r \in Requests : Upload(r)
    \/ \E r \in Requests, k \in Keys : CheckStatus(r, k)
    \/ \E k \in Keys : CancelBegin(k)

Spec == Init /\ [][Next]_vars

\* Time passes, handlers run to their end and the cleanup loop keeps turning;
\* nobody must create, upload or cancel.
Fairness ==
    /\ WF_vars(Tick) /\ WF_vars(Cancel) /\ WF_vars(Clean)
    /\ \A c \in Creators : WF_vars(MarkKey(c) \/ InsertItem(c))
    /\ \A r \in Requests : WF_vars(Upload(r))
FairSpec == Spec /\ Fairness

-------------------------------------------------------------------------------
TypeOK ==
    /\ content \in Contents
    /\ item \in [Keys -> [status : Statuses, body : Requests \union {None}]]
    /\ age \in [Keys -> 0 .. Oldest \union {None}]
    /\ marker \in [Keys -> {"none", "plain", "temp"}]
    /\ temp \in [Keys -> Staged \union {None}] /\ final \in [Keys -> Requests \union {None}]
    /\ \A c \in Creators : creator[c] \in {Idle} \union [pc : {"counted", "marked"}, key : Keys]
    /\ \A r \in Requests : request[r].key \in Keys <=> request[r].pc \notin {"idle", "done"}
    /\ \A k \in Keys : age[k] = None => item[k] = Absent /\ marker[k] = "none"
    /\ canceler \in {Idle} \union [pc : {"checked", "loaded", "unmarked"}, key : Keys]
    /\ cleaner.key \in Keys <=> cleaner.pc \in {"temp", "marker", "item"}
    /\ cleaner.todo \subseteq {k \in Keys : age[k] # None}
    /\ crowded \subseteq Keys /\ faults \in 0 .. MaxFaults

\* An object under a temporary key is known to somebody who will delete it, an
\* upload in flight or the marker the cleanup reads, as long as no call failed
\* and the server was not killed (uploadFile and CleanupExpiredUploads).
TempAccounted ==
    faults = 0 => \A k \in Keys : temp[k] # None => marker[k] = "temp" \/ InFlight(k) # {}

\* The item of a finished upload records what is stored under the object key,
\* and that was not refused, if its key never had two uploads in flight
\* (uploadFile: checksum and copy).
UploadedIsRecorded ==
    \A k \in Keys \ crowded :
        /\ final[k] \notin Refused
        /\ item[k].status = "uploaded" => final[k] = item[k].body

\* A finished upload stays finished, unless the server stops or a cleanup, a
\* cancellation or a second upload of the key was under way.
UploadedStays ==
    [][\A k \in Keys : item[k].status = "uploaded" /\ item'[k].status \notin {"uploaded", "absent"} =>
        cleaner.key = k \/ canceler.key = k \/ k \in crowded]_vars

\* Every key waiters ask for gets a final status or is forgotten by a restart
\* (waitUploads, runCleanupLoop).
KeysSettle ==
    \A k \in Keys : item[k].status \in {"created", "uploading"} ~> item[k].status \in Terminal \union {"absent"}

\* No marker stays in the bucket for ever.
MarkersVanish == \A k \in Keys : []<>(marker[k] = "none")
===============================================================================
