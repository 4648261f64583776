------------------------------ MODULE SharedKeys ------------------------------
(***************************************************************************)
(* Shared keys of stored objects (internal/server server.go): creation,    *)
(* revocation, deletion of an object with its shares, and resolution for a *)
(* download.  A share is a record under the shared prefix and a marker in  *)
(* the directory of its object; all objects here are in one directory, so  *)
(* a listing of markers shows the shares of all of them.                   *)
(***************************************************************************)
EXTENDS Integers, FiniteSets

CONSTANTS
    Shares,         \* bound: creations, each of a share of its own
    Objects,        \* stored in one directory
    Deleters,       \* deletions of an object, each may be a retry
    Revokers,       \* deletions of one share
    DefaultTTL,     \* SharedKeyTTL, in ticks; 0 is none
    MaxTTL,         \* SharedKeyMaxTTL; 0 is none
    MaxTime,        \* bound: the clock
    MaxFaults,      \* bound: failed storage calls
    None

\* The body of a share: what it names and when it expires.
Bodies == [target : Objects, expires : 0..(2 * MaxTime + DefaultTTL + 1) \union {None}]

SharedAssumption ==
    /\ None \notin Shares \union Objects \union Bodies
    /\ {DefaultTTL, MaxTTL, MaxTime, MaxFaults} \subseteq Nat

VARIABLES
    now,
    object,         \* the bucket: objects
    record,         \* the bucket: shared prefix, the record of each share
    marker,         \* the bucket: .shared/ of the directory, with the same body
    creator, deleter, revoker,
    orphaned,       \* history: shares with a failed delete of their record
    misread,        \* history: shares whose marker could not be read by a deletion
    revoked,        \* history: shares some request wanted to revoke
    faults          \* bound: spent of MaxFaults

bucket == <<object, record, marker>>
history == <<orphaned, misread, revoked>>
vars == <<now, bucket, creator, deleter, revoker, history, faults>>

Unborn == [pc |-> "idle", rec |-> None]
Asleep == [pc |-> "idle", object |-> None, todo |-> {}, share |-> None, before |-> {}]
Still == [pc |-> "idle", share |-> None]

Init ==
    /\ now = 0 /\ object = Objects
    /\ record = [s \in Shares |-> None] /\ marker = [s \in Shares |-> None]
    /\ creator = [s \in Shares |-> Unborn] /\ deleter = [d \in Deleters |-> Asleep]
    /\ revoker = [r \in Revokers |-> Still]
    /\ orphaned = {} /\ misread = {} /\ revoked = {} /\ faults = 0

Fault == faults < MaxFaults /\ faults' = faults + 1

Tick == now < MaxTime /\ now' = now + 1
        /\ UNCHANGED <<bucket, creator, deleter, revoker, history, faults>>

\* A call returns; one that fails may have been stored all the same.
Done(var, new) == var' = new /\ UNCHANGED faults
Broken(var, old, new) == Fault /\ var' \in {old, new}

(***************************************************************************)
(* createSharedKey.                                                        *)
(***************************************************************************)
\* The expiry of a new share; None is never.  What is asked for is bounded by
\* the maximum, the default is not.
Expiries ==
    {now + t : t \in {t \in 1..(MaxTime + 1) : MaxTTL > 0 => t <= MaxTTL}}
      \union {IF DefaultTTL > 0 THEN now + DefaultTTL ELSE None}

PutRecord(s) ==
    /\ creator[s].pc = "idle"
    /\ \E o \in Objects, e \in Expiries :
         LET rec == [target |-> o, expires |-> e]
             put == [record EXCEPT ![s] = rec]
         IN  \/ /\ Done(record, put)
                /\ creator' = [creator EXCEPT ![s] = [pc |-> "marker", rec |-> rec]]
             \/ /\ Broken(record, record, put)
                /\ creator' = [creator EXCEPT ![s] = [pc |-> "error", rec |-> rec]]
    /\ UNCHANGED <<object, marker>>

PutMarker(s) ==
    /\ creator[s].pc = "marker"
    /\ LET put == [marker EXCEPT ![s] = creator[s].rec] IN
         \/ /\ Done(marker, put) /\ creator' = [creator EXCEPT ![s].pc = "created"]
         \/ /\ Broken(marker, marker, put) /\ creator' = [creator EXCEPT ![s].pc = "undo"]
    /\ UNCHANGED <<object, record>>

\* The record is deleted again; the result is ignored.
Undo(s) ==
    /\ creator[s].pc = "undo" /\ creator' = [creator EXCEPT ![s].pc = "error"]
    /\ LET gone == [record EXCEPT ![s] = None] IN
         Done(record, gone) \/ Broken(record, record, gone)
    /\ UNCHANGED <<object, marker>>

Create(s) ==
    /\ PutRecord(s) \/ PutMarker(s) \/ Undo(s)
    /\ UNCHANGED <<now, deleter, revoker, history>>

(***************************************************************************)
(* deleteObjectAndShares.                                                  *)
(***************************************************************************)
Moves(d, pc) == deleter' = [deleter EXCEPT ![d].pc = pc]

\* The markers of the directory, those of other objects among them.
ListMarkers(d) ==
    /\ deleter[d].pc = "idle"
    /\ \E o \in Objects :
         LET begun == [Asleep EXCEPT !.pc = "next", !.object = o, !.todo = {s \in Shares : marker[s] # None},
                                     !.before = {s \in Shares : creator[s].pc = "created" /\ creator[s].rec.target = o}]
         IN  \/ deleter' = [deleter EXCEPT ![d] = begun] /\ UNCHANGED faults
             \/ deleter' = [deleter EXCEPT ![d] = [begun EXCEPT !.pc = "error"]] /\ Fault
    /\ UNCHANGED <<bucket, history>>

\* Variant: a marker in the directory is a share of the object.
Foreign_Never(d, s) == FALSE

\* The marker names another object.
Foreign(d, s) == marker[s] # None /\ marker[s].target # deleter[d].object

\* A marker that is gone or cannot be read counts as one of the object.
LoadMarker(d) ==
    /\ deleter[d].pc = "next"
    /\ \E s \in deleter[d].todo :
         \/ /\ Foreign(d, s) /\ deleter' = [deleter EXCEPT ![d].todo = @ \ {s}]
            /\ UNCHANGED <<misread, faults>>
         \/ /\ ~Foreign(d, s)
            /\ deleter' = [deleter EXCEPT ![d].todo = @ \ {s}, ![d].share = s, ![d].pc = "marker"]
            /\ UNCHANGED <<misread, faults>>
         \/ /\ Fault /\ misread' = misread \union {s}
            /\ deleter' = [deleter EXCEPT ![d].todo = @ \ {s}, ![d].share = s, ![d].pc = "marker"]
    /\ UNCHANGED <<bucket, orphaned, revoked>>

DeleteMarker(d) ==
    /\ deleter[d].pc = "marker"
    /\ LET gone == [marker EXCEPT ![deleter[d].share] = None] IN
         \/ Done(marker, gone) /\ Moves(d, "record") /\ UNCHANGED orphaned
         \/ /\ Broken(marker, marker, gone) /\ Moves(d, "error")
            /\ orphaned' = orphaned \union {deleter[d].share}
    /\ UNCHANGED <<object, record, misread, revoked>>

\* Variant: the record is left when its marker is gone.
Erased_Marker(d) == record

Erased(d) == [record EXCEPT ![deleter[d].share] = None]

DeleteRecord(d) ==
    /\ deleter[d].pc = "record"
    /\ \/ Done(record, Erased(d)) /\ Moves(d, "next") /\ UNCHANGED orphaned
       \/ /\ Broken(record, record, Erased(d)) /\ Moves(d, "error")
          /\ orphaned' = orphaned \union {deleter[d].share}
    /\ UNCHANGED <<object, marker, misread, revoked>>

DeleteObject(d) ==
    /\ deleter[d].pc = "next" /\ deleter[d].todo = {}
    /\ LET gone == object \ {deleter[d].object} IN
         \/ Done(object, gone) /\ Moves(d, "deleted")
         \/ Broken(object, object, gone) /\ Moves(d, "error")
    /\ UNCHANGED <<record, marker, history>>

Delete(d) ==
    /\ ListMarkers(d) \/ LoadMarker(d) \/ DeleteMarker(d) \/ DeleteRecord(d) \/ DeleteObject(d)
    /\ UNCHANGED <<now, creator, revoker>>

(***************************************************************************)
(* deleteSharedKey: a record that cannot be read hides its marker.         *)
(***************************************************************************)
LoadRecord(r) ==
    /\ revoker[r].pc = "idle"
    /\ \E s \in Shares :
         /\ revoked' = revoked \union {s}
         /\ \/ /\ revoker' = [revoker EXCEPT ![r] = [pc |-> IF record[s] = None THEN "record" ELSE "marker", share |-> s]]
               /\ UNCHANGED faults
            \/ /\ Fault /\ revoker' = [revoker EXCEPT ![r] = [pc |-> "record", share |-> s]]
    /\ UNCHANGED <<bucket, orphaned, misread>>

RevokeCall(r) ==
    LET s == revoker[r].share
        unmarked == [marker EXCEPT ![s] = None]
        erased == [record EXCEPT ![s] = None]
        Pc(pc) == revoker' = [revoker EXCEPT ![r].pc = pc]
    IN  /\ \/ /\ revoker[r].pc = "marker" /\ UNCHANGED record
              /\ \/ Done(marker, unmarked) /\ Pc("record")
                 \/ Broken(marker, marker, unmarked) /\ Pc("error")
           \/ /\ revoker[r].pc = "record" /\ UNCHANGED marker
              /\ \/ Done(record, erased) /\ Pc("revoked")
                 \/ Broken(record, record, erased) /\ Pc("error")
        /\ UNCHANGED <<object, orphaned, misread, revoked>>

Revoke(r) ==
    /\ LoadRecord(r) \/ RevokeCall(r)
    /\ UNCHANGED <<now, creator, deleter>>

Next ==
    \/ Tick \/ \E s \in Shares : Create(s)
    \/ \E d \in Deleters : Delete(d)
    \/ \E r \in Revokers : Revoke(r)

Spec == Init /\ [][Next]_vars

(***************************************************************************)
(* Properties.                                                             *)
(***************************************************************************)
\* resolveSharedKey finds the share and it has not expired.
Resolves(s) ==
    record[s] # None /\ (record[s].expires # None => now <= record[s].expires)

\* Every variable stays in its range.
TypeOK ==
    /\ now \in 0..MaxTime /\ object \subseteq Objects
    /\ {record, marker} \subseteq [Shares -> Bodies \union {None}]
    /\ \A d \in Deleters : deleter[d].todo \union deleter[d].before \subseteq Shares
    /\ orphaned \union misread \union revoked \subseteq Shares /\ faults \in 0..MaxFaults

\* When the deletion of an object is answered, no share of it that was created
\* before the deletion began resolves, then or later, unless another deletion
\* has taken its marker, by which this one would have found it, and is about to
\* delete the record or has failed to.
NoShareSurvives ==
    \A d \in Deleters : deleter[d].pc = "deleted" =>
        \A s \in deleter[d].before \ (orphaned \union revoked) : Resolves(s) =>
            \E e \in Deleters : deleter[e].pc = "record" /\ deleter[e].share = s

\* A share that was created, was never revoked and whose object no deletion
\* names stays, as long as its marker can be read.
OthersKeepTheirs ==
    \A s \in Shares :
        (/\ creator[s].pc = "created" /\ s \notin revoked \union misread
         /\ \A d \in Deleters : deleter[d].object # creator[s].rec.target)
            => record[s] = creator[s].rec /\ marker[s] = creator[s].rec
===============================================================================
