----------------------------- MODULE DriveJournal -----------------------------
(***************************************************************************)
(* The journal of one tenant: immutable objects whose keys carry a ULID,   *)
(* so that the byte order of the keys is the order in which they were      *)
(* stamped (drive/journal).  A key is its rank in that order.  The journal *)
(* maps every key to the event stored under it, or to NoEvent while no     *)
(* object with that key is in the bucket: a handler stamps a key first and *)
(* its PUT may land later, or never.                                       *)
(***************************************************************************)
EXTENDS Naturals, FiniteSets

CONSTANTS
    Files,      \* file ids
    MaxKey      \* bound: ranks of journal keys

ASSUME JournalAssumption == MaxKey \in Nat /\ IsFiniteSet(Files)

Keys == 1..MaxKey

(***************************************************************************)
(* "put" stands for the events that leave the file alive (file.created,    *)
(* file.updated, file.versioned, file.restored), "del" for file.deleted,   *)
(* and AccessEvent for an event without a file state (file.accessed).      *)
(***************************************************************************)
FileEvent   == [file : Files, kind : {"put", "del"}]
AccessEvent == [kind |-> "access"]
Event       == FileEvent \cup {AccessEvent}

NoEvent == [kind |-> "none"]

IsFileState(e) == e.kind \in {"put", "del"}

Landed(journal) == {k \in Keys : journal[k] # NoEvent}

\* The keys a listing that starts after `key` sees.
After(journal, key) == {k \in Landed(journal) : k > key}

\* ListAfter: the first `max` of them.
ListAfter(journal, key, max) ==
    {k \in After(journal, key) :
        Cardinality({h \in After(journal, key) : h <= k}) <= max}

\* ListRange: after `key` and at or before `until`.
ListRange(journal, key, until) == {k \in After(journal, key) : k <= until}

\* The events that carry a state of file f.
StateKeys(journal, f) ==
    {k \in Landed(journal) : IsFileState(journal[k]) /\ journal[k].file = f}

\* The largest element of a set of keys, 0 when it is empty.
Newest(S) == IF S = {} THEN 0 ELSE CHOOSE k \in S : \A h \in S : h <= k

\* The smallest key of a non-empty set.
Oldest(S) == CHOOSE k \in S : \A h \in S : k <= h

\* The event that holds the state of f once everything up to `key` is folded.
StateAt(journal, f, key) == Newest({k \in StateKeys(journal, f) : k <= key})

IsLive(journal, k) == k # 0 /\ journal[k].kind = "put"

(***************************************************************************)
(* What the search index holds for a file whose newest state is event k:   *)
(* documents built from that state, or nothing when the file is deleted.   *)
(***************************************************************************)
DocOf(journal, k) == IF IsLive(journal, k) THEN k ELSE 0

\* The documents of f at `key` or at any later event of f.
DocsSince(journal, f, key) ==
    {DocOf(journal, k) :
        k \in {StateAt(journal, f, key)} \cup {h \in StateKeys(journal, f) : h > key}}

\* The documents of the fold of the whole journal up to `key`.
FoldTo(journal, key) == [f \in Files |-> DocOf(journal, StateAt(journal, f, key))]

===============================================================================
