------------------------------ MODULE FileEdits ------------------------------
(***************************************************************************)
(* One file as the drive servers see and edit it (drive/server files.go,   *)
(* overlay.go).  A request resolves the file: it takes the journal key the *)
(* server's index is folded to, lists the journal after it (or reuses the  *)
(* listing of an earlier request), and only when the file is not in there  *)
(* looks into the meta cache.  An edit clones what it resolved and appends *)
(* the whole new state; nothing is locked and the last key wins.           *)
(*                                                                         *)
(* A server is any process with the handlers: all-in-one, where the        *)
(* indexer moves cache and key, or split, where the follower does.  Only   *)
(* the order matters here: the cache first, then the key.                  *)
(***************************************************************************)
EXTENDS Integers, Sequences, FiniteSets

CONSTANTS
    Servers,
    Slots,          \* bound: requests in flight at once
    Objects,        \* object keys of finished uploads of the file
    Tags,
    Drives,         \* bound: the deployments: [worm, ttl, servers, requests],
                    \* the write-once mode, whether a listing is reused for a
                    \* while, the servers and how many requests are in flight
    MaxOverlay,     \* Config.MaxOverlay
    MaxKey,         \* bound: journal events
    MaxFaults       \* bound: failed appends and restarts

ASSUME EditsAssumption ==
    /\ Drives \subseteq [worm : {"off", "append_only", "strict"}, ttl : BOOLEAN,
                         servers : SUBSET Servers, requests : Nat]
    /\ Servers # {} /\ IsFiniteSet(Slots)
    /\ MaxOverlay \in Nat \ {0} /\ {MaxKey, MaxFaults} \subseteq Nat

VARIABLES
    journal,        \* the states of the file, in the order of their keys
    folded,         \* per server: LastJournalKey
    cached,         \* per server: the event of the state in its meta cache
    overlay,        \* per server: overlayCache
    request,        \* per slot: a request being served
    drive,          \* Config.Worm and Config.OverlayTTL, read at start
    acked,          \* history: the newest event each server answered for
    faults

vars == <<journal, folded, cached, overlay, request, drive, acked, faults>>

\* A listing: the key it starts after and the newest event of the file in it.
\* An old one is never used again, so it is not kept.
NoOverlay == [fresh |-> FALSE, since |-> 0, state |-> 0]

Steps == {"free", "list", "cache", "resolved", "stored"}
NoRequest == [pc |-> "free", server |-> CHOOSE s \in Servers : TRUE,
              since |-> 0, cur |-> 0, floor |-> 0, low |-> 0]

Init ==
    /\ journal = <<>>
    /\ folded = [s \in Servers |-> 0] /\ cached = [s \in Servers |-> 0]
    /\ overlay = [s \in Servers |-> NoOverlay]
    /\ request = [q \in Slots |-> NoRequest]
    /\ drive \in Drives /\ acked = [s \in Servers |-> 0]
    /\ faults = 0

InFlight == Cardinality({q \in Slots : request[q].pc # "free"})

Fault == faults < MaxFaults /\ faults' = faults + 1

\* registerFile: a new file id, so nothing is resolved first.
Register(s) ==
    /\ journal = <<>> /\ MaxKey > 0
    /\ \E o \in Objects, t \in SUBSET Tags :
         journal' = <<[rev |-> 1, object |-> o, versions |-> {}, tags |-> t,
                       deleted |-> FALSE]>>
    /\ overlay' = [overlay EXCEPT ![s] = NoOverlay]
    /\ acked' = [acked EXCEPT ![s] = 1]
    /\ UNCHANGED <<folded, cached, request, faults, drive>>

(***************************************************************************)
(* The index side of a server.  What StatesCoverCursor of DriveIndexer and *)
(* CacheCoversPointer of MetaFollower promise is all a server may count on.*)
(***************************************************************************)
CacheMoves(s) ==
    /\ cached' \in {[cached EXCEPT ![s] = k] : k \in folded[s]..Len(journal)}
    /\ cached' # cached
    /\ UNCHANGED <<journal, folded, overlay, request, acked, faults, drive>>

KeyMoves(s) ==
    /\ folded' \in {[folded EXCEPT ![s] = k] : k \in folded[s]..cached[s]}
    /\ folded' # folded
    /\ UNCHANGED <<journal, cached, overlay, request, acked, faults, drive>>

\* A follower that restarts serves an empty index and the whole journal.
Restart(s) ==
    /\ Fault
    /\ folded' = [folded EXCEPT ![s] = 0] /\ cached' = [cached EXCEPT ![s] = 0]
    /\ overlay' = [overlay EXCEPT ![s] = NoOverlay]
    /\ request' = [q \in Slots |->
                     IF request[q].server = s THEN NoRequest ELSE request[q]]
    /\ UNCHANGED <<journal, acked, drive>>

(***************************************************************************)
(* resolveFile.                                                            *)
(***************************************************************************)
Free(q) == [request EXCEPT ![q] = NoRequest]

\* LastJournalKey, before the overlay is locked.
Begin(q, s) ==
    /\ request[q].pc = "free" /\ InFlight < drive.requests /\ journal # <<>>
    /\ request' = [request EXCEPT ![q] =
                      [pc |-> "list", server |-> s, since |-> folded[s],
                       cur |-> 0, floor |-> acked[s], low |-> folded[s]]]
    /\ UNCHANGED <<journal, folded, cached, overlay, acked, faults, drive>>

\* Variant: the first event of a file in the listing wins.
Listed_OldestWins(since) == IF Len(journal) = since THEN 0 ELSE since + 1

\* The newest of the first MaxOverlay events after `since`, 0 if there is none.
Listed(since) ==
    IF Len(journal) = since THEN 0
    ELSE IF Len(journal) - since > MaxOverlay THEN since + MaxOverlay
    ELSE Len(journal)

\* Variant: a fresh listing is reused whatever key it starts after.
Reusable_AnySince(o, since) == o.fresh

Reusable(o, since) == o.fresh /\ o.since = since

Overlaid(o, since) ==
    IF Reusable(o, since) THEN o
    ELSE [fresh |-> TRUE, since |-> since, state |-> Listed(since)]

\* overlayStates, under its lock.
List(q) ==
    LET s == request[q].server
        o == Overlaid(overlay[s], request[q].since)
    IN
    /\ request[q].pc = "list"
    /\ overlay' = [overlay EXCEPT ![s] = IF drive.ttl THEN o ELSE NoOverlay]
    /\ request' = [request EXCEPT ![q].pc = IF o.state # 0 THEN "resolved" ELSE "cache",
                                  ![q].since = 0, ![q].cur = o.state]
    /\ UNCHANGED <<journal, folded, cached, acked, faults, drive>>

\* A listing gets too old.
Expire(s) ==
    /\ overlay[s].fresh
    /\ overlay' = [overlay EXCEPT ![s] = NoOverlay]
    /\ UNCHANGED <<journal, folded, cached, request, acked, faults, drive>>

\* Metas.Get; a file that is not there either is a 404.
LookUp(q) ==
    LET k == cached[request[q].server] IN
    /\ request[q].pc = "cache"
    /\ request' = IF k = 0 THEN Free(q)
                  ELSE [request EXCEPT ![q].pc = "resolved", ![q].cur = k]
    /\ UNCHANGED <<journal, folded, cached, overlay, acked, faults, drive>>

(***************************************************************************)
(* The edits: the state each handler appends for what it resolved.         *)
(***************************************************************************)

\* Variant: write-once with additions checks nothing of the tags.
UpdateAllowed_Any(cur, tags) == drive.worm \in {"off", "append_only"}

\* worm.CheckUpdate, for the tags.
UpdateAllowed(cur, tags) ==
    drive.worm = "off" \/ (drive.worm = "append_only" /\ cur.tags \subseteq tags)

Patched(cur) ==
    {[cur EXCEPT !.tags = t, !.rev = @ + 1] :
        t \in {u \in SUBSET Tags : ~cur.deleted /\ UpdateAllowed(cur, u)}}

Deleted(cur) ==
    IF drive.worm # "off" \/ cur.deleted THEN {}
    ELSE {[cur EXCEPT !.deleted = TRUE, !.rev = @ + 1]}

Restored(cur) ==
    IF drive.worm # "off" \/ ~cur.deleted THEN {}
    ELSE {[cur EXCEPT !.deleted = FALSE, !.rev = @ + 1]}

\* Variant: the object that is replaced is not listed.
Versioned_Forgets(cur) ==
    {[cur EXCEPT !.object = o, !.rev = @ + 1] :
        o \in {p \in Objects : ~cur.deleted /\ p \notin {cur.object} \cup cur.versions}}

Versioned(cur) ==
    {[cur EXCEPT !.versions = @ \cup {cur.object}, !.object = o, !.rev = @ + 1] :
        o \in {p \in Objects : ~cur.deleted /\ p \notin {cur.object} \cup cur.versions}}

\* The states a patch, delete, restore or version request may append; what a
\* check of its handler refuses is not among them.
Edited(cur) == Patched(cur) \cup Deleted(cur) \cup Restored(cur) \cup Versioned(cur)

\* Journal.Append of the new state: stored, stored with an error, or failed.
AppendState(q) ==
    /\ request[q].pc = "resolved" /\ Len(journal) < MaxKey
    /\ \E new \in Edited(journal[request[q].cur]) :
         \/ /\ journal' = Append(journal, new)
            /\ request' = [request EXCEPT ![q].pc = "stored",
                                          ![q].cur = Len(journal) + 1]
            /\ UNCHANGED faults
         \/ Fault /\ journal' = Append(journal, new) /\ request' = Free(q)
    /\ UNCHANGED <<folded, cached, overlay, acked, drive>>

\* Variant: the listing stays.
Invalidated_Never(o) == o

Invalidated(o) == NoOverlay

\* invalidateOverlay, then the answer.
Invalidate(q) ==
    LET s == request[q].server IN
    /\ request[q].pc = "stored"
    /\ overlay' = [overlay EXCEPT ![s] = Invalidated(@)]
    /\ acked' = [acked EXCEPT ![s] = IF @ < request[q].cur THEN request[q].cur ELSE @]
    /\ request' = Free(q)
    /\ UNCHANGED <<journal, folded, cached, faults, drive>>

\* A read is answered, a check of an edit fails, a call fails, or the client
\* is gone.
Finish(q) ==
    /\ request[q].pc \in {"list", "cache", "resolved"}
    /\ request' = Free(q)
    /\ UNCHANGED <<journal, folded, cached, overlay, acked, faults, drive>>

Next ==
    \/ \E s \in drive.servers : Register(s) \/ CacheMoves(s) \/ KeyMoves(s)
                                \/ Restart(s) \/ Expire(s)
    \/ \E q \in Slots : \/ \E s \in drive.servers : Begin(q, s)
                        \/ List(q) \/ LookUp(q) \/ AppendState(q)
                        \/ Invalidate(q) \/ Finish(q)

Spec == Init /\ [][Next]_vars

(***************************************************************************)
(* Properties.                                                             *)
(***************************************************************************)
State == [rev : Nat, object : Objects, versions : SUBSET Objects,
          tags : SUBSET Tags, deleted : BOOLEAN]

\* Every variable stays in its range, and no server is folded past its cache
\* or past the journal.
TypeOK ==
    /\ journal \in Seq(State) /\ Len(journal) <= MaxKey
    /\ \A s \in Servers : /\ folded[s] \in 0..cached[s] /\ cached[s] \in 0..Len(journal)
                          /\ overlay[s].since \in 0..Len(journal)
                          /\ overlay[s].state \in 0..Len(journal)
                          /\ acked[s] \in 0..Len(journal)
    /\ \A q \in Slots : /\ request[q].pc \in Steps /\ request[q].server \in Servers
                        /\ request[q].pc \in {"resolved", "stored"}
                              => request[q].cur \in 1..Len(journal)
    /\ faults \in Nat

\* What a client of a server was answered for, it sees in every later request
\* to that server: reused listings, index moves and restarts never hide it.
ReadYourWrites ==
    \A q \in Slots : request[q].pc = "resolved" => request[q].cur >= request[q].floor

\* A request never resolves a state older than the index key of its server when
\* it began: an old listing does not win over a newer index.
ReadNotBehindIndex ==
    \A q \in Slots : request[q].pc = "resolved" => request[q].cur >= request[q].low

OneAtATime == drive.requests = 1

\* While one request is served at a time every edit was made on the state it
\* follows, through whichever server: revisions count the events.
EditsFollow == OneAtATime => \A k \in 1..Len(journal) : journal[k].rev = k

\* Nothing recorded is lost: an object that some event gave to the file is its
\* object or one of its versions ever after, and a deleted file comes back only
\* by a restore.
NothingLost ==
    \A k \in 1..Len(journal), h \in 1..Len(journal) :
        h < k => /\ {journal[h].object} \cup journal[h].versions
                      \subseteq {journal[k].object} \cup journal[k].versions
                 /\ journal[h].deleted /\ h = k - 1 /\ ~journal[k].deleted
                      => journal[k] = [journal[h] EXCEPT !.deleted = FALSE, !.rev = k]

\* So it is while one request is served at a time.
NothingLostInTurn == OneAtATime => NothingLost

\* The write-once modes remove and rewrite nothing, tags included.
WriteOnce ==
    drive.worm # "off" =>
        \A k \in 2..Len(journal) :
            /\ journal[k - 1].tags \subseteq journal[k].tags
            /\ drive.worm = "strict" => journal[k].tags = journal[k - 1].tags
            /\ ~journal[k].deleted

===============================================================================
