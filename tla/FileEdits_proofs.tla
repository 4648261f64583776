---------------------------- MODULE FileEdits_proofs ----------------------------
(***************************************************************************)
(* What holds of the edits of a file for any servers, requests, objects    *)
(* and tags, any number of events, failed appends and restarts: what a     *)
(* server resolves is never behind its index, nor behind what it answered  *)
(* for while its listings fit; edits in turn follow one another and lose   *)
(* nothing.                                                                *)
(***************************************************************************)
EXTENDS FileEdits, FiniteSetTheorems, TLAPS

(***************************************************************************)
(* The inductive invariants.                                               *)
(***************************************************************************)
Listing == [fresh : BOOLEAN, since : Nat, state : Nat]
Request == [pc : Steps, server : Servers, since : Nat, cur : Nat, floor : Nat, low : Nat]

Types ==
    /\ journal \in Seq(State) /\ Len(journal) <= MaxKey
    /\ folded \in [Servers -> Nat] /\ cached \in [Servers -> Nat]
    /\ acked \in [Servers -> Nat]
    /\ overlay \in [Servers -> Listing] /\ request \in [Slots -> Request]
    /\ drive \in Drives /\ faults \in Nat

\* The index of a server is behind its cache, and everything behind the journal.
ServerBounded(s) ==
    /\ folded[s] <= cached[s] /\ cached[s] <= Len(journal) /\ acked[s] <= Len(journal)
    /\ overlay[s].since <= Len(journal) /\ overlay[s].state <= Len(journal)
RequestBounded(q) ==
    request[q].pc \in {"resolved", "stored"} =>
        request[q].cur >= 1 /\ request[q].cur <= Len(journal)
Bounded == (\A s \in Servers : ServerBounded(s)) /\ (\A q \in Slots : RequestBounded(q))

\* A listing that is reused holds events after its key; a request starts from
\* the index of its server, which only moves on.
ListingAfter(s) ==
    overlay[s].fresh /\ overlay[s].state # 0 => overlay[s].since < overlay[s].state
StartedFrom(q) ==
    /\ request[q].pc = "list" => request[q].since = request[q].low
    /\ request[q].pc \in {"list", "cache"} => request[q].low <= folded[request[q].server]
    /\ request[q].pc = "resolved" => request[q].low <= request[q].cur
Started == (\A s \in Servers : ListingAfter(s)) /\ (\A q \in Slots : StartedFrom(q))

\* A listing that can be reused, and the index where a listing was empty, have
\* everything the server answered for.
ListingAnswers(s) ==
    overlay[s].fresh =>
        acked[s] <= IF overlay[s].state = 0 THEN overlay[s].since ELSE overlay[s].state
RequestAnswers(q) ==
    /\ request[q].pc = "list" => request[q].floor <= acked[request[q].server]
    /\ request[q].pc = "cache" => request[q].floor <= folded[request[q].server]
    /\ request[q].pc = "resolved" => request[q].floor <= request[q].cur
Answered == (\A s \in Servers : ListingAnswers(s)) /\ (\A q \in Slots : RequestAnswers(q))

\* In turn there is one request at most, and it resolves the newest state.
Unlisted == ~drive.ttl => \A s \in Servers : ~overlay[s].fresh
Latest(q) ==
    /\ request[q].pc = "cache" => folded[request[q].server] = Len(journal)
    /\ request[q].pc = "resolved" => request[q].cur = Len(journal)
InTurnInv ==
    /\ Unlisted
    /\ Len(journal) = 0 => \A q \in Slots : request[q].pc = "free"
    /\ OneAtATime =>
         /\ \A p, q \in Slots : request[p].pc # "free" /\ request[q].pc # "free" => p = q
         /\ \A q \in Slots : Latest(q)

\* In the write-once modes nothing is ever deleted, and in the strict one the
\* tags are those of the registration.
Kept ==
    drive.worm # "off" =>
        /\ \A k \in 1..Len(journal) : ~journal[k].deleted
        /\ drive.worm = "strict" =>
             \A h, k \in 1..Len(journal) : journal[h].tags = journal[k].tags

(***************************************************************************)
(* What the theorems assume of a behaviour or of the deployments.          *)
(***************************************************************************)

\* The events a request lists fit in its listing (MaxOverlay).
ListingsFit ==
    \A q \in Slots : request[q].pc = "list" => Len(journal) - request[q].since <= MaxOverlay

\* Where one request is served at a time, no listing is reused.
TurnsUnbuffered == \A d \in Drives : d.requests = 1 => ~d.ttl

\* Where tags may be added, one request is served at a time.
AdditionsInTurn == \A d \in Drives : d.worm = "append_only" => d.requests = 1

(***************************************************************************)
(* The requests and what each step sets of them.                           *)
(***************************************************************************)

\* The parameters, and a slot that is free.
LEMMA Params ==
  /\ MaxOverlay \in Nat \ {0} /\ MaxKey \in Nat /\ MaxFaults \in Nat
  /\ NoRequest \in Request /\ NoRequest.pc = "free" /\ NoOverlay \in Listing
  /\ NoOverlay.fresh = FALSE /\ NoOverlay.since = 0 /\ NoOverlay.state = 0
<1>1. (CHOOSE s \in Servers : TRUE) \in Servers
  BY EditsAssumption
<1> QED  BY <1>1, EditsAssumption DEF NoRequest, NoOverlay, Request, Listing, Steps

\* A slot that becomes free; the others stay.
LEMMA FreeIs ==
  ASSUME Types, NEW q \in Slots, request' = Free(q)
  PROVE  /\ request' \in [Slots -> Request] /\ request'[q].pc = "free"
         /\ \A p \in Slots \ {q} : request'[p] = request[p]
BY Params DEF Types, Free

\* A slot that goes on with what it resolved.
GoesOn(q, pc, n) ==
    \/ request' = [request EXCEPT ![q].pc = pc, ![q].cur = n]
    \/ request' = [request EXCEPT ![q].pc = pc, ![q].since = 0, ![q].cur = n]

LEMMA SlotIs ==
  ASSUME Types, NEW q \in Slots, NEW pc \in Steps, NEW n \in Nat, GoesOn(q, pc, n)
  PROVE  /\ request' \in [Slots -> Request]
         /\ \A p \in Slots \ {q} : request'[p] = request[p]
         /\ request'[q].pc = pc /\ request'[q].cur = n
         /\ request'[q].server = request[q].server
         /\ request'[q].floor = request[q].floor /\ request'[q].low = request[q].low
<1> DEFINE e == [request EXCEPT ![q].pc = pc]
           d == [e EXCEPT ![q].since = 0]
<1>0. request \in [Slots -> Request]
  BY DEF Types
<1>1. /\ e \in [Slots -> Request] /\ \A p \in Slots \ {q} : e[p] = request[p]
      /\ e[q].pc = pc /\ e[q].server = request[q].server
      /\ e[q].floor = request[q].floor /\ e[q].low = request[q].low
  BY <1>0 DEF Request
<1> HIDE DEF e
<1>2. /\ d \in [Slots -> Request] /\ \A p \in Slots \ {q} : d[p] = request[p]
      /\ d[q].pc = pc /\ d[q].server = request[q].server
      /\ d[q].floor = request[q].floor /\ d[q].low = request[q].low
  BY <1>1 DEF Request
<1> HIDE DEF d
<1>3. request' = [e EXCEPT ![q].cur = n] \/ request' = [d EXCEPT ![q].cur = n]
  BY DEF e, d, GoesOn
<1>4. CASE request' = [e EXCEPT ![q].cur = n]
  BY <1>1, <1>4 DEF Request
<1>5. CASE request' = [d EXCEPT ![q].cur = n]
  BY <1>2, <1>5 DEF Request
<1> QED  BY <1>3, <1>4, <1>5

LEMMA BeginIs ==
  ASSUME Types, NEW q \in Slots, NEW s \in Servers, Begin(q, s)
  PROVE  /\ request' \in [Slots -> Request]
         /\ \A p \in Slots \ {q} : request'[p] = request[p]
         /\ request'[q] = [pc |-> "list", server |-> s, since |-> folded[s],
                           cur |-> 0, floor |-> acked[s], low |-> folded[s]]
         /\ UNCHANGED <<journal, folded, cached, overlay, acked, faults, drive>>
<1>1. [pc |-> "list", server |-> s, since |-> folded[s], cur |-> 0,
       floor |-> acked[s], low |-> folded[s]] \in Request
  BY DEF Types, Request, Steps
<1> QED  BY <1>1 DEF Types, Begin

\* What a listing that starts after `since` finds.
LEMMA ListedIs ==
  ASSUME Types, NEW since \in Nat, since <= Len(journal)
  PROVE  /\ Listed(since) \in Nat /\ Listed(since) <= Len(journal)
         /\ Listed(since) = 0 <=> Len(journal) = since
         /\ Listed(since) # 0 => since < Listed(since)
         /\ Len(journal) - since <= MaxOverlay /\ Listed(since) # 0 => Listed(since) = Len(journal)
<1>1. Len(journal) \in Nat
  BY DEF Types
<1> QED  BY <1>1, Params DEF Listed

LEMMA ListIs ==
  ASSUME Types, NEW q \in Slots, List(q)
  PROVE  LET s == request[q].server
             o == Overlaid(overlay[s], request[q].since)
         IN /\ s \in Servers /\ request[q].pc = "list"
            /\ request' \in [Slots -> Request]
            /\ \A p \in Slots \ {q} : request'[p] = request[p]
            /\ request'[q].pc = (IF o.state # 0 THEN "resolved" ELSE "cache")
            /\ request'[q].cur = o.state /\ request'[q].server = s
            /\ request'[q].floor = request[q].floor /\ request'[q].low = request[q].low
            /\ overlay' = [overlay EXCEPT ![s] = IF drive.ttl THEN o ELSE NoOverlay]
            /\ UNCHANGED <<journal, folded, cached, acked, faults, drive>>
<1> DEFINE s == request[q].server
           o == Overlaid(overlay[s], request[q].since)
           pc == IF o.state # 0 THEN "resolved" ELSE "cache"
<1>1. /\ request \in [Slots -> Request] /\ overlay \in [Servers -> Listing]
      /\ s \in Servers /\ request[q].since \in Nat /\ Len(journal) \in Nat
  BY DEF Types, Request
<1>2. Listed(request[q].since) \in Nat
  BY <1>1, Params DEF Listed
<1>3. o \in Listing
  BY <1>1, <1>2 DEF Overlaid, Listing
<1>4. /\ request' = [request EXCEPT ![q].pc = pc, ![q].since = 0, ![q].cur = o.state]
      /\ overlay' = [overlay EXCEPT ![s] = IF drive.ttl THEN o ELSE NoOverlay]
      /\ UNCHANGED <<journal, folded, cached, acked, faults, drive>>
      /\ request[q].pc = "list"
  BY DEF List
<1>5. o.state \in Nat
  BY <1>3 DEF Listing
<1>6. pc \in Steps
  BY DEF Steps
<1> HIDE DEF o, pc
<1>7. /\ request' \in [Slots -> Request]
      /\ \A p \in Slots \ {q} : request'[p] = request[p]
      /\ request'[q].pc = pc /\ request'[q].cur = o.state /\ request'[q].server = s
      /\ request'[q].floor = request[q].floor /\ request'[q].low = request[q].low
  <2>1. GoesOn(q, pc, o.state)
    BY <1>4 DEF GoesOn
  <2> QED  BY <1>5, <1>6, <2>1, SlotIs, Zenon
<1> QED  BY <1>1, <1>4, <1>7 DEF o, pc

LEMMA LookUpIs ==
  ASSUME Types, NEW q \in Slots, LookUp(q)
  PROVE  LET k == cached[request[q].server] IN
         /\ request[q].server \in Servers /\ request[q].pc = "cache"
         /\ request' \in [Slots -> Request]
         /\ \A p \in Slots \ {q} : request'[p] = request[p]
         /\ \/ request'[q].pc = "free"
            \/ /\ request'[q].pc = "resolved" /\ request'[q].cur = k /\ k # 0
               /\ request'[q].server = request[q].server
               /\ request'[q].floor = request[q].floor /\ request'[q].low = request[q].low
         /\ UNCHANGED <<journal, folded, cached, overlay, acked, faults, drive>>
<1> DEFINE k == cached[request[q].server]
<1>1. /\ request \in [Slots -> Request] /\ request[q].server \in Servers /\ k \in Nat
  BY DEF Types, Request
<1>2. CASE k = 0
  BY <1>1, <1>2, FreeIs DEF LookUp
<1>3. CASE k # 0
  <2>1. request' = [request EXCEPT ![q].pc = "resolved", ![q].cur = k]
    BY <1>3 DEF LookUp
  <2> HIDE DEF k
  <2>2. "resolved" \in Steps
    BY DEF Steps
  <2>3. /\ request' \in [Slots -> Request]
        /\ \A p \in Slots \ {q} : request'[p] = request[p]
        /\ request'[q].pc = "resolved" /\ request'[q].cur = k
        /\ request'[q].server = request[q].server
        /\ request'[q].floor = request[q].floor /\ request'[q].low = request[q].low
    BY <1>1, <2>1, <2>2, SlotIs DEF GoesOn
  <2>4. /\ request[q].pc = "cache"
        /\ UNCHANGED <<journal, folded, cached, overlay, acked, faults, drive>>
    BY DEF LookUp
  <2> QED  BY <1>1, <1>3, <2>3, <2>4 DEF k
<1> QED  BY <1>2, <1>3

\* What an edit makes of a state: a revision more, no object less.
LEMMA EditedIs ==
  ASSUME NEW cur \in State, NEW new \in Edited(cur)
  PROVE  /\ new \in State /\ new.rev = cur.rev + 1
         /\ {cur.object} \cup cur.versions \subseteq {new.object} \cup new.versions
         /\ cur.deleted => ~new.deleted /\ new = [cur EXCEPT !.deleted = FALSE, !.rev = cur.rev + 1]
         /\ drive.worm # "off" => (new.deleted <=> cur.deleted) /\ cur.tags \subseteq new.tags
         /\ drive.worm \notin {"off", "append_only"} => new.tags = cur.tags
<1>0. /\ cur = [rev |-> cur.rev, object |-> cur.object, versions |-> cur.versions,
                tags |-> cur.tags, deleted |-> cur.deleted]
      /\ cur.rev \in Nat /\ cur.object \in Objects /\ cur.versions \in SUBSET Objects
      /\ cur.tags \in SUBSET Tags /\ cur.deleted \in BOOLEAN
  BY DEF State
<1>1. CASE new \in Patched(cur)
  <2>1. PICK t \in SUBSET Tags : /\ ~cur.deleted /\ UpdateAllowed(cur, t)
                                 /\ new = [cur EXCEPT !.tags = t, !.rev = @ + 1]
    BY <1>1 DEF Patched
  <2>2. new = [rev |-> cur.rev + 1, object |-> cur.object, versions |-> cur.versions,
               tags |-> t, deleted |-> cur.deleted]
    BY <1>0, <2>1
  <2>3. new \in State
    BY <1>0, <2>2 DEF State
  <2>4. /\ new.rev = cur.rev + 1 /\ new.object = cur.object /\ new.versions = cur.versions
        /\ new.tags = t /\ new.deleted = cur.deleted
    BY <2>2
  <2> QED  BY <1>0, <2>1, <2>2, <2>3, <2>4 DEF UpdateAllowed
<1>2. CASE new \in Deleted(cur)
  <2>1. ~cur.deleted /\ drive.worm = "off"
        /\ new = [cur EXCEPT !.deleted = TRUE, !.rev = @ + 1]
    BY <1>2 DEF Deleted
  <2>2. new = [rev |-> cur.rev + 1, object |-> cur.object, versions |-> cur.versions,
               tags |-> cur.tags, deleted |-> TRUE]
    BY <1>0, <2>1
  <2>3. new \in State
    BY <1>0, <2>2 DEF State
  <2>4. /\ new.rev = cur.rev + 1 /\ new.object = cur.object /\ new.versions = cur.versions
        /\ new.tags = cur.tags /\ new.deleted = TRUE
    BY <2>2
  <2> QED  BY <1>0, <2>1, <2>2, <2>3, <2>4
<1>3. CASE new \in Restored(cur)
  <2>1. cur.deleted /\ drive.worm = "off"
        /\ new = [cur EXCEPT !.deleted = FALSE, !.rev = @ + 1]
    BY <1>3 DEF Restored
  <2>2. new = [rev |-> cur.rev + 1, object |-> cur.object, versions |-> cur.versions,
               tags |-> cur.tags, deleted |-> FALSE]
    BY <1>0, <2>1
  <2>3. new \in State
    BY <1>0, <2>2 DEF State
  <2>4. /\ new.rev = cur.rev + 1 /\ new.object = cur.object /\ new.versions = cur.versions
        /\ new.tags = cur.tags /\ new.deleted = FALSE
    BY <2>2
  <2> QED  BY <1>0, <2>1, <2>2, <2>3, <2>4
<1>4. CASE new \in Versioned(cur)
  <2>1. PICK o \in Objects :
          /\ ~cur.deleted
          /\ new = [cur EXCEPT !.versions = @ \cup {cur.object}, !.object = o, !.rev = @ + 1]
    BY <1>4 DEF Versioned
  <2>2. new = [rev |-> cur.rev + 1, object |-> o, versions |-> cur.versions \cup {cur.object},
               tags |-> cur.tags, deleted |-> cur.deleted]
    BY <1>0, <2>1
  <2>3. new \in State
    BY <1>0, <2>2 DEF State
  <2>4. /\ new.rev = cur.rev + 1 /\ new.object = o /\ new.versions = cur.versions \cup {cur.object}
        /\ new.tags = cur.tags /\ new.deleted = cur.deleted
    BY <2>2
  <2> QED  BY <1>0, <2>1, <2>2, <2>3, <2>4
<1> QED  BY <1>1, <1>2, <1>3, <1>4 DEF Edited

LEMMA AppendIs ==
  ASSUME Types, Bounded, NEW q \in Slots, AppendState(q)
  PROVE  /\ request[q].pc = "resolved" /\ request[q].cur \in 1..Len(journal)
         /\ \E new \in Edited(journal[request[q].cur]) : journal' = Append(journal, new)
         /\ journal' \in Seq(State) /\ Len(journal') = Len(journal) + 1 /\ Len(journal') <= MaxKey
         /\ \A k \in 1..Len(journal) : journal'[k] = journal[k]
         /\ request' \in [Slots -> Request]
         /\ \A p \in Slots \ {q} : request'[p] = request[p]
         /\ \/ request'[q].pc = "free"
            \/ request'[q].pc = "stored" /\ request'[q].cur = Len(journal')
         /\ faults' \in Nat
         /\ UNCHANGED <<folded, cached, overlay, acked, drive>>
<1>1. /\ request \in [Slots -> Request] /\ journal \in Seq(State) /\ Len(journal) \in Nat
      /\ request[q].cur \in Nat /\ faults \in Nat /\ request[q].server \in Servers
  BY DEF Types, Request
<1>2. /\ request[q].pc = "resolved" /\ Len(journal) < MaxKey
      /\ UNCHANGED <<folded, cached, overlay, acked, drive>>
  BY DEF AppendState
<1>3. request[q].cur \in 1..Len(journal)
  BY <1>1, <1>2 DEF Bounded, ServerBounded, RequestBounded
<1>4. PICK new \in Edited(journal[request[q].cur]) :
         /\ journal' = Append(journal, new)
         /\ \/ /\ request' = [request EXCEPT ![q].pc = "stored", ![q].cur = Len(journal) + 1]
               /\ UNCHANGED faults
            \/ Fault /\ request' = Free(q)
  BY DEF AppendState
<1>5. journal[request[q].cur] \in State
  BY <1>1, <1>3
<1>6. new \in State
  BY <1>5, EditedIs
<1>7. /\ journal' \in Seq(State) /\ Len(journal') = Len(journal) + 1
      /\ \A k \in 1..Len(journal) : journal'[k] = journal[k]
  BY <1>1, <1>4, <1>6
<1>8. /\ request' \in [Slots -> Request]
      /\ \A p \in Slots \ {q} : request'[p] = request[p]
      /\ \/ request'[q].pc = "free"
         \/ request'[q].pc = "stored" /\ request'[q].cur = Len(journal')
  <2>1. CASE request' = Free(q)
    BY <2>1, FreeIs
  <2>2. CASE request' = [request EXCEPT ![q].pc = "stored", ![q].cur = Len(journal) + 1]
    <3>1. "stored" \in Steps /\ Len(journal) + 1 \in Nat
      BY <1>1 DEF Steps
    <3>2. GoesOn(q, "stored", Len(journal) + 1)
      BY <2>2 DEF GoesOn
    <3>3. /\ request' \in [Slots -> Request]
          /\ \A p \in Slots \ {q} : request'[p] = request[p]
          /\ request'[q].pc = "stored" /\ request'[q].cur = Len(journal) + 1
      BY <3>1, <3>2, SlotIs, Zenon
    <3> QED  BY <1>7, <3>3
  <2> QED  BY <1>4, <2>1, <2>2
<1>9. faults' \in Nat
  BY <1>1, <1>4 DEF Fault
<1> QED  BY <1>2, <1>3, <1>4, <1>7, <1>8, <1>9, <1>1, Params

LEMMA InvalidateIs ==
  ASSUME Types, Bounded, NEW q \in Slots, Invalidate(q)
  PROVE  LET s == request[q].server IN
         /\ s \in Servers /\ request[q].pc = "stored"
         /\ request' \in [Slots -> Request] /\ request'[q].pc = "free"
         /\ \A p \in Slots \ {q} : request'[p] = request[p]
         /\ overlay' = [overlay EXCEPT ![s] = NoOverlay]
         /\ acked' \in [Servers -> Nat]
         /\ \A t \in Servers : acked[t] <= acked'[t] /\ acked'[t] <= Len(journal)
         /\ \A t \in Servers \ {s} : acked'[t] = acked[t]
         /\ UNCHANGED <<journal, folded, cached, faults, drive>>
<1> DEFINE s == request[q].server
<1>1. /\ request \in [Slots -> Request] /\ s \in Servers /\ request[q].cur \in Nat
      /\ acked \in [Servers -> Nat] /\ Len(journal) \in Nat
  <2>1. request[q] \in Request
    BY DEF Types
  <2> QED  BY <2>1 DEF Types, Request
<1>2. /\ request[q].pc = "stored" /\ request' = Free(q)
      /\ overlay' = [overlay EXCEPT ![s] = NoOverlay]
      /\ acked' = [acked EXCEPT ![s] = IF @ < request[q].cur THEN request[q].cur ELSE @]
      /\ UNCHANGED <<journal, folded, cached, faults, drive>>
  BY DEF Invalidate, Invalidated
<1>3. /\ request' \in [Slots -> Request] /\ request'[q].pc = "free"
      /\ \A p \in Slots \ {q} : request'[p] = request[p]
  BY <1>2, FreeIs
<1>4. request[q].cur <= Len(journal)
  BY <1>2 DEF Bounded, ServerBounded, RequestBounded
<1> HIDE DEF s
<1>5. /\ acked' \in [Servers -> Nat]
      /\ \A t \in Servers : acked[t] <= acked'[t] /\ acked'[t] <= Len(journal)
      /\ \A t \in Servers \ {s} : acked'[t] = acked[t]
  BY <1>1, <1>2, <1>4 DEF Bounded, ServerBounded, RequestBounded
<1> QED  BY <1>1, <1>2, <1>3, <1>5 DEF s

\* The steps of the index of a server.
LEMMA IndexIs ==
  ASSUME Types, Bounded, NEW s \in Servers, CacheMoves(s) \/ KeyMoves(s)
  PROVE  /\ folded' \in [Servers -> Nat] /\ cached' \in [Servers -> Nat]
         /\ \A t \in Servers : /\ folded[t] <= folded'[t] /\ folded'[t] <= cached'[t]
                               /\ cached'[t] <= Len(journal)
         /\ UNCHANGED <<journal, overlay, request, acked, faults, drive>>
<1>1. /\ folded \in [Servers -> Nat] /\ cached \in [Servers -> Nat] /\ Len(journal) \in Nat
  BY DEF Types
<1>2. CASE CacheMoves(s)
  <2>1. PICK k \in folded[s]..Len(journal) : cached' = [cached EXCEPT ![s] = k]
    BY <1>2 DEF CacheMoves
  <2> QED  BY <1>1, <1>2, <2>1 DEF CacheMoves, Bounded, ServerBounded
<1>3. CASE KeyMoves(s)
  <2>1. PICK k \in folded[s]..cached[s] : folded' = [folded EXCEPT ![s] = k]
    BY <1>3 DEF KeyMoves
  <2> QED  BY <1>1, <1>3, <2>1 DEF KeyMoves, Bounded, ServerBounded
<1> QED  BY <1>2, <1>3

LEMMA RestartIs ==
  ASSUME Types, NEW s \in Servers, Restart(s)
  PROVE  /\ folded' \in [Servers -> Nat] /\ cached' \in [Servers -> Nat] /\ faults' \in Nat
         /\ folded'[s] = 0 /\ cached'[s] = 0
         /\ \A t \in Servers \ {s} : folded'[t] = folded[t] /\ cached'[t] = cached[t]
         /\ overlay' = [overlay EXCEPT ![s] = NoOverlay]
         /\ request' \in [Slots -> Request]
         /\ \A q \in Slots : \/ request'[q].pc = "free"
                             \/ request'[q] = request[q] /\ request[q].server # s
         /\ UNCHANGED <<journal, acked, drive>>
<1>1. /\ request' = [q \in Slots |->
                        IF request[q].server = s THEN NoRequest ELSE request[q]]
      /\ request \in [Slots -> Request]
      /\ folded' = [folded EXCEPT ![s] = 0] /\ cached' = [cached EXCEPT ![s] = 0]
      /\ overlay' = [overlay EXCEPT ![s] = NoOverlay]
      /\ UNCHANGED <<journal, acked, drive>>
      /\ faults' = faults + 1
  BY DEF Restart, Types, Fault
<1>2. /\ request' \in [Slots -> Request]
      /\ \A q \in Slots : \/ request'[q].pc = "free"
                          \/ request'[q] = request[q] /\ request[q].server # s
  BY <1>1, Params
<1> QED  BY <1>1, <1>2 DEF Types

LEMMA RegisterIs ==
  ASSUME Types, NEW s \in Servers, Register(s)
  PROVE  /\ journal' \in Seq(State) /\ Len(journal') = 1 /\ Len(journal') <= MaxKey
         /\ Len(journal) = 0 /\ journal'[1].rev = 1 /\ ~journal'[1].deleted
         /\ overlay' = [overlay EXCEPT ![s] = NoOverlay]
         /\ acked' = [acked EXCEPT ![s] = 1]
         /\ UNCHANGED <<folded, cached, request, faults, drive>>
<1>1. PICK o \in Objects, t \in SUBSET Tags :
         journal' = <<[rev |-> 1, object |-> o, versions |-> {}, tags |-> t, deleted |-> FALSE]>>
  BY DEF Register
<1>2. [rev |-> 1, object |-> o, versions |-> {}, tags |-> t, deleted |-> FALSE] \in State
  BY DEF State
<1>3. journal' \in Seq(State) /\ Len(journal') = 1 /\ journal'[1].rev = 1 /\ ~journal'[1].deleted
  BY <1>1, <1>2
<1> QED  BY <1>3, Params DEF Register

(***************************************************************************)
(* Types, ranges, and what a request started from.                         *)
(***************************************************************************)
Base == Types /\ Bounded /\ Started

LEMMA BaseInit == Init => Base
<1> SUFFICES ASSUME Init PROVE Base
  OBVIOUS
<1>1. journal = <<>> /\ journal \in Seq(State) /\ Len(journal) = 0
  BY DEF Init
<1>2. Types
  BY <1>1, Params DEF Init, Types
<1>3. Bounded
  BY <1>1, Params DEF Init, Bounded, ServerBounded, RequestBounded
<1>4. Started
  BY Params DEF Init, Started, ListingAfter, StartedFrom
<1> QED  BY <1>2, <1>3, <1>4 DEF Base

\* A step of one slot: what is left to show of the invariants of requests.
LEMMA OtherRequests ==
  ASSUME Base, Types', NEW q \in Slots,
         \A p \in Slots \ {q} : request'[p] = request[p],
         Len(journal) <= Len(journal'), \A s \in Servers : folded[s] <= folded'[s],
         RequestBounded(q)', StartedFrom(q)'
  PROVE  \A p \in Slots : RequestBounded(p)' /\ StartedFrom(p)'
<1> SUFFICES ASSUME NEW p \in Slots \ {q} PROVE RequestBounded(p)' /\ StartedFrom(p)'
  OBVIOUS
<1>0. /\ request[p] \in Request /\ folded \in [Servers -> Nat] /\ folded' \in [Servers -> Nat]
      /\ Len(journal) \in Nat /\ Len(journal') \in Nat
      /\ RequestBounded(p) /\ StartedFrom(p)
  BY DEF Base, Types, Bounded, Started
<1>1. /\ request'[p] = request[p] /\ request[p].server \in Servers /\ request[p].cur \in Nat
      /\ request[p].low \in Nat /\ folded[request[p].server] \in Nat
      /\ folded'[request[p].server] \in Nat
  BY <1>0 DEF Request
<1>2. folded[request[p].server] <= folded'[request[p].server]
  BY <1>1
<1>3. RequestBounded(p)'
  BY <1>0, <1>1 DEF RequestBounded
<1>4. StartedFrom(p)'
  BY <1>0, <1>1, <1>2 DEF StartedFrom
<1> QED  BY <1>3, <1>4

LEMMA SameRequests ==
  ASSUME Base, Types', request' = request, Len(journal) <= Len(journal'),
         \A s \in Servers : folded[s] <= folded'[s]
  PROVE  \A p \in Slots : RequestBounded(p)' /\ StartedFrom(p)'
<1> SUFFICES ASSUME NEW p \in Slots PROVE RequestBounded(p)' /\ StartedFrom(p)'
  OBVIOUS
<1>0. /\ request[p] \in Request /\ folded \in [Servers -> Nat] /\ folded' \in [Servers -> Nat]
      /\ Len(journal) \in Nat /\ Len(journal') \in Nat
      /\ RequestBounded(p) /\ StartedFrom(p)
  BY DEF Base, Types, Bounded, Started
<1>1. /\ request[p].server \in Servers /\ request[p].cur \in Nat
      /\ request[p].low \in Nat /\ folded[request[p].server] \in Nat
      /\ folded'[request[p].server] \in Nat
      /\ folded[request[p].server] <= folded'[request[p].server]
  BY <1>0 DEF Request
<1> QED  BY <1>0, <1>1 DEF RequestBounded, StartedFrom

\* A step that may clear listings.
LEMMA OtherServers ==
  ASSUME Base, Types', \A t \in Servers : overlay'[t] \in {overlay[t], NoOverlay},
         Len(journal) <= Len(journal'),
         \A t \in Servers : /\ folded'[t] <= cached'[t] /\ cached'[t] <= Len(journal')
                            /\ acked'[t] <= Len(journal')
  PROVE  \A t \in Servers : ServerBounded(t)' /\ ListingAfter(t)'
<1> SUFFICES ASSUME NEW t \in Servers PROVE ServerBounded(t)' /\ ListingAfter(t)'
  OBVIOUS
<1>1. /\ overlay'[t] \in {overlay[t], NoOverlay} /\ overlay[t] \in Listing
      /\ Len(journal) \in Nat /\ Len(journal') \in Nat
      /\ ServerBounded(t) /\ ListingAfter(t)
  BY DEF Base, Types, Bounded, Started
<1>2. overlay[t].since \in Nat /\ overlay[t].state \in Nat
  BY <1>1 DEF Listing
<1> QED  BY <1>1, <1>2, Params DEF ServerBounded, ListingAfter

LEMMA BaseStep ==
  ASSUME Base, [Next]_vars
  PROVE  Base'
<1>0. /\ Types /\ Bounded /\ Started /\ Len(journal) \in Nat
      /\ request \in [Slots -> Request] /\ overlay \in [Servers -> Listing]
      /\ folded \in [Servers -> Nat] /\ cached \in [Servers -> Nat] /\ acked \in [Servers -> Nat]
      /\ drive \in Drives
  BY DEF Base, Types
<1>a. /\ \A q \in Slots : /\ request[q].server \in Servers /\ request[q].since \in Nat
                          /\ request[q].low \in Nat /\ request[q].cur \in Nat
      /\ \A s \in Servers : /\ folded[s] <= cached[s] /\ cached[s] <= Len(journal)
                            /\ acked[s] <= Len(journal)
                            /\ folded[s] \in Nat /\ cached[s] \in Nat /\ acked[s] \in Nat
  BY <1>0 DEF Request, Bounded, ServerBounded
<1>b. drive.servers \subseteq Servers
  BY <1>0, EditsAssumption
<1>c. ASSUME Types', \A p \in Slots : RequestBounded(p)' /\ StartedFrom(p)',
             \A t \in Servers : ServerBounded(t)' /\ ListingAfter(t)'
      PROVE  Base'
  BY <1>c DEF Base, Bounded, Started
<1>1. ASSUME NEW s \in Servers, Register(s) PROVE Base'
  <2>0. /\ journal' \in Seq(State) /\ Len(journal') = 1 /\ Len(journal') <= MaxKey
        /\ Len(journal) = 0
        /\ overlay' = [overlay EXCEPT ![s] = NoOverlay]
        /\ acked' = [acked EXCEPT ![s] = 1]
        /\ UNCHANGED <<folded, cached, request, faults, drive>>
    BY <1>0, <1>1, RegisterIs
  <2>1. Types'
    BY <1>0, <2>0, Params DEF Types
  <2>2. \A t \in Servers : folded[t] <= folded'[t] /\ folded'[t] <= cached'[t]
                           /\ cached'[t] <= Len(journal') /\ acked'[t] <= Len(journal')
    BY <1>0, <1>a, <2>0
  <2>3. \A t \in Servers : overlay'[t] \in {overlay[t], NoOverlay}
    BY <1>0, <2>0
  <2>4. Len(journal) <= Len(journal')
    BY <2>0
  <2>5. \A t \in Servers : ServerBounded(t)' /\ ListingAfter(t)'
    BY <2>1, <2>2, <2>3, <2>4, OtherServers
  <2>6. \A p \in Slots : RequestBounded(p)' /\ StartedFrom(p)'
    BY <2>0, <2>1, <2>2, <2>4, SameRequests
  <2> QED  BY <1>c, <2>1, <2>5, <2>6
<1>2. ASSUME NEW s \in Servers, CacheMoves(s) \/ KeyMoves(s) PROVE Base'
  <2>0. /\ folded' \in [Servers -> Nat] /\ cached' \in [Servers -> Nat]
        /\ \A t \in Servers : folded[t] <= folded'[t] /\ folded'[t] <= cached'[t]
                              /\ cached'[t] <= Len(journal)
        /\ UNCHANGED <<journal, overlay, request, acked, faults, drive>>
    BY <1>0, <1>2, IndexIs
  <2>1. Types'
    BY <1>0, <2>0 DEF Types
  <2>2. \A t \in Servers : ServerBounded(t)' /\ ListingAfter(t)'
    BY <1>0, <1>a, <2>0, <2>1, OtherServers
  <2>3. \A p \in Slots : RequestBounded(p)' /\ StartedFrom(p)'
    BY <1>0, <2>0, <2>1, SameRequests
  <2> QED  BY <1>c, <2>1, <2>2, <2>3
<1>3. ASSUME NEW s \in Servers, Restart(s) PROVE Base'
  <2>0. /\ folded' \in [Servers -> Nat] /\ cached' \in [Servers -> Nat] /\ faults' \in Nat
        /\ folded'[s] = 0 /\ cached'[s] = 0
        /\ \A t \in Servers \ {s} : folded'[t] = folded[t] /\ cached'[t] = cached[t]
        /\ overlay' = [overlay EXCEPT ![s] = NoOverlay]
        /\ request' \in [Slots -> Request]
        /\ \A q \in Slots : \/ request'[q].pc = "free"
                            \/ request'[q] = request[q] /\ request[q].server # s
        /\ UNCHANGED <<journal, acked, drive>>
    BY <1>0, <1>3, RestartIs
  <2>1. Types'
    BY <1>0, <2>0, Params DEF Types
  <2>2. \A t \in Servers : folded'[t] <= cached'[t] /\ cached'[t] <= Len(journal)
    <3>1. ASSUME NEW t \in Servers PROVE folded'[t] <= cached'[t] /\ cached'[t] <= Len(journal)
      <4>1. CASE t = s
        BY <1>0, <2>0, <4>1
      <4>2. CASE t # s
        BY <1>0, <1>a, <2>0, <4>2
      <4> QED  BY <4>1, <4>2
    <3> QED  BY <3>1
  <2>3. ASSUME NEW q \in Slots PROVE RequestBounded(q)' /\ StartedFrom(q)'
    <3>1. CASE request'[q].pc = "free"
      BY <3>1 DEF RequestBounded, StartedFrom
    <3>2. CASE request'[q] = request[q] /\ request[q].server # s
      <4>1. folded'[request[q].server] = folded[request[q].server]
        BY <1>a, <2>0, <3>2
      <4>2. RequestBounded(q) /\ StartedFrom(q)
        BY <1>0 DEF Bounded, Started
      <4> QED  BY <2>0, <3>2, <4>1, <4>2 DEF RequestBounded, StartedFrom
    <3> QED  BY <2>0, <3>1, <3>2
  <2>4. \A t \in Servers : overlay'[t] \in {overlay[t], NoOverlay}
    BY <1>0, <2>0
  <2>5. /\ Len(journal) <= Len(journal')
        /\ \A t \in Servers : /\ folded'[t] <= cached'[t] /\ cached'[t] <= Len(journal')
                              /\ acked'[t] <= Len(journal')
    BY <1>0, <1>a, <2>0, <2>2
  <2>6. \A t \in Servers : ServerBounded(t)' /\ ListingAfter(t)'
    BY <2>1, <2>4, <2>5, OtherServers
  <2> QED  BY <1>c, <2>1, <2>3, <2>6
<1>4. ASSUME NEW s \in Servers, Expire(s) PROVE Base'
  <2>1. overlay' = [overlay EXCEPT ![s] = NoOverlay]
        /\ UNCHANGED <<journal, folded, cached, request, acked, faults, drive>>
    BY <1>4 DEF Expire
  <2>2. Types'
    BY <1>0, <2>1, Params DEF Types
  <2>3. /\ Len(journal) <= Len(journal')
        /\ \A t \in Servers : /\ folded[t] <= folded'[t] /\ folded'[t] <= cached'[t]
                              /\ cached'[t] <= Len(journal') /\ acked'[t] <= Len(journal')
    BY <1>0, <1>a, <2>1
  <2>4. \A t \in Servers : overlay'[t] \in {overlay[t], NoOverlay}
    BY <1>0, <2>1
  <2>5. \A t \in Servers : ServerBounded(t)' /\ ListingAfter(t)'
    BY <2>2, <2>3, <2>4, OtherServers
  <2>6. \A p \in Slots : RequestBounded(p)' /\ StartedFrom(p)'
    BY <2>1, <2>2, <2>3, SameRequests
  <2> QED  BY <1>c, <2>2, <2>5, <2>6
<1>d. ASSUME Types', NEW q \in Slots, \A p \in Slots \ {q} : request'[p] = request[p],
             Len(journal) <= Len(journal'), RequestBounded(q)', StartedFrom(q)',
             UNCHANGED <<folded, cached, acked>>,
             overlay' = overlay
      PROVE  Base'
  <2>1. \A t \in Servers : folded[t] <= folded'[t] /\ folded'[t] <= cached'[t]
                           /\ cached'[t] <= Len(journal') /\ acked'[t] <= Len(journal')
    <3>1. Len(journal') \in Nat
      BY <1>d DEF Types
    <3> QED  BY <1>0, <1>a, <1>d, <3>1
  <2>2. \A p \in Slots : RequestBounded(p)' /\ StartedFrom(p)'
    BY <1>d, <2>1, OtherRequests
  <2>3. \A t \in Servers : ServerBounded(t)' /\ ListingAfter(t)'
    BY <1>d, <2>1, OtherServers
  <2> QED  BY <1>c, <1>d, <2>2, <2>3
<1>5. ASSUME NEW q \in Slots, NEW s \in Servers, Begin(q, s) PROVE Base'
  <2>0. /\ request' \in [Slots -> Request]
        /\ \A p \in Slots \ {q} : request'[p] = request[p]
        /\ request'[q] = [pc |-> "list", server |-> s, since |-> folded[s],
                          cur |-> 0, floor |-> acked[s], low |-> folded[s]]
        /\ UNCHANGED <<journal, folded, cached, overlay, acked, faults, drive>>
    BY <1>0, <1>5, BeginIs
  <2>1. Types'
    BY <1>0, <2>0 DEF Types
  <2>2. RequestBounded(q)' /\ StartedFrom(q)'
    BY <1>0, <1>a, <2>0 DEF RequestBounded, StartedFrom
  <2> QED  BY <1>0, <1>d, <2>0, <2>1, <2>2
<1>6. ASSUME NEW q \in Slots, List(q) PROVE Base'
  <2> DEFINE s == request[q].server
             since == request[q].since
             o == Overlaid(overlay[s], since)
  <2>0. /\ s \in Servers /\ request[q].pc = "list"
        /\ request' \in [Slots -> Request]
        /\ \A p \in Slots \ {q} : request'[p] = request[p]
        /\ request'[q].pc = (IF o.state # 0 THEN "resolved" ELSE "cache")
        /\ request'[q].cur = o.state /\ request'[q].server = s
        /\ request'[q].low = request[q].low
        /\ overlay' = [overlay EXCEPT ![s] = IF drive.ttl THEN o ELSE NoOverlay]
        /\ UNCHANGED <<journal, folded, cached, acked, faults, drive>>
    BY <1>0, <1>6, ListIs
  <2>1. since \in Nat /\ since <= Len(journal) /\ since = request[q].low /\ since <= folded[s]
    <3>1. StartedFrom(q)
      BY <1>0 DEF Started
    <3> QED  BY <1>0, <1>a, <2>0, <3>1 DEF StartedFrom
  <2>2. /\ Listed(since) \in Nat /\ Listed(since) <= Len(journal)
        /\ Listed(since) # 0 => since < Listed(since)
    BY <1>0, <2>1, ListedIs
  <2>3. /\ o \in Listing /\ o.since = since /\ o.state <= Len(journal)
        /\ o.state # 0 => since < o.state
    <3>1. CASE Reusable(overlay[s], since)
      <4>1. /\ o = overlay[s] /\ overlay[s].fresh /\ overlay[s].since = since
        BY <3>1 DEF Overlaid, Reusable
      <4>2. ServerBounded(s) /\ ListingAfter(s)
        BY <1>0, <2>0 DEF Started, Bounded
      <4> QED  BY <1>0, <2>0, <4>1, <4>2 DEF ServerBounded, ListingAfter
    <3>2. CASE ~Reusable(overlay[s], since)
      <4>1. o = [fresh |-> TRUE, since |-> since, state |-> Listed(since)]
        BY <3>2 DEF Overlaid
      <4> QED  BY <2>1, <2>2, <4>1 DEF Listing
    <3> QED  BY <3>1, <3>2
  <2> HIDE DEF o
  <2>4. o.state \in Nat
    BY <2>3 DEF Listing
  <2>5. /\ overlay' \in [Servers -> Listing] /\ overlay'[s] \in {o, NoOverlay}
        /\ \A t \in Servers \ {s} : overlay'[t] = overlay[t]
    BY <1>0, <2>0, <2>3, Params
  <2>6. Types'
    BY <1>0, <2>0, <2>5 DEF Types
  <2>7. RequestBounded(q)'
    BY <1>0, <2>0, <2>3, <2>4 DEF RequestBounded
  <2>8. StartedFrom(q)'
    BY <1>0, <2>0, <2>1, <2>3, <2>4 DEF StartedFrom
  <2>9. \A p \in Slots : RequestBounded(p)' /\ StartedFrom(p)'
    <3>1. Len(journal) <= Len(journal') /\ \A t \in Servers : folded[t] <= folded'[t]
      BY <1>0, <1>a, <2>0
    <3> QED  BY <2>0, <2>6, <2>7, <2>8, <3>1, OtherRequests
  <2>10. ASSUME NEW t \in Servers PROVE ServerBounded(t)' /\ ListingAfter(t)'
    <3>1. ServerBounded(t) /\ ListingAfter(t)
      BY <1>0 DEF Bounded, Started
    <3>2. CASE t # s
      <4>1. overlay'[t] = overlay[t]
        BY <2>5, <3>2
      <4> QED  BY <2>0, <3>1, <4>1 DEF ServerBounded, ListingAfter
    <3>3. CASE t = s
      <4>1. overlay'[t] \in {o, NoOverlay}
        BY <2>5, <3>3
      <4> QED  BY <1>0, <2>0, <2>1, <2>3, <3>1, <4>1, Params DEF ServerBounded, ListingAfter
    <3> QED  BY <3>2, <3>3
  <2> QED  BY <1>c, <2>6, <2>9, <2>10
<1>7. ASSUME NEW q \in Slots, LookUp(q) PROVE Base'
  <2>0. /\ request[q].pc = "cache" /\ request[q].server \in Servers
        /\ request' \in [Slots -> Request]
        /\ \A p \in Slots \ {q} : request'[p] = request[p]
        /\ \/ request'[q].pc = "free"
           \/ /\ request'[q].pc = "resolved" /\ request'[q].cur = cached[request[q].server]
              /\ request'[q].cur # 0 /\ request'[q].low = request[q].low
        /\ UNCHANGED <<journal, folded, cached, overlay, acked, faults, drive>>
    BY <1>0, <1>7, LookUpIs
  <2>1. StartedFrom(q)
    BY <1>0 DEF Started
  <2>2. /\ request[q].low <= cached[request[q].server]
        /\ cached[request[q].server] <= Len(journal) /\ cached[request[q].server] \in Nat
    BY <1>a, <2>0, <2>1 DEF StartedFrom
  <2>3. Types'
    BY <1>0, <2>0 DEF Types
  <2>4. RequestBounded(q)' /\ StartedFrom(q)'
    BY <2>0, <2>2 DEF RequestBounded, StartedFrom
  <2> QED  BY <1>0, <1>d, <2>0, <2>3, <2>4
<1>8. ASSUME NEW q \in Slots, AppendState(q) PROVE Base'
  <2>0. /\ journal' \in Seq(State) /\ Len(journal') = Len(journal) + 1 /\ Len(journal') <= MaxKey
        /\ request' \in [Slots -> Request]
        /\ \A p \in Slots \ {q} : request'[p] = request[p]
        /\ \/ request'[q].pc = "free"
           \/ request'[q].pc = "stored" /\ request'[q].cur = Len(journal')
        /\ faults' \in Nat
        /\ UNCHANGED <<folded, cached, overlay, acked, drive>>
    BY <1>0, <1>8, AppendIs
  <2>1. Types'
    BY <1>0, <2>0 DEF Types
  <2>2. RequestBounded(q)' /\ StartedFrom(q)'
    BY <1>0, <2>0 DEF RequestBounded, StartedFrom
  <2>3. Len(journal) <= Len(journal')
    BY <1>0, <2>0
  <2> QED  BY <1>d, <2>0, <2>1, <2>2, <2>3
<1>9. ASSUME NEW q \in Slots, Invalidate(q) PROVE Base'
  <2>0. /\ request[q].server \in Servers
        /\ request' \in [Slots -> Request] /\ request'[q].pc = "free"
        /\ \A p \in Slots \ {q} : request'[p] = request[p]
        /\ overlay' = [overlay EXCEPT ![request[q].server] = NoOverlay]
        /\ acked' \in [Servers -> Nat]
        /\ \A t \in Servers : acked'[t] <= Len(journal)
        /\ UNCHANGED <<journal, folded, cached, faults, drive>>
    BY <1>0, <1>9, InvalidateIs
  <2>1. Types'
    BY <1>0, <2>0, Params DEF Types
  <2>2. RequestBounded(q)' /\ StartedFrom(q)'
    BY <2>0 DEF RequestBounded, StartedFrom
  <2>3. Len(journal) <= Len(journal') /\ \A t \in Servers : folded[t] <= folded'[t]
    BY <1>0, <1>a, <2>0
  <2>4. \A p \in Slots : RequestBounded(p)' /\ StartedFrom(p)'
    BY <2>0, <2>1, <2>2, <2>3, OtherRequests
  <2>5. \A t \in Servers : ServerBounded(t)' /\ ListingAfter(t)'
    <3>1. \A t \in Servers : overlay'[t] \in {overlay[t], NoOverlay}
      BY <1>0, <2>0
    <3>2. \A t \in Servers : /\ folded'[t] <= cached'[t] /\ cached'[t] <= Len(journal')
                             /\ acked'[t] <= Len(journal')
      BY <1>a, <2>0
    <3> QED  BY <2>1, <2>3, <3>1, <3>2, OtherServers
  <2> QED  BY <1>c, <2>1, <2>4, <2>5
<1>10. ASSUME NEW q \in Slots, Finish(q) PROVE Base'
  <2>1. request' = Free(q) /\ UNCHANGED <<journal, folded, cached, overlay, acked, faults, drive>>
    BY <1>10 DEF Finish
  <2>2. /\ request' \in [Slots -> Request] /\ request'[q].pc = "free"
        /\ \A p \in Slots \ {q} : request'[p] = request[p]
    BY <1>0, <2>1, FreeIs
  <2>3. Types'
    BY <1>0, <2>1, <2>2 DEF Types
  <2>4. RequestBounded(q)' /\ StartedFrom(q)'
    BY <2>2 DEF RequestBounded, StartedFrom
  <2> QED  BY <1>0, <1>d, <2>1, <2>2, <2>3, <2>4
<1>11. CASE UNCHANGED vars
  BY <1>0, <1>11 DEF vars, Base, Types, Bounded, Started, ServerBounded, RequestBounded,
                     ListingAfter, StartedFrom
<1> QED  BY <1>b, <1>1, <1>2, <1>3, <1>4, <1>5, <1>6, <1>7, <1>8, <1>9, <1>10, <1>11 DEF Next

(***************************************************************************)
(* What a server answered for.                                             *)
(***************************************************************************)

\* What a listing gives a request that has just taken its key.
LEMMA OverlaidIs ==
  ASSUME Base, NEW q \in Slots, request[q].pc = "list",
         Len(journal) - request[q].since <= MaxOverlay
  PROVE  LET s == request[q].server
             since == request[q].since
             o == Overlaid(overlay[s], since)
         IN /\ s \in Servers /\ since \in Nat /\ since = request[q].low
            /\ since <= folded[s] /\ folded[s] <= Len(journal)
            /\ o \in Listing /\ o.since = since
            /\ \/ o = overlay[s] /\ overlay[s].fresh
               \/ o.state = IF Len(journal) = since THEN 0 ELSE Len(journal)
<1> DEFINE s == request[q].server
           since == request[q].since
           o == Overlaid(overlay[s], since)
<1>1. /\ Types /\ s \in Servers /\ since \in Nat /\ Len(journal) \in Nat
      /\ overlay[s] \in Listing /\ folded[s] \in Nat /\ cached[s] \in Nat
  <2>1. Types /\ request[q] \in Request
    BY DEF Base, Types
  <2>2. s \in Servers /\ since \in Nat
    BY <2>1 DEF Request
  <2> QED  BY <2>1, <2>2 DEF Types
<1>2. ServerBounded(s) /\ StartedFrom(q)
  BY <1>1 DEF Base, Bounded, Started
<1>3. since = request[q].low /\ since <= folded[s] /\ folded[s] <= Len(journal)
  BY <1>1, <1>2 DEF ServerBounded, StartedFrom
<1>4. /\ Listed(since) \in Nat /\ (Listed(since) = 0 <=> Len(journal) = since)
      /\ Listed(since) # 0 => Listed(since) = Len(journal)
  <2>1. Len(journal) - since <= MaxOverlay
    OBVIOUS
  <2>2. since \in Nat /\ since <= Len(journal) /\ Types
    BY <1>1, <1>3
  <2> HIDE DEF since
  <2> QED  BY <2>1, <2>2, ListedIs
<1>5. CASE Reusable(overlay[s], since)
  BY <1>1, <1>3, <1>5 DEF Overlaid, Reusable
<1>6. CASE ~Reusable(overlay[s], since)
  <2>1. o = [fresh |-> TRUE, since |-> since, state |-> Listed(since)]
    BY <1>6 DEF Overlaid
  <2>2. o \in Listing /\ o.since = since /\ o.state = Listed(since)
    BY <1>1, <1>4, <2>1 DEF Listing
  <2>3. Listed(since) = IF Len(journal) = since THEN 0 ELSE Len(journal)
    BY <1>4
  <2> QED  BY <1>1, <1>3, <2>2, <2>3
<1> QED  BY <1>5, <1>6

LEMMA AnsweredStep ==
  ASSUME Base, Answered, ListingsFit, [Next]_vars
  PROVE  Answered'
<1>0. /\ Types /\ Bounded /\ Types' /\ Len(journal) \in Nat
      /\ request \in [Slots -> Request] /\ overlay \in [Servers -> Listing]
      /\ folded \in [Servers -> Nat] /\ cached \in [Servers -> Nat] /\ acked \in [Servers -> Nat]
      /\ drive \in Drives
  BY BaseStep DEF Base, Types
<1>a. /\ \A q \in Slots : /\ request[q].server \in Servers /\ request[q].since \in Nat
                          /\ request[q].floor \in Nat /\ request[q].cur \in Nat
      /\ \A s \in Servers : /\ folded[s] <= cached[s] /\ cached[s] <= Len(journal)
                            /\ acked[s] <= Len(journal)
                            /\ folded[s] \in Nat /\ cached[s] \in Nat /\ acked[s] \in Nat
                            /\ overlay[s].since \in Nat /\ overlay[s].state \in Nat
  BY <1>0 DEF Request, Listing, Bounded, ServerBounded
<1>b. drive.servers \subseteq Servers
  BY <1>0, EditsAssumption
<1>c. /\ \A s \in Servers : ListingAnswers(s)
      /\ \A q \in Slots : RequestAnswers(q)
      /\ (\A s \in Servers : ListingAnswers(s)') /\ (\A q \in Slots : RequestAnswers(q)') => Answered'
  BY DEF Answered
<1>d. ASSUME NEW s \in Servers,
             \/ overlay'[s] = NoOverlay
             \/ overlay'[s] = overlay[s] /\ acked'[s] = acked[s]
      PROVE  ListingAnswers(s)'
  BY <1>c, <1>d, Params DEF ListingAnswers
<1>e. ASSUME NEW q \in Slots,
             \/ request'[q].pc \in {"free", "stored"}
             \/ /\ request'[q] = request[q]
                /\ acked[request[q].server] <= acked'[request[q].server]
                /\ folded[request[q].server] <= folded'[request[q].server]
      PROVE  RequestAnswers(q)'
  <2>1. CASE request'[q].pc \in {"free", "stored"}
    BY <2>1 DEF RequestAnswers
  <2>2. CASE /\ request'[q] = request[q]
             /\ acked[request[q].server] <= acked'[request[q].server]
             /\ folded[request[q].server] <= folded'[request[q].server]
    <3>1. /\ acked'[request[q].server] \in Nat /\ folded'[request[q].server] \in Nat
          /\ acked[request[q].server] \in Nat /\ folded[request[q].server] \in Nat
          /\ request[q].floor \in Nat
      BY <1>0, <1>a DEF Types
    <3> QED  BY <1>c, <2>2, <3>1 DEF RequestAnswers
  <2> QED  BY <1>e, <2>1, <2>2
<1>1. ASSUME NEW s \in Servers, Register(s) PROVE Answered'
  <2>1. /\ Len(journal) = 0 /\ overlay' = [overlay EXCEPT ![s] = NoOverlay]
        /\ acked' = [acked EXCEPT ![s] = 1] /\ UNCHANGED <<folded, request>>
    BY <1>0, <1>1, RegisterIs
  <2>2. \A t \in Servers : /\ acked[t] <= acked'[t] /\ folded[t] <= folded'[t]
                           /\ \/ overlay'[t] = NoOverlay
                              \/ overlay'[t] = overlay[t] /\ acked'[t] = acked[t]
    BY <1>0, <1>a, <2>1
  <2> QED  BY <1>a, <1>c, <1>d, <1>e, <2>1, <2>2
<1>2. ASSUME NEW s \in Servers, CacheMoves(s) \/ KeyMoves(s) PROVE Answered'
  <2>1. /\ \A t \in Servers : folded[t] <= folded'[t]
        /\ UNCHANGED <<overlay, request, acked>>
    BY <1>0, <1>2, IndexIs
  <2>2. \A t \in Servers : acked[t] <= acked'[t]
    BY <1>a, <2>1
  <2> QED  BY <1>a, <1>c, <1>d, <1>e, <2>1, <2>2
<1>3. ASSUME NEW s \in Servers, Restart(s) PROVE Answered'
  <2>1. /\ \A t \in Servers \ {s} : folded'[t] = folded[t]
        /\ overlay' = [overlay EXCEPT ![s] = NoOverlay] /\ acked' = acked
        /\ \A q \in Slots : \/ request'[q].pc = "free"
                            \/ request'[q] = request[q] /\ request[q].server # s
    BY <1>0, <1>3, RestartIs
  <2>2. \A t \in Servers : /\ acked[t] <= acked'[t] /\ (t # s => folded[t] <= folded'[t])
                           /\ \/ overlay'[t] = NoOverlay
                              \/ overlay'[t] = overlay[t] /\ acked'[t] = acked[t]
    BY <1>0, <1>a, <2>1
  <2>3. \A t \in Servers : ListingAnswers(t)'
    BY <1>d, <2>2
  <2>4. \A q \in Slots : RequestAnswers(q)'
    BY <1>a, <1>e, <2>1, <2>2
  <2> QED  BY <1>c, <2>3, <2>4
<1>4. ASSUME NEW s \in Servers, Expire(s) PROVE Answered'
  <2>1. /\ overlay' = [overlay EXCEPT ![s] = NoOverlay] /\ UNCHANGED <<folded, request, acked>>
    BY <1>4 DEF Expire
  <2>2. \A t \in Servers : /\ acked[t] <= acked'[t] /\ folded[t] <= folded'[t]
                           /\ \/ overlay'[t] = NoOverlay
                              \/ overlay'[t] = overlay[t] /\ acked'[t] = acked[t]
    BY <1>0, <1>a, <2>1
  <2> QED  BY <1>a, <1>c, <1>d, <1>e, <2>1, <2>2
<1>f. ASSUME NEW q \in Slots, \A p \in Slots \ {q} : request'[p] = request[p],
             UNCHANGED <<folded, acked, overlay>>, RequestAnswers(q)'
      PROVE  Answered'
  <2>1. \A t \in Servers : acked[t] <= acked'[t] /\ folded[t] <= folded'[t]
    BY <1>a, <1>f
  <2>2. \A t \in Servers : ListingAnswers(t)'
    BY <1>d, <1>f
  <2>3. \A p \in Slots : RequestAnswers(p)'
    BY <1>a, <1>e, <1>f, <2>1
  <2> QED  BY <1>c, <2>2, <2>3
<1>5. ASSUME NEW q \in Slots, NEW s \in Servers, Begin(q, s) PROVE Answered'
  <2>1. /\ \A p \in Slots \ {q} : request'[p] = request[p]
        /\ request'[q] = [pc |-> "list", server |-> s, since |-> folded[s],
                          cur |-> 0, floor |-> acked[s], low |-> folded[s]]
        /\ UNCHANGED <<folded, overlay, acked>>
    BY <1>0, <1>5, BeginIs
  <2>2. RequestAnswers(q)'
    BY <1>a, <2>1 DEF RequestAnswers
  <2> QED  BY <1>f, <2>1, <2>2
<1>6. ASSUME NEW q \in Slots, List(q) PROVE Answered'
  <2> DEFINE s == request[q].server
             since == request[q].since
             o == Overlaid(overlay[s], since)
  <2>1. /\ request[q].pc = "list"
        /\ \A p \in Slots \ {q} : request'[p] = request[p]
        /\ request'[q].pc = (IF o.state # 0 THEN "resolved" ELSE "cache")
        /\ request'[q].cur = o.state /\ request'[q].server = s
        /\ request'[q].floor = request[q].floor
        /\ overlay' = [overlay EXCEPT ![s] = IF drive.ttl THEN o ELSE NoOverlay]
        /\ UNCHANGED <<folded, acked>>
    BY <1>0, <1>6, ListIs
  <2>2. /\ s \in Servers /\ since \in Nat /\ since <= folded[s]
        /\ folded[s] <= Len(journal) /\ o \in Listing /\ o.since = since
        /\ \/ o = overlay[s] /\ overlay[s].fresh
           \/ o.state = IF Len(journal) = since THEN 0 ELSE Len(journal)
    BY <2>1, OverlaidIs DEF ListingsFit
  <2>3. acked[s] <= IF o.state = 0 THEN since ELSE o.state
    <3>1. CASE o = overlay[s] /\ overlay[s].fresh
      <4>1. ListingAnswers(s)
        BY <1>c, <2>2
      <4> QED  BY <2>2, <3>1, <4>1 DEF ListingAnswers
    <3>2. CASE o.state = IF Len(journal) = since THEN 0 ELSE Len(journal)
      BY <1>a, <2>2, <3>2
    <3> QED  BY <2>2, <3>1, <3>2
  <2> HIDE DEF o, since
  <2>4. o.state \in Nat
    BY <2>2 DEF Listing
  <2>5. request[q].floor <= acked[s]
    <3>1. RequestAnswers(q)
      BY <1>c
    <3> QED  BY <2>1, <3>1 DEF RequestAnswers
  <2>6. RequestAnswers(q)'
    <3>1. CASE o.state = 0
      <4>1. request'[q].pc = "cache" /\ folded'[request'[q].server] = folded[s]
        BY <2>1, <3>1
      <4>2. request[q].floor <= folded[s]
        BY <1>a, <2>2, <2>3, <2>5, <3>1
      <4> QED  BY <2>1, <4>1, <4>2 DEF RequestAnswers
    <3>2. CASE o.state # 0
      <4>1. request[q].floor <= o.state
        BY <1>a, <2>2, <2>3, <2>4, <2>5, <3>2
      <4> QED  BY <2>1, <3>2, <4>1 DEF RequestAnswers
    <3> QED  BY <3>1, <3>2
  <2>7. ASSUME NEW t \in Servers PROVE ListingAnswers(t)'
    <3>1. CASE t # s
      BY <1>0, <1>d, <2>1, <3>1
    <3>2. CASE t = s
      <4>1. overlay'[t] \in {o, NoOverlay}
        BY <1>0, <2>1, <2>2, <3>2
      <4> QED  BY <2>1, <2>2, <2>3, <3>2, <4>1, Params DEF ListingAnswers
    <3> QED  BY <3>1, <3>2
  <2>8. ASSUME NEW p \in Slots PROVE RequestAnswers(p)'
    <3>1. CASE p = q
      BY <2>6, <3>1
    <3>2. CASE p # q
      BY <1>a, <1>e, <2>1, <3>2
    <3> QED  BY <3>1, <3>2
  <2> QED  BY <1>c, <2>7, <2>8
<1>7. ASSUME NEW q \in Slots, LookUp(q) PROVE Answered'
  <2>1. /\ request[q].pc = "cache" /\ request[q].server \in Servers
        /\ \A p \in Slots \ {q} : request'[p] = request[p]
        /\ \/ request'[q].pc = "free"
           \/ /\ request'[q].pc = "resolved" /\ request'[q].cur = cached[request[q].server]
              /\ request'[q].floor = request[q].floor
        /\ UNCHANGED <<folded, overlay, acked>>
    BY <1>0, <1>7, LookUpIs
  <2>2. RequestAnswers(q)
    BY <1>c
  <2>3. request[q].floor <= cached[request[q].server]
    BY <1>a, <2>1, <2>2 DEF RequestAnswers
  <2>4. RequestAnswers(q)'
    BY <2>1, <2>3 DEF RequestAnswers
  <2> QED  BY <1>f, <2>1, <2>4
<1>8. ASSUME NEW q \in Slots, AppendState(q) PROVE Answered'
  <2>1. /\ \A p \in Slots \ {q} : request'[p] = request[p]
        /\ request'[q].pc \in {"free", "stored"}
        /\ UNCHANGED <<folded, overlay, acked>>
    BY <1>0, <1>8, AppendIs
  <2> QED  BY <1>e, <1>f, <2>1
<1>9. ASSUME NEW q \in Slots, Invalidate(q) PROVE Answered'
  <2>1. /\ \A p \in Slots \ {q} : request'[p] = request[p]
        /\ request'[q].pc = "free" /\ request[q].server \in Servers
        /\ overlay' = [overlay EXCEPT ![request[q].server] = NoOverlay]
        /\ \A t \in Servers : acked[t] <= acked'[t]
        /\ \A t \in Servers \ {request[q].server} : acked'[t] = acked[t]
        /\ folded' = folded
    BY <1>0, <1>9, InvalidateIs
  <2>2. \A t \in Servers : \/ overlay'[t] = NoOverlay
                           \/ overlay'[t] = overlay[t] /\ acked'[t] = acked[t]
    BY <1>0, <2>1
  <2>3. \A t \in Servers : ListingAnswers(t)'
    BY <1>d, <2>2
  <2>4. \A p \in Slots : RequestAnswers(p)'
    BY <1>a, <1>e, <2>1
  <2> QED  BY <1>c, <2>3, <2>4
<1>10. ASSUME NEW q \in Slots, Finish(q) PROVE Answered'
  <2>1. /\ \A p \in Slots \ {q} : request'[p] = request[p]
        /\ request'[q].pc = "free" /\ UNCHANGED <<folded, overlay, acked>>
    BY <1>0, <1>10, FreeIs DEF Finish
  <2> QED  BY <1>e, <1>f, <2>1
<1>11. CASE UNCHANGED vars
  BY <1>11 DEF vars, Answered, ListingAnswers, RequestAnswers
<1> QED  BY <1>b, <1>1, <1>2, <1>3, <1>4, <1>5, <1>6, <1>7, <1>8, <1>9, <1>10, <1>11 DEF Next

(***************************************************************************)
(* One request at a time.                                                  *)
(***************************************************************************)
AllFree == \A q \in Slots : request[q].pc = "free"

\* A request that begins in turn finds every slot free.
LEMMA BeginsAlone ==
  ASSUME OneAtATime, InFlight < drive.requests
  PROVE  AllFree
<1> DEFINE busy == {q \in Slots : request[q].pc # "free"}
<1>1. IsFiniteSet(busy)
  BY EditsAssumption, FS_Subset
<1>2. Cardinality(busy) \in Nat /\ Cardinality(busy) < 1
  BY <1>1, FS_CardinalityType DEF OneAtATime, InFlight
<1>3. Cardinality(busy) = 0
  BY <1>2
<1>4. busy = {}
  BY <1>1, <1>3, FS_EmptySet
<1> QED  BY <1>4 DEF AllFree

\* Slots that stay or become free, while index and journal stay: what is in
\* turn stays so.
LEMMA TurnKept ==
  ASSUME Base, InTurnInv, drive' = drive, Len(journal') = Len(journal),
         Unlisted',
         \A q \in Slots :
            \/ request'[q].pc = "free"
            \/ request'[q] = request[q]
               /\ (folded[request[q].server] = Len(journal) =>
                     folded'[request[q].server] = Len(journal))
  PROVE  InTurnInv'
<1>1. Len(journal') = 0 => \A q \in Slots : request'[q].pc = "free"
  BY DEF InTurnInv
<1>2. ASSUME OneAtATime
      PROVE  /\ \A p, q \in Slots : request'[p].pc # "free" /\ request'[q].pc # "free" => p = q
             /\ \A q \in Slots : Latest(q)'
  <2>1. \A q \in Slots : request'[q].pc # "free" => request[q].pc # "free"
    OBVIOUS
  <2>2. \A p, q \in Slots : request'[p].pc # "free" /\ request'[q].pc # "free" => p = q
    BY <1>2, <2>1 DEF InTurnInv
  <2>3. ASSUME NEW q \in Slots PROVE Latest(q)'
    <3>1. Latest(q)
      BY <1>2 DEF InTurnInv
    <3>2. CASE request'[q].pc = "free"
      BY <3>2 DEF Latest
    <3>3. CASE /\ request'[q] = request[q]
               /\ folded[request[q].server] = Len(journal) =>
                     folded'[request[q].server] = Len(journal)
      BY <3>1, <3>3 DEF Latest
    <3> QED  BY <3>2, <3>3
  <2> QED  BY <2>2, <2>3
<1>3. OneAtATime' <=> OneAtATime
  BY DEF OneAtATime
<1> QED  BY <1>1, <1>2, <1>3 DEF InTurnInv

\* A step of the one request there is.
LEMMA TurnTaken ==
  ASSUME InTurnInv, drive' = drive, Len(journal') # 0 \/ AllFree', Unlisted',
         NEW q \in Slots, \A p \in Slots \ {q} : request'[p] = request[p],
         OneAtATime => \A p \in Slots \ {q} : request[p].pc = "free",
         OneAtATime => Latest(q)'
  PROVE  InTurnInv'
<1>1. Len(journal') = 0 => \A p \in Slots : request'[p].pc = "free"
  BY DEF AllFree
<1>2. ASSUME OneAtATime
      PROVE  /\ \A p, r \in Slots : request'[p].pc # "free" /\ request'[r].pc # "free" => p = r
             /\ \A p \in Slots : Latest(p)'
  <2>1. \A p \in Slots \ {q} : request'[p].pc = "free"
    BY <1>2
  <2>2. ASSUME NEW p \in Slots PROVE Latest(p)'
    <3>1. CASE p = q
      BY <1>2, <3>1
    <3>2. CASE p # q
      BY <2>1, <3>2 DEF Latest
    <3> QED  BY <3>1, <3>2
  <2> QED  BY <2>1, <2>2
<1>3. OneAtATime' <=> OneAtATime
  BY DEF OneAtATime
<1> QED  BY <1>1, <1>2, <1>3 DEF InTurnInv

LEMMA InTurnStep ==
  ASSUME Base, InTurnInv, ListingsFit, TurnsUnbuffered, [Next]_vars
  PROVE  InTurnInv'
<1>0. /\ Types /\ Bounded /\ Types' /\ Len(journal) \in Nat
      /\ request \in [Slots -> Request] /\ overlay \in [Servers -> Listing]
      /\ folded \in [Servers -> Nat] /\ cached \in [Servers -> Nat]
      /\ drive \in Drives /\ Unlisted
  BY BaseStep DEF Base, Types, InTurnInv
<1>a. /\ \A q \in Slots : request[q].server \in Servers /\ request[q].cur \in Nat
      /\ \A s \in Servers : /\ folded[s] <= cached[s] /\ cached[s] <= Len(journal)
                            /\ folded[s] \in Nat /\ cached[s] \in Nat
  BY <1>0 DEF Request, Bounded, ServerBounded
<1>b. drive.servers \subseteq Servers
  BY <1>0, EditsAssumption
<1>c. ASSUME drive' = drive, \A s \in Servers : overlay'[s] \in {overlay[s], NoOverlay}
      PROVE  Unlisted'
  BY <1>0, <1>c, Params DEF Unlisted
<1>1. ASSUME NEW s \in Servers, Register(s) PROVE InTurnInv'
  <2>1. /\ Len(journal) = 0 /\ Len(journal') = 1 /\ overlay' = [overlay EXCEPT ![s] = NoOverlay]
        /\ UNCHANGED <<request, drive>>
    BY <1>0, <1>1, RegisterIs
  <2>2. Unlisted'
    BY <1>0, <1>c, <2>1
  <2>3. \A q \in Slots : request'[q].pc = "free"
    BY <2>1 DEF InTurnInv
  <2> QED  BY <2>1, <2>2, <2>3 DEF InTurnInv, Latest
<1>2. ASSUME NEW s \in Servers, CacheMoves(s) \/ KeyMoves(s) PROVE InTurnInv'
  <2>1. /\ folded' \in [Servers -> Nat] /\ cached' \in [Servers -> Nat]
        /\ \A t \in Servers : /\ folded[t] <= folded'[t] /\ folded'[t] <= cached'[t]
                              /\ cached'[t] <= Len(journal)
        /\ UNCHANGED <<journal, overlay, request, drive>>
    BY <1>0, <1>2, IndexIs
  <2>2. Unlisted'
    BY <1>c, <2>1
  <2>3. \A t \in Servers : folded[t] = Len(journal) => folded'[t] = Len(journal)
    BY <1>0, <1>a, <2>1
  <2> QED  BY <1>a, <2>1, <2>2, <2>3, TurnKept
<1>3. ASSUME NEW s \in Servers, Restart(s) PROVE InTurnInv'
  <2>1. /\ \A t \in Servers \ {s} : folded'[t] = folded[t]
        /\ overlay' = [overlay EXCEPT ![s] = NoOverlay]
        /\ \A q \in Slots : \/ request'[q].pc = "free"
                            \/ request'[q] = request[q] /\ request[q].server # s
        /\ UNCHANGED <<journal, drive>>
    BY <1>0, <1>3, RestartIs
  <2>2. Unlisted'
    BY <1>0, <1>c, <2>1
  <2>3. \A q \in Slots :
            \/ request'[q].pc = "free"
            \/ request'[q] = request[q]
               /\ (folded[request[q].server] = Len(journal) =>
                     folded'[request[q].server] = Len(journal))
    BY <1>a, <2>1
  <2> QED  BY <2>1, <2>2, <2>3, TurnKept
<1>4. ASSUME NEW s \in Servers, Expire(s) PROVE InTurnInv'
  <2>1. /\ overlay' = [overlay EXCEPT ![s] = NoOverlay]
        /\ UNCHANGED <<journal, folded, request, drive>>
    BY <1>4 DEF Expire
  <2>2. Unlisted'
    BY <1>0, <1>c, <2>1
  <2> QED  BY <2>1, <2>2, TurnKept
<1>d. ASSUME NEW q \in Slots, request[q].pc # "free"
      PROVE  /\ Len(journal) # 0
             /\ OneAtATime => \A p \in Slots \ {q} : request[p].pc = "free"
  BY <1>d DEF InTurnInv
<1>5. ASSUME NEW q \in Slots, NEW s \in Servers, Begin(q, s) PROVE InTurnInv'
  <2>1. /\ \A p \in Slots \ {q} : request'[p] = request[p]
        /\ request'[q].pc = "list"
        /\ UNCHANGED <<journal, overlay, drive>>
    <3>1. request'[q] = [pc |-> "list", server |-> s, since |-> folded[s],
                         cur |-> 0, floor |-> acked[s], low |-> folded[s]]
      BY <1>0, <1>5, BeginIs, Zenon
    <3>2. request'[q].pc = "list"
      BY <3>1
    <3> QED  BY <1>0, <1>5, <3>2, BeginIs, Zenon
  <2>2. Unlisted'
    BY <1>c, <2>1
  <2>3. OneAtATime => \A p \in Slots \ {q} : request[p].pc = "free"
    BY <1>5, BeginsAlone DEF Begin, AllFree
  <2>4. Latest(q)'
    BY <2>1 DEF Latest
  <2>5. Len(journal') # 0
    <3>1. journal # <<>> /\ journal \in Seq(State)
      BY <1>0, <1>5 DEF Begin, Types
    <3> QED  BY <2>1, <3>1
  <2> QED  BY <2>1, <2>2, <2>3, <2>4, <2>5, TurnTaken
<1>6. ASSUME NEW q \in Slots, List(q) PROVE InTurnInv'
  <2> DEFINE s == request[q].server
             since == request[q].since
             o == Overlaid(overlay[s], since)
  <2>1. /\ request[q].pc = "list"
        /\ \A p \in Slots \ {q} : request'[p] = request[p]
        /\ request'[q].pc = (IF o.state # 0 THEN "resolved" ELSE "cache")
        /\ request'[q].cur = o.state /\ request'[q].server = s
        /\ overlay' = [overlay EXCEPT ![s] = IF drive.ttl THEN o ELSE NoOverlay]
        /\ UNCHANGED <<journal, folded, drive>>
    BY <1>0, <1>6, ListIs
  <2>2. /\ s \in Servers /\ since \in Nat /\ since <= folded[s]
        /\ folded[s] <= Len(journal)
        /\ \/ o = overlay[s] /\ overlay[s].fresh
           \/ o.state = IF Len(journal) = since THEN 0 ELSE Len(journal)
    BY <2>1, OverlaidIs DEF ListingsFit
  <2> HIDE DEF o, since
  <2>3. Unlisted'
    <3>1. ~drive.ttl => \A t \in Servers : overlay'[t] \in {overlay[t], NoOverlay}
      BY <1>0, <2>1
    <3> QED  BY <1>0, <2>1, <3>1, Params DEF Unlisted
  <2>4. ASSUME OneAtATime PROVE Latest(q)'
    <3>1. ~overlay[s].fresh
      BY <1>0, <2>2, <2>4 DEF Unlisted, OneAtATime, TurnsUnbuffered
    <3>2. o.state = IF Len(journal) = since THEN 0 ELSE Len(journal)
      BY <2>2, <3>1
    <3>3. CASE Len(journal) = since
      <4>1. request'[q].pc = "cache" /\ folded[s] = Len(journal)
        BY <1>0, <1>a, <2>1, <2>2, <3>2, <3>3
      <4> QED  BY <2>1, <4>1 DEF Latest
    <3>4. CASE Len(journal) # since
      <4>1. o.state = Len(journal)
        BY <3>2, <3>4
      <4>2. Len(journal) # 0
        BY <1>d, <2>1
      <4> QED  BY <2>1, <4>1, <4>2 DEF Latest
    <3> QED  BY <3>3, <3>4
  <2> QED  BY <1>d, <2>1, <2>3, <2>4, TurnTaken
<1>7. ASSUME NEW q \in Slots, LookUp(q) PROVE InTurnInv'
  <2>1. /\ request[q].pc = "cache" /\ request[q].server \in Servers
        /\ \A p \in Slots \ {q} : request'[p] = request[p]
        /\ \/ request'[q].pc = "free"
           \/ /\ request'[q].pc = "resolved" /\ request'[q].cur = cached[request[q].server]
        /\ UNCHANGED <<journal, overlay, drive>>
    BY <1>0, <1>7, LookUpIs
  <2>2. Unlisted'
    BY <1>c, <2>1
  <2>3. ASSUME OneAtATime PROVE Latest(q)'
    <3>1. folded[request[q].server] = Len(journal)
      BY <2>1, <2>3 DEF InTurnInv, Latest
    <3>2. cached[request[q].server] = Len(journal)
      BY <1>0, <1>a, <2>1, <3>1
    <3> QED  BY <2>1, <3>2 DEF Latest
  <2> QED  BY <1>d, <2>1, <2>2, <2>3, TurnTaken
<1>8. ASSUME NEW q \in Slots, AppendState(q) PROVE InTurnInv'
  <2>1. /\ request[q].pc = "resolved"
        /\ \A p \in Slots \ {q} : request'[p] = request[p]
        /\ request'[q].pc \in {"free", "stored"} /\ Len(journal') = Len(journal) + 1
        /\ UNCHANGED <<overlay, drive>>
    BY <1>0, <1>8, AppendIs
  <2>2. Unlisted'
    BY <1>c, <2>1
  <2>3. Latest(q)' /\ Len(journal') # 0
    BY <1>0, <2>1 DEF Latest
  <2> QED  BY <1>d, <2>1, <2>2, <2>3, TurnTaken
<1>9. ASSUME NEW q \in Slots, Invalidate(q) PROVE InTurnInv'
  <2>1. /\ \A p \in Slots \ {q} : request'[p] = request[p]
        /\ request'[q].pc = "free"
        /\ overlay' = [overlay EXCEPT ![request[q].server] = NoOverlay]
        /\ UNCHANGED <<journal, folded, drive>>
    BY <1>0, <1>9, InvalidateIs
  <2>2. Unlisted'
    BY <1>0, <1>a, <1>c, <2>1
  <2> QED  BY <2>1, <2>2, TurnKept
<1>10. ASSUME NEW q \in Slots, Finish(q) PROVE InTurnInv'
  <2>1. /\ \A p \in Slots \ {q} : request'[p] = request[p]
        /\ request'[q].pc = "free" /\ UNCHANGED <<journal, folded, overlay, drive>>
    BY <1>0, <1>10, FreeIs DEF Finish
  <2>2. Unlisted'
    BY <1>c, <2>1
  <2> QED  BY <2>1, <2>2, TurnKept
<1>11. CASE UNCHANGED vars
  BY <1>11 DEF vars, InTurnInv, Unlisted, OneAtATime, Latest
<1> QED  BY <1>b, <1>1, <1>2, <1>3, <1>4, <1>5, <1>6, <1>7, <1>8, <1>9, <1>10, <1>11 DEF Next

(***************************************************************************)
(* The journal.                                                            *)
(***************************************************************************)

\* A step appends an edit of an earlier state, registers the file, or leaves
\* the journal alone.
LEMMA JournalIs ==
  ASSUME Base, [Next]_vars
  PROVE  /\ drive' = drive
         /\ \/ journal' = journal
            \/ /\ Len(journal) = 0 /\ Len(journal') = 1
               /\ journal'[1].rev = 1 /\ ~journal'[1].deleted
            \/ \E q \in Slots : AppendState(q)
<1>0. Types /\ Bounded /\ drive.servers \subseteq Servers
  BY EditsAssumption DEF Base, Types
<1>1. ASSUME NEW s \in Servers, Register(s)
      PROVE  /\ drive' = drive /\ Len(journal) = 0 /\ Len(journal') = 1
             /\ journal'[1].rev = 1 /\ ~journal'[1].deleted
  BY <1>0, <1>1, RegisterIs
<1>2. ASSUME NEW s \in Servers, CacheMoves(s) \/ KeyMoves(s) \/ Restart(s) \/ Expire(s)
      PROVE  UNCHANGED <<journal, drive>>
  BY <1>2 DEF CacheMoves, KeyMoves, Restart, Expire
<1>3. ASSUME NEW q \in Slots, NEW s \in Servers, Begin(q, s) PROVE UNCHANGED <<journal, drive>>
  BY <1>3 DEF Begin
<1>4. ASSUME NEW q \in Slots, List(q) \/ LookUp(q) \/ Invalidate(q) \/ Finish(q)
      PROVE  UNCHANGED <<journal, drive>>
  BY <1>4 DEF List, LookUp, Invalidate, Finish
<1>5. ASSUME NEW q \in Slots, AppendState(q) PROVE drive' = drive
  BY <1>5 DEF AppendState
<1>6. CASE UNCHANGED vars
  BY <1>6 DEF vars
<1> QED  BY <1>0, <1>1, <1>2, <1>3, <1>4, <1>5, <1>6 DEF Next

\* The state that is appended, and the one it was made of.
LEMMA AppendsEdit ==
  ASSUME Base, NEW q \in Slots, AppendState(q)
  PROVE  LET n == Len(journal)
             cur == journal[request[q].cur]
             new == journal'[n + 1]
         IN /\ n \in Nat /\ Len(journal') = n + 1
            /\ request[q].pc = "resolved" /\ request[q].cur \in 1..n
            /\ \A k \in 1..n : journal'[k] = journal[k] /\ journal[k] \in State
            /\ new \in Edited(cur)
<1>0. Types /\ Bounded /\ journal \in Seq(State) /\ Len(journal) \in Nat
  BY DEF Base, Types
<1>1. /\ request[q].pc = "resolved" /\ request[q].cur \in 1..Len(journal)
      /\ Len(journal') = Len(journal) + 1
      /\ \A k \in 1..Len(journal) : journal'[k] = journal[k]
  BY <1>0, AppendIs
<1>2. PICK new \in Edited(journal[request[q].cur]) : journal' = Append(journal, new)
  BY <1>0, AppendIs
<1>3. journal[request[q].cur] \in State
  BY <1>0, <1>1
<1>4. new \in State
  BY <1>3, EditedIs
<1>5. journal'[Len(journal) + 1] = new
  BY <1>0, <1>2, <1>4
<1>6. \A k \in 1..Len(journal) : journal[k] \in State
  BY <1>0
<1> QED  BY <1>0, <1>1, <1>2, <1>5, <1>6

LEMMA EditsStep ==
  ASSUME Base, InTurnInv, EditsFollow, NothingLostInTurn, [Next]_vars
  PROVE  EditsFollow' /\ NothingLostInTurn'
<1>0. drive' = drive
  BY JournalIs
<1>1. CASE journal' = journal
  <2>1. EditsFollow'
    BY <1>0, <1>1 DEF EditsFollow, OneAtATime
  <2>2. NothingLost' <=> NothingLost
    BY <1>1 DEF NothingLost
  <2>3. NothingLostInTurn'
    BY <1>0, <2>2 DEF NothingLostInTurn, OneAtATime
  <2> QED  BY <2>1, <2>3
<1>2. CASE Len(journal) = 0 /\ Len(journal') = 1 /\ journal'[1].rev = 1
  <2>1. \A k \in 1..Len(journal') : k = 1
    BY <1>2
  <2>2. EditsFollow'
    BY <1>2, <2>1 DEF EditsFollow
  <2>3. NothingLost'
    BY <2>1 DEF NothingLost
  <2> QED  BY <2>2, <2>3 DEF NothingLostInTurn
<1>3. ASSUME NEW q \in Slots, AppendState(q) PROVE EditsFollow' /\ NothingLostInTurn'
  <2> DEFINE n == Len(journal)
             new == journal'[n + 1]
  <2>1. /\ n \in Nat /\ Len(journal') = n + 1
        /\ request[q].pc = "resolved" /\ request[q].cur \in 1..n
        /\ \A k \in 1..n : journal'[k] = journal[k] /\ journal[k] \in State
        /\ new \in Edited(journal[request[q].cur])
    BY <1>3, AppendsEdit
  <2>2. OneAtATime' <=> OneAtATime
    BY JournalIs DEF OneAtATime
  <2> SUFFICES ASSUME OneAtATime
               PROVE  /\ \A k \in 1..Len(journal') : journal'[k].rev = k
                      /\ NothingLost'
    BY <2>2 DEF EditsFollow, NothingLostInTurn
  <2>3. request[q].cur = n /\ n \in 1..n
    BY <2>1 DEF InTurnInv, Latest
  <2>4. /\ \A k \in 1..n : journal[k].rev = k
        /\ NothingLost
    BY DEF EditsFollow, NothingLostInTurn
  <2>5. journal[n] \in State /\ new \in Edited(journal[n])
    BY <2>1, <2>3
  <2>6. /\ new.rev = journal[n].rev + 1
        /\ {journal[n].object} \cup journal[n].versions \subseteq {new.object} \cup new.versions
        /\ journal[n].deleted => ~new.deleted
             /\ new = [journal[n] EXCEPT !.deleted = FALSE, !.rev = journal[n].rev + 1]
    <3> DEFINE cur == journal[n]
    <3>1. cur \in State /\ new \in Edited(cur)
      BY <2>5
    <3> HIDE DEF n, new, cur
    <3>2. /\ new.rev = cur.rev + 1
          /\ {cur.object} \cup cur.versions \subseteq {new.object} \cup new.versions
          /\ cur.deleted => ~new.deleted
               /\ new = [cur EXCEPT !.deleted = FALSE, !.rev = cur.rev + 1]
      BY <3>1, EditedIs
    <3> QED  BY <3>2 DEF cur
  <2> HIDE DEF n, new
  <2>7. \A k \in 1..Len(journal') : k \in 1..n \/ k = n + 1
    BY <2>1
  <2>8. journal'[n + 1] = new
    BY DEF new
  <2>9. \A k \in 1..Len(journal') : journal'[k].rev = k
    BY <2>1, <2>3, <2>4, <2>6, <2>7, <2>8
  <2>10. ASSUME NEW k \in 1..Len(journal'), NEW h \in 1..Len(journal'), h < k
         PROVE  /\ {journal'[h].object} \cup journal'[h].versions
                      \subseteq {journal'[k].object} \cup journal'[k].versions
                /\ journal'[h].deleted /\ h = k - 1 /\ ~journal'[k].deleted
                      => journal'[k] = [journal'[h] EXCEPT !.deleted = FALSE, !.rev = k]
    <3>1. h \in 1..n /\ journal'[h] = journal[h]
      BY <2>1, <2>7, <2>10
    <3>2. CASE k \in 1..n
      <4>1. journal'[k] = journal[k]
        BY <2>1, <3>2
      <4>2. 1..Len(journal) = 1..n
        BY DEF n
      <4>3. /\ k \in 1..Len(journal) /\ h \in 1..Len(journal) /\ h < k
            /\ NothingLost
        BY <2>4, <2>10, <3>1, <3>2, <4>2
      <4>4. /\ {journal[h].object} \cup journal[h].versions
                  \subseteq {journal[k].object} \cup journal[k].versions
            /\ journal[h].deleted /\ h = k - 1 /\ ~journal[k].deleted
                  => journal[k] = [journal[h] EXCEPT !.deleted = FALSE, !.rev = k]
        <5> HIDE DEF n
        <5> QED  BY <4>3 DEF NothingLost
      <4> QED  BY <3>1, <4>1, <4>4
    <3>3. CASE k = n + 1
      <4>1. {journal[h].object} \cup journal[h].versions
               \subseteq {journal[n].object} \cup journal[n].versions
        <5>1. CASE h = n
          BY <5>1
        <5>2. CASE h # n
          <6>1. h < n /\ 1..Len(journal) = 1..n
            BY <2>1, <3>1, <5>2 DEF n
          <6> QED  BY <2>3, <2>4, <3>1, <6>1 DEF NothingLost
        <5> QED  BY <5>1, <5>2
      <4>2. journal'[k] = new
        BY <2>8, <3>3
      <4>3. h = k - 1 => h = n /\ journal[n].rev + 1 = k
        BY <2>1, <2>3, <2>4, <3>1, <3>3
      <4> QED  BY <2>6, <3>1, <4>1, <4>2, <4>3
    <3> QED  BY <2>7, <3>2, <3>3
  <2> QED  BY <2>9, <2>10 DEF NothingLost
<1> QED  BY <1>1, <1>2, <1>3, JournalIs

LEMMA WriteOnceStep ==
  ASSUME Base, InTurnInv, AdditionsInTurn, Kept, WriteOnce, [Next]_vars
  PROVE  Kept' /\ WriteOnce'
<1>0. /\ drive' = drive /\ drive \in Drives
      /\ drive.worm \in {"off", "append_only", "strict"}
  BY JournalIs, EditsAssumption DEF Base, Types
<1>1. CASE journal' = journal
  BY <1>0, <1>1 DEF Kept, WriteOnce
<1>2. CASE Len(journal) = 0 /\ Len(journal') = 1 /\ ~journal'[1].deleted
  <2>1. 1..Len(journal') = {1} /\ 2..Len(journal') = {}
    BY <1>2
  <2> QED  BY <1>2, <2>1 DEF Kept, WriteOnce
<1>3. ASSUME NEW q \in Slots, AppendState(q) PROVE Kept' /\ WriteOnce'
  <2> DEFINE n == Len(journal)
             cur == journal[request[q].cur]
             new == journal'[n + 1]
  <2>1. /\ n \in Nat /\ Len(journal') = n + 1
        /\ request[q].pc = "resolved" /\ request[q].cur \in 1..n
        /\ \A k \in 1..n : journal'[k] = journal[k] /\ journal[k] \in State
        /\ new \in Edited(cur)
    BY <1>3, AppendsEdit
  <2> SUFFICES ASSUME drive.worm # "off"
               PROVE  /\ \A k \in 1..Len(journal') : ~journal'[k].deleted
                      /\ drive.worm = "strict" =>
                           \A h, k \in 1..Len(journal') : journal'[h].tags = journal'[k].tags
                      /\ \A k \in 2..Len(journal') : journal'[k - 1].tags \subseteq journal'[k].tags
    <3>1. ASSUME \A k \in 1..Len(journal') : ~journal'[k].deleted,
                 drive.worm = "strict" =>
                   \A h, k \in 1..Len(journal') : journal'[h].tags = journal'[k].tags,
                 \A k \in 2..Len(journal') : journal'[k - 1].tags \subseteq journal'[k].tags
          PROVE  Kept' /\ WriteOnce'
      <4>1. \A k \in 2..Len(journal') : k \in 1..Len(journal') /\ k - 1 \in 1..Len(journal')
        BY <2>1
      <4> QED  BY <1>0, <3>1, <4>1 DEF Kept, WriteOnce
    <3>2. drive.worm = "off" => Kept' /\ WriteOnce'
      BY <1>0 DEF Kept, WriteOnce
    <3> QED  BY <3>1, <3>2
  <2>2. /\ \A k \in 1..n : ~journal[k].deleted
        /\ drive.worm = "strict" => \A h, k \in 1..n : journal[h].tags = journal[k].tags
        /\ \A k \in 2..n : journal[k - 1].tags \subseteq journal[k].tags
    BY DEF Kept, WriteOnce
  <2>3. cur \in State /\ ~cur.deleted
    BY <2>1, <2>2
  <2>4. /\ ~new.deleted /\ cur.tags \subseteq new.tags
        /\ drive.worm = "strict" => new.tags = cur.tags
    <3>1. new \in Edited(cur)
      BY <2>1
    <3> HIDE DEF new, cur
    <3>2. /\ drive.worm # "off" => (new.deleted <=> cur.deleted) /\ cur.tags \subseteq new.tags
          /\ drive.worm \notin {"off", "append_only"} => new.tags = cur.tags
      BY <2>3, <3>1, EditedIs
    <3> QED  BY <2>3, <3>2
  <2>5. drive.worm = "append_only" => request[q].cur = n
    BY <1>0, <2>1 DEF InTurnInv, Latest, OneAtATime, AdditionsInTurn
  <2>6. journal[n].tags \subseteq new.tags
    <3>1. CASE drive.worm = "strict"
      <4>1. n \in 1..n
        BY <2>1
      <4> QED  BY <2>1, <2>2, <2>4, <3>1, <4>1
    <3>2. CASE drive.worm = "append_only"
      BY <2>4, <2>5, <3>2
    <3> QED  BY <1>0, <3>1, <3>2
  <2>7. drive.worm = "strict" => \A k \in 1..n : journal[k].tags = new.tags
    BY <2>1, <2>2, <2>4
  <2> HIDE DEF n, cur, new
  <2>8. journal'[n + 1] = new
    BY DEF new
  <2>9. \A k \in 1..Len(journal') : k \in 1..n \/ k = n + 1
    BY <2>1
  <2>10. \A k \in 1..Len(journal') : ~journal'[k].deleted
    BY <2>1, <2>2, <2>4, <2>8, <2>9
  <2>11. drive.worm = "strict" =>
            \A h, k \in 1..Len(journal') : journal'[h].tags = journal'[k].tags
    <3>1. drive.worm = "strict" => \A k \in 1..Len(journal') : journal'[k].tags = new.tags
      BY <2>1, <2>7, <2>8, <2>9
    <3> QED  BY <3>1
  <2>12. ASSUME NEW k \in 2..Len(journal')
         PROVE  journal'[k - 1].tags \subseteq journal'[k].tags
    <3>1. CASE k \in 1..n
      <4>1. k \in 2..n /\ k - 1 \in 1..n
        BY <2>1, <3>1
      <4>2. journal'[k] = journal[k] /\ journal'[k - 1] = journal[k - 1]
        BY <2>1, <4>1, <3>1
      <4> QED  BY <2>2, <4>1, <4>2
    <3>2. CASE k = n + 1
      <4>1. k - 1 = n /\ n \in 1..n
        BY <2>1, <3>2
      <4>2. journal'[n] = journal[n]
        BY <2>1, <4>1
      <4> QED  BY <2>6, <2>8, <3>2, <4>1, <4>2
    <3>3. k \in 1..Len(journal')
      BY <2>1
    <3> QED  BY <2>9, <3>1, <3>2, <3>3
  <2> QED  BY <2>10, <2>11, <2>12
<1> QED  BY <1>1, <1>2, <1>3, JournalIs

(***************************************************************************)
(* The theorems.                                                           *)
(***************************************************************************)
Turns == InTurnInv /\ EditsFollow /\ NothingLostInTurn

LEMMA AnsweredInit == Init => Answered
<1> SUFFICES ASSUME Init PROVE Answered
  OBVIOUS
<1>1. ASSUME NEW s \in Servers PROVE ListingAnswers(s)
  BY Params DEF Init, ListingAnswers
<1>2. ASSUME NEW q \in Slots PROVE RequestAnswers(q)
  BY Params DEF Init, RequestAnswers
<1> QED  BY <1>1, <1>2 DEF Answered

LEMMA TurnsInit == Init => Turns /\ Kept /\ WriteOnce
<1> SUFFICES ASSUME Init PROVE Turns /\ Kept /\ WriteOnce
  OBVIOUS
<1>1. Len(journal) = 0 /\ 1..Len(journal) = {} /\ 2..Len(journal) = {}
  BY DEF Init
<1>2. \A q \in Slots : request[q].pc = "free"
  BY Params DEF Init
<1>3. \A s \in Servers : ~overlay[s].fresh
  BY Params DEF Init
<1>4. InTurnInv
  BY <1>2, <1>3 DEF InTurnInv, Unlisted, Latest
<1>5. EditsFollow /\ NothingLostInTurn
  BY <1>1 DEF EditsFollow, NothingLostInTurn, NothingLost
<1>6. Kept /\ WriteOnce
  BY <1>1 DEF Kept, WriteOnce
<1> QED  BY <1>4, <1>5, <1>6 DEF Turns

\* What the invariants say of the reads.
LEMMA ReadsFollow ==
  /\ Base => TypeOK /\ ReadNotBehindIndex
  /\ Base /\ Answered => ReadYourWrites
<1>1. ASSUME Base PROVE TypeOK
  <2>0. /\ Types /\ Bounded /\ Len(journal) \in Nat
        /\ request \in [Slots -> Request] /\ overlay \in [Servers -> Listing]
    BY <1>1 DEF Base, Types
  <2>1. ASSUME NEW s \in Servers
        PROVE  /\ folded[s] \in 0..cached[s] /\ cached[s] \in 0..Len(journal)
               /\ overlay[s].since \in 0..Len(journal) /\ overlay[s].state \in 0..Len(journal)
               /\ acked[s] \in 0..Len(journal)
    <3>1. /\ overlay[s].since \in Nat /\ overlay[s].state \in Nat
          /\ folded[s] \in Nat /\ cached[s] \in Nat /\ acked[s] \in Nat
      BY <2>0 DEF Types, Listing
    <3>2. ServerBounded(s)
      BY <2>0 DEF Bounded
    <3> QED  BY <2>0, <3>1, <3>2 DEF ServerBounded
  <2>2. ASSUME NEW q \in Slots
        PROVE  /\ request[q].pc \in Steps /\ request[q].server \in Servers
               /\ request[q].pc \in {"resolved", "stored"} => request[q].cur \in 1..Len(journal)
    <3>1. request[q].pc \in Steps /\ request[q].server \in Servers /\ request[q].cur \in Nat
      BY <2>0 DEF Request
    <3>2. RequestBounded(q)
      BY <2>0 DEF Bounded
    <3> QED  BY <2>0, <3>1, <3>2 DEF RequestBounded
  <2> QED  BY <2>0, <2>1, <2>2 DEF TypeOK, Types
<1>2. ASSUME Base PROVE ReadNotBehindIndex
  <2>1. \A q \in Slots : request[q].cur \in Nat /\ request[q].low \in Nat
    BY <1>2 DEF Base, Types, Request
  <2> QED  BY <1>2, <2>1 DEF Base, Started, StartedFrom, ReadNotBehindIndex
<1>3. ASSUME Base, Answered PROVE ReadYourWrites
  <2>1. \A q \in Slots : request[q].cur \in Nat /\ request[q].floor \in Nat
    BY <1>3 DEF Base, Types, Request
  <2> QED  BY <1>3, <2>1 DEF Answered, RequestAnswers, ReadYourWrites
<1> QED  BY <1>1, <1>2, <1>3

\* Every variable stays in its range; no server is folded past its cache.
THEOREM TypesCorrect == Spec => []TypeOK
<1> QED  BY BaseInit, BaseStep, ReadsFollow, PTL DEF Spec

\* A request never resolves a state older than the index key it began with,
\* also when more events are unfolded than a listing holds (overlayStates).
THEOREM ReadsFollowIndex == Spec => []ReadNotBehindIndex
<1> QED  BY BaseInit, BaseStep, ReadsFollow, PTL DEF Spec

\* What a server answered for is in every later read of that server, as long as
\* the unfolded events fit in a listing (overlayStates, invalidateOverlay).
THEOREM ReadsOwnWrites == Spec /\ []ListingsFit => []ReadYourWrites
<1>1. Init => Base /\ Answered
  BY BaseInit, AnsweredInit
<1>2. Base /\ Answered /\ ListingsFit /\ [Next]_vars => (Base /\ Answered)'
  BY BaseStep, AnsweredStep
<1> QED  BY <1>1, <1>2, ReadsFollow, PTL DEF Spec

\* With one request at a time, through any servers, every edit follows the one
\* before it and no object of the file is ever lost (resolveFile, newVersion).
THEOREM EditsFollowEachOther ==
  ASSUME TurnsUnbuffered
  PROVE  Spec /\ []ListingsFit => [](EditsFollow /\ NothingLostInTurn)
<1>1. Init => Base /\ Turns
  BY BaseInit, TurnsInit
<1>2. Base /\ Turns /\ ListingsFit /\ [Next]_vars => (Base /\ Turns)'
  BY BaseStep, InTurnStep, EditsStep DEF Turns
<1>3. Turns => EditsFollow /\ NothingLostInTurn
  BY DEF Turns
<1> QED  BY <1>1, <1>2, <1>3, PTL DEF Spec

\* The write-once modes remove and rewrite nothing, the strict one whatever
\* requests overlap, the one with additions if requests are served in turn
\* (worm.CheckUpdate).
THEOREM FilesWrittenOnce ==
  ASSUME TurnsUnbuffered, AdditionsInTurn
  PROVE  Spec /\ []ListingsFit => []WriteOnce
<1>1. Init => Base /\ InTurnInv /\ Kept /\ WriteOnce
  BY BaseInit, TurnsInit DEF Turns
<1>2. Base /\ InTurnInv /\ Kept /\ WriteOnce /\ ListingsFit /\ [Next]_vars
        => (Base /\ InTurnInv /\ Kept /\ WriteOnce)'
  BY BaseStep, InTurnStep, WriteOnceStep
<1> QED  BY <1>1, <1>2, PTL DEF Spec

================================================================================
