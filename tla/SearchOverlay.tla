---------------------------- MODULE SearchOverlay ----------------------------
(***************************************************************************)
(* Search and facet counts of the drive (drive/server search.go,           *)
(* overlay.go) over the search sidecar: a request asks the index first,    *)
(* lists the journal after the indexer's last folded key next, and patches *)
(* the answer of the index with what it listed, while an indexer run       *)
(* commits the index, updates the metadata cache and moves that key.       *)
(* A state of a file is the number of its event in the journal, 0 is none. *)
(***************************************************************************)
EXTENDS Integers, Sequences, FiniteSets, SequencesExt

CONSTANTS
    Files,          \* in the order of their names: 1..N
    States,         \* bound: what edits make of a file: deleted, its facet path,
                    \* and whether its name matches the text query
    InBody,         \* files whose extracted text matches the text query
    Queries,        \* bound: the requests that are made
    PageSize,       \* the limit of a request
    MaxOverlay,     \* Config.MaxOverlay
    OverlayTTL,     \* whether Config.OverlayTTL is set
    MaxEvents       \* bound: the journal

SearchAssumption ==
    /\ Cardinality(Files) \in Nat /\ Files = 1..Cardinality(Files)
    /\ States \subseteq [deleted : BOOLEAN, path : Seq(STRING), named : BOOLEAN]
    /\ OverlayTTL \in BOOLEAN /\ InBody \subseteq Files
    /\ {PageSize, MaxOverlay, MaxEvents} \subseteq Nat \ {0}

VARIABLES
    journal,    \* drive/journal/: file events in key order
    index,      \* the committed index: per file the state it was built from
    cache,      \* the metadata cache: per file the state it holds
    cursor,     \* LastJournalKey
    run,        \* the indexer run, or the refresh of a follower
    overlay,    \* overlayCache: the span of the journal it was built from
    request

vars == <<journal, index, cache, cursor, run, overlay, request>>

Paths == {s.path : s \in States}

Newest(f, first, last) ==
    Max({k \in first..last : journal[k].file = f} \cup {0})
Fold(last) == [f \in Files |-> Newest(f, 1, last)]

NoRequest == [pc |-> "idle"]

Init ==
    /\ journal = <<>> /\ cursor = 0
    /\ index = [f \in Files |-> 0] /\ cache = [f \in Files |-> 0]
    /\ run = [pc |-> "idle", last |-> 0]
    /\ overlay = [since |-> 0, last |-> 0, fresh |-> FALSE]
    /\ request = NoRequest

\* An event of this server invalidates its overlay, one of another does not.
Append1 ==
    /\ Len(journal) < MaxEvents
    /\ \E f \in Files, s \in States : journal' = Append(journal, [file |-> f, state |-> s])
    /\ \E own \in BOOLEAN : overlay' = [overlay EXCEPT !.fresh = @ /\ ~own]
    /\ UNCHANGED <<index, cache, cursor, run, request>>

ExpireOverlay ==
    /\ overlay.fresh /\ overlay' = [overlay EXCEPT !.fresh = FALSE]
    /\ UNCHANGED <<journal, index, cache, cursor, run, request>>

-----------------------------------------------------------------------------
(* The indexer, or the follower on a server that only reads: the index     *)
(* becomes visible, then the cache changes file by file, then the key.     *)

Disturbed == request' = IF request.pc = "idle" THEN request
                        ELSE [request EXCEPT !.still = FALSE]

Commit ==
    /\ run.pc = "idle"
    /\ \E last \in (cursor + 1)..Len(journal) :
          /\ index' = [f \in Files |-> Max({index[f], Newest(f, 1, last)})]
          /\ run' = [pc |-> "cache", last |-> last]
    /\ Disturbed
    /\ UNCHANGED <<journal, cache, cursor, overlay>>

PutCache ==
    /\ run.pc = "cache"
    /\ \E f \in Files :
          /\ Newest(f, 1, run.last) > cache[f]
          /\ cache' = [cache EXCEPT ![f] = Newest(f, 1, run.last)]
    /\ Disturbed
    /\ UNCHANGED <<journal, index, cursor, run, overlay>>

Cached_Early == TRUE
Cached == \A f \in Files : cache[f] >= Newest(f, 1, run.last)

SetLast ==
    /\ run.pc = "cache" /\ Cached
    /\ cursor' = run.last /\ run' = [run EXCEPT !.pc = "idle"]
    /\ Disturbed
    /\ UNCHANGED <<journal, index, cache, overlay>>

RunFails ==
    /\ run.pc = "cache" /\ run' = [run EXCEPT !.pc = "idle"]
    /\ Disturbed
    /\ UNCHANGED <<journal, index, cache, cursor, overlay>>

-----------------------------------------------------------------------------
(* What matches a query, for the server and for the index.                 *)

StateOf(k) == journal[k].state
Under(path, want, exact) == path = want \/ (~exact /\ IsPrefix(want, path))

InFacet(q, s) == q.want # <<>> => Under(s.path, q.want, q.exact)

\* listingFilter.matches
Matches_Deleted(q, s) == InFacet(q, s) /\ (q.text => s.named)
Matches(q, s) == ~s.deleted /\ InFacet(q, s) /\ (q.text => s.named)

\* Engine.search: the documents of deleted files are not in the index.
Indexed(q, f) ==
    /\ index[f] > 0
    /\ LET s == StateOf(index[f]) IN
       ~s.deleted /\ InFacet(q, s) /\ (q.text => s.named \/ f \in InBody)

Page(fs, q) ==
    {f \in fs : Cardinality({g \in fs : g < f}) \in q.offset..(q.offset + PageSize - 1)}

\* childrenUnder: the children of q.at a path falls under.
Child(q, path) ==
    IF IsStrictPrefix(q.at, path) THEN {SubSeq(path, 1, Len(q.at) + 1)} ELSE {}
Children(q) == UNION {Child(q, p) : p \in Paths}

-----------------------------------------------------------------------------
(* A request: Server.search and Server.facets.                             *)

AskIndex ==
    /\ request.pc = "idle"
    /\ \E q \in Queries :
       LET found == {f \in Files : Indexed(q, f)} IN
       request' = [pc |-> "since", q |-> q, began |-> Len(journal), since |-> 0,
                   still |-> run.pc = "idle" /\ index = cache /\ index = Fold(cursor),
                   hits |-> Page(found, q), total |-> Cardinality(found),
                   counts |-> [c \in Children(q) |->
                       Cardinality({f \in found : c \in Child(q, StateOf(index[f]).path)})]]
    /\ UNCHANGED <<journal, index, cache, cursor, run, overlay>>

ReadKey ==
    /\ request.pc = "since"
    /\ request' = [request EXCEPT !.pc = "list", !.since = cursor]
    /\ UNCHANGED <<journal, index, cache, cursor, run, overlay>>

\* overlayStates
ListOverlay ==
    /\ request.pc = "list"
    /\ LET kept == overlay.fresh /\ overlay.since = request.since IN
       overlay' = IF kept THEN overlay
                  ELSE [since |-> request.since, fresh |-> OverlayTTL,
                        last |-> Min({Len(journal), request.since + MaxOverlay})]
    /\ request' = [request EXCEPT !.pc = "answer"]
    /\ UNCHANGED <<journal, index, cache, cursor, run>>

Overlaid(f) == Newest(f, overlay.since + 1, overlay.last)

\* The state a hit of the index is shown with; 0 is a hit that is dropped.
Shown(q, f) ==
    LET k == IF Overlaid(f) > 0 THEN Overlaid(f) ELSE cache[f] IN
    IF \/ k = 0 \/ (Overlaid(f) > 0 /\ ~Matches(q, StateOf(k)))
       \/ (k > 0 /\ StateOf(k).deleted)
    THEN 0 ELSE k

\* The files only the overlay knows, on the first page.  A file that has been
\* indexed is left to the index when there is a text query.
Added(q, f) ==
    /\ q.offset = 0 /\ Overlaid(f) > 0 /\ Matches(q, StateOf(Overlaid(f)))
    /\ f \notin request.hits
    /\ ~(q.text /\ cache[f] > 0)

Results(q) ==
    LET kept == {f \in request.hits : Shown(q, f) > 0}
        added == {f \in Files : Added(q, f)}
    IN [shown |-> [f \in kept \cup added |->
                       IF f \in kept THEN Shown(q, f) ELSE Overlaid(f)],
        total |-> request.total - Cardinality(request.hits \ kept)
                     + Cardinality(added)]

\* The counts of the index, less the old states of overlaid files, plus the new.
Patched(q) ==
    LET Counted(s, c) == Matches(q, s) /\ c \in Child(q, s.path) IN
    [c \in Children(q) |->
        request.counts[c]
          - Cardinality({f \in Files : Overlaid(f) > 0 /\ cache[f] > 0
                                       /\ Counted(StateOf(cache[f]), c)})
          + Cardinality({f \in Files : Overlaid(f) > 0 /\ Counted(StateOf(Overlaid(f)), c)})]

Answer ==
    /\ request.pc = "answer"
    /\ request' = [pc |-> "done", q |-> request.q, began |-> request.began,
                   still |-> request.still, last |-> overlay.last,
                   results |-> Results(request.q), counts |-> Patched(request.q)]
    /\ UNCHANGED <<journal, index, cache, cursor, run, overlay>>

Forget ==
    /\ request.pc = "done" /\ request' = NoRequest
    /\ UNCHANGED <<journal, index, cache, cursor, run, overlay>>

Next ==
    \/ Append1 \/ ExpireOverlay
    \/ Commit \/ PutCache \/ SetLast \/ RunFails
    \/ AskIndex \/ ReadKey \/ ListOverlay \/ Answer \/ Forget

Spec == Init /\ [][Next]_vars

-----------------------------------------------------------------------------
(* Correctness.                                                            *)

TypeOK ==
    /\ journal \in Seq([file : Files, state : States]) /\ Len(journal) <= MaxEvents
    /\ {index, cache} \subseteq [Files -> 0..Len(journal)] /\ cursor \in 0..Len(journal)
    /\ run \in [pc : {"idle", "cache"}, last : 0..Len(journal)]
    /\ overlay \in [since : 0..Len(journal), last : 0..Len(journal), fresh : BOOLEAN]
    /\ request.pc \in {"idle", "since", "list", "answer", "done"}

Answered == request.pc = "done"

\* The events before the request that its overlay was told of: all of them
\* unless another server wrote while this one still kept its list.
Known == Min({request.began, Max({request.last, overlay.since})})

\* No file is shown in a state older than one journaled before the request
\* began, a deleted file among them, whatever the indexer does meanwhile: the
\* key moves only after the cache has what the overlay no longer lists.
ShownIsCurrent ==
    Answered => \A f \in DOMAIN request.results.shown :
        request.results.shown[f] >= Newest(f, 1, Known)

\* While no run moves the index the overlay makes a listing exact: the files
\* that match now, their number and the facet counts, whatever was edited,
\* moved or deleted since the last run (Server.search, Server.facets).
QuietExact ==
    Answered /\ request.still /\ ~request.q.text /\ request.q.offset = 0
    /\ PageSize >= Cardinality(Files) =>
        LET now == [f \in Files |-> Newest(f, 1, request.last)]
            matching == {f \in Files : now[f] > 0 /\ Matches(request.q, StateOf(now[f]))}
        IN /\ DOMAIN request.results.shown = matching
           /\ request.results.total = Cardinality(matching)
           /\ \A c \in DOMAIN request.counts : request.counts[c] =
                 Cardinality({f \in matching : c \in Child(request.q, StateOf(now[f]).path)})

=============================================================================
