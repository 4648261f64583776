----------------------------- MODULE ArchiveGuard -----------------------------
(***************************************************************************)
(* The archive guard (internal/server archive_guard.go): a staged archive  *)
(* is walked entry by entry, an archive inside it is opened where it is    *)
(* met, and one budget of entries and bytes is shared by all levels.  The  *)
(* recursion of the code is the stack here.  An entry is what its header   *)
(* says; "odd" stands for any entry whose name, type or first bytes are    *)
(* refused on their own.                                                   *)
(***************************************************************************)
EXTENDS Integers, Sequences, SequencesExt

CONSTANTS
    Archives,           \* bound: the archives that are uploaded
    MaxDepth, MaxEntries, MaxSingle, MaxTotal, MaxRatio, MaxProbe
                        \* config.ArchiveGuardPolicy

GuardAssumption ==
    {MaxDepth, MaxEntries, MaxSingle, MaxTotal, MaxRatio, MaxProbe} \subseteq Nat

VARIABLES
    archive,    \* the object
    stack,      \* the archives being walked, the innermost last
    budget,     \* archiveInspectionBudget
    verdict

vars == <<archive, stack, budget, verdict>>

Directories == {"zip", "7z", "tar"}     \* archives with a list of entries
Streams == {"gz"}                       \* one compressed stream, its bytes counted
Containers == Directories \cup Streams

\* A compressed tar (tgz) is walked as the tar it wraps (compressedArchiveWrapsTar).
KindOf(e) == IF e.kind = "tgz" THEN "tar" ELSE e.kind

Frame(e, depth) ==
    [kind |-> KindOf(e), todo |-> e.items, size |-> e.size, expands |-> e.expands,
     total |-> 0, seen |-> {}, depth |-> depth]

Init ==
    /\ archive \in Archives
    /\ stack = <<Frame(archive, 1)>>
    /\ budget = [bytes |-> 0, entries |-> 0]
    /\ verdict = "open"

Top == stack[Len(stack)]
Below == SubSeq(stack, 1, Len(stack) - 1)

\* addEntry on the budget, which every level shares.
Added_Fresh(b, size) == IF Len(stack) > 1 THEN [bytes |-> size, entries |-> 1]
                        ELSE [bytes |-> b.bytes + size, entries |-> b.entries + 1]
Added(b, size) == [bytes |-> b.bytes + size, entries |-> b.entries + 1]
Affordable(b) == b.entries <= MaxEntries /\ b.bytes <= MaxTotal

\* The size of an object of no bytes bounds nothing.
WithinRatio(total, size) == size > 0 => total <= MaxRatio * size

\* countSingleArchiveEntry: bytes that are decompressed to be counted.
Countable(bytes, size) ==
    /\ bytes <= MaxSingle /\ bytes <= MaxTotal /\ bytes <= MaxProbe
    /\ WithinRatio(bytes, size)

\* Links and special files are refused, and so is what is unsafe by its name or
\* looks like a script by its first bytes.
Ordinary(e) == e.kind \notin {"odd", "link"}

\* What an entry must pass before its content is looked at.
HeaderPasses(f, e) ==
    /\ Ordinary(e)
    /\ f.kind # "tar" => e.name \notin f.seen
    /\ e.kind # "dir" =>
        /\ e.size <= MaxSingle
        /\ f.total + e.size <= MaxTotal
        /\ f.kind # "tar" => WithinRatio(f.total + e.size, f.size)

\* A file in a 7z archive is decompressed, one elsewhere is not.
TooDeep_OffByOne(depth) == depth > MaxDepth
TooDeep(depth) == depth >= MaxDepth
ContentPasses(f, e) ==
    IF KindOf(e) \in Containers THEN ~TooDeep(f.depth)
    ELSE f.kind = "7z" => Countable(e.size, f.size)

Entry ==
    /\ verdict = "open" /\ Top.kind \in Directories /\ Top.todo # <<>>
    /\ LET e == Head(Top.todo)
           size == IF e.kind = "dir" THEN 0 ELSE e.size
           rest == [Top EXCEPT !.todo = Tail(@), !.total = @ + size,
                               !.seen = @ \cup {e.name}]
       IN /\ HeaderPasses(Top, e)
          /\ budget' = Added(budget, size)
          /\ Affordable(budget')
          /\ e.kind # "dir" => ContentPasses(Top, e)
          /\ stack' = IF KindOf(e) \in Containers
                      THEN Below \o <<rest, Frame(e, Top.depth + 1)>>
                      ELSE Below \o <<rest>>
    /\ UNCHANGED <<archive, verdict>>

CountStream ==
    /\ verdict = "open" /\ Top.kind \in Streams
    /\ Countable(Top.expands, Top.size)
    /\ budget' = Added(budget, Top.expands)
    /\ Affordable(budget')
    /\ stack' = Below
    /\ verdict' = IF Below = <<>> THEN "accepted" ELSE verdict
    /\ UNCHANGED archive

Leave ==
    /\ verdict = "open" /\ Top.kind \in Directories /\ Top.todo = <<>>
    /\ stack' = Below
    /\ verdict' = IF Below = <<>> THEN "accepted" ELSE verdict
    /\ UNCHANGED <<archive, budget>>

Refused ==
    LET e == Head(Top.todo) IN
    IF Top.kind \in Streams
    THEN \/ ~Countable(Top.expands, Top.size)
         \/ ~Affordable(Added(budget, Top.expands))
    ELSE /\ Top.todo # <<>>
         /\ \/ ~HeaderPasses(Top, e)
            \/ ~Affordable(Added(budget, IF e.kind = "dir" THEN 0 ELSE e.size))
            \/ e.kind # "dir" /\ ~ContentPasses(Top, e)

Reject ==
    /\ verdict = "open" /\ Refused
    /\ verdict' = "rejected"
    /\ UNCHANGED <<archive, stack, budget>>

\* MaxInspectionTimeMS is over, or the object cannot be read.
Interrupt ==
    /\ verdict = "open" /\ verdict' = "interrupted"
    /\ UNCHANGED <<archive, stack, budget>>

Next == Entry \/ CountStream \/ Leave \/ Reject \/ Interrupt

Spec == Init /\ [][Next]_vars

-----------------------------------------------------------------------------
(* Correctness.                                                            *)

\* The entries of an archive level by level; a stream has none.
Levels(a) ==
    LET level[n \in 0..(MaxDepth + 1)] ==
            IF n = 0 THEN <<a>>
            ELSE FlattenSeq([i \in DOMAIN level[n - 1] |-> level[n - 1][i].items])
    IN level

SumOf(entries, Size(_)) == FoldLeft(LAMBDA s, e : s + Size(e), 0, entries)
Bytes(e) == IF e.kind = "dir" THEN 0 ELSE e.size

\* The limits, read off the whole tree: no walk, no order, no early return.
WithinLimits(a) ==
    LET level == Levels(a)
        entries == FlattenSeq([n \in 1..(MaxDepth + 1) |-> level[n]])
        all == <<a>> \o entries
        streams == SelectSeq(all, LAMBDA e : e.kind \in Streams)
    IN /\ Len(entries) + Len(streams) <= MaxEntries
       /\ SumOf(entries, Bytes) + SumOf(streams, LAMBDA e : e.expands) <= MaxTotal
       /\ \A i \in DOMAIN entries : Ordinary(entries[i])
                                    /\ Bytes(entries[i]) <= MaxSingle
       /\ \A n \in MaxDepth..(MaxDepth + 1) : \A i \in DOMAIN level[n] :
             KindOf(level[n][i]) \notin Containers
       /\ \A i \in DOMAIN streams : Countable(streams[i].expands, streams[i].size)
       /\ \A i \in DOMAIN all :
             all[i].kind \in {"zip", "7z"} =>
                /\ WithinRatio(SumOf(all[i].items, Bytes), all[i].size)
                /\ IsInjective([j \in DOMAIN all[i].items |-> all[i].items[j].name])
       /\ \A i \in DOMAIN all : all[i].kind = "7z" =>
             \A j \in DOMAIN all[i].items :
                all[i].items[j].kind = "file" =>
                    Countable(all[i].items[j].size, all[i].size)

\* The walk with its shared budget decides exactly what the limits say of the
\* whole tree: nothing at any level escapes the budget, and an archive within
\* the limits is refused only when the inspection could not be finished
\* (inspectArchiveObject, inspectZipArchive and its siblings).
VerdictIsRight ==
    /\ verdict = "accepted" => WithinLimits(archive)
    /\ verdict = "rejected" => ~WithinLimits(archive)
=============================================================================
