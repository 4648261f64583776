----------------------------- MODULE AuditVerify -----------------------------
(***************************************************************************)
(* Verification of the audit chain (drive/audit verify.go): the journal,   *)
(* the originals and the checkpoints are objects of a bucket somebody may  *)
(* change behind the Drive's back; Verify compares them.  A digest is what *)
(* it digests: the hash of a checkpoint is the checkpoint, the content of  *)
(* an event stands for its SHA-256.                                        *)
(***************************************************************************)
EXTENDS Integers, Sequences, FiniteSetsExt

CONSTANTS
    MaxKey,         \* bound: journal keys
    MaxTampers,     \* bound: changes behind the Drive's back
    HashOriginals   \* VerifyOptions.HashOriginals

AuditAssumption == MaxKey \in Nat \ {0} /\ MaxTampers \in Nat /\ HashOriginals \in BOOLEAN

VARIABLES
    journal,    \* the journal objects: per key its content, 0 is no object
    original,   \* the original an event registered: its size and bytes
    chain,      \* the checkpoint objects: per number, Missing is none
    written,    \* history: journal and chain as the Drive wrote them
    tampers

vars == <<journal, original, chain, written, tampers>>

JournalKeys == 1..MaxKey
Contents == {1, 2}
Intact == [size |-> 1, bytes |-> 1]
Gone == [size |-> 0, bytes |-> 0]
Originals == {Gone, Intact, [size |-> 1, bytes |-> 2], [size |-> 2, bytes |-> 2]}

\* MerkleRoot: the leaves' digests, to which each level adds its last node once
\* more when the number of its nodes is odd; the nodes of level j are 2^j wide.
MerkleRoot(leaves) ==
    LET level[j \in 0..Len(leaves)] ==
          IF j = 0 THEN [i \in DOMAIN leaves |-> leaves[i].digest]
          ELSE LET nodes == level[j - 1]
                   width == 2 ^ (j - 1)
               IN IF Len(nodes) > width /\ (Len(nodes) \div width) % 2 = 1
                  THEN nodes \o SubSeq(nodes, Len(nodes) - width + 1, Len(nodes))
                  ELSE nodes
    IN level[Len(leaves)]

Genesis == [n |-> 0, prev |-> <<>>, root |-> <<>>, count |-> 0, first |-> 0,
            last |-> 0, leaves |-> <<>>, originals |-> {}]
Missing == [Genesis EXCEPT !.n = -1]

\* Build: the checkpoint of a batch of events in key order.
Build(n, prev, leaves) ==
    [n |-> n, prev |-> <<prev>>, root |-> MerkleRoot(leaves), count |-> Len(leaves),
     first |-> leaves[1].key, last |-> leaves[Len(leaves)].key, leaves |-> leaves,
     originals |-> {leaves[i].key : i \in DOMAIN leaves}]

InOrder(keys) ==
    CHOOSE order \in [1..Cardinality(keys) -> keys] :
        \A i, j \in DOMAIN order : i < j => order[i] < order[j]

Leaves(events, keys) ==
    LET order == InOrder({k \in keys : events[k] > 0})
    IN [i \in DOMAIN order |-> [key |-> order[i], digest |-> events[order[i]]]]

Numbers(c) == {n \in JournalKeys : c[n] # Missing}
HeadN(c) == Max(Numbers(c) \cup {0})
Newest(c) == IF HeadN(c) = 0 THEN Genesis ELSE c[HeadN(c)]

Init ==
    /\ journal = [k \in JournalKeys |-> 0] /\ original = [k \in JournalKeys |-> Gone]
    /\ chain = [n \in JournalKeys |-> Missing]
    /\ written = [journal |-> journal, chain |-> chain]
    /\ tampers = 0

-----------------------------------------------------------------------------
(* What the Drive writes.                                                  *)

\* An event registers an original; its key is after all others.
AppendEvent ==
    /\ \E k \in JournalKeys, c \in Contents :
          /\ \A l \in k..MaxKey : journal[l] = 0 /\ written.journal[l] = 0
          /\ journal' = [journal EXCEPT ![k] = c]
          /\ original' = [original EXCEPT ![k] = Intact]
          /\ written' = [written EXCEPT !.journal[k] = c]
    /\ UNCHANGED <<chain, tampers>>

\* Chain.Append over the events after the head, all of them or the first few.
\* Bound: the last checkpoint is written before the first change behind the
\* Drive's back; one written after it would vouch for what it found.
Checkpoint ==
    /\ tampers = 0
    /\ \E last \in JournalKeys :
       LET leaves == Leaves(journal, (Newest(chain).last + 1)..last)
           n == HeadN(chain) + 1 IN
       /\ leaves # <<>> /\ journal[last] > 0
       /\ chain' = [chain EXCEPT ![n] = Build(n, Newest(chain), leaves)]
       /\ written' = [written EXCEPT !.chain = chain']
    /\ UNCHANGED <<journal, original, tampers>>

-----------------------------------------------------------------------------
(* What somebody else may do to the bucket.                                *)

Tampered == tampers < MaxTampers /\ tampers' = tampers + 1 /\ UNCHANGED written

\* An event is changed, removed, or put in at a free key.
TamperEvent ==
    /\ Tampered
    /\ \E k \in JournalKeys, c \in Contents \cup {0} :
          c # journal[k] /\ journal' = [journal EXCEPT ![k] = c]
    /\ UNCHANGED <<original, chain>>

TamperOriginal ==
    /\ Tampered
    /\ \E k \in JournalKeys, o \in Originals :
          /\ original[k] # Gone /\ o # original[k]
          /\ original' = [original EXCEPT ![k] = o]
    /\ UNCHANGED <<journal, chain>>

\* A checkpoint is removed, rebuilt over what the journal holds now and linked
\* to the chain as it is now, or only its leaves are edited.
Forged(n) ==
    LET old == chain[n]
        covered == {k \in JournalKeys : k \in old.first..old.last}
        edited == Leaves(journal, covered)
        prev == IF n = 1 THEN Genesis ELSE chain[n - 1]
    IN {Missing} \cup
       IF edited = <<>> THEN {}
       ELSE {Build(n, prev, edited), [old EXCEPT !.leaves = edited]}

TamperChain ==
    /\ Tampered
    /\ \E n \in Numbers(chain) : \E cp \in Forged(n) :
          cp # chain[n] /\ chain' = [chain EXCEPT ![n] = cp]
    /\ UNCHANGED <<journal, original>>

Next ==
    \/ AppendEvent \/ Checkpoint
    \/ TamperEvent \/ TamperOriginal \/ TamperChain

Spec == Init /\ [][Next]_vars

-----------------------------------------------------------------------------
(* Chain.Verify.                                                           *)

Found(kind, where) == [kind |-> kind, at |-> where]

\* The checkpoint before n in the listing, by which the walk links n.
Before(n) == LET m == Max({0} \cup {k \in Numbers(chain) : k < n})
             IN IF m = 0 THEN Genesis ELSE chain[m]

LinkFindings_Number(n) ==
    IF chain[n].n # Before(n).n + 1 THEN {Found("sequence_gap", n)} ELSE {}

LinkFindings(n) ==
    (IF chain[n].n # Before(n).n + 1 THEN {Found("sequence_gap", n)} ELSE {})
    \cup (IF chain[n].prev # <<Before(n)>> THEN {Found("chain_break", n)} ELSE {})
    \cup (IF chain[n].count # Len(chain[n].leaves) \/ MerkleRoot(chain[n].leaves) # chain[n].root
          THEN {Found("root_mismatch", n)} ELSE {})
    \cup (IF chain[n].leaves = <<>> \/ chain[n].leaves[1].key # chain[n].first
             \/ chain[n].leaves[Len(chain[n].leaves)].key # chain[n].last
          THEN {Found("range_mismatch", n)} ELSE {})

\* The leaves in the order of the walk, each by its checkpoint and its place.  One
\* that is not after all before it is a finding of its own and is not covered.
Walk == UNION {{<<n, i>> : i \in DOMAIN chain[n].leaves} : n \in Numbers(chain)}
Leaf(p) == chain[p[1]].leaves[p[2]]
Earlier(p, q) == p[1] < q[1] \/ (p[1] = q[1] /\ p[2] < q[2])

Accepted == {p \in Walk : \A q \in Walk : Earlier(q, p) => Leaf(q).key < Leaf(p).key}
Covered == {Leaf(p) : p \in Accepted}
CoveredEnd == Max({0} \cup {l.key : l \in Covered})
OrderFindings == {Found("range_mismatch", Leaf(p).key) : p \in Walk \ Accepted}

\* The covered keys against the journal's: both are walked in key order.
EventFindings_NoExtra(covered, end) ==
    {Found("missing_event", l.key) : l \in {c \in covered : journal[c.key] = 0}}
    \cup {Found("modified_event", l.key) :
             l \in {c \in covered : journal[c.key] \notin {0, c.digest}}}
EventFindings(covered, end) ==
    {Found("missing_event", l.key) : l \in {c \in covered : journal[c.key] = 0}}
    \cup {Found("modified_event", l.key) :
             l \in {c \in covered : journal[c.key] \notin {0, c.digest}}}
    \cup {Found("extra_event", k) :
             k \in {k \in JournalKeys : journal[k] > 0 /\ k <= end
                                 /\ k \notin {l.key : l \in covered}}}

OriginalFindings ==
    LET registered == UNION {chain[n].originals : n \in Numbers(chain)}
    IN {Found("missing_original", k) : k \in {o \in registered : original[o] = Gone}}
       \cup {Found("modified_original", k) :
                k \in {o \in registered : /\ original[o] # Gone
                                          /\ \/ original[o].size # Intact.size
                                             \/ HashOriginals /\ original[o].bytes # Intact.bytes}}

Verify ==
    (UNION {LinkFindings(n) : n \in Numbers(chain)})
    \cup OrderFindings
    \cup EventFindings(Covered, CoveredEnd)
    \cup OriginalFindings

-----------------------------------------------------------------------------
(* Correctness.                                                            *)

TypeOK ==
    /\ journal \in [JournalKeys -> Contents \cup {0}] /\ original \in [JournalKeys -> Originals]
    /\ DOMAIN chain = JournalKeys /\ tampers \in 0..MaxTampers

AuthenticHead == Numbers(chain) # {} /\ Newest(chain) = written.chain[HeadN(chain)]

\* What differs from what was written, as far as the chain reaches.
Differences ==
    LET end == Newest(chain).last IN
    {Found("missing_event", k) : k \in {k \in 1..end : written.journal[k] > 0 /\ journal[k] = 0}}
    \cup {Found("extra_event", k) : k \in {k \in 1..end : written.journal[k] = 0 /\ journal[k] > 0}}
    \cup {Found("modified_event", k) :
             k \in {k \in 1..end : 0 \notin {journal[k], written.journal[k]}
                                   /\ journal[k] # written.journal[k]}}
    \cup {Found("missing_original", k) : k \in {k \in 1..end : written.journal[k] > 0
                                                               /\ original[k] = Gone}}
    \cup {Found("modified_original", k) :
             k \in {k \in 1..end : written.journal[k] > 0 /\ original[k] \notin {Gone, Intact}
                                   /\ (HashOriginals \/ original[k].size # Intact.size)}}

\* If the newest checkpoint is the one that was written, silence means that
\* nothing it reaches was touched: no earlier checkpoint, event or original,
\* however many of them were changed together (Chain.Verify).
SilenceIsProof ==
    AuthenticHead /\ Verify = {} =>
        /\ \A n \in 1..HeadN(chain) : chain[n] = written.chain[n]
        /\ Differences = {}

\* With the checkpoints as written the findings name every difference and
\* nothing else: an untouched bucket has none, the tail is never one.
FindingsAreExact ==
    (\A n \in 1..HeadN(chain) : chain[n] = written.chain[n]) => Verify = Differences
=============================================================================
