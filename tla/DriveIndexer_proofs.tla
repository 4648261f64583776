-------------------------- MODULE DriveIndexer_proofs --------------------------
(***************************************************************************)
(* What holds of the indexer of a tenant for any files, any number of      *)
(* events, any batch size and any number of disturbances, in split mode    *)
(* and with a sidecar that is shared with the searches of a server.        *)
(***************************************************************************)
EXTENDS DriveIndexer, TLAPS, FiniteSetTheorems, SequenceTheorems, WellFoundedInduction

\* The steps of both specifications.
Step == [Next \/ SearchCall]_vars

(***************************************************************************)
(* Sets of keys.                                                           *)
(***************************************************************************)

\* A non-empty set of numbers has a least element.
LEMMA LeastExists ==
  ASSUME NEW S \in SUBSET Nat, S # {}
  PROVE  \E x \in S : \A y \in S : x <= y
<1> DEFINE R == StrictSubsetOrdering(Nat)
           T == {0..x : x \in S}
<1>1. IsWellFoundedOn(R, FiniteSubsetsOf(Nat))
  BY FS_StrictSubsetOrderingWellFounded
<1>2. T \subseteq FiniteSubsetsOf(Nat) /\ T # {}
  <2>1. ASSUME NEW x \in S PROVE 0..x \in FiniteSubsetsOf(Nat)
    <3>1. x \in Nat /\ 0..x \in SUBSET Nat
      OBVIOUS
    <3>2. IsFiniteSet(0..x)
      BY <3>1, FS_Interval
    <3> QED  BY <3>1, <3>2 DEF FiniteSubsetsOf
  <2>2. T \subseteq FiniteSubsetsOf(Nat)
    BY <2>1
  <2>3. T # {}
    OBVIOUS
  <2> QED  BY <2>2, <2>3
<1>3. PICK t \in T : \A u \in T : <<u, t>> \notin R
  <2> HIDE DEF R, T
  <2> QED  BY <1>1, <1>2, WFMin
<1>4. PICK x \in S : t = 0..x
  BY <1>3
<1>5. ASSUME NEW y \in S, y < x PROVE FALSE
  <2>1. 0..y \in SUBSET Nat /\ 0..x \in SUBSET Nat /\ 0..y \subseteq 0..x
    BY <1>5
  <2>2. x \in 0..x /\ x \notin 0..y
    BY <1>5
  <2>3. <<0..y, 0..x>> \in R
    BY <2>1, <2>2 DEF StrictSubsetOrdering
  <2> QED  BY <1>3, <1>4, <2>3
<1> QED  BY <1>5

\* Newest is the largest key of a non-empty set.
LEMMA NewestIs ==
  ASSUME NEW S \in SUBSET Keys, S # {}
  PROVE  Newest(S) \in S /\ \A h \in S : h <= Newest(S)
<1>1. MaxKey \in Nat
  BY JournalAssumption
<1> DEFINE T == {MaxKey - k : k \in S}
<1>2. T \in SUBSET Nat /\ T # {}
  BY <1>1 DEF Keys
<1>3. PICK x \in T : \A y \in T : x <= y
  BY <1>2, LeastExists
<1>4. PICK m \in S : x = MaxKey - m
  BY <1>3
<1>5. \A h \in S : h <= m
  <2> TAKE h \in S
  <2>1. MaxKey - m <= MaxKey - h
    BY <1>3, <1>4
  <2> QED  BY <2>1, <1>1 DEF Keys
<1> QED  BY <1>5 DEF Newest

\* Oldest is the smallest key of a non-empty set.
LEMMA OldestIs ==
  ASSUME NEW S \in SUBSET Keys, S # {}
  PROVE  Oldest(S) \in S /\ \A h \in S : Oldest(S) <= h
<1>1. \E x \in S : \A y \in S : x <= y
  BY LeastExists DEF Keys
<1> QED  BY <1>1 DEF Oldest

\* What Newest may return.
LEMMA NewestType ==
  ASSUME NEW S \in SUBSET Keys
  PROVE  Newest(S) \in 0..MaxKey /\ (S = {} => Newest(S) = 0)
<1>1. MaxKey \in Nat
  BY JournalAssumption
<1>2. CASE S = {}
  BY <1>1, <1>2 DEF Newest
<1>3. CASE S # {}
  <2>1. Newest(S) \in Keys
    BY <1>3, NewestIs
  <2>2. Keys \subseteq 0..MaxKey
    BY <1>1 DEF Keys
  <2> QED  BY <1>3, <2>1, <2>2, Zenon
<1> QED  BY <1>2, <1>3, Zenon

(***************************************************************************)
(* The chain as a sequence of objects.                                     *)
(***************************************************************************)

\* The bucket holds checkpoints 1 to some number, each a set of keys.
IsChain(c) ==
    /\ c \in Seq({c[i] : i \in DOMAIN c})
    /\ \A i \in 1..Len(c) : c[i].leaves \in SUBSET Keys

\* A PUT of an existing or the next checkpoint changes that one only.
LEMMA PutIs ==
  ASSUME IsChain(chain), NEW n \in 1..(Len(chain) + 1), NEW cp, cp.leaves \in SUBSET Keys
  PROVE  LET p == PutCheckpoint(n, cp) IN
         /\ IsChain(p)
         /\ Len(p) = IF n <= Len(chain) THEN Len(chain) ELSE Len(chain) + 1
         /\ \A i \in 1..Len(p) : p[i] = IF i = n THEN cp ELSE chain[i]
<1> DEFINE S == {chain[i] : i \in DOMAIN chain} \cup {cp}
           p == PutCheckpoint(n, cp)
<1>1. chain \in Seq(S) /\ cp \in S
  BY SeqMonotonic DEF IsChain
<1>2. Len(chain) \in Nat /\ DOMAIN chain = 1..Len(chain)
  BY <1>1, LenProperties
<1> HIDE DEF S
<1>3. /\ p \in Seq(S)
      /\ Len(p) = IF n <= Len(chain) THEN Len(chain) ELSE Len(chain) + 1
      /\ \A i \in 1..Len(p) : p[i] = IF i = n THEN cp ELSE chain[i]
  <2>1. CASE n <= Len(chain)
    <3>1. p = [chain EXCEPT ![n] = cp] /\ n \in 1..Len(chain)
      BY <1>2, <2>1 DEF PutCheckpoint
    <3>2. p \in Seq(S) /\ Len(p) = Len(chain)
          /\ \A i \in 1..Len(chain) : p[i] = IF i = n THEN cp ELSE chain[i]
      BY <1>1, <3>1, ExceptSeq
    <3> QED  BY <2>1, <3>2
  <2>2. CASE ~(n <= Len(chain))
    <3>1. p = Append(chain, cp) /\ n = Len(chain) + 1
      BY <1>2, <2>2 DEF PutCheckpoint
    <3>2. p \in Seq(S) /\ Len(p) = Len(chain) + 1 /\ p[Len(p)] = cp
          /\ \A i \in 1..Len(chain) : p[i] = chain[i]
      BY <1>1, <3>1, AppendProperties
    <3> QED  BY <1>2, <3>1, <3>2
  <2> QED  BY <2>1, <2>2
<1>4. p \in Seq({p[i] : i \in DOMAIN p})
  BY <1>3, LenProperties, IsASeq
<1>5. \A i \in 1..Len(p) : p[i].leaves \in SUBSET Keys
  BY <1>2, <1>3 DEF IsChain
<1> QED  BY <1>3, <1>4, <1>5 DEF IsChain

(***************************************************************************)
(* Types.                                                                  *)
(***************************************************************************)
TypeInv == TypeOK /\ IsChain(chain) /\ head.n \in 0..Len(chain)

\* The newest of some keys, or 0, is a document of some state.
LEMMA DocOfType ==
  ASSUME NEW k \in 0..MaxKey
  PROVE  DocOf(journal, k) \in 0..MaxKey
BY JournalAssumption DEF DocOf

\* The sidecar's queue names files and documents.
LEMMA BufferedType ==
  ASSUME NEW ids \in SUBSET Files, NEW states \in DocMap
  PROVE  Buffered(ids, states) \in BufferType
<1> DEFINE d == [f \in Files |-> IF f \in ids THEN DocOf(journal, states[f]) ELSE 0]
<1>1. 0 \in 0..MaxKey
  BY JournalAssumption
<1>2. d \in DocMap
  <2>1. ASSUME NEW f \in Files PROVE d[f] \in 0..MaxKey
    <3>1. states[f] \in 0..MaxKey
      BY DEF DocMap
    <3>2. DocOf(journal, states[f]) \in 0..MaxKey
      BY <3>1, DocOfType
    <3> QED  BY <1>1, <3>2
  <2> QED  BY <2>1, Zenon DEF DocMap
<1> QED  BY <1>2 DEF Buffered, BufferType

LEMMA OverlaidType ==
  ASSUME NEW base, base.docs \in DocMap, base.text \in SUBSET Files,
         NEW b \in BufferType
  PROVE  /\ Overlaid(base, b).docs \in DocMap /\ Overlaid(base, b).text \in SUBSET Files
         /\ Overlaid(base, b) \in IndexType
<1>1. b.docs \in DocMap /\ b.text \in SUBSET Files
  BY DEF BufferType
<1>2. Overlaid(base, b).docs \in DocMap
  BY <1>1 DEF Overlaid, DocMap
<1>3. Overlaid(base, b).text \in SUBSET Files
  BY <1>1 DEF Overlaid
<1> QED  BY <1>2, <1>3 DEF Overlaid, IndexType

LEMMA QueuedType ==
  ASSUME TypeOK, NEW b \in BufferType
  PROVE  Queued(b) \in BufferType
<1>1. buffer \in BufferType
  BY DEF TypeOK
<1>2. Overlaid(buffer, b).docs \in DocMap /\ Overlaid(buffer, b).text \in SUBSET Files
  BY <1>1, OverlaidType DEF BufferType
<1> QED  BY <1>1, <1>2 DEF Queued, BufferType

LEMMA InitTypes ==
  /\ 0 \in 0..MaxKey
  /\ NoDocs \in DocMap
  /\ EmptyIndex \in IndexType /\ EmptyBuffer \in BufferType
  /\ FreshState \in StateType /\ NoState \in StateType
  /\ NoPointer \in PointerType
  /\ NoRun \in RunType /\ InLoop \in RunType
<1>1. 0 \in 0..MaxKey
  BY JournalAssumption
<1>2. NoDocs \in DocMap
  BY <1>1 DEF NoDocs, DocMap
<1>3. EmptyIndex \in IndexType /\ EmptyBuffer \in BufferType
  BY <1>2 DEF EmptyIndex, EmptyBuffer, IndexType, BufferType
<1>4. FreshState \in StateType /\ NoState \in StateType
  BY <1>1 DEF FreshState, NoState, StateType
<1>5. NoPointer \in PointerType
  BY <1>1, <1>2 DEF NoPointer, PointerType
<1>6. NoRun \in RunType /\ InLoop \in RunType
  BY <1>1, <1>2 DEF NoRun, InLoop, RunType
<1> QED  BY <1>1, <1>2, <1>3, <1>4, <1>5, <1>6

\* A listing is a set of keys, and so are the keys of a state.
LEMMA KeySets ==
  /\ \A key, max : ListAfter(journal, key, max) \in SUBSET Keys
  /\ \A key, until : ListRange(journal, key, until) \in SUBSET Keys
  /\ \A f : StateKeys(journal, f) \in SUBSET Keys
BY DEF ListAfter, ListRange, StateKeys, After, Landed

\* What a run that fails leaves of its locals.
LEMMA ErrorType ==
  ASSUME TypeOK, RunReturnsError
  PROVE  pc' \in {"idle", "exit"} /\ run' \in RunType
BY InitTypes DEF TypeOK, RunReturnsError, RunType

LEMMA LoadedHeadType ==
  ASSUME TypeInv
  PROVE  /\ LoadedHead.loaded = TRUE /\ LoadedHead.n \in Nat /\ LoadedHead.last \in 0..MaxKey
         /\ LoadedHead.n \in 0..Len(chain)
<1>1. CASE head.loaded
  BY <1>1, Zenon DEF LoadedHead, TypeInv, TypeOK
<1>2. Len(chain) \in Nat /\ (chain # <<>> => Len(chain) \in 1..Len(chain))
  BY EmptySeq DEF TypeInv, IsChain
<1>3. CASE ~head.loaded /\ chain = <<>>
  BY <1>2, <1>3, InitTypes DEF LoadedHead, NoHead
<1>4. CASE ~head.loaded /\ chain # <<>>
  <2>1. LastOf(chain[Len(chain)]) \in 0..MaxKey
    BY <1>2, <1>4, NewestType DEF TypeInv, IsChain, LastOf
  <2>2. LoadedHead = [loaded |-> TRUE, n |-> Len(chain), last |-> LastOf(chain[Len(chain)]),
                      sha |-> <<chain[Len(chain)]>>]
    BY <1>4 DEF LoadedHead
  <2> QED  BY <1>2, <2>1, <2>2
<1> QED  BY <1>1, <1>3, <1>4

\* Every step of the servers, the loop and the faults keeps the types.
LEMMA TypeStep ==
  ASSUME TypeInv, Step
  PROVE  TypeOK'
<1> USE DEF TypeInv
<1>1. CASE AppendEvent
  <2>1. PICK k \in Keys, e \in Event : Append1(k, e)
    BY <1>1 DEF AppendEvent
  <2>2. journal' \in [Keys -> Event \cup {NoEvent}]
    BY <2>1 DEF Append1, TypeOK
  <2> QED  BY <2>1, <2>2 DEF Append1, TypeOK, diskVars, processVars, sidecarVars
<1>2. CASE TextExtracted
  <2>1. textReady' \subseteq Files
    BY <1>2, IndexerAssumption DEF TextExtracted, TypeOK
  <2> QED  BY <1>2, <2>1 DEF TextExtracted, TypeOK, diskVars, processVars, sidecarVars
<1>3. CASE SidecarDies
  BY <1>3, InitTypes DEF SidecarDies, Disturb, TypeOK, bucketVars, diskVars, processVars
<1>4. CASE SearchCall
  BY <1>4 DEF SearchCall, TypeOK, bucketVars, diskVars, processVars
<1>5. CASE Exit
  <2>1. /\ state' \in StateType /\ metas' \in DocMap /\ unpublished' \in BOOLEAN
        /\ run' \in RunType /\ buffer' \in BufferType /\ disturbed' \in Nat
    BY <1>5, InitTypes DEF Exit, Gone, TypeOK
  <2>2. head'.loaded \in BOOLEAN /\ head'.n \in Nat /\ head'.last \in 0..MaxKey
    BY <1>5, InitTypes DEF Exit, Gone, NoHead
  <2> QED  BY <1>5, <2>1, <2>2 DEF Exit, Gone, TypeOK, bucketVars, diskVars
<1>6. CASE StartLocal
  <2>1. unpublished' \in BOOLEAN
    BY <1>6, IndexerAssumption DEF StartLocal
  <2> QED  BY <1>6, <2>1 DEF StartLocal, TypeOK, bucketVars, diskVars
<1>7. CASE StartAdopt
  <2>1. index' \in IndexType
    BY <1>7 DEF StartAdopt, TypeOK, PointerType, IndexType
  <2> QED  BY <1>7, <2>1 DEF StartAdopt, TypeOK, bucketVars, sidecarVars
<1>8. CASE AdoptState
  <2>1. state' \in StateType
    BY <1>8 DEF AdoptState, TypeOK, PointerType, StateType
  <2> QED  BY <1>8, <2>1 DEF AdoptState, TypeOK, bucketVars
<1>9. CASE StartRebuild
  <2>1. state' \in StateType
    BY <1>9, InitTypes DEF StartRebuild, TypeOK
  <2> QED  BY <1>9, <2>1, InitTypes DEF StartRebuild, TypeOK, bucketVars
<1>10. CASE RequestRebuild
  <2>1. disturbed' \in Nat
    BY <1>10 DEF RequestRebuild, Disturb, TypeOK
  <2> QED  BY <1>10, <2>1, InitTypes DEF RequestRebuild, TypeOK, bucketVars
<1>11. CASE RebuildLoad
  <2> DEFINE known == {f \in Files : metaSnap[f] # 0}
  <2>1. metas' \in DocMap
    BY <1>11 DEF RebuildLoad, TypeOK, DocMap
  <2>2. buffer' \in BufferType
    BY <1>11, BufferedType DEF RebuildLoad, TypeOK
  <2>3. {metaSnap[f] : f \in known} \in SUBSET Keys
    BY JournalAssumption DEF TypeOK, DocMap, Keys
  <2>4. Newest({metaSnap[f] : f \in known}) \in 0..MaxKey
    BY <2>3, NewestType
  <2>5. TextMissing(known, metaSnap) \in SUBSET Files
    BY DEF TextMissing
  <2>6. run' = [run EXCEPT !.hi = Newest({metaSnap[f] : f \in known}),
                           !.pending = TextMissing(known, metaSnap)]
    BY <1>11 DEF RebuildLoad
  <2>7. run' \in RunType
    BY <2>4, <2>5, <2>6 DEF TypeOK, RunType
  <2> QED  BY <1>11, <2>1, <2>2, <2>7 DEF RebuildLoad, TypeOK, bucketVars, diskVars
<1>12. Committed \in IndexType
  BY OverlaidType DEF TypeOK, Committed, IndexType
<1>13. CASE RebuildCommit
  BY <1>12, <1>13, InitTypes DEF RebuildCommit, TypeOK, bucketVars
<1>14. CASE RebuildSave
  <2>1. state' \in StateType
    BY <1>14 DEF RebuildSave, TypeOK, StateType, RunType
  <2>2. run' \in RunType
    BY <1>14, InitTypes DEF RebuildSave, TypeOK, RunType
  <2>3. unpublished' \in BOOLEAN
    BY <1>14, IndexerAssumption DEF RebuildSave
  <2> QED  BY <1>14, <2>1, <2>2, <2>3 DEF RebuildSave, TypeOK, bucketVars, sidecarVars
<1>15. CASE RebuildFails
  <2>1. disturbed' \in Nat /\ sidecar' \in {"up", "dead", "down"}
    <3>1. CASE ~CanCall /\ sidecar' = "down" /\ UNCHANGED disturbed
      BY <3>1 DEF TypeOK
    <3>2. CASE Disturb("rebuild failure") /\ UNCHANGED sidecar
      <4>1. disturbed' = disturbed + 1
        BY <3>2, Zenon DEF Disturb
      <4>2. sidecar' = sidecar
        BY <3>2, Zenon
      <4> QED  BY <4>1, <4>2 DEF TypeOK
    <3> QED  BY <1>15, <3>1, <3>2 DEF RebuildFails
  <2> QED  BY <1>15, <2>1, ErrorType DEF RebuildFails, TypeOK, bucketVars, diskVars
<1>16. CASE RunBegin
  <2> DEFINE entries == Entries
             changed == Touched(entries) \cup Rechecked(entries)
             states  == [f \in Files |-> IF f \in Touched(entries)
                                           THEN Newest(Of(f, entries)) ELSE metas[f]]
             waiting == {f \in state.pending :
                            f \in Touched(entries) \/ IsLive(journal, metas[f])}
  <2>1. entries \in SUBSET Keys /\ changed \in SUBSET Files
    BY KeySets DEF Entries, Touched, Rechecked, TypeOK, StateType
  <2>2. states \in DocMap
    <3>1. ASSUME NEW f \in Files PROVE states[f] \in 0..MaxKey
      <4>1. Newest(Of(f, entries)) \in 0..MaxKey
        BY <2>1, NewestType DEF Of
      <4>2. metas[f] \in 0..MaxKey
        BY DEF TypeOK, DocMap
      <4> QED  BY <4>1, <4>2
    <3> QED  BY <3>1, Zenon DEF DocMap
  <2>3. Buffered(changed, states) \in BufferType
    BY <2>1, <2>2, BufferedType
  <2>4. Queued(Buffered(changed, states)) \in BufferType
    BY <2>3, QueuedType
  <2>5. (IF entries = {} THEN state.last ELSE Newest(entries)) \in 0..MaxKey
    BY <2>1, NewestType DEF TypeOK, StateType
  <2>6. (waiting \ changed) \cup TextMissing(changed, states) \in SUBSET Files
    BY <2>1 DEF TypeOK, StateType, TextMissing
  <2>7. run' = [from      |-> state.last,
                entries   |-> entries,
                hi        |-> IF entries = {} THEN state.last ELSE Newest(entries),
                pending   |-> (waiting \ changed) \cup TextMissing(changed, states),
                todo      |-> changed,
                new       |-> states,
                committed |-> changed # {},
                live      |-> run.live]
    BY <1>16 DEF RunBegin
  <2>8. state.last \in 0..MaxKey /\ run.live \in BOOLEAN
    BY DEF TypeOK, StateType, RunType
  <2>9. \/ buffer' = buffer /\ sidecar' = sidecar
        \/ buffer' = Queued(Buffered(changed, states)) /\ sidecar' = "up"
    BY <1>16 DEF RunBegin, sidecarVars
  <2>10. pc' \in {"commit", "save", "chain"}
    BY <1>16 DEF RunBegin
  <2>11. /\ UNCHANGED <<bucketVars, diskVars, state, metas, unpublished, head, disturbed>>
    BY <1>16 DEF RunBegin
  <2> HIDE DEF entries, changed, states, waiting
  <2>12. run' \in RunType
    BY <2>1, <2>2, <2>5, <2>6, <2>7, <2>8 DEF RunType
  <2>13. buffer' \in BufferType /\ sidecar' \in {"up", "dead", "down"}
    BY <2>4, <2>9 DEF TypeOK
  <2> QED  BY <2>10, <2>11, <2>12, <2>13 DEF TypeOK, bucketVars, diskVars
<1>17. CASE RunCommit
  <2>1. unpublished' \in BOOLEAN
    BY <1>17, IndexerAssumption DEF RunCommit
  <2> QED  BY <1>12, <1>17, <2>1, InitTypes DEF RunCommit, TypeOK, bucketVars
<1>18. CASE RunSnapshot
  <2>1. PICK f \in run.todo : RunSnapshot!(f)
    BY <1>18 DEF RunSnapshot
  <2>2. f \in Files /\ run.new[f] \in 0..MaxKey
    BY DEF TypeOK, RunType, DocMap
  <2>3. metas' \in DocMap /\ metaSnap' \in DocMap
    BY <2>1, <2>2 DEF TypeOK, DocMap
  <2>4. pc' \in {"save", "snap", "idle", "exit"} /\ run' \in RunType /\ disturbed' \in Nat
    BY <2>1, ErrorType DEF TypeOK, RunType, Disturb
  <2> QED  BY <2>1, <2>3, <2>4 DEF TypeOK, diskVars, sidecarVars
<1>19. CASE RunSave
  <2>1. state' \in StateType
    BY <1>19 DEF RunSave, TypeOK, StateType, RunType
  <2>2. stateFile' \in StateType /\ unpublished' \in BOOLEAN
    BY <1>19, <2>1, IndexerAssumption DEF RunSave, TypeOK
  <2>3. pc' \in {"chain", "idle", "exit"} /\ run' \in RunType /\ disturbed' \in Nat
    BY <1>19, ErrorType DEF RunSave, Disturb, TypeOK
  <2> QED  BY <1>19, <2>1, <2>2, <2>3 DEF RunSave, TypeOK, bucketVars, sidecarVars
<1>20. CASE RunCheckpoint
  <2>1. head'.loaded \in BOOLEAN /\ head'.n \in Nat /\ head'.last \in 0..MaxKey
    <3>1. LoadedHead.loaded \in BOOLEAN /\ LoadedHead.n \in Nat /\ LoadedHead.last \in 0..MaxKey
      BY LoadedHeadType DEF TypeOK
    <3>2. ChainBatch(LoadedHead, run) \in SUBSET Keys
      BY KeySets DEF ChainBatch, TypeOK, RunType
    <3>3. Newest(ChainBatch(LoadedHead, run)) \in 0..MaxKey
      BY <3>2, NewestType
    <3>4. \/ head' = LoadedHead
          \/ \E x : head' = [loaded |-> TRUE, n |-> LoadedHead.n + 1,
                             last |-> Newest(ChainBatch(LoadedHead, run)), sha |-> x]
      BY <1>20 DEF RunCheckpoint
    <3>5. CASE head' = LoadedHead
      BY <3>1, <3>5, Zenon
    <3>6. ASSUME NEW x,
                 head' = [loaded |-> TRUE, n |-> LoadedHead.n + 1,
                          last |-> Newest(ChainBatch(LoadedHead, run)), sha |-> x]
          PROVE  head'.loaded \in BOOLEAN /\ head'.n \in Nat /\ head'.last \in 0..MaxKey
      <4> DEFINE n == LoadedHead.n + 1
                 last == Newest(ChainBatch(LoadedHead, run))
      <4>1. n \in Nat /\ last \in 0..MaxKey
        BY <3>1, <3>3
      <4>2. head' = [loaded |-> TRUE, n |-> n, last |-> last, sha |-> x]
        BY <3>6
      <4> HIDE DEF n, last
      <4> QED  BY <4>1, <4>2
    <3> QED  BY <3>4, <3>5, <3>6
  <2>2. pc' \in {"publish", "idle", "exit"} /\ run' \in RunType /\ disturbed' \in Nat
    BY <1>20, ErrorType DEF RunCheckpoint, Disturb, TypeOK
  <2> QED  BY <1>20, <2>1, <2>2 DEF RunCheckpoint, TypeOK, diskVars, sidecarVars
<1>21. CASE RunPublishNothing
  BY <1>21, InitTypes DEF RunPublishNothing, TypeOK, bucketVars, diskVars, sidecarVars
<1>22. CASE RunPublish
  <2>1. NextPointer \in PointerType
    BY DEF NextPointer, TypeOK, PointerType, StateType, IndexType
  <2>2. NextPointer.generation \in Int
    BY <2>1 DEF PointerType
  <2>3. state' \in StateType
    BY <1>22, <2>2 DEF RunPublish, TypeOK, StateType
  <2>4. pc' \in {"savegen", "idle", "exit"} /\ run' \in RunType /\ disturbed' \in Nat
    <3>1. \/ pc' = "savegen" /\ UNCHANGED <<run, disturbed>>
          \/ Disturb("failure") /\ RunReturnsError
      BY <1>22 DEF RunPublish
    <3> QED  BY <3>1, ErrorType DEF Disturb, TypeOK
  <2>5. pointer' \in PointerType /\ {pointerUsable', synced', unpublished'} \subseteq BOOLEAN
    BY <1>22, <2>1 DEF RunPublish, TypeOK
  <2>6. sidecar' \in {"up", "dead", "down"}
    BY <1>22 DEF RunPublish, TypeOK
  <2> QED  BY <1>22, <2>3, <2>4, <2>5, <2>6 DEF RunPublish, TypeOK
<1>23. CASE RunSaveGeneration
  <2>1. pc' \in {"idle", "exit"} /\ run' \in RunType /\ disturbed' \in Nat
    BY <1>23, ErrorType, InitTypes DEF RunSaveGeneration, Disturb, TypeOK
  <2>2. stateFile' \in StateType
    BY <1>23 DEF RunSaveGeneration, TypeOK
  <2> QED  BY <1>23, <2>1, <2>2 DEF RunSaveGeneration, TypeOK, bucketVars, sidecarVars
<1>24. CASE RunFails
  <2>1. disturbed' \in Nat /\ sidecar' \in {"up", "dead", "down"}
    <3>1. CASE sidecar' = "down" /\ UNCHANGED disturbed
      BY <3>1 DEF TypeOK
    <3>2. CASE Disturb("failure") /\ UNCHANGED sidecar
      BY <3>2 DEF Disturb, TypeOK
    <3> QED  BY <1>24, <3>1, <3>2 DEF RunFails
  <2> QED  BY <1>24, <2>1, ErrorType DEF RunFails, TypeOK, bucketVars, diskVars
<1>25. CASE SchemaUpgrade
  <2>1. disturbed' \in Nat
    BY <1>25 DEF SchemaUpgrade, Disturb, TypeOK
  <2> QED  BY <1>25, <2>1, InitTypes DEF SchemaUpgrade, TypeOK, processVars, sidecarVars
<1>26. CASE Crash
  <2>1. index' \in IndexType /\ stateFile' \in StateType /\ synced' \in BOOLEAN
    BY <1>26, InitTypes DEF Crash, TypeOK, diskVars
  <2>2. disturbed' \in Nat
    BY <1>26 DEF Crash, Disturb, TypeOK
  <2>3. /\ state' \in StateType /\ metas' \in DocMap /\ unpublished' \in BOOLEAN
        /\ run' \in RunType /\ buffer' \in BufferType
    BY <1>26, InitTypes DEF Crash, Gone
  <2>4. head'.loaded \in BOOLEAN /\ head'.n \in Nat /\ head'.last \in 0..MaxKey
    BY <1>26, InitTypes DEF Crash, Gone, NoHead
  <2> QED  BY <1>26, <2>1, <2>2, <2>3, <2>4 DEF Crash, Gone, TypeOK, bucketVars
<1>27. CASE UNCHANGED vars
  BY <1>27 DEF TypeOK, vars, bucketVars, diskVars, processVars, sidecarVars
<1> QED
  BY <1>1, <1>2, <1>3, <1>4, <1>5, <1>6, <1>7, <1>8, <1>9, <1>10, <1>11, <1>13, <1>14,
     <1>15, <1>16, <1>17, <1>18, <1>19, <1>20, <1>21, <1>22, <1>23, <1>24, <1>25, <1>26,
     <1>27 DEF Step, Next, Start, Rebuild, RunOnce

(***************************************************************************)
(* The audit chain.  The argument is about intervals: when journal objects *)
(* land in the order they were stamped the journal is 1..Top, a batch is   *)
(* an interval that starts after the cursor, and so every checkpoint is    *)
(* the interval between two ends.                                          *)
(***************************************************************************)
InOrder == ~ReorderedLanding

Top == Newest(Landed(journal))

\* The last key checkpoint n of c covers; the chain starts after 0.
EndOf(c, n) == IF n = 0 THEN 0 ELSE LastOf(c[n])

\* Each checkpoint covers what lies between the end before it and its own.
Linked(c) ==
    /\ \A n \in 1..Len(c) :
          /\ c[n].leaves = (EndOf(c, n - 1) + 1)..EndOf(c, n)
          /\ c[n].prev = IF n = 1 THEN Genesis ELSE <<c[n - 1]>>
    /\ \A i, j \in 0..Len(c) : i < j => EndOf(c, i) < EndOf(c, j)

\* A head names checkpoint n of the chain, which is the last one, or the one
\* before it when a PUT was stored and still reported as failed.
IsHead(h) ==
    /\ h.n \in {Len(chain), Len(chain) - 1}
    /\ h.last = EndOf(chain, h.n)
    /\ h.sha = IF h.n = 0 THEN Genesis ELSE <<chain[h.n]>>
    /\ pointer.last <= h.last

\* No cursor, and no file state, is past the end of the journal.
CursorsBelowTop ==
    /\ state.last <= Top /\ stateFile.last <= Top /\ pointer.last <= Top
    /\ run.hi <= Top /\ EndOf(chain, Len(chain)) <= Top
    /\ \A f \in Files : metas[f] <= Top /\ metaSnap[f] <= Top /\ run.new[f] <= Top

\* A run has listed the events right after its cursor, and publishes only what
\* its head covers.
RunIsInterval ==
    /\ pc \in {"commit", "snap", "save", "chain", "publish"} =>
          /\ run.from <= run.hi
          /\ run.entries = (run.from + 1)..run.hi
          /\ state.last = IF pc \in {"chain", "publish"} THEN run.hi ELSE run.from
    /\ pc = "publish" => head.loaded /\ state.last <= head.last

\* Without rebuilds of a live process, the cursor of a process that has a head
\* only grows, and covers a checkpoint the head does not know of.
HeadCatchesUp ==
    /\ pc \in {"down", "adopt", "rload", "rcommit", "rsave"} => ~head.loaded
    /\ head.loaded /\ head.n < Len(chain) => EndOf(chain, Len(chain)) <= state.last

ChainInv ==
    /\ Landed(journal) = 1..Top
    /\ Linked(chain)
    /\ EndOf(chain, Len(chain)) >= pointer.last
    /\ head.loaded => IsHead(head)
    /\ CursorsBelowTop
    /\ RunIsInterval
    /\ "rebuild" \notin Disturbances => HeadCatchesUp

\* A key that lands in order extends the journal by one.
LEMMA AppendIs ==
  ASSUME InOrder, TypeInv, Landed(journal) = 1..Top, AppendEvent
  PROVE  Landed(journal)' = 1..(Top') /\ Top' = Top + 1
<1>1. PICK k \in Keys, e \in Event : Append1(k, e)
  BY DEF AppendEvent
<1>2. Landed(journal) = 1..(k - 1) /\ k \in Nat \ {0} /\ k <= MaxKey /\ MaxKey \in Nat
  BY <1>1, JournalAssumption DEF Append1, InOrder, Keys
<1>9. Top \in Nat
  BY <1>2, NewestType DEF Top, Landed
<1>3. Top = k - 1
  <2>1. CASE k = 1
    BY <1>2, <2>1, NewestType DEF Top, Landed
  <2>2. CASE k # 1
    <3>1. Landed(journal) # {} /\ k - 1 \in Landed(journal) /\ Landed(journal) \in SUBSET Keys
      BY <1>2, <2>2 DEF Landed
    <3>2. Top \in 1..(k - 1) /\ k - 1 <= Top
      BY <1>2, <3>1, NewestIs DEF Top
    <3> QED  BY <1>2, <3>2
  <2> QED  BY <2>1, <2>2
<1>4. e # NoEvent
  BY DEF Event, FileEvent, AccessEvent, NoEvent
<1>5. Landed(journal') = 1..k
  <2>1. \A j \in Keys : journal'[j] = IF j = k THEN e ELSE journal[j]
    BY <1>1 DEF Append1, TypeInv, TypeOK
  <2>2. Landed(journal') = Landed(journal) \cup {k}
    BY <1>1, <1>4, <2>1 DEF Landed
  <2>3. (1..(k - 1)) \cup {k} = 1..k
    BY <1>2
  <2> QED  BY <1>2, <2>2, <2>3
<1>6. Newest(Landed(journal')) = k
  <2>1. Landed(journal') \in SUBSET Keys /\ k \in Landed(journal')
    <3>1. k \in 1..k
      BY <1>2
    <3> QED  BY <1>5, <3>1 DEF Landed
  <2>2. /\ Newest(Landed(journal')) \in Landed(journal')
        /\ \A h \in Landed(journal') : h <= Newest(Landed(journal'))
    BY <2>1, NewestIs
  <2>3. Newest(Landed(journal')) \in 1..k /\ k <= Newest(Landed(journal'))
    BY <1>5, <2>1, <2>2
  <2> QED  BY <1>2, <2>3
<1> QED  BY <1>2, <1>3, <1>5, <1>6 DEF Top

\* The newest key of an interval is its end.
LEMMA NewestOfInterval ==
  ASSUME NEW lo \in 1..MaxKey, NEW hi \in lo..MaxKey
  PROVE  Newest(lo..hi) = hi
<1>1. lo..hi \in SUBSET Keys /\ hi \in lo..hi
  BY JournalAssumption DEF Keys
<1>2. Newest(lo..hi) \in lo..hi /\ \A h \in lo..hi : h <= Newest(lo..hi)
  BY <1>1, NewestIs
<1>3. Newest(lo..hi) <= hi /\ hi <= Newest(lo..hi) /\ Newest(lo..hi) \in Int
  BY <1>1, <1>2
<1> QED  BY <1>1, <1>3

\* A listing of a journal without gaps is the interval after its start.
LEMMA ListIs ==
  ASSUME NEW j, NEW top \in 0..MaxKey, Landed(j) = 1..top,
         NEW key \in 0..MaxKey, key <= top, NEW max \in Nat \ {0}
  PROVE  \E hi \in key..top : ListAfter(j, key, max) = (key + 1)..hi
                              /\ (hi = key => key = top)
<1>1. MaxKey \in Nat /\ key \in Nat /\ top \in Nat
  BY JournalAssumption
<1>2. After(j, key) = (key + 1)..top
  BY <1>1 DEF After
<1>3. ASSUME NEW k \in (key + 1)..top
      PROVE  Cardinality({h \in After(j, key) : h <= k}) = k - key
  <2>1. {h \in After(j, key) : h <= k} = (key + 1)..k
    BY <1>1, <1>2
  <2>2. key + 1 \in Int /\ k \in Int /\ k >= key + 1
    BY <1>1
  <2>3. Cardinality((key + 1)..k) = k - (key + 1) + 1
    BY <2>2, FS_Interval
  <2>4. k - (key + 1) + 1 = k - key
    BY <1>1, <2>2
  <2> QED  BY <2>1, <2>3, <2>4, Zenon
<1>4. ListAfter(j, key, max) = {k \in (key + 1)..top : k - key <= max}
  BY <1>2, <1>3 DEF ListAfter
<1> DEFINE hi == IF top <= key + max THEN top ELSE key + max
<1>5. hi \in key..top /\ (hi = key => key = top)
  BY <1>1
<1>6. {k \in (key + 1)..top : k - key <= max} = (key + 1)..hi
  BY <1>1
<1> QED  BY <1>4, <1>5, <1>6

\* Ends are keys, or 0.
LEMMA EndType ==
  ASSUME NEW c, IsChain(c), NEW n \in 0..Len(c)
  PROVE  EndOf(c, n) \in 0..MaxKey /\ EndOf(c, n) \in Nat
<1>1. Len(c) \in Nat
  BY LenProperties DEF IsChain
<1>2. CASE n = 0
  BY <1>2, JournalAssumption DEF EndOf
<1>3. CASE n # 0
  <2>1. c[n].leaves \in SUBSET Keys
    BY <1>1, <1>3 DEF IsChain
  <2> QED  BY <1>3, <2>1, NewestType, JournalAssumption DEF EndOf, LastOf
<1> QED  BY <1>2, <1>3

\* The object that is PUT after checkpoint n, the last or the last but one,
\* makes a chain that ends with it.
LEMMA PutLinked ==
  ASSUME TypeInv, Linked(chain),
         NEW n \in 0..Len(chain), n >= Len(chain) - 1,
         NEW hi \in Keys, EndOf(chain, n) < hi,
         NEW cp, cp.leaves = (EndOf(chain, n) + 1)..hi,
         cp.prev = IF n = 0 THEN Genesis ELSE <<chain[n]>>
  PROVE  LET p == PutCheckpoint(n + 1, cp) IN
         /\ IsChain(p) /\ Linked(p) /\ Len(p) = n + 1
         /\ EndOf(p, n + 1) = hi
         /\ \A i \in 0..n : EndOf(p, i) = EndOf(chain, i)
         /\ \A i \in 1..n : p[i] = chain[i]
         /\ p[n + 1] = cp
<1> DEFINE p == PutCheckpoint(n + 1, cp)
<1>0. Len(chain) \in Nat /\ n \in Nat /\ MaxKey \in Nat /\ IsChain(chain)
  BY LenProperties, JournalAssumption DEF TypeInv, IsChain
<1>1. EndOf(chain, n) \in Nat /\ \A i \in 0..n : EndOf(chain, i) \in Nat
  BY <1>0, EndType
<1>2. cp.leaves \in SUBSET Keys /\ n + 1 \in 1..(Len(chain) + 1)
  BY <1>0, <1>1 DEF Keys
<1>3. /\ IsChain(p) /\ Len(p) = n + 1
      /\ \A i \in 1..Len(p) : p[i] = IF i = n + 1 THEN cp ELSE chain[i]
  <2>1. /\ IsChain(p)
        /\ Len(p) = IF n + 1 <= Len(chain) THEN Len(chain) ELSE Len(chain) + 1
        /\ \A i \in 1..Len(p) : p[i] = IF i = n + 1 THEN cp ELSE chain[i]
    <3>1. IsChain(chain) /\ n + 1 \in 1..(Len(chain) + 1) /\ cp.leaves \in SUBSET Keys
      BY <1>0, <1>2
    <3> QED  BY ONLY <3>1, PutIs
  <2> QED  BY <1>0, <2>1
<1> HIDE DEF p
<1>4. p[n + 1] = cp /\ \A i \in 1..n : p[i] = chain[i]
  BY <1>0, <1>3
<1>5. EndOf(p, n + 1) = hi
  <2>1. EndOf(p, n + 1) = Newest(cp.leaves)
    BY <1>0, <1>4 DEF EndOf, LastOf
  <2>2. EndOf(chain, n) + 1 \in 1..MaxKey /\ hi \in (EndOf(chain, n) + 1)..MaxKey
    BY <1>0, <1>1 DEF Keys
  <2> QED  BY <2>1, <2>2, NewestOfInterval
<1>6. \A i \in 0..n : EndOf(p, i) = EndOf(chain, i)
  BY <1>0, <1>4 DEF EndOf, LastOf
<1>7. ASSUME NEW i \in 1..Len(p)
      PROVE  /\ p[i].leaves = (EndOf(p, i - 1) + 1)..EndOf(p, i)
             /\ p[i].prev = IF i = 1 THEN Genesis ELSE <<p[i - 1]>>
  <2>1. CASE i = n + 1
    <3>1. i - 1 = n /\ n \in 0..n /\ (i = 1 <=> n = 0) /\ (n # 0 => n \in 1..n)
      BY <1>0, <2>1
    <3> QED  BY <1>4, <1>5, <1>6, <2>1, <3>1
  <2>2. CASE i # n + 1
    <3>1. i \in 1..n /\ i \in 0..n /\ i - 1 \in 0..n /\ i \in 1..Len(chain)
      BY <1>0, <1>3, <2>2
    <3>2. i # 1 => i - 1 \in 1..n
      BY <3>1
    <3>3. /\ chain[i].leaves = (EndOf(chain, i - 1) + 1)..EndOf(chain, i)
          /\ chain[i].prev = IF i = 1 THEN Genesis ELSE <<chain[i - 1]>>
      BY <3>1 DEF Linked
    <3> QED  BY <1>4, <1>6, <3>1, <3>2, <3>3
  <2> QED  BY <2>1, <2>2
<1>8. ASSUME NEW i \in 0..Len(p), NEW j \in 0..Len(p), i < j
      PROVE  EndOf(p, i) < EndOf(p, j)
  <2>1. i \in 0..n
    BY <1>0, <1>3, <1>8
  <2>2. i # n => EndOf(chain, i) < EndOf(chain, n)
    BY <1>0, <2>1 DEF Linked
  <2>3. CASE j = n + 1
    <3>1. EndOf(chain, i) <= EndOf(chain, n)
      BY <1>1, <2>1, <2>2
    <3>2. EndOf(p, i) = EndOf(chain, i) /\ EndOf(chain, i) \in Nat /\ hi \in Nat
      BY <1>0, <1>1, <1>6, <2>1 DEF Keys
    <3> QED  BY <1>1, <1>5, <2>3, <3>1, <3>2
  <2>4. CASE j # n + 1
    <3>1. j \in 0..n /\ i \in 0..Len(chain) /\ j \in 0..Len(chain)
      BY <1>0, <1>3, <2>1, <2>4
    <3>2. EndOf(chain, i) < EndOf(chain, j)
      BY <1>8, <3>1 DEF Linked
    <3> QED  BY <1>6, <2>1, <3>1, <3>2
  <2> QED  BY <2>3, <2>4
<1>9. Linked(p)
  BY <1>7, <1>8 DEF Linked
<1> QED  BY <1>3, <1>4, <1>5, <1>6, <1>9 DEF p

\* The head a run uses, kept or read from the bucket.
LEMMA LoadedHeadIs ==
  ASSUME TypeInv, ChainInv
  PROVE  /\ IsHead(LoadedHead) /\ LoadedHead.loaded = TRUE
         /\ LoadedHead.n \in 0..Len(chain) /\ LoadedHead.n >= Len(chain) - 1
         /\ LoadedHead.last \in Nat
         /\ LoadedHead.n < Len(chain) => head.loaded /\ head.n = LoadedHead.n
<1>0. Len(chain) \in Nat /\ (chain # <<>> => Len(chain) # 0) /\ (chain = <<>> => Len(chain) = 0)
  BY LenProperties, EmptySeq DEF TypeInv, IsChain
<1>1. IsHead(LoadedHead) /\ (LoadedHead.n < Len(chain) => head.loaded /\ head.n = LoadedHead.n)
  <2>1. CASE head.loaded
    BY <2>1 DEF LoadedHead, ChainInv
  <2>2. CASE ~head.loaded /\ chain = <<>>
    <3>1. LoadedHead.n = 0 /\ LoadedHead.last = 0 /\ LoadedHead.sha = Genesis
      BY <2>2 DEF LoadedHead, NoHead
    <3>2. EndOf(chain, 0) = 0
      BY DEF EndOf
    <3>3. pointer.last <= 0
      BY <1>0, <2>2, <3>2 DEF ChainInv, TypeInv, TypeOK, PointerType
    <3> QED  BY <1>0, <2>2, <3>1, <3>2, <3>3 DEF IsHead
  <2>3. CASE ~head.loaded /\ chain # <<>>
    <3>1. LoadedHead = [loaded |-> TRUE, n |-> Len(chain), last |-> LastOf(chain[Len(chain)]),
                        sha |-> <<chain[Len(chain)]>>]
      BY <2>3 DEF LoadedHead
    <3>2. EndOf(chain, Len(chain)) = LastOf(chain[Len(chain)])
      BY <1>0, <2>3 DEF EndOf
    <3>3. pointer.last <= EndOf(chain, Len(chain))
      BY <1>0, EndType DEF ChainInv, TypeInv, TypeOK, PointerType
    <3> QED  BY <1>0, <2>3, <3>1, <3>2, <3>3 DEF IsHead
  <2> QED  BY <2>1, <2>2, <2>3
<1>2. LoadedHead.n \in Nat /\ LoadedHead.last \in 0..MaxKey /\ LoadedHead.loaded = TRUE
  BY LoadedHeadType
<1>3. LoadedHead.n \in {Len(chain), Len(chain) - 1}
  BY <1>1 DEF IsHead
<1> QED  BY <1>0, <1>1, <1>2, <1>3, JournalAssumption

\* The numbers the steps compare.
LEMMA Numbers ==
  ASSUME TypeInv
  PROVE  /\ Top \in Nat /\ MaxKey \in Nat /\ Len(chain) \in Nat
         /\ EndOf(chain, Len(chain)) \in Nat
         /\ state.last \in Nat /\ stateFile.last \in Nat /\ pointer.last \in Nat
         /\ run.hi \in Nat /\ run.from \in Nat /\ head.last \in Nat /\ head.n \in Nat
         /\ \A f \in Files : metas[f] \in Nat /\ metaSnap[f] \in Nat /\ run.new[f] \in Nat
<1>1. Top \in Nat /\ MaxKey \in Nat
  BY JournalAssumption, NewestType DEF Top, Landed
<1>2. Len(chain) \in Nat /\ EndOf(chain, Len(chain)) \in Nat
  BY LenProperties, EndType DEF TypeInv, IsChain
<1>3. /\ state.last \in Nat /\ stateFile.last \in Nat /\ pointer.last \in Nat
      /\ run.hi \in Nat /\ run.from \in Nat /\ head.last \in Nat /\ head.n \in Nat
  BY <1>1 DEF TypeInv, TypeOK, StateType, PointerType, RunType
<1>4. \A f \in Files : metas[f] \in Nat /\ metaSnap[f] \in Nat /\ run.new[f] \in Nat
  BY <1>1 DEF TypeInv, TypeOK, DocMap, RunType
<1> QED  BY <1>1, <1>2, <1>3, <1>4

\* What the head and the run make of a checkpoint: all that lies between them.
LEMMA BatchIs ==
  ASSUME TypeInv, ChainInv, pc = "chain"
  PROVE  ChainBatch(LoadedHead, run) = (LoadedHead.last + 1)..run.hi
<1> DEFINE last == LoadedHead.last
<1>1. last \in Nat /\ run.from \in Nat /\ run.hi \in Nat /\ Top \in Nat /\ MaxKey \in Nat
  BY LoadedHeadIs, Numbers
<1>2. /\ run.from <= run.hi /\ run.entries = (run.from + 1)..run.hi /\ run.hi <= Top
      /\ Landed(journal) = 1..Top
  BY DEF ChainInv, RunIsInterval, CursorsBelowTop
<1> HIDE DEF last
<1>3. ListRange(journal, last, run.from) = (last + 1)..run.from
  BY <1>1, <1>2 DEF ListRange, After
<1>4. ChainBatch(LoadedHead, run)
        = (IF run.from > last THEN (last + 1)..run.from ELSE {})
            \cup {k \in (run.from + 1)..run.hi : k > last}
  BY <1>2, <1>3 DEF ChainBatch, last
<1>5. CASE run.from > last
  <2>1. {k \in (run.from + 1)..run.hi : k > last} = (run.from + 1)..run.hi
    BY <1>1, <1>5
  <2>2. ((last + 1)..run.from) \cup ((run.from + 1)..run.hi) = (last + 1)..run.hi
    BY <1>1, <1>2, <1>5
  <2> QED  BY <1>4, <1>5, <2>1, <2>2 DEF last
<1>6. CASE ~(run.from > last)
  <2>1. {k \in (run.from + 1)..run.hi : k > last} = (last + 1)..run.hi
    BY <1>1, <1>2, <1>6
  <2> QED  BY <1>4, <1>6, <2>1 DEF last
<1> QED  BY <1>5, <1>6

\* A step that leaves the journal, the chain and the pointer alone.
LEMMA Frame ==
  ASSUME TypeInv, ChainInv, UNCHANGED <<journal, chain, pointer>>,
         head' = head \/ head' = NoHead,
         state'.last <= Top, stateFile'.last <= Top, run'.hi <= Top,
         \A f \in Files : metas'[f] <= Top /\ metaSnap'[f] <= Top /\ run'.new[f] <= Top,
         RunIsInterval', "rebuild" \notin Disturbances => HeadCatchesUp'
  PROVE  ChainInv'
<1>1. Top' = Top /\ Landed(journal)' = Landed(journal)
  BY DEF Top, Landed
<1>2. Linked(chain)' /\ EndOf(chain, Len(chain))' = EndOf(chain, Len(chain))
  BY DEF ChainInv, Linked, EndOf, LastOf
<1>3. head'.loaded => IsHead(head)'
  <2>1. CASE head' = NoHead
    BY <2>1 DEF NoHead
  <2>2. CASE head' = head
    BY <2>2 DEF ChainInv, IsHead, EndOf, LastOf
  <2> QED  BY <2>1, <2>2
<1>4. CursorsBelowTop'
  BY <1>1, <1>2 DEF ChainInv, CursorsBelowTop
<1> QED  BY <1>1, <1>2, <1>3, <1>4 DEF ChainInv

\* A run that fails returns to the loop, or ends the process, with no locals.
LEMMA ErrorIs ==
  ASSUME RunReturnsError
  PROVE  /\ run'.hi = 0 /\ (\A f \in Files : run'.new[f] = 0)
         /\ pc' \in {"idle", "exit"}
BY DEF RunReturnsError, NoRun, NoDocs

LEMMA GoneIs ==
  ASSUME Gone
  PROVE  /\ head' = NoHead /\ state'.last = 0 /\ run'.hi = 0 /\ pc' = "down"
         /\ \A f \in Files : metas'[f] = 0 /\ run'.new[f] = 0
BY DEF Gone, FreshState, NoRun, NoDocs

\* The steps that keep the journal, the chain and the pointer.
LEMMA QuietChainStep ==
  ASSUME TypeInv, ChainInv, Step,
         ~AppendEvent, ~RunCheckpoint, ~RunPublish
  PROVE  ChainInv' /\ UNCHANGED chain
<1> DEFINE Below == /\ state'.last <= Top /\ stateFile'.last <= Top /\ run'.hi <= Top
                    /\ \A f \in Files : metas'[f] <= Top /\ metaSnap'[f] <= Top
                                        /\ run'.new[f] <= Top
           Same == UNCHANGED <<journal, chain, pointer>>
           Catches == "rebuild" \notin Disturbances => HeadCatchesUp'
           Heads == head' = head \/ head' = NoHead
<1>0. /\ Top \in Nat /\ MaxKey \in Nat /\ Len(chain) \in Nat
      /\ EndOf(chain, Len(chain)) \in Nat
      /\ state.last \in Nat /\ stateFile.last \in Nat /\ pointer.last \in Nat
      /\ run.hi \in Nat /\ run.from \in Nat /\ head.last \in Nat /\ head.n \in Nat
      /\ \A f \in Files : metas[f] \in Nat /\ metaSnap[f] \in Nat /\ run.new[f] \in Nat
  BY Numbers
<1>old. /\ state.last <= Top /\ stateFile.last <= Top /\ pointer.last <= Top /\ run.hi <= Top
        /\ \A f \in Files : metas[f] <= Top /\ metaSnap[f] <= Top /\ run.new[f] <= Top
  BY DEF ChainInv, CursorsBelowTop
<1>fresh. /\ FreshState.last = 0 /\ NoState.last = 0 /\ NoRun.hi = 0 /\ InLoop.hi = 0
          /\ \A f \in Files : NoDocs[f] = 0 /\ NoRun.new[f] = 0 /\ InLoop.new[f] = 0
          /\ NoHead.loaded = FALSE
  BY DEF FreshState, NoState, NoRun, InLoop, NoDocs, NoHead
<1>sameEnd. ASSUME Same PROVE EndOf(chain, Len(chain))' = EndOf(chain, Len(chain))
  BY <1>sameEnd DEF EndOf, LastOf
<1>frame. ASSUME Same, Heads, Below, RunIsInterval', Catches
          PROVE  ChainInv' /\ UNCHANGED chain
  BY <1>frame, Frame
<1>1. CASE UNCHANGED <<journal, chain, pointer, head, pc, state, stateFile, run, metas, metaSnap>>
  <2>1. Same /\ Heads /\ Below
    BY <1>1, <1>old
  <2>2. RunIsInterval'
    BY <1>1 DEF ChainInv, RunIsInterval
  <2>3. Catches
    BY <1>1 DEF ChainInv, HeadCatchesUp, EndOf, LastOf
  <2> QED  BY <1>frame, <2>1, <2>2, <2>3
<1>2. ASSUME TextExtracted \/ SidecarDies \/ SearchCall \/ UNCHANGED vars
      PROVE  UNCHANGED <<journal, chain, pointer, head, pc, state, stateFile, run, metas, metaSnap>>
  BY <1>2 DEF TextExtracted, SidecarDies, SearchCall, vars, bucketVars, diskVars,
     processVars, sidecarVars
<1>3. CASE Exit \/ Crash
  <2>1. /\ UNCHANGED bucketVars /\ Gone
        /\ stateFile' = stateFile \/ stateFile' = NoState
    BY <1>3 DEF Exit, Crash, diskVars
  <2>2. Same /\ Heads /\ Below
    BY <1>0, <1>old, <1>fresh, <2>1, GoneIs DEF bucketVars
  <2>3. RunIsInterval' /\ Catches
    BY <1>fresh, <2>1, GoneIs DEF RunIsInterval, HeadCatchesUp
  <2> QED  BY <1>frame, <2>2, <2>3
<1>4. CASE StartLocal
  <2>1. /\ UNCHANGED bucketVars /\ UNCHANGED <<stateFile, head, run>>
        /\ state' = stateFile /\ metas' = metaSnap /\ pc' = "begin" /\ pc = "down"
    BY <1>4 DEF StartLocal, diskVars
  <2>2. Same /\ Heads /\ Below
    BY <1>old, <2>1 DEF bucketVars
  <2>3. RunIsInterval' /\ Catches
    BY <2>1 DEF ChainInv, RunIsInterval, HeadCatchesUp
  <2> QED  BY <1>frame, <2>2, <2>3
<1>5. CASE StartAdopt
  <2>1. /\ UNCHANGED bucketVars /\ UNCHANGED <<stateFile, head, run, state, metas>>
        /\ pc' = "adopt" /\ pc = "down"
    BY <1>5 DEF StartAdopt
  <2>2. Same /\ Heads /\ Below
    BY <1>old, <2>1 DEF bucketVars
  <2>3. RunIsInterval' /\ Catches
    BY <2>1 DEF ChainInv, RunIsInterval, HeadCatchesUp
  <2> QED  BY <1>frame, <2>2, <2>3
<1>6. CASE AdoptState
  <2>1. /\ UNCHANGED bucketVars /\ UNCHANGED <<head, run>>
        /\ state'.last = pointer.last /\ stateFile' = state' /\ metas' = metaSnap
        /\ pc' = "begin" /\ pc = "adopt"
    BY <1>6 DEF AdoptState
  <2>2. Same /\ Heads /\ Below
    BY <1>old, <2>1 DEF bucketVars
  <2>3. RunIsInterval' /\ Catches
    BY <2>1 DEF ChainInv, RunIsInterval, HeadCatchesUp
  <2> QED  BY <1>frame, <2>2, <2>3
<1>7. CASE StartRebuild
  <2>1. /\ UNCHANGED bucketVars /\ UNCHANGED <<head, metas>>
        /\ state' \in {stateFile, FreshState} /\ stateFile' = NoState /\ run' = NoRun
        /\ pc' = "rload" /\ pc = "down"
    BY <1>7 DEF StartRebuild
  <2>2. Same /\ Heads /\ Below
    BY <1>0, <1>old, <1>fresh, <2>1 DEF bucketVars
  <2>3. RunIsInterval' /\ Catches
    BY <2>1 DEF ChainInv, RunIsInterval, HeadCatchesUp
  <2> QED  BY <1>frame, <2>2, <2>3
<1>8. CASE RequestRebuild
  <2>1. /\ UNCHANGED bucketVars /\ UNCHANGED <<head, metas, state, run>>
        /\ stateFile' = NoState /\ pc' = "rload" /\ "rebuild" \in Disturbances
    BY <1>8 DEF RequestRebuild, Disturb
  <2>2. Same /\ Heads /\ Below
    BY <1>0, <1>old, <1>fresh, <2>1 DEF bucketVars
  <2>3. RunIsInterval' /\ Catches
    BY <2>1 DEF RunIsInterval
  <2> QED  BY <1>frame, <2>2, <2>3
<1>9. CASE RebuildLoad
  <2> DEFINE known == {f \in Files : metaSnap[f] # 0}
             hi == Newest({metaSnap[f] : f \in known})
  <2>1. /\ UNCHANGED bucketVars /\ UNCHANGED <<stateFile, head, state>>
        /\ metas' = [f \in Files |-> IF f \in known THEN metaSnap[f] ELSE metas[f]]
        /\ run' = [run EXCEPT !.hi = hi, !.pending = TextMissing(known, metaSnap)]
        /\ pc' = "rcommit" /\ pc = "rload"
    BY <1>9 DEF RebuildLoad, diskVars
  <2>2. hi <= Top
    <3>1. {metaSnap[f] : f \in known} \in SUBSET Keys
      BY <1>0 DEF TypeInv, TypeOK, DocMap, Keys
    <3>2. CASE {metaSnap[f] : f \in known} = {}
      <4>1. Newest({}) = 0
        BY DEF Newest
      <4>2. hi = 0
        BY <3>2, <4>1, Zenon
      <4> HIDE DEF hi
      <4> QED  BY <1>0, <4>2
    <3>3. CASE {metaSnap[f] : f \in known} # {}
      <4>1. hi \in {metaSnap[f] : f \in known}
        BY <3>1, <3>3, NewestIs
      <4>2. \A k \in {metaSnap[f] : f \in known} : k <= Top
        BY <1>old
      <4> HIDE DEF hi
      <4> QED  BY <4>1, <4>2, Zenon
    <3> QED  BY <3>2, <3>3
  <2> HIDE DEF hi
  <2>3. run'.hi = hi /\ run'.new = run.new
    BY <2>1 DEF TypeInv, TypeOK, RunType
  <2>4. \A f \in Files : metas'[f] <= Top
    BY <1>old, <2>1
  <2>5. Same /\ Heads /\ Below
    BY <1>old, <2>1, <2>2, <2>3, <2>4 DEF bucketVars
  <2>6. RunIsInterval' /\ Catches
    BY <2>1 DEF ChainInv, RunIsInterval, HeadCatchesUp
  <2> QED  BY <1>frame, <2>5, <2>6
<1>10. CASE RebuildCommit
  <2>1. /\ UNCHANGED bucketVars /\ UNCHANGED <<stateFile, head, state, metas, run>>
        /\ pc' = "rsave" /\ pc = "rcommit"
    BY <1>10 DEF RebuildCommit
  <2>2. Same /\ Heads /\ Below
    BY <1>old, <2>1 DEF bucketVars
  <2>3. RunIsInterval' /\ Catches
    BY <2>1 DEF ChainInv, RunIsInterval, HeadCatchesUp
  <2> QED  BY <1>frame, <2>2, <2>3
<1>11. CASE RebuildSave
  <2>1. /\ UNCHANGED bucketVars /\ UNCHANGED <<head, metas>>
        /\ state' = [state EXCEPT !.last = run.hi, !.pending = run.pending]
        /\ stateFile' = state' /\ run' = [NoRun EXCEPT !.live = run.live]
        /\ pc' = "begin" /\ pc = "rsave"
    BY <1>11 DEF RebuildSave
  <2>2. state'.last = run.hi /\ run'.hi = 0 /\ run'.new = NoDocs
    BY <2>1 DEF TypeInv, TypeOK, StateType, NoRun
  <2>3. Same /\ Heads /\ Below
    BY <1>0, <1>old, <1>fresh, <2>1, <2>2 DEF bucketVars
  <2>4. RunIsInterval' /\ Catches
    BY <2>1 DEF ChainInv, RunIsInterval, HeadCatchesUp
  <2> QED  BY <1>frame, <2>3, <2>4
<1>12. CASE RebuildFails \/ RunFails
  <2>1. /\ UNCHANGED bucketVars /\ UNCHANGED <<stateFile, head, state, metas>>
        /\ RunReturnsError
    BY <1>12 DEF RebuildFails, RunFails, diskVars
  <2>2. Same /\ Heads /\ Below
    BY <1>0, <1>old, <2>1, ErrorIs DEF bucketVars
  <2>3. RunIsInterval'
    BY <2>1, ErrorIs DEF RunIsInterval
  <2>4. EndOf(chain, Len(chain))' = EndOf(chain, Len(chain)) /\ Len(chain)' = Len(chain)
    BY <1>sameEnd, <2>2
  <2>5. Catches
    BY <2>1, <2>4, ErrorIs DEF ChainInv, HeadCatchesUp
  <2> QED  BY <1>frame, <2>2, <2>3, <2>5
<1>13. CASE RunBegin
  <2> DEFINE entries == Entries
             states  == [f \in Files |-> IF f \in Touched(entries)
                                           THEN Newest(Of(f, entries)) ELSE metas[f]]
  <2>1. /\ UNCHANGED bucketVars /\ UNCHANGED <<stateFile, head, state, metas>>
        /\ pc' \in {"commit", "save", "chain"} /\ (pc' = "chain" => entries = {})
        /\ pc \in {"begin", "idle"}
    BY <1>13 DEF RunBegin, diskVars
  <2>2. run'.from = state.last /\ run'.entries = entries /\ run'.new = states
        /\ run'.hi = IF entries = {} THEN state.last ELSE Newest(entries)
    BY <1>13 DEF RunBegin
  <2>3. PICK hi \in state.last..Top : /\ entries = (state.last + 1)..hi
                                      /\ hi = state.last => state.last = Top
    <3>1. Top \in 0..MaxKey /\ state.last \in 0..MaxKey /\ Landed(journal) = 1..Top
      BY NewestType DEF Top, Landed, ChainInv, TypeInv, TypeOK, StateType
    <3>2. MaxEventsPerRun \in Nat \ {0}
      BY IndexerAssumption
    <3>3. \E hi \in state.last..Top :
             ListAfter(journal, state.last, MaxEventsPerRun) = (state.last + 1)..hi
             /\ (hi = state.last => state.last = Top)
      <4>1. state.last <= Top
        BY <1>old
      <4>2. \A j : \A top, key \in 0..MaxKey : \A max \in Nat \ {0} :
               Landed(j) = 1..top /\ key <= top =>
                 \E hi \in key..top : ListAfter(j, key, max) = (key + 1)..hi
                                      /\ (hi = key => key = top)
        BY ListIs
      <4>3. \A top, key \in 0..MaxKey : \A max \in Nat \ {0} :
               Landed(journal) = 1..top /\ key <= top =>
                 \E hi \in key..top : ListAfter(journal, key, max) = (key + 1)..hi
                                      /\ (hi = key => key = top)
        BY <4>2
      <4>4. \A key \in 0..MaxKey : \A max \in Nat \ {0} :
               key <= Top =>
                 \E hi \in key..Top : ListAfter(journal, key, max) = (key + 1)..hi
                                      /\ (hi = key => key = Top)
        BY <3>1, <4>3, Zenon
      <4> QED  BY <3>1, <3>2, <4>1, <4>4, Zenon

    <3> QED  BY <3>3 DEF Entries

  <2>4. entries \in SUBSET Keys
    BY KeySets DEF Entries
  <2>5. run'.hi = hi
    <3>1. CASE hi = state.last
      BY <1>0, <2>2, <2>3, <3>1
    <3>2. CASE hi # state.last
      <4>1. hi \in Nat /\ hi \in entries
        BY <1>0, <2>3, <3>2
      <4>2. state.last + 1 \in 1..MaxKey /\ hi \in (state.last + 1)..MaxKey
        <5>1. state.last \in Nat /\ state.last + 1 <= hi /\ hi \in 1..MaxKey
          <6>1. hi \in Keys
            BY <2>4, <4>1
          <6>2. state.last \in Nat /\ state.last # hi /\ state.last <= hi
            BY <1>0, <2>3, <3>2
          <6> HIDE DEF entries
          <6> QED  BY <4>1, <6>1, <6>2 DEF Keys
        <5>2. MaxKey \in Nat
          BY JournalAssumption
        <5> HIDE DEF entries
        <5> QED  BY <4>1, <5>1, <5>2
      <4>3. Newest(entries) = hi
        BY <2>3, <4>2, NewestOfInterval
      <4> QED  BY <2>2, <4>1, <4>3
    <3> QED  BY <3>1, <3>2
  <2>6. \A f \in Files : states[f] <= Top
    <3> TAKE f \in Files
    <3>1. CASE f \in Touched(entries)
      <4>1. Of(f, entries) # {} /\ Of(f, entries) \in SUBSET Keys /\ Of(f, entries) \subseteq entries
        BY <2>4, <3>1 DEF Touched, Of
      <4>2. Newest(Of(f, entries)) \in entries
        BY <4>1, NewestIs
      <4>3. \A k \in entries : k <= Top
        BY <1>0, <2>3
      <4> QED  BY <3>1, <4>2, <4>3
    <3>2. CASE f \notin Touched(entries)
      BY <1>old, <3>2
    <3> QED  BY <3>1, <3>2
  <2> HIDE DEF entries, states
  <2>7. Same /\ Heads /\ Below
    BY <1>0, <1>old, <2>1, <2>2, <2>3, <2>5, <2>6 DEF bucketVars
  <2>8. RunIsInterval'
    <3>1. run'.from <= run'.hi /\ run'.entries = (run'.from + 1)..run'.hi
      <4>1. run'.from = state.last /\ run'.entries = entries
        BY <2>2
      <4> QED  BY <1>0, <2>3, <2>5, <4>1
    <3>2. pc' = "chain" => state'.last = run'.hi
      BY <2>1, <2>2
    <3>3. state'.last = run'.from
      BY <2>1, <2>2
    <3> QED  BY <2>1, <3>1, <3>2, <3>3 DEF RunIsInterval
  <2>9. EndOf(chain, Len(chain))' = EndOf(chain, Len(chain)) /\ Len(chain)' = Len(chain)
    BY <1>sameEnd, <2>7
  <2>10. Catches
    BY <2>1, <2>9 DEF ChainInv, HeadCatchesUp
  <2> QED  BY <1>frame, <2>7, <2>8, <2>10
<1>14. CASE RunCommit
  <2>1. /\ UNCHANGED bucketVars /\ UNCHANGED <<stateFile, head, state, metas, run>>
        /\ pc' = "snap" /\ pc = "commit"
    BY <1>14 DEF RunCommit
  <2>2. Same /\ Heads /\ Below
    BY <1>old, <2>1 DEF bucketVars
  <2>3. EndOf(chain, Len(chain))' = EndOf(chain, Len(chain)) /\ Len(chain)' = Len(chain)
    BY <1>sameEnd, <2>2
  <2>4. RunIsInterval' /\ Catches
    BY <2>1, <2>3 DEF ChainInv, RunIsInterval, HeadCatchesUp
  <2> QED  BY <1>frame, <2>2, <2>4
<1>15. CASE RunSnapshot
  <2>1. PICK f \in run.todo : RunSnapshot!(f)
    BY <1>15 DEF RunSnapshot
  <2>2. f \in Files /\ run.new[f] <= Top
    BY <1>old DEF TypeInv, TypeOK, RunType
  <2>3. /\ UNCHANGED <<journal, chain, pointer, head, state, stateFile>> /\ pc = "snap"
        /\ metas' = [metas EXCEPT ![f] = run.new[f]]
        /\ metaSnap' \in {metaSnap, [metaSnap EXCEPT ![f] = run.new[f]]}
    BY <2>1 DEF diskVars
  <2>4. \A g \in Files : metas'[g] <= Top /\ metaSnap'[g] <= Top
    BY <1>old, <2>2, <2>3 DEF TypeInv, TypeOK, DocMap
  <2>5. \/ run' = [run EXCEPT !.todo = @ \ {f}] /\ pc' \in {"save", "snap"}
        \/ RunReturnsError
    BY <2>1
  <2>6. Same /\ Heads
    BY <2>3
  <2>7. EndOf(chain, Len(chain))' = EndOf(chain, Len(chain)) /\ Len(chain)' = Len(chain)
    BY <1>sameEnd, <2>6
  <2>8. CASE run' = [run EXCEPT !.todo = @ \ {f}] /\ pc' \in {"save", "snap"}
    <3>1. run'.hi = run.hi /\ run'.new = run.new /\ run'.from = run.from
          /\ run'.entries = run.entries
      BY <2>8 DEF TypeInv, TypeOK, RunType
    <3>2. Below
      BY <1>old, <2>3, <2>4, <3>1
    <3>3. RunIsInterval' /\ Catches
      BY <2>3, <2>7, <2>8, <3>1 DEF ChainInv, RunIsInterval, HeadCatchesUp
    <3> QED  BY <1>frame, <2>6, <3>2, <3>3
  <2>9. CASE RunReturnsError
    <3>1. Below
      BY <1>0, <1>old, <2>3, <2>4, <2>9, ErrorIs
    <3>2. RunIsInterval' /\ Catches
      BY <2>3, <2>7, <2>9, ErrorIs DEF ChainInv, RunIsInterval, HeadCatchesUp
    <3> QED  BY <1>frame, <2>6, <3>1, <3>2
  <2> QED  BY <2>5, <2>8, <2>9
<1>16. CASE RunSave
  <2>1. /\ UNCHANGED bucketVars /\ UNCHANGED <<head, metas>> /\ pc = "save"
        /\ state' = [state EXCEPT !.last = run.hi, !.pending = run.pending]
        /\ stateFile' \in {state', stateFile}
        /\ \/ pc' = "chain" /\ run' = run
           \/ RunReturnsError
    BY <1>16 DEF RunSave
  <2>2. state'.last = run.hi /\ state.last <= run.hi
    BY <2>1 DEF TypeInv, TypeOK, StateType, ChainInv, RunIsInterval
  <2>8. run'.hi <= Top /\ \A f \in Files : run'.new[f] <= Top
    BY <1>0, <1>old, <2>1, ErrorIs
  <2>9. state'.last <= Top /\ stateFile'.last <= Top
    BY <1>old, <2>1, <2>2
  <2>3. Same /\ Heads /\ Below
    BY <1>old, <2>1, <2>8, <2>9 DEF bucketVars
  <2>4. RunIsInterval'
    BY <2>1, <2>2, ErrorIs DEF ChainInv, RunIsInterval
  <2>5. EndOf(chain, Len(chain))' = EndOf(chain, Len(chain)) /\ Len(chain)' = Len(chain)
    BY <1>sameEnd, <2>3
  <2>6. pc' \in {"chain", "idle", "exit"}
    BY <2>1, ErrorIs
  <2>7. Catches
    <3> SUFFICES ASSUME "rebuild" \notin Disturbances PROVE HeadCatchesUp'
      OBVIOUS
    <3>1. head.loaded /\ head.n < Len(chain) => EndOf(chain, Len(chain)) <= state'.last
      BY <1>0, <2>2 DEF ChainInv, HeadCatchesUp
    <3> QED  BY <2>1, <2>5, <2>6, <3>1 DEF HeadCatchesUp
  <2> QED  BY <1>frame, <2>3, <2>4, <2>7
<1>17. CASE RunPublishNothing \/ RunSaveGeneration
  <2>1. /\ UNCHANGED bucketVars /\ UNCHANGED <<head, metas, state>>
        /\ stateFile' \in {state, stateFile}
        /\ (pc' = "idle" /\ run' = InLoop) \/ RunReturnsError
    BY <1>17 DEF RunPublishNothing, RunSaveGeneration, diskVars
  <2>2. pc' \in {"idle", "exit"} /\ run'.hi = 0 /\ \A f \in Files : run'.new[f] = 0
    BY <1>fresh, <2>1, ErrorIs
  <2>3. Same /\ Heads /\ Below
    BY <1>0, <1>old, <2>1, <2>2 DEF bucketVars
  <2>4. EndOf(chain, Len(chain))' = EndOf(chain, Len(chain)) /\ Len(chain)' = Len(chain)
    BY <1>sameEnd, <2>3
  <2>5. RunIsInterval' /\ Catches
    BY <2>1, <2>2, <2>4 DEF ChainInv, RunIsInterval, HeadCatchesUp
  <2> QED  BY <1>frame, <2>3, <2>5
<1>18. CASE SchemaUpgrade
  <2>1. /\ UNCHANGED <<journal, metaSnap, chain, pointer, head, state, metas, run, pc>>
        /\ stateFile' = NoState
    BY <1>18 DEF SchemaUpgrade, processVars
  <2>2. Same /\ Heads /\ Below
    BY <1>0, <1>old, <1>fresh, <2>1
  <2>3. EndOf(chain, Len(chain))' = EndOf(chain, Len(chain)) /\ Len(chain)' = Len(chain)
    BY <1>sameEnd, <2>2
  <2>4. RunIsInterval' /\ Catches
    BY <2>1, <2>3 DEF ChainInv, RunIsInterval, HeadCatchesUp
  <2> QED  BY <1>frame, <2>2, <2>4
<1> QED
  BY <1>1, <1>2, <1>3, <1>4, <1>5, <1>6, <1>7, <1>8, <1>9, <1>10, <1>11, <1>12, <1>13,
     <1>14, <1>15, <1>16, <1>17, <1>18 DEF Step, Next, Start, Rebuild, RunOnce

\* A server appends an event: every cursor stays below the end of the journal.
LEMMA AppendChainStep ==
  ASSUME InOrder, TypeInv, ChainInv, AppendEvent
  PROVE  ChainInv' /\ UNCHANGED chain
<1>0. /\ Top \in Nat /\ EndOf(chain, Len(chain)) \in Nat
      /\ state.last \in Nat /\ stateFile.last \in Nat /\ pointer.last \in Nat /\ run.hi \in Nat
      /\ \A f \in Files : metas[f] \in Nat /\ metaSnap[f] \in Nat /\ run.new[f] \in Nat
  BY Numbers
<1>1. Landed(journal)' = 1..(Top') /\ Top' = Top + 1
  BY AppendIs DEF ChainInv
<1>2. UNCHANGED <<metaSnap, chain, pointer, stateFile, pc, state, metas, head, run>>
  BY DEF AppendEvent, Append1, diskVars, processVars
<1>3. EndOf(chain, Len(chain))' = EndOf(chain, Len(chain)) /\ Len(chain)' = Len(chain)
  BY <1>2 DEF EndOf, LastOf
<1>4. CursorsBelowTop'
  <2>1. \A x \in Nat : x <= Top => x <= Top'
    BY <1>0, <1>1
  <2> QED  BY <1>0, <1>2, <1>3, <2>1 DEF ChainInv, CursorsBelowTop
<1>5. Linked(chain)' /\ (EndOf(chain, Len(chain)) >= pointer.last)'
  BY <1>2, <1>3 DEF ChainInv, Linked, EndOf, LastOf
<1>6. (head.loaded => IsHead(head))' /\ RunIsInterval'
  BY <1>2 DEF ChainInv, IsHead, EndOf, LastOf, RunIsInterval
<1>7. ("rebuild" \notin Disturbances => HeadCatchesUp)'
  BY <1>2, <1>3 DEF ChainInv, HeadCatchesUp
<1> QED  BY <1>1, <1>2, <1>4, <1>5, <1>6, <1>7 DEF ChainInv

\* The PUT of a checkpoint, answered, failed, or failed after it was stored.
LEMMA CheckpointStep ==
  ASSUME TypeInv, ChainInv, RunCheckpoint
  PROVE  /\ ChainInv' /\ IsChain(chain')
         /\ \/ UNCHANGED chain
            \/ \E n \in 0..Len(chain) : \E cp :
                 /\ n >= Len(chain) - 1 /\ chain' = PutCheckpoint(n + 1, cp)
                 /\ Len(chain') = n + 1 /\ chain'[n + 1] = cp
                 /\ \A i \in 1..n : chain'[i] = chain[i]
                 /\ cp.leaves = (EndOf(chain, n) + 1)..run.hi
                 /\ "rebuild" \notin Disturbances /\ n < Len(chain)
                      => EndOf(chain, Len(chain)) <= run.hi
<1> DEFINE h == LoadedHead
           n == h.n
           batch == ChainBatch(h, run)
           cp == [prev |-> h.sha, leaves |-> batch]
           p == PutCheckpoint(n + 1, cp)
<1>0. /\ Top \in Nat /\ MaxKey \in Nat /\ Len(chain) \in Nat
      /\ EndOf(chain, Len(chain)) \in Nat
      /\ state.last \in Nat /\ stateFile.last \in Nat /\ pointer.last \in Nat
      /\ run.hi \in Nat /\ run.from \in Nat
      /\ \A f \in Files : metas[f] \in Nat /\ metaSnap[f] \in Nat /\ run.new[f] \in Nat
  BY Numbers
<1>1. /\ h.last = EndOf(chain, n) /\ h.sha = (IF n = 0 THEN Genesis ELSE <<chain[n]>>)
      /\ pointer.last <= h.last
      /\ h.loaded = TRUE /\ n \in 0..Len(chain) /\ n >= Len(chain) - 1 /\ h.last \in Nat
      /\ n < Len(chain) => head.loaded /\ head.n = n
  BY LoadedHeadIs DEF IsHead
<1>2. pc = "chain" /\ UNCHANGED <<journal, metaSnap, pointer, stateFile, state, metas>>
  BY DEF RunCheckpoint, diskVars
<1>3. batch = (h.last + 1)..run.hi
  BY <1>2, BatchIs
<1>4. /\ run.from <= run.hi /\ run.entries = (run.from + 1)..run.hi
      /\ state.last = run.hi /\ run.hi <= Top
  BY <1>2 DEF ChainInv, RunIsInterval, CursorsBelowTop
<1>5. \/ /\ batch = {} /\ pc' = "publish" /\ head' = h /\ UNCHANGED <<chain, run>>
      \/ /\ batch # {} /\ chain' = p /\ pc' = "publish" /\ run' = run
         /\ head' = [loaded |-> TRUE, n |-> n + 1, last |-> Newest(batch), sha |-> <<cp>>]
      \/ /\ batch # {} /\ chain' \in {chain, p} /\ head' = h /\ RunReturnsError
  BY DEF RunCheckpoint
<1>6. Top' = Top /\ Landed(journal)' = Landed(journal)
  BY <1>2 DEF Top, Landed
<1>7. ASSUME batch # {}
      PROVE  /\ IsChain(p) /\ Linked(p) /\ Len(p) = n + 1
             /\ EndOf(p, n + 1) = run.hi /\ EndOf(p, n) = h.last
             /\ \A i \in 1..n : p[i] = chain[i]
             /\ p[n + 1] = cp
             /\ h.last < run.hi /\ Newest(batch) = run.hi
             /\ cp.leaves = (EndOf(chain, n) + 1)..run.hi
             /\ cp.prev = IF n = 0 THEN Genesis ELSE <<chain[n]>>
  <2>1. h.last < run.hi
    BY <1>0, <1>1, <1>3, <1>7
  <2>2. run.hi \in Keys /\ h.last + 1 \in 1..MaxKey /\ run.hi \in (h.last + 1)..MaxKey
    BY <1>0, <1>1, <2>1 DEF Keys, TypeInv, TypeOK, RunType
  <2>3. Newest(batch) = run.hi
    BY <1>3, <2>2, NewestOfInterval
  <2>4. /\ cp.leaves = (EndOf(chain, n) + 1)..run.hi
        /\ cp.prev = IF n = 0 THEN Genesis ELSE <<chain[n]>>
    BY <1>1, <1>3
  <2>5. EndOf(chain, n) < run.hi /\ Linked(chain)
    BY <1>1, <2>1 DEF ChainInv
  <2> HIDE DEF h, n, batch, cp
  <2>6. /\ IsChain(p) /\ Linked(p) /\ Len(p) = n + 1
        /\ EndOf(p, n + 1) = run.hi
        /\ \A i \in 0..n : EndOf(p, i) = EndOf(chain, i)
        /\ \A i \in 1..n : p[i] = chain[i]
        /\ p[n + 1] = cp
    BY <1>1, <2>2, <2>4, <2>5, PutLinked
  <2> HIDE DEF p
  <2>7. n \in 0..n
    BY <1>0, <1>1
  <2> QED  BY <1>1, <2>1, <2>3, <2>4, <2>6, <2>7
<1>8. ASSUME "rebuild" \notin Disturbances, n < Len(chain)
      PROVE  EndOf(chain, Len(chain)) <= run.hi
  BY <1>1, <1>4, <1>8 DEF ChainInv, HeadCatchesUp
<1> HIDE DEF p, cp, batch, n, h
<1>9. CASE batch = {} /\ pc' = "publish" /\ head' = h /\ UNCHANGED <<chain, run>>
  <2>1. run.hi <= h.last
    BY <1>0, <1>1, <1>3, <1>9
  <2>2. EndOf(chain, Len(chain))' = EndOf(chain, Len(chain)) /\ Linked(chain)'
    BY <1>9 DEF EndOf, LastOf, ChainInv, Linked
  <2>3. IsHead(head)'
    BY <1>1, <1>2, <1>9, LoadedHeadIs DEF IsHead, EndOf, LastOf, h
  <2>4. CursorsBelowTop'
    BY <1>2, <1>6, <1>9, <2>2 DEF ChainInv, CursorsBelowTop
  <2>5. RunIsInterval'
    BY <1>1, <1>2, <1>4, <1>9, <2>1 DEF RunIsInterval
  <2>6. ("rebuild" \notin Disturbances => HeadCatchesUp)'
    BY <1>1, <1>2, <1>4, <1>8, <1>9, <2>2 DEF HeadCatchesUp, n
  <2>7. (EndOf(chain, Len(chain)) >= pointer.last)'
    BY <1>2, <2>2 DEF ChainInv
  <2> QED  BY <1>6, <1>9, <2>2, <2>3, <2>4, <2>5, <2>6, <2>7 DEF ChainInv, TypeInv
<1>10. ASSUME batch # {}, chain' = p
       PROVE  /\ Linked(chain)' /\ EndOf(chain, Len(chain))' = run.hi /\ Len(chain') = n + 1
              /\ EndOf(chain', n) = h.last
              /\ (EndOf(chain, Len(chain)) >= pointer.last)'
              /\ IsChain(chain')
              /\ \E m \in 0..Len(chain) : \E c :
                 /\ m >= Len(chain) - 1 /\ chain' = PutCheckpoint(m + 1, c)
                 /\ Len(chain') = m + 1 /\ chain'[m + 1] = c
                 /\ \A i \in 1..m : chain'[i] = chain[i]
                 /\ c.leaves = (EndOf(chain, m) + 1)..run.hi
                 /\ "rebuild" \notin Disturbances /\ m < Len(chain)
                      => EndOf(chain, Len(chain)) <= run.hi
  <2>1. Linked(chain)' /\ EndOf(chain, Len(chain))' = run.hi /\ Len(chain') = n + 1
        /\ EndOf(chain', n) = h.last /\ IsChain(chain')
    <3>1. Linked(p) /\ IsChain(p) /\ Len(p) = n + 1 /\ EndOf(p, n + 1) = run.hi
          /\ EndOf(p, n) = h.last
      BY <1>7, <1>10
    <3> QED  BY <1>10, <3>1, Zenon
  <2>2. (EndOf(chain, Len(chain)) >= pointer.last)'
    BY <1>0, <1>1, <1>2, <1>7, <1>10, <2>1
  <2>3. n \in 0..Len(chain) /\ n >= Len(chain) - 1 /\ chain' = PutCheckpoint(n + 1, cp)
    BY <1>1, <1>10 DEF p
  <2>4. /\ chain'[n + 1] = cp
        /\ \A i \in 1..n : chain'[i] = chain[i]
        /\ cp.leaves = (EndOf(chain, n) + 1)..run.hi
    BY <1>7, <1>10
  <2> QED  BY <1>8, <2>1, <2>2, <2>3, <2>4, Zenon
<1>11. CASE /\ batch # {} /\ chain' = p /\ pc' = "publish" /\ run' = run
            /\ head' = [loaded |-> TRUE, n |-> n + 1, last |-> Newest(batch), sha |-> <<cp>>]
  <2>1. head'.loaded /\ head'.n = n + 1 /\ head'.last = run.hi /\ head'.sha = <<cp>>
    BY <1>7, <1>11
  <2>2. chain'[n + 1] = cp /\ n + 1 # 0
    BY <1>0, <1>1, <1>7, <1>11
  <2>3. IsHead(head)'
    <3>1. head'.n = Len(chain') /\ head'.last = EndOf(chain', head'.n)
      BY <1>10, <1>11, <2>1
    <3>2. head'.sha = IF head'.n = 0 THEN Genesis ELSE <<chain'[head'.n]>>
      BY <2>1, <2>2
    <3>3. pointer'.last <= head'.last
      BY <1>0, <1>1, <1>2, <1>7, <1>11, <2>1
    <3> QED  BY <3>1, <3>2, <3>3 DEF IsHead
  <2>4. CursorsBelowTop'
    BY <1>2, <1>4, <1>6, <1>10, <1>11 DEF ChainInv, CursorsBelowTop
  <2>5. RunIsInterval'
    BY <1>0, <1>2, <1>4, <1>11, <2>1 DEF RunIsInterval
  <2>6. ("rebuild" \notin Disturbances => HeadCatchesUp)'
    BY <1>0, <1>1, <1>2, <1>4, <1>10, <1>11, <2>1 DEF HeadCatchesUp
  <2> QED  BY <1>6, <1>10, <1>11, <2>3, <2>4, <2>5, <2>6 DEF ChainInv
<1>12. CASE batch # {} /\ chain' \in {chain, p} /\ head' = h /\ RunReturnsError
  <2>1. run'.hi = 0 /\ (\A f \in Files : run'.new[f] = 0) /\ pc' \in {"idle", "exit"}
    BY <1>12, ErrorIs
  <2>2. RunIsInterval'
    BY <2>1 DEF RunIsInterval
  <2>3. CASE chain' = chain
    <3>1. EndOf(chain, Len(chain))' = EndOf(chain, Len(chain)) /\ Linked(chain)'
          /\ Len(chain)' = Len(chain)
      BY <2>3 DEF EndOf, LastOf, ChainInv, Linked
    <3>2. IsHead(head)'
      BY <1>1, <1>2, <1>12, <2>3, LoadedHeadIs DEF IsHead, EndOf, LastOf, h
    <3>3. CursorsBelowTop'
      BY <1>0, <1>2, <1>6, <2>1, <3>1 DEF ChainInv, CursorsBelowTop
    <3>4. ("rebuild" \notin Disturbances => HeadCatchesUp)'
      BY <1>1, <1>2, <1>4, <1>8, <1>12, <2>1, <3>1 DEF HeadCatchesUp, n
    <3>5. (EndOf(chain, Len(chain)) >= pointer.last)'
      BY <1>2, <3>1 DEF ChainInv
    <3> QED  BY <1>6, <2>2, <2>3, <3>1, <3>2, <3>3, <3>4, <3>5 DEF ChainInv, TypeInv
  <2>4. CASE chain' = p
    <3>1. IsHead(head)'
      <4>1. head'.n = Len(chain') - 1 /\ head'.last = EndOf(chain', head'.n)
        BY <1>0, <1>1, <1>10, <1>12, <2>4 DEF n
      <4>2. head'.sha = IF head'.n = 0 THEN Genesis ELSE <<chain'[head'.n]>>
        <5>1. n # 0 => n \in 1..n
          BY <1>0, <1>1
        <5>2. n # 0 => chain'[n] = chain[n]
          BY <1>7, <1>12, <2>4, <5>1
        <5> QED  BY <1>1, <1>12, <5>2 DEF n
      <4>3. pointer'.last <= head'.last
        BY <1>1, <1>2, <1>12
      <4> QED  BY <4>1, <4>2, <4>3 DEF IsHead
    <3>2. CursorsBelowTop'
      BY <1>0, <1>2, <1>4, <1>6, <1>10, <1>12, <2>1, <2>4 DEF ChainInv, CursorsBelowTop
    <3>3. ("rebuild" \notin Disturbances => HeadCatchesUp)'
      <4>1. EndOf(chain, Len(chain))' <= state'.last
        BY <1>0, <1>2, <1>4, <1>10, <1>12, <2>4
      <4> QED  BY <2>1, <4>1 DEF HeadCatchesUp
    <3> QED  BY <1>6, <1>10, <1>12, <2>2, <2>4, <3>1, <3>2, <3>3 DEF ChainInv
  <2> QED  BY <1>12, <2>3, <2>4
<1> QED  BY <1>5, <1>9, <1>11, <1>12

\* The PUT of the pointer: what it says is folded is chained already.
LEMMA PublishStep ==
  ASSUME TypeInv, ChainInv, RunPublish
  PROVE  ChainInv' /\ UNCHANGED chain
<1>0. /\ Top \in Nat /\ Len(chain) \in Nat /\ EndOf(chain, Len(chain)) \in Nat
      /\ state.last \in Nat /\ pointer.last \in Nat /\ head.last \in Nat
  BY Numbers
<1>1. /\ pc = "publish" /\ UNCHANGED <<journal, metaSnap, chain, stateFile, metas, head>>
      /\ state'.last = state.last
      /\ pointer' = pointer \/ pointer' = NextPointer
      /\ \/ pc' = "savegen" /\ run' = run
         \/ RunReturnsError
  BY DEF RunPublish, TypeInv, TypeOK, StateType
<1>2. head.loaded /\ state.last <= head.last /\ IsHead(head)
  BY <1>1 DEF ChainInv, RunIsInterval
<1>3. head.last <= EndOf(chain, Len(chain))
  <2>1. head.n \in Nat
    BY DEF TypeInv, TypeOK
  <2>2. head.n # Len(chain) => EndOf(chain, head.n) < EndOf(chain, Len(chain))
    BY <1>0, <1>2, <2>1 DEF ChainInv, Linked, IsHead
  <2> QED  BY <1>0, <1>2, <2>2 DEF IsHead
<1>4. pointer'.last <= head.last /\ pointer'.last <= Top /\ pointer'.last \in Nat
  BY <1>0, <1>1, <1>2 DEF NextPointer, IsHead, ChainInv, CursorsBelowTop
<1>5. Top' = Top /\ Landed(journal)' = Landed(journal)
  BY <1>1 DEF Top, Landed
<1>6. /\ Linked(chain)' /\ EndOf(chain, Len(chain))' = EndOf(chain, Len(chain))
      /\ Len(chain)' = Len(chain)
  BY <1>1 DEF ChainInv, Linked, EndOf, LastOf
<1>7. IsHead(head)'
  BY <1>1, <1>2, <1>4 DEF IsHead, EndOf, LastOf
<1>8. /\ run'.hi <= Top /\ \A f \in Files : run'.new[f] <= Top
      /\ pc' \in {"savegen", "idle", "exit"}
  BY <1>0, <1>1, ErrorIs DEF ChainInv, CursorsBelowTop
<1>9. CursorsBelowTop'
  BY <1>1, <1>4, <1>5, <1>6, <1>8 DEF ChainInv, CursorsBelowTop
<1>10. RunIsInterval' /\ ("rebuild" \notin Disturbances => HeadCatchesUp)'
  BY <1>1, <1>6, <1>8 DEF ChainInv, RunIsInterval, HeadCatchesUp
<1>11. (EndOf(chain, Len(chain)) >= pointer.last)'
  BY <1>0, <1>3, <1>4, <1>6
<1> QED  BY <1>1, <1>5, <1>6, <1>7, <1>9, <1>10, <1>11 DEF ChainInv

(***************************************************************************)
(* The theorems about the types and the chain.                             *)
(***************************************************************************)
TypeAndChain == TypeInv /\ (InOrder => ChainInv)

LEMMA IndexerInit ==
  ASSUME Init
  PROVE  TypeAndChain
<1>1. TypeOK
  BY InitTypes DEF Init, TypeOK, NoHead
<1>2. chain = <<>> /\ Len(chain) = 0
  BY DEF Init
<1>3. IsChain(chain)
  BY <1>2, EmptySeq DEF IsChain
<1>4. Landed(journal) = {} /\ Top = 0
  BY DEF Init, Landed, Top, Newest
<1>5. EndOf(chain, 0) = 0 /\ Linked(chain)
  BY <1>2 DEF EndOf, Linked
<1>6. CursorsBelowTop
  BY <1>2, <1>4, <1>5 DEF Init, CursorsBelowTop, FreshState, NoState, NoPointer, NoRun, NoDocs
<1>7. RunIsInterval /\ HeadCatchesUp /\ ~head.loaded /\ pointer.last = 0 /\ head.n = 0
  BY DEF Init, RunIsInterval, HeadCatchesUp, NoHead, NoPointer
<1> QED  BY <1>1, <1>2, <1>3, <1>4, <1>5, <1>6, <1>7 DEF TypeAndChain, TypeInv, ChainInv

\* The chain stays a sequence of sets of keys, and the head one of its ends.
LEMMA TypeInvStep ==
  ASSUME TypeInv, Step
  PROVE  TypeInv'
<1>0. Len(chain) \in Nat
  BY LenProperties DEF TypeInv, IsChain
<1>1. CASE RunCheckpoint
  <2> DEFINE h == LoadedHead
             batch == ChainBatch(h, run)
             cp == [prev |-> h.sha, leaves |-> batch]
             p == PutCheckpoint(h.n + 1, cp)
  <2>1. \/ chain' = chain /\ head' = h
        \/ chain' = p /\ head' = h
        \/ chain' = p /\ head'.n = h.n + 1
    BY <1>1 DEF RunCheckpoint
  <2>2. cp.leaves \in SUBSET Keys
    BY KeySets DEF ChainBatch, TypeInv, TypeOK, RunType
  <2>3. h.n \in 0..Len(chain) /\ h.n + 1 \in 1..(Len(chain) + 1)
    BY <1>0, LoadedHeadType
  <2> HIDE DEF h, cp
  <2>4. IsChain(p) /\ Len(p) = IF h.n + 1 <= Len(chain) THEN Len(chain) ELSE Len(chain) + 1
    BY <2>2, <2>3, PutIs DEF TypeInv
  <2> HIDE DEF p
  <2>5. IsChain(chain')
    BY <2>1, <2>4 DEF TypeInv
  <2>6. head'.n \in 0..Len(chain')
    BY <1>0, <2>1, <2>3, <2>4
  <2> QED  BY <2>5, <2>6, TypeStep DEF TypeInv
<1>2. CASE ~RunCheckpoint
  <2>1. UNCHANGED chain /\ (head' = head \/ head' = NoHead)
    BY <1>2 DEF Step, Next, AppendEvent, Append1, TextExtracted, SidecarDies, SearchCall, Start,
       Exit, StartLocal, StartAdopt, AdoptState, StartRebuild, RequestRebuild, Rebuild,
       RebuildLoad, RebuildCommit, RebuildSave, RebuildFails, RunOnce, RunBegin, RunCommit,
       RunSnapshot, RunSave, RunPublishNothing, RunPublish, RunSaveGeneration, RunFails,
       SchemaUpgrade, Crash, Gone, vars, bucketVars, processVars
  <2>2. NoHead.n = 0
    BY DEF NoHead
  <2> QED  BY <1>0, <2>1, <2>2, TypeStep DEF TypeInv
<1> QED  BY <1>1, <1>2

\* Types need no order of the journal; the chain does.
LEMMA IndexerStep ==
  ASSUME TypeAndChain, Step
  PROVE  TypeAndChain'
<1>1. TypeInv'
  BY TypeInvStep DEF TypeAndChain
<1>2. ASSUME InOrder PROVE ChainInv'
  BY <1>2, AppendChainStep, CheckpointStep, PublishStep, QuietChainStep DEF TypeAndChain
<1> QED  BY <1>1, <1>2 DEF TypeAndChain

LEMMA TypeAndChainAlways ==
  (Spec => []TypeAndChain) /\ (AllInOneSpec => []TypeAndChain)
<1>1. Init => TypeAndChain
  BY IndexerInit
<1>2. TypeAndChain /\ [Next]_vars => TypeAndChain'
  BY IndexerStep DEF Step
<1>3. TypeAndChain /\ [Next \/ SearchCall]_vars => TypeAndChain'
  BY IndexerStep DEF Step
<1> QED  BY <1>1, <1>2, <1>3, PTL DEF Spec, AllInOneSpec

\* Every variable of the indexer stays in its range, whatever fails and
\* whether or not searches share the sidecar.
THEOREM TypesCorrect == (Spec => []TypeOK) /\ (AllInOneSpec => []TypeOK)
<1>1. TypeAndChain => TypeOK
  BY DEF TypeAndChain, TypeInv
<1> QED  BY <1>1, TypeAndChainAlways, PTL

\* A linked chain covers every event up to its end exactly once: a key lies in
\* the first checkpoint that does not end before it.
LEMMA LinkedIsExact ==
  ASSUME TypeInv, ChainInv
  PROVE  ChainExact
<1> DEFINE len == Len(chain)
<1>0. len \in Nat /\ Top \in Nat /\ IsChain(chain) /\ Linked(chain)
      /\ EndOf(chain, len) <= Top /\ Landed(journal) = 1..Top
  BY Numbers DEF TypeInv, ChainInv, CursorsBelowTop
<1>1. \A n \in 0..len : EndOf(chain, n) \in Nat
  BY EndType, <1>0
<1>2. EndOf(chain, 0) = 0
  BY DEF EndOf
<1>3. \A n \in 1..len : n \in 0..len /\ n - 1 \in 0..len /\ EndOf(chain, n - 1) < EndOf(chain, n)
  BY <1>0 DEF Linked
<1>4. \A n \in 1..len : /\ chain[n].leaves = (EndOf(chain, n - 1) + 1)..EndOf(chain, n)
                        /\ chain[n].prev = IF n = 1 THEN Genesis ELSE <<chain[n - 1]>>
                        /\ chain[n].leaves \in SUBSET Keys
  BY <1>0 DEF Linked, IsChain
<1>5. ChainEnd = EndOf(chain, len)
  <2>1. chain = <<>> <=> len = 0
    BY <1>0, EmptySeq DEF IsChain
  <2> QED  BY <2>1 DEF ChainEnd, EndOf
<1>6. ASSUME NEW n \in 1..len PROVE chain[n].leaves # {}
  <2>1. EndOf(chain, n - 1) \in Nat /\ EndOf(chain, n) \in Nat
    BY <1>1, <1>3
  <2>2. EndOf(chain, n - 1) < EndOf(chain, n)
    BY <1>3
  <2>3. EndOf(chain, n) \in (EndOf(chain, n - 1) + 1)..EndOf(chain, n)
    BY <2>1, <2>2
  <2> QED  BY <1>4, <2>3
<1>7. ASSUME NEW n \in 1..len, n > 1
      PROVE  LastOf(chain[n - 1]) < Oldest(chain[n].leaves)
  <2>1. LastOf(chain[n - 1]) = EndOf(chain, n - 1)
    BY <1>0, <1>7 DEF EndOf
  <2>2. Oldest(chain[n].leaves) \in chain[n].leaves
    BY <1>4, <1>6, OldestIs
  <2>3. Oldest(chain[n].leaves) \in (EndOf(chain, n - 1) + 1)..EndOf(chain, n)
    BY <1>4, <2>2
  <2>4. EndOf(chain, n - 1) \in Nat
    BY <1>1, <1>3
  <2> QED  BY <2>1, <2>3, <2>4
<1>8. ListRange(journal, 0, ChainEnd) = 1..EndOf(chain, len)
  <2>1. EndOf(chain, len) \in Nat
    BY <1>0, <1>1
  <2> QED  BY <1>0, <1>5, <2>1 DEF ListRange, After
<1>9. ASSUME NEW k \in UNION {chain[n].leaves : n \in 1..len}
      PROVE  k \in 1..EndOf(chain, len)
  <2>1. PICK n \in 1..len : k \in chain[n].leaves
    BY <1>9
  <2>2. k \in (EndOf(chain, n - 1) + 1)..EndOf(chain, n)
    BY <1>4, <2>1
  <2>3. EndOf(chain, n) = EndOf(chain, len) \/ EndOf(chain, n) < EndOf(chain, len)
    <3>1. n = len \/ n < len
      BY <1>0
    <3> QED  BY <1>0, <1>3, <3>1 DEF Linked
  <2>4. EndOf(chain, n) \in Nat /\ EndOf(chain, n - 1) \in Nat /\ EndOf(chain, len) \in Nat
    BY <1>0, <1>1, <1>3
  <2> QED  BY <2>2, <2>3, <2>4
<1>10. ASSUME NEW k \in 1..EndOf(chain, len)
       PROVE  k \in UNION {chain[n].leaves : n \in 1..len}
  <2> DEFINE S == {n \in 0..len : k <= EndOf(chain, n)}
  <2>1. EndOf(chain, len) \in Nat /\ k \in Nat /\ k >= 1
    BY <1>0, <1>1
  <2>2. S \in SUBSET Nat /\ len \in S
    BY <1>0, <2>1
  <2>3. PICK n \in S : \A m \in S : n <= m
    <3> HIDE DEF S
    <3> QED  BY <2>2, LeastExists
  <2>4. n # 0
    BY <1>2, <2>1
  <2>5. n \in 1..len /\ n - 1 \in 0..len /\ n - 1 \notin S
    BY <1>0, <2>3, <2>4
  <2>6. EndOf(chain, n - 1) < k /\ k <= EndOf(chain, n)
    BY <1>1, <2>1, <2>5
  <2>7. EndOf(chain, n) \in Nat /\ EndOf(chain, n - 1) \in Nat
    BY <1>1, <2>5
  <2>8. k \in chain[n].leaves
    <3>1. k \in (EndOf(chain, n - 1) + 1)..EndOf(chain, n)
      BY <2>1, <2>6, <2>7
    <3>2. chain[n].leaves = (EndOf(chain, n - 1) + 1)..EndOf(chain, n)
      BY <1>4, <2>5
    <3> QED  BY <3>1, <3>2, Zenon
  <2> QED  BY <2>5, <2>8
<1>11. UNION {chain[n].leaves : n \in 1..len} = ListRange(journal, 0, ChainEnd)
  BY <1>8, <1>9, <1>10
<1> QED  BY <1>4, <1>6, <1>7, <1>11 DEF ChainExact

\* When events land in the order they were stamped, the checkpoints cover every
\* event up to the end of the chain exactly once, in order, each linked to the
\* one before it, over every crash, failed call, repeated PUT and rebuild.
THEOREM ChainAlwaysExact ==
  ASSUME InOrder
  PROVE  (Spec => []ChainExact) /\ (AllInOneSpec => []ChainExact)
<1>1. TypeAndChain => ChainExact
  BY LinkedIsExact DEF TypeAndChain
<1> QED  BY <1>1, TypeAndChainAlways, PTL

\* The pointer of such a state is not past the end of the chain.
LEMMA ChainedIsPublished ==
  ASSUME InOrder, TypeAndChain
  PROVE  PublishedIsChained
<1>1. TypeInv /\ ChainInv
  BY DEF TypeAndChain
<1>2. chain = <<>> <=> Len(chain) = 0
  BY <1>1, EmptySeq DEF TypeInv, IsChain
<1>3. ChainEnd = EndOf(chain, Len(chain))
  BY <1>2 DEF ChainEnd, EndOf
<1>4. EndOf(chain, Len(chain)) >= pointer.last /\ EndOf(chain, Len(chain)) \in Nat
      /\ pointer.last \in Nat
  BY <1>1, Numbers DEF ChainInv
<1> QED  BY <1>3, <1>4 DEF PublishedIsChained

\* And no pointer in the bucket is past the end of the chain.
THEOREM PublicationsAreChained ==
  ASSUME InOrder
  PROVE  (Spec => []PublishedIsChained) /\ (AllInOneSpec => []PublishedIsChained)
<1>1. TypeAndChain => PublishedIsChained
  BY ChainedIsPublished
<1> QED  BY <1>1, TypeAndChainAlways, PTL

\* A step of the indexer keeps every stored leaf where it is, as long as no
\* rebuild throws the cursor of a live process back.
LEMMA GrowStep ==
  ASSUME InOrder, "rebuild" \notin Disturbances, TypeInv, ChainInv, Step
  PROVE  /\ Len(chain') >= Len(chain)
         /\ \A n \in 1..Len(chain) :
               /\ chain[n].leaves \subseteq chain'[n].leaves
               /\ n < Len(chain) => chain'[n] = chain[n]
<1>0. Len(chain) \in Nat /\ EndOf(chain, Len(chain)) \in Nat /\ run.hi \in Nat
  BY Numbers
<1>1. CASE UNCHANGED chain
  BY <1>0, <1>1
<1>2. ASSUME NEW m \in 0..Len(chain), NEW cp,
             m >= Len(chain) - 1,
             Len(chain') = m + 1, chain'[m + 1] = cp,
             \A i \in 1..m : chain'[i] = chain[i],
             cp.leaves = (EndOf(chain, m) + 1)..run.hi,
             m < Len(chain) => EndOf(chain, Len(chain)) <= run.hi
      PROVE  /\ Len(chain') >= Len(chain)
             /\ \A n \in 1..Len(chain) :
                   /\ chain[n].leaves \subseteq chain'[n].leaves
                   /\ n < Len(chain) => chain'[n] = chain[n]
  <2>1. Len(chain') >= Len(chain)
    BY <1>0, <1>2
  <2>2. ASSUME NEW n \in 1..Len(chain)
        PROVE  /\ chain[n].leaves \subseteq chain'[n].leaves
               /\ n < Len(chain) => chain'[n] = chain[n]
    <3>1. CASE n <= m
      <4>1. n \in 1..m
        BY <1>0, <3>1
      <4> QED  BY <1>2, <4>1
    <3>2. CASE ~(n <= m)
      <4>1. n = m + 1 /\ n = Len(chain) /\ n - 1 = m
        BY <1>0, <1>2, <3>2
      <4>2. chain[n].leaves = (EndOf(chain, m) + 1)..EndOf(chain, Len(chain))
        BY <4>1 DEF ChainInv, Linked
      <4>3. EndOf(chain, m) \in Nat
        BY EndType DEF TypeInv
      <4>4. EndOf(chain, Len(chain)) <= run.hi
        BY <1>0, <1>2, <4>1
      <4>5. chain[n].leaves \subseteq cp.leaves
        BY <1>0, <1>2, <4>2, <4>3, <4>4
      <4>6. chain'[n] = cp /\ ~(n < Len(chain))
        BY <1>0, <1>2, <4>1
      <4> QED  BY <4>5, <4>6, Zenon
    <3> QED  BY <3>1, <3>2

  <2> QED  BY <2>1, <2>2
<1>3. CASE RunCheckpoint
  <2>1. \/ UNCHANGED chain
        \/ \E n \in 0..Len(chain) : \E cp :
             /\ n >= Len(chain) - 1
             /\ Len(chain') = n + 1 /\ chain'[n + 1] = cp
             /\ \A i \in 1..n : chain'[i] = chain[i]
             /\ cp.leaves = (EndOf(chain, n) + 1)..run.hi
             /\ n < Len(chain) => EndOf(chain, Len(chain)) <= run.hi
    BY <1>3, CheckpointStep
  <2> QED  BY <1>1, <1>2, <2>1
<1> QED  BY <1>1, <1>3, AppendChainStep, PublishStep, QuietChainStep

\* A stored checkpoint only grows, as long as no rebuild is asked of a live
\* process: a PUT that is repeated after a failure covers at least what the
\* first one did, and no checkpoint is dropped or changed once another follows.
THEOREM StoredChainGrows ==
  ASSUME InOrder, "rebuild" \notin Disturbances
  PROVE  (Spec => ChainGrows) /\ (AllInOneSpec => ChainGrows)
<1> DEFINE Grows == /\ Len(chain') >= Len(chain)
                    /\ \A n \in 1..Len(chain) :
                          /\ chain[n].leaves \subseteq chain'[n].leaves
                          /\ n < Len(chain) => chain'[n] = chain[n]
<1>1. TypeAndChain /\ [Next]_vars => [Grows]_chain
  BY GrowStep DEF Step, TypeAndChain
<1>2. TypeAndChain /\ [Next \/ SearchCall]_vars => [Grows]_chain
  BY GrowStep DEF Step, TypeAndChain
<1>3. (Spec => [][Grows]_chain) /\ (AllInOneSpec => [][Grows]_chain)
  <2> HIDE DEF Grows
  <2> QED  BY <1>1, <1>2, TypeAndChainAlways, PTL DEF Spec, AllInOneSpec
<1> QED  BY <1>3 DEF ChainGrows


-----------------------------------------------------------------------------
(***************************************************************************)
(* What the published index holds: the indexer, with all its caches, local *)
(* files, failures and restarts, implements PublishedIndex, and its cursor *)
(* never runs ahead of its index, of the copies of the file states, or of  *)
(* the list of files that wait for their text.                             *)
(*                                                                         *)
(* Three things are assumed, each of which TLC shows to be needed: journal *)
(* objects land in the order they were stamped, a reindex that is asked of *)
(* a live process does not fail half-way, and a rebuild finds snapshots    *)
(* that no crash has left half-written.                                    *)
(***************************************************************************)

\* A reindex of a live process ends, or never begins.
RebuildsEnd ==
    "rebuild" \in Disturbances => Disturbances \cap {"death", "rebuild failure"} = {}

\* A rebuild finds snapshots written in full: no file misses a state at or
\* before the newest snapshot, which is the cursor the rebuild will set.
SnapshotsWhole ==
    pc = "rload" =>
        LET hi == Newest({metaSnap[f] : f \in {g \in Files : metaSnap[g] # 0}}) IN
        \A f \in Files : StateAt(journal, f, hi) <= metaSnap[f]

(***************************************************************************)
(* What a cursor, a copy of the file states and an index have to do with   *)
(* each other in a journal j, file by file and in terms of keys only.      *)
(***************************************************************************)

\* Every state of a file up to `key` is at or before the one `copy` has.
Seen(j, key, copy) ==
    \A f \in Files : \A k \in StateKeys(j, f) : k <= key => k <= copy[f]

\* There is no file event after `from` and at or before `to`.
NoStateBetween(j, from, to) ==
    \A f \in Files : \A k \in StateKeys(j, f) : k <= to => k <= from

\* A copy of the file states has for each file one of its events, or none.
HasStates(j, copy) == \A f \in Files : copy[f] \in StateKeys(j, f) \cup {0}

\* The documents of every file come from its state at `key` or a later one.
CoversIn(j, docs, key) == \A f \in Files : docs[f] \in DocsSince(j, f, key)

\* The same of the documents a sidecar has queued.
QueueCovers(j, b, key) == \A f \in b.ids : b.docs[f] \in DocsSince(j, f, key)

(***************************************************************************)
(* The inductive invariant.                                                *)
(***************************************************************************)

\* The pointer is good to adopt, with the snapshots there are.
PointerCovers ==
    /\ HasStates(journal, metas) /\ HasStates(journal, metaSnap)
    /\ CoversIn(journal, pointer.docs, pointer.last) /\ Seen(journal, pointer.last, metaSnap)
    /\ stateFile.generation <= pointer.generation
    /\ state.generation <= pointer.generation
    /\ unpublished => Snapshot
    /\ pc = "adopt" => MustAdopt /\ index.docs = pointer.docs

\* The directory is good to start from, unless the pointer is adopted.
DirectoryCovers ==
    LocalOK /\ ~MustAdopt =>
        /\ CoversIn(journal, index.docs, stateFile.last)
        /\ Seen(journal, stateFile.last, metaSnap)
        /\ NoStateBetween(journal, stateFile.last, pointer.last)

\* A process that folds has the effect of everything up to its cursor.
ProcessCovers ==
    /\ Folding =>
          /\ CoversIn(journal, index.docs, state.last)
          /\ Seen(journal, state.last, metas) /\ Seen(journal, state.last, metaSnap)
          /\ LocalOK => stateFile.last <= state.last
    /\ Folding /\ pc # "exit" =>
          /\ NoStateBetween(journal, state.last, pointer.last)
          /\ QueueCovers(journal, buffer, state.last)
    /\ pc \in {"down", "adopt", "rsave"} => buffer.ids = {}
    /\ pc = "idle" => run.live

\* A rebuild makes an index for the cursor it ends with; one at start may fail
\* and leaves nothing, under a cursor with nothing before it.
RebuildCovers ==
    /\ pc \in {"rload", "rcommit", "rsave"} =>
          /\ stateFile = NoState
          /\ run.live => "rebuild" \in Disturbances
    /\ pc \in {"rload", "rcommit"} =>
          /\ index.docs = NoDocs
          /\ ~run.live => NoStateBetween(journal, 0, state.last)
    /\ pc \in {"rcommit", "rsave"} =>
          /\ Seen(journal, run.hi, metas) /\ Seen(journal, run.hi, metaSnap)
          /\ NoStateBetween(journal, run.hi, pointer.last)
    /\ pc = "rcommit" /\ CanCall => CoversIn(journal, Overlaid(index, buffer).docs, run.hi)
    /\ pc = "rsave" => CoversIn(journal, index.docs, run.hi)

\* Every file whose snapshot the run has written, or need not write, is seen.
RunSeen(j, r, m, s) ==
    \A f \in Files \ r.todo : \A k \in StateKeys(j, f) :
        k <= r.hi => k <= m[f] /\ k <= s[f]

\* What a run has in hand covers the cursor it will set.
RunCovers ==
    /\ pc = "commit" /\ CanCall => CoversIn(journal, Overlaid(index, buffer).docs, run.hi)
    /\ pc \in {"snap", "save"} => /\ CoversIn(journal, index.docs, run.hi)
                                  /\ QueueCovers(journal, buffer, run.hi)
    /\ pc \in {"commit", "snap", "save"} =>
          /\ HasStates(journal, run.new) /\ Seen(journal, run.hi, run.new)
          /\ RunSeen(journal, run, metas, metaSnap)
    /\ pc = "save" => run.todo = {}

SidecarLives == "death" \notin Disturbances => CanCall

FoldInv == /\ PointerCovers /\ DirectoryCovers /\ ProcessCovers
           /\ RebuildCovers /\ RunCovers /\ SidecarLives

(***************************************************************************)
(* Lemmas about the states of a file.                                      *)
(***************************************************************************)

\* A document is of the state at `key` or later when it is of some state that
\* no state up to `key` is after.
LEMMA DocsSinceIs ==
  ASSUME NEW j, NEW f, NEW key \in Nat, NEW d
  PROVE  d \in DocsSince(j, f, key) <=>
           \E k \in StateKeys(j, f) \cup {0} :
              d = DocOf(j, k) /\ \A h \in StateKeys(j, f) : h <= key => h <= k
<1> DEFINE S == {k \in StateKeys(j, f) : k <= key}
           m == StateAt(j, f, key)
<1>1. StateKeys(j, f) \in SUBSET Keys /\ S \in SUBSET Keys /\ Keys \in SUBSET Nat
  BY JournalAssumption DEF StateKeys, Landed, Keys
<1>2. m = Newest(S)
  BY DEF StateAt
<1>3. m \in S \cup {0} /\ \A h \in S : h <= m
  BY <1>1, <1>2, NewestIs DEF Newest
<1>4. m \in StateKeys(j, f) \cup {0} /\ \A h \in StateKeys(j, f) : h <= key => h <= m
  BY <1>3
<1> HIDE DEF S, m
<1>5. DocsSince(j, f, key) = {DocOf(j, k) : k \in {m} \cup {h \in StateKeys(j, f) : h > key}}
  BY DEF DocsSince, m
<1>6. ASSUME d \in DocsSince(j, f, key)
      PROVE  \E k \in StateKeys(j, f) \cup {0} :
                d = DocOf(j, k) /\ \A h \in StateKeys(j, f) : h <= key => h <= k
  <2>1. PICK k \in {m} \cup {h \in StateKeys(j, f) : h > key} : d = DocOf(j, k)
    BY <1>5, <1>6
  <2>2. CASE k = m
    BY <1>4, <2>1, <2>2
  <2>3. CASE k \in StateKeys(j, f) /\ k > key
    <3>1. \A h \in StateKeys(j, f) : h <= key => h <= k
      <4>1. \A h \in StateKeys(j, f) : h \in Nat /\ k \in Nat
        BY <1>1, <2>3
      <4> QED  BY <2>3, <4>1
    <3> QED  BY <2>1, <2>3, <3>1
  <2> QED  BY <2>1, <2>2, <2>3
<1>7. ASSUME NEW k \in StateKeys(j, f) \cup {0}, d = DocOf(j, k),
             \A h \in StateKeys(j, f) : h <= key => h <= k
      PROVE  d \in DocsSince(j, f, key)
  <2>1. k \in Nat /\ m \in Nat
    <3>1. \A h \in StateKeys(j, f) : h \in Nat
      BY <1>1, Zenon
    <3>2. (k = 0 \/ k \in StateKeys(j, f)) /\ (m = 0 \/ m \in StateKeys(j, f))
      BY <1>4
    <3> QED  BY <3>1, <3>2


  <2>2. CASE k > key
    <3>1. k \in StateKeys(j, f)
      BY <2>1, <2>2
    <3> QED  BY <1>5, <1>7, <2>2, <3>1
  <2>3. CASE ~(k > key)
    <3>1. k <= key
      BY <2>1, <2>3
    <3>2. k <= m
      <4>1. CASE k = 0
        BY <2>1, <4>1
      <4>2. CASE k # 0
        BY <1>4, <3>1, <4>2
      <4> QED  BY <4>1, <4>2
    <3>3. m <= k
      <4>1. CASE m = 0
        BY <2>1, <4>1
      <4>2. CASE m # 0
        <5>1. m \in StateKeys(j, f) /\ m <= key
          BY <1>3, <4>2 DEF S
        <5> QED  BY <1>7, <5>1
      <4> QED  BY <4>1, <4>2
    <3>4. k = m
      BY <2>1, <3>2, <3>3
    <3> QED  BY <1>5, <1>7, <3>4
  <2> QED  BY <2>2, <2>3

<1> QED  BY <1>6, <1>7

\* The keys of states are numbers.
LEMMA StateKeysType ==
  ASSUME NEW j, NEW f
  PROVE  /\ StateKeys(j, f) \in SUBSET Keys
         /\ \A k \in StateKeys(j, f) : k \in Nat /\ k >= 1 /\ k # 0
BY JournalAssumption DEF StateKeys, Landed, Keys

\* A copy that has a state of a file, and none up to `key` after it, has a
\* document of the file for `key`.
LEMMA CoveredBy ==
  ASSUME NEW j, NEW docs, NEW copy, NEW key \in Nat,
         \A f \in Files : docs[f] = DocOf(j, copy[f]),
         HasStates(j, copy), Seen(j, key, copy)
  PROVE  CoversIn(j, docs, key)
<1> SUFFICES ASSUME NEW f \in Files PROVE docs[f] \in DocsSince(j, f, key)
  BY DEF CoversIn
<1>1. copy[f] \in StateKeys(j, f) \cup {0}
  BY DEF HasStates
<1>2. \A h \in StateKeys(j, f) : h <= key => h <= copy[f]
  BY DEF Seen
<1>3. docs[f] = DocOf(j, copy[f])
  OBVIOUS
<1> QED  BY <1>1, <1>2, <1>3, DocsSinceIs

\* A document for one key is one for any other with no state after it.
LEMMA DocFor ==
  ASSUME NEW j, NEW f, NEW from \in Nat, NEW to \in Nat, NEW d \in DocsSince(j, f, from),
         \A k \in StateKeys(j, f) : k <= to => k <= from
  PROVE  d \in DocsSince(j, f, to)
<1>1. PICK k \in StateKeys(j, f) \cup {0} :
         d = DocOf(j, k) /\ \A h \in StateKeys(j, f) : h <= from => h <= k
  BY DocsSinceIs
<1>2. \A h \in StateKeys(j, f) : h <= to => h <= k
  BY <1>1
<1> QED  BY <1>1, <1>2, DocsSinceIs

LEMMA CoversFor ==
  ASSUME NEW j, NEW docs, NEW from \in Nat, NEW to \in Nat,
         CoversIn(j, docs, from), NoStateBetween(j, from, to)
  PROVE  CoversIn(j, docs, to)
<1> SUFFICES ASSUME NEW f \in Files PROVE docs[f] \in DocsSince(j, f, to)
  BY DEF CoversIn
<1>1. docs[f] \in DocsSince(j, f, from)
  BY DEF CoversIn
<1>2. \A k \in StateKeys(j, f) : k <= to => k <= from
  BY DEF NoStateBetween
<1> QED  BY <1>1, <1>2, DocFor

\* An empty index is right while there is no state.
LEMMA CoversNothing ==
  ASSUME NEW j, NEW key \in Nat, NoStateBetween(j, 0, key)
  PROVE  CoversIn(j, NoDocs, key)
<1>1. DocOf(j, 0) = 0
  BY DEF DocOf, IsLive
<1>2. \A f \in Files : NoDocs[f] = DocOf(j, NoDocs[f])
  BY <1>1 DEF NoDocs
<1>3. HasStates(j, NoDocs) /\ Seen(j, key, NoDocs)
  BY DEF HasStates, Seen, NoStateBetween, NoDocs
<1> QED  BY <1>2, <1>3, CoveredBy

\* There is nothing between a key and itself, or an earlier one.
LEMMA NothingBack ==
  ASSUME NEW j, NEW from \in Nat, NEW to \in Nat, to <= from
  PROVE  NoStateBetween(j, from, to)
<1> SUFFICES ASSUME NEW f \in Files, NEW k \in StateKeys(j, f), k <= to PROVE k <= from
  BY DEF NoStateBetween
<1>1. k \in Nat
  BY StateKeysType
<1> QED  BY <1>1

LEMMA NoStateTrans ==
  ASSUME NEW j, NEW a, NEW b, NEW c, NoStateBetween(j, a, b), NoStateBetween(j, b, c)
  PROVE  NoStateBetween(j, a, c)
BY DEF NoStateBetween

LEMMA SeenFor ==
  ASSUME NEW j, NEW from, NEW to, NEW copy, Seen(j, from, copy), NoStateBetween(j, from, to)
  PROVE  Seen(j, to, copy)
BY DEF Seen, NoStateBetween

\* Seen says what StateAt says.
LEMMA SeenIs ==
  ASSUME NEW j, NEW f, NEW key \in Nat, NEW x \in Nat
  PROVE  StateAt(j, f, key) <= x <=> \A k \in StateKeys(j, f) : k <= key => k <= x
<1> DEFINE S == {k \in StateKeys(j, f) : k <= key}
           m == Newest(S)
<1>1. S \in SUBSET Keys /\ \A k \in S : k \in Nat
  BY StateKeysType
<1>2. StateAt(j, f, key) = m
  BY DEF StateAt
<1>3. CASE S = {}
  <2>1. m = 0
    BY <1>3 DEF Newest
  <2>2. m <= x
    BY <2>1
  <2>3. \A k \in StateKeys(j, f) : ~(k <= key)
    BY <1>3
  <2> HIDE DEF m, S
  <2> QED  BY <1>2, <2>2, <2>3
<1>4. CASE S # {}
  <2> HIDE DEF S
  <2>1. m \in S /\ \A h \in S : h <= m
    BY <1>1, <1>4, NewestIs
  <2> HIDE DEF m
  <2>2. ASSUME m <= x, NEW k \in S PROVE k <= x
    <3>1. k <= m /\ k \in Nat /\ m \in Nat
      BY <1>1, <2>1
    <3> QED  BY <2>2, <3>1
  <2>3. ASSUME \A k \in S : k <= x PROVE m <= x
    BY <2>1, <2>3
  <2> QED  BY <1>2, <2>2, <2>3 DEF S
<1> QED  BY <1>3, <1>4

(***************************************************************************)
(* A server appends an event after everything there is.                    *)
(***************************************************************************)
Extends(j, i, k) ==
    /\ \A f \in Files : StateKeys(i, f) \in {StateKeys(j, f), StateKeys(j, f) \cup {k}}
    /\ \A h \in Landed(j) : i[h] = j[h]

LEMMA AppendExtends ==
  ASSUME InOrder, TypeInv, ChainInv, AppendEvent
  PROVE  \E k \in Keys : Extends(journal, journal', k) /\ k > Top
<1>1. PICK k \in Keys, e \in Event : Append1(k, e)
  BY DEF AppendEvent
<1>2. Landed(journal) = 1..(k - 1) /\ k \in Nat /\ Top \in Nat /\ Landed(journal) = 1..Top /\ k >= 1
  BY <1>1, Numbers DEF Append1, InOrder, ChainInv, Keys
<1>3. k > Top
  <2>1. CASE Top = 0
    BY <1>2, <2>1
  <2>2. CASE Top # 0
    <3>1. Top \in 1..(k - 1)
      BY <1>2, <2>2
    <3> QED  BY <1>2, <3>1
  <2> QED  BY <2>1, <2>2
<1>4. \A h \in Keys : journal'[h] = IF h = k THEN e ELSE journal[h]
  BY <1>1 DEF Append1, TypeInv, TypeOK
<1>5. k \notin Landed(journal) /\ Landed(journal) \subseteq Keys
  BY <1>1 DEF Append1, Landed
<1>6. Landed(journal') = Landed(journal) \cup {k}
  <2>1. e # NoEvent
    BY DEF Event, FileEvent, AccessEvent, NoEvent
  <2> QED  BY <1>1, <1>4, <2>1 DEF Landed

<1>7. \A h \in Landed(journal) : journal'[h] = journal[h]
  BY <1>4, <1>5
<1>8. ASSUME NEW f \in Files
      PROVE  StateKeys(journal', f) \in {StateKeys(journal, f), StateKeys(journal, f) \cup {k}}
  BY <1>1, <1>4, <1>5, <1>6, <1>7 DEF StateKeys
<1> QED  BY <1>3, <1>7, <1>8 DEF Extends

\* Everything said of keys before the new event stays true.
LEMMA ExtendsKeeps ==
  ASSUME NEW j, NEW i, NEW k \in Keys, Extends(j, i, k), NEW top \in Nat, k > top
  PROVE  /\ \A copy : HasStates(j, copy) => HasStates(i, copy)
         /\ \A key \in Nat : \A copy : key <= top /\ Seen(j, key, copy) => Seen(i, key, copy)
         /\ \A from, to \in Nat :
               to <= top /\ NoStateBetween(j, from, to) => NoStateBetween(i, from, to)
         /\ \A key \in Nat : \A f, d : key <= top /\ f \in Files /\ d \in DocsSince(j, f, key)
                                          => d \in DocsSince(i, f, key)
<1>0. k \in Nat /\ (\A key \in Nat : key <= top => ~(k <= key))
  BY JournalAssumption DEF Keys
<1>1. \A f \in Files : StateKeys(j, f) \subseteq StateKeys(i, f)
                       /\ StateKeys(i, f) \subseteq StateKeys(j, f) \cup {k}
  BY DEF Extends
<1>2. ASSUME NEW key \in Nat, key <= top, NEW f \in Files, NEW h \in StateKeys(i, f), h <= key
      PROVE  h \in StateKeys(j, f)
  BY <1>0, <1>1, <1>2
<1>3. ASSUME NEW copy, HasStates(j, copy) PROVE HasStates(i, copy)
  BY <1>1, <1>3 DEF HasStates
<1>4. ASSUME NEW key \in Nat, NEW copy, key <= top, Seen(j, key, copy) PROVE Seen(i, key, copy)
  BY <1>2, <1>4 DEF Seen
<1>5. ASSUME NEW from \in Nat, NEW to \in Nat, to <= top, NoStateBetween(j, from, to)
      PROVE  NoStateBetween(i, from, to)
  BY <1>2, <1>5 DEF NoStateBetween
<1>6. ASSUME NEW key \in Nat, NEW f, NEW d, key <= top, f \in Files, d \in DocsSince(j, f, key)
      PROVE  d \in DocsSince(i, f, key)
  <2>1. PICK h \in StateKeys(j, f) \cup {0} :
           d = DocOf(j, h) /\ \A g \in StateKeys(j, f) : g <= key => g <= h
    BY <1>6, DocsSinceIs
  <2>2. d = DocOf(i, h)
    <3>1. CASE h = 0
      BY <2>1, <3>1 DEF DocOf, IsLive
    <3>2. CASE h # 0
      <4>1. h \in Landed(j)
        BY <3>2 DEF StateKeys
      <4>2. i[h] = j[h]
        BY <4>1 DEF Extends
      <4> QED  BY <2>1, <4>2 DEF DocOf, IsLive
    <3> QED  BY <3>1, <3>2
  <2>3. h \in StateKeys(i, f) \cup {0}
    BY <1>1, <1>6
  <2>4. \A g \in StateKeys(i, f) : g <= key => g <= h
    BY <1>2, <1>6, <2>1
  <2> QED  BY <2>2, <2>3, <2>4, DocsSinceIs
<1> QED  BY <1>3, <1>4, <1>5, <1>6

LEMMA AppendFoldStep ==
  ASSUME InOrder, TypeInv, ChainInv, FoldInv, AppendEvent
  PROVE  FoldInv'
<1>1. PICK k \in Keys : Extends(journal, journal', k) /\ k > Top
  BY AppendExtends
<1>2. UNCHANGED <<metaSnap, pointer, pointerUsable, diskVars, processVars, sidecarVars>>
  BY DEF AppendEvent, Append1
<1>3. /\ Top \in Nat
      /\ state.last \in Nat /\ stateFile.last \in Nat /\ pointer.last \in Nat /\ run.hi \in Nat
      /\ state.last <= Top /\ stateFile.last <= Top /\ pointer.last <= Top /\ run.hi <= Top
  BY Numbers DEF ChainInv, CursorsBelowTop
<1>4. /\ \A copy : HasStates(journal, copy) => HasStates(journal', copy)
      /\ \A key \in Nat : \A copy :
            key <= Top /\ Seen(journal, key, copy) => Seen(journal', key, copy)
      /\ \A from, to \in Nat : to <= Top /\ NoStateBetween(journal, from, to)
                                 => NoStateBetween(journal', from, to)
      /\ \A key \in Nat : \A f, d :
            key <= Top /\ f \in Files /\ d \in DocsSince(journal, f, key)
              => d \in DocsSince(journal', f, key)
  BY <1>1, <1>3, ExtendsKeeps
<1>5. \A docs : \A key \in Nat :
         key <= Top /\ CoversIn(journal, docs, key) => CoversIn(journal', docs, key)
  BY <1>4 DEF CoversIn
<1>6. \A key \in Nat : key <= Top /\ QueueCovers(journal, buffer, key)
                         => QueueCovers(journal', buffer, key)
  BY <1>4 DEF QueueCovers, TypeInv, TypeOK, BufferType
<1>7. run.hi <= Top /\ RunSeen(journal, run, metas, metaSnap)
        => RunSeen(journal', run, metas, metaSnap)
  <2> SUFFICES ASSUME RunSeen(journal, run, metas, metaSnap), NEW f \in Files \ run.todo,
                      NEW h \in StateKeys(journal', f), h <= run.hi
               PROVE  h <= metas[f] /\ h <= metaSnap[f]
    BY DEF RunSeen
  <2>1. h \in StateKeys(journal, f)
    BY <1>1, <1>3 DEF Extends, Keys
  <2> QED  BY <2>1 DEF RunSeen
<1>8. PointerCovers'
  BY <1>2, <1>3, <1>4, <1>5 DEF FoldInv, PointerCovers, MustAdopt, Remote, LocalOK,
     diskVars, processVars
<1>9. DirectoryCovers'
  BY <1>2, <1>3, <1>4, <1>5 DEF FoldInv, DirectoryCovers, MustAdopt, Remote, LocalOK, diskVars
<1>10. ProcessCovers'
  BY <1>2, <1>3, <1>4, <1>5, <1>6 DEF FoldInv, ProcessCovers, Folding, LocalOK,
     diskVars, processVars, sidecarVars
<1>11. RebuildCovers'
  BY <1>2, <1>3, <1>4, <1>5 DEF FoldInv, RebuildCovers, CanCall,
     diskVars, processVars, sidecarVars
<1>12. RunCovers'
  BY <1>2, <1>3, <1>4, <1>5, <1>6, <1>7 DEF FoldInv, RunCovers, CanCall,
     diskVars, processVars, sidecarVars
<1>13. SidecarLives'
  BY <1>2 DEF FoldInv, SidecarLives, CanCall, sidecarVars
<1> QED  BY <1>8, <1>9, <1>10, <1>11, <1>12, <1>13 DEF FoldInv

(***************************************************************************)
(* The steps of the process, the sidecar and the faults.                   *)
(***************************************************************************)

\* What the steps use of the types.
LEMMA FoldTypes ==
  ASSUME TypeInv
  PROVE  /\ state.last \in Nat /\ stateFile.last \in Nat /\ pointer.last \in Nat
         /\ run.hi \in Nat /\ run.from \in Nat
         /\ pointer.generation \in Nat /\ state.generation \in Int /\ stateFile.generation \in Int
         /\ \A f \in Files : metas[f] \in Nat /\ metaSnap[f] \in Nat
         /\ FreshState.last = 0 /\ FreshState.generation = 0 /\ NoState.generation = -1
         /\ EmptyBuffer.ids = {} /\ EmptyIndex.docs = NoDocs
         /\ NoRun.live = FALSE /\ InLoop.live = TRUE
         /\ \A f \in Files : NoDocs[f] = 0
BY Numbers DEF TypeInv, TypeOK, StateType, PointerType, FreshState, NoState, EmptyBuffer,
   EmptyIndex, NoRun, InLoop, NoDocs

\* A failed run returns to the loop it came from, or ends the process.
LEMMA ErrorLive ==
  ASSUME RunReturnsError
  PROVE  pc' \in {"idle", "exit"} /\ (pc' = "idle" => run'.live)
BY DEF RunReturnsError, NoRun

\* The sidecar only dies where that is a disturbance.
LEMMA SidecarStep ==
  ASSUME FoldInv, [Next]_vars
  PROVE  SidecarLives'
<1>1. CASE SidecarDies
  BY <1>1 DEF SidecarDies, Disturb, SidecarLives
<1>2. CASE ~SidecarDies
  <2>1. sidecar' = sidecar \/ sidecar' \in {"up", "down"}
    BY <1>2 DEF Next, AppendEvent, Append1, TextExtracted, Start, Exit, Gone, StartLocal,
       StartAdopt, AdoptState, StartRebuild, RequestRebuild, Rebuild, RebuildLoad,
       RebuildCommit, RebuildSave, RebuildFails, RunOnce, RunBegin, RunCommit, RunSnapshot,
       RunSave, RunCheckpoint, RunPublishNothing, RunPublish, RunSaveGeneration, RunFails,
       SchemaUpgrade, Crash, vars, sidecarVars
  <2> QED  BY <2>1 DEF FoldInv, SidecarLives, CanCall
<1> QED  BY <1>1, <1>2

\* Steps that touch nothing the invariant speaks of, or only lose the queue.
LEMMA IdleFoldStep ==
  ASSUME FoldInv, SidecarLives',
         UNCHANGED <<journal, metaSnap, pointer, pointerUsable, diskVars, processVars>>,
         \/ UNCHANGED sidecarVars
         \/ sidecar' = "dead" /\ buffer'.ids = {}
  PROVE  FoldInv'
<1>1. PointerCovers' /\ DirectoryCovers'
  BY DEF FoldInv, PointerCovers, DirectoryCovers, MustAdopt, Remote, LocalOK,
     diskVars, processVars
<1>2. ProcessCovers'
  BY DEF FoldInv, ProcessCovers, Folding, LocalOK, QueueCovers, diskVars, processVars, sidecarVars
<1>3. RebuildCovers'
  BY DEF FoldInv, RebuildCovers, CanCall, diskVars, processVars, sidecarVars
<1>4. RunCovers'
  BY DEF FoldInv, RunCovers, CanCall, QueueCovers, diskVars, processVars, sidecarVars
<1> QED  BY <1>1, <1>2, <1>3, <1>4 DEF FoldInv

\* The process ends, with or without its disk.
LEMMA GoneFoldStep ==
  ASSUME TypeInv, FoldInv, SidecarLives', UNCHANGED bucketVars, Gone,
         UNCHANGED diskVars \/ stateFile' = NoState
  PROVE  FoldInv'
<1>1. /\ pc' = "down" /\ state' = FreshState /\ metas' = NoDocs /\ unpublished' = FALSE
      /\ buffer' = EmptyBuffer
      /\ UNCHANGED <<journal, metaSnap, pointer, pointerUsable>>
  BY DEF Gone, bucketVars
<1>2. HasStates(journal', NoDocs)
  BY DEF HasStates, NoDocs
<1>3. stateFile'.generation <= pointer.generation /\ state'.generation <= pointer.generation
  BY <1>1, FoldTypes DEF FoldInv, PointerCovers, diskVars
<1>4. PointerCovers'
  BY <1>1, <1>2, <1>3 DEF FoldInv, PointerCovers
<1>5. DirectoryCovers'
  <2>1. CASE UNCHANGED diskVars
    BY <1>1, <2>1 DEF FoldInv, DirectoryCovers, MustAdopt, Remote, LocalOK, diskVars
  <2>2. CASE stateFile' = NoState
    BY <2>2 DEF DirectoryCovers, LocalOK
  <2> QED  BY <2>1, <2>2
<1>6. ProcessCovers' /\ RebuildCovers' /\ RunCovers'
  BY <1>1, FoldTypes DEF ProcessCovers, RebuildCovers, RunCovers, Folding
<1> QED  BY <1>4, <1>5, <1>6 DEF FoldInv

\* Start and the requests for another index.
LEMMA StartFoldStep ==
  ASSUME TypeInv, FoldInv, SidecarLives',
         StartLocal \/ StartAdopt \/ AdoptState \/ StartRebuild \/ RequestRebuild \/ SchemaUpgrade
  PROVE  FoldInv'
<1>0. /\ state.last \in Nat /\ stateFile.last \in Nat /\ pointer.last \in Nat
      /\ pointer.generation \in Nat
      /\ FreshState.last = 0 /\ FreshState.generation = 0 /\ NoState.generation = -1
      /\ EmptyBuffer.ids = {} /\ EmptyIndex.docs = NoDocs /\ NoRun.live = FALSE
      /\ \A f \in Files : NoDocs[f] = 0
  BY FoldTypes
<1>1. CASE StartLocal
  <2>1. /\ pc = "down" /\ pc' = "begin" /\ ~MustAdopt /\ LocalOK
        /\ state' = stateFile /\ metas' = metaSnap /\ (unpublished' => Snapshot)
        /\ UNCHANGED <<journal, metaSnap, pointer, pointerUsable, index, stateFile, run, buffer>>
    BY <1>1 DEF StartLocal, bucketVars, diskVars
  <2>2. PointerCovers' /\ DirectoryCovers'
    BY <2>1 DEF FoldInv, PointerCovers, DirectoryCovers, MustAdopt, Remote, LocalOK
  <2>3. ProcessCovers'
    BY <1>0, <2>1 DEF FoldInv, DirectoryCovers, ProcessCovers, Folding, QueueCovers
  <2>4. RebuildCovers' /\ RunCovers'
    BY <2>1 DEF RebuildCovers, RunCovers
  <2> QED  BY <2>2, <2>3, <2>4 DEF FoldInv
<1>2. CASE StartAdopt
  <2>1. /\ pc = "down" /\ pc' = "adopt" /\ MustAdopt /\ index'.docs = pointer.docs
        /\ UNCHANGED <<journal, metaSnap, pointer, pointerUsable, stateFile, state, metas,
                       unpublished, run, buffer>>
    BY <1>2 DEF StartAdopt, bucketVars, sidecarVars
  <2>2. MustAdopt'
    BY <2>1 DEF MustAdopt, Remote, LocalOK
  <2>3. PointerCovers' /\ DirectoryCovers'
    BY <2>1, <2>2 DEF FoldInv, PointerCovers, DirectoryCovers
  <2>4. ProcessCovers' /\ RebuildCovers' /\ RunCovers'
    BY <2>1 DEF FoldInv, ProcessCovers, Folding, RebuildCovers, RunCovers
  <2> QED  BY <2>3, <2>4 DEF FoldInv
<1>3. CASE AdoptState
  <2>1. /\ pc = "adopt" /\ pc' = "begin"
        /\ state'.last = pointer.last /\ state'.generation = pointer.generation
        /\ stateFile' = state' /\ metas' = metaSnap /\ unpublished' = FALSE
        /\ UNCHANGED <<journal, metaSnap, pointer, pointerUsable, index, run, buffer>>
    BY <1>3 DEF AdoptState, bucketVars
  <2>2. NoStateBetween(journal, pointer.last, pointer.last)
    BY DEF NoStateBetween
  <2>3. index.docs = pointer.docs /\ buffer.ids = {}
    BY <2>1 DEF FoldInv, PointerCovers, ProcessCovers
  <2>4. PointerCovers' /\ DirectoryCovers'
    BY <1>0, <2>1, <2>2, <2>3 DEF FoldInv, PointerCovers, DirectoryCovers
  <2>5. ProcessCovers'
    BY <1>0, <2>1, <2>2, <2>3 DEF FoldInv, PointerCovers, ProcessCovers, Folding, QueueCovers
  <2>6. RebuildCovers' /\ RunCovers'
    BY <2>1 DEF RebuildCovers, RunCovers
  <2> QED  BY <2>4, <2>5, <2>6 DEF FoldInv
<1>4. CASE StartRebuild
  <2>1. /\ pc = "down" /\ pc' = "rload" /\ ~MustAdopt /\ (LocalOK => Leftover)
        /\ state' = (IF LocalOK THEN stateFile ELSE FreshState)
        /\ index' = EmptyIndex /\ stateFile' = NoState /\ buffer' = EmptyBuffer /\ run' = NoRun
        /\ UNCHANGED <<journal, metaSnap, pointer, pointerUsable, metas, unpublished>>
    BY <1>4 DEF StartRebuild, bucketVars
  <2>2. NoStateBetween(journal, 0, state'.last)
    <3>1. CASE LocalOK
      <4>1. Seen(journal, stateFile.last, NoDocs)
        BY <2>1, <3>1 DEF FoldInv, DirectoryCovers, Leftover
      <4> QED  BY <1>0, <2>1, <3>1, <4>1 DEF Seen, NoStateBetween
    <3>2. CASE ~LocalOK
      BY <1>0, <2>1, <3>2 DEF NoStateBetween
    <3> QED  BY <3>1, <3>2
  <2>3. state'.generation <= pointer.generation /\ stateFile'.generation <= pointer.generation
    BY <1>0, <2>1 DEF FoldInv, PointerCovers
  <2>4. PointerCovers'
    BY <2>1, <2>3 DEF FoldInv, PointerCovers
  <2>5. DirectoryCovers' /\ ProcessCovers' /\ RunCovers'
    BY <2>1 DEF DirectoryCovers, LocalOK, ProcessCovers, Folding, RunCovers
  <2>6. RebuildCovers'
    BY <1>0, <2>1, <2>2 DEF RebuildCovers
  <2> QED  BY <2>4, <2>5, <2>6 DEF FoldInv
<1>5. CASE RequestRebuild
  <2>1. /\ pc = "idle" /\ pc' = "rload" /\ "rebuild" \in Disturbances
        /\ index' = EmptyIndex /\ stateFile' = NoState /\ buffer' = EmptyBuffer
        /\ UNCHANGED <<journal, metaSnap, pointer, pointerUsable, state, metas, unpublished, run>>
    BY <1>5 DEF RequestRebuild, Disturb, bucketVars
  <2>2. run.live
    BY <2>1 DEF FoldInv, ProcessCovers
  <2>3. stateFile'.generation <= pointer.generation
    BY <1>0, <2>1
  <2>4. PointerCovers'
    BY <2>1, <2>3 DEF FoldInv, PointerCovers
  <2>5. DirectoryCovers' /\ ProcessCovers' /\ RunCovers'
    BY <2>1 DEF DirectoryCovers, LocalOK, ProcessCovers, Folding, RunCovers
  <2>6. RebuildCovers'
    BY <1>0, <2>1, <2>2 DEF RebuildCovers
  <2> QED  BY <2>4, <2>5, <2>6 DEF FoldInv
<1>6. CASE SchemaUpgrade
  <2>1. /\ pc = "down" /\ stateFile' = NoState
        /\ UNCHANGED <<journal, metaSnap, pointer, pc, state, metas, unpublished, run, buffer>>
    BY <1>6 DEF SchemaUpgrade, processVars, sidecarVars
  <2>2. stateFile'.generation <= pointer.generation
    BY <1>0, <2>1
  <2>3. PointerCovers'
    BY <2>1, <2>2 DEF FoldInv, PointerCovers
  <2>4. DirectoryCovers' /\ ProcessCovers' /\ RunCovers' /\ RebuildCovers'
    BY <2>1 DEF FoldInv, DirectoryCovers, LocalOK, ProcessCovers, Folding, RunCovers, RebuildCovers
  <2> QED  BY <2>3, <2>4 DEF FoldInv
<1> QED  BY <1>1, <1>2, <1>3, <1>4, <1>5, <1>6

\* A rebuild: every live file of the snapshots, committed, then the cursor.
LEMMA RebuildFoldStep ==
  ASSUME TypeInv, FoldInv, SidecarLives', SnapshotsWhole, Rebuild
  PROVE  FoldInv'
<1>0. /\ state.last \in Nat /\ pointer.last \in Nat /\ run.hi \in Nat
      /\ EmptyBuffer.ids = {} /\ \A f \in Files : NoDocs[f] = 0
      /\ \A f \in Files : metas[f] \in Nat /\ metaSnap[f] \in Nat
  BY FoldTypes
<1>1. CASE RebuildLoad
  <2> DEFINE known == {f \in Files : metaSnap[f] # 0}
             snaps == {metaSnap[f] : f \in known}
             hi == Newest(snaps)
  <2>1. /\ pc = "rload" /\ pc' = "rcommit"
        /\ metas' = [f \in Files |-> IF f \in known THEN metaSnap[f] ELSE metas[f]]
        /\ buffer' = Buffered(known, metaSnap)
        /\ run' = [run EXCEPT !.hi = hi, !.pending = TextMissing(known, metaSnap)]
        /\ UNCHANGED <<journal, metaSnap, pointer, pointerUsable, index, stateFile, state,
                       unpublished>>
    BY <1>1 DEF RebuildLoad, bucketVars, diskVars
  <2>2. snaps \in SUBSET Keys
    BY <1>0, JournalAssumption DEF TypeInv, TypeOK, DocMap, Keys
  <2>3. hi \in Nat /\ \A f \in Files : metaSnap[f] <= hi
    <3>1. hi \in Nat
      BY <2>2, NewestType, JournalAssumption
    <3>2. ASSUME NEW f \in Files PROVE metaSnap[f] <= hi
      <4>1. CASE metaSnap[f] = 0
        BY <3>1, <4>1
      <4>2. CASE metaSnap[f] # 0
        <5>1. metaSnap[f] \in snaps
          BY <4>2
        <5> HIDE DEF snaps
        <5> QED  BY <2>2, <5>1, NewestIs
      <4> QED  BY <4>1, <4>2
    <3> QED  BY <3>1, <3>2
  <2>4. Seen(journal, hi, metaSnap)
    <3> SUFFICES ASSUME NEW f \in Files
                 PROVE  \A k \in StateKeys(journal, f) : k <= hi => k <= metaSnap[f]
      BY DEF Seen
    <3>1. StateAt(journal, f, hi) <= metaSnap[f]
      BY <2>1 DEF SnapshotsWhole
    <3> HIDE DEF hi
    <3> QED  BY <1>0, <2>3, <3>1, SeenIs
  <2> HIDE DEF hi
  <2>5. run'.hi = hi /\ run'.live = run.live
    BY <2>1 DEF TypeInv, TypeOK, RunType
  <2>6. Seen(journal, hi, metas')
    <3> SUFFICES ASSUME NEW f \in Files, NEW k \in StateKeys(journal, f), k <= hi
                 PROVE  k <= metas'[f]
      BY DEF Seen
    <3>1. k <= metaSnap[f] /\ k \in Nat /\ k # 0
      BY <2>4, StateKeysType DEF Seen
    <3>2. metaSnap[f] # 0
      BY <1>0, <3>1
    <3> QED  BY <2>1, <3>1, <3>2
  <2>7. NoStateBetween(journal, hi, pointer.last)
    <3> SUFFICES ASSUME NEW f \in Files, NEW k \in StateKeys(journal, f), k <= pointer.last
                 PROVE  k <= hi
      BY DEF NoStateBetween
    <3>1. k <= metaSnap[f] /\ k \in Nat
      BY StateKeysType DEF FoldInv, PointerCovers, Seen
    <3> QED  BY <1>0, <2>3, <3>1
  <2>8. HasStates(journal, metas')
    BY <2>1 DEF FoldInv, PointerCovers, HasStates
  <2>9. CoversIn(journal, Overlaid(index, buffer').docs, hi)
    <3> DEFINE docs == Overlaid(index, buffer').docs
    <3>1. \A f \in Files : docs[f] = DocOf(journal, metaSnap[f])
      <4>1. index.docs = NoDocs
        BY <2>1 DEF FoldInv, RebuildCovers
      <4>2. DocOf(journal, 0) = 0
        BY DEF DocOf, IsLive
      <4>3. \A f \in Files : docs[f] = IF f \in known THEN DocOf(journal, metaSnap[f]) ELSE 0
        BY <1>0, <2>1, <4>1 DEF Overlaid, Buffered
      <4> QED  BY <4>2, <4>3
    <3> HIDE DEF docs
    <3>2. HasStates(journal, metaSnap)
      BY DEF FoldInv, PointerCovers
    <3>3. CoversIn(journal, docs, hi)
      BY <2>3, <2>4, <3>1, <3>2, CoveredBy
    <3> QED  BY <3>3 DEF docs
  <2> HIDE DEF known
  <2>10. PointerCovers'
    BY <2>1, <2>8 DEF FoldInv, PointerCovers
  <2>11. DirectoryCovers' /\ ProcessCovers' /\ RunCovers'
    BY <2>1 DEF FoldInv, RebuildCovers, DirectoryCovers, LocalOK, ProcessCovers, Folding, RunCovers
  <2>12. RebuildCovers'
    BY <2>1, <2>4, <2>5, <2>6, <2>7, <2>9 DEF FoldInv, RebuildCovers
  <2> QED  BY <2>10, <2>11, <2>12 DEF FoldInv
<1>2. CASE RebuildCommit
  <2>1. /\ pc = "rcommit" /\ pc' = "rsave" /\ CanCall
        /\ index' = Overlaid(index, buffer) /\ buffer' = EmptyBuffer
        /\ UNCHANGED <<journal, metaSnap, pointer, pointerUsable, stateFile, state, metas,
                       unpublished, run>>
    BY <1>2 DEF RebuildCommit, Committed, bucketVars
  <2>2. PointerCovers'
    BY <2>1 DEF FoldInv, PointerCovers
  <2>3. DirectoryCovers' /\ ProcessCovers' /\ RunCovers'
    BY <1>0, <2>1 DEF FoldInv, RebuildCovers, DirectoryCovers, LocalOK, ProcessCovers, Folding,
       RunCovers
  <2>4. RebuildCovers'
    BY <2>1 DEF FoldInv, RebuildCovers
  <2> QED  BY <2>2, <2>3, <2>4 DEF FoldInv
<1>3. CASE RebuildSave
  <2>1. /\ pc = "rsave" /\ pc' = "begin" /\ (unpublished' => Snapshot)
        /\ state'.last = run.hi /\ state'.generation = state.generation /\ stateFile' = state'
        /\ UNCHANGED <<journal, metaSnap, pointer, pointerUsable, index, metas, buffer>>
    BY <1>3 DEF RebuildSave, bucketVars, sidecarVars, TypeInv, TypeOK, StateType
  <2>2. buffer.ids = {} /\ CoversIn(journal, index.docs, run.hi)
        /\ Seen(journal, run.hi, metas) /\ Seen(journal, run.hi, metaSnap)
        /\ NoStateBetween(journal, run.hi, pointer.last)
    BY <2>1 DEF FoldInv, ProcessCovers, RebuildCovers
  <2>3. PointerCovers' /\ DirectoryCovers'
    BY <2>1, <2>2 DEF FoldInv, PointerCovers, DirectoryCovers
  <2>4. ProcessCovers' /\ RebuildCovers' /\ RunCovers'
    BY <1>0, <2>1, <2>2 DEF ProcessCovers, Folding, QueueCovers, RebuildCovers, RunCovers
  <2> QED  BY <2>3, <2>4 DEF FoldInv
<1> QED  BY <1>1, <1>2, <1>3 DEF Rebuild

\* A failed rebuild ends a start, with nothing folded and nothing to fold.
LEMMA RebuildFailsFoldStep ==
  ASSUME RebuildsEnd, TypeInv, FoldInv, SidecarLives', RebuildFails
  PROVE  FoldInv'
<1>0. /\ state.last \in Nat /\ \A f \in Files : metas[f] \in Nat /\ metaSnap[f] \in Nat
  BY FoldTypes
<1>1. /\ pc \in {"rload", "rcommit"} /\ RunReturnsError
      /\ ~CanCall \/ "rebuild failure" \in Disturbances
      /\ UNCHANGED <<journal, metaSnap, pointer, pointerUsable, index, stateFile, state, metas,
                     unpublished, buffer>>
  BY Zenon DEF RebuildFails, Disturb, bucketVars, diskVars
<1>2. ~run.live
  <2>1. run.live => "rebuild" \in Disturbances
    BY <1>1 DEF FoldInv, RebuildCovers
  <2>2. CASE ~CanCall
    <3>1. "death" \in Disturbances
      BY <2>2 DEF FoldInv, SidecarLives
    <3> QED  BY <2>1, <3>1, Zenon DEF RebuildsEnd
  <2>3. CASE "rebuild failure" \in Disturbances
    BY <2>1, <2>3, Zenon DEF RebuildsEnd
  <2> QED  BY <1>1, <2>2, <2>3, Zenon
<1>3. pc' = "exit"
  BY <1>1, <1>2 DEF RunReturnsError
<1>4. stateFile = NoState /\ index.docs = NoDocs /\ NoStateBetween(journal, 0, state.last)
  BY <1>1, <1>2 DEF FoldInv, RebuildCovers
<1>5. CoversIn(journal, index.docs, state.last)
  BY <1>0, <1>4, CoversNothing
<1>6. ASSUME NEW copy, \A f \in Files : copy[f] \in Nat PROVE Seen(journal, state.last, copy)
  <2> SUFFICES ASSUME NEW f \in Files, NEW k \in StateKeys(journal, f), k <= state.last
               PROVE  k <= copy[f]
    BY DEF Seen
  <2>1. k <= 0 /\ k \in Nat
    BY <1>4, StateKeysType DEF NoStateBetween
  <2> QED  BY <1>6, <2>1
<1>7. Seen(journal, state.last, metas) /\ Seen(journal, state.last, metaSnap)
  BY <1>0, <1>6
<1>8. PointerCovers' /\ DirectoryCovers'
  BY <1>1, <1>3, <1>4 DEF FoldInv, PointerCovers, DirectoryCovers, LocalOK
<1>9. ProcessCovers' /\ RebuildCovers' /\ RunCovers'
  BY <1>1, <1>3, <1>4, <1>5, <1>7 DEF ProcessCovers, Folding, LocalOK, RebuildCovers, RunCovers
<1> QED  BY <1>8, <1>9 DEF FoldInv

\* Steps of a run that only end it, or go on to the publication.
LEMMA EndFoldStep ==
  ASSUME TypeInv, FoldInv, SidecarLives',
         pc \in {"begin", "idle", "commit", "chain", "publish"},
         UNCHANGED <<journal, metaSnap, pointer, pointerUsable, index, stateFile, state, metas,
                     unpublished, buffer>>,
         \/ pc' = "publish"
         \/ pc' = "idle" /\ run' = InLoop
         \/ RunReturnsError
  PROVE  FoldInv'
<1>1. pc' \in {"publish", "idle", "exit"} /\ (pc' = "idle" => run'.live)
  BY ErrorLive, FoldTypes
<1>2. PointerCovers' /\ DirectoryCovers'
  BY <1>1 DEF FoldInv, PointerCovers, DirectoryCovers, MustAdopt, Remote, LocalOK
<1>3. ProcessCovers' /\ RebuildCovers' /\ RunCovers'
  BY <1>1 DEF FoldInv, ProcessCovers, Folding, LocalOK, RebuildCovers, RunCovers
<1> QED  BY <1>2, <1>3 DEF FoldInv

\* A run lists the events after its cursor and queues the documents of every
\* file they, or an extracted text, changed.
LEMMA BeginFoldStep ==
  ASSUME TypeInv, FoldInv, SidecarLives', ChainInv', RunBegin
  PROVE  FoldInv'
<1> DEFINE entries == Entries
           touched == Touched(entries)
           changed == touched \cup Rechecked(entries)
           states  == [f \in Files |-> IF f \in touched
                                         THEN Newest(Of(f, entries)) ELSE metas[f]]
<1>1. /\ pc \in {"begin", "idle"} /\ pc' \in {"commit", "save", "chain"}
      /\ run'.from = state.last /\ run'.entries = entries /\ run'.todo = changed
      /\ run'.new = states
      /\ UNCHANGED <<journal, metaSnap, pointer, pointerUsable, index, stateFile, state, metas,
                     unpublished>>
  BY DEF RunBegin, bucketVars, diskVars
<1>2. /\ changed # {} <=> pc' = "commit"
      /\ changed # {} => buffer' = Queued(Buffered(changed, states))
      /\ changed = {} => UNCHANGED buffer
  BY DEF RunBegin, sidecarVars
<1> DEFINE hi == run'.hi
<1>3. hi \in Nat /\ state.last \in Nat /\ state.last <= hi
      /\ entries = (state.last + 1)..hi
  <2>1. RunIsInterval' /\ CursorsBelowTop'
    BY DEF ChainInv
  <2>2. run'.from <= run'.hi /\ run'.entries = (run'.from + 1)..run'.hi
    BY <1>1, <2>1 DEF RunIsInterval
  <2>3. hi \in Nat
    <3>1. hi = IF entries = {} THEN state.last ELSE Newest(entries)
      BY DEF RunBegin
    <3>2. entries \in SUBSET Keys
      BY KeySets DEF Entries
    <3> HIDE DEF entries
    <3> QED  BY <3>1, <3>2, NewestType, FoldTypes, JournalAssumption
  <2> QED  BY <1>1, <2>2, <2>3, FoldTypes
<1> HIDE DEF entries, hi
<1>4. \A f \in Files : /\ metas[f] \in Nat /\ metaSnap[f] \in Nat
                       /\ \A k \in StateKeys(journal, f) : k \in Nat /\ k # 0
  BY FoldTypes, StateKeysType
<1>5. /\ CoversIn(journal, index.docs, state.last)
      /\ Seen(journal, state.last, metas) /\ Seen(journal, state.last, metaSnap)
      /\ QueueCovers(journal, buffer, state.last)
      /\ HasStates(journal, metas)
  BY <1>1 DEF FoldInv, PointerCovers, ProcessCovers, Folding
<1>6. ASSUME NEW f \in Files \ touched, NEW k \in StateKeys(journal, f), k <= hi
      PROVE  k <= state.last
  <2>1. k \notin entries
    BY <1>6 DEF Touched, Of
  <2> QED  BY <1>3, <1>4, <1>6, <2>1
<1>7. ASSUME NEW f \in Files
      PROVE  /\ states[f] \in StateKeys(journal, f) \cup {0}
             /\ \A k \in StateKeys(journal, f) : k <= hi => k <= states[f]
  <2>1. CASE f \in touched
    <3> DEFINE S == Of(f, entries)
    <3>1. S \in SUBSET Keys /\ S # {} /\ S = entries \cap StateKeys(journal, f)
      BY <2>1, StateKeysType DEF Of, Touched
    <3> HIDE DEF S
    <3>2. Newest(S) \in S /\ \A h \in S : h <= Newest(S)
      BY <3>1, NewestIs
    <3>3. states[f] = Newest(S)
      BY <2>1 DEF S
    <3>4. ASSUME NEW k \in StateKeys(journal, f), k <= hi PROVE k <= states[f]
      <4>1. CASE k \in entries
        BY <3>1, <3>2, <3>3, <4>1
      <4>2. CASE k \notin entries
        <5>1. k \in Nat /\ states[f] \in entries
          BY <1>4, <3>1, <3>2, <3>3
        <5> QED  BY <1>3, <3>4, <4>2, <5>1
      <4> QED  BY <4>1, <4>2
    <3> QED  BY <3>1, <3>2, <3>3, <3>4
  <2>2. CASE f \notin touched
    <3>1. states[f] = metas[f]
      BY <2>2
    <3>2. \A k \in StateKeys(journal, f) : k <= hi => k <= metas[f]
      BY <1>5, <1>6, <2>2 DEF Seen
    <3> QED  BY <1>5, <3>1, <3>2 DEF HasStates
  <2> QED  BY <2>1, <2>2
<1>8. HasStates(journal, states) /\ Seen(journal, hi, states)
  BY <1>7 DEF HasStates, Seen
<1>9. RunSeen(journal, run', metas, metaSnap)
  <2> SUFFICES ASSUME NEW f \in Files \ changed, NEW k \in StateKeys(journal, f), k <= hi
               PROVE  k <= metas[f] /\ k <= metaSnap[f]
    BY <1>1 DEF RunSeen, hi
  <2>1. k <= state.last
    BY <1>6
  <2> QED  BY <1>5, <2>1 DEF Seen
<1>10. ASSUME NEW f \in Files \ touched, NEW d \in DocsSince(journal, f, state.last)
       PROVE  d \in DocsSince(journal, f, hi)
  BY <1>3, <1>6, <1>10, DocFor
<1>11. ASSUME NEW f \in Files
       PROVE  /\ DocOf(journal, states[f]) \in DocsSince(journal, f, hi)
              /\ DocOf(journal, states[f]) \in DocsSince(journal, f, state.last)
  <2>1. \A k \in StateKeys(journal, f) : k <= state.last => k <= states[f]
    BY <1>3, <1>4, <1>7
  <2> HIDE DEF states
  <2> QED  BY <1>3, <1>7, <2>1, DocsSinceIs
<1>12. touched \subseteq changed /\ changed \subseteq Files
  BY DEF Touched, Rechecked, TypeInv, TypeOK, StateType
<1>13. states \in [Files -> Nat]
  <2> SUFFICES ASSUME NEW f \in Files PROVE states[f] \in Nat
    OBVIOUS
  <2> QED  BY <1>4, <1>7
<1>14. ASSUME changed # {}
       PROVE  /\ CoversIn(journal, Overlaid(index, buffer').docs, hi)
              /\ QueueCovers(journal, buffer', state.last)
  <2> HIDE DEF states, changed
  <2>1. /\ buffer'.ids = buffer.ids \cup changed
        /\ buffer'.docs = [f \in Files |-> IF f \in changed THEN Buffered(changed, states).docs[f]
                                                            ELSE buffer.docs[f]]
    BY <1>2, <1>14 DEF Queued, Overlaid, Buffered
  <2>2. \A f \in changed : Buffered(changed, states).docs[f] = DocOf(journal, states[f])
    BY <1>12 DEF Buffered
  <2>3. \A f \in changed : buffer'.docs[f] = DocOf(journal, states[f])
    BY <1>12, <2>1, <2>2
  <2>4. \A f \in Files \ changed : buffer'.docs[f] = buffer.docs[f]
    BY <2>1
  <2>5. buffer.ids \subseteq Files
    BY DEF TypeInv, TypeOK, BufferType
  <2>6. QueueCovers(journal, buffer', state.last)
    <3> SUFFICES ASSUME NEW f \in buffer'.ids
                 PROVE  buffer'.docs[f] \in DocsSince(journal, f, state.last)
      BY DEF QueueCovers
    <3>1. CASE f \in changed
      BY <1>11, <1>12, <2>3, <3>1
    <3>2. CASE f \notin changed
      BY <1>5, <2>1, <2>4, <2>5, <3>2 DEF QueueCovers
    <3> QED  BY <3>1, <3>2
  <2>7. CoversIn(journal, Overlaid(index, buffer').docs, hi)
    <3> SUFFICES ASSUME NEW f \in Files
                 PROVE  Overlaid(index, buffer').docs[f] \in DocsSince(journal, f, hi)
      BY DEF CoversIn
    <3>1. Overlaid(index, buffer').docs[f]
            = IF f \in buffer'.ids THEN buffer'.docs[f] ELSE index.docs[f]
      BY DEF Overlaid
    <3>2. CASE f \in changed
      BY <1>11, <2>1, <2>3, <3>1, <3>2
    <3>3. CASE f \notin changed
      <4>1. Overlaid(index, buffer').docs[f] \in DocsSince(journal, f, state.last)
        BY <1>5, <2>1, <2>4, <3>1, <3>3 DEF QueueCovers, CoversIn
      <4> QED  BY <1>10, <1>12, <3>3, <4>1
    <3> QED  BY <3>2, <3>3
  <2> QED  BY <2>6, <2>7
<1>15. ASSUME changed = {}
       PROVE  CoversIn(journal, index.docs, hi) /\ QueueCovers(journal, buffer, hi)
  <2>1. touched = {} /\ buffer.ids \subseteq Files
    BY <1>12, <1>15 DEF TypeInv, TypeOK, BufferType
  <2>2. \A f \in Files : \A d \in DocsSince(journal, f, state.last) : d \in DocsSince(journal, f, hi)
    BY <1>10, <2>1
  <2> QED  BY <1>5, <2>1, <2>2 DEF CoversIn, QueueCovers
<1> HIDE DEF states, changed, touched
<1>16. PointerCovers' /\ DirectoryCovers'
  BY <1>1 DEF FoldInv, PointerCovers, DirectoryCovers, MustAdopt, Remote, LocalOK
<1>17. QueueCovers(journal, buffer', state.last)
  BY <1>2, <1>5, <1>14
<1>18. ProcessCovers' /\ RebuildCovers'
  BY <1>1, <1>17 DEF FoldInv, ProcessCovers, Folding, LocalOK, RebuildCovers
<1>19. RunCovers'
  <2>1. pc' = "save" => CoversIn(journal, index.docs, hi) /\ QueueCovers(journal, buffer', hi)
                        /\ run'.todo = {}
    BY <1>1, <1>2, <1>15
  <2>2. pc' = "commit" => CoversIn(journal, Overlaid(index, buffer').docs, hi)
    BY <1>2, <1>14
  <2> QED  BY <1>1, <1>8, <1>9, <2>1, <2>2 DEF RunCovers, hi
<1> QED  BY <1>16, <1>18, <1>19 DEF FoldInv

\* A commit applies the queue, which covers the cursor the run will set.
LEMMA CommitFoldStep ==
  ASSUME TypeInv, FoldInv, SidecarLives', ChainInv, RunCommit
  PROVE  FoldInv'
<1>1. /\ pc = "commit" /\ pc' = "snap" /\ CanCall
      /\ index' = Overlaid(index, buffer) /\ buffer' = EmptyBuffer /\ unpublished' = Snapshot
      /\ UNCHANGED <<journal, metaSnap, pointer, pointerUsable, stateFile, state, metas, run>>
  BY DEF RunCommit, Committed, bucketVars
<1>2. /\ state.last \in Nat /\ stateFile.last \in Nat /\ run.hi \in Nat /\ EmptyBuffer.ids = {}
      /\ state.last <= run.hi
      /\ LocalOK => stateFile.last <= state.last
  BY <1>1, FoldTypes DEF ChainInv, RunIsInterval, FoldInv, ProcessCovers, Folding
<1>3. CoversIn(journal, index'.docs, run.hi)
  BY <1>1 DEF FoldInv, RunCovers
<1>4. CoversIn(journal, index'.docs, state.last)
  BY <1>2, <1>3, NothingBack, CoversFor
<1>5. LocalOK => CoversIn(journal, index'.docs, stateFile.last)
  BY <1>2, <1>4, NothingBack, CoversFor
<1>6. PointerCovers' /\ DirectoryCovers'
  BY <1>1, <1>5 DEF FoldInv, PointerCovers, DirectoryCovers, MustAdopt, Remote, LocalOK
<1>7. ProcessCovers' /\ RebuildCovers'
  BY <1>1, <1>2, <1>4 DEF FoldInv, ProcessCovers, Folding, LocalOK, QueueCovers, RebuildCovers
<1>8. RunCovers'
  BY <1>1, <1>2, <1>3 DEF FoldInv, RunCovers, QueueCovers
<1> QED  BY <1>6, <1>7, <1>8 DEF FoldInv

\* The next file of the batch goes to the cache and to the bucket.
LEMMA SnapshotFoldStep ==
  ASSUME TypeInv, FoldInv, SidecarLives', ChainInv, RunSnapshot
  PROVE  FoldInv'
<1>1. PICK f \in run.todo :
        /\ pc = "snap"
        /\ metas' = [metas EXCEPT ![f] = run.new[f]]
        /\ \/ /\ metaSnap' = [metaSnap EXCEPT ![f] = run.new[f]]
              /\ run' = [run EXCEPT !.todo = @ \ {f}]
              /\ pc' = IF run.todo = {f} THEN "save" ELSE "snap"
           \/ RunReturnsError /\ metaSnap' = metaSnap
  BY DEF RunSnapshot
<1>2. UNCHANGED <<journal, pointer, pointerUsable, index, stateFile, state, unpublished, buffer>>
  BY DEF RunSnapshot, diskVars, sidecarVars
<1>3. /\ state.last \in Nat /\ stateFile.last \in Nat /\ run.hi \in Nat /\ pointer.last \in Nat
      /\ state.last <= run.hi
      /\ f \in Files
      /\ metas \in DocMap /\ metaSnap \in DocMap
      /\ run \in RunType
  BY <1>1, FoldTypes DEF ChainInv, RunIsInterval, TypeInv, TypeOK, RunType
<1>4. /\ \A g \in Files : metas'[g] = IF g = f THEN run.new[f] ELSE metas[g]
      /\ \A g \in Files : metaSnap'[g] \in {metaSnap[g], IF g = f THEN run.new[f] ELSE metaSnap[g]}
  BY <1>1, <1>3 DEF DocMap
<1>5. /\ HasStates(journal, run.new) /\ Seen(journal, run.hi, run.new)
      /\ RunSeen(journal, run, metas, metaSnap)
      /\ HasStates(journal, metas) /\ HasStates(journal, metaSnap)
  BY <1>1 DEF FoldInv, RunCovers, PointerCovers
<1>6. HasStates(journal, metas') /\ HasStates(journal, metaSnap')
  BY <1>3, <1>4, <1>5 DEF HasStates
<1>7. ASSUME NEW key \in Nat, NoStateBetween(journal, run.hi, key)
      PROVE  /\ Seen(journal, key, metas) => Seen(journal, key, metas')
             /\ Seen(journal, key, metaSnap) => Seen(journal, key, metaSnap')
  <2>1. \A k \in StateKeys(journal, f) : k <= key => k <= run.new[f]
    BY <1>3, <1>5, <1>7 DEF Seen, NoStateBetween
  <2> QED  BY <1>4, <2>1 DEF Seen
<1>8. /\ NoStateBetween(journal, run.hi, state.last)
      /\ NoStateBetween(journal, run.hi, pointer.last)
      /\ LocalOK => NoStateBetween(journal, run.hi, stateFile.last)
  <2>1. NoStateBetween(journal, run.hi, state.last)
    BY <1>3, NothingBack
  <2>2. NoStateBetween(journal, state.last, pointer.last)
        /\ (LocalOK => stateFile.last <= state.last)
    BY <1>1 DEF FoldInv, ProcessCovers, Folding
  <2>3. LocalOK => NoStateBetween(journal, run.hi, stateFile.last)
    BY <1>3, <2>2, NothingBack
  <2> QED  BY <2>1, <2>2, <2>3, NoStateTrans
<1>9. /\ Seen(journal, state.last, metas') /\ Seen(journal, state.last, metaSnap')
      /\ Seen(journal, pointer.last, metaSnap')
      /\ LocalOK => (Seen(journal, stateFile.last, metaSnap)
                       => Seen(journal, stateFile.last, metaSnap'))
  BY <1>1, <1>3, <1>7, <1>8 DEF FoldInv, PointerCovers, ProcessCovers, Folding
<1>10. pc' \in {"save", "snap", "idle", "exit"} /\ (pc' = "idle" => run'.live)
  BY <1>1, ErrorLive
<1>11. PointerCovers' /\ DirectoryCovers'
  BY <1>2, <1>6, <1>9, <1>10 DEF FoldInv, PointerCovers, DirectoryCovers, MustAdopt, Remote, LocalOK
<1>12. ProcessCovers' /\ RebuildCovers'
  BY <1>1, <1>2, <1>9, <1>10 DEF FoldInv, ProcessCovers, Folding, LocalOK, RebuildCovers
<1>13. RunCovers'
  <2>1. CASE pc' \in {"idle", "exit"}
    BY <2>1 DEF RunCovers
  <2>2. CASE pc' \in {"save", "snap"}
    <3>1. /\ metaSnap' = [metaSnap EXCEPT ![f] = run.new[f]]
          /\ run' = [run EXCEPT !.todo = @ \ {f}]
          /\ pc' = IF run.todo = {f} THEN "save" ELSE "snap"
      BY <1>1, <2>2, ErrorLive
    <3>2. run'.todo = run.todo \ {f} /\ run'.hi = run.hi /\ run'.new = run.new
      BY <1>3, <3>1 DEF RunType
    <3>3. pc' = "save" => run'.todo = {}
      BY <3>1, <3>2
    <3>4. RunSeen(journal, run', metas', metaSnap')
      <4> SUFFICES ASSUME NEW g \in Files \ run'.todo, NEW k \in StateKeys(journal, g),
                          k <= run.hi
                   PROVE  k <= metas'[g] /\ k <= metaSnap'[g]
        BY <3>2 DEF RunSeen
      <4>1. CASE g = f
        <5>1. metas'[g] = run.new[f] /\ metaSnap'[g] = run.new[f]
          BY <1>3, <1>4, <3>1, <4>1 DEF DocMap
        <5> QED  BY <1>5, <4>1, <5>1 DEF Seen
      <4>2. CASE g # f
        <5>1. metas'[g] = metas[g] /\ metaSnap'[g] = metaSnap[g] /\ g \in Files \ run.todo
          BY <1>4, <3>2, <4>2
        <5> QED  BY <1>5, <5>1 DEF RunSeen
      <4> QED  BY <4>1, <4>2
    <3>5. CoversIn(journal, index.docs, run.hi) /\ QueueCovers(journal, buffer, run.hi)
      BY <1>1 DEF FoldInv, RunCovers
    <3> QED  BY <1>2, <1>5, <2>2, <3>2, <3>3, <3>4, <3>5 DEF RunCovers
  <2> QED  BY <1>10, <2>1, <2>2
<1> QED  BY <1>11, <1>12, <1>13 DEF FoldInv

\* The cursor moves to what the index and both copies of the states have.
LEMMA SaveFoldStep ==
  ASSUME TypeInv, FoldInv, SidecarLives', ChainInv, RunSave
  PROVE  FoldInv'
<1>1. /\ pc = "save"
      /\ state'.last = run.hi /\ state'.generation = state.generation
      /\ \/ stateFile' = state' /\ unpublished' = Snapshot /\ pc' = "chain" /\ run' = run
         \/ RunReturnsError /\ UNCHANGED <<stateFile, unpublished>>
      /\ UNCHANGED <<journal, metaSnap, pointer, pointerUsable, index, metas, buffer>>
  BY DEF RunSave, bucketVars, sidecarVars, TypeInv, TypeOK, StateType
<1>2. pc' \in {"chain", "idle", "exit"} /\ (pc' = "idle" => run'.live)
  BY <1>1, ErrorLive
<1>3. /\ state.last \in Nat /\ stateFile.last \in Nat /\ run.hi \in Nat /\ pointer.last \in Nat
      /\ state.last <= run.hi
      /\ LocalOK => stateFile.last <= state.last
  BY <1>1, FoldTypes DEF ChainInv, RunIsInterval, FoldInv, ProcessCovers, Folding
<1>4. /\ CoversIn(journal, index.docs, run.hi) /\ QueueCovers(journal, buffer, run.hi)
      /\ Seen(journal, run.hi, metas) /\ Seen(journal, run.hi, metaSnap)
  BY <1>1 DEF FoldInv, RunCovers, RunSeen, Seen
<1>5. NoStateBetween(journal, run.hi, pointer.last)
  <2>1. NoStateBetween(journal, state.last, pointer.last)
    BY <1>1 DEF FoldInv, ProcessCovers, Folding
  <2>2. NoStateBetween(journal, run.hi, state.last)
    BY <1>3, NothingBack
  <2> QED  BY <2>1, <2>2, NoStateTrans
<1>6. PointerCovers'
  BY <1>1, <1>2 DEF FoldInv, PointerCovers
<1>7. DirectoryCovers'
  <2>1. CASE stateFile' = state'
    BY <1>1, <1>4, <1>5, <2>1 DEF DirectoryCovers
  <2>2. CASE stateFile' = stateFile
    BY <1>1, <2>2 DEF FoldInv, DirectoryCovers, MustAdopt, Remote, LocalOK
  <2> QED  BY <1>1, <2>1, <2>2
<1>8. (LocalOK => stateFile.last <= state.last)'
  BY <1>1, <1>3 DEF LocalOK
<1>9. ProcessCovers' /\ RebuildCovers' /\ RunCovers'
  BY <1>1, <1>2, <1>4, <1>5, <1>8 DEF ProcessCovers, RebuildCovers, RunCovers
<1> QED  BY <1>6, <1>7, <1>9 DEF FoldInv

\* The index is published under the cursor of the process.  Until the state
\* file has the new generation, a restart adopts the pointer.
LEMMA PublishFoldStep ==
  ASSUME TypeInv, FoldInv, SidecarLives', RunPublish
  PROVE  FoldInv'
<1>1. /\ pc = "publish" /\ unpublished
      /\ \/ /\ pointer' = NextPointer /\ pointerUsable' = TRUE
            /\ state'.last = state.last /\ state'.generation = NextPointer.generation
            /\ unpublished' = FALSE /\ pc' = "savegen"
         \/ /\ \/ UNCHANGED <<pointer, pointerUsable>>
               \/ pointer' = NextPointer /\ pointerUsable' = TRUE

            /\ RunReturnsError /\ UNCHANGED <<state, unpublished>>
      /\ UNCHANGED <<journal, metaSnap, index, stateFile, metas, buffer>>
  BY DEF RunPublish, TypeInv, TypeOK, StateType
<1>2. pc' \in {"savegen", "idle", "exit"} /\ (pc' = "idle" => run'.live)
  BY <1>1, ErrorLive
<1>3. /\ state.last \in Nat /\ pointer.generation \in Nat
      /\ state.generation \in Int /\ stateFile.generation \in Int
      /\ state.generation <= pointer.generation /\ stateFile.generation <= pointer.generation
      /\ state'.last = state.last /\ Snapshot
  BY <1>1, FoldTypes DEF FoldInv, PointerCovers
<1>4. /\ CoversIn(journal, index.docs, state.last)
      /\ Seen(journal, state.last, metas) /\ Seen(journal, state.last, metaSnap)
      /\ QueueCovers(journal, buffer, state.last)
      /\ LocalOK => stateFile.last <= state.last
  BY <1>1 DEF FoldInv, ProcessCovers, Folding
<1>5. CASE pointer' = NextPointer /\ pointerUsable' = TRUE
  <2>1. /\ pointer'.generation = pointer.generation + 1
        /\ pointer'.last = state.last /\ pointer'.docs = index.docs
    BY <1>5 DEF NextPointer
  <2>2. MustAdopt'
    BY <1>1, <1>3, <1>5, <2>1 DEF MustAdopt, Remote
  <2>3. state'.generation <= pointer'.generation
    <3>1. state'.generation = NextPointer.generation \/ state' = state
      BY <1>1
    <3>2. NextPointer.generation = pointer.generation + 1
      BY DEF NextPointer
    <3> QED  BY <1>3, <2>1, <3>1, <3>2

  <2>4. PointerCovers' /\ DirectoryCovers'
    BY <1>1, <1>2, <1>3, <1>4, <2>1, <2>2, <2>3 DEF FoldInv, PointerCovers, DirectoryCovers
  <2>5. NoStateBetween(journal, state.last, state.last)
    BY DEF NoStateBetween
  <2>6. ProcessCovers' /\ RebuildCovers' /\ RunCovers'
    BY <1>1, <1>2, <1>3, <1>4, <2>1, <2>5
       DEF ProcessCovers, Folding, LocalOK, RebuildCovers, RunCovers
  <2> QED  BY <2>4, <2>6 DEF FoldInv
<1>6. CASE UNCHANGED <<pointer, pointerUsable>> /\ UNCHANGED <<state, unpublished>>
  <2>1. PointerCovers' /\ DirectoryCovers'
    BY <1>1, <1>2, <1>6 DEF FoldInv, PointerCovers, DirectoryCovers, MustAdopt, Remote, LocalOK
  <2>2. ProcessCovers' /\ RebuildCovers' /\ RunCovers'
    BY <1>1, <1>2, <1>6
       DEF FoldInv, ProcessCovers, Folding, LocalOK, RebuildCovers, RunCovers
  <2> QED  BY <2>1, <2>2 DEF FoldInv
<1> QED  BY <1>1, <1>5, <1>6

\* The state file gets the generation just published.
LEMMA SaveGenerationFoldStep ==
  ASSUME TypeInv, FoldInv, SidecarLives', RunSaveGeneration
  PROVE  FoldInv'
<1>1. /\ pc = "savegen"
      /\ \/ stateFile' = state /\ pc' = "idle" /\ run' = InLoop
         \/ RunReturnsError /\ UNCHANGED stateFile
      /\ UNCHANGED <<journal, metaSnap, pointer, pointerUsable, index, state, metas, unpublished,
                     buffer>>
  BY DEF RunSaveGeneration, bucketVars, sidecarVars
<1>2. pc' \in {"idle", "exit"} /\ (pc' = "idle" => run'.live) /\ state.last \in Nat
  BY <1>1, ErrorLive, FoldTypes
<1>3. PointerCovers'
  BY <1>1, <1>2 DEF FoldInv, PointerCovers
<1>4. DirectoryCovers'
  <2>1. CASE stateFile' = state
    BY <1>1, <2>1 DEF FoldInv, ProcessCovers, Folding, DirectoryCovers
  <2>2. CASE stateFile' = stateFile
    BY <1>1, <2>2 DEF FoldInv, DirectoryCovers, MustAdopt, Remote, LocalOK
  <2> QED  BY <1>1, <2>1, <2>2
<1>5. (LocalOK => stateFile.last <= state.last)'
  BY <1>1, <1>2 DEF FoldInv, ProcessCovers, Folding, LocalOK
<1>6. ProcessCovers' /\ RebuildCovers' /\ RunCovers'
  BY <1>1, <1>2, <1>5 DEF FoldInv, ProcessCovers, Folding, RebuildCovers, RunCovers
<1> QED  BY <1>3, <1>4, <1>6 DEF FoldInv

(***************************************************************************)
(* The invariant of the whole indexer.                                     *)
(***************************************************************************)
LEMMA FoldInit ==
  ASSUME Init
  PROVE  FoldInv
<1>0. \A k : ~(k \in Landed(journal))
  BY DEF Init, Landed
<1>1. \A f : StateKeys(journal, f) = {}
  BY <1>0 DEF StateKeys
<1>2. \A key \in Nat : CoversIn(journal, NoDocs, key)
  BY <1>1, CoversNothing DEF NoStateBetween
<1>3. \A key : \A copy : Seen(journal, key, copy)
  BY <1>1 DEF Seen
<1>4. HasStates(journal, NoDocs)
  BY DEF HasStates, NoDocs
<1>5. PointerCovers
  BY <1>2, <1>3, <1>4 DEF Init, PointerCovers, NoPointer, NoState, FreshState
<1>6. DirectoryCovers /\ ProcessCovers /\ RebuildCovers /\ RunCovers /\ SidecarLives
  BY DEF Init, DirectoryCovers, LocalOK, ProcessCovers, Folding, RebuildCovers, RunCovers,
     SidecarLives, CanCall, EmptyBuffer
<1> QED  BY <1>5, <1>6 DEF FoldInv

LEMMA FoldStep ==
  ASSUME InOrder, RebuildsEnd, TypeAndChain, FoldInv, SnapshotsWhole, [Next]_vars
  PROVE  FoldInv'
<1>1. TypeInv /\ ChainInv /\ ChainInv' /\ SidecarLives'
  BY IndexerStep, SidecarStep DEF Step, TypeAndChain
<1>2. CASE AppendEvent
  BY <1>1, <1>2, AppendFoldStep
<1>3. CASE TextExtracted \/ SidecarDies \/ UNCHANGED vars
  <2>1. UNCHANGED <<journal, metaSnap, pointer, pointerUsable, diskVars, processVars>>
    BY <1>3 DEF TextExtracted, SidecarDies, vars, bucketVars
  <2>2. UNCHANGED sidecarVars \/ (sidecar' = "dead" /\ buffer'.ids = {})
    BY <1>3 DEF TextExtracted, SidecarDies, vars, EmptyBuffer
  <2> QED  BY <1>1, <2>1, <2>2, IdleFoldStep
<1>4. CASE Exit \/ Crash
  <2>1. UNCHANGED bucketVars /\ Gone /\ (UNCHANGED diskVars \/ stateFile' = NoState)
    BY <1>4 DEF Exit, Crash
  <2> QED  BY <1>1, <2>1, GoneFoldStep
<1>5. CASE \/ StartLocal \/ StartAdopt \/ AdoptState \/ StartRebuild
           \/ RequestRebuild \/ SchemaUpgrade
  BY <1>1, <1>5, StartFoldStep
<1>6. CASE Rebuild
  BY <1>1, <1>6, RebuildFoldStep
<1>7. CASE RebuildFails
  BY <1>1, <1>7, RebuildFailsFoldStep
<1>8. CASE RunCheckpoint
  <2>1. /\ pc = "chain" /\ (pc' = "publish" \/ RunReturnsError)
        /\ UNCHANGED <<journal, metaSnap, pointer, pointerUsable, index, stateFile, state, metas,
                       unpublished, buffer>>
    BY <1>8 DEF RunCheckpoint, diskVars, sidecarVars
  <2> QED  BY <1>1, <2>1, EndFoldStep
<1>9. CASE RunPublishNothing
  <2>1. /\ pc = "publish" /\ pc' = "idle" /\ run' = InLoop
        /\ UNCHANGED <<journal, metaSnap, pointer, pointerUsable, index, stateFile, state, metas,
                       unpublished, buffer>>
    BY <1>9 DEF RunPublishNothing, bucketVars, diskVars, sidecarVars
  <2> QED  BY <1>1, <2>1, EndFoldStep
<1>10. CASE RunFails
  <2>1. /\ pc \in {"begin", "idle", "commit", "publish"} /\ RunReturnsError
        /\ UNCHANGED <<journal, metaSnap, pointer, pointerUsable, index, stateFile, state, metas,
                       unpublished, buffer>>
    BY <1>10 DEF RunFails, bucketVars, diskVars
  <2> QED  BY <1>1, <2>1, EndFoldStep
<1>11. CASE RunBegin \/ RunCommit \/ RunSnapshot \/ RunSave \/ RunPublish \/ RunSaveGeneration
  BY <1>1, <1>11, BeginFoldStep, CommitFoldStep, SnapshotFoldStep, SaveFoldStep,
     PublishFoldStep, SaveGenerationFoldStep
<1> QED
  BY <1>2, <1>3, <1>4, <1>5, <1>6, <1>7, <1>8, <1>9, <1>10, <1>11 DEF Next, Start, RunOnce

Folded == TypeAndChain /\ FoldInv

LEMMA FoldedAlways ==
  ASSUME InOrder, RebuildsEnd
  PROVE  Spec /\ []SnapshotsWhole => []Folded
<1>1. Init => Folded
  BY IndexerInit, FoldInit DEF Folded
<1>2. Folded /\ SnapshotsWhole /\ [Next]_vars => Folded'
  BY IndexerStep, FoldStep DEF Folded, Step
<1> QED  BY <1>1, <1>2, PTL DEF Spec

(***************************************************************************)
(* The theorems.                                                           *)
(***************************************************************************)

\* The cursor of a process, and the one a restart goes on from, is never ahead
\* of the local index, over failed calls, crashes, a lost disk, adoptions of
\* the published index, a sidecar that dies and schema upgrades.
THEOREM IndexNeverBehind ==
  ASSUME InOrder, RebuildsEnd
  PROVE  Spec /\ []SnapshotsWhole => []IndexCoversCursor
<1>1. Folded => IndexCoversCursor
  BY DEF Folded, FoldInv, ProcessCovers, DirectoryCovers, CoversIn, Covers, IndexCoversCursor
<1> QED  BY <1>1, FoldedAlways, PTL

\* Nor is it ahead of the cache of the process or of the snapshots in the
\* bucket, which servers and rebuilds read.
THEOREM StatesNeverBehind ==
  ASSUME InOrder, RebuildsEnd
  PROVE  Spec /\ []SnapshotsWhole => []StatesCoverCursor
<1>1. ASSUME Folded, Folding, NEW f \in Files
      PROVE  /\ StateAt(journal, f, state.last) <= metas[f]
             /\ StateAt(journal, f, state.last) <= metaSnap[f]
  <2>1. state.last \in Nat /\ metas[f] \in Nat /\ metaSnap[f] \in Nat
    BY <1>1, FoldTypes DEF Folded, TypeAndChain
  <2>2. Seen(journal, state.last, metas) /\ Seen(journal, state.last, metaSnap)
    BY <1>1 DEF Folded, FoldInv, ProcessCovers
  <2> QED  BY <2>1, <2>2, SeenIs DEF Seen
<1>2. Folded => StatesCoverCursor
  BY <1>1 DEF StatesCoverCursor
<1> QED  BY <1>2, FoldedAlways, PTL

\* The indexer implements the published index its readers rely on: every
\* generation follows the one before it and holds, for every file, the fold of
\* the journal up to the key it carries or a later state.
THEOREM PublishesTheFold ==
  ASSUME InOrder, RebuildsEnd
  PROVE  Spec /\ []SnapshotsWhole => PublishesAFold
<1>1. Init => Published!Init
  BY DEF Init, Published!Init, NoPointer, NoDocs, Published!Keys, Keys,
     Published!NoEvent, NoEvent
<1>2. ASSUME Folded, [Next]_vars
      PROVE  [Published!Next]_Published!vars
  <2>0. TypeInv /\ ChainInv
    BY <1>2 DEF Folded, TypeAndChain
  <2>1. CASE AppendEvent
    <3>1. PICK k \in Keys, e \in Event : Append1(k, e)
      BY <2>1 DEF AppendEvent
    <3>2. UNCHANGED pointer /\ journal' = [journal EXCEPT ![k] = e]
          /\ k \notin Landed(journal) /\ Landed(journal) = 1..(k - 1)
      BY <3>1 DEF Append1, InOrder, Landed
    <3>3. After(journal, k) = {}
      BY <3>2, JournalAssumption DEF After, Keys
    <3>4. Published!After(journal, k) = {} /\ k \notin Published!Landed(journal)
          /\ k \in Published!Keys /\ e \in Published!Event
      BY <3>2, <3>3 DEF Published!After, Published!Landed, Published!Keys, Published!NoEvent,
         Published!Event, Published!FileEvent, Published!AccessEvent,
         After, Landed, Keys, NoEvent, Event, FileEvent, AccessEvent
    <3>5. Published!Land
      BY <3>2, <3>4 DEF Published!Land
    <3> QED  BY <3>5 DEF Published!Next
  <2>2. CASE RunPublish /\ pointer' # pointer
    <3>1. pc = "publish" /\ pointer' = NextPointer /\ UNCHANGED journal
      BY <2>2 DEF RunPublish
    <3>2. /\ pointer'.generation = pointer.generation + 1
          /\ pointer'.last = state.last /\ pointer'.docs = index.docs
      BY <3>1 DEF NextPointer
    <3>3. CoversIn(journal, index.docs, state.last)
      BY <1>2, <3>1 DEF Folded, FoldInv, ProcessCovers, Folding
    <3>4. state.last \in Landed(journal) \cup {0}
      BY <2>0, Numbers DEF ChainInv, CursorsBelowTop
    <3>5. index.docs \in [Files -> Keys \cup {0}]
      BY <2>0, JournalAssumption DEF TypeInv, TypeOK, IndexType, DocMap, Keys
    <3>6. Published!Publish
      BY <3>1, <3>2, <3>3, <3>4, <3>5 DEF CoversIn, Published!Publish, Published!Landed,
         Published!Keys, Published!NoEvent, Published!DocsSince, Published!DocOf,
         Published!IsLive, Published!StateAt, Published!Newest, Published!StateKeys,
         Published!IsFileState, Landed, Keys, NoEvent, DocsSince, DocOf, IsLive, StateAt, Newest,
         StateKeys, IsFileState
    <3> QED  BY <3>6 DEF Published!Next
  <2>3. CASE ~AppendEvent /\ (RunPublish => pointer' = pointer)
    <3>1. UNCHANGED <<journal, pointer>>
      BY <1>2, <2>3 DEF Next, TextExtracted, SidecarDies, Start, Exit, Gone, StartLocal,
         StartAdopt, AdoptState, StartRebuild, RequestRebuild, Rebuild, RebuildLoad,
         RebuildCommit, RebuildSave, RebuildFails, RunOnce, RunBegin, RunCommit, RunSnapshot,
         RunSave, RunCheckpoint, RunPublishNothing, RunPublish, RunSaveGeneration, RunFails,
         SchemaUpgrade, Crash, vars, bucketVars
    <3> QED  BY <3>1 DEF Published!vars
  <2> QED  BY <2>1, <2>2, <2>3
<1> QED  BY <1>1, <1>2, FoldedAlways, PTL DEF Spec, PublishesAFold, Published!Spec

(***************************************************************************)
(* The extracted texts.  Documents without the text of their file leave it *)
(* to the pending list or to an event after the cursor, wherever documents *)
(* are: the index under each of its three cursors, the queue of the        *)
(* sidecar, and what a run or a rebuild is about to commit.                *)
(***************************************************************************)

\* Whether an extracted text that documents lack will be looked at.
TextIn(j, docs, text, pending, last) ==
    \A f \in TextFiles \ text :
        docs[f] # 0 => f \in pending \/ \E k \in StateKeys(j, f) : k > last

\* The same of what a sidecar has queued.
QueueText(j, b, pending, last) ==
    \A f \in (b.ids \cap TextFiles) \ b.text :
        b.docs[f] # 0 => f \in pending \/ \E k \in StateKeys(j, f) : k > last

\* A list of pending files has no file that neither another one has nor the
\* journal after its cursor.
PendingFrom(j, pending, before, last) ==
    \A f \in pending : f \in before \/ \E k \in StateKeys(j, f) : k > last

PointerText ==
    /\ TextIn(journal, pointer.docs, pointer.text, pointer.pending, pointer.last)
    /\ pc = "adopt" => index.text = pointer.text

DirectoryText ==
    LocalOK /\ ~MustAdopt =>
        TextIn(journal, index.docs, index.text, stateFile.pending, stateFile.last)

ProcessText ==
    /\ Folding =>
          /\ TextIn(journal, index.docs, index.text, state.pending, state.last)
          /\ LocalOK => PendingFrom(journal, state.pending, stateFile.pending, stateFile.last)
    /\ Folding /\ pc # "exit" => QueueText(journal, buffer, state.pending, state.last)

RebuildText ==
    /\ pc = "rcommit" /\ CanCall =>
          LET i == Overlaid(index, buffer) IN
          TextIn(journal, i.docs, i.text, run.pending, run.hi)
    /\ pc = "rsave" => TextIn(journal, index.docs, index.text, run.pending, run.hi)

RunText ==
    /\ pc = "commit" /\ CanCall =>
          LET i == Overlaid(index, buffer) IN
          TextIn(journal, i.docs, i.text, run.pending, run.hi)
    /\ pc \in {"snap", "save"} =>
          /\ TextIn(journal, index.docs, index.text, run.pending, run.hi)
          /\ QueueText(journal, buffer, run.pending, run.hi)
    /\ pc \in {"commit", "snap", "save"} =>
          PendingFrom(journal, run.pending, state.pending, state.last)

TextInv == PointerText /\ DirectoryText /\ ProcessText /\ RebuildText /\ RunText

\* The newest state decides the documents when no state is after the cursor.
LEMMA LastDoc ==
  ASSUME NEW j, NEW f, NEW key \in Nat, NEW m \in StateKeys(j, f) \cup {0},
         NEW d \in DocsSince(j, f, key),
         \A k \in StateKeys(j, f) : k <= key,
         \A k \in StateKeys(j, f) : k <= key => k <= m
  PROVE  d = DocOf(j, m)
<1>1. PICK k \in StateKeys(j, f) \cup {0} :
         d = DocOf(j, k) /\ \A h \in StateKeys(j, f) : h <= key => h <= k
  BY DocsSinceIs
<1>2. \A h \in StateKeys(j, f) : h \in Nat /\ h >= 1
  BY StateKeysType
<1>3. (m # 0 => m <= k) /\ (k # 0 => k <= m) /\ m \in Nat /\ k \in Nat
  BY <1>1, <1>2
<1>4. k = m
  BY <1>3
<1> QED  BY <1>1, <1>4

LEMMA AppendTextStep ==
  ASSUME InOrder, TypeInv, ChainInv, TextInv, AppendEvent
  PROVE  TextInv'
<1>1. \A f \in Files : StateKeys(journal, f) \subseteq StateKeys(journal', f)
  BY AppendExtends DEF Extends
<1>2. UNCHANGED <<metaSnap, pointer, pointerUsable, diskVars, processVars, sidecarVars>>
  BY DEF AppendEvent, Append1
<1>3. TextFiles \subseteq Files /\ state.pending \subseteq Files /\ run.pending \subseteq Files
  BY IndexerAssumption DEF TypeInv, TypeOK, StateType, RunType
<1>4. /\ \A docs, text, pending, last : TextIn(journal, docs, text, pending, last)
                                          => TextIn(journal', docs, text, pending, last)
      /\ \A b, pending, last : QueueText(journal, b, pending, last)
                                 => QueueText(journal', b, pending, last)
      /\ \A pending, before, last : pending \subseteq Files
            /\ PendingFrom(journal, pending, before, last)
                 => PendingFrom(journal', pending, before, last)
  BY <1>1, <1>3 DEF TextIn, QueueText, PendingFrom
<1>5. PointerText'
  BY <1>2, <1>4 DEF TextInv, PointerText, diskVars, processVars
<1>6. DirectoryText'
  BY <1>2, <1>4 DEF TextInv, DirectoryText, MustAdopt, Remote, LocalOK, diskVars
<1>7. ProcessText'
  BY <1>2, <1>3, <1>4 DEF TextInv, ProcessText, Folding, LocalOK, diskVars, processVars, sidecarVars
<1>8. RebuildText'
  BY <1>2, <1>4 DEF TextInv, RebuildText, CanCall, diskVars, processVars, sidecarVars
<1>9. RunText'
  BY <1>2, <1>3, <1>4 DEF TextInv, RunText, CanCall, diskVars, processVars, sidecarVars
<1> QED  BY <1>5, <1>6, <1>7, <1>8, <1>9 DEF TextInv

\* Steps that touch nothing the invariant speaks of, or only lose the queue.
LEMMA IdleTextStep ==
  ASSUME TextInv,
         UNCHANGED <<journal, pointer, pointerUsable, diskVars, processVars>>,
         \/ UNCHANGED sidecarVars
         \/ sidecar' = "dead" /\ buffer'.ids = {}
  PROVE  TextInv'
<1>1. PointerText' /\ DirectoryText'
  BY DEF TextInv, PointerText, DirectoryText, MustAdopt, Remote, LocalOK, diskVars, processVars
<1>2. ProcessText'
  BY DEF TextInv, ProcessText, Folding, LocalOK, QueueText, diskVars, processVars, sidecarVars
<1>3. RebuildText'
  BY DEF TextInv, RebuildText, CanCall, diskVars, processVars, sidecarVars
<1>4. RunText'
  BY DEF TextInv, RunText, CanCall, QueueText, diskVars, processVars, sidecarVars
<1> QED  BY <1>1, <1>2, <1>3, <1>4 DEF TextInv

LEMMA GoneTextStep ==
  ASSUME TextInv, UNCHANGED bucketVars, Gone, UNCHANGED diskVars \/ stateFile' = NoState
  PROVE  TextInv'
<1>1. pc' = "down" /\ UNCHANGED <<journal, pointer, pointerUsable>>
  BY DEF Gone, bucketVars
<1>2. DirectoryText'
  BY <1>1 DEF TextInv, DirectoryText, MustAdopt, Remote, LocalOK, diskVars
<1>3. PointerText' /\ ProcessText' /\ RebuildText' /\ RunText'
  BY <1>1 DEF TextInv, PointerText, ProcessText, Folding, RebuildText, RunText
<1> QED  BY <1>2, <1>3 DEF TextInv

LEMMA StartTextStep ==
  ASSUME TypeInv, FoldInv, TextInv,
         StartLocal \/ StartAdopt \/ AdoptState \/ StartRebuild \/ RequestRebuild \/ SchemaUpgrade
  PROVE  TextInv'
<1>1. CASE StartLocal
  <2>1. /\ pc = "down" /\ pc' = "begin" /\ ~MustAdopt /\ LocalOK /\ state' = stateFile
        /\ UNCHANGED <<journal, pointer, pointerUsable, index, stateFile, run, buffer>>
    BY <1>1 DEF StartLocal, bucketVars, diskVars
  <2>2. buffer.ids = {}
    BY <2>1 DEF FoldInv, ProcessCovers
  <2>3. PointerText' /\ DirectoryText'
    BY <2>1 DEF TextInv, PointerText, DirectoryText, MustAdopt, Remote, LocalOK
  <2>4. ProcessText' /\ RebuildText' /\ RunText'
    BY <2>1, <2>2 DEF TextInv, DirectoryText, ProcessText, Folding, QueueText, PendingFrom,
       RebuildText, RunText
  <2> QED  BY <2>3, <2>4 DEF TextInv
<1>2. CASE StartAdopt
  <2>1. /\ pc = "down" /\ pc' = "adopt" /\ MustAdopt /\ index'.text = pointer.text
        /\ UNCHANGED <<journal, pointer, pointerUsable, stateFile>>
    BY <1>2 DEF StartAdopt, bucketVars
  <2>2. MustAdopt'
    BY <2>1 DEF MustAdopt, Remote, LocalOK
  <2> QED  BY <2>1, <2>2 DEF TextInv, PointerText, DirectoryText, ProcessText, Folding,
              RebuildText, RunText
<1>3. CASE AdoptState
  <2>1. /\ pc = "adopt" /\ pc' = "begin"
        /\ state'.last = pointer.last /\ state'.pending = pointer.pending
        /\ stateFile' = state'
        /\ UNCHANGED <<journal, pointer, pointerUsable, index, run, buffer>>
    BY <1>3 DEF AdoptState, bucketVars
  <2>2. index.docs = pointer.docs /\ index.text = pointer.text /\ buffer.ids = {}
    BY <2>1 DEF FoldInv, PointerCovers, ProcessCovers, TextInv, PointerText
  <2>3. PointerText' /\ DirectoryText'
    BY <2>1, <2>2 DEF TextInv, PointerText, DirectoryText
  <2>4. ProcessText' /\ RebuildText' /\ RunText'
    BY <2>1, <2>2 DEF TextInv, PointerText, ProcessText, QueueText, PendingFrom,
       RebuildText, RunText
  <2> QED  BY <2>3, <2>4 DEF TextInv
<1>4. CASE StartRebuild \/ RequestRebuild
  <2>1. /\ pc' = "rload" /\ stateFile' = NoState
        /\ UNCHANGED <<journal, pointer, pointerUsable>>
    BY <1>4 DEF StartRebuild, RequestRebuild, bucketVars
  <2> QED  BY <2>1 DEF TextInv, PointerText, DirectoryText, LocalOK, ProcessText, Folding,
              RebuildText, RunText
<1>5. CASE SchemaUpgrade
  <2>1. pc = "down" /\ stateFile' = NoState /\ UNCHANGED <<journal, pointer, pc>>
    BY <1>5 DEF SchemaUpgrade, processVars
  <2> QED  BY <2>1 DEF TextInv, PointerText, DirectoryText, LocalOK, ProcessText, Folding,
              RebuildText, RunText
<1> QED  BY <1>1, <1>2, <1>3, <1>4, <1>5

\* A rebuild lists the files whose text is not there.
LEMMA RebuildTextStep ==
  ASSUME TypeInv, FoldInv, TextInv, Rebuild
  PROVE  TextInv'
<1>1. CASE RebuildLoad
  <2> DEFINE known == {f \in Files : metaSnap[f] # 0}
  <2>1. /\ pc = "rload" /\ pc' = "rcommit"
        /\ buffer' = Buffered(known, metaSnap)
        /\ run'.pending = TextMissing(known, metaSnap)
        /\ UNCHANGED <<journal, pointer, pointerUsable, index, stateFile, textReady>>
    BY <1>1 DEF RebuildLoad, bucketVars, diskVars, TypeInv, TypeOK, RunType
  <2>2. index.docs = NoDocs /\ stateFile = NoState
    BY <2>1 DEF FoldInv, RebuildCovers
  <2> DEFINE i == Overlaid(index, buffer')
  <2>3. ASSUME NEW f \in TextFiles \ i.text, i.docs[f] # 0 PROVE f \in run'.pending
    <3>1. f \in Files /\ NoDocs[f] = 0
      BY IndexerAssumption DEF NoDocs
    <3>2. f \in known /\ i.docs[f] = DocOf(journal, metaSnap[f])
      BY <2>1, <2>2, <2>3, <3>1 DEF Overlaid, Buffered
    <3>3. IsLive(journal, metaSnap[f])
      BY <2>3, <3>2 DEF DocOf
    <3>4. f \notin textReady
      BY <2>1, <2>3, <3>2, <3>3 DEF Overlaid, Buffered
    <3> QED  BY <2>1, <3>2, <3>3, <3>4 DEF TextMissing
  <2>4. TextIn(journal, i.docs, i.text, run'.pending, run'.hi)
    <3> HIDE DEF i
    <3> QED  BY <2>3 DEF TextIn
  <2> HIDE DEF known
  <2>5. RebuildText'
    BY <2>1, <2>4 DEF RebuildText
  <2> QED  BY <2>1, <2>2, <2>5 DEF TextInv, PointerText, DirectoryText, LocalOK, ProcessText,
              Folding, RunText
<1>2. CASE RebuildCommit
  <2>1. /\ pc = "rcommit" /\ pc' = "rsave" /\ CanCall
        /\ index' = Overlaid(index, buffer)
        /\ UNCHANGED <<journal, pointer, pointerUsable, stateFile, run>>
    BY <1>2 DEF RebuildCommit, Committed, bucketVars
  <2>2. stateFile = NoState
    BY <2>1 DEF FoldInv, RebuildCovers
  <2> QED  BY <2>1, <2>2 DEF TextInv, PointerText, DirectoryText, LocalOK, ProcessText,
              Folding, RebuildText, RunText
<1>3. CASE RebuildSave
  <2>1. /\ pc = "rsave" /\ pc' = "begin"
        /\ state'.last = run.hi /\ state'.pending = run.pending /\ stateFile' = state'
        /\ UNCHANGED <<journal, pointer, pointerUsable, index, buffer>>
    BY <1>3 DEF RebuildSave, bucketVars, sidecarVars, TypeInv, TypeOK, StateType
  <2>2. buffer.ids = {} /\ TextIn(journal, index.docs, index.text, run.pending, run.hi)
    BY <2>1 DEF FoldInv, ProcessCovers, TextInv, RebuildText
  <2>3. PointerText' /\ DirectoryText'
    BY <2>1, <2>2 DEF TextInv, PointerText, DirectoryText
  <2>4. ProcessText' /\ RebuildText' /\ RunText'
    BY <2>1, <2>2 DEF ProcessText, QueueText, PendingFrom, RebuildText, RunText
  <2> QED  BY <2>3, <2>4 DEF TextInv
<1> QED  BY <1>1, <1>2, <1>3 DEF Rebuild

\* A rebuild that fails at start leaves no documents.
LEMMA RebuildFailsTextStep ==
  ASSUME RebuildsEnd, TypeInv, FoldInv, TextInv, RebuildFails
  PROVE  TextInv'
<1>1. /\ pc \in {"rload", "rcommit"} /\ RunReturnsError
      /\ ~CanCall \/ "rebuild failure" \in Disturbances
      /\ UNCHANGED <<journal, pointer, pointerUsable, index, stateFile>>
  BY Zenon DEF RebuildFails, Disturb, bucketVars, diskVars
<1>2. ~run.live
  <2>1. run.live => "rebuild" \in Disturbances
    BY <1>1 DEF FoldInv, RebuildCovers
  <2>2. ~CanCall => "death" \in Disturbances
    BY DEF FoldInv, SidecarLives
  <2> QED  BY <1>1, <2>1, <2>2, Zenon DEF RebuildsEnd
<1>3. pc' = "exit"
  BY <1>1, <1>2 DEF RunReturnsError
<1>4. stateFile = NoState /\ index.docs = NoDocs
  BY <1>1 DEF FoldInv, RebuildCovers
<1>5. \A text, pending, last : TextIn(journal, NoDocs, text, pending, last)
  BY IndexerAssumption DEF TextIn, NoDocs
<1> QED  BY <1>1, <1>3, <1>4, <1>5 DEF TextInv, PointerText, DirectoryText, LocalOK, ProcessText,
            RebuildText, RunText

\* Steps of a run that only end it, or go on to the publication.
LEMMA EndTextStep ==
  ASSUME TextInv,
         pc \in {"begin", "idle", "commit", "snap", "chain", "publish"},
         UNCHANGED <<journal, pointer, pointerUsable, index, stateFile, state, buffer>>,
         pc' = "publish" \/ pc' = "idle" \/ RunReturnsError
  PROVE  TextInv'
<1>1. pc' \in {"publish", "idle", "exit"}
  BY ErrorLive
<1>2. PointerText' /\ DirectoryText'
  BY <1>1 DEF TextInv, PointerText, DirectoryText, MustAdopt, Remote, LocalOK
<1>3. ProcessText' /\ RebuildText' /\ RunText'
  BY <1>1 DEF TextInv, ProcessText, Folding, LocalOK, RebuildText, RunText
<1> QED  BY <1>2, <1>3 DEF TextInv

\* A run keeps on its list what it does not look at again, unless the file is
\* deleted, and adds what it indexes without text.
LEMMA BeginTextStep ==
  ASSUME TypeInv, FoldInv, TextInv, ChainInv', RunBegin
  PROVE  TextInv'
<1> DEFINE entries == Entries
           touched == Touched(entries)
           changed == touched \cup Rechecked(entries)
           states  == [f \in Files |-> IF f \in touched
                                         THEN Newest(Of(f, entries)) ELSE metas[f]]
           waiting == {f \in state.pending : f \in touched \/ IsLive(journal, metas[f])}
           hi == run'.hi
<1>1. /\ pc \in {"begin", "idle"} /\ pc' \in {"commit", "save", "chain"}
      /\ run'.from = state.last /\ run'.entries = entries
      /\ run'.pending = (waiting \ changed) \cup TextMissing(changed, states)
      /\ UNCHANGED <<journal, pointer, pointerUsable, index, stateFile, state, textReady>>
  BY DEF RunBegin, bucketVars, diskVars
<1>2. /\ changed # {} <=> pc' = "commit"
      /\ changed # {} => buffer' = Queued(Buffered(changed, states))
      /\ changed = {} => UNCHANGED buffer
  BY DEF RunBegin, sidecarVars
<1>3. hi \in Nat /\ state.last \in Nat /\ state.last <= hi /\ entries = (state.last + 1)..hi
  <2>1. RunIsInterval'
    BY DEF ChainInv
  <2>2. run'.from <= run'.hi /\ run'.entries = (run'.from + 1)..run'.hi
    BY <1>1, <2>1 DEF RunIsInterval
  <2>3. hi \in Nat
    <3>1. hi = IF entries = {} THEN state.last ELSE Newest(entries)
      BY DEF RunBegin
    <3>2. entries \in SUBSET Keys
      BY KeySets DEF Entries
    <3> HIDE DEF entries
    <3> QED  BY <3>1, <3>2, NewestType, FoldTypes, JournalAssumption
  <2> QED  BY <1>1, <2>2, <2>3, FoldTypes
<1> HIDE DEF entries, hi
<1>4. \A f \in Files : \A k \in StateKeys(journal, f) : k \in Nat /\ k # 0
  BY StateKeysType
<1>5. /\ HasStates(journal, metas) /\ Seen(journal, state.last, metas)
      /\ CoversIn(journal, index.docs, state.last)
      /\ QueueCovers(journal, buffer, state.last)
      /\ TextIn(journal, index.docs, index.text, state.pending, state.last)
      /\ QueueText(journal, buffer, state.pending, state.last)
  BY <1>1 DEF FoldInv, PointerCovers, ProcessCovers, Folding, TextInv, ProcessText
<1>6. /\ touched \subseteq changed /\ changed \subseteq Files /\ TextFiles \subseteq Files
      /\ \A f \in changed \ touched : f \in textReady
  BY IndexerAssumption DEF Touched, Rechecked, TypeInv, TypeOK, StateType
<1>7. \A f \in touched : \E k \in StateKeys(journal, f) : k > state.last
  <2> SUFFICES ASSUME NEW f \in touched PROVE \E k \in StateKeys(journal, f) : k > state.last
    OBVIOUS
  <2>1. PICK k \in entries : k \in StateKeys(journal, f)
    BY DEF Touched, Of
  <2> QED  BY <1>3, <2>1
\* A file that is neither touched nor looked at again keeps its place.
<1>8. ASSUME NEW f \in Files \ changed, NEW d \in DocsSince(journal, f, state.last), d # 0,
             f \in state.pending \/ \E k \in StateKeys(journal, f) : k > state.last
      PROVE  f \in run'.pending \/ \E k \in StateKeys(journal, f) : k > hi
  <2>1. CASE \E k \in StateKeys(journal, f) : k > hi
    BY <2>1
  <2>2. CASE \A k \in StateKeys(journal, f) : ~(k > hi)
    <3>1. \A k \in StateKeys(journal, f) : k <= state.last
      <4> SUFFICES ASSUME NEW k \in StateKeys(journal, f) PROVE k <= state.last
        OBVIOUS
      <4>1. k \notin entries /\ k \in Nat /\ ~(k > hi)
        BY <1>4, <1>6, <1>8, <2>2 DEF Touched, Of
      <4> QED  BY <1>3, <4>1
    <3>2. f \in state.pending
      BY <1>3, <1>4, <1>8, <3>1
    <3>3. metas[f] \in StateKeys(journal, f) \cup {0}
          /\ \A k \in StateKeys(journal, f) : k <= state.last => k <= metas[f]
      BY <1>5 DEF HasStates, Seen
    <3>4. d = DocOf(journal, metas[f])
      BY <1>3, <1>8, <3>1, <3>3, LastDoc
    <3>5. IsLive(journal, metas[f])
      BY <1>8, <3>4 DEF DocOf
    <3> QED  BY <1>1, <1>8, <3>2, <3>5
  <2> QED  BY <2>1, <2>2
\* A file that is indexed without its text is listed.
<1>9. ASSUME NEW f \in changed \cap TextFiles, DocOf(journal, states[f]) # 0,
             ~(f \in textReady /\ IsLive(journal, states[f]))
      PROVE  f \in TextMissing(changed, states) /\ f \in touched
  <2>1. IsLive(journal, states[f])
    BY <1>9 DEF DocOf
  <2>2. f \notin textReady
    BY <1>9, <2>1
  <2> QED  BY <1>6, <1>9, <2>1, <2>2 DEF TextMissing
<1>10. PendingFrom(journal, run'.pending, state.pending, state.last)
  <2> SUFFICES ASSUME NEW f \in run'.pending, f \notin state.pending
               PROVE  \E k \in StateKeys(journal, f) : k > state.last
    BY DEF PendingFrom
  <2>1. f \in TextMissing(changed, states)
    BY <1>1
  <2>2. f \in changed /\ f \notin textReady
    BY <2>1 DEF TextMissing
  <2> QED  BY <1>6, <1>7, <2>2
<1>11. ASSUME changed # {}
       PROVE  LET i == Overlaid(index, buffer') IN
              /\ TextIn(journal, i.docs, i.text, run'.pending, hi)
              /\ QueueText(journal, buffer', state.pending, state.last)
  <2> HIDE DEF states, changed, touched
  <2> DEFINE i == Overlaid(index, buffer')
  <2>1. buffer.ids \subseteq Files
    BY DEF TypeInv, TypeOK, BufferType
  <2>2. /\ buffer'.ids = buffer.ids \cup changed
        /\ \A f \in Files : buffer'.docs[f] = IF f \in changed THEN DocOf(journal, states[f])
                                                               ELSE buffer.docs[f]
        /\ \A f \in Files : f \in buffer'.text <=>
              IF f \in changed
                THEN f \in TextFiles \cap textReady /\ IsLive(journal, states[f])
                ELSE f \in buffer.text
    <3>1. buffer' = Queued(Buffered(changed, states))
      BY <1>2, <1>11
    <3>2. buffer'.text = (buffer.text \ changed)
                           \cup {f \in changed \cap TextFiles \cap textReady :
                                   IsLive(journal, states[f])}
      BY <3>1 DEF Queued, Overlaid, Buffered
    <3>3. buffer'.ids = buffer.ids \cup changed
      BY <3>1 DEF Queued, Buffered
    <3>4. \A f \in Files : buffer'.docs[f] = IF f \in changed THEN DocOf(journal, states[f])
                                                              ELSE buffer.docs[f]
      BY <3>1 DEF Queued, Overlaid, Buffered
    <3> QED  BY <3>2, <3>3, <3>4
  <2>3. /\ \A f \in Files : i.docs[f] = IF f \in buffer'.ids THEN buffer'.docs[f] ELSE index.docs[f]
        /\ \A f \in Files : f \in i.text <=> \/ f \in index.text /\ f \notin buffer'.ids
                                             \/ f \in buffer'.text
    BY DEF Overlaid
  <2> HIDE DEF i
  <2>4. QueueText(journal, buffer', state.pending, state.last)
    <3> SUFFICES ASSUME NEW f \in (buffer'.ids \cap TextFiles) \ buffer'.text,
                        buffer'.docs[f] # 0
                 PROVE  f \in state.pending \/ \E k \in StateKeys(journal, f) : k > state.last
      BY DEF QueueText
    <3>1. CASE f \in changed
      <4>1. f \in touched
        BY <1>6, <1>9, <2>2, <3>1
      <4> QED  BY <1>7, <4>1
    <3>2. CASE f \notin changed
      BY <1>5, <1>6, <2>2, <3>2 DEF QueueText
    <3> QED  BY <3>1, <3>2
  <2>5. TextIn(journal, i.docs, i.text, run'.pending, hi)
    <3> SUFFICES ASSUME NEW f \in TextFiles \ i.text, i.docs[f] # 0
                 PROVE  f \in run'.pending \/ \E k \in StateKeys(journal, f) : k > hi
      BY DEF TextIn
    <3>1. CASE f \in changed
      <4>1. f \in TextMissing(changed, states)
        BY <1>6, <1>9, <2>2, <2>3, <3>1
      <4> QED  BY <1>1, <4>1
    <3>2. CASE f \in buffer.ids \ changed
      <4>1. /\ f \in Files /\ i.docs[f] = buffer.docs[f] /\ f \notin buffer.text
            /\ i.docs[f] \in DocsSince(journal, f, state.last)
        BY <1>5, <1>6, <2>2, <2>3, <3>2 DEF QueueCovers
      <4>2. f \in state.pending \/ \E k \in StateKeys(journal, f) : k > state.last
        BY <1>5, <3>2, <4>1 DEF QueueText
      <4> QED  BY <1>8, <3>2, <4>1, <4>2
    <3>3. CASE f \notin buffer.ids \cup changed
      <4>1. /\ f \in Files /\ i.docs[f] = index.docs[f] /\ f \notin index.text
            /\ i.docs[f] \in DocsSince(journal, f, state.last)
        BY <1>5, <1>6, <2>2, <2>3, <3>3 DEF CoversIn
      <4>2. f \in state.pending \/ \E k \in StateKeys(journal, f) : k > state.last
        BY <1>5, <4>1 DEF TextIn
      <4> QED  BY <1>8, <3>3, <4>1, <4>2
    <3> QED  BY <3>1, <3>2, <3>3
  <2> QED  BY <2>4, <2>5 DEF i
<1>12. ASSUME changed = {}
       PROVE  /\ TextIn(journal, index.docs, index.text, run'.pending, hi)
              /\ QueueText(journal, buffer, run'.pending, hi)
  <2> HIDE DEF states, touched
  <2>1. TextIn(journal, index.docs, index.text, run'.pending, hi)
    <3> SUFFICES ASSUME NEW f \in TextFiles \ index.text, index.docs[f] # 0
                 PROVE  f \in run'.pending \/ \E k \in StateKeys(journal, f) : k > hi
      BY DEF TextIn
    <3>1. index.docs[f] \in DocsSince(journal, f, state.last) /\ f \in Files \ changed
      BY <1>5, <1>6, <1>12 DEF CoversIn
    <3>2. f \in state.pending \/ \E k \in StateKeys(journal, f) : k > state.last
      BY <1>5 DEF TextIn
    <3> HIDE DEF changed
    <3> QED  BY <1>8, <3>1, <3>2
  <2>2. QueueText(journal, buffer, run'.pending, hi)
    <3> SUFFICES ASSUME NEW f \in (buffer.ids \cap TextFiles) \ buffer.text, buffer.docs[f] # 0
                 PROVE  f \in run'.pending \/ \E k \in StateKeys(journal, f) : k > hi
      BY DEF QueueText
    <3>1. buffer.docs[f] \in DocsSince(journal, f, state.last) /\ f \in Files \ changed
      BY <1>5, <1>6, <1>12 DEF QueueCovers
    <3>2. f \in state.pending \/ \E k \in StateKeys(journal, f) : k > state.last
      BY <1>5 DEF QueueText
    <3> HIDE DEF changed
    <3> QED  BY <1>8, <3>1, <3>2
  <2> QED  BY <2>1, <2>2
<1> HIDE DEF states, changed, touched, waiting
<1>13. PointerText' /\ DirectoryText'
  BY <1>1 DEF TextInv, PointerText, DirectoryText, MustAdopt, Remote, LocalOK
<1>14. QueueText(journal, buffer', state.pending, state.last)
  BY <1>2, <1>5, <1>11
<1>15. ProcessText' /\ RebuildText'
  BY <1>1, <1>14 DEF TextInv, ProcessText, Folding, LocalOK, RebuildText
<1>16. RunText'
  <2>1. pc' = "save" => /\ TextIn(journal, index.docs, index.text, run'.pending, hi)
                        /\ QueueText(journal, buffer', run'.pending, hi)
    BY <1>1, <1>2, <1>12
  <2>2. pc' = "commit" => LET i == Overlaid(index, buffer') IN
                          TextIn(journal, i.docs, i.text, run'.pending, hi)
    BY <1>2, <1>11
  <2> QED  BY <1>1, <1>10, <2>1, <2>2 DEF RunText, hi
<1> QED  BY <1>13, <1>15, <1>16 DEF TextInv

\* A commit is good for all three cursors: a file listed for a later one is on
\* the list of an earlier one, or in the journal after it.
LEMMA CommitTextStep ==
  ASSUME TypeInv, FoldInv, TextInv, ChainInv, RunCommit
  PROVE  TextInv'
<1>1. /\ pc = "commit" /\ pc' = "snap" /\ CanCall
      /\ index' = Overlaid(index, buffer) /\ buffer' = EmptyBuffer
      /\ UNCHANGED <<journal, pointer, pointerUsable, stateFile, state, run>>
  BY DEF RunCommit, Committed, bucketVars
<1>2. /\ state.last \in Nat /\ stateFile.last \in Nat /\ EmptyBuffer.ids = {}
      /\ LocalOK => stateFile.last <= state.last
      /\ \A f \in Files : \A k \in StateKeys(journal, f) : k \in Nat
      /\ TextFiles \subseteq Files
  BY <1>1, FoldTypes, StateKeysType, IndexerAssumption DEF FoldInv, ProcessCovers, Folding
<1>3. TextIn(journal, index'.docs, index'.text, run.pending, run.hi)
  BY <1>1 DEF TextInv, RunText
<1>4. /\ TextIn(journal, index.docs, index.text, state.pending, state.last)
      /\ QueueText(journal, buffer, state.pending, state.last)
      /\ LocalOK => PendingFrom(journal, state.pending, stateFile.pending, stateFile.last)
  BY <1>1 DEF TextInv, ProcessText, Folding
<1>5. TextIn(journal, index'.docs, index'.text, state.pending, state.last)
  <2> SUFFICES ASSUME NEW f \in TextFiles \ index'.text, index'.docs[f] # 0
               PROVE  f \in state.pending \/ \E k \in StateKeys(journal, f) : k > state.last
    BY DEF TextIn
  <2>1. f \in Files /\ index'.docs[f] = IF f \in buffer.ids THEN buffer.docs[f] ELSE index.docs[f]
    BY <1>1, <1>2 DEF Overlaid
  <2>2. f \notin buffer.text /\ (f \in index.text => f \in buffer.ids)
    BY <1>1 DEF Overlaid
  <2> QED  BY <1>4, <2>1, <2>2 DEF TextIn, QueueText
<1>6. LocalOK => TextIn(journal, index'.docs, index'.text, stateFile.pending, stateFile.last)
  <2> SUFFICES ASSUME LocalOK, NEW f \in TextFiles \ index'.text, index'.docs[f] # 0
               PROVE  f \in stateFile.pending \/ \E k \in StateKeys(journal, f) : k > stateFile.last
    BY DEF TextIn
  <2>1. CASE f \in state.pending
    BY <1>4, <2>1 DEF PendingFrom
  <2>2. CASE f \notin state.pending
    <3>1. PICK k \in StateKeys(journal, f) : k > state.last
      BY <1>5, <2>2 DEF TextIn
    <3>2. k > stateFile.last
      BY <1>2, <3>1
    <3> QED  BY <3>2
  <2> QED  BY <2>1, <2>2
<1>7. PointerText' /\ DirectoryText'
  BY <1>1, <1>6 DEF TextInv, PointerText, DirectoryText, LocalOK
<1>8. ProcessText' /\ RebuildText'
  BY <1>1, <1>2, <1>4, <1>5 DEF ProcessText, LocalOK, QueueText, RebuildText
<1>9. RunText'
  BY <1>1, <1>2, <1>3 DEF TextInv, RunText, QueueText
<1> QED  BY <1>7, <1>8, <1>9 DEF TextInv

LEMMA SnapshotTextStep ==
  ASSUME TypeInv, TextInv, RunSnapshot
  PROVE  TextInv'
<1>1. /\ pc = "snap"
      /\ UNCHANGED <<journal, pointer, pointerUsable, index, stateFile, state, buffer>>
      /\ \/ /\ pc' \in {"save", "snap"}
            /\ run'.pending = run.pending /\ run'.hi = run.hi
         \/ RunReturnsError
  BY DEF RunSnapshot, diskVars, sidecarVars, TypeInv, TypeOK, RunType
<1>2. CASE RunReturnsError
  BY <1>1, <1>2, EndTextStep
<1>3. CASE pc' \in {"save", "snap"} /\ run'.pending = run.pending /\ run'.hi = run.hi
  <2>1. PointerText' /\ DirectoryText'
    BY <1>1, <1>3 DEF TextInv, PointerText, DirectoryText, MustAdopt, Remote, LocalOK
  <2>2. ProcessText' /\ RebuildText' /\ RunText'
    BY <1>1, <1>3 DEF TextInv, ProcessText, Folding, LocalOK, RebuildText, RunText
  <2> QED  BY <2>1, <2>2 DEF TextInv
<1> QED  BY <1>1, <1>2, <1>3

LEMMA SaveTextStep ==
  ASSUME TypeInv, FoldInv, TextInv, ChainInv, RunSave
  PROVE  TextInv'
<1>1. /\ pc = "save"
      /\ state'.last = run.hi /\ state'.pending = run.pending
      /\ \/ stateFile' = state' /\ pc' = "chain"
         \/ RunReturnsError /\ UNCHANGED stateFile
      /\ UNCHANGED <<journal, pointer, pointerUsable, index, buffer>>
  BY DEF RunSave, bucketVars, sidecarVars, TypeInv, TypeOK, StateType
<1>2. pc' \in {"chain", "idle", "exit"}
  BY <1>1, ErrorLive
<1>3. /\ state.last \in Nat /\ stateFile.last \in Nat
      /\ LocalOK => stateFile.last <= state.last
      /\ run.pending \subseteq Files
      /\ \A f \in Files : \A k \in StateKeys(journal, f) : k \in Nat
  BY <1>1, FoldTypes, StateKeysType DEF FoldInv, ProcessCovers, Folding, TypeInv, TypeOK, RunType
<1>4. /\ TextIn(journal, index.docs, index.text, run.pending, run.hi)
      /\ QueueText(journal, buffer, run.pending, run.hi)
      /\ PendingFrom(journal, run.pending, state.pending, state.last)
      /\ LocalOK => PendingFrom(journal, state.pending, stateFile.pending, stateFile.last)
  BY <1>1 DEF TextInv, RunText, ProcessText, Folding
<1>5. LocalOK => PendingFrom(journal, run.pending, stateFile.pending, stateFile.last)
  <2> SUFFICES ASSUME LocalOK, NEW f \in run.pending
               PROVE  f \in stateFile.pending \/ \E k \in StateKeys(journal, f) : k > stateFile.last
    BY DEF PendingFrom
  <2>1. CASE f \in state.pending
    BY <1>4, <2>1 DEF PendingFrom
  <2>2. CASE f \notin state.pending
    <3>1. PICK k \in StateKeys(journal, f) : k > state.last
      BY <1>4, <2>2 DEF PendingFrom
    <3> QED  BY <1>3, <3>1
  <2> QED  BY <2>1, <2>2
<1>6. PointerText'
  BY <1>1, <1>2 DEF TextInv, PointerText
<1>7. DirectoryText'
  BY <1>1, <1>4 DEF TextInv, DirectoryText, MustAdopt, Remote, LocalOK
<1>8. ProcessText'
  <2>1. (LocalOK => PendingFrom(journal, state.pending, stateFile.pending, stateFile.last))'
    BY <1>1, <1>5 DEF LocalOK, PendingFrom
  <2> QED  BY <1>1, <1>2, <1>4, <2>1 DEF ProcessText
<1>9. RebuildText' /\ RunText'
  BY <1>2 DEF RebuildText, RunText
<1> QED  BY <1>6, <1>7, <1>8, <1>9 DEF TextInv

\* What is published carries the list that goes with it.
LEMMA PublishTextStep ==
  ASSUME TypeInv, FoldInv, TextInv, RunPublish
  PROVE  TextInv'
<1>1. /\ pc = "publish" /\ unpublished
      /\ pc' = "savegen" \/ RunReturnsError
      /\ state'.last = state.last /\ state'.pending = state.pending
      /\ \/ UNCHANGED <<pointer, pointerUsable>>
         \/ pointer' = NextPointer /\ pointerUsable' = TRUE
      /\ UNCHANGED <<journal, index, stateFile, buffer>>
  BY DEF RunPublish, TypeInv, TypeOK, StateType
<1>2. pc' \in {"savegen", "idle", "exit"}
  BY <1>1, ErrorLive
<1>3. ProcessText' /\ RebuildText' /\ RunText'
  BY <1>1, <1>2 DEF TextInv, ProcessText, Folding, LocalOK, RebuildText, RunText
<1>4. CASE UNCHANGED <<pointer, pointerUsable>>
  <2>1. PointerText' /\ DirectoryText'
    BY <1>1, <1>2, <1>4 DEF TextInv, PointerText, DirectoryText, MustAdopt, Remote, LocalOK
  <2> QED  BY <1>3, <2>1 DEF TextInv
<1>5. CASE pointer' = NextPointer /\ pointerUsable' = TRUE
  <2>1. /\ pointer'.generation = pointer.generation + 1
        /\ pointer'.last = state.last /\ pointer'.pending = state.pending
        /\ pointer'.docs = index.docs /\ pointer'.text = index.text
    BY <1>5 DEF NextPointer
  <2>2. TextIn(journal, index.docs, index.text, state.pending, state.last)
    BY <1>1 DEF TextInv, ProcessText, Folding
  <2>3. pointer.generation \in Nat /\ stateFile.generation \in Int
        /\ stateFile.generation <= pointer.generation /\ Snapshot
    BY <1>1, FoldTypes DEF FoldInv, PointerCovers
  <2>4. MustAdopt'
    BY <1>1, <1>5, <2>1, <2>3 DEF MustAdopt, Remote
  <2>5. PointerText' /\ DirectoryText'
    BY <1>1, <1>2, <2>1, <2>2, <2>4 DEF PointerText, DirectoryText
  <2> QED  BY <1>3, <2>5 DEF TextInv
<1> QED  BY <1>1, <1>4, <1>5

LEMMA SaveGenerationTextStep ==
  ASSUME TypeInv, TextInv, RunSaveGeneration
  PROVE  TextInv'
<1>1. /\ pc = "savegen"
      /\ pc' = "idle" \/ RunReturnsError
      /\ stateFile' = state \/ UNCHANGED stateFile
      /\ UNCHANGED <<journal, pointer, pointerUsable, index, state, buffer>>
  BY DEF RunSaveGeneration, bucketVars, sidecarVars
<1>2. pc' \in {"idle", "exit"}
  BY <1>1, ErrorLive
<1>3. /\ TextIn(journal, index.docs, index.text, state.pending, state.last)
      /\ QueueText(journal, buffer, state.pending, state.last)
      /\ LocalOK => PendingFrom(journal, state.pending, stateFile.pending, stateFile.last)
  BY <1>1 DEF TextInv, ProcessText, Folding
<1>4. PointerText'
  BY <1>1, <1>2 DEF TextInv, PointerText
<1>5. CASE stateFile' = state
  BY <1>1, <1>2, <1>3, <1>4, <1>5
     DEF TextInv, DirectoryText, ProcessText, PendingFrom, RebuildText, RunText
<1>6. CASE stateFile' = stateFile
  BY <1>1, <1>2, <1>3, <1>4, <1>6 DEF TextInv, DirectoryText, MustAdopt, Remote, LocalOK,
     ProcessText, RebuildText, RunText
<1> QED  BY <1>1, <1>5, <1>6

LEMMA TextStep ==
  ASSUME InOrder, RebuildsEnd, Folded, TextInv, [Next]_vars
  PROVE  TextInv'
<1>1. TypeInv /\ ChainInv /\ ChainInv' /\ FoldInv
  BY IndexerStep DEF Step, Folded, TypeAndChain
<1>2. CASE AppendEvent
  BY <1>1, <1>2, AppendTextStep
<1>3. CASE TextExtracted \/ SidecarDies \/ UNCHANGED vars
  <2>1. UNCHANGED <<journal, pointer, pointerUsable, diskVars, processVars>>
    BY <1>3 DEF TextExtracted, SidecarDies, vars, bucketVars
  <2>2. UNCHANGED sidecarVars \/ (sidecar' = "dead" /\ buffer'.ids = {})
    BY <1>3 DEF TextExtracted, SidecarDies, vars, EmptyBuffer
  <2> QED  BY <2>1, <2>2, IdleTextStep
<1>4. CASE Exit \/ Crash
  <2>1. UNCHANGED bucketVars /\ Gone /\ (UNCHANGED diskVars \/ stateFile' = NoState)
    BY <1>4 DEF Exit, Crash
  <2> QED  BY <2>1, GoneTextStep
<1>5. CASE \/ StartLocal \/ StartAdopt \/ AdoptState \/ StartRebuild
           \/ RequestRebuild \/ SchemaUpgrade
  BY <1>1, <1>5, StartTextStep
<1>6. CASE Rebuild \/ RebuildFails
  BY <1>1, <1>6, RebuildTextStep, RebuildFailsTextStep
<1>7. CASE RunCheckpoint \/ RunPublishNothing \/ RunFails
  <2>1. /\ pc \in {"begin", "idle", "commit", "chain", "publish"}
        /\ pc' = "publish" \/ pc' = "idle" \/ RunReturnsError
        /\ UNCHANGED <<journal, pointer, pointerUsable, index, stateFile, state, buffer>>
    BY <1>7 DEF RunCheckpoint, RunPublishNothing, RunFails, bucketVars, diskVars, sidecarVars
  <2> QED  BY <2>1, EndTextStep
<1>8. CASE RunBegin \/ RunCommit \/ RunSnapshot \/ RunSave \/ RunPublish \/ RunSaveGeneration
  BY <1>1, <1>8, BeginTextStep, CommitTextStep, SnapshotTextStep, SaveTextStep,
     PublishTextStep, SaveGenerationTextStep
<1> QED  BY <1>2, <1>3, <1>4, <1>5, <1>6, <1>7, <1>8 DEF Next, Start, RunOnce

\* A file indexed without its extracted text stays on a list some later run or
\* the next process will look at, and so does one in a published index: no
\* failure, crash, adoption or rebuild forgets it.
THEOREM TextNeverForgotten ==
  ASSUME InOrder, RebuildsEnd
  PROVE  Spec /\ []SnapshotsWhole => []TextNotForgotten
<1>1. Init => TextInv
  BY IndexerAssumption DEF Init, TextInv, PointerText, TextIn, NoPointer, NoDocs, DirectoryText,
     LocalOK, ProcessText, Folding, RebuildText, RunText
<1>2. Folded /\ TextInv /\ [Next]_vars => TextInv'
  BY TextStep
<1>3. TextInv => TextNotForgotten
  BY DEF TextInv, PointerText, ProcessText, TextNotForgotten, TextIn, TextKnown
<1> QED  BY <1>1, <1>2, <1>3, FoldedAlways, PTL DEF Spec

(***************************************************************************)
(* An indexer that is never killed rebuilds only before its first snapshot *)
(* is written, so its snapshots need no assumption.                        *)
(***************************************************************************)
NeverKilled == Disturbances \cap {"crash", "rebuild", "upgrade"} = {}

\* A process past its start has a state file; without one there is no snapshot.
BeforeSnapshots ==
    /\ state.generation >= 0
    /\ stateFile = NoState \/ stateFile.generation >= 0
    /\ stateFile = NoState \/ pc = "rload" => metaSnap = NoDocs
    /\ pc \in {"begin", "idle", "commit", "snap", "save", "chain", "publish", "savegen"}
         => stateFile # NoState
    /\ pc \in {"rload", "rcommit"} => ~run.live

LEMMA BeforeSnapshotsStep ==
  ASSUME NeverKilled, TypeInv, BeforeSnapshots, [Next]_vars
  PROVE  BeforeSnapshots'
<1>0. /\ ~Crash /\ ~RequestRebuild /\ ~SchemaUpgrade
      /\ NoState.generation = -1 /\ FreshState.generation = 0
      /\ stateFile.generation \in Int /\ state.generation \in Int /\ pointer.generation \in Nat
  BY FoldTypes DEF NeverKilled, Crash, RequestRebuild, SchemaUpgrade, Disturb
<1>1. CASE StartRebuild
  BY <1>0, <1>1 DEF StartRebuild, BeforeSnapshots, LocalOK, Leftover, NoRun, bucketVars
<1>2. CASE StartLocal \/ StartAdopt \/ Exit
  BY <1>0, <1>2 DEF StartLocal, StartAdopt, Exit, Gone, BeforeSnapshots, LocalOK,
     bucketVars, diskVars
<1>3. CASE AdoptState
  <2>1. /\ pc' = "begin" /\ stateFile' = state' /\ state'.generation = pointer.generation
        /\ UNCHANGED metaSnap
    BY <1>3 DEF AdoptState, bucketVars
  <2> QED  BY <1>0, <2>1 DEF BeforeSnapshots
<1>4. CASE RebuildSave
  <2>1. /\ pc' = "begin" /\ stateFile' = state' /\ state'.generation = state.generation
        /\ UNCHANGED metaSnap
    BY <1>4 DEF RebuildSave, bucketVars, TypeInv, TypeOK, StateType
  <2> QED  BY <1>0, <2>1 DEF BeforeSnapshots
<1>5. CASE RunSave
  <2>1. /\ pc = "save" /\ pc' \in {"chain", "idle", "exit"} /\ UNCHANGED metaSnap
        /\ state'.generation = state.generation
        /\ stateFile' \in {state', stateFile}
    BY <1>5, ErrorLive DEF RunSave, bucketVars, TypeInv, TypeOK, StateType
  <2> QED  BY <1>0, <2>1 DEF BeforeSnapshots
<1>6. CASE RunPublish
  <2>1. /\ pc = "publish" /\ pc' \in {"savegen", "idle", "exit"}
        /\ UNCHANGED <<metaSnap, stateFile>>
        /\ state'.generation \in {state.generation, pointer.generation + 1}
    BY <1>6, ErrorLive DEF RunPublish, NextPointer, TypeInv, TypeOK, StateType
  <2> QED  BY <1>0, <2>1 DEF BeforeSnapshots
<1>7. CASE RunSaveGeneration
  <2>1. /\ pc = "savegen" /\ pc' \in {"idle", "exit"}
        /\ UNCHANGED <<metaSnap, state>> /\ stateFile' \in {state, stateFile}
    BY <1>7, ErrorLive DEF RunSaveGeneration, bucketVars
  <2> QED  BY <1>0, <2>1 DEF BeforeSnapshots
<1>8. CASE RunSnapshot
  <2>1. pc = "snap" /\ pc' \in {"save", "snap", "idle", "exit"} /\ UNCHANGED <<state, stateFile>>
    BY <1>8, ErrorLive DEF RunSnapshot, diskVars
  <2> QED  BY <2>1 DEF BeforeSnapshots
<1>9. CASE RebuildFails
  <2>1. /\ pc \in {"rload", "rcommit"} /\ pc' \in {"idle", "exit"}
        /\ UNCHANGED <<metaSnap, state, stateFile>>
    BY <1>9, ErrorLive DEF RebuildFails, bucketVars, diskVars
  <2>2. pc' = "exit"
    BY <1>9, <2>1 DEF RebuildFails, RunReturnsError, BeforeSnapshots
  <2> QED  BY <2>1, <2>2 DEF BeforeSnapshots
<1>10. CASE RebuildLoad
  <2>1. /\ pc = "rload" /\ pc' = "rcommit" /\ run'.live = run.live
        /\ UNCHANGED <<metaSnap, state, stateFile>>
    BY <1>10 DEF RebuildLoad, bucketVars, diskVars, TypeInv, TypeOK, RunType
  <2> QED  BY <2>1 DEF BeforeSnapshots
<1>11. CASE RebuildCommit
  BY <1>11 DEF RebuildCommit, BeforeSnapshots, bucketVars
<1>12. CASE RunBegin \/ RunCommit \/ RunCheckpoint \/ RunPublishNothing \/ RunFails
  <2>1. /\ pc \in {"begin", "idle", "commit", "chain", "publish"}
        /\ pc' \in {"commit", "save", "chain", "snap", "publish", "idle", "exit"}
        /\ UNCHANGED <<metaSnap, state, stateFile>>
    BY <1>12, ErrorLive DEF RunBegin, RunCommit, RunCheckpoint, RunPublishNothing, RunFails,
       bucketVars, diskVars
  <2> QED  BY <2>1 DEF BeforeSnapshots
<1>13. CASE AppendEvent \/ TextExtracted \/ SidecarDies \/ UNCHANGED vars
  <2>1. UNCHANGED <<metaSnap, processVars, stateFile>>
    BY <1>13 DEF AppendEvent, Append1, TextExtracted, SidecarDies, vars, bucketVars, diskVars
  <2> QED  BY <2>1 DEF BeforeSnapshots, processVars
<1> QED
  BY <1>0, <1>1, <1>2, <1>3, <1>4, <1>5, <1>6, <1>7, <1>8, <1>9, <1>10, <1>11, <1>12, <1>13
     DEF Next, Start, Rebuild, RunOnce

LEMMA NoSnapshotsWhole ==
  ASSUME metaSnap = NoDocs
  PROVE  SnapshotsWhole
<1> DEFINE hi == Newest({metaSnap[f] : f \in {g \in Files : metaSnap[g] # 0}})
<1>1. hi = 0
  BY DEF NoDocs, Newest
<1>2. ASSUME NEW f \in Files PROVE StateAt(journal, f, 0) <= metaSnap[f]
  <2>1. \A k \in StateKeys(journal, f) : ~(k <= 0)
    BY StateKeysType
  <2>2. metaSnap[f] = 0
    BY DEF NoDocs
  <2> QED  BY <2>1, <2>2, SeenIs
<1> HIDE DEF hi
<1> QED  BY <1>1, <1>2 DEF SnapshotsWhole, hi

LEMMA SnapshotsAlwaysWhole ==
  ASSUME NeverKilled
  PROVE  Spec => []SnapshotsWhole
<1>1. Init => BeforeSnapshots
  BY DEF Init, BeforeSnapshots, FreshState, NoState
<1>2. TypeAndChain /\ BeforeSnapshots /\ [Next]_vars => BeforeSnapshots'
  BY BeforeSnapshotsStep DEF TypeAndChain
<1>3. BeforeSnapshots => SnapshotsWhole
  BY NoSnapshotsWhole DEF BeforeSnapshots, SnapshotsWhole
<1> QED  BY <1>1, <1>2, <1>3, TypeAndChainAlways, PTL DEF Spec

\* An indexer whose process is never killed or asked for a reindex, whatever
\* calls fail and however often its sidecar dies, keeps its promises from the
\* order of the journal alone.
THEOREM NeverKilledKeepsUp ==
  ASSUME InOrder, NeverKilled
  PROVE  Spec => /\ []IndexCoversCursor /\ []StatesCoverCursor /\ []TextNotForgotten
                 /\ PublishesAFold
<1>1. RebuildsEnd
  BY DEF NeverKilled, RebuildsEnd
<1> QED
  BY <1>1, SnapshotsAlwaysWhole, IndexNeverBehind, StatesNeverBehind, TextNeverForgotten,
     PublishesTheFold, PTL

================================================================================
