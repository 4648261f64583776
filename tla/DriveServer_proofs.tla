--------------------------- MODULE DriveServer_proofs ---------------------------
(***************************************************************************)
(* The theorems about the all-in-one server that TLC checks in             *)
(* MCDriveServer: its edits, for any servers, requests, objects and tags,  *)
(* and the order of chain and publication while its searches share the     *)
(* sidecar of the indexer.                                                 *)
(***************************************************************************)
EXTENDS MCDriveServer, FileEdits_proofs

(***************************************************************************)
(* The edits of the all-in-one server.                                     *)
(***************************************************************************)

\* The deployments of the instance are as the theorems ask.
LEMMA InstanceFits ==
  Drives = AllDrives => TurnsUnbuffered /\ AdditionsInTurn
BY DEF AllDrives, InTurn, AtOnce, Drive, TurnsUnbuffered, AdditionsInTurn

\* A step of the instance in this scene is a step of the edits.
LEMMA EditsTakeSteps ==
  ASSUME [MCNext]_<<scene, vars, indexer>>, scene' = "edits"
  PROVE  scene = "edits" /\ [Next]_vars
<1>1. CASE MCNext
  <2>1. ~Search
    BY DEF Search
  <2> QED  BY <1>1, <2>1 DEF MCNext, Edits, Next
<1>2. CASE UNCHANGED <<scene, vars, indexer>>
  BY <1>2
<1> QED  BY <1>1, <1>2

LEMMA EditsBegin ==
  MCInit => (scene = "edits" => Init)
BY DEF MCInit

\* While its unfolded events fit in a listing, the all-in-one server never hides
\* what it answered for and never falls behind its index.
THEOREM ServerReadsCurrent ==
  MCSpec /\ [](scene = "edits" => ListingsFit) => []ReadsAreCurrent
<1> DEFINE Reads == scene = "edits" => Base /\ Answered
           Fit == scene = "edits" => ListingsFit
<1>1. MCInit => Reads
  BY EditsBegin, BaseInit, AnsweredInit
<1>2. Reads /\ Fit /\ [MCNext]_<<scene, vars, indexer>> => Reads'
  BY EditsTakeSteps, BaseStep, AnsweredStep
<1>3. Reads => ReadsAreCurrent
  BY ReadsFollow DEF ReadsAreCurrent
<1> QED  BY <1>1, <1>2, <1>3, PTL DEF MCSpec

\* In turn, every edit through its handlers follows the one before it and no
\* object is lost.
THEOREM ServerEditsFollow ==
  ASSUME TurnsUnbuffered
  PROVE  MCSpec /\ [](scene = "edits" => ListingsFit) => []EditsInTurn
<1> DEFINE Turned == scene = "edits" => Base /\ Turns
           Fit == scene = "edits" => ListingsFit
<1>1. MCInit => Turned
  BY EditsBegin, BaseInit, TurnsInit
<1>2. Turned /\ Fit /\ [MCNext]_<<scene, vars, indexer>> => Turned'
  BY EditsTakeSteps, BaseStep, InTurnStep, EditsStep DEF Turns
<1>3. Turned => EditsInTurn
  BY DEF EditsInTurn, Turns
<1> QED  BY <1>1, <1>2, <1>3, PTL DEF MCSpec

\* Its write-once modes remove and rewrite nothing.
THEOREM ServerWritesOnce ==
  ASSUME TurnsUnbuffered, AdditionsInTurn
  PROVE  MCSpec /\ [](scene = "edits" => ListingsFit) => []WrittenOnce
<1> DEFINE Written == scene = "edits" => Base /\ InTurnInv /\ Kept /\ WriteOnce
           Fit == scene = "edits" => ListingsFit
<1>1. MCInit => Written
  BY EditsBegin, BaseInit, TurnsInit DEF Turns
<1>2. Written /\ Fit /\ [MCNext]_<<scene, vars, indexer>> => Written'
  BY EditsTakeSteps, BaseStep, InTurnStep, WriteOnceStep
<1>3. Written => WrittenOnce
  BY DEF WrittenOnce
<1> QED  BY <1>1, <1>2, <1>3, PTL DEF MCSpec

(***************************************************************************)
(* The indexer of the all-in-one server: the theory of the indexer, at the *)
(* constants and over the variables of the instance.                       *)
(***************************************************************************)
Proofs == INSTANCE DriveIndexer_proofs WITH
    Files <- {f1}, MaxKey <- 2, TextFiles <- {f1}, MaxEventsPerRun <- 2,
    Snapshot <- TRUE, ReorderedLanding <- FALSE,
    Disturbances <- {"failure", "rebuild failure", "death", "rebuild"}, MaxDisturbances <- 2,
    pc <- folded, metas <- cached, disturbed <- faults

LEMMA IndexerFits == Proofs!JournalAssumption /\ Proofs!IndexerAssumption /\ Proofs!InOrder
<1>1. Proofs!JournalAssumption
  BY FS_Singleton DEF Proofs!JournalAssumption, Proofs!IsFiniteSet, IsFiniteSet
<1>2. Proofs!IndexerAssumption
  BY DEF Proofs!IndexerAssumption, Proofs!Kinds
<1> QED  BY <1>1, <1>2 DEF Proofs!InOrder

\* Both instances read the same source with the same values: every action of one
\* is the action of that name of the other.
LEMMA SameActions ==
  /\ Shared!AppendEvent => Proofs!AppendEvent
  /\ Shared!TextExtracted => Proofs!TextExtracted
  /\ Shared!SidecarDies => Proofs!SidecarDies
  /\ Shared!SearchCall => Proofs!SearchCall
  /\ Shared!Exit => Proofs!Exit
  /\ Shared!StartLocal => Proofs!StartLocal
  /\ Shared!RequestRebuild => Proofs!RequestRebuild
  /\ Shared!RebuildLoad => Proofs!RebuildLoad
  /\ Shared!RebuildCommit => Proofs!RebuildCommit
  /\ Shared!RebuildSave => Proofs!RebuildSave
  /\ Shared!RebuildFails => Proofs!RebuildFails
  /\ Shared!RunCommit => Proofs!RunCommit
  /\ Shared!RunSnapshot => Proofs!RunSnapshot
  /\ Shared!RunSave => Proofs!RunSave
  /\ Shared!RunCheckpoint => Proofs!RunCheckpoint
  /\ Shared!RunPublishNothing => Proofs!RunPublishNothing
  /\ Shared!RunPublish => Proofs!RunPublish
  /\ Shared!RunSaveGeneration => Proofs!RunSaveGeneration
  /\ Shared!RunFails => Proofs!RunFails
  /\ Shared!StartAdopt => Proofs!StartAdopt
  /\ Shared!AdoptState => Proofs!AdoptState
  /\ Shared!StartRebuild => Proofs!StartRebuild
  /\ Shared!RunBegin => Proofs!RunBegin
<1> USE DEF Shared!Keys, Proofs!Keys, Shared!FileEvent, Proofs!FileEvent, Shared!AccessEvent,
           Proofs!AccessEvent, Shared!Event, Proofs!Event, Shared!NoEvent, Proofs!NoEvent,
           Shared!IsFileState, Proofs!IsFileState, Shared!Landed, Proofs!Landed,
           Shared!After, Proofs!After, Shared!ListAfter, Proofs!ListAfter, Shared!ListRange,
           Proofs!ListRange, Shared!StateKeys, Proofs!StateKeys, Shared!Newest,
           Proofs!Newest, Shared!Oldest, Proofs!Oldest, Shared!IsLive, Proofs!IsLive,
           Shared!DocOf, Proofs!DocOf, Shared!bucketVars, Proofs!bucketVars,
           Shared!diskVars, Proofs!diskVars, Shared!processVars, Proofs!processVars,
           Shared!sidecarVars, Proofs!sidecarVars, Shared!NoDocs, Proofs!NoDocs,
           Shared!EmptyIndex, Proofs!EmptyIndex, Shared!FreshState, Proofs!FreshState,
           Shared!NoState, Proofs!NoState, Shared!NoPointer, Proofs!NoPointer,
           Shared!Genesis, Proofs!Genesis, Shared!NoHead, Proofs!NoHead, Shared!EmptyBuffer,
           Proofs!EmptyBuffer, Shared!NoRun, Proofs!NoRun, Shared!InLoop, Proofs!InLoop,
           Shared!Disturb, Proofs!Disturb, Shared!Append1, Proofs!Append1,
           Shared!AppendEvent, Proofs!AppendEvent, Shared!TextExtracted,
           Proofs!TextExtracted, Shared!SidecarDies, Proofs!SidecarDies, Shared!SearchCall,
           Proofs!SearchCall, Shared!CanCall, Proofs!CanCall, Shared!Gone, Proofs!Gone,
           Shared!LocalOK, Proofs!LocalOK, Shared!Remote, Proofs!Remote, Shared!MustAdopt,
           Proofs!MustAdopt, Shared!Leftover, Proofs!Leftover, Shared!SchemaUpgrade,
           Proofs!SchemaUpgrade, Shared!StartLocal, Proofs!StartLocal, Shared!StartAdopt,
           Proofs!StartAdopt, Shared!AdoptState, Proofs!AdoptState, Shared!StartRebuild,
           Proofs!StartRebuild, Shared!RunReturnsError, Proofs!RunReturnsError, Shared!Exit,
           Proofs!Exit, Shared!Buffered, Proofs!Buffered, Shared!TextMissing,
           Proofs!TextMissing, Shared!Overlaid, Proofs!Overlaid, Shared!Queued,
           Proofs!Queued, Shared!Committed, Proofs!Committed, Shared!RequestRebuild,
           Proofs!RequestRebuild, Shared!RebuildLoad, Proofs!RebuildLoad,
           Shared!RebuildCommit, Proofs!RebuildCommit, Shared!RebuildSave,
           Proofs!RebuildSave, Shared!RebuildFails, Proofs!RebuildFails, Shared!Entries,
           Proofs!Entries, Shared!Of, Proofs!Of, Shared!Touched, Proofs!Touched,
           Shared!Rechecked, Proofs!Rechecked, Shared!Rank, Proofs!Rank, Shared!RunCommit,
           Proofs!RunCommit, Shared!RunSnapshot, Proofs!RunSnapshot, Shared!RunSave,
           Proofs!RunSave, Shared!LastOf, Proofs!LastOf, Shared!LoadedHead,
           Proofs!LoadedHead, Shared!ChainBatch, Proofs!ChainBatch, Shared!PutCheckpoint,
           Proofs!PutCheckpoint, Shared!RunCheckpoint, Proofs!RunCheckpoint,
           Shared!NextPointer, Proofs!NextPointer, Shared!RunPublishNothing,
           Proofs!RunPublishNothing, Shared!RunPublish, Proofs!RunPublish,
           Shared!RunSaveGeneration, Proofs!RunSaveGeneration, Shared!RunFails,
           Proofs!RunFails
<1>1. Shared!AppendEvent => Proofs!AppendEvent
  OBVIOUS
<1>2. Shared!TextExtracted => Proofs!TextExtracted
  OBVIOUS
<1>3. Shared!SidecarDies => Proofs!SidecarDies
  OBVIOUS
<1>4. Shared!SearchCall => Proofs!SearchCall
  OBVIOUS
<1>5. Shared!Exit => Proofs!Exit
  OBVIOUS
<1>6. Shared!StartLocal => Proofs!StartLocal
  OBVIOUS
<1>7. Shared!RequestRebuild => Proofs!RequestRebuild
  OBVIOUS
<1>8. Shared!RebuildLoad => Proofs!RebuildLoad
  OBVIOUS
<1>9. Shared!RebuildCommit => Proofs!RebuildCommit
  OBVIOUS
<1>10. Shared!RebuildSave => Proofs!RebuildSave
  OBVIOUS
<1>11. Shared!RebuildFails => Proofs!RebuildFails
  OBVIOUS
<1>12. Shared!RunCommit => Proofs!RunCommit
  OBVIOUS
<1>13. Shared!RunSnapshot => Proofs!RunSnapshot
  OBVIOUS
<1>14. Shared!RunSave => Proofs!RunSave
  OBVIOUS
<1>15. Shared!RunCheckpoint => Proofs!RunCheckpoint
  OBVIOUS
<1>16. Shared!RunPublishNothing => Proofs!RunPublishNothing
  OBVIOUS
<1>17. Shared!RunPublish => Proofs!RunPublish
  OBVIOUS
<1>18. Shared!RunSaveGeneration => Proofs!RunSaveGeneration
  OBVIOUS
<1>19. Shared!RunFails => Proofs!RunFails
  OBVIOUS
<1>20. Shared!StartAdopt => Proofs!StartAdopt
  OBVIOUS
<1>21. Shared!AdoptState => Proofs!AdoptState
  OBVIOUS
<1>22. Shared!StartRebuild => Proofs!StartRebuild
  OBVIOUS
<1>23. Shared!RunBegin => Proofs!RunBegin
  <2>1. Shared!Entries = Proofs!Entries
    <3>1. \A S : Shared!Cardinality(S) = Proofs!Cardinality(S)
      BY DEF Shared!Cardinality, Proofs!Cardinality
    <3> QED  BY <3>1
  <2>2. \A e : Shared!Touched(e) = Proofs!Touched(e) /\ Shared!Rechecked(e) = Proofs!Rechecked(e)
    OBVIOUS
  <2>3. \A e, f : Shared!Of(f, e) = Proofs!Of(f, e)
    OBVIOUS
  <2>4. \A S : Shared!Newest(S) = Proofs!Newest(S)
    OBVIOUS
  <2>5. \A k : Shared!IsLive(journal, k) <=> Proofs!IsLive(journal, k)
    OBVIOUS
  <2>6. \A c, st : /\ Shared!TextMissing(c, st) = Proofs!TextMissing(c, st)
                   /\ Shared!Buffered(c, st) = Proofs!Buffered(c, st)
    OBVIOUS
  <2>7. \A b : Shared!Queued(b) = Proofs!Queued(b)
    OBVIOUS
  <2> HIDE DEF Shared!Newest, Proofs!Newest, Shared!IsLive, Proofs!IsLive, Shared!Buffered,
           Proofs!Buffered, Shared!TextMissing, Proofs!TextMissing, Shared!Queued,
           Proofs!Queued, Shared!Entries, Proofs!Entries, Shared!Of, Proofs!Of,
           Shared!Touched, Proofs!Touched, Shared!Rechecked, Proofs!Rechecked
  <2> QED  BY <2>1, <2>2, <2>3, <2>4, <2>5, <2>6, <2>7 DEF Shared!RunBegin, Proofs!RunBegin
<1> HIDE DEF Shared!Keys, Proofs!Keys, Shared!FileEvent, Proofs!FileEvent, Shared!AccessEvent,
           Proofs!AccessEvent, Shared!Event, Proofs!Event, Shared!NoEvent, Proofs!NoEvent,
           Shared!IsFileState, Proofs!IsFileState, Shared!Landed, Proofs!Landed,
           Shared!After, Proofs!After, Shared!ListAfter, Proofs!ListAfter, Shared!ListRange,
           Proofs!ListRange, Shared!StateKeys, Proofs!StateKeys, Shared!Newest,
           Proofs!Newest, Shared!Oldest, Proofs!Oldest, Shared!IsLive, Proofs!IsLive,
           Shared!DocOf, Proofs!DocOf, Shared!bucketVars, Proofs!bucketVars,
           Shared!diskVars, Proofs!diskVars, Shared!processVars, Proofs!processVars,
           Shared!sidecarVars, Proofs!sidecarVars, Shared!NoDocs, Proofs!NoDocs,
           Shared!EmptyIndex, Proofs!EmptyIndex, Shared!FreshState, Proofs!FreshState,
           Shared!NoState, Proofs!NoState, Shared!NoPointer, Proofs!NoPointer,
           Shared!Genesis, Proofs!Genesis, Shared!NoHead, Proofs!NoHead, Shared!EmptyBuffer,
           Proofs!EmptyBuffer, Shared!NoRun, Proofs!NoRun, Shared!InLoop, Proofs!InLoop,
           Shared!Disturb, Proofs!Disturb, Shared!Append1, Proofs!Append1,
           Shared!AppendEvent, Proofs!AppendEvent, Shared!TextExtracted,
           Proofs!TextExtracted, Shared!SidecarDies, Proofs!SidecarDies, Shared!SearchCall,
           Proofs!SearchCall, Shared!CanCall, Proofs!CanCall, Shared!Gone, Proofs!Gone,
           Shared!LocalOK, Proofs!LocalOK, Shared!Remote, Proofs!Remote, Shared!MustAdopt,
           Proofs!MustAdopt, Shared!Leftover, Proofs!Leftover, Shared!SchemaUpgrade,
           Proofs!SchemaUpgrade, Shared!StartLocal, Proofs!StartLocal, Shared!StartAdopt,
           Proofs!StartAdopt, Shared!AdoptState, Proofs!AdoptState, Shared!StartRebuild,
           Proofs!StartRebuild, Shared!RunReturnsError, Proofs!RunReturnsError, Shared!Exit,
           Proofs!Exit, Shared!Buffered, Proofs!Buffered, Shared!TextMissing,
           Proofs!TextMissing, Shared!Overlaid, Proofs!Overlaid, Shared!Queued,
           Proofs!Queued, Shared!Committed, Proofs!Committed, Shared!RequestRebuild,
           Proofs!RequestRebuild, Shared!RebuildLoad, Proofs!RebuildLoad,
           Shared!RebuildCommit, Proofs!RebuildCommit, Shared!RebuildSave,
           Proofs!RebuildSave, Shared!RebuildFails, Proofs!RebuildFails, Shared!Entries,
           Proofs!Entries, Shared!Of, Proofs!Of, Shared!Touched, Proofs!Touched,
           Shared!Rechecked, Proofs!Rechecked, Shared!Rank, Proofs!Rank, Shared!RunCommit,
           Proofs!RunCommit, Shared!RunSnapshot, Proofs!RunSnapshot, Shared!RunSave,
           Proofs!RunSave, Shared!LastOf, Proofs!LastOf, Shared!LoadedHead,
           Proofs!LoadedHead, Shared!ChainBatch, Proofs!ChainBatch, Shared!PutCheckpoint,
           Proofs!PutCheckpoint, Shared!RunCheckpoint, Proofs!RunCheckpoint,
           Shared!NextPointer, Proofs!NextPointer, Shared!RunPublishNothing,
           Proofs!RunPublishNothing, Shared!RunPublish, Proofs!RunPublish,
           Shared!RunSaveGeneration, Proofs!RunSaveGeneration, Shared!RunFails,
           Proofs!RunFails
<1> QED  BY <1>1, <1>2, <1>3, <1>4, <1>5, <1>6, <1>7, <1>8, <1>9, <1>10, <1>11, <1>12,
            <1>13, <1>14, <1>15, <1>16, <1>17, <1>18, <1>19, <1>20, <1>21, <1>22,
            <1>23

\* A step of the instance in this scene is a step of the indexer, or of a search.
LEMMA SearchTakesSteps ==
  ASSUME [MCNext]_<<scene, vars, indexer>>, scene' = "search"
  PROVE  scene = "search" /\ Proofs!Step
<1>1. CASE MCNext
  <2>1. ~Edits
    BY DEF Edits
  <2> QED
    BY <1>1, <2>1, SameActions DEF MCNext, Search, Proofs!Step, Proofs!Next, Proofs!Start,
       Proofs!Rebuild, Proofs!RunOnce
<1>2. CASE UNCHANGED <<scene, vars, indexer>>
  BY <1>2 DEF vars, indexer, Proofs!Step, Proofs!vars, Proofs!bucketVars, Proofs!diskVars,
     Proofs!processVars, Proofs!sidecarVars
<1> QED  BY <1>1, <1>2

LEMMA SearchBegins ==
  MCInit => (scene = "search" => Proofs!Init)
BY DEF MCInit, Shared!Keys, Proofs!Keys, Shared!NoEvent, Proofs!NoEvent, Shared!NoDocs, Proofs!NoDocs,
   Shared!EmptyIndex, Proofs!EmptyIndex, Shared!FreshState, Proofs!FreshState,
   Shared!NoState, Proofs!NoState, Shared!NoPointer, Proofs!NoPointer, Shared!Genesis,
   Proofs!Genesis, Shared!NoHead, Proofs!NoHead, Shared!EmptyBuffer, Proofs!EmptyBuffer,
   Shared!NoRun, Proofs!NoRun, Shared!Init, Proofs!Init

\* Nothing is published before it is chained, although searches restart the
\* sidecar under the indexer, it dies, calls fail and rebuilds stop half-way.
THEOREM ServerPublishesChained == MCSpec => []PublishedIsChained
<1> DEFINE Chained == scene = "search" => Proofs!TypeAndChain
<1>1. MCInit => Chained
  BY SearchBegins, IndexerFits, Proofs!IndexerInit
<1>2. Chained /\ [MCNext]_<<scene, vars, indexer>> => Chained'
  BY SearchTakesSteps, IndexerFits, Proofs!IndexerStep
<1>3. Chained => PublishedIsChained
  <2>1. ASSUME Proofs!TypeAndChain PROVE Proofs!PublishedIsChained
    BY <2>1, IndexerFits, Proofs!ChainedIsPublished
  <2>2. Proofs!PublishedIsChained => Shared!PublishedIsChained
    BY DEF Proofs!PublishedIsChained, Shared!PublishedIsChained, Proofs!ChainEnd, Shared!ChainEnd,
           Proofs!LastOf, Shared!LastOf, Proofs!Newest, Shared!Newest
  <2> QED  BY <2>1, <2>2 DEF PublishedIsChained
<1> QED  BY <1>1, <1>2, <1>3, PTL DEF MCSpec
================================================================================
