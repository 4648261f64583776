------------------------------ MODULE MCRequests ------------------------------
(***************************************************************************)
(* Components in which one request, or a few of one kind, meet the bucket, *)
(* for TLC: shares and their deletion, the checks of an upload body, and   *)
(* the Drive's searches, recorded reads and audits.  They share no state:  *)
(* a behaviour is of the one that `scene` names.  Variables of the same    *)
(* kind are shared by the parts, and those a scene does not need stay      *)
(* None.  The values of the constants are those of MCRequestInputs.        *)
(***************************************************************************)
EXTENDS MCRequestInputs, TLC

CONSTANTS
    Shares, Objects, Deleters, Revokers, DefaultTTL, MaxTTL, ShareTime, ShareFaults,
    Uploads, Policies, IntakeFaults,
    Chunks, ScanLimit, FanoutFaults,
    Archives, MaxDepth, MaxEntries, MaxSingle, MaxTotal, MaxRatio, MaxProbe,
    MediaFiles, MaxNesting,
    Files, InBody, States, Queries, PageSize, MaxOverlay, OverlayTTL, MaxEvents,
    Reads, Keys, Window, MaxSeen, AccessTime, AccessFaults,
    MaxKey, MaxTampers, HashOriginals

VARIABLES
    scene,
    now, faults, upload, stack, verdict, journal,   \* of several scenes
    object, record, marker, creator, deleter, revoker, orphaned, misread, revoked,
    policy, stage, type, body, staged, stored, protected,
    copy, pipe, readers, objects,
    budget, output,
    index, cache, cursor, run, overlay, request,
    seen, read, events,
    original, chain, written

shareVars == <<object, record, marker, creator, deleter, revoker, orphaned, misread, revoked>>
intakeVars == <<policy, stage, type, body, staged, stored, protected>>
fanoutVars == <<copy, pipe, readers, objects>>
searchVars == <<index, cache, cursor, run, overlay, request>>
accessVars == <<seen, read, events>>
auditVars == <<original, chain, written>>
allVars ==
    <<scene, now, faults, upload, stack, verdict, journal, budget, output,
      shareVars, intakeVars, fanoutVars, searchVars, accessVars, auditVars>>

Sharing == INSTANCE SharedKeys WITH MaxTime <- ShareTime, MaxFaults <- ShareFaults
Checks == INSTANCE Intake WITH MaxFaults <- IntakeFaults
Fanout == INSTANCE UploadFanout WITH MaxFaults <- FanoutFaults
Guard == INSTANCE ArchiveGuard WITH archive <- upload
Media == INSTANCE MediaSanitizer WITH Files <- MediaFiles, MaxDepth <- MaxNesting, file <- upload
Search == INSTANCE SearchOverlay
Access == INSTANCE AccessLog WITH
    MaxTime <- AccessTime, MaxFailures <- AccessFaults, failures <- faults
Audit == INSTANCE AuditVerify WITH tampers <- faults

ASSUME RequestsAssumption ==
    /\ Sharing!SharedAssumption /\ Checks!PoliciesAssumption /\ Fanout!FanoutAssumption
    /\ Guard!GuardAssumption /\ Media!DepthAssumption /\ Search!SearchAssumption
    /\ Access!AccessAssumption /\ Audit!AuditAssumption

\* Among the configurations of the run all act on what they are for.
ASSUME ModesAssumption == \A p \in AllPolicies : Checks!ModesFit(p)

-----------------------------------------------------------------------------
\* The variables of the components that are not in the scene.
NoShares ==
    /\ object = None /\ record = None /\ marker = None /\ creator = None /\ deleter = None
    /\ revoker = None /\ orphaned = None /\ misread = None /\ revoked = None
NoIntake ==
    /\ policy = None /\ stage = None /\ type = None /\ body = None /\ staged = None
    /\ stored = None /\ protected = None
NoFanout == copy = None /\ pipe = None /\ readers = None /\ objects = None
NoSearch ==
    /\ index = None /\ cache = None /\ cursor = None /\ run = None /\ overlay = None
    /\ request = None
NoAccess == seen = None /\ read = None /\ events = None
NoAudit == original = None /\ chain = None /\ written = None
NoWalk == stack = None /\ verdict = None
NoTime == now = None
NoFault == faults = None
NoUpload == upload = None
NoJournal == journal = None
NoBudget == budget = None
NoOutput == output = None

MCInit ==
    \/ /\ scene = "share" /\ Sharing!Init
       /\ NoUpload /\ NoWalk /\ NoBudget /\ NoOutput /\ NoJournal
       /\ NoIntake /\ NoFanout /\ NoSearch /\ NoAccess /\ NoAudit
    \/ /\ scene = "intake" /\ Checks!Init
       /\ NoTime /\ NoWalk /\ NoBudget /\ NoOutput /\ NoJournal
       /\ NoShares /\ NoFanout /\ NoSearch /\ NoAccess /\ NoAudit
    \/ /\ scene = "fanout" /\ Fanout!Init
       /\ NoTime /\ NoWalk /\ NoBudget /\ NoOutput /\ NoJournal
       /\ NoShares /\ NoIntake /\ NoSearch /\ NoAccess /\ NoAudit
    \/ /\ scene = "archive" /\ Guard!Init
       /\ NoTime /\ NoFault /\ NoOutput /\ NoJournal
       /\ NoShares /\ NoIntake /\ NoFanout /\ NoSearch /\ NoAccess /\ NoAudit
    \/ /\ scene = "media" /\ Media!Init
       /\ NoTime /\ NoFault /\ NoBudget /\ NoJournal
       /\ NoShares /\ NoIntake /\ NoFanout /\ NoSearch /\ NoAccess /\ NoAudit
    \/ /\ scene = "search" /\ Search!Init
       /\ NoTime /\ NoFault /\ NoUpload /\ NoWalk /\ NoBudget /\ NoOutput
       /\ NoShares /\ NoIntake /\ NoFanout /\ NoAccess /\ NoAudit
    \/ /\ scene = "access" /\ Access!Init
       /\ NoUpload /\ NoWalk /\ NoBudget /\ NoOutput /\ NoJournal
       /\ NoShares /\ NoIntake /\ NoFanout /\ NoSearch /\ NoAudit
    \/ /\ scene = "audit" /\ Audit!Init
       /\ NoTime /\ NoUpload /\ NoWalk /\ NoBudget /\ NoOutput
       /\ NoShares /\ NoIntake /\ NoFanout /\ NoSearch /\ NoAccess

ShareScene ==
    /\ scene = "share"
    /\ UNCHANGED <<scene, upload, stack, verdict, budget, output, journal,
                   intakeVars, fanoutVars, searchVars, accessVars, auditVars>>
IntakeScene ==
    /\ scene = "intake"
    /\ UNCHANGED <<scene, now, stack, verdict, budget, output, journal,
                   shareVars, fanoutVars, searchVars, accessVars, auditVars>>
FanoutScene ==
    /\ scene = "fanout"
    /\ UNCHANGED <<scene, now, stack, verdict, budget, output, journal,
                   shareVars, intakeVars, searchVars, accessVars, auditVars>>
ArchiveScene ==
    /\ scene = "archive"
    /\ UNCHANGED <<scene, now, faults, output, journal,
                   shareVars, intakeVars, fanoutVars, searchVars, accessVars, auditVars>>
MediaScene ==
    /\ scene = "media"
    /\ UNCHANGED <<scene, now, faults, budget, journal,
                   shareVars, intakeVars, fanoutVars, searchVars, accessVars, auditVars>>
SearchScene ==
    /\ scene = "search"
    /\ UNCHANGED <<scene, now, faults, upload, stack, verdict, budget, output,
                   shareVars, intakeVars, fanoutVars, accessVars, auditVars>>
AccessScene ==
    /\ scene = "access"
    /\ UNCHANGED <<scene, upload, stack, verdict, budget, output, journal,
                   shareVars, intakeVars, fanoutVars, searchVars, auditVars>>
AuditScene ==
    /\ scene = "audit"
    /\ UNCHANGED <<scene, now, upload, stack, verdict, budget, output,
                   shareVars, intakeVars, fanoutVars, searchVars, accessVars>>

\* The requests on shares, each of which leaves the others alone.
Creating == ShareScene /\ UNCHANGED <<now, deleter, revoker, orphaned, misread, revoked>>
Deleting == ShareScene /\ UNCHANGED <<now, creator, revoker>>
Revoking == ShareScene /\ UNCHANGED <<now, creator, deleter>>

MCNext ==
    \/ ShareScene /\ Sharing!Tick
    \/ Creating /\ \E s \in Shares : Sharing!PutRecord(s)
    \/ Creating /\ \E s \in Shares : Sharing!PutMarker(s)
    \/ Creating /\ \E s \in Shares : Sharing!Undo(s)
    \/ Deleting /\ \E d \in Deleters : Sharing!ListMarkers(d)
    \/ Deleting /\ \E d \in Deleters : Sharing!LoadMarker(d)
    \/ Deleting /\ \E d \in Deleters : Sharing!DeleteMarker(d)
    \/ Deleting /\ \E d \in Deleters : Sharing!DeleteRecord(d)
    \/ Deleting /\ \E d \in Deleters : Sharing!DeleteObject(d)
    \/ Revoking /\ \E r \in Revokers : Sharing!LoadRecord(r)
    \/ Revoking /\ \E r \in Revokers : Sharing!RevokeCall(r)
    \/ IntakeScene /\ Checks!InspectPrefix
    \/ IntakeScene /\ Checks!Sanitize
    \/ IntakeScene /\ Checks!Store
    \/ IntakeScene /\ Checks!StoreFails
    \/ IntakeScene /\ Checks!InspectArchive
    \/ IntakeScene /\ Checks!FullScan
    \/ IntakeScene /\ Checks!PrepareDocument
    \/ IntakeScene /\ Checks!Commit
    \/ FanoutScene /\ Fanout!ReadBody
    \/ FanoutScene /\ Fanout!WriteChunk
    \/ FanoutScene /\ Fanout!ClosePipes
    \/ FanoutScene /\ Fanout!Put
    \/ FanoutScene /\ Fanout!ScanVirus
    \/ FanoutScene /\ Fanout!ScanDocument
    \/ FanoutScene /\ Fanout!Convert
    \/ FanoutScene /\ Fanout!WaitCopy
    \/ FanoutScene /\ Fanout!InspectArchive
    \/ FanoutScene /\ Fanout!AwaitScan
    \/ FanoutScene /\ Fanout!PrepareDocument
    \/ FanoutScene /\ Fanout!CopyFinal
    \/ ArchiveScene /\ Guard!Entry
    \/ ArchiveScene /\ Guard!CountStream
    \/ ArchiveScene /\ Guard!Leave
    \/ ArchiveScene /\ Guard!Reject
    \/ ArchiveScene /\ Guard!Interrupt
    \/ MediaScene /\ Media!Copy
    \/ MediaScene /\ Media!Drop
    \/ MediaScene /\ Media!CopyRest
    \/ MediaScene /\ Media!Enter
    \/ MediaScene /\ Media!Leave
    \/ MediaScene /\ Media!Finish
    \/ MediaScene /\ Media!Reject
    \/ SearchScene /\ Search!Append1
    \/ SearchScene /\ Search!ExpireOverlay
    \/ SearchScene /\ Search!Commit
    \/ SearchScene /\ Search!PutCache
    \/ SearchScene /\ Search!SetLast
    \/ SearchScene /\ Search!RunFails
    \/ SearchScene /\ Search!AskIndex
    \/ SearchScene /\ Search!ReadKey
    \/ SearchScene /\ Search!ListOverlay
    \/ SearchScene /\ Search!Answer
    \/ SearchScene /\ Search!Forget
    \/ AccessScene /\ Access!Tick
    \/ AccessScene /\ \E q \in Reads : Access!Begin(q)
    \/ AccessScene /\ \E q \in Reads : Access!Ask(q)
    \/ AccessScene /\ \E q \in Reads : Access!Record(q)
    \/ AuditScene /\ Audit!AppendEvent
    \/ AuditScene /\ Audit!Checkpoint
    \/ AuditScene /\ Audit!TamperEvent
    \/ AuditScene /\ Audit!TamperOriginal
    \/ AuditScene /\ Audit!TamperChain

MCSpec == MCInit /\ [][MCNext]_allVars

Symmetry ==
    Permutations(Shares) \cup Permutations(Objects) \cup Permutations(Deleters)
        \cup Permutations(Reads)

-----------------------------------------------------------------------------
\* Deleting an object ends its older shares, all but one another deletion is
\* about to delete or failed to delete, and leaves those of other objects whose
\* markers can be read (deleteObjectAndShares, deleteSharesForObject).
DeletionIsExact ==
    scene = "share" => Sharing!NoShareSurvives /\ Sharing!OthersKeepTheirs

\* Nothing active, and no picture with metadata, is stored uninspected because of
\* its name or its declared type, but for what per_file_type lets by under an
\* extension without a type and for metadata the search does not find
\* (inspectUploadPrefix, applyFileSanitization).
StoredWasInspected == scene = "intake" => Checks!StoredWasInspected

\* An upload is stored with all its bytes or not at all (EffectiveMaxUploadBytes,
\* applyFileSanitization).
StoredWhole == scene = "intake" => Checks!StoredWhole

\* A document is known as protected exactly when it is, and only its own password
\* lets it in (prepareDocument, CheckPassword).
ProtectedWasOpened == scene = "intake" => Checks!ProtectedWasOpened

\* What is under the final key is the whole body and passed what was asked for,
\* and without faults nothing else refuses a body, a thumbnail that fails least of
\* all (putObjectWithSecurityScan, uploadFile, startThumbnailUpload).
ChecksDecide == scene = "fanout" => Fanout!FinalIsChecked /\ Fanout!ThumbnailIsOptional

\* No goroutine of an upload is left waiting on another (putObjectWithSecurityScan).
AllEnd == scene = "fanout" => Fanout!AllEnd

\* The walk with its shared budget decides what the limits say of the whole tree
\* (inspectArchiveObject).
VerdictIsRight == scene = "archive" => Guard!VerdictIsRight

\* The walk removes the metadata parts at every level and nothing else
\* (sanitizeJPEGMetadata, sanitizePNGMetadata, sanitizeWEBPMetadata,
\* sanitizeBMFFBoxes).
OnlyMetadataGone == scene = "media" => Media!OnlyMetadataGone

\* A search shows no state older than one journaled before it began
\* (Server.search).
ShownIsCurrent == scene = "search" => Search!ShownIsCurrent

\* While no run moves the index, a listing, its total and its facet counts are
\* exact (Server.search, Server.facets).
QuietExact == scene = "search" => Search!QuietExact

\* A read is served without an event only in the window of one whose event is
\* being written or was refused, and a burst of reads is one event per window
\* unless a full log was cleared between them (Server.recordAccess,
\* accessLog.shouldRecord).
ReadsAreRecorded ==
    scene = "access" => Access!EveryReadAccounted /\ Access!OneEventPerWindow

\* Without findings nothing the chain reaches was touched, and with the
\* checkpoints as written the findings are the differences (Chain.Verify).
VerifyIsExact == scene = "audit" => Audit!SilenceIsProof /\ Audit!FindingsAreExact
===============================================================================
