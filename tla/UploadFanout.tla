----------------------------- MODULE UploadFanout -----------------------------
(***************************************************************************)
(* One upload body on its way through the security checks of               *)
(* streamuploader (internal/server clamav.go, sanitizer.go, server.go): it *)
(* is copied chunk by chunk into synchronous pipes, one for the S3 PUT,    *)
(* one for ClamAV, one for the thumbnail or the full scan of a document.   *)
(* The pipes are written in that order; each reader is a goroutine that    *)
(* may stop early, and a reader that stopped fails the copy for all.       *)
(***************************************************************************)
EXTENDS Integers, Sequences, FiniteSets

CONSTANTS
    Chunks,         \* bound: lengths of a body, in copies of the buffer
    ScanLimit,      \* ResourceLimits.MaxFileSizeBytes, in chunks
    MaxFaults       \* bound: calls, connections and bodies that fail

FanoutAssumption ==
    /\ Chunks \subseteq Nat
    /\ {ScanLimit, MaxFaults} \subseteq Nat

VARIABLES
    upload,     \* the body and the checks that apply to it
    copy,       \* the handler: the copy, then the checks on the stored object
    pipe,       \* how the copy left the pipes: "open", "eof" or "broken"
    readers,    \* per pipe: the goroutine at its other end
    objects,    \* the staged and the final object: chunks stored, -1 if absent
    faults

vars == <<upload, copy, pipe, readers, objects, faults>>

Sinks == {"s3", "av", "thumb", "scan"}
Running == [stopped |-> FALSE, taken |-> 0, result |-> "none"]
Absent == -1

\* The writers of the MultiWriter, in the order they are appended.
Writers(u) ==
    <<"s3">> \o (IF u.clamav THEN <<"av">> ELSE <<>>)
             \o (IF u.side = "none" THEN <<>> ELSE <<u.side>>)

\* A body is staged under a temporary key when something must still pass.
Staged(u) == u.clamav \/ u.side = "scan" \/ u.inspected
Target(u) == IF Staged(u) THEN "temp" ELSE "final"

Inputs == [chunks : Chunks, clamav : BOOLEAN, side : {"none", "thumb", "scan"},
            inspected : BOOLEAN]

Init ==
    /\ upload \in Inputs
    /\ copy = [pc |-> "read", sent |-> 0, at |-> 1, error |-> "none"]
    /\ pipe = "open"
    /\ readers = [s \in Sinks |-> Running]
    /\ objects = [o \in {"temp", "final"} |-> Absent]
    /\ faults = 0

Fault == faults < MaxFaults /\ faults' = faults + 1

-----------------------------------------------------------------------------
(* The copy.  The body ends, or breaks off: the client went away, sent     *)
(* more than the limit, or ran into the deadline.                          *)

ReadBody ==
    /\ copy.pc = "read"
    /\ \/ /\ copy.sent < upload.chunks
          /\ copy' = [copy EXCEPT !.pc = "write", !.at = 1]
          /\ UNCHANGED faults
       \/ /\ copy.sent = upload.chunks
          /\ copy' = [copy EXCEPT !.pc = "close"]
          /\ UNCHANGED faults
       \/ /\ Fault
          /\ copy' = [copy EXCEPT !.pc = "close", !.error = "body"]
    /\ UNCHANGED <<upload, pipe, readers, objects>>

\* A write returns when the reader took the chunk or closed its end.
WriteChunk ==
    /\ copy.pc = "write"
    /\ LET sink == Writers(upload)[copy.at] IN
       IF readers[sink].stopped
       THEN /\ copy' = [copy EXCEPT !.pc = "close", !.error = "pipe"]
            /\ UNCHANGED readers
       ELSE /\ readers' = [readers EXCEPT ![sink].taken = @ + 1]
            /\ copy' = IF copy.at < Len(Writers(upload))
                       THEN [copy EXCEPT !.at = @ + 1]
                       ELSE [copy EXCEPT !.pc = "read", !.sent = @ + 1]
    /\ UNCHANGED <<upload, pipe, objects, faults>>

LeftPipe_Closed(error) == "eof"
LeftPipe(error) == IF error = "none" THEN "eof" ELSE "broken"

ClosePipes ==
    /\ copy.pc = "close"
    /\ pipe' = LeftPipe(copy.error)
    /\ copy' = [copy EXCEPT !.pc = "wait"]
    /\ UNCHANGED <<upload, readers, objects, faults>>

-----------------------------------------------------------------------------
(* The readers.                                                            *)

Listening(sink) ==
    sink \in {Writers(upload)[i] : i \in 1..Len(Writers(upload))}
    /\ ~readers[sink].stopped

Stop(sink, result) ==
    readers' = [readers EXCEPT ![sink].stopped = TRUE, ![sink].result = result]

\* PutObject stores the object when its body ends, never when it breaks; the
\* answer may be lost after the object was stored, or the call fail before.
Put ==
    /\ Listening("s3")
    /\ \/ /\ pipe = "eof" /\ Stop("s3", "ok")
          /\ objects' = [objects EXCEPT ![Target(upload)] = readers["s3"].taken]
          /\ UNCHANGED faults
       \/ /\ pipe = "eof" /\ Fault /\ Stop("s3", "failed")
          /\ objects' = [objects EXCEPT ![Target(upload)] = readers["s3"].taken]
       \/ /\ Fault /\ Stop("s3", "failed") /\ UNCHANGED objects
       \/ /\ pipe = "broken" /\ Stop("s3", "failed")
          /\ UNCHANGED <<objects, faults>>
    /\ UNCHANGED <<upload, copy, pipe>>

\* scanReaderWithClamAV: no connection, a broken one or the timeout end it at
\* any time; the verdict comes after the end of the stream.
ScanVirus ==
    /\ Listening("av")
    /\ \/ Fault /\ Stop("av", "failed")
       \/ pipe = "broken" /\ Stop("av", "failed") /\ UNCHANGED faults
       \/ /\ pipe = "eof" /\ UNCHANGED faults
          /\ \E verdict \in {"ok", "rejected"} : Stop("av", verdict)
    /\ UNCHANGED <<upload, copy, pipe, objects>>

\* startDocumentFullScan reads one chunk past its limit at most and closes
\* its end; its channel holds the result until somebody asks, or nobody does.
Reported_Received == copy.pc = "scan"
Reported == TRUE

ScanDocument ==
    /\ Listening("scan") /\ Reported /\ UNCHANGED faults
    /\ \/ readers["scan"].taken > ScanLimit /\ Stop("scan", "rejected")
       \/ pipe = "broken" /\ Stop("scan", "failed")
       \/ /\ pipe = "eof" /\ readers["scan"].taken <= ScanLimit
          /\ \E verdict \in {"ok", "rejected"} : Stop("scan", verdict)
    /\ UNCHANGED <<upload, copy, pipe, objects>>

\* The thumbnail: a conversion that gave up still reads the pipe to its end.
Drained_Never == TRUE
Drained == pipe # "open"

Convert ==
    /\ Listening("thumb") /\ Drained
    /\ \E result \in {"ok", "failed"} :
          (result = "ok" => pipe = "eof") /\ Stop("thumb", result)
    /\ UNCHANGED <<upload, copy, pipe, objects, faults>>

-----------------------------------------------------------------------------
(* The handler after the copy.                                             *)

Remove(os) == [os EXCEPT !["temp"] = Absent]

\* The staged object is deleted without looking at the answer.
Discard ==
    \/ objects' = Remove(objects) /\ UNCHANGED faults
    \/ Fault /\ UNCHANGED objects

\* The first of the errors the copy, the scan and the PUT ended with.
CopyPassed_Put == readers["s3"].result = "ok"
CopyPassed ==
    /\ copy.error = "none"
    /\ upload.clamav => readers["av"].result = "ok"
    /\ readers["s3"].result = "ok"

Reject ==
    /\ copy' = [copy EXCEPT !.pc = "failed"]
    /\ IF Staged(upload) THEN Discard ELSE UNCHANGED <<objects, faults>>

WaitCopy ==
    /\ copy.pc = "wait"
    /\ readers["s3"].stopped
    /\ upload.clamav => readers["av"].stopped
    /\ \/ /\ CopyPassed
          /\ copy' = [copy EXCEPT !.pc = "inspect"]
          /\ UNCHANGED <<objects, faults>>
       \/ ~CopyPassed /\ Reject
    /\ UNCHANGED <<upload, pipe, readers>>

\* inspectArchiveObject reads the staged object.
InspectArchive ==
    /\ copy.pc = "inspect"
    /\ \/ /\ copy' = [copy EXCEPT !.pc = "scan"]
          /\ UNCHANGED <<objects, faults>>
       \/ upload.inspected /\ Reject
    /\ UNCHANGED <<upload, pipe, readers>>

AwaitScan ==
    /\ copy.pc = "scan"
    /\ \/ /\ upload.side = "scan" => readers["scan"].result = "ok"
          /\ copy' = [copy EXCEPT !.pc = "prepare"]
          /\ UNCHANGED <<objects, faults>>
       \/ /\ upload.side = "scan" /\ readers["scan"].result \in {"rejected", "failed"}
          /\ Reject
    /\ UNCHANGED <<upload, pipe, readers>>

\* prepareDocument reads it again.
PrepareDocument ==
    /\ copy.pc = "prepare"
    /\ \/ /\ copy' = [copy EXCEPT !.pc = IF Staged(upload) THEN "copy" ELSE "accepted"]
          /\ UNCHANGED <<objects, faults>>
       \/ upload.inspected /\ Reject
    /\ UNCHANGED <<upload, pipe, readers>>

\* CopyObject under the final key, then the staged object is deleted.
CopyFinal ==
    /\ copy.pc = "copy"
    /\ \/ /\ copy' = [copy EXCEPT !.pc = "accepted"]
          /\ \/ /\ objects' = [temp |-> Absent, final |-> objects["temp"]]
                /\ UNCHANGED faults
             \/ Fault /\ objects' = [objects EXCEPT !["final"] = objects["temp"]]
       \/ /\ Fault /\ copy' = [copy EXCEPT !.pc = "failed"]
          /\ \E final \in {Absent, objects["temp"]} :
                objects' = [temp |-> Absent, final |-> final]
    /\ UNCHANGED <<upload, pipe, readers>>

Next ==
    \/ ReadBody \/ WriteChunk \/ ClosePipes
    \/ Put \/ ScanVirus \/ ScanDocument \/ Convert
    \/ WaitCopy \/ InspectArchive \/ AwaitScan \/ PrepareDocument \/ CopyFinal

Spec == Init /\ [][Next]_vars

-----------------------------------------------------------------------------
(* Correctness.                                                            *)

TypeOK ==
    /\ upload \in Inputs
    /\ copy \in [pc : {"read", "write", "close", "wait", "inspect", "scan",
                       "prepare", "copy", "accepted", "failed"},
                 sent : Nat, at : 1..3, error : {"none", "body", "pipe"}]
    /\ pipe \in {"open", "eof", "broken"}
    /\ readers \in [Sinks -> [stopped : BOOLEAN, taken : Nat,
                              result : {"none", "ok", "rejected", "failed"}]]
    /\ objects \in [{"temp", "final"} -> Nat \cup {Absent}]
    /\ faults \in 0..MaxFaults

\* Whatever is under the final key is the whole body, and where a check was
\* asked for, it passed: a body cut by the client, by the deadline or by a
\* reader that gave up is never stored as if it had ended
\* (putObjectWithSecurityScan, uploadFile).
FinalIsChecked ==
    objects["final"] # Absent =>
        /\ objects["final"] = upload.chunks
        /\ upload.clamav => readers["av"].result = "ok"
        /\ upload.side = "scan" => readers["scan"].result = "ok"

\* A thumbnail that cannot be made never fails the upload: without a fault a
\* body is refused only by ClamAV, by the inspection or by the full scan
\* (startThumbnailUpload drains its pipe).
ThumbnailIsOptional ==
    copy.pc = "failed" /\ faults = 0 =>
        \/ upload.inspected
        \/ readers["av"].result = "rejected"
        \/ readers["scan"].result = "rejected"

\* No goroutine of an upload is left waiting on another, whichever of them
\* stops first: where nothing can move any more the handler has answered and
\* every reader has ended (wg.Wait, the buffered channels of the jobs).
AllEnd ==
    ENABLED Next
    \/ /\ copy.pc \in {"accepted", "failed"}
       /\ \A i \in 1..Len(Writers(upload)) : readers[Writers(upload)[i]].stopped
=============================================================================
