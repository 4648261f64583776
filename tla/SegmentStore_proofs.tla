-------------------------- MODULE SegmentStore_proofs --------------------------
(***************************************************************************)
(* What the published index promises, for any number of followers and      *)
(* segments, any grace period and any number of faults, as long as one     *)
(* indexer writes.                                                         *)
(***************************************************************************)
EXTENDS SegmentStore, TLAPS

\* Two indexers of one tenant are a deployment error; with one, any two are the same.
OneWriter == \A v, w \in Writers : v = w

(***************************************************************************)
(* Types.                                                                  *)
(***************************************************************************)

\* The missing pointer is a pointer.
LEMMA NoPointerType == NoPointer \in Pointers
  BY DEF NoPointer, NotRetired, Pointers, Times, Never

\* No publication has well-typed locals.
LEMMA NoDraftType == NoDraft \in Drafts
  BY NoPointerType DEF NoDraft, Drafts

\* The pointer a publication writes is a pointer.
LEMMA NewPointerType ==
  ASSUME TypeOK, NEW w \in Writers
  PROVE  NewPointer(w) \in Pointers
  <1>1. draft[w] \in Drafts /\ wanted[w] \in SUBSET Segs
    BY DEF TypeOK
  <1>2. draft[w].prev \in Pointers /\ draft[w].start \in Nat
    BY <1>1 DEF Drafts
  <1>3. RetiredBy(draft[w], wanted[w]) \in [Segs -> Times]
    BY <1>1, <1>2 DEF RetiredBy, Pointers, Times, Never
  <1>4. draft[w].prev.gen + 1 \in Nat
    BY <1>2 DEF Pointers
  <1> QED  BY <1>1, <1>3, <1>4 DEF NewPointer, Pointers

\* An abandoned publication leaves types alone.
LEMMA AbandonType ==
  ASSUME TypeOK, NEW w \in Writers, Abandon(w)
  PROVE  /\ wpc' \in [Writers -> {"down", "idle", "upload", "delete", "put", "save", "sweep"}]
         /\ draft' \in [Writers -> Drafts]
         /\ faults' \in Nat
  BY NoDraftType DEF Abandon, Fault, TypeOK

\* Locals of a publication with a changed set are locals of a publication.
LEMMA DraftUpdate ==
  ASSUME NEW d \in Drafts, NEW S \in SUBSET Segs, NEW T \in SUBSET Segs
  PROVE  /\ [d EXCEPT !.upload = S] \in Drafts
         /\ [d EXCEPT !.expired = S] \in Drafts
         /\ [d EXCEPT !.expired = S, !.deleted = T] \in Drafts
  BY DEF Drafts

\* Every reachable state is well typed.
THEOREM TypeCorrect == Spec => []TypeOK
<1>1. Init => TypeOK
  BY NoPointerType, NoDraftType
     DEF Init, TypeOK, NotRetired, Times, Never
<1>2. TypeOK /\ [Next]_vars => TypeOK'
  <2> SUFFICES ASSUME TypeOK, [Next]_vars PROVE TypeOK'
    OBVIOUS
  <2>1. CASE Tick
    BY <2>1 DEF Tick, TypeOK, bucketVars, writerVars, readerVars
  <2>3. ASSUME NEW w \in Writers, Commit(w) PROVE TypeOK'
    BY <2>3 DEF Commit, TypeOK, bucketVars, readerVars
  <2>4. ASSUME NEW w \in Writers, Restart(w) PROVE TypeOK'
    <3>1. wanted' \in [Writers -> SUBSET Segs] /\ localGen' \in [Writers -> Times]
      <4>1. CASE pointer.gen # 0 /\ localGen[w] # pointer.gen
        BY <2>4, <4>1 DEF Restart, TypeOK, Pointers, Times
      <4>2. CASE ~(pointer.gen # 0 /\ localGen[w] # pointer.gen)
        BY <2>4, <4>2 DEF Restart, TypeOK, Times
      <4> QED  BY <4>1, <4>2
    <3> QED
      BY <2>4, <3>1 DEF Restart, TypeOK, bucketVars, readerVars
  <2>5. ASSUME NEW w \in Writers, Crash(w) PROVE TypeOK'
    BY <2>5, NoPointerType, NoDraftType
       DEF Crash, Fault, TypeOK, bucketVars, readerVars, Times
  <2>6. ASSUME NEW w \in Writers, PublishBegin(w) PROVE TypeOK'
    <3>1. draft'[w] \in Drafts
      BY <2>6 DEF PublishBegin, TypeOK, Drafts, Expired
    <3> QED
      BY <2>6, <3>1 DEF PublishBegin, TypeOK, bucketVars, readerVars
  <2>7. ASSUME NEW w \in Writers, Upload(w) PROVE TypeOK'
    <3>1. object' \in [Segs -> Times]
      BY <2>7 DEF Upload, TypeOK, Times
    <3>2. /\ wpc' \in [Writers -> {"down", "idle", "upload", "delete", "put", "save", "sweep"}]
          /\ draft' \in [Writers -> Drafts] /\ faults' \in Nat
      <4>1. draft[w] \in Drafts /\ draft[w].upload \subseteq Segs
        BY DEF TypeOK, Drafts
      <4>2. CASE Abandon(w)
        BY <4>2, AbandonType
      <4>3. ASSUME NEW s \in Segs, draft' = [draft EXCEPT ![w].upload = @ \ {s}],
                   UNCHANGED <<wpc, faults>>
            PROVE  wpc' \in [Writers -> {"down", "idle", "upload", "delete", "put",
                                         "save", "sweep"}]
                   /\ draft' \in [Writers -> Drafts] /\ faults' \in Nat
        <5>1. [draft[w] EXCEPT !.upload = draft[w].upload \ {s}] \in Drafts
          BY <4>1, DraftUpdate
        <5> QED  BY <4>3, <5>1 DEF TypeOK
      <4> QED  BY <2>7, <4>1, <4>2, <4>3 DEF Upload, TypeOK
    <3> QED
      BY <2>7, <3>1, <3>2 DEF Upload, TypeOK, readerVars
  <2>8. ASSUME NEW w \in Writers, DeleteExpired(w) PROVE TypeOK'
    <3>1. object' \in [Segs -> Times]
      BY <2>8 DEF DeleteExpired, TypeOK, Times
    <3>2. draft' \in [Writers -> Drafts]
      <4>1. draft[w] \in Drafts /\ draft[w].expired \subseteq Segs
               /\ draft[w].deleted \subseteq Segs
        BY DEF TypeOK, Drafts
      <4>2. ASSUME NEW s \in draft[w].expired
            PROVE  /\ [draft[w] EXCEPT !.expired = draft[w].expired \ {s}] \in Drafts
                   /\ [draft[w] EXCEPT !.expired = draft[w].expired \ {s},
                                       !.deleted = draft[w].deleted \cup {s}] \in Drafts
        BY <4>1, DraftUpdate
      <4>3. CASE \E s \in draft[w].expired :
                    \/ draft' = [draft EXCEPT ![w].expired = @ \ {s},
                                            ![w].deleted = @ \cup {s}]
                    \/ draft' = [draft EXCEPT ![w].expired = @ \ {s}]
        <5>1. PICK s \in draft[w].expired :
                     \/ draft' = [draft EXCEPT ![w].expired = @ \ {s},
                                             ![w].deleted = @ \cup {s}]
                     \/ draft' = [draft EXCEPT ![w].expired = @ \ {s}]
          BY <4>3
        <5> QED  BY <4>2, <5>1 DEF TypeOK
      <4>4. CASE draft' = draft
        BY <4>4 DEF TypeOK
      <4> QED  BY <2>8, <4>3, <4>4 DEF DeleteExpired
    <3>3. wpc' \in [Writers -> {"down", "idle", "upload", "delete", "put", "save", "sweep"}]
          /\ faults' \in Nat
      <4>1. Fault \/ faults' = faults
        BY <2>8 DEF DeleteExpired
      <4>2. wpc' = wpc \/ wpc' = [wpc EXCEPT ![w] = "put"]
        BY <2>8 DEF DeleteExpired
      <4> QED  BY <4>1, <4>2 DEF TypeOK, Fault
    <3> QED
      BY <2>8, <3>1, <3>2, <3>3 DEF DeleteExpired, TypeOK, readerVars
  <2>9. ASSUME NEW w \in Writers, PutPointer(w) PROVE TypeOK'
    <3>1. NewPointer(w) \in Pointers
      BY NewPointerType
    <3>2. pointer' \in Pointers /\ lastRef' \in [Segs -> Times]
      BY <2>9, <3>1 DEF PutPointer, ReplacePointer, TypeOK, Times
    <3>3. /\ wpc' \in [Writers -> {"down", "idle", "upload", "delete", "put", "save", "sweep"}]
          /\ draft' \in [Writers -> Drafts] /\ faults' \in Nat
          /\ own' \in [Writers -> Pointers]
      BY <2>9, <3>1, AbandonType, NoDraftType DEF PutPointer, TypeOK
    <3> QED
      BY <2>9, <3>2, <3>3 DEF PutPointer, TypeOK, readerVars
  <2>10. ASSUME NEW w \in Writers, SaveGeneration(w) PROVE TypeOK'
    <3>1. draft' \in [Writers -> Drafts]
      <4>1. draft[w] \in Drafts /\ Unknown(own[w]) \in SUBSET Segs
        BY DEF TypeOK, Unknown, Present
      <4>2. [draft[w] EXCEPT !.expired = Unknown(own[w])] \in Drafts
        BY <4>1, DraftUpdate
      <4> QED  BY <2>10, <4>2 DEF SaveGeneration, TypeOK
    <3>2. localGen' \in [Writers -> Times]
      BY <2>10 DEF SaveGeneration, TypeOK, Pointers, Times
    <3> QED
      BY <2>10, <3>1, <3>2 DEF SaveGeneration, TypeOK, bucketVars, readerVars
  <2>11. ASSUME NEW w \in Writers, SweepOrphans(w) PROVE TypeOK'
    <3>1. object' \in [Segs -> Times]
      BY <2>11 DEF SweepOrphans, TypeOK, Times
    <3>2. /\ wpc' \in [Writers -> {"down", "idle", "upload", "delete", "put", "save", "sweep"}]
          /\ draft' \in [Writers -> Drafts] /\ faults' \in Nat
      <4>1. draft[w] \in Drafts /\ draft[w].expired \subseteq Segs
        BY DEF TypeOK, Drafts
      <4>2. CASE Abandon(w)
        BY <4>2, AbandonType
      <4>3. ASSUME NEW s \in Segs, draft' = [draft EXCEPT ![w].expired = @ \ {s}],
                   UNCHANGED <<wpc, faults>>
            PROVE  wpc' \in [Writers -> {"down", "idle", "upload", "delete", "put",
                                         "save", "sweep"}]
                   /\ draft' \in [Writers -> Drafts] /\ faults' \in Nat
        <5>1. [draft[w] EXCEPT !.expired = draft[w].expired \ {s}] \in Drafts
          BY <4>1, DraftUpdate
        <5> QED  BY <4>3, <5>1 DEF TypeOK
      <4> QED  BY <2>11, <4>1, <4>2, <4>3 DEF SweepOrphans, TypeOK
    <3> QED
      BY <2>11, <3>1, <3>2 DEF SweepOrphans, TypeOK, readerVars
  <2>12. ASSUME NEW r \in Readers, Refresh(r) PROVE TypeOK'
    <3>1. CASE ReadPointer(r)
      BY <3>1 DEF ReadPointer, TypeOK, bucketVars, writerVars
    <3>2. CASE Download(r)
      <4>1. target[r].files \subseteq Segs
        BY DEF TypeOK, Pointers
      <4>2. dir' \in [Readers -> SUBSET Segs] /\ localMeta' \in [Readers -> SUBSET Segs]
        BY <3>2, <4>1 DEF Download, TypeOK
      <4>3. /\ rpc' \in [Readers -> {"idle", "fetch", "reload"}]
            /\ target' \in [Readers -> Pointers] /\ faults' \in Nat
        BY <3>2, NoPointerType DEF Download, RefreshFails, Fault, TypeOK
      <4> QED
        BY <3>2, <4>2, <4>3 DEF Download, TypeOK, bucketVars, writerVars
    <3>3. CASE Reload(r)
      BY <3>3, NoPointerType
         DEF Reload, RefreshFails, Fault, Pruned, TypeOK, bucketVars, writerVars
    <3> QED  BY <2>12, <3>1, <3>2, <3>3 DEF Refresh
  <2>13. ASSUME NEW r \in Readers, RestartReader(r) PROVE TypeOK'
    BY <2>13, NoPointerType
       DEF RestartReader, RefreshFails, Fault, TypeOK, bucketVars, writerVars
  <2>14. CASE UNCHANGED vars
    BY <2>14 DEF vars, bucketVars, writerVars, readerVars, TypeOK
  <2> QED
    BY <2>1, <2>3, <2>4, <2>5, <2>6, <2>7, <2>8, <2>9, <2>10, <2>11, <2>12,
       <2>13, <2>14 DEF Next, Publish
<1> QED  BY <1>1, <1>2, PTL DEF Spec

(***************************************************************************)
(* The pointer never names a missing file.  The invariant says why: while  *)
(* a publication runs, its base is the pointer in the bucket, what it will *)
(* name and need not upload is there, and what it deletes is named by      *)
(* neither; while a sweep runs, what it looks at is not named.             *)
(***************************************************************************)
PublicationSafe(w) ==
    wpc[w] \in Publishing =>
        /\ pointer = draft[w].prev
        /\ wanted[w] \ draft[w].upload \subseteq Present
        /\ draft[w].expired \cap (wanted[w] \cup draft[w].prev.files) = {}

\* Nothing is deleted before every upload is done.
UploadsDone(w) == wpc[w] \in {"delete", "put"} => draft[w].upload = {}

\* A sweep runs under the pointer it was listed for, and spares what that names.
SweepSafe(w) ==
    /\ wpc[w] \in {"save", "sweep"} => pointer = own[w]
    /\ wpc[w] = "sweep" => draft[w].expired \cap own[w].files = {}

\* A named file is not on the list of retired files.
NamedNotRetired == \A s \in pointer.files : pointer.retired[s] = Never

CompleteInv ==
    /\ TypeOK /\ PointerComplete /\ NamedNotRetired
    /\ \A w \in Writers : PublicationSafe(w) /\ UploadsDone(w) /\ SweepSafe(w)

\* The invariant holds of an empty bucket.
LEMMA CompleteInit == Init => CompleteInv
<1> SUFFICES ASSUME Init PROVE CompleteInv
  OBVIOUS
<1>1. TypeOK
  BY NoPointerType, NoDraftType DEF Init, TypeOK, NotRetired, Times, Never
<1> QED
  BY <1>1 DEF Init, CompleteInv, PointerComplete, NamedNotRetired, PublicationSafe,
              UploadsDone, SweepSafe, NoPointer, Publishing

\* What steps outside the publication change, they change harmlessly.
LEMMA CompleteOutside ==
  ASSUME CompleteInv, TypeOK',
         UNCHANGED <<object, pointer, wpc, wanted, draft, own>>
  PROVE  CompleteInv'
<1>1. Present' = Present
  BY DEF Present
<1>2. PointerComplete' /\ NamedNotRetired'
  BY <1>1 DEF CompleteInv, PointerComplete, NamedNotRetired
<1>3. ASSUME NEW w \in Writers
      PROVE  PublicationSafe(w)' /\ UploadsDone(w)' /\ SweepSafe(w)'
  BY <1>1, <1>3 DEF CompleteInv, PublicationSafe, UploadsDone, SweepSafe
<1> QED  BY <1>2, <1>3 DEF CompleteInv

\* A step of the only writer that leaves the pointer alone and removes no file
\* the pointer names only has to keep the three facts about that writer.
LEMMA CompleteWriter ==
  ASSUME CompleteInv, OneWriter, TypeOK', NEW w \in Writers,
         UNCHANGED pointer, pointer.files \subseteq Present',
         PublicationSafe(w)', UploadsDone(w)', SweepSafe(w)'
  PROVE  CompleteInv'
  BY DEF CompleteInv, OneWriter, PointerComplete, NamedNotRetired

\* A writer that is between publications has nothing to keep.
LEMMA CompleteIdle ==
  ASSUME CompleteInv, OneWriter, TypeOK', NEW w \in Writers,
         UNCHANGED pointer, Present \subseteq Present', wpc'[w] \in {"down", "idle"}
  PROVE  CompleteInv'
<1>1. PublicationSafe(w)' /\ UploadsDone(w)' /\ SweepSafe(w)'
  BY DEF PublicationSafe, UploadsDone, SweepSafe, Publishing
<1> QED  BY <1>1, CompleteWriter DEF CompleteInv, PointerComplete

\* One conjunct per step of a publication.
LEMMA CompletePublish ==
  ASSUME CompleteInv, OneWriter, TypeOK', NEW w \in Writers, Publish(w)
  PROVE  CompleteInv'
<1> USE DEF CompleteInv
<1>0. /\ wpc \in [Writers -> {"down", "idle", "upload", "delete", "put", "save", "sweep"}]
      /\ draft \in [Writers -> Drafts] /\ own \in [Writers -> Pointers]
      /\ object \in [Segs -> Times]
      /\ draft[w] \in Drafts /\ draft[w].expired \subseteq Segs
      /\ draft[w].prev \in Pointers
  BY DEF TypeOK, Drafts
<1>1. CASE PublishBegin(w)
  <2>1. wpc'[w] = "upload" /\ draft'[w].prev = pointer
        /\ draft'[w].upload = wanted[w] \ pointer.files
        /\ draft'[w].expired = Expired(pointer, wanted[w], now)
        /\ UNCHANGED <<pointer, wanted, object>>
    BY <1>1, <1>0 DEF PublishBegin, bucketVars
  <2>2. Present' = Present
    BY <2>1 DEF Present
  <2>3. PublicationSafe(w)'
    BY <2>1, <2>2 DEF PublicationSafe, Expired, NamedNotRetired, PointerComplete
  <2>4. UploadsDone(w)' /\ SweepSafe(w)'
    BY <2>1 DEF UploadsDone, SweepSafe
  <2> QED  BY <2>1, <2>2, <2>3, <2>4, CompleteWriter DEF PointerComplete
<1>2. CASE Upload(w)
  <2>1. UNCHANGED <<pointer, wanted, own>> /\ wpc[w] = "upload"
    BY <1>2 DEF Upload
  <2>2. Present \subseteq Present'
    BY <1>2, <1>0 DEF Upload, Present, TypeOK, Times, Never
  <2>3. CASE Abandon(w)
    <3>1. wpc'[w] = "idle"
      BY <2>3, <1>0 DEF Abandon
    <3> QED  BY <3>1, <2>1, <2>2, CompleteIdle
  <2>4. ASSUME NEW s \in draft[w].upload, object' = [object EXCEPT ![s] = now],
               draft' = [draft EXCEPT ![w].upload = @ \ {s}], UNCHANGED wpc
        PROVE  CompleteInv'
    <3>1. /\ draft'[w].upload = draft[w].upload \ {s}
          /\ draft'[w].prev = draft[w].prev /\ draft'[w].expired = draft[w].expired
      BY <2>4, <1>0 DEF Drafts
    <3>2. s \in Present'
      BY <2>4, <1>0 DEF Present, TypeOK, Drafts, Times, Never
    <3>3. PublicationSafe(w)'
      BY <2>1, <2>2, <2>4, <3>1, <3>2 DEF PublicationSafe, Publishing
    <3>4. UploadsDone(w)' /\ SweepSafe(w)'
      BY <2>1, <2>4 DEF UploadsDone, SweepSafe
    <3> QED  BY <2>1, <2>2, <3>3, <3>4, CompleteWriter DEF PointerComplete
  <2>5. CASE draft[w].upload = {} /\ wpc' = [wpc EXCEPT ![w] = "delete"]
             /\ UNCHANGED <<object, draft>>
    <3>1. wpc'[w] = "delete"
      BY <2>5, <1>0
    <3>2. PublicationSafe(w)' /\ UploadsDone(w)' /\ SweepSafe(w)'
      BY <2>1, <2>2, <2>5, <3>1
         DEF PublicationSafe, UploadsDone, SweepSafe, Publishing
    <3> QED  BY <2>1, <2>2, <3>2, CompleteWriter DEF PointerComplete
  <2> QED  BY <1>2, <2>3, <2>4, <2>5 DEF Upload
<1>3. CASE DeleteExpired(w)
  <2>1. /\ UNCHANGED <<pointer, wanted, own>> /\ wpc[w] = "delete"
        /\ draft[w].upload = {}
    BY <1>3 DEF DeleteExpired, UploadsDone
  <2>2. ASSUME NEW s \in draft[w].expired, UNCHANGED wpc,
               object' = [object EXCEPT ![s] = Never] \/ UNCHANGED object,
               draft'[w].expired = draft[w].expired \ {s},
               draft'[w].upload = draft[w].upload, draft'[w].prev = draft[w].prev
        PROVE  CompleteInv'
    <3>1. s \notin wanted[w] /\ s \notin draft[w].prev.files /\ s \notin pointer.files
      BY <2>1, <2>2 DEF PublicationSafe, Publishing
    <3>2. Present \ {s} \subseteq Present'
      BY <2>2, <1>0 DEF Present
    <3>3. PublicationSafe(w)'
      BY <2>1, <2>2, <3>1, <3>2 DEF PublicationSafe, Publishing
    <3>4. UploadsDone(w)' /\ SweepSafe(w)'
      BY <2>1, <2>2 DEF UploadsDone, SweepSafe
    <3>5. pointer.files \subseteq Present'
      BY <3>1, <3>2 DEF PointerComplete
    <3> QED  BY <2>1, <3>3, <3>4, <3>5, CompleteWriter
  <2>3. CASE wpc' = [wpc EXCEPT ![w] = "put"] /\ UNCHANGED <<object, draft>>
    <3>1. wpc'[w] = "put" /\ Present' = Present
      BY <2>3, <1>0 DEF Present
    <3>2. PublicationSafe(w)' /\ UploadsDone(w)' /\ SweepSafe(w)'
      BY <2>1, <2>3, <3>1 DEF PublicationSafe, UploadsDone, SweepSafe, Publishing
    <3> QED  BY <2>1, <3>1, <3>2, CompleteWriter DEF PointerComplete
  <2>4. ASSUME NEW s \in draft[w].expired, draft' = [draft EXCEPT ![w].expired = @ \ {s}]
        PROVE  /\ draft'[w].expired = draft[w].expired \ {s}
               /\ draft'[w].upload = draft[w].upload /\ draft'[w].prev = draft[w].prev
    BY <2>4, <1>0 DEF Drafts
  <2>5. ASSUME NEW s \in draft[w].expired,
               draft' = [draft EXCEPT ![w].expired = @ \ {s},
                                      ![w].deleted = @ \cup {s}]
        PROVE  /\ draft'[w].expired = draft[w].expired \ {s}
               /\ draft'[w].upload = draft[w].upload /\ draft'[w].prev = draft[w].prev
    BY <2>5, <1>0 DEF Drafts
  <2> QED  BY <1>3, <2>2, <2>3, <2>4, <2>5 DEF DeleteExpired
<1>4. CASE PutPointer(w)
  <2>1. /\ wpc[w] = "put" /\ wpc'[w] \in {"save", "idle"}
        /\ UNCHANGED <<object, wanted>>
        /\ wpc'[w] = "save" => own'[w] = NewPointer(w) /\ pointer' = NewPointer(w)
        /\ pointer' \in {pointer, NewPointer(w)}
    BY <1>4, <1>0 DEF PutPointer, Abandon, ReplacePointer
  <2>2. Present' = Present /\ wanted[w] \subseteq Present
    BY <2>1 DEF Present, PublicationSafe, UploadsDone, Publishing
  <2>3. PointerComplete' /\ NamedNotRetired'
    <3>1. NewPointer(w).files = wanted[w] /\ wanted[w] \subseteq Segs
          /\ \A s \in wanted[w] : NewPointer(w).retired[s] = Never
      BY DEF NewPointer, RetiredBy, TypeOK
    <3> QED  BY <2>1, <2>2, <3>1 DEF PointerComplete, NamedNotRetired
  <2>4. PublicationSafe(w)' /\ UploadsDone(w)' /\ SweepSafe(w)'
    BY <2>1 DEF PublicationSafe, UploadsDone, SweepSafe, Publishing
  <2> QED  BY <2>3, <2>4 DEF OneWriter
<1>5. CASE SaveGeneration(w)
  <2>1. /\ wpc[w] = "save" /\ wpc'[w] = "sweep"
        /\ UNCHANGED <<pointer, object, wanted, own>>
        /\ draft'[w].expired = Unknown(own[w])
    BY <1>5, <1>0 DEF SaveGeneration, bucketVars, Drafts
  <2>2. Present' = Present
    BY <2>1 DEF Present
  <2>3. PublicationSafe(w)' /\ UploadsDone(w)' /\ SweepSafe(w)'
    BY <2>1 DEF PublicationSafe, UploadsDone, SweepSafe, Publishing, Unknown
  <2> QED  BY <2>1, <2>2, <2>3, CompleteWriter DEF PointerComplete
<1>6. CASE SweepOrphans(w)
  <2>1. UNCHANGED <<pointer, wanted, own>> /\ wpc[w] = "sweep"
    BY <1>6 DEF SweepOrphans
  <2>2. CASE Abandon(w) /\ UNCHANGED object
    <3>1. wpc'[w] = "idle" /\ Present' = Present
      BY <2>2, <1>0 DEF Abandon, Present
    <3> QED  BY <3>1, <2>1, CompleteIdle
  <2>3. CASE wpc' = [wpc EXCEPT ![w] = "idle"] /\ UNCHANGED object
    <3>1. wpc'[w] = "idle" /\ Present' = Present
      BY <2>3, <1>0 DEF Present
    <3> QED  BY <3>1, <2>1, CompleteIdle
  <2>4. ASSUME NEW s \in draft[w].expired, UNCHANGED wpc,
               object' = [object EXCEPT ![s] =
                            IF @ # Never /\ now - @ >= Grace THEN Never ELSE @],
               draft' = [draft EXCEPT ![w].expired = @ \ {s}]
        PROVE  CompleteInv'
    <3>1. draft'[w].expired = draft[w].expired \ {s}
      BY <2>4, <1>0 DEF Drafts
    <3>2. s \notin pointer.files
      BY <2>1, <2>4 DEF SweepSafe
    <3>3. pointer.files \subseteq Present'
      BY <2>4, <3>2, <1>0 DEF Present, PointerComplete
    <3>4. PublicationSafe(w)' /\ UploadsDone(w)' /\ SweepSafe(w)'
      BY <2>1, <2>4, <3>1 DEF PublicationSafe, UploadsDone, SweepSafe, Publishing
    <3> QED  BY <2>1, <3>3, <3>4, CompleteWriter
  <2> QED  BY <1>6, <2>2, <2>3, <2>4 DEF SweepOrphans
<1> QED  BY <1>1, <1>2, <1>3, <1>4, <1>5, <1>6 DEF Publish

\* Every step of the indexer and of its followers keeps it.
LEMMA CompleteStep ==
  ASSUME CompleteInv, OneWriter, TypeOK', [Next]_vars
  PROVE  CompleteInv'
<1>0. wpc \in [Writers -> {"down", "idle", "upload", "delete", "put", "save", "sweep"}]
  BY DEF CompleteInv, TypeOK
<1>1. CASE Tick
  BY <1>1, CompleteOutside DEF Tick, bucketVars, writerVars
<1>3. ASSUME NEW w \in Writers, Commit(w) \/ Restart(w) \/ Crash(w) PROVE CompleteInv'
  <2>1. UNCHANGED <<object, pointer>> /\ wpc'[w] \in {"down", "idle"}
    BY <1>3, <1>0 DEF Commit, Restart, Crash, bucketVars
  <2> QED  BY <2>1, CompleteIdle DEF Present
<1>4. ASSUME NEW w \in Writers, Publish(w) PROVE CompleteInv'
  BY <1>4, CompletePublish
<1>5. ASSUME NEW r \in Readers, Refresh(r) \/ RestartReader(r) PROVE CompleteInv'
  BY <1>5, CompleteOutside
     DEF Refresh, ReadPointer, Download, Reload, RestartReader, bucketVars, writerVars
<1>6. CASE UNCHANGED vars
  BY <1>6, CompleteOutside DEF vars, bucketVars, writerVars
<1> QED  BY <1>1, <1>3, <1>4, <1>5, <1>6 DEF Next

\* With one indexer a reader never sees a pointer to a missing file.
THEOREM PointerAlwaysComplete ==
  ASSUME OneWriter
  PROVE  Spec => []PointerComplete
<1>1. Init => CompleteInv
  BY CompleteInit
<1>2. CompleteInv /\ TypeOK' /\ [Next]_vars => CompleteInv'
  BY CompleteStep
<1>3. CompleteInv => PointerComplete
  BY DEF CompleteInv
<1> QED  BY <1>1, <1>2, <1>3, TypeCorrect, PTL DEF Spec

(***************************************************************************)
(* The grace period.  A file that was named once and is not named now is   *)
(* either old enough, or still there and on the list of retired files with *)
(* a time at most one publication before it was named last.                *)
(***************************************************************************)
\* A file whose last reference is a grace period, less one publication, ago.
OldEnough(s) == now - lastRef[s] >= Grace - MaxPublish

\* A file that is not old enough is there, named or retired late enough.
GracePending ==
    \A s \in Segs \ pointer.files :
        lastRef[s] # Never =>
            \/ OldEnough(s)
            \/ /\ s \in Present /\ pointer.retired[s] # Never
               /\ pointer.retired[s] >= lastRef[s] - MaxPublish

\* What a publication deletes, or has deleted, was retired for a grace period.
ExpiredOld(w) ==
    \A s \in draft[w].expired \cup draft[w].deleted :
        /\ pointer.retired[s] # Never
        /\ draft[w].start - pointer.retired[s] >= Grace

\* What the locals of a publication and of a sweep say of retired files.
GraceWriter(w) ==
    /\ wpc[w] \in Publishing =>
          /\ pointer = draft[w].prev
          /\ draft[w].start <= now /\ now - draft[w].start <= MaxPublish
          /\ ExpiredOld(w)
    /\ wpc[w] \in {"save", "sweep"} => pointer = own[w]
    /\ wpc[w] = "sweep" => \A s \in draft[w].expired : pointer.retired[s] = Never

\* The history of references lies in the past.
LastRefPast == \A s \in Segs : lastRef[s] <= now

GraceInv ==
    /\ CompleteInv /\ GracePending /\ LastRefPast
    /\ \A w \in Writers : GraceWriter(w)

\* The invariant is strong enough for the grace period.
LEMMA GraceInvImplies == GraceInv => GraceKept
<1> SUFFICES ASSUME GraceInv, NEW s \in Segs, lastRef[s] # Never,
                    now - lastRef[s] < Grace - MaxPublish
             PROVE  s \in Present
  BY DEF GraceKept
<1>1. now \in Int /\ lastRef[s] \in Int /\ Grace \in Int /\ MaxPublish \in Int
  BY SegmentAssumption DEF GraceInv, CompleteInv, TypeOK, Times, Never
<1>2. CASE s \in pointer.files
  BY <1>2 DEF GraceInv, CompleteInv, PointerComplete
<1>3. CASE s \notin pointer.files
  BY <1>1, <1>3 DEF GraceInv, GracePending, OldEnough
<1> QED  BY <1>2, <1>3

\* It holds of an empty bucket.
LEMMA GraceInit == Init => GraceInv
<1> SUFFICES ASSUME Init PROVE GraceInv
  OBVIOUS
<1>1. CompleteInv
  BY CompleteInit
<1> QED
  BY <1>1 DEF Init, GraceInv, GracePending, GraceWriter, LastRefPast, NotRetired, Never,
              Publishing

\* Arithmetic of the state: every time is an integer.
LEMMA TimesAreInt ==
  ASSUME TypeOK
  PROVE  /\ now \in Int /\ Grace \in Int /\ MaxPublish \in Int
         /\ \A s \in Segs : lastRef[s] \in Int /\ pointer.retired[s] \in Int
                            /\ object[s] \in Int
         /\ \A w \in Writers : draft[w].start \in Int /\ draft[w].start # Never
  BY SegmentAssumption DEF TypeOK, Times, Never, Pointers, Drafts

\* A step that removes only files that are old enough, or were never named.
LEMMA PendingKept ==
  ASSUME GraceInv, TypeOK', UNCHANGED <<pointer, lastRef>>, now' >= now,
         \A s \in Segs \ pointer.files :
            s \in Present => s \in Present' \/ lastRef[s] = Never \/ OldEnough(s)
  PROVE  GracePending' /\ LastRefPast'
<1>1. TypeOK
  BY DEF GraceInv, CompleteInv
<1>2. now \in Int /\ now' \in Int /\ Grace \in Int /\ MaxPublish \in Int
      /\ \A s \in Segs : lastRef[s] \in Int
  BY <1>1, TimesAreInt DEF TypeOK
<1>3. ASSUME NEW s \in Segs, OldEnough(s) PROVE OldEnough(s)'
  BY <1>2, <1>3 DEF OldEnough
<1>4. GracePending'
  BY <1>3 DEF GraceInv, GracePending
<1>5. LastRefPast'
  BY <1>2 DEF GraceInv, LastRefPast
<1> QED  BY <1>4, <1>5

\* An old retirement makes a file old enough.
LEMMA ExpiredOldEnough ==
  ASSUME GraceInv, NEW w \in Writers, wpc[w] \in Publishing,
         NEW s \in (draft[w].expired \cup draft[w].deleted) \cap Segs
  PROVE  s \notin pointer.files /\ (lastRef[s] = Never \/ OldEnough(s))
<1>1. TypeOK /\ GraceWriter(w)
  BY DEF GraceInv, CompleteInv
<1>2. /\ now \in Int /\ Grace \in Int /\ MaxPublish \in Int
      /\ lastRef[s] \in Int /\ pointer.retired[s] \in Int /\ draft[w].start \in Int
  BY <1>1, TimesAreInt
<1>3. /\ pointer.retired[s] # Never /\ draft[w].start - pointer.retired[s] >= Grace
      /\ draft[w].start <= now
  BY <1>1 DEF GraceWriter, ExpiredOld
<1>4. s \notin pointer.files
  BY <1>3 DEF GraceInv, CompleteInv, NamedNotRetired
<1>5. lastRef[s] = Never \/ OldEnough(s) \/ pointer.retired[s] >= lastRef[s] - MaxPublish
  BY <1>4 DEF GraceInv, GracePending
<1> QED  BY <1>2, <1>3, <1>4, <1>5 DEF OldEnough

\* Every call of a publication and of a sweep keeps it.
LEMMA GracePublish ==
  ASSUME GraceInv, OneWriter, TypeOK', CompleteInv', NEW w \in Writers, Publish(w)
  PROVE  GraceInv'
<1> USE DEF GraceInv
<1>0. /\ TypeOK
      /\ wpc \in [Writers -> {"down", "idle", "upload", "delete", "put", "save", "sweep"}]
      /\ draft \in [Writers -> Drafts] /\ own \in [Writers -> Pointers]
      /\ object \in [Segs -> Times] /\ draft[w] \in Drafts
      /\ draft[w].expired \subseteq Segs /\ draft[w].deleted \subseteq Segs
  BY DEF CompleteInv, TypeOK, Drafts
<1>a. /\ now \in Int /\ Grace \in Int /\ MaxPublish \in Nat
      /\ \A s \in Segs : lastRef[s] \in Int /\ pointer.retired[s] \in Int
  BY <1>0, TimesAreInt, SegmentAssumption
<1>b. ASSUME GracePending', LastRefPast', GraceWriter(w)' PROVE GraceInv'
  BY <1>b DEF OneWriter
<1>c. now' = now
  BY DEF Publish, PublishBegin, Upload, DeleteExpired, PutPointer, SaveGeneration,
         SweepOrphans
<1>d. ASSUME wpc'[w] = "idle" PROVE GraceWriter(w)'
  BY <1>d DEF GraceWriter, Publishing
<1>1. CASE PublishBegin(w)
  <2>1. /\ wpc'[w] = "upload" /\ draft'[w].prev = pointer /\ draft'[w].start = now
        /\ draft'[w].expired = Expired(pointer, wanted[w], now) /\ draft'[w].deleted = {}
        /\ UNCHANGED <<pointer, lastRef, object>>
    BY <1>1, <1>0 DEF PublishBegin, bucketVars
  <2>2. GraceWriter(w)'
    BY <2>1, <1>a, <1>c DEF GraceWriter, ExpiredOld, Expired
  <2>3. GracePending' /\ LastRefPast'
    BY <2>1, <1>a, <1>c, PendingKept DEF Present
  <2> QED  BY <2>2, <2>3, <1>b
<1>2. CASE Upload(w)
  <2>1. UNCHANGED <<pointer, lastRef, own>> /\ wpc[w] = "upload"
    BY <1>2 DEF Upload
  <2>2. Present \subseteq Present'
    BY <1>2, <1>0 DEF Upload, Present, TypeOK, Times, Never
  <2>3. GracePending' /\ LastRefPast'
    BY <2>1, <2>2, <1>a, <1>c, PendingKept
  <2>4. CASE Abandon(w)
    BY <2>4, <2>3, <1>0, <1>b, <1>d DEF Abandon
  <2>5. ASSUME NEW s \in draft[w].upload,
               draft' = [draft EXCEPT ![w].upload = @ \ {s}], UNCHANGED wpc
        PROVE  GraceInv'
    <3>1. /\ draft'[w].start = draft[w].start /\ draft'[w].prev = draft[w].prev
          /\ draft'[w].expired = draft[w].expired /\ draft'[w].deleted = draft[w].deleted
      BY <2>5, <1>0 DEF Drafts
    <3>2. GraceWriter(w)'
      BY <2>1, <2>5, <3>1, <1>c DEF GraceWriter, ExpiredOld, Publishing
    <3> QED  BY <2>3, <3>2, <1>b
  <2>6. CASE wpc' = [wpc EXCEPT ![w] = "delete"] /\ UNCHANGED draft
    <3>1. wpc'[w] = "delete"
      BY <2>6, <1>0
    <3>2. GraceWriter(w)'
      BY <2>1, <2>6, <3>1, <1>c DEF GraceWriter, ExpiredOld, Publishing
    <3> QED  BY <2>3, <3>2, <1>b
  <2> QED  BY <1>2, <2>4, <2>5, <2>6 DEF Upload
<1>3. CASE DeleteExpired(w)
  <2>1. UNCHANGED <<pointer, lastRef, own>> /\ wpc[w] = "delete"
    BY <1>3 DEF DeleteExpired
  <2>2. ASSUME NEW s \in draft[w].expired, Present \ {s} \subseteq Present'
        PROVE  GracePending' /\ LastRefPast'
    <3>1. s \notin pointer.files /\ (lastRef[s] = Never \/ OldEnough(s))
      BY <2>1, <1>0, ExpiredOldEnough DEF Publishing
    <3> QED  BY <2>1, <2>2, <3>1, <1>a, <1>c, PendingKept
  <2>3. ASSUME NEW s \in draft[w].expired, UNCHANGED wpc,
               draft'[w].start = draft[w].start, draft'[w].prev = draft[w].prev,
               draft'[w].expired \cup draft'[w].deleted
                  \subseteq draft[w].expired \cup draft[w].deleted
        PROVE  GraceWriter(w)'
    BY <2>1, <2>3, <1>c DEF GraceWriter, ExpiredOld, Publishing
  <2>4. ASSUME NEW s \in draft[w].expired, UNCHANGED wpc,
               object' = [object EXCEPT ![s] = Never],
               draft' = [draft EXCEPT ![w].expired = @ \ {s},
                                      ![w].deleted = @ \cup {s}]
        PROVE  GraceInv'
    <3>1. Present \ {s} \subseteq Present'
      BY <2>4, <1>0 DEF Present
    <3>2. /\ draft'[w].start = draft[w].start /\ draft'[w].prev = draft[w].prev
          /\ draft'[w].expired \cup draft'[w].deleted
                \subseteq draft[w].expired \cup draft[w].deleted
      BY <2>4, <1>0 DEF Drafts
    <3> QED  BY <2>2, <2>3, <2>4, <3>1, <3>2, <1>b
  <2>5. ASSUME NEW s \in draft[w].expired, UNCHANGED <<object, wpc>>,
               draft' = [draft EXCEPT ![w].expired = @ \ {s}]
        PROVE  GraceInv'
    <3>1. /\ draft'[w].start = draft[w].start /\ draft'[w].prev = draft[w].prev
          /\ draft'[w].expired \cup draft'[w].deleted
                \subseteq draft[w].expired \cup draft[w].deleted
      BY <2>5, <1>0 DEF Drafts
    <3> QED  BY <2>2, <2>3, <2>5, <3>1, <1>b DEF Present
  <2>6. CASE wpc' = [wpc EXCEPT ![w] = "put"] /\ UNCHANGED <<object, draft>>
    <3>1. wpc'[w] = "put" /\ Present' = Present
      BY <2>6, <1>0 DEF Present
    <3>2. GraceWriter(w)'
      BY <2>1, <2>6, <3>1, <1>c DEF GraceWriter, ExpiredOld, Publishing
    <3> QED  BY <2>1, <3>1, <3>2, <1>a, <1>b, <1>c, PendingKept
  <2> QED  BY <1>3, <2>4, <2>5, <2>6 DEF DeleteExpired
<1>4. CASE PutPointer(w)
  <2>1. /\ wpc[w] = "put" /\ wpc'[w] \in {"save", "idle"}
        /\ UNCHANGED object
        /\ wpc'[w] = "save" => own'[w] = NewPointer(w) /\ pointer' = NewPointer(w)
        /\ \/ UNCHANGED <<pointer, lastRef>>
           \/ ReplacePointer(NewPointer(w))
    BY <1>4, <1>0 DEF PutPointer, Abandon, ReplacePointer
  <2>2. GraceWriter(w)'
    BY <2>1 DEF GraceWriter, Publishing
  <2>3. CASE UNCHANGED <<pointer, lastRef>>
    BY <2>1, <2>2, <2>3, <1>a, <1>b, <1>c, PendingKept DEF Present
  <2>4. CASE ReplacePointer(NewPointer(w))
    <3>1. /\ pointer' = NewPointer(w) /\ Present' = Present
          /\ lastRef' = [s \in Segs |-> IF s \in pointer.files THEN now ELSE lastRef[s]]
          /\ pointer'.files = wanted[w]
          /\ pointer'.retired = RetiredBy(draft[w], wanted[w])
      BY <2>1, <2>4 DEF ReplacePointer, NewPointer, Present
    <3>2. /\ pointer = draft[w].prev /\ draft[w].start \in Int /\ draft[w].start # Never
          /\ draft[w].start <= now /\ now - draft[w].start <= MaxPublish
      BY <2>1, <1>0, TimesAreInt DEF GraceWriter, Publishing
    <3>3. LastRefPast'
      BY <3>1, <1>a, <1>c DEF LastRefPast
    <3>4. ASSUME NEW s \in Segs, s \notin wanted[w], lastRef'[s] # Never
          PROVE  \/ OldEnough(s)'
                 \/ /\ s \in Present' /\ pointer'.retired[s] # Never
                    /\ pointer'.retired[s] >= lastRef'[s] - MaxPublish
      <4>1. CASE s \in pointer.files
        <5>1. lastRef'[s] = now /\ pointer'.retired[s] = draft[w].start
          BY <3>1, <3>2, <3>4, <4>1 DEF RetiredBy
        <5>2. s \in Present
          BY <4>1 DEF CompleteInv, PointerComplete
        <5> QED  BY <5>1, <5>2, <3>1, <3>2, <1>a
      <4>2. CASE s \notin pointer.files
        <5>1. lastRef'[s] = lastRef[s] /\ (OldEnough(s) => OldEnough(s)')
          BY <3>1, <4>2, <1>c DEF OldEnough
        <5>2. CASE s \in draft[w].deleted
          BY <5>1, <5>2, <3>4, <2>1, ExpiredOldEnough DEF Publishing
        <5>3. CASE s \notin draft[w].deleted
          <6>1. pointer'.retired[s] = pointer.retired[s]
            BY <3>1, <3>2, <3>4, <4>2, <5>3 DEF RetiredBy
          <6> QED  BY <5>1, <6>1, <3>1, <3>4, <4>2 DEF GracePending
        <5> QED  BY <5>2, <5>3
      <4> QED  BY <4>1, <4>2
    <3>5. GracePending'
      BY <3>1, <3>4 DEF GracePending
    <3> QED  BY <2>2, <3>3, <3>5, <1>b
  <2> QED  BY <2>1, <2>3, <2>4
<1>5. CASE SaveGeneration(w)
  <2>1. /\ wpc[w] = "save" /\ wpc'[w] = "sweep"
        /\ UNCHANGED <<pointer, lastRef, object, own>>
        /\ draft'[w].expired = Unknown(own[w])
    BY <1>5, <1>0 DEF SaveGeneration, bucketVars, Drafts
  <2>2. GraceWriter(w)'
    BY <2>1 DEF GraceWriter, Publishing, Unknown
  <2> QED  BY <2>1, <2>2, <1>a, <1>b, <1>c, PendingKept DEF Present
<1>6. CASE SweepOrphans(w)
  <2>1. UNCHANGED <<pointer, lastRef, own>> /\ wpc[w] = "sweep"
    BY <1>6 DEF SweepOrphans
  <2>2. CASE wpc'[w] = "idle" /\ UNCHANGED object
    BY <2>1, <2>2, <1>a, <1>b, <1>c, <1>d, PendingKept DEF Present
  <2>3. ASSUME NEW s \in draft[w].expired, UNCHANGED wpc,
               object' = [object EXCEPT ![s] =
                            IF @ # Never /\ now - @ >= Grace THEN Never ELSE @],
               draft' = [draft EXCEPT ![w].expired = @ \ {s}]
        PROVE  GraceInv'
    <3>1. draft'[w].expired = draft[w].expired \ {s}
      BY <2>3, <1>0 DEF Drafts
    <3>2. pointer.retired[s] = Never
      BY <2>1, <2>3 DEF GraceWriter
    <3>3. s \in pointer.files \/ lastRef[s] = Never \/ OldEnough(s)
      BY <2>3, <3>2, <1>0 DEF GracePending
    <3>4. Present \ {s} \subseteq Present'
      BY <2>3, <1>0 DEF Present
    <3>5. GracePending' /\ LastRefPast'
      BY <2>1, <3>3, <3>4, <1>a, <1>c, PendingKept
    <3>6. GraceWriter(w)'
      BY <2>1, <2>3, <3>1 DEF GraceWriter, Publishing
    <3> QED  BY <3>5, <3>6, <1>b
  <2>4. ASSUME Abandon(w) PROVE wpc'[w] = "idle"
    BY <2>4, <1>0 DEF Abandon
  <2> QED  BY <1>6, <1>0, <2>2, <2>3, <2>4 DEF SweepOrphans
<1> QED  BY <1>1, <1>2, <1>3, <1>4, <1>5, <1>6 DEF Publish

\* And so does every step.
LEMMA GraceStep ==
  ASSUME GraceInv, OneWriter, TypeOK', CompleteInv', [Next]_vars
  PROVE  GraceInv'
<1> USE DEF GraceInv
<1>0. /\ TypeOK /\ now \in Int /\ MaxPublish \in Int
      /\ wpc \in [Writers -> {"down", "idle", "upload", "delete", "put", "save", "sweep"}]
      /\ \A w \in Writers : draft[w].start \in Int
  BY TimesAreInt DEF CompleteInv, TypeOK
<1>1. CASE Tick
  <2>1. /\ now' = now + 1 /\ UNCHANGED <<object, pointer, lastRef, wpc, draft, own>>
        /\ \A w \in Writers : wpc[w] \in Publishing => now - draft[w].start < MaxPublish
    BY <1>1 DEF Tick, bucketVars, writerVars
  <2>2. GracePending' /\ LastRefPast'
    BY <2>1, <1>0, PendingKept DEF Present
  <2>3. ASSUME NEW w \in Writers PROVE GraceWriter(w)'
    BY <2>1, <2>3, <1>0 DEF GraceWriter, ExpiredOld
  <2> QED  BY <2>2, <2>3
<1>3. ASSUME NEW w \in Writers, Commit(w) \/ Restart(w) \/ Crash(w) PROVE GraceInv'
  <2>1. UNCHANGED <<now, object, pointer, lastRef>> /\ wpc'[w] \in {"down", "idle"}
    BY <1>3, <1>0 DEF Commit, Restart, Crash, bucketVars
  <2>2. GracePending' /\ LastRefPast'
    BY <2>1, <1>0, PendingKept DEF Present
  <2>3. GraceWriter(w)'
    BY <2>1 DEF GraceWriter, Publishing
  <2> QED  BY <2>2, <2>3 DEF OneWriter
<1>4. ASSUME NEW w \in Writers, Publish(w) PROVE GraceInv'
  BY <1>4, GracePublish
<1>5. ASSUME UNCHANGED <<now, bucketVars, writerVars>> PROVE GraceInv'
  <2>1. UNCHANGED <<now, object, pointer, lastRef, wpc, draft, own>>
    BY <1>5 DEF bucketVars, writerVars
  <2>2. GracePending' /\ LastRefPast'
    BY <2>1, <1>0, PendingKept DEF Present
  <2>3. ASSUME NEW w \in Writers PROVE GraceWriter(w)'
    BY <2>1, <2>3 DEF GraceWriter, ExpiredOld
  <2> QED  BY <2>2, <2>3
<1>6. ASSUME NEW r \in Readers, Refresh(r) \/ RestartReader(r) PROVE GraceInv'
  BY <1>5, <1>6 DEF Refresh, ReadPointer, Download, Reload, RestartReader
<1>7. CASE UNCHANGED vars
  BY <1>5, <1>7 DEF vars
<1> QED  BY <1>1, <1>3, <1>4, <1>6, <1>7 DEF Next

\* With one indexer a file stays readable for
\* the grace period, less one publication, after a pointer named it last.
THEOREM GracePeriodKept ==
  ASSUME OneWriter
  PROVE  Spec => []GraceKept
<1>1. Init => GraceInv
  BY GraceInit
<1>2. GraceInv /\ TypeOK' /\ [Next]_vars => GraceInv'
  <2> SUFFICES ASSUME GraceInv, TypeOK', [Next]_vars PROVE GraceInv'
    OBVIOUS
  <2>1. CompleteInv'
    BY CompleteStep DEF GraceInv
  <2> QED  BY <2>1, GraceStep
<1>3. GraceInv => GraceKept
  BY GraceInvImplies
<1> QED  BY <1>1, <1>2, <1>3, TypeCorrect, PTL DEF Spec

(***************************************************************************)
(* The followers.                                                          *)
(***************************************************************************)

\* A refresh fetches before it writes meta.json, and both before it prunes.
ReaderWhole(r) ==
    /\ localMeta[r] \cup served[r].files \subseteq dir[r]
    /\ rpc[r] = "reload" => localMeta[r] = target[r].files

WholeInv == TypeOK /\ \A r \in Readers : ReaderWhole(r)

\* One step keeps every local index whole, its own and those of the others.
LEMMA WholeStep ==
  ASSUME WholeInv, TypeOK', [Next]_vars
  PROVE  WholeInv'
<1> USE DEF WholeInv
<1>0. /\ rpc \in [Readers -> {"idle", "fetch", "reload"}]
      /\ target \in [Readers -> Pointers] /\ served \in [Readers -> Pointers]
      /\ dir \in [Readers -> SUBSET Segs] /\ localMeta \in [Readers -> SUBSET Segs]
  BY DEF TypeOK
<1>1. ASSUME UNCHANGED readerVars PROVE WholeInv'
  BY <1>1 DEF readerVars, ReaderWhole
<1>2. ASSUME NEW r \in Readers, ReadPointer(r) PROVE WholeInv'
  BY <1>0, <1>2 DEF ReadPointer, ReaderWhole
<1>3. ASSUME NEW r \in Readers, Download(r) PROVE WholeInv'
  <2>1. ASSUME NEW s \in Segs, dir' = [dir EXCEPT ![r] = @ \cup {s}],
               UNCHANGED <<rpc, target, localMeta, served>>
        PROVE  WholeInv'
    BY <1>0, <2>1 DEF ReaderWhole
  <2>2. CASE RefreshFails(r) /\ UNCHANGED <<dir, localMeta, served>>
    BY <1>0, <2>2 DEF RefreshFails, ReaderWhole
  <2>3. CASE /\ target[r].files \subseteq dir[r]
             /\ localMeta' = [localMeta EXCEPT ![r] = target[r].files]
             /\ rpc' = [rpc EXCEPT ![r] = "reload"]
             /\ UNCHANGED <<dir, target, served>>
    BY <1>0, <2>3 DEF ReaderWhole
  <2>4. target[r].files \subseteq Segs
    BY <1>0 DEF Pointers
  <2> QED  BY <1>3, <2>1, <2>2, <2>3, <2>4 DEF Download
<1>4. ASSUME NEW r \in Readers, Reload(r) PROVE WholeInv'
  <2>1. rpc[r] = "reload" /\ localMeta[r] = target[r].files /\ localMeta[r] \subseteq dir[r]
    BY <1>4 DEF Reload, ReaderWhole
  <2>2. CASE /\ served' = [served EXCEPT ![r] = target[r]]
             /\ dir' = [dir EXCEPT ![r] = Pruned(r)]
             /\ rpc' = [rpc EXCEPT ![r] = "idle"]
             /\ target' = [target EXCEPT ![r] = NoPointer] /\ UNCHANGED localMeta
    BY <1>0, <2>1, <2>2 DEF Pruned, ReaderWhole
  <2>3. CASE RefreshFails(r) /\ UNCHANGED <<served, dir, localMeta>>
    BY <1>0, <2>3 DEF RefreshFails, ReaderWhole
  <2> QED  BY <1>4, <2>2, <2>3 DEF Reload
<1>5. ASSUME NEW r \in Readers, RestartReader(r) PROVE WholeInv'
  <2>1. rpc'[r] = "idle" /\ served'[r] = NoPointer
    BY <1>0, <1>5 DEF RestartReader, RefreshFails
  <2>2. localMeta'[r] \subseteq dir'[r]
    BY <1>0, <1>5 DEF RestartReader, ReaderWhole
  <2>3. \A q \in Readers \ {r} : /\ rpc'[q] = rpc[q] /\ served'[q] = served[q]
                                 /\ target'[q] = target[q] /\ dir'[q] = dir[q]
                                 /\ localMeta'[q] = localMeta[q]
    BY <1>0, <1>5 DEF RestartReader, RefreshFails
  <2> QED  BY <2>1, <2>2, <2>3 DEF ReaderWhole, NoPointer
<1>6. ASSUME NEW w \in Writers, Commit(w) \/ Restart(w) \/ Crash(w) \/ Publish(w)
      PROVE  UNCHANGED readerVars
  BY <1>6 DEF Commit, Restart, Crash, Publish, PublishBegin, Upload, DeleteExpired,
              PutPointer, SaveGeneration, SweepOrphans
<1> QED
  BY <1>1, <1>2, <1>3, <1>4, <1>5, <1>6 DEF Next, Refresh, Tick, vars

\* However many indexers write and whatever they delete: every file of the index
\* a follower would open, and of the pointer it serves, is in its directory.
THEOREM LocalIndexAlwaysWhole == Spec => []LocalIndexWhole
<1>1. Init /\ TypeOK => WholeInv
  BY DEF Init, WholeInv, ReaderWhole, NoPointer
<1>2. WholeInv /\ TypeOK' /\ [Next]_vars => WholeInv'
  BY WholeStep
<1>3. WholeInv => LocalIndexWhole
  BY DEF WholeInv, ReaderWhole, LocalIndexWhole
<1> QED  BY <1>1, <1>2, <1>3, TypeCorrect, PTL DEF Spec

\* No follower is ahead of the bucket, and what it fetches is not behind what it
\* serves.
ForwardReader(r) ==
    /\ served[r].gen <= pointer.gen
    /\ rpc[r] \in {"fetch", "reload"} =>
           target[r].gen \in served[r].gen..pointer.gen

ForwardInv == CompleteInv /\ \A r \in Readers : ForwardReader(r)

\* With one indexer the generation in the bucket never falls: the publication
\* that is under way continues from it, even after an unanswered PUT.
LEMMA GenerationGrows ==
  ASSUME CompleteInv, OneWriter, [Next]_vars
  PROVE  pointer'.gen >= pointer.gen
<1>0. pointer \in Pointers /\ pointer.gen \in Nat /\ draft \in [Writers -> Drafts]
  BY DEF CompleteInv, TypeOK, Pointers
<1>1. ASSUME NEW w \in Writers, PutPointer(w) PROVE pointer'.gen >= pointer.gen
  <2>1. draft[w].prev = pointer
    BY <1>1 DEF PutPointer, CompleteInv, PublicationSafe, Publishing
  <2>2. pointer' = pointer \/ pointer'.gen = pointer.gen + 1
    BY <1>1, <2>1 DEF PutPointer, ReplacePointer, NewPointer
  <2> QED  BY <1>0, <2>2
<1>2. ASSUME UNCHANGED pointer PROVE pointer'.gen >= pointer.gen
  BY <1>0, <1>2
<1>3. ASSUME NEW w \in Writers, Commit(w) \/ Restart(w) \/ Crash(w) \/ Publish(w)
      PROVE  UNCHANGED pointer \/ PutPointer(w)
  BY <1>3 DEF Commit, Restart, Crash, Publish, PublishBegin, Upload, DeleteExpired,
              SaveGeneration, SweepOrphans, bucketVars
<1>4. ASSUME NEW r \in Readers, Refresh(r) \/ RestartReader(r) PROVE UNCHANGED pointer
  BY <1>4 DEF Refresh, ReadPointer, Download, Reload, RestartReader, bucketVars
<1> QED
  BY <1>1, <1>2, <1>3, <1>4 DEF Next, Tick, vars, bucketVars

\* A follower keeps its place behind the bucket and does not fall back.
LEMMA ForwardStep ==
  ASSUME ForwardInv, OneWriter, TypeOK', CompleteInv', [Next]_vars
  PROVE  /\ ForwardInv'
         /\ \A r \in Readers : served'[r] # NoPointer => served'[r].gen >= served[r].gen
<1> DEFINE Moves(r) == /\ ForwardReader(r)'
                       /\ served'[r] # NoPointer => served'[r].gen >= served[r].gen
<1> SUFFICES \A r \in Readers : Moves(r)
  BY DEF ForwardInv
<1>0. /\ rpc \in [Readers -> {"idle", "fetch", "reload"}]
      /\ target \in [Readers -> Pointers] /\ served \in [Readers -> Pointers]
      /\ \A r \in Readers : target[r].gen \in Nat /\ served[r].gen \in Nat
      /\ pointer.gen \in Nat /\ pointer'.gen \in Nat
  BY DEF ForwardInv, CompleteInv, TypeOK, Pointers
<1>1. pointer'.gen >= pointer.gen
  BY GenerationGrows DEF ForwardInv
<1>2. ASSUME NEW r \in Readers, rpc'[r] = rpc[r], target'[r] = target[r], served'[r] = served[r]
      PROVE  Moves(r)
  BY <1>0, <1>1, <1>2 DEF ForwardInv, ForwardReader
<1>3. ASSUME NEW r \in Readers, rpc'[r] = "idle", served'[r] = served[r]
      PROVE  Moves(r)
  BY <1>0, <1>1, <1>3 DEF ForwardInv, ForwardReader
<1>4. ASSUME NEW r \in Readers, ReadPointer(r) PROVE \A q \in Readers : Moves(q)
  <2>1. rpc'[r] = "fetch" /\ target'[r] = pointer /\ served'[r] = served[r] /\ UNCHANGED pointer
    BY <1>0, <1>4 DEF ReadPointer, bucketVars
  <2>2. Moves(r)
    BY <1>0, <2>1 DEF ForwardInv, ForwardReader
  <2>3. \A q \in Readers \ {r} : /\ rpc'[q] = rpc[q] /\ target'[q] = target[q]
                                 /\ served'[q] = served[q]
    BY <1>0, <1>4 DEF ReadPointer
  <2> QED  BY <1>2, <2>2, <2>3
<1>5. ASSUME NEW r \in Readers, Download(r) PROVE \A q \in Readers : Moves(q)
  <2>1. UNCHANGED served /\ rpc[r] = "fetch"
    BY <1>5 DEF Download
  <2>2. \/ rpc'[r] = "idle"
        \/ rpc'[r] \in {"fetch", "reload"} /\ UNCHANGED target
    BY <1>0, <1>5 DEF Download, RefreshFails
  <2>3. Moves(r)
    BY <1>0, <1>1, <1>3, <2>1, <2>2 DEF ForwardInv, ForwardReader
  <2>4. \A q \in Readers \ {r} : rpc'[q] = rpc[q] /\ target'[q] = target[q]
    BY <1>0, <1>5 DEF Download, RefreshFails
  <2> QED  BY <1>2, <2>1, <2>3, <2>4
<1>6. ASSUME NEW r \in Readers, Reload(r) PROVE \A q \in Readers : Moves(q)
  <2>1. rpc[r] = "reload" /\ rpc'[r] = "idle" /\ UNCHANGED pointer
        /\ (served'[r] = target[r] \/ served'[r] = served[r])
    BY <1>0, <1>6 DEF Reload, RefreshFails, bucketVars
  <2>2. Moves(r)
    BY <1>0, <2>1 DEF ForwardInv, ForwardReader
  <2>3. \A q \in Readers \ {r} : /\ rpc'[q] = rpc[q] /\ target'[q] = target[q]
                                 /\ served'[q] = served[q]
    BY <1>0, <1>6 DEF Reload, RefreshFails
  <2> QED  BY <1>2, <2>2, <2>3
<1>7. ASSUME NEW r \in Readers, RestartReader(r) PROVE \A q \in Readers : Moves(q)
  <2>1. rpc'[r] = "idle" /\ served'[r] = NoPointer /\ NoPointer.gen = 0
    BY <1>0, <1>7 DEF RestartReader, RefreshFails, NoPointer
  <2>2. Moves(r)
    BY <1>0, <2>1 DEF ForwardReader
  <2>3. \A q \in Readers \ {r} : /\ rpc'[q] = rpc[q] /\ target'[q] = target[q]
                                 /\ served'[q] = served[q]
    BY <1>0, <1>7 DEF RestartReader, RefreshFails
  <2> QED  BY <1>2, <2>2, <2>3
<1>8. ASSUME NEW w \in Writers, Commit(w) \/ Restart(w) \/ Crash(w) \/ Publish(w)
      PROVE  UNCHANGED readerVars
  BY <1>8 DEF Commit, Restart, Crash, Publish, PublishBegin, Upload, DeleteExpired,
              PutPointer, SaveGeneration, SweepOrphans
<1>9. ASSUME UNCHANGED readerVars PROVE \A q \in Readers : Moves(q)
  BY <1>2, <1>9 DEF readerVars
<1> HIDE DEF Moves
<1> QED
  BY <1>4, <1>5, <1>6, <1>7, <1>8, <1>9 DEF Next, Refresh, Tick, vars

\* With one indexer no follower goes back to an older generation, however its
\* refreshes fail and whatever PUT of a pointer stays unanswered.
THEOREM FollowerNeverFallsBack ==
  ASSUME OneWriter
  PROVE  Spec => FollowerMovesForward
<1>1. Init => ForwardInv
  BY CompleteInit DEF Init, ForwardInv, ForwardReader, NoPointer
<1>2. ForwardInv /\ TypeOK' /\ [Next]_vars => CompleteInv'
  BY CompleteStep DEF ForwardInv
<1>3. ForwardInv /\ TypeOK' /\ [Next]_vars => ForwardInv'
  BY <1>2, ForwardStep
<1>4. ForwardInv /\ TypeOK' /\ [Next]_vars
        => [\A r \in Readers : served'[r] # NoPointer => served'[r].gen >= served[r].gen]_served
  BY <1>2, ForwardStep
<1> QED  BY <1>1, <1>3, <1>4, TypeCorrect, PTL DEF Spec, FollowerMovesForward

===============================================================================
