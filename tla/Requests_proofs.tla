--------------------------- MODULE Requests_proofs ---------------------------
(***************************************************************************)
(* The theorems about the request handlers that TLC checks in MCRequests:  *)
(* recorded reads, shared keys, the goroutines of an upload, its checks,   *)
(* searches and audits, each for every value of the components' parameters.*)
(* Every section gives the inductive invariant of a component, that each   *)
(* of its steps keeps it, and what follows from it.                        *)
(***************************************************************************)
EXTENDS MCRequests, FiniteSetTheorems, WellFoundedInduction, TLAPS

(***************************************************************************)
(* Recorded reads (AccessLog).  A request opened a window if the log told  *)
(* it to record itself, whatever became of its event.                      *)
(***************************************************************************)
Opener(p) == read[p].found \in {"new", "full"}

ReadRecs ==
    [pc : {"new", "asking", "append", "served", "failed"}, key : Keys \cup {Access!NoRead.key},
     at : Nat, found : {"nothing", "recent", "new", "full"}, after : SUBSET Reads]
AccessTypes == now \in Nat /\ seen \in [Keys -> Nat \cup {-1}] /\ read \in [Reads -> ReadRecs]

\* Where a request is says what the log told it, and after whom.
Turns ==
    \A p \in Reads :
        /\ read[p].pc \in {"new", "asking"} <=> read[p].found = "nothing"
        /\ read[p].pc # "new" => read[p].key \in Keys
        /\ read[p].pc \in {"append", "failed"} => Opener(p)
        /\ read[p].pc = "served" /\ Opener(p) => Access!Event(p) \in events
        /\ read[p].after \subseteq Access!HadTurn

\* Each event is of the request that wrote it.
OwnEvents == \A e \in events : e.by \in Reads /\ Opener(e.by) /\ e = Access!Event(e.by)

\* An entry of the log is the time of a request that opened a window.
EntriesAreOpeners ==
    \A k \in Keys : seen[k] # -1 =>
        \E p \in Reads : Opener(p) /\ read[p].key = k /\ read[p].at = seen[k]

\* A request the log keeps quiet is in a window that another opened.
QuietIsOpened == \A q \in Reads : read[q].found = "recent" => \E p \in Reads : Access!Opens(p, q)

\* After p, and before what is in T, a full log was cleared of what p left.
Cleared(p, T) ==
    \E r \in T : p \in read[r].after /\ read[r].found = "full" /\ read[r].at - read[p].at >= Window

\* The log has the window of p or a later one, or was cleared of it.
NotForgotten ==
    \A p \in Reads : Opener(p) /\ Window # 0 =>
        \/ seen[read[p].key] # -1 /\ read[p].at <= seen[read[p].key]
        \/ Cleared(p, Reads)

Spaced ==
    \A p, q \in Reads :
        Opener(p) /\ Opener(q) /\ Window # 0 /\ p \in read[q].after /\ read[p].key = read[q].key
            => read[q].at - read[p].at >= Window \/ Cleared(p, read[q].after)

AccessInv ==
    /\ AccessTypes /\ Turns /\ OwnEvents /\ EntriesAreOpeners /\ QuietIsOpened /\ NotForgotten /\ Spaced

-----------------------------------------------------------------------------
\* The parameters the proofs about recorded reads use.
LEMMA AccessConstants == Window \in Nat /\ AccessTime \in Nat
BY RequestsAssumption DEF Access!AccessAssumption

\* The log starts empty.
LEMMA AccessBegins ==
  ASSUME Access!Init PROVE AccessInv
BY DEF Access!Init, AccessInv, AccessTypes, ReadRecs, Turns, OwnEvents, EntriesAreOpeners, QuietIsOpened,
   NotForgotten, Spaced, Opener, Access!NoRead, Access!Never

\* Time passing takes requests out of the window of the log and adds no event.
LEMMA AccessTick ==
  ASSUME AccessInv, Access!Tick PROVE AccessInv'
<1>1. now' \in Nat /\ UNCHANGED <<seen, read, events>>
  BY DEF Access!Tick, AccessInv, AccessTypes, ReadRecs
<1> QED  BY <1>1 DEF AccessInv, AccessTypes, ReadRecs, Turns, OwnEvents, EntriesAreOpeners, QuietIsOpened,
   NotForgotten, Spaced, Cleared, Opener, Access!Event, Access!HadTurn, Access!Opens

\* A request that begins stays in the records of the types.
LEMMA AccessBegun ==
  ASSUME read \in [Reads -> ReadRecs], NEW q \in Reads, NEW key \in Keys, NEW at \in Nat
  PROVE  [read EXCEPT ![q].pc = "asking", ![q].key = key, ![q].at = at] \in [Reads -> ReadRecs]
<1>1. read[q] \in ReadRecs
  OBVIOUS
<1>2. [read[q] EXCEPT !.pc = "asking", !.key = key, !.at = at] \in ReadRecs
  BY <1>1 DEF ReadRecs
<1>3. [read EXCEPT ![q].pc = "asking", ![q].key = key, ![q].at = at]
        = [read EXCEPT ![q] = [read[q] EXCEPT !.pc = "asking", !.key = key, !.at = at]]
  BY <1>1 DEF ReadRecs
<1> QED  BY <1>2, <1>3

\* So does one that is told what to do.
LEMMA AccessTold ==
  ASSUME read \in [Reads -> ReadRecs], NEW q \in Reads, NEW pc \in {"append", "served"},
         NEW found \in {"recent", "new", "full"}, NEW after \in SUBSET Reads
  PROVE  [read EXCEPT ![q].pc = pc, ![q].found = found, ![q].after = after] \in [Reads -> ReadRecs]
<1>1. read[q] \in ReadRecs
  OBVIOUS
<1>2. [read[q] EXCEPT !.pc = pc, !.found = found, !.after = after] \in ReadRecs
  BY <1>1 DEF ReadRecs
<1>3. [read EXCEPT ![q].pc = pc, ![q].found = found, ![q].after = after]
        = [read EXCEPT ![q] = [read[q] EXCEPT !.pc = pc, !.found = found, !.after = after]]
  BY <1>1 DEF ReadRecs
<1> QED  BY <1>2, <1>3

\* What is said of the openers stays if only where a request is changes, or the key
\* and the time of one the log has told nothing yet.
LEMMA AccessKept ==
  ASSUME AccessInv, NEW q \in Reads, UNCHANGED seen,
         \A p \in Reads : /\ read'[p].found = read[p].found /\ read'[p].after = read[p].after
                          /\ read[p].found # "nothing" =>
                                 read'[p].key = read[p].key /\ read'[p].at = read[p].at
  PROVE  EntriesAreOpeners' /\ QuietIsOpened' /\ NotForgotten' /\ Spaced'
<1>1. \A p \in Reads : /\ Opener(p)' <=> Opener(p)
                       /\ Opener(p) => read'[p].key = read[p].key /\ read'[p].at = read[p].at
  BY DEF Opener
<1>2. EntriesAreOpeners'
  BY <1>1 DEF AccessInv, EntriesAreOpeners
<1>3. \A p, r \in Reads : read[r].found # "nothing" /\ Access!Opens(p, r) => Access!Opens(p, r)'
  BY <1>1 DEF Access!Opens, Opener
<1>4. QuietIsOpened'
  BY <1>3 DEF AccessInv, QuietIsOpened
<1>5. \A p \in Reads : \A T \in SUBSET Reads : Opener(p) /\ Cleared(p, T) => Cleared(p, T)'
  BY <1>1 DEF Cleared, Opener
<1>6. NotForgotten'
  <2> SUFFICES ASSUME NEW p \in Reads, Opener(p)', Window # 0
               PROVE  \/ seen'[read'[p].key] # -1 /\ read'[p].at <= seen'[read'[p].key]
                      \/ Cleared(p, Reads)'
    BY DEF NotForgotten
  <2>1. Opener(p) /\ read'[p].key = read[p].key /\ read'[p].at = read[p].at
    BY <1>1
  <2> QED  BY <2>1, <1>5 DEF AccessInv, NotForgotten
<1>7. Spaced'
  <2> SUFFICES ASSUME NEW p \in Reads, NEW r \in Reads, Opener(p)', Opener(r)', Window # 0,
                      p \in read'[r].after, read'[p].key = read'[r].key
               PROVE  read'[r].at - read'[p].at >= Window \/ Cleared(p, read[r].after)'
    BY DEF Spaced, Cleared
  <2>1. /\ Opener(p) /\ read'[p].key = read[p].key /\ read'[p].at = read[p].at
        /\ Opener(r) /\ read'[r].key = read[r].key /\ read'[r].at = read[r].at
    BY <1>1
  <2>2. read[r].after \in SUBSET Reads
    BY DEF AccessInv, AccessTypes, ReadRecs
  <2>3. read[r].at - read[p].at >= Window \/ Cleared(p, read[r].after)
    BY <2>1 DEF AccessInv, Spaced
  <2> QED  BY <2>1, <2>2, <2>3, <1>5
<1> QED  BY <1>2, <1>4, <1>6, <1>7

\* A request takes its time before it asks the log.
LEMMA AccessStarts ==
  ASSUME AccessInv, NEW q \in Reads, Access!Begin(q) PROVE AccessInv'
<1>1. PICK k \in Keys : read' = [read EXCEPT ![q].pc = "asking", ![q].key = k, ![q].at = now]
  BY DEF Access!Begin
<1>2. read[q].pc = "new" /\ UNCHANGED <<now, seen, events>>
  BY DEF Access!Begin
<1>3. AccessTypes'
  <2>1. now \in Nat /\ seen \in [Keys -> Nat \cup {-1}] /\ read \in [Reads -> ReadRecs]
    BY DEF AccessInv, AccessTypes
  <2>2. [read EXCEPT ![q].pc = "asking", ![q].key = k, ![q].at = now] \in [Reads -> ReadRecs]
    BY <2>1, AccessBegun
  <2> QED  BY <1>1, <1>2, <2>1, <2>2 DEF AccessTypes
<1>4. /\ read'[q].pc = "asking" /\ read'[q].key = k /\ read'[q].found = read[q].found
      /\ read'[q].after = read[q].after /\ read[q].found = "nothing"
      /\ \A p \in Reads : p # q => read'[p] = read[p]
  BY <1>1, <1>2 DEF AccessInv, AccessTypes, ReadRecs, Turns
<1>5. \A p \in Reads : p # q => Access!Event(p)' = Access!Event(p)
  BY <1>4 DEF Access!Event
<1>6. Access!HadTurn' = Access!HadTurn /\ ~Opener(q) /\ \A p \in Reads : Opener(p)' <=> Opener(p)
  BY <1>4 DEF Access!HadTurn, Opener
<1>7. Turns'
  <2> SUFFICES ASSUME NEW p \in Reads
               PROVE  /\ read'[p].pc \in {"new", "asking"} <=> read'[p].found = "nothing"
                      /\ read'[p].pc # "new" => read'[p].key \in Keys
                      /\ read'[p].pc \in {"append", "failed"} => Opener(p)'
                      /\ read'[p].pc = "served" /\ Opener(p)' => Access!Event(p)' \in events'
                      /\ read'[p].after \subseteq Access!HadTurn'
    BY DEF Turns
  <2>1. CASE p = q
    BY <2>1, <1>4, <1>6 DEF AccessInv, Turns
  <2>2. CASE p # q
    BY <2>2, <1>2, <1>4, <1>5, <1>6 DEF AccessInv, Turns
  <2> QED  BY <2>1, <2>2
<1>8. OwnEvents'
  BY <1>2, <1>5, <1>6 DEF AccessInv, OwnEvents
<1>9. EntriesAreOpeners' /\ QuietIsOpened' /\ NotForgotten' /\ Spaced'
  BY <1>2, <1>4, AccessKept
<1> QED  BY <1>3, <1>7, <1>8, <1>9 DEF AccessInv

\* What the turn of q leaves as it was.
LEMMA AccessTurn ==
  ASSUME AccessInv, NEW q \in Reads, NEW pc \in {"served", "append"}, NEW found \in {"recent", "new", "full"},
         pc = "served" <=> found = "recent", read[q].pc = "asking", UNCHANGED <<now, events>>,
         read' = [read EXCEPT ![q].pc = pc, ![q].found = found, ![q].after = Access!HadTurn]
  PROVE  /\ read'[q].pc = pc /\ read'[q].found = found /\ read'[q].after = Access!HadTurn
         /\ read'[q].key = read[q].key /\ read'[q].at = read[q].at /\ read[q].key \in Keys
         /\ q \notin Access!HadTurn /\ ~Opener(q) /\ (Opener(q)' <=> found # "recent")
         /\ \A p \in Reads : p # q => read'[p] = read[p] /\ (Opener(p)' <=> Opener(p))
         /\ \A p \in Reads : Opener(p) => p \in Access!HadTurn
         /\ Turns' /\ OwnEvents'
<1>1. /\ read'[q].pc = pc /\ read'[q].found = found /\ read'[q].after = Access!HadTurn
      /\ read'[q].key = read[q].key /\ read'[q].at = read[q].at
      /\ \A p \in Reads : p # q => read'[p] = read[p]
  BY DEF AccessInv, AccessTypes, ReadRecs
<1>2. read[q].key \in Keys /\ read[q].found = "nothing" /\ q \notin Access!HadTurn /\ ~Opener(q)
  BY DEF AccessInv, Turns, Access!HadTurn, Opener
<1>3. /\ Opener(q)' <=> found # "recent"
      /\ \A p \in Reads : p # q => (Opener(p)' <=> Opener(p))
      /\ \A p \in Reads : Opener(p) => p \in Access!HadTurn
  BY <1>1 DEF Opener, Access!HadTurn
<1>5. Access!HadTurn \subseteq Access!HadTurn'
  BY <1>1, <1>2 DEF Access!HadTurn
<1>6. \A p \in Reads : p # q => Access!Event(p)' = Access!Event(p)
  BY <1>1 DEF Access!Event
<1>7. Turns'
  <2> SUFFICES ASSUME NEW p \in Reads
               PROVE  /\ read'[p].pc \in {"new", "asking"} <=> read'[p].found = "nothing"
                      /\ read'[p].pc # "new" => read'[p].key \in Keys
                      /\ read'[p].pc \in {"append", "failed"} => Opener(p)'
                      /\ read'[p].pc = "served" /\ Opener(p)' => Access!Event(p)' \in events'
                      /\ read'[p].after \subseteq Access!HadTurn'
    BY DEF Turns
  <2>1. CASE p = q
    BY <2>1, <1>1, <1>2, <1>3, <1>5
  <2>2. CASE p # q
    BY <2>2, <1>1, <1>3, <1>5, <1>6 DEF AccessInv, Turns
  <2> QED  BY <2>1, <2>2
<1>8. OwnEvents'
  BY <1>2, <1>3, <1>6 DEF AccessInv, OwnEvents
<1> QED  BY <1>1, <1>2, <1>3, <1>7, <1>8

\* A request that the log keeps quiet follows one that opened the window.
LEMMA AccessServed ==
  ASSUME AccessInv, NEW q \in Reads, read[q].pc = "asking", Access!Fresh(read[q].key, read[q].at),
         read' = [read EXCEPT ![q].pc = "served", ![q].found = "recent", ![q].after = Access!HadTurn],
         UNCHANGED <<now, seen, events>>
  PROVE  AccessInv'
<1>1. AccessTypes'
  <2>1. now \in Nat /\ seen \in [Keys -> Nat \cup {-1}] /\ read \in [Reads -> ReadRecs]
    BY DEF AccessInv, AccessTypes
  <2>2. Access!HadTurn \in SUBSET Reads
    BY DEF Access!HadTurn
  <2>3. [read EXCEPT ![q].pc = "served", ![q].found = "recent", ![q].after = Access!HadTurn]
          \in [Reads -> ReadRecs]
    BY <2>1, <2>2, AccessTold
  <2> QED  BY <2>1, <2>3 DEF AccessTypes
<1>2. /\ read'[q].after = Access!HadTurn /\ read'[q].key = read[q].key /\ read'[q].at = read[q].at
      /\ read[q].key \in Keys /\ ~Opener(q) /\ ~Opener(q)' /\ read'[q].found = "recent"
      /\ \A p \in Reads : p # q => read'[p] = read[p] /\ (Opener(p)' <=> Opener(p))
      /\ \A p \in Reads : Opener(p) => p \in Access!HadTurn
      /\ Turns' /\ OwnEvents' /\ q \notin Access!HadTurn
  BY AccessTurn
<1>3. EntriesAreOpeners'
  <2> SUFFICES ASSUME NEW k \in Keys, seen'[k] # -1
               PROVE  \E p \in Reads : Opener(p)' /\ read'[p].key = k /\ read'[p].at = seen'[k]
    BY DEF EntriesAreOpeners
  <2>1. PICK p \in Reads : Opener(p) /\ read[p].key = k /\ read[p].at = seen[k]
    BY DEF AccessInv, EntriesAreOpeners
  <2> QED  BY <2>1, <1>2
<1>4. QuietIsOpened'
  <2>1. PICK p \in Reads : Opener(p) /\ read[p].key = read[q].key /\ read[p].at = seen[read[q].key]
    BY <1>2 DEF AccessInv, EntriesAreOpeners, Access!Fresh, Access!Never
  <2>2. Access!Opens(p, q)'
    BY <2>1, <1>2 DEF Access!Opens, Access!Fresh, Opener
  <2>3. ASSUME NEW r \in Reads, r # q, read'[r].found = "recent" PROVE \E x \in Reads : Access!Opens(x, r)'
    <3>1. PICK x \in Reads : Access!Opens(x, r)
      BY <2>3, <1>2 DEF AccessInv, QuietIsOpened
    <3> QED  BY <2>3, <3>1, <1>2 DEF Access!Opens, Opener
  <2> QED  BY <2>2, <2>3 DEF QuietIsOpened
<1>5. NotForgotten'
  <2> SUFFICES ASSUME NEW p \in Reads, Opener(p)', Window # 0
               PROVE  \/ seen'[read'[p].key] # -1 /\ read'[p].at <= seen'[read'[p].key]
                      \/ Cleared(p, Reads)'
    BY DEF NotForgotten
  <2>1. Opener(p) /\ read'[p] = read[p]
    BY <1>2
  <2>2. CASE Cleared(p, Reads)
    <3>1. PICK r \in Reads : p \in read[r].after /\ read[r].found = "full" /\ read[r].at - read[p].at >= Window
      BY <2>2 DEF Cleared
    <3>2. r # q
      BY <3>1, <1>2 DEF Opener
    <3>3. read'[r] = read[r]
      BY <3>2, <1>2
    <3> QED  BY <3>1, <3>3, <2>1 DEF Cleared
  <2> QED  BY <2>1, <2>2 DEF AccessInv, NotForgotten
<1>6. Spaced'
  <2> SUFFICES ASSUME NEW p \in Reads, NEW r \in Reads, Opener(p)', Opener(r)', Window # 0,
                      p \in read'[r].after, read'[p].key = read'[r].key
               PROVE  read'[r].at - read'[p].at >= Window \/ Cleared(p, read[r].after)'
    BY DEF Spaced, Cleared
  <2>1. Opener(p) /\ Opener(r) /\ read'[p] = read[p] /\ read'[r] = read[r]
    BY <1>2
  <2>2. read[r].after \in SUBSET Reads /\ q \notin read[r].after
    BY <1>2 DEF AccessInv, AccessTypes, ReadRecs, Turns
  <2>3. read[r].at - read[p].at >= Window \/ Cleared(p, read[r].after)
    BY <2>1 DEF AccessInv, Spaced
  <2>4. Cleared(p, read[r].after) => Cleared(p, read[r].after)'
    <3>1. \A x \in read[r].after : read'[x] = read[x]
      BY <2>2, <1>2
    <3> QED  BY <2>1, <3>1 DEF Cleared
  <2> QED  BY <2>1, <2>3, <2>4
<1> QED  BY <1>1, <1>2, <1>3, <1>4, <1>5, <1>6 DEF AccessInv

\* A request that is told to record itself comes a window after the last one of its
\* key that the log has not been cleared of.
LEMMA AccessAppend ==
  ASSUME AccessInv, NEW q \in Reads, NEW found \in {"new", "full"}, read[q].pc = "asking",
         Window = 0 \/ ~Access!Fresh(read[q].key, read[q].at),
         read' = [read EXCEPT ![q].pc = "append", ![q].found = found, ![q].after = Access!HadTurn],
         seen' = IF Window = 0 THEN seen ELSE Access!Remembered(read[q].key, read[q].at),
         Window # 0 => (found = "full" <=> Access!Full),
         UNCHANGED <<now, events>>
  PROVE  AccessInv'
<1> DEFINE k == read[q].key
           t == read[q].at
<1>0. Window \in Nat /\ t \in Nat /\ seen \in [Keys -> Nat \cup {-1}] /\ \A p \in Reads : read[p].at \in Nat
  BY AccessConstants DEF AccessInv, AccessTypes, ReadRecs
<1>1. /\ read'[q].found = found /\ read'[q].after = Access!HadTurn /\ read'[q].key = k /\ read'[q].at = t
      /\ k \in Keys /\ ~Opener(q) /\ Opener(q)' /\ q \notin Access!HadTurn
      /\ \A p \in Reads : p # q => read'[p] = read[p] /\ (Opener(p)' <=> Opener(p))
      /\ \A p \in Reads : Opener(p) => p \in Access!HadTurn
      /\ Turns' /\ OwnEvents'
  BY AccessTurn
<1>2. AccessTypes'
  <2>1. now \in Nat /\ Access!HadTurn \in SUBSET Reads /\ read \in [Reads -> ReadRecs]
    BY DEF AccessInv, AccessTypes, Access!HadTurn
  <2>2. seen' \in [Keys -> Nat \cup {-1}]
    BY <1>0 DEF Access!Remembered, Access!Kept, Access!Never
  <2>3. [read EXCEPT ![q].pc = "append", ![q].found = found, ![q].after = Access!HadTurn]
          \in [Reads -> ReadRecs]
    BY <2>1, AccessTold
  <2> QED  BY <2>1, <2>2, <2>3 DEF AccessTypes
<1>3. /\ Window # 0 => seen'[k] = t
      /\ \A h \in Keys : h # k \/ Window = 0 => seen'[h] \in {seen[h], -1}
      /\ \A h \in Keys : h # k /\ seen'[h] # seen[h] =>
              Window # 0 /\ found = "full" /\ (seen[h] = -1 \/ t - seen[h] >= Window)
  <2>1. CASE Window = 0
    BY <2>1
  <2>2. CASE Window # 0
    <3>1. seen' = [h \in Keys |-> IF h = k THEN t ELSE IF Access!Full THEN Access!Kept(h, t) ELSE seen[h]]
      BY <2>2 DEF Access!Remembered
    <3>2. \A h \in Keys : Access!Kept(h, t) \in {seen[h], -1}
            /\ (Access!Kept(h, t) # seen[h] => seen[h] = -1 \/ t - seen[h] >= Window)
      BY <1>0 DEF Access!Kept, Access!Fresh, Access!Never
    <3> QED  BY <1>1, <2>2, <3>1, <3>2
  <2> QED  BY <2>1, <2>2
<1>4. EntriesAreOpeners'
  <2> SUFFICES ASSUME NEW h \in Keys, seen'[h] # -1
               PROVE  \E p \in Reads : Opener(p)' /\ read'[p].key = h /\ read'[p].at = seen'[h]
    BY DEF EntriesAreOpeners
  <2>1. CASE h = k /\ Window # 0
    BY <1>1, <1>3, <2>1
  <2>2. CASE h # k \/ Window = 0
    <3>1. seen'[h] = seen[h]
      BY <1>3, <2>2
    <3>2. PICK p \in Reads : Opener(p) /\ read[p].key = h /\ read[p].at = seen[h]
      BY <3>1 DEF AccessInv, EntriesAreOpeners
    <3> QED  BY <1>1, <3>1, <3>2
  <2> QED  BY <2>1, <2>2
<1>5. QuietIsOpened'
  <2> SUFFICES ASSUME NEW r \in Reads, read'[r].found = "recent" PROVE \E x \in Reads : Access!Opens(x, r)'
    BY DEF QuietIsOpened
  <2>1. r # q
    BY <1>1
  <2>2. PICK x \in Reads : Access!Opens(x, r)
    BY <2>1, <1>1 DEF AccessInv, QuietIsOpened
  <2>3. x # q
    BY <2>2, <1>1 DEF Access!Opens, Opener
  <2> QED  BY <2>1, <2>2, <2>3, <1>1 DEF Access!Opens
<1>6. \A p \in Reads : Opener(p) => (Cleared(p, Reads) => Cleared(p, Reads)' /\ Cleared(p, Access!HadTurn)')
  <2> SUFFICES ASSUME NEW p \in Reads, Opener(p), Cleared(p, Reads)
               PROVE  Cleared(p, Reads)' /\ Cleared(p, Access!HadTurn)'
    OBVIOUS
  <2>1. PICK r \in Reads : p \in read[r].after /\ read[r].found = "full" /\ read[r].at - read[p].at >= Window
    BY DEF Cleared
  <2>2. r # q /\ p # q /\ r \in Access!HadTurn
    BY <2>1, <1>1 DEF Opener, Access!HadTurn
  <2>3. read'[r] = read[r] /\ read'[p] = read[p]
    BY <2>2, <1>1
  <2>4. r \in Access!HadTurn'
    BY <2>2, <2>3 DEF Access!HadTurn
  <2> QED  BY <2>1, <2>3, <2>4 DEF Cleared
<1>7. \A p \in Reads :
        Opener(p) /\ Window # 0 /\ read[p].key = k /\ ~Cleared(p, Reads) => t - read[p].at >= Window
  <2> SUFFICES ASSUME NEW p \in Reads, Opener(p), Window # 0, read[p].key = k, ~Cleared(p, Reads)
               PROVE  t - read[p].at >= Window
    OBVIOUS
  <2>1. seen[k] # -1 /\ read[p].at <= seen[k]
    BY DEF AccessInv, NotForgotten
  <2>2. t - seen[k] >= Window
    BY <1>0, <1>1, <2>1 DEF Access!Fresh, Access!Never
  <2> QED  BY <1>0, <1>1, <2>1, <2>2
<1>8. NotForgotten'
  <2> SUFFICES ASSUME NEW p \in Reads, Opener(p)', Window # 0
               PROVE  \/ seen'[read'[p].key] # -1 /\ read'[p].at <= seen'[read'[p].key]
                      \/ Cleared(p, Reads)'
    BY DEF NotForgotten
  <2>1. CASE p = q
    BY <2>1, <1>0, <1>1, <1>3
  <2>2. CASE p # q
    <3>1. Opener(p) /\ read'[p] = read[p] /\ p \in Access!HadTurn /\ read[p].key \in Keys
      BY <2>2, <1>1 DEF AccessInv, Turns, Opener
    <3>2. CASE Cleared(p, Reads)
      BY <3>1, <3>2, <1>6
    <3>3. CASE ~Cleared(p, Reads)
      <4>1. seen[read[p].key] # -1 /\ read[p].at <= seen[read[p].key]
        BY <3>1, <3>3 DEF AccessInv, NotForgotten
      <4>2. CASE read[p].key = k
        <5>1. t - read[p].at >= Window
          BY <3>1, <3>3, <4>2, <1>7
        <5> QED  BY <5>1, <4>2, <3>1, <1>0, <1>3
      <4>3. CASE read[p].key # k /\ seen'[read[p].key] = seen[read[p].key]
        BY <4>1, <4>3, <3>1
      <4>4. CASE read[p].key # k /\ seen'[read[p].key] # seen[read[p].key]
        <5>1. found = "full" /\ t - seen[read[p].key] >= Window
          BY <4>1, <4>4, <3>1, <1>3
        <5>2. t - read[p].at >= Window
          BY <5>1, <4>1, <3>1, <1>0
        <5> QED  BY <5>1, <5>2, <3>1, <1>1 DEF Cleared
      <4> QED  BY <4>2, <4>3, <4>4
    <3> QED  BY <3>2, <3>3
  <2> QED  BY <2>1, <2>2
<1>9. Spaced'
  <2> SUFFICES ASSUME NEW p \in Reads, NEW r \in Reads, Opener(p)', Opener(r)', Window # 0,
                      p \in read'[r].after, read'[p].key = read'[r].key
               PROVE  read'[r].at - read'[p].at >= Window \/ Cleared(p, read[r].after)'
    BY DEF Spaced, Cleared
  <2>1. CASE r = q
    <3>1. p # q /\ read'[p] = read[p] /\ Opener(p) /\ read[p].key = k
      BY <2>1, <1>1
    <3>2. CASE Cleared(p, Reads)
      <4>1. PICK x \in Reads : /\ p \in read[x].after /\ read[x].found = "full"
                               /\ read[x].at - read[p].at >= Window
        BY <3>2 DEF Cleared
      <4>2. x # q /\ x \in Access!HadTurn
        BY <4>1, <1>1 DEF Opener, Access!HadTurn
      <4>3. read'[x] = read[x] /\ x \in read'[r].after
        BY <2>1, <4>2, <1>1
      <4> QED  BY <3>1, <4>1, <4>3 DEF Cleared
    <3> QED  BY <2>1, <3>1, <3>2, <1>1, <1>7
  <2>2. CASE r # q
    <3>1. read'[r] = read[r] /\ Opener(r) /\ read[r].after \in SUBSET Reads /\ q \notin read[r].after
      BY <2>2, <1>1 DEF AccessInv, AccessTypes, ReadRecs, Turns
    <3>2. p # q /\ read'[p] = read[p] /\ Opener(p)
      BY <3>1, <1>1
    <3>3. read[r].at - read[p].at >= Window \/ Cleared(p, read[r].after)
      BY <3>1, <3>2 DEF AccessInv, Spaced
    <3>4. Cleared(p, read[r].after) => Cleared(p, read[r].after)'
      <4>1. \A x \in read[r].after : read'[x] = read[x]
        BY <3>1, <1>1
      <4> QED  BY <3>1, <3>2, <4>1 DEF Cleared
    <3> QED  BY <3>1, <3>2, <3>3, <3>4
  <2> QED  BY <2>1, <2>2
<1> QED  BY <1>1, <1>2, <1>4, <1>5, <1>8, <1>9 DEF AccessInv

\* The turn of a request at the mutex of the log keeps the invariant.
LEMMA AccessAsks ==
  ASSUME AccessInv, NEW q \in Reads, Access!Ask(q) PROVE AccessInv'
<1> DEFINE k == read[q].key
           t == read[q].at
<1>1. read[q].pc = "asking" /\ UNCHANGED <<now, events>>
  BY DEF Access!Ask
<1>2. CASE /\ Access!Fresh(k, t) /\ UNCHANGED seen
           /\ read' = [read EXCEPT ![q].pc = "served", ![q].found = "recent", ![q].after = Access!HadTurn]
  BY <1>1, <1>2, AccessServed
<1>3. CASE /\ Window = 0 /\ UNCHANGED seen
           /\ read' = [read EXCEPT ![q].pc = "append", ![q].found = "new", ![q].after = Access!HadTurn]
  BY <1>1, <1>3, AccessAppend
<1>4. CASE /\ Window > 0 /\ ~Access!Fresh(k, t) /\ seen' = Access!Remembered(k, t)
           /\ read' = [read EXCEPT ![q].pc = "append", ![q].found = IF Access!Full THEN "full" ELSE "new",
                                   ![q].after = Access!HadTurn]
  <2>1. Window # 0
    BY <1>4, AccessConstants
  <2> QED  BY <1>1, <1>4, <2>1, AccessAppend
<1> QED  BY <1>2, <1>3, <1>4 DEF Access!Ask

\* An event is written, or the answer is an error and the event perhaps there.
LEMMA AccessRecord ==
  ASSUME AccessInv, NEW q \in Reads, Access!Record(q) PROVE AccessInv'
<1>1. read[q].pc = "append" /\ UNCHANGED <<now, seen>>
  BY DEF Access!Record
<1>2. \/ /\ read' = [read EXCEPT ![q].pc = "served"] /\ events' = events \cup {Access!Event(q)}
      \/ /\ read' = [read EXCEPT ![q].pc = "failed"]
         /\ events' \in {events, events \cup {Access!Event(q)}}
  BY DEF Access!Record, Access!Refused
<1>3. AccessTypes'
  BY <1>1, <1>2 DEF AccessInv, AccessTypes, ReadRecs
<1>4. /\ read'[q].pc = "failed" \/ (read'[q].pc = "served" /\ Access!Event(q) \in events')
      /\ read'[q].pc \in {"served", "failed"} /\ events \subseteq events'
      /\ \A p \in Reads : p # q => read'[p] = read[p]
      /\ \A p \in Reads : /\ read'[p].key = read[p].key /\ read'[p].at = read[p].at
                          /\ read'[p].found = read[p].found /\ read'[p].after = read[p].after
  BY <1>2 DEF AccessInv, AccessTypes, ReadRecs
<1>5. /\ Opener(q) /\ Access!HadTurn' = Access!HadTurn
      /\ \A p \in Reads : Access!Event(p)' = Access!Event(p) /\ (Opener(p)' <=> Opener(p))
  BY <1>1, <1>4 DEF Access!Event, Access!HadTurn, Opener, AccessInv, Turns
<1>6. Turns'
  <2> SUFFICES ASSUME NEW p \in Reads
               PROVE  /\ read'[p].pc \in {"new", "asking"} <=> read'[p].found = "nothing"
                      /\ read'[p].pc # "new" => read'[p].key \in Keys
                      /\ read'[p].pc \in {"append", "failed"} => Opener(p)'
                      /\ read'[p].pc = "served" /\ Opener(p)' => Access!Event(p)' \in events'
                      /\ read'[p].after \subseteq Access!HadTurn'
    BY DEF Turns
  <2>1. CASE p = q
    BY <2>1, <1>1, <1>4, <1>5 DEF AccessInv, Turns, Opener
  <2>2. CASE p # q
    BY <2>2, <1>4, <1>5 DEF AccessInv, Turns
  <2> QED  BY <2>1, <2>2
<1>7. OwnEvents'
  <2> SUFFICES ASSUME NEW e \in events' PROVE e.by \in Reads /\ Opener(e.by)' /\ e = Access!Event(e.by)'
    BY DEF OwnEvents
  <2>1. CASE e \in events
    BY <2>1, <1>5 DEF AccessInv, OwnEvents
  <2>2. CASE e = Access!Event(q)
    <3>1. e.by = q
      BY <2>2 DEF Access!Event
    <3> QED  BY <2>2, <3>1, <1>5
  <2> QED  BY <1>2, <2>1, <2>2
<1>8. EntriesAreOpeners' /\ QuietIsOpened' /\ NotForgotten' /\ Spaced'
  BY <1>1, <1>4, AccessKept
<1> QED  BY <1>3, <1>6, <1>7, <1>8 DEF AccessInv

\* Every step of a read, and of time, keeps the invariant.
LEMMA AccessSteps ==
  ASSUME AccessInv, [Access!Next]_(Access!vars) PROVE AccessInv'
<1>1. CASE UNCHANGED Access!vars
  BY <1>1 DEF Access!vars, AccessInv, AccessTypes, ReadRecs, Turns, OwnEvents, EntriesAreOpeners,
     QuietIsOpened, NotForgotten, Spaced, Cleared, Opener, Access!Event, Access!HadTurn, Access!Opens
<1> QED  BY <1>1, AccessTick, AccessStarts, AccessAsks, AccessRecord DEF Access!Next

\* The invariant says what the run checks.
LEMMA AccessDecides ==
  ASSUME AccessInv PROVE Access!EveryReadAccounted /\ Access!OneEventPerWindow
<1>1. Access!EveryReadAccounted
  <2> SUFFICES ASSUME NEW q \in Reads, read[q].pc = "served"
               PROVE  Access!Told(q) \/ Access!Awaited(q) \/ Access!Missed(q)
    BY DEF Access!EveryReadAccounted
  <2>1. CASE Opener(q)
    BY <2>1 DEF AccessInv, Turns, Access!Told, Access!Event
  <2>2. CASE ~Opener(q)
    <3>1. read[q].found = "recent"
      BY <2>2 DEF AccessInv, AccessTypes, ReadRecs, Turns, Opener
    <3>2. PICK p \in Reads : Access!Opens(p, q)
      BY <3>1 DEF AccessInv, QuietIsOpened
    <3>3. Opener(p) /\ read[p].pc \in {"append", "served", "failed"}
      BY <3>2 DEF Access!Opens, Opener, AccessInv, AccessTypes, ReadRecs, Turns
    <3>4. CASE read[p].pc = "served"
      <4>1. Access!Event(p) \in events /\ Access!Event(p).by = p
        BY <3>3, <3>4 DEF AccessInv, Turns, Access!Event
      <4> QED  BY <4>1, <3>2 DEF Access!Told
    <3> QED  BY <3>2, <3>3, <3>4 DEF Access!Awaited, Access!Missed
  <2> QED  BY <2>1, <2>2
<1>2. ASSUME NEW e \in events, NEW d \in events, e.key = d.key, e.by \in read[d.by].after, Window # 0
      PROVE  \/ d.at - e.at >= Window
             \/ \E r \in read[d.by].after :
                   e.by \in read[r].after /\ read[r].found = "full" /\ read[r].at - e.at >= Window
  <2>1. /\ e.by \in Reads /\ Opener(e.by) /\ e = Access!Event(e.by)
        /\ d.by \in Reads /\ Opener(d.by) /\ d = Access!Event(d.by)
    BY DEF AccessInv, OwnEvents
  <2>2. e.key = read[e.by].key /\ e.at = read[e.by].at /\ d.key = read[d.by].key /\ d.at = read[d.by].at
    BY <2>1 DEF Access!Event
  <2> QED  BY <1>2, <2>1, <2>2 DEF AccessInv, Spaced, Cleared
<1> QED  BY <1>1, <1>2 DEF Access!OneEventPerWindow

\* A read is served without an event only in the window of one whose event is being
\* written or was refused, and of two events of one key the later asked a window
\* after the earlier, unless a full log was cleared between them: for any readers,
\* keys, window and limit of the log, in whatever order requests that have taken
\* their times come to ask (Server.recordAccess, accessLog.shouldRecord).
THEOREM ReadsAlwaysRecorded == MCSpec => []ReadsAreRecorded
<1> DEFINE Inv == scene = "access" => AccessInv
<1>1. MCInit => Inv
  BY AccessBegins DEF MCInit
<1>2. Inv /\ [MCNext]_allVars => Inv'
  <2>1. ASSUME scene' = "access", [MCNext]_allVars PROVE scene = "access" /\ [Access!Next]_(Access!vars)
    BY <2>1 DEF MCNext, Creating, Deleting, Revoking, ShareScene, IntakeScene, FanoutScene, ArchiveScene,
       MediaScene, SearchScene, AccessScene, AuditScene, allVars, accessVars, Access!vars, Access!Next
  <2> QED  BY <2>1, AccessSteps
<1>3. Inv => ReadsAreRecorded
  BY AccessDecides DEF ReadsAreRecorded
<1> QED  BY <1>1, <1>2, <1>3, PTL DEF MCSpec

(***************************************************************************)
(* Shared keys (SharedKeys).                                               *)
(***************************************************************************)
DeletionRecs ==
    [pc : {"idle", "next", "marker", "record", "deleted", "error"}, object : Objects \cup {None},
     todo : SUBSET Shares, share : Shares \cup {None}, before : SUBSET Shares]

ShareTypes ==
    /\ now \in 0..ShareTime
    /\ record \in [Shares -> Sharing!Bodies \cup {None}] /\ marker \in [Shares -> Sharing!Bodies \cup {None}]
    /\ creator \in [Shares -> [pc : {"idle", "marker", "created", "undo", "error"},
                               rec : Sharing!Bodies \cup {None}]]
    /\ deleter \in [Deleters -> DeletionRecs]
    /\ revoker \in [Revokers -> [pc : {"idle", "marker", "record", "revoked", "error"},
                                 share : Shares \cup {None}]]
    /\ orphaned \subseteq Shares /\ misread \subseteq Shares /\ revoked \subseteq Shares

\* A deletion has taken the marker of s and not yet its record.
Taken(s) == \E e \in Deleters : deleter[e].pc = "record" /\ deleter[e].share = s

\* The step of a deletion is about s.
Handles(d, s) == deleter[d].pc \in {"marker", "record"} /\ deleter[d].share = s

\* A record and a marker are those of the creation, and no deletion knows of a
\* share before its marker is put.
Creations ==
    \A s \in Shares :
        /\ record[s] \in {None, creator[s].rec} /\ marker[s] \in {None, creator[s].rec}
        /\ creator[s].pc \notin {"idle"} => creator[s].rec \in Sharing!Bodies
        /\ creator[s].pc = "idle" => record[s] = None
        /\ creator[s].pc \in {"idle", "marker"} =>
             marker[s] = None /\ \A d \in Deleters : s \notin deleter[d].todo /\ ~Handles(d, s)
        /\ creator[s].pc = "marker" /\ s \notin revoked => record[s] = creator[s].rec

Deletions ==
    \A d \in Deleters :
        /\ deleter[d].pc = "idle" => deleter[d] = Sharing!Asleep
        /\ deleter[d].pc # "idle" => deleter[d].object \in Objects
        /\ deleter[d].pc \in {"marker", "record"} => deleter[d].share \in Shares
        /\ deleter[d].pc = "deleted" => deleter[d].todo = {}
        /\ \A s \in deleter[d].before :
              creator[s].pc = "created" /\ creator[s].rec.target = deleter[d].object

Revocations ==
    \A r \in Revokers : revoker[r].pc \in {"marker", "record"} => revoker[r].share \in revoked

\* A share that can be used has a marker by which a deletion finds it.
Findable ==
    \A s \in Shares \ (orphaned \cup revoked) :
        creator[s].pc = "created" /\ record[s] # None => marker[s] # None \/ Taken(s)

\* A deletion has still in hand every share it must end.
InHand ==
    \A d \in Deleters : deleter[d].pc \in {"next", "marker", "record", "deleted"} =>
        \A s \in deleter[d].before \ (orphaned \cup revoked) : record[s] # None =>
            \/ s \in deleter[d].todo
            \/ deleter[d].pc = "marker" /\ deleter[d].share = s
            \/ Taken(s)

\* Nobody has reason to touch s.
Untouched(s) ==
    /\ creator[s].pc = "created" /\ s \notin revoked \cup misread
    /\ \A d \in Deleters : deleter[d].object # creator[s].rec.target

Kept ==
    \A s \in Shares : Untouched(s) =>
        /\ record[s] = creator[s].rec /\ marker[s] = creator[s].rec
        /\ \A d \in Deleters : ~Handles(d, s)

ShareInv == ShareTypes /\ Creations /\ Deletions /\ Revocations /\ Findable /\ InHand /\ Kept

-----------------------------------------------------------------------------
\* What is absent is no share, no object and no body.
LEMMA ShareConstants ==
  /\ None \notin Shares /\ None \notin Objects /\ None \notin Sharing!Bodies
  /\ DefaultTTL \in Nat /\ MaxTTL \in Nat /\ ShareTime \in Nat /\ ShareFaults \in Nat
BY RequestsAssumption DEF Sharing!SharedAssumption

\* At first no share has been created and no call is running.
LEMMA ShareBegins ==
  ASSUME Sharing!Init PROVE ShareInv
BY ShareConstants DEF Sharing!Init, Sharing!Unborn, Sharing!Asleep, Sharing!Still,
   ShareInv, ShareTypes, DeletionRecs, Creations, Deletions, Revocations, Findable, InHand, Kept,
   Untouched, Handles, Taken, Sharing!Bodies

\* Shares expire without a call: nothing in the bucket moves.
LEMMA ShareTick ==
  ASSUME ShareInv, Sharing!Tick PROVE ShareInv'
BY ShareConstants DEF Sharing!Tick, Sharing!bucket, Sharing!history,
   ShareInv, ShareTypes, DeletionRecs, Creations, Deletions, Revocations, Findable, InHand, Kept,
   Untouched, Handles, Taken, Sharing!Bodies

\* A creation puts its record, and the call may fail after it was stored.
LEMMA ShareRecordPut ==
  ASSUME ShareInv, NEW s \in Shares, Sharing!PutRecord(s),
         UNCHANGED <<now, deleter, revoker, orphaned, misread, revoked>>
  PROVE  ShareInv'
<1> USE ShareConstants
<1>1. PICK rec \in Sharing!Bodies, pc \in {"marker", "error"} :
        /\ record' = [record EXCEPT ![s] = rec] \/ (pc = "error" /\ record' = record)
        /\ creator' = [creator EXCEPT ![s] = [pc |-> pc, rec |-> rec]]
  <2>1. \A o \in Objects, e \in Sharing!Expiries : [target |-> o, expires |-> e] \in Sharing!Bodies
    BY DEF Sharing!Bodies, Sharing!Expiries, ShareInv, ShareTypes, DeletionRecs
  <2> QED  BY <2>1 DEF Sharing!PutRecord, Sharing!Done, Sharing!Broken
<1>2. /\ creator[s].pc = "idle" /\ record[s] = None /\ marker[s] = None
      /\ \A d \in Deleters : s \notin deleter[d].todo /\ ~Handles(d, s)
      /\ UNCHANGED marker
  BY DEF Sharing!PutRecord, ShareInv, Creations
<1>3. /\ creator'[s] = [pc |-> pc, rec |-> rec] /\ record'[s] \in {None, rec}
      /\ pc = "marker" => record'[s] = rec
      /\ \A t \in Shares : t # s => creator'[t] = creator[t] /\ record'[t] = record[t]
  BY <1>1, <1>2 DEF ShareInv, ShareTypes, DeletionRecs
<1>4. ShareTypes'
  BY <1>1, <1>2 DEF ShareInv, ShareTypes, DeletionRecs
<1>5. /\ \A d \in Deleters, t \in Shares : Handles(d, t)' = Handles(d, t)
      /\ \A t \in Shares : Taken(t)' = Taken(t)
  BY DEF Handles, Taken
<1>6. Creations'
  BY <1>2, <1>3, <1>5 DEF ShareInv, Creations
<1>7. \A d \in Deleters : s \notin deleter[d].before
  BY <1>2 DEF ShareInv, Deletions
<1>8. Deletions'
  BY <1>3, <1>7 DEF ShareInv, Deletions, ShareTypes, DeletionRecs
<1>9. Revocations' /\ Findable'
  BY <1>2, <1>3, <1>5 DEF ShareInv, Revocations, Findable
<1>10. InHand'
  BY <1>3, <1>5, <1>7 DEF ShareInv, InHand, ShareTypes, DeletionRecs
<1>11. Kept'
  BY <1>2, <1>3, <1>5 DEF ShareInv, Kept, Untouched
<1> QED  BY <1>4, <1>6, <1>8, <1>9, <1>10, <1>11 DEF ShareInv

\* It puts its marker.
LEMMA ShareMarkerPut ==
  ASSUME ShareInv, NEW s \in Shares, Sharing!PutMarker(s),
         UNCHANGED <<now, deleter, revoker, orphaned, misread, revoked>>
  PROVE  ShareInv'
<1> USE ShareConstants
<1>1. PICK pc \in {"created", "undo"} :
        /\ \/ marker' = [marker EXCEPT ![s] = creator[s].rec]
           \/ pc = "undo" /\ marker' = marker
        /\ creator' = [creator EXCEPT ![s].pc = pc]
  BY DEF Sharing!PutMarker, Sharing!Done, Sharing!Broken
<1>2. /\ creator[s].pc = "marker" /\ creator[s].rec \in Sharing!Bodies /\ marker[s] = None
      /\ s \notin revoked => record[s] = creator[s].rec
      /\ \A d \in Deleters : s \notin deleter[d].todo /\ ~Handles(d, s)
      /\ UNCHANGED record
  BY DEF Sharing!PutMarker, ShareInv, Creations
<1>3. /\ creator'[s].pc = pc /\ creator'[s].rec = creator[s].rec
      /\ marker'[s] \in {None, creator[s].rec} /\ (pc = "created" => marker'[s] = creator[s].rec)
      /\ \A t \in Shares : t # s => creator'[t] = creator[t] /\ marker'[t] = marker[t]
  BY <1>1, <1>2 DEF ShareInv, ShareTypes, DeletionRecs
<1>4. ShareTypes'
  <2>1. marker' \in [Shares -> Sharing!Bodies \cup {None}]
    BY <1>1, <1>2 DEF ShareInv, ShareTypes, DeletionRecs
  <2>2. creator' \in [Shares -> [pc : {"idle", "marker", "created", "undo", "error"},
                                 rec : Sharing!Bodies \cup {None}]]
    BY <1>1 DEF ShareInv, ShareTypes, DeletionRecs
  <2> QED  BY <1>2, <2>1, <2>2 DEF ShareInv, ShareTypes, DeletionRecs
<1>5. /\ \A d \in Deleters, t \in Shares : Handles(d, t)' = Handles(d, t)
      /\ \A t \in Shares : Taken(t)' = Taken(t)
  BY DEF Handles, Taken
<1>6. Creations'
  BY <1>2, <1>3, <1>5 DEF ShareInv, Creations
<1>7. \A d \in Deleters : s \notin deleter[d].before
  BY <1>2 DEF ShareInv, Deletions
<1>8. Deletions'
  BY <1>3, <1>7 DEF ShareInv, Deletions, ShareTypes, DeletionRecs
<1>9. Revocations' /\ Findable'
  BY <1>2, <1>3, <1>5 DEF ShareInv, Revocations, Findable, Sharing!Bodies
<1>10. InHand'
  BY <1>2, <1>5 DEF ShareInv, InHand, Taken
<1>11. Kept'
  BY <1>2, <1>3, <1>5 DEF ShareInv, Kept, Untouched
<1> QED  BY <1>4, <1>6, <1>8, <1>9, <1>10, <1>11 DEF ShareInv

\* It takes its record back.
LEMMA ShareUndone ==
  ASSUME ShareInv, NEW s \in Shares, Sharing!Undo(s),
         UNCHANGED <<now, deleter, revoker, orphaned, misread, revoked>>
  PROVE  ShareInv'
<1> USE ShareConstants
<1>1. /\ creator[s].pc = "undo" /\ creator' = [creator EXCEPT ![s].pc = "error"] /\ UNCHANGED marker
      /\ record' \in {record, [record EXCEPT ![s] = None]}
  BY DEF Sharing!Undo, Sharing!Done, Sharing!Broken
<1>2. /\ creator'[s].pc = "error" /\ creator'[s].rec = creator[s].rec /\ record'[s] \in {None, record[s]}
      /\ \A t \in Shares : t # s => creator'[t] = creator[t] /\ record'[t] = record[t]
  BY <1>1 DEF ShareInv, ShareTypes, DeletionRecs
<1>3. ShareTypes'
  <2>1. record' \in [Shares -> Sharing!Bodies \cup {None}]
    BY <1>1 DEF ShareInv, ShareTypes, DeletionRecs
  <2>2. creator' \in [Shares -> [pc : {"idle", "marker", "created", "undo", "error"},
                                 rec : Sharing!Bodies \cup {None}]]
    BY <1>1 DEF ShareInv, ShareTypes, DeletionRecs
  <2> QED  BY <1>1, <2>1, <2>2 DEF ShareInv, ShareTypes, DeletionRecs
<1>4. /\ \A d \in Deleters, t \in Shares : Handles(d, t)' = Handles(d, t)
      /\ \A t \in Shares : Taken(t)' = Taken(t)
  BY DEF Handles, Taken
<1>5. Creations'
  BY <1>1, <1>2, <1>4 DEF ShareInv, Creations
<1>6. \A d \in Deleters : s \notin deleter[d].before
  BY <1>1 DEF ShareInv, Deletions
<1>7. Deletions'
  BY <1>2, <1>6 DEF ShareInv, Deletions, ShareTypes, DeletionRecs
<1>8. Revocations' /\ Findable'
  BY <1>1, <1>2, <1>4 DEF ShareInv, Revocations, Findable
<1>9. InHand'
  BY <1>2, <1>4, <1>6 DEF ShareInv, InHand, ShareTypes, DeletionRecs
<1>10. Kept'
  BY <1>1, <1>2, <1>4 DEF ShareInv, Kept, Untouched
<1> QED  BY <1>3, <1>5, <1>7, <1>8, <1>9, <1>10 DEF ShareInv

\* What a creation and the deletions know of each other is kept by a step of one
\* deletion that puts nothing into the bucket.
LEMMA ShareDeletionKeeps ==
  ASSUME ShareInv, NEW d \in Deleters, \A e \in Deleters : e # d => deleter'[e] = deleter[e],
         UNCHANGED <<now, creator, revoker, revoked>>, ShareTypes',
         \A s \in Shares : record'[s] \in {None, record[s]} /\ marker'[s] \in {None, marker[s]},
         \A s \in Shares : creator[s].pc = "marker" => record'[s] = record[s],
         \A s \in deleter'[d].todo : s \in deleter[d].todo \/ marker[s] # None,
         \A s \in Shares : Handles(d, s)' => s \in deleter[d].todo \/ Handles(d, s)
  PROVE  Creations' /\ Revocations'
<1>2. ASSUME NEW s \in Shares, creator[s].pc \in {"idle", "marker"}
      PROVE  \A e \in Deleters : s \notin deleter'[e].todo /\ ~Handles(e, s)'
  <2>1. marker[s] = None /\ \A e \in Deleters : s \notin deleter[e].todo /\ ~Handles(e, s)
    BY <1>2 DEF ShareInv, Creations
  <2>2. s \notin deleter'[d].todo /\ ~Handles(d, s)'
    BY <2>1
  <2> QED  BY <2>1, <2>2 DEF Handles
<1>3. Creations'
  BY <1>2 DEF ShareInv, Creations
<1> QED  BY <1>3 DEF ShareInv, Revocations

\* A deletion whose place in the code is all that moves.
LEMMA DeletionMoves ==
  ASSUME ShareInv, NEW d \in Deleters,
         NEW pc \in {"next", "record", "deleted", "error"}, deleter' = [deleter EXCEPT ![d].pc = pc]
  PROVE  /\ deleter' \in [Deleters -> DeletionRecs]
         /\ deleter'[d].pc = pc /\ deleter'[d].share = deleter[d].share
         /\ deleter'[d].todo = deleter[d].todo /\ deleter'[d].before = deleter[d].before
         /\ deleter'[d].object = deleter[d].object
         /\ \A e \in Deleters : e # d => deleter'[e] = deleter[e]
<1>1. deleter \in [Deleters -> DeletionRecs]
  BY DEF ShareInv, ShareTypes
<1>2. ASSUME NEW r \in DeletionRecs
      PROVE  /\ [r EXCEPT !.pc = pc] \in DeletionRecs /\ [r EXCEPT !.pc = pc].pc = pc
             /\ [r EXCEPT !.pc = pc].share = r.share /\ [r EXCEPT !.pc = pc].todo = r.todo
             /\ [r EXCEPT !.pc = pc].before = r.before /\ [r EXCEPT !.pc = pc].object = r.object
  BY DEF DeletionRecs
<1>3. deleter' = [deleter EXCEPT ![d] = [deleter[d] EXCEPT !.pc = pc]]
  BY Zenon
<1>4. deleter[d] \in DeletionRecs /\ deleter'[d] = [deleter[d] EXCEPT !.pc = pc]
  BY <1>1, <1>3
<1>5. deleter' \in [Deleters -> DeletionRecs]
  BY <1>1, <1>2, <1>3, <1>4
<1>6. \A e \in Deleters : e # d => deleter'[e] = deleter[e]
  BY <1>1, <1>3
<1> QED  BY <1>2, <1>4, <1>5, <1>6

\* A deletion begins with the markers it finds.
LEMMA ShareListed ==
  ASSUME ShareInv, NEW d \in Deleters, Sharing!ListMarkers(d), UNCHANGED <<now, creator, revoker>>
  PROVE  ShareInv'
<1> USE ShareConstants
<1> DEFINE Todo == {s \in Shares : marker[s] # None}
           Before(o) == {s \in Shares : creator[s].pc = "created" /\ creator[s].rec.target = o}
<1>1. PICK o \in Objects, new \in DeletionRecs :
        /\ deleter' = [deleter EXCEPT ![d] = new]
        /\ new.pc \in {"next", "error"} /\ new.object = o /\ new.todo = Todo
        /\ new.share = None /\ new.before = Before(o)
  <2>1. PICK o \in Objects :
          \/ deleter' = [deleter EXCEPT ![d] =
                [Sharing!Asleep EXCEPT !.pc = "next", !.object = o, !.todo = Todo, !.before = Before(o)]]
          \/ deleter' = [deleter EXCEPT ![d] =
                [[Sharing!Asleep EXCEPT !.pc = "next", !.object = o, !.todo = Todo, !.before = Before(o)]
                 EXCEPT !.pc = "error"]]
    BY Zenon DEF Sharing!ListMarkers
  <2>2. Todo \in SUBSET Shares /\ Before(o) \in SUBSET Shares
    OBVIOUS
  <2> HIDE DEF Todo, Before
  <2>3. ASSUME NEW r \in DeletionRecs, r.share = None
        PROVE  LET x == [r EXCEPT !.pc = "next", !.object = o, !.todo = Todo, !.before = Before(o)]
                   y == [x EXCEPT !.pc = "error"]
               IN  /\ x \in DeletionRecs /\ x.pc = "next" /\ x.object = o /\ x.todo = Todo /\ x.share = None
                   /\ y \in DeletionRecs /\ y.pc = "error" /\ y.object = o /\ y.todo = Todo /\ y.share = None
                   /\ x.before = Before(o) /\ y.before = Before(o)
    BY <2>2, <2>3 DEF DeletionRecs
  <2>4. Sharing!Asleep \in DeletionRecs /\ Sharing!Asleep.share = None
    BY DEF Sharing!Asleep, DeletionRecs
  <2> QED  BY <2>1, <2>3, <2>4, Zenon
<1>2. deleter[d].pc = "idle" /\ UNCHANGED <<object, record, marker, orphaned, misread, revoked>>
  BY DEF Sharing!ListMarkers, Sharing!bucket, Sharing!history
<1>3. deleter'[d] = new /\ \A e \in Deleters : e # d => deleter'[e] = deleter[e]
  BY <1>1 DEF ShareInv, ShareTypes, DeletionRecs
<1>4. ShareTypes'
  BY <1>1, <1>2 DEF ShareInv, ShareTypes, DeletionRecs
<1>5. Creations' /\ Revocations'
  BY <1>1, <1>2, <1>3, <1>4, ShareDeletionKeeps DEF Handles
<1>6. Deletions'
  BY <1>1, <1>2, <1>3 DEF ShareInv, Deletions
<1>7. /\ \A s \in Shares : Taken(s)' <=> Taken(s)
      /\ \A e \in Deleters, s \in Shares : Handles(e, s)' <=> Handles(e, s)
  BY <1>1, <1>2, <1>3 DEF Taken, Handles
<1>8. Findable'
  BY <1>2, <1>7 DEF ShareInv, Findable
<1>9. InHand'
  <2> SUFFICES ASSUME NEW e \in Deleters, deleter'[e].pc \in {"next", "marker", "record", "deleted"},
                      NEW s \in deleter'[e].before \ (orphaned \cup revoked), record[s] # None
               PROVE  \/ s \in deleter'[e].todo
                      \/ deleter'[e].pc = "marker" /\ deleter'[e].share = s
                      \/ Taken(s)'
    BY <1>2 DEF InHand
  <2>0. s \in Shares
    BY <1>4 DEF ShareTypes, DeletionRecs
  <2>1. CASE e = d
    <3>1. creator[s].pc = "created" /\ s \notin orphaned \cup revoked
      BY <1>1, <1>3, <2>1
    <3> QED  BY <1>1, <1>3, <1>7, <2>0, <2>1, <3>1 DEF ShareInv, Findable
  <2>2. CASE e # d
    BY <1>3, <1>7, <2>0, <2>2 DEF ShareInv, InHand
  <2> QED  BY <2>1, <2>2
<1>10. Kept'
  <2> SUFFICES ASSUME NEW s \in Shares, Untouched(s)'
               PROVE  /\ record[s] = creator[s].rec /\ marker[s] = creator[s].rec
                      /\ \A e \in Deleters : ~Handles(e, s)'
    BY <1>2 DEF Kept
  <2>1. creator[s].pc = "created" /\ creator[s].rec \in Sharing!Bodies
    BY DEF Untouched, ShareInv, Creations
  <2>2. deleter[d].object = None
    BY <1>2 DEF ShareInv, Deletions, Sharing!Asleep
  <2>3. Untouched(s)
    BY <1>2, <1>3, <2>1, <2>2 DEF Untouched, Sharing!Bodies
  <2> QED  BY <1>7, <2>3 DEF ShareInv, Kept
<1> QED  BY <1>4, <1>5, <1>6, <1>8, <1>9, <1>10 DEF ShareInv

\* It looks at one of them, and leaves it alone if it is of another object.
LEMMA ShareLoaded ==
  ASSUME ShareInv, NEW d \in Deleters, Sharing!LoadMarker(d), UNCHANGED <<now, creator, revoker>>
  PROVE  ShareInv'
<1> USE ShareConstants
<1>1. PICK s \in deleter[d].todo :
        \/ /\ Sharing!Foreign(d, s) /\ deleter' = [deleter EXCEPT ![d].todo = @ \ {s}]
           /\ misread' = misread
        \/ /\ ~Sharing!Foreign(d, s) \/ s \in misread'
           /\ deleter' = [deleter EXCEPT ![d].todo = @ \ {s}, ![d].share = s, ![d].pc = "marker"]
           /\ misread' \in {misread, misread \cup {s}}
  BY Zenon DEF Sharing!LoadMarker
<1>2. deleter[d].pc = "next" /\ UNCHANGED <<object, record, marker, orphaned, revoked>>
  BY DEF Sharing!LoadMarker, Sharing!bucket
<1>3. s \in Shares /\ marker[s] \in {None, creator[s].rec} /\ deleter[d] \in DeletionRecs
  BY DEF ShareInv, ShareTypes, DeletionRecs, Creations
<1>4. /\ deleter'[d].before = deleter[d].before /\ deleter'[d].object = deleter[d].object
      /\ deleter'[d].todo = deleter[d].todo \ {s}
      /\ \/ deleter'[d].pc = "next" /\ Sharing!Foreign(d, s)
         \/ deleter'[d].pc = "marker" /\ deleter'[d].share = s /\ (~Sharing!Foreign(d, s) \/ s \in misread')
      /\ \A e \in Deleters : e # d => deleter'[e] = deleter[e]
      /\ misread \subseteq misread' /\ misread' \subseteq Shares
  BY <1>1, <1>2, <1>3 DEF ShareInv, ShareTypes, DeletionRecs
<1>5. deleter' \in [Deleters -> DeletionRecs]
  <2>1. CASE deleter' = [deleter EXCEPT ![d].todo = @ \ {s}]
    BY <2>1, <1>3, ZenonT(30) DEF ShareInv, ShareTypes, DeletionRecs
  <2>2. CASE deleter' = [deleter EXCEPT ![d].todo = @ \ {s}, ![d].share = s, ![d].pc = "marker"]
    BY <2>2, <1>3, ZenonT(30) DEF ShareInv, ShareTypes, DeletionRecs
  <2> QED  BY <1>1, <2>1, <2>2
<1>6. ShareTypes'
  BY <1>2, <1>4, <1>5 DEF ShareInv, ShareTypes
<1>7. Creations' /\ Revocations'
  BY <1>1, <1>2, <1>4, <1>6, ShareDeletionKeeps DEF Handles
<1>8. Deletions'
  BY <1>2, <1>3, <1>4 DEF ShareInv, Deletions
<1>9. \A t \in Shares : Taken(t)' <=> Taken(t)
  BY <1>2, <1>4 DEF Taken
<1>10. Findable'
  BY <1>2, <1>9 DEF ShareInv, Findable
<1>11. s \in deleter[d].before => ~Sharing!Foreign(d, s)
  BY <1>3 DEF ShareInv, Deletions, Sharing!Foreign
<1>12. InHand'
  <2> SUFFICES ASSUME NEW e \in Deleters, deleter'[e].pc \in {"next", "marker", "record", "deleted"},
                      NEW t \in deleter'[e].before \ (orphaned \cup revoked), record[t] # None
               PROVE  \/ t \in deleter'[e].todo
                      \/ deleter'[e].pc = "marker" /\ deleter'[e].share = t
                      \/ Taken(t)'
    BY <1>2 DEF InHand
  <2>0. t \in Shares
    BY <1>6 DEF ShareTypes, DeletionRecs
  <2>1. CASE e = d
    <3>1. t \in deleter[d].todo \/ Taken(t)
      BY <1>2, <1>4, <2>1 DEF ShareInv, InHand
    <3> QED  BY <1>4, <1>9, <1>11, <2>0, <2>1, <3>1
  <2>2. CASE e # d
    BY <1>4, <1>9, <2>0, <2>2 DEF ShareInv, InHand
  <2> QED  BY <2>1, <2>2
<1>13. Kept'
  <2> SUFFICES ASSUME NEW t \in Shares, Untouched(t)'
               PROVE  /\ record[t] = creator[t].rec /\ marker[t] = creator[t].rec
                      /\ \A e \in Deleters : ~Handles(e, t)'
    BY <1>2 DEF Kept
  <2>1. Untouched(t)
    BY <1>2, <1>4 DEF Untouched
  <2>2. /\ record[t] = creator[t].rec /\ marker[t] = creator[t].rec /\ creator[t].rec # None
        /\ \A e \in Deleters : ~Handles(e, t)
    <3>1. creator[t].rec \in Sharing!Bodies
      BY <2>1 DEF ShareInv, Creations, Untouched
    <3> QED  BY <2>1, <3>1 DEF ShareInv, Kept
  <2>3. Sharing!Foreign(d, t) /\ t \notin misread'
    BY <2>1, <2>2 DEF Untouched, Sharing!Foreign
  <2>4. ~Handles(d, t)'
    BY <1>4, <2>3 DEF Handles
  <2> QED  BY <1>4, <2>2, <2>4 DEF Handles
<1> QED  BY <1>6, <1>7, <1>8, <1>10, <1>12, <1>13 DEF ShareInv

\* It deletes the marker in hand.
LEMMA ShareMarkerDeleted ==
  ASSUME ShareInv, NEW d \in Deleters, Sharing!DeleteMarker(d), UNCHANGED <<now, creator, revoker>>
  PROVE  ShareInv'
<1> USE ShareConstants
<1>0. PICK s \in Shares : s = deleter[d].share
  BY DEF Sharing!DeleteMarker, ShareInv, ShareTypes, Deletions
<1>1. PICK pc \in {"record", "error"} :
        /\ deleter' = [deleter EXCEPT ![d].pc = pc]
        /\ marker' \in {marker, [marker EXCEPT ![s] = None]}
        /\ orphaned' = IF pc = "record" THEN orphaned ELSE orphaned \cup {s}
  BY <1>0 DEF Sharing!DeleteMarker, Sharing!Moves, Sharing!Done, Sharing!Broken
<1>2. /\ deleter[d].pc = "marker" /\ UNCHANGED <<object, record, misread, revoked>>
      /\ s \in Shares /\ Handles(d, s) /\ deleter[d] \in DeletionRecs
  BY <1>0 DEF Sharing!DeleteMarker, ShareInv, ShareTypes, Deletions, Handles
<1>3. /\ marker'[s] \in {None, marker[s]} /\ \A t \in Shares : t # s => marker'[t] = marker[t]
  BY <1>1, <1>2 DEF ShareInv, ShareTypes
<1>4. /\ deleter' \in [Deleters -> DeletionRecs]
      /\ deleter'[d].pc = pc /\ deleter'[d].share = s
      /\ deleter'[d].todo = deleter[d].todo /\ deleter'[d].before = deleter[d].before
      /\ deleter'[d].object = deleter[d].object
      /\ \A e \in Deleters : e # d => deleter'[e] = deleter[e]
  BY <1>0, <1>1, DeletionMoves
<1>5. ShareTypes'
  BY <1>1, <1>2, <1>4 DEF ShareInv, ShareTypes
<1>6. Creations' /\ Revocations'
  BY <1>2, <1>3, <1>4, <1>5, <1>0, ShareDeletionKeeps DEF Handles
<1>7. Deletions'
  BY <1>0, <1>1, <1>2, <1>4 DEF ShareInv, Deletions
<1>8. /\ \A t \in Shares : Taken(t) => Taken(t)'
      /\ pc = "record" => Taken(s)'
  <2>1. ASSUME NEW t \in Shares, Taken(t) PROVE Taken(t)'
    <3>1. PICK e \in Deleters : deleter[e].pc = "record" /\ deleter[e].share = t
      BY <2>1 DEF Taken
    <3>2. deleter'[e] = deleter[e]
      BY <1>2, <1>4, <3>1
    <3> QED  BY <3>1, <3>2 DEF Taken
  <2>2. ASSUME pc = "record" PROVE Taken(s)'
    <3>1. deleter'[d].pc = "record" /\ deleter'[d].share = s
      BY <1>4, <2>2
    <3> QED  BY <3>1 DEF Taken
  <2> QED  BY <2>1, <2>2
<1>9. Findable'
  <2> SUFFICES ASSUME NEW t \in Shares \ (orphaned' \cup revoked), creator[t].pc = "created", record[t] # None
               PROVE  marker'[t] # None \/ Taken(t)'
    BY <1>2 DEF Findable
  <2>1. CASE t = s
    <3>1. s \notin orphaned'
      BY <2>1
    <3>2. pc = "record"
      BY <1>1, <3>1
    <3> QED  BY <1>8, <2>1, <3>2
  <2>2. CASE t # s
    <3>1. t \notin orphaned
      BY <1>1
    <3> QED  BY <1>3, <1>8, <2>2, <3>1 DEF ShareInv, Findable
  <2> QED  BY <2>1, <2>2
<1>10. InHand'
  <2> SUFFICES ASSUME NEW e \in Deleters, deleter'[e].pc \in {"next", "marker", "record", "deleted"},
                      NEW t \in deleter'[e].before \ (orphaned' \cup revoked), record[t] # None
               PROVE  \/ t \in deleter'[e].todo
                      \/ deleter'[e].pc = "marker" /\ deleter'[e].share = t
                      \/ Taken(t)'
    BY <1>2 DEF InHand
  <2>0. t \in Shares /\ t \notin orphaned
    BY <1>1, <1>5 DEF ShareTypes, DeletionRecs
  <2>1. CASE e = d
    BY <1>0, <1>2, <1>3, <1>4, <1>8, <2>0, <2>1 DEF ShareInv, InHand
  <2>2. CASE e # d
    BY <1>2, <1>4, <1>8, <2>0, <2>2 DEF ShareInv, InHand
  <2> QED  BY <2>1, <2>2
<1>11. Kept'
  <2> SUFFICES ASSUME NEW t \in Shares, Untouched(t)'
               PROVE  /\ record[t] = creator[t].rec /\ marker'[t] = creator[t].rec
                      /\ \A e \in Deleters : ~Handles(e, t)'
    BY <1>2 DEF Kept
  <2>1. Untouched(t)
    BY <1>2, <1>3, <1>4 DEF Untouched
  <2>2. t # s
    BY <1>2, <2>1 DEF ShareInv, Kept
  <2> QED  BY <1>3, <1>4, <2>1, <2>2 DEF ShareInv, Kept, Handles
<1> QED  BY <1>5, <1>6, <1>7, <1>9, <1>10, <1>11 DEF ShareInv

\* It deletes the record in hand.
LEMMA ShareRecordDeleted ==
  ASSUME ShareInv, NEW d \in Deleters, Sharing!DeleteRecord(d), UNCHANGED <<now, creator, revoker>>
  PROVE  ShareInv'
<1> USE ShareConstants
<1>0. PICK s \in Shares : s = deleter[d].share
  BY DEF Sharing!DeleteRecord, ShareInv, ShareTypes, Deletions
<1>1. PICK pc \in {"next", "error"} :
        /\ deleter' = [deleter EXCEPT ![d].pc = pc]
        /\ record' \in {record, [record EXCEPT ![s] = None]}
        /\ pc = "next" => record' = [record EXCEPT ![s] = None]
        /\ orphaned' = IF pc = "next" THEN orphaned ELSE orphaned \cup {s}
  BY <1>0 DEF Sharing!DeleteRecord, Sharing!Erased, Sharing!Moves, Sharing!Done, Sharing!Broken
<1>2. /\ deleter[d].pc = "record" /\ UNCHANGED <<object, marker, misread, revoked>>
      /\ s \in Shares /\ Handles(d, s) /\ deleter[d] \in DeletionRecs
  BY <1>0 DEF Sharing!DeleteRecord, ShareInv, ShareTypes, Deletions, Handles
<1>3. /\ record'[s] \in {None, record[s]} /\ \A t \in Shares : t # s => record'[t] = record[t]
      /\ pc = "next" => record'[s] = None
  BY <1>1, <1>2 DEF ShareInv, ShareTypes
<1>4. /\ deleter' \in [Deleters -> DeletionRecs]
      /\ deleter'[d].pc = pc /\ deleter'[d].share = s
      /\ deleter'[d].todo = deleter[d].todo /\ deleter'[d].before = deleter[d].before
      /\ deleter'[d].object = deleter[d].object
      /\ \A e \in Deleters : e # d => deleter'[e] = deleter[e]
  BY <1>0, <1>1, DeletionMoves
<1>5. ShareTypes'
  BY <1>1, <1>2, <1>4 DEF ShareInv, ShareTypes
<1>6. creator[s].pc # "marker"
  BY <1>2 DEF ShareInv, Creations
<1>7. Creations' /\ Revocations'
  BY <1>2, <1>3, <1>4, <1>5, <1>6, <1>0, ShareDeletionKeeps DEF Handles
<1>8. Deletions'
  BY <1>0, <1>1, <1>2, <1>4 DEF ShareInv, Deletions
<1>9. \A t \in Shares : t # s /\ Taken(t) => Taken(t)'
  BY <1>0, <1>2, <1>3, <1>4 DEF Taken
<1>10. s \in orphaned' \/ record'[s] = None
  BY <1>1, <1>3
<1>11. Findable'
  BY <1>1, <1>2, <1>3, <1>9, <1>10 DEF ShareInv, Findable
<1>12. InHand'
  <2> SUFFICES ASSUME NEW e \in Deleters, deleter'[e].pc \in {"next", "marker", "record", "deleted"},
                      NEW t \in deleter'[e].before \ (orphaned' \cup revoked), record'[t] # None
               PROVE  \/ t \in deleter'[e].todo
                      \/ deleter'[e].pc = "marker" /\ deleter'[e].share = t
                      \/ Taken(t)'
    BY <1>2 DEF InHand
  <2>0. t \in Shares /\ t \notin orphaned /\ t # s /\ record[t] # None
    BY <1>1, <1>3, <1>5, <1>10 DEF ShareTypes, DeletionRecs
  <2>1. CASE e = d
    BY <1>0, <1>2, <1>3, <1>4, <1>9, <2>0, <2>1 DEF ShareInv, InHand
  <2>2. CASE e # d
    BY <1>3, <1>4, <1>9, <2>0, <2>2 DEF ShareInv, InHand
  <2> QED  BY <2>1, <2>2
<1>13. Kept'
  <2> SUFFICES ASSUME NEW t \in Shares, Untouched(t)'
               PROVE  /\ record'[t] = creator[t].rec /\ marker[t] = creator[t].rec
                      /\ \A e \in Deleters : ~Handles(e, t)'
    BY <1>2 DEF Kept
  <2>1. Untouched(t)
    BY <1>2, <1>3, <1>4 DEF Untouched
  <2>2. t # s
    BY <1>2, <2>1 DEF ShareInv, Kept
  <2> QED  BY <1>3, <1>4, <2>1, <2>2 DEF ShareInv, Kept, Handles
<1> QED  BY <1>5, <1>7, <1>8, <1>11, <1>12, <1>13 DEF ShareInv

\* With no marker left in hand it deletes the object.
LEMMA ShareObjectDeleted ==
  ASSUME ShareInv, NEW d \in Deleters, Sharing!DeleteObject(d), UNCHANGED <<now, creator, revoker>>
  PROVE  ShareInv'
<1> USE ShareConstants
<1>1. PICK pc \in {"deleted", "error"} : deleter' = [deleter EXCEPT ![d].pc = pc]
  BY DEF Sharing!DeleteObject, Sharing!Moves
<1>2. /\ deleter[d].pc = "next" /\ deleter[d].todo = {}
      /\ UNCHANGED <<record, marker, orphaned, misread, revoked>>
      /\ deleter[d] \in DeletionRecs
  BY DEF Sharing!DeleteObject, Sharing!history, ShareInv, ShareTypes
<1>3. /\ deleter' \in [Deleters -> DeletionRecs]
      /\ deleter'[d].pc = pc /\ deleter'[d].todo = {} /\ deleter'[d].before = deleter[d].before
      /\ deleter'[d].object = deleter[d].object
      /\ \A e \in Deleters : e # d => deleter'[e] = deleter[e]
  BY <1>1, <1>2, DeletionMoves
<1>4. ShareTypes'
  BY <1>2, <1>3 DEF ShareInv, ShareTypes
<1>5. Creations' /\ Revocations'
  BY <1>2, <1>3, <1>4, ShareDeletionKeeps DEF Handles
<1>6. Deletions'
  BY <1>2, <1>3 DEF ShareInv, Deletions
<1>7. /\ \A t \in Shares : Taken(t)' <=> Taken(t)
      /\ \A e \in Deleters, t \in Shares : Handles(e, t)' <=> Handles(e, t)
  BY <1>2, <1>3 DEF Taken, Handles
<1>8. Findable'
  BY <1>2, <1>7 DEF ShareInv, Findable
<1>9. InHand'
  <2> SUFFICES ASSUME NEW e \in Deleters, deleter'[e].pc \in {"next", "marker", "record", "deleted"},
                      NEW t \in deleter'[e].before \ (orphaned \cup revoked), record[t] # None
               PROVE  \/ t \in deleter'[e].todo
                      \/ deleter'[e].pc = "marker" /\ deleter'[e].share = t
                      \/ Taken(t)'
    BY <1>2 DEF InHand
  <2>0. t \in Shares
    BY <1>4 DEF ShareTypes, DeletionRecs
  <2>1. CASE e = d
    BY <1>2, <1>3, <1>7, <2>0, <2>1 DEF ShareInv, InHand
  <2>2. CASE e # d
    BY <1>3, <1>7, <2>0, <2>2 DEF ShareInv, InHand
  <2> QED  BY <2>1, <2>2
<1>10. \A t \in Shares : Untouched(t)' <=> Untouched(t)
  BY <1>2, <1>3 DEF Untouched
<1>11. Kept'
  BY <1>2, <1>7, <1>10 DEF ShareInv, Kept
<1> QED  BY <1>4, <1>5, <1>6, <1>8, <1>9, <1>11 DEF ShareInv

\* A revocation makes its share one nothing more is said of.
LEMMA ShareRevokeBegins ==
  ASSUME ShareInv, NEW r \in Revokers, Sharing!LoadRecord(r), UNCHANGED <<now, creator, deleter>>
  PROVE  ShareInv'
<1>1. PICK s \in Shares, pc \in {"marker", "record"} :
        /\ revoked' = revoked \cup {s} /\ revoker' = [revoker EXCEPT ![r] = [pc |-> pc, share |-> s]]
        /\ UNCHANGED <<object, record, marker, orphaned, misread>>
  BY DEF Sharing!LoadRecord, Sharing!bucket
<1>2. ShareTypes'
  BY <1>1 DEF ShareInv, ShareTypes
<1>3. Creations' /\ Deletions' /\ Revocations'
  BY <1>1 DEF ShareInv, ShareTypes, Creations, Deletions, Revocations, Handles
<1>4. Findable' /\ InHand'
  BY <1>1 DEF ShareInv, Findable, InHand, Taken
<1>5. Kept'
  BY <1>1 DEF ShareInv, Kept, Untouched, Handles
<1> QED  BY <1>2, <1>3, <1>4, <1>5 DEF ShareInv

\* Every step of a revocation keeps the invariant.
LEMMA ShareRevokes ==
  ASSUME ShareInv, NEW r \in Revokers, Sharing!RevokeCall(r), UNCHANGED <<now, creator, deleter>>
  PROVE  ShareInv'
<1> USE ShareConstants
<1> DEFINE s == revoker[r].share
<1>1. PICK pc \in {"record", "revoked", "error"} :
        /\ revoker' = [revoker EXCEPT ![r].pc = pc]
        /\ marker' \in {marker, [marker EXCEPT ![s] = None]}
        /\ record' \in {record, [record EXCEPT ![s] = None]}
  BY DEF Sharing!RevokeCall, Sharing!Done, Sharing!Broken
<1>2. s \in revoked /\ revoked \subseteq Shares /\ UNCHANGED <<object, orphaned, misread, revoked>>
  BY DEF Sharing!RevokeCall, ShareInv, ShareTypes, Revocations
<1> HIDE DEF s
<1>3. /\ marker'[s] \in {None, marker[s]} /\ record'[s] \in {None, record[s]}
      /\ \A t \in Shares : t # s => marker'[t] = marker[t] /\ record'[t] = record[t]
  BY <1>1, <1>2 DEF ShareInv, ShareTypes
<1>4. ShareTypes'
  <2>1. marker' \in [Shares -> Sharing!Bodies \cup {None}] /\ record' \in [Shares -> Sharing!Bodies \cup {None}]
    BY <1>1 DEF ShareInv, ShareTypes
  <2>2. revoker' \in [Revokers -> [pc : {"idle", "marker", "record", "revoked", "error"},
                                   share : Shares \cup {None}]]
    BY <1>1 DEF ShareInv, ShareTypes
  <2> QED  BY <1>2, <2>1, <2>2 DEF ShareInv, ShareTypes
<1>5. Creations' /\ Deletions'
  BY <1>2, <1>3 DEF ShareInv, Creations, Deletions, Handles
<1>6. Revocations'
  <2>1. \A q \in Revokers : revoker'[q].share = revoker[q].share /\ (q # r => revoker'[q] = revoker[q])
    BY <1>1 DEF ShareInv, ShareTypes
  <2> QED  BY <1>2, <2>1 DEF ShareInv, Revocations, s
<1>7. \A t \in Shares : Taken(t)' <=> Taken(t)
  BY DEF Taken
<1>8. Findable'
  BY <1>2, <1>3, <1>7 DEF ShareInv, Findable
<1>9. InHand'
  <2> SUFFICES ASSUME NEW e \in Deleters, deleter[e].pc \in {"next", "marker", "record", "deleted"},
                      NEW t \in deleter[e].before \ (orphaned \cup revoked), record'[t] # None
               PROVE  \/ t \in deleter[e].todo
                      \/ deleter[e].pc = "marker" /\ deleter[e].share = t
                      \/ Taken(t)'
    BY <1>2 DEF InHand
  <2>1. t \in Shares /\ t # s
    BY <1>2 DEF ShareInv, ShareTypes, DeletionRecs
  <2> QED  BY <1>3, <1>7, <2>1 DEF ShareInv, InHand
<1>10. Kept'
  BY <1>2, <1>3 DEF ShareInv, Kept, Untouched, Handles
<1> QED  BY <1>4, <1>5, <1>6, <1>8, <1>9, <1>10 DEF ShareInv

\* Every step of creations, deletions and revocations keeps the invariant.
LEMMA ShareSteps ==
  ASSUME ShareInv, [Sharing!Next]_(Sharing!vars) PROVE ShareInv'
<1>1. CASE Sharing!Tick
  BY <1>1, ShareTick
<1>2. ASSUME NEW s \in Shares, Sharing!Create(s) PROVE ShareInv'
  BY <1>2, ShareRecordPut, ShareMarkerPut, ShareUndone DEF Sharing!Create, Sharing!history
<1>3. ASSUME NEW d \in Deleters, Sharing!Delete(d) PROVE ShareInv'
  BY <1>3, ShareListed, ShareLoaded, ShareMarkerDeleted, ShareRecordDeleted, ShareObjectDeleted
  DEF Sharing!Delete
<1>4. ASSUME NEW r \in Revokers, Sharing!Revoke(r) PROVE ShareInv'
  BY <1>4, ShareRevokeBegins, ShareRevokes DEF Sharing!Revoke
<1>5. CASE UNCHANGED Sharing!vars
  BY <1>5 DEF Sharing!vars, Sharing!bucket, Sharing!history,
     ShareInv, ShareTypes, Creations, Deletions, Revocations, Findable, InHand, Kept, Untouched,
     Handles, Taken
<1> QED  BY <1>1, <1>2, <1>3, <1>4, <1>5 DEF Sharing!Next

\* The invariant says what the run checks.
LEMMA ShareDecides ==
  ASSUME ShareInv PROVE Sharing!NoShareSurvives /\ Sharing!OthersKeepTheirs
<1>1. Sharing!NoShareSurvives
  BY DEF ShareInv, InHand, Deletions, Taken, Sharing!NoShareSurvives, Sharing!Resolves
<1>2. Sharing!OthersKeepTheirs
  BY DEF ShareInv, Kept, Untouched, Sharing!OthersKeepTheirs
<1> QED  BY <1>1, <1>2

\* Deleting an object ends its older shares, all but those another deletion is
\* about to delete or failed to delete, and leaves the shares of other objects,
\* for any shares, objects, deletions and revocations under way at once
\* (deleteObjectAndShares, deleteSharesForObject).
THEOREM DeletionsAlwaysExact == MCSpec => []DeletionIsExact
<1> DEFINE Inv == scene = "share" => ShareInv
<1>1. MCInit => Inv
  BY ShareBegins DEF MCInit
<1>2. Inv /\ [MCNext]_allVars => Inv'
  <2>1. ASSUME scene' = "share", [MCNext]_allVars PROVE scene = "share" /\ [Sharing!Next]_(Sharing!vars)
    <3> USE DEF Creating, Deleting, Revoking, ShareScene, Sharing!Next
    <3>1. CASE UNCHANGED allVars
      BY <2>1, <3>1 DEF allVars, shareVars, Sharing!vars, Sharing!bucket, Sharing!history
    <3>2. CASE Creating /\ \E s \in Shares : Sharing!PutRecord(s) \/ Sharing!PutMarker(s) \/ Sharing!Undo(s)
      BY <3>2 DEF Sharing!Create, Sharing!history
    <3>3. CASE Deleting /\ \E d \in Deleters :
                 \/ Sharing!ListMarkers(d) \/ Sharing!LoadMarker(d) \/ Sharing!DeleteMarker(d)
                 \/ Sharing!DeleteRecord(d) \/ Sharing!DeleteObject(d)
      BY <3>3 DEF Sharing!Delete
    <3>4. CASE Revoking /\ \E r \in Revokers : Sharing!LoadRecord(r) \/ Sharing!RevokeCall(r)
      BY <3>4 DEF Sharing!Revoke
    <3> QED  BY <2>1, <3>1, <3>2, <3>3, <3>4
             DEF MCNext, IntakeScene, FanoutScene, ArchiveScene, MediaScene, SearchScene,
                 AccessScene, AuditScene
  <2> QED  BY <2>1, ShareSteps
<1>3. Inv => DeletionIsExact
  BY ShareDecides DEF DeletionIsExact
<1> QED  BY <1>1, <1>2, <1>3, PTL DEF MCSpec

(***************************************************************************)
(* The goroutines of an upload (UploadFanout).                             *)
(***************************************************************************)
CopyStates ==
    [pc : {"read", "write", "close", "wait", "inspect", "scan", "prepare", "copy", "accepted", "failed"},
     sent : Nat, at : 1..3, error : {"none", "body", "pipe"}]

FanoutTypes ==
    /\ Fanout!TypeOK
    /\ copy.at <= Len(Fanout!Writers(upload))

\* How far the body is in the pipe of the PUT.
Flowing ==
    /\ copy.sent <= upload.chunks
    /\ copy.pc = "write" => copy.sent < upload.chunks
    /\ copy.error = "none" =>
         readers["s3"].taken =
            copy.sent + (IF copy.pc = "write" /\ copy.at > 1 THEN 1 ELSE 0)
    /\ copy.pc \in {"read", "write"} => copy.error = "none"
    /\ copy.pc \notin {"read", "write"} /\ copy.error = "none" => copy.sent = upload.chunks
    /\ pipe = (IF copy.pc \in {"read", "write", "close"} THEN "open"
               ELSE IF copy.error = "none" THEN "eof" ELSE "broken")

Ended ==
    /\ \A s \in Fanout!Sinks : readers[s].stopped <=> readers[s].result # "none"
    /\ readers["s3"].result # "rejected"

\* What the handler has waited for.
Waited ==
    /\ copy.pc \in {"inspect", "scan", "prepare", "copy", "accepted", "failed"} =>
         readers["s3"].stopped
    /\ copy.pc \in {"inspect", "scan", "prepare", "copy", "accepted"} => Fanout!CopyPassed
    /\ copy.pc \in {"prepare", "copy", "accepted"} /\ upload.side = "scan" =>
         readers["scan"].result = "ok"

Passed ==
    Fanout!CopyPassed /\ (upload.side = "scan" => readers["scan"].result = "ok")

\* The objects are absent or whole; a staged one is copied when all has passed.
Whole ==
    /\ \A o \in {"temp", "final"} : objects[o] \in {-1, upload.chunks}
    /\ Fanout!Staged(upload) /\ objects["final"] # -1 => Passed /\ copy.pc \in {"accepted", "failed"}
    /\ Fanout!Staged(upload) /\ readers["s3"].result = "ok" /\ copy.pc \notin {"accepted", "failed"} =>
         objects["temp"] = upload.chunks

\* Without a fault it is the full scan that breaks the pipes, if anything does.
Undisturbed ==
    faults = 0 =>
        /\ copy.error # "none" => readers["scan"].result = "rejected"
        /\ \A s \in {"s3", "av"} :
             /\ readers[s].stopped => pipe # "open"
             /\ readers[s].result = "failed" => readers["scan"].result = "rejected"
        /\ readers["scan"].result # "failed"
        /\ readers["scan"].stopped /\ pipe = "open" => readers["scan"].result = "rejected"
        /\ readers["thumb"].stopped => pipe # "open"

FanoutInv ==
    /\ FanoutTypes /\ Flowing /\ Ended /\ Waited /\ Whole /\ Undisturbed
    /\ Fanout!ThumbnailIsOptional

-----------------------------------------------------------------------------
\* The parameters the proofs about the copy of a body use.
LEMMA FanoutConstants ==
  Chunks \subseteq Nat /\ ScanLimit \in Nat /\ FanoutFaults \in Nat
BY RequestsAssumption DEF Fanout!FanoutAssumption

\* The pipes of a body, the one of the PUT first.
LEMMA WritersInOrder ==
  ASSUME NEW u \in Fanout!Inputs
  PROVE  /\ Len(Fanout!Writers(u)) \in 1..3 /\ Fanout!Writers(u)[1] = "s3"
         /\ \A i \in 2..Len(Fanout!Writers(u)) : Fanout!Writers(u)[i] \in Fanout!Sinks \ {"s3"}
         /\ "av" \in {Fanout!Writers(u)[i] : i \in 1..Len(Fanout!Writers(u))} => u.clamav
         /\ \A side \in {"thumb", "scan"} :
              side \in {Fanout!Writers(u)[i] : i \in 1..Len(Fanout!Writers(u))} => u.side = side
<1>1. u.clamav \in BOOLEAN /\ u.side \in {"none", "thumb", "scan"}
  BY DEF Fanout!Inputs
<1>2. CASE u.clamav /\ u.side = "none"
  BY <1>2 DEF Fanout!Writers, Fanout!Sinks
<1>3. CASE ~u.clamav /\ u.side = "none"
  BY <1>3 DEF Fanout!Writers, Fanout!Sinks
<1>4. CASE u.clamav /\ u.side \in {"thumb", "scan"}
  BY <1>4 DEF Fanout!Writers, Fanout!Sinks
<1>5. CASE ~u.clamav /\ u.side \in {"thumb", "scan"}
  BY <1>5 DEF Fanout!Writers, Fanout!Sinks
<1> QED  BY <1>1, <1>2, <1>3, <1>4, <1>5

\* An upload begins with its pipes open and nothing stored.
LEMMA FanoutBegins ==
  ASSUME Fanout!Init PROVE FanoutInv
<1> USE FanoutConstants DEF Fanout!Init
<1>1. FanoutTypes
  BY WritersInOrder DEF FanoutTypes, Fanout!TypeOK, CopyStates, Fanout!Sinks, Fanout!Running, Fanout!Absent
<1>2. Flowing
  <2>1. upload.chunks \in Nat /\ readers["s3"].taken = 0
    BY DEF Fanout!Inputs, Fanout!Running, Fanout!Sinks
  <2> QED  BY <2>1 DEF Flowing
<1>3. Ended /\ Waited /\ Undisturbed
  BY DEF Ended, Waited, Undisturbed, Fanout!Running, Fanout!Sinks
<1>4. Whole
  BY DEF Whole, Fanout!Absent, Fanout!Running, Fanout!Sinks
<1>5. Fanout!ThumbnailIsOptional
  BY DEF Fanout!ThumbnailIsOptional
<1> QED  BY <1>1, <1>2, <1>3, <1>4, <1>5 DEF FanoutInv

\* What the steps of the copy leave as it was.
LEMMA CopyMoves ==
  ASSUME NEW c \in CopyStates
  PROVE  /\ LET x == [c EXCEPT !.pc = "write", !.at = 1] IN
            x \in CopyStates /\ x.pc = "write" /\ x.sent = c.sent /\ x.at = 1 /\ x.error = c.error
         /\ LET x == [c EXCEPT !.pc = "close", !.error = "body"] IN
            x \in CopyStates /\ x.pc = "close" /\ x.sent = c.sent /\ x.at = c.at /\ x.error = "body"
         /\ LET x == [c EXCEPT !.pc = "close", !.error = "pipe"] IN
            x \in CopyStates /\ x.pc = "close" /\ x.sent = c.sent /\ x.at = c.at /\ x.error = "pipe"
         /\ LET x == [c EXCEPT !.pc = "read", !.sent = @ + 1] IN
            x \in CopyStates /\ x.pc = "read" /\ x.sent = c.sent + 1 /\ x.at = c.at /\ x.error = c.error
<1>1. ASSUME NEW x, x = [c EXCEPT !.pc = "write", !.at = 1]
      PROVE  x \in CopyStates /\ x.pc = "write" /\ x.sent = c.sent /\ x.at = 1 /\ x.error = c.error
  <2>1. [c EXCEPT !.pc = "write", !.at = 1] \in CopyStates
    <3>1. ASSUME NEW a \in 1..3 PROVE [c EXCEPT !.pc = "write", !.at = a] \in CopyStates
      BY DEF CopyStates
    <3> QED  BY <3>1
  <2>2. x.pc = "write"
    BY <1>1 DEF CopyStates
  <2>3. x.sent = c.sent
    BY <1>1 DEF CopyStates
  <2>4. x.at = 1
    BY <1>1 DEF CopyStates
  <2>5. x.error = c.error
    BY <1>1 DEF CopyStates
  <2> QED  BY <1>1, <2>1, <2>2, <2>3, <2>4, <2>5
<1>2. ASSUME NEW x, x = [c EXCEPT !.pc = "close", !.error = "body"]
      PROVE  x \in CopyStates /\ x.pc = "close" /\ x.sent = c.sent /\ x.at = c.at /\ x.error = "body"
  <2>1. [c EXCEPT !.pc = "close", !.error = "body"] \in CopyStates
    BY DEF CopyStates
  <2>2. x.pc = "close"
    BY <1>2 DEF CopyStates
  <2>3. x.sent = c.sent
    BY <1>2 DEF CopyStates
  <2>4. x.at = c.at
    BY <1>2 DEF CopyStates
  <2>5. x.error = "body"
    BY <1>2 DEF CopyStates
  <2> QED  BY <1>2, <2>1, <2>2, <2>3, <2>4, <2>5
<1>3. ASSUME NEW x, x = [c EXCEPT !.pc = "close", !.error = "pipe"]
      PROVE  x \in CopyStates /\ x.pc = "close" /\ x.sent = c.sent /\ x.at = c.at /\ x.error = "pipe"
  <2>1. [c EXCEPT !.pc = "close", !.error = "pipe"] \in CopyStates
    BY DEF CopyStates
  <2>2. x.pc = "close"
    BY <1>3 DEF CopyStates
  <2>3. x.sent = c.sent
    BY <1>3 DEF CopyStates
  <2>4. x.at = c.at
    BY <1>3 DEF CopyStates
  <2>5. x.error = "pipe"
    BY <1>3 DEF CopyStates
  <2> QED  BY <1>3, <2>1, <2>2, <2>3, <2>4, <2>5
<1>4. ASSUME NEW x, x = [c EXCEPT !.pc = "read", !.sent = @ + 1]
      PROVE  x \in CopyStates /\ x.pc = "read" /\ x.sent = c.sent + 1 /\ x.at = c.at /\ x.error = c.error
  <2>1. [c EXCEPT !.pc = "read", !.sent = @ + 1] \in CopyStates
    <3>1. ASSUME NEW a \in Nat PROVE [c EXCEPT !.pc = "read", !.sent = a] \in CopyStates
      BY DEF CopyStates
    <3>2. c.sent + 1 \in Nat
      BY DEF CopyStates
    <3> QED  BY <3>1, <3>2
  <2>2. x.pc = "read"
    BY <1>4 DEF CopyStates
  <2>3. x.sent = c.sent + 1
    BY <1>4 DEF CopyStates
  <2>4. x.at = c.at
    BY <1>4 DEF CopyStates
  <2>5. x.error = c.error
    BY <1>4 DEF CopyStates
  <2> QED  BY <1>4, <2>1, <2>2, <2>3, <2>4, <2>5
<1> QED  BY <1>1, <1>2, <1>3, <1>4

\* The next part of the body is read, or the body ends or breaks off.
LEMMA FanoutRead ==
  ASSUME FanoutInv, Fanout!ReadBody PROVE FanoutInv'
<1> USE FanoutConstants
<1>0. copy \in CopyStates
  BY DEF FanoutInv, FanoutTypes, Fanout!TypeOK, CopyStates
<1>1. copy.pc = "read" /\ UNCHANGED <<upload, pipe, readers, objects>>
  BY DEF Fanout!ReadBody
<1>2. /\ copy'.sent = copy.sent /\ copy'.at \in {1, copy.at}
      /\ \/ copy.sent < upload.chunks /\ copy'.pc = "write" /\ copy'.at = 1 /\ copy'.error = copy.error
           /\ faults' = faults
         \/ copy.sent = upload.chunks /\ copy'.pc = "close" /\ copy'.error = copy.error /\ faults' = faults
         \/ copy'.pc = "close" /\ copy'.error = "body" /\ faults < FanoutFaults /\ faults' = faults + 1
      /\ copy' \in CopyStates
  <2>1. CASE copy.sent < upload.chunks /\ copy' = [copy EXCEPT !.pc = "write", !.at = 1] /\ faults' = faults
    BY <2>1, CopyMoves, <1>0, Zenon
  <2>2. CASE copy.sent = upload.chunks /\ copy' = [copy EXCEPT !.pc = "close"] /\ faults' = faults
    BY <2>2 DEF FanoutInv, FanoutTypes, Fanout!TypeOK, CopyStates
  <2>3. CASE Fanout!Fault /\ copy' = [copy EXCEPT !.pc = "close", !.error = "body"]
    BY <2>3, CopyMoves, <1>0, Zenon DEF Fanout!Fault
  <2> QED  BY <2>1, <2>2, <2>3 DEF Fanout!ReadBody
<1>3. FanoutTypes'
  BY <1>1, <1>2, WritersInOrder DEF FanoutInv, FanoutTypes, Fanout!TypeOK, CopyStates
<1>4. Flowing'
  BY <1>1, <1>2 DEF FanoutInv, FanoutTypes, Fanout!TypeOK, CopyStates, Flowing, Fanout!Inputs
<1>5. Ended' /\ Waited'
  BY <1>1, <1>2 DEF FanoutInv, Ended, Waited
<1>6. Whole'
  BY <1>1, <1>2 DEF FanoutInv, Whole
<1>7. Undisturbed' /\ Fanout!ThumbnailIsOptional'
  BY <1>1, <1>2 DEF FanoutInv, FanoutTypes, Fanout!TypeOK, CopyStates, Flowing, Undisturbed,
     Fanout!ThumbnailIsOptional
<1> QED  BY <1>3, <1>4, <1>5, <1>6, <1>7 DEF FanoutInv

\* A chunk is taken by the next reader, or that one has closed its end.
LEMMA FanoutWrite ==
  ASSUME FanoutInv, Fanout!WriteChunk PROVE FanoutInv'
<1> USE FanoutConstants
<1> DEFINE n == Len(Fanout!Writers(upload))
<1>0. copy \in CopyStates
  BY DEF FanoutInv, FanoutTypes, Fanout!TypeOK, CopyStates
<1>1. copy.pc = "write" /\ UNCHANGED <<upload, pipe, objects, faults>>
  BY DEF Fanout!WriteChunk
<1>2. PICK sink \in Fanout!Sinks :
        /\ sink = Fanout!Writers(upload)[copy.at] /\ (sink = "s3" <=> copy.at = 1)
        /\ n \in 1..3 /\ copy.at \in 1..n /\ upload \in Fanout!Inputs
  <2>1. upload \in Fanout!Inputs /\ copy.at \in 1..3 /\ copy.at <= n
    BY DEF FanoutInv, FanoutTypes, Fanout!TypeOK, CopyStates
  <2>2. n \in 1..3 /\ copy.at \in 1..n
    BY <2>1, WritersInOrder
  <2> QED  BY <2>1, <2>2, WritersInOrder DEF Fanout!Sinks
<1>3. CASE readers[sink].stopped
  <2>1. /\ copy'.pc = "close" /\ copy'.error = "pipe" /\ copy'.sent = copy.sent /\ copy'.at = copy.at
        /\ UNCHANGED readers
        /\ copy' \in CopyStates
    BY <1>2, <1>3 DEF Fanout!WriteChunk, FanoutInv, FanoutTypes, Fanout!TypeOK, CopyStates
  <2>2. FanoutTypes' /\ Flowing'
    BY <1>1, <2>1 DEF FanoutInv, FanoutTypes, Fanout!TypeOK, CopyStates, Flowing
  <2>3. Ended' /\ Waited' /\ Whole'
    BY <1>1, <2>1 DEF FanoutInv, Ended, Waited, Whole
  <2>4. pipe = "open"
    BY <1>1 DEF FanoutInv, Flowing
  <2>5. Undisturbed' /\ Fanout!ThumbnailIsOptional'
    BY <1>1, <1>3, <2>1, <2>4 DEF FanoutInv, Undisturbed, Fanout!Sinks, Fanout!ThumbnailIsOptional
  <2> QED  BY <2>2, <2>3, <2>5 DEF FanoutInv
<1>4. CASE ~readers[sink].stopped
  <2>1. /\ readers' = [readers EXCEPT ![sink].taken = @ + 1]
        /\ copy' = IF copy.at < n THEN [copy EXCEPT !.at = @ + 1]
                   ELSE [copy EXCEPT !.pc = "read", !.sent = @ + 1]
    BY <1>2, <1>4 DEF Fanout!WriteChunk
  <2>2. /\ readers' \in [Fanout!Sinks -> [stopped : BOOLEAN, taken : Nat,
                                          result : {"none", "ok", "rejected", "failed"}]]
        /\ \A s \in Fanout!Sinks : readers'[s].stopped = readers[s].stopped
             /\ readers'[s].result = readers[s].result
        /\ readers'[sink].taken = readers[sink].taken + 1
        /\ \A s \in Fanout!Sinks : s # sink => readers'[s].taken = readers[s].taken
    BY <2>1 DEF FanoutInv, FanoutTypes, Fanout!TypeOK, CopyStates
  <2>3. /\ copy'.error = copy.error
        /\ \/ copy.at < n /\ copy'.at = copy.at + 1 /\ copy'.pc = "write" /\ copy'.sent = copy.sent
           \/ copy.at = n /\ copy'.at = copy.at /\ copy'.pc = "read" /\ copy'.sent = copy.sent + 1
        /\ copy' \in CopyStates
    <3>1. CASE copy.at < n
      <4>0. copy' = [copy EXCEPT !.at = @ + 1]
        BY <2>1, <3>1
      <4> HIDE DEF n
      <4>5. copy.at \in 1..3 /\ copy.at + 1 \in 1..3
        BY <1>2, <3>1
      <4>1. copy' = [copy EXCEPT !.at = copy.at + 1] /\ copy.at \in 1..3 /\ copy.at + 1 \in 1..3
        BY <4>0, <4>5, Zenon
      <4>2. copy'.at = copy.at + 1 /\ copy'.pc = "write" /\ copy'.sent = copy.sent /\ copy'.error = copy.error
        BY <1>0, <1>1, <4>1 DEF CopyStates
      <4>3. [copy EXCEPT !.at = copy.at + 1] \in CopyStates
        BY <1>0, <4>1 DEF CopyStates
      <4> QED  BY <3>1, <4>1, <4>2, <4>3
    <3>2. CASE ~(copy.at < n)
      <4>1. copy' = [copy EXCEPT !.pc = "read", !.sent = @ + 1] /\ copy.at = n
        BY <1>2, <2>1, <3>2
      <4> QED  BY <1>0, <4>1, CopyMoves, Zenon
    <3> QED  BY <3>1, <3>2
  <2>4. FanoutTypes'
    BY <1>1, <1>2, <2>2, <2>3 DEF FanoutInv, FanoutTypes, Fanout!TypeOK, CopyStates
  <2>5. readers'["s3"].taken = IF copy.at = 1 THEN readers["s3"].taken + 1 ELSE readers["s3"].taken
    BY <1>2, <2>2 DEF Fanout!Sinks
  <2>6. Flowing'
    <3>1. /\ copy.sent \in Nat /\ upload.chunks \in Nat /\ readers["s3"].taken \in Nat
               /\ copy.sent < upload.chunks
          /\ copy.error = "none" => readers["s3"].taken = copy.sent + (IF copy.at > 1 THEN 1 ELSE 0)
          /\ copy.error = "none" /\ pipe = "open"
      BY <1>1, <1>2 DEF FanoutInv, FanoutTypes, Fanout!TypeOK, CopyStates, Flowing, Fanout!Sinks,
         Fanout!Inputs
    <3>2. copy.at \in 1..3 /\ n \in 1..3 /\ copy.at <= n
      BY <1>2
    <3> HIDE DEF n
    <3>3. CASE copy.at < n
      <4>1. copy'.error = copy.error /\ copy'.at = copy.at + 1 /\ copy'.pc = "write" /\ copy'.sent = copy.sent
        BY <2>3, <3>2, <3>3
      <4>2. copy'.at > 1 /\ readers'["s3"].taken = copy.sent + 1
        BY <2>5, <3>1, <3>2, <4>1
      <4> QED  BY <1>1, <3>1, <4>1, <4>2 DEF Flowing
    <3>4. CASE copy.at = n
      <4>1. copy'.error = copy.error /\ copy'.pc = "read" /\ copy'.sent = copy.sent + 1
        BY <2>3, <3>2, <3>4
      <4>2. readers'["s3"].taken = copy.sent + 1
        BY <2>5, <3>1, <3>2
      <4> QED  BY <1>1, <3>1, <4>1, <4>2 DEF Flowing
    <3> QED  BY <3>2, <3>3, <3>4
  <2>7. Ended' /\ Waited'
    BY <1>1, <2>2, <2>3 DEF FanoutInv, Ended, Waited, Fanout!Sinks
  <2>8. Whole'
    BY <1>1, <2>2, <2>3 DEF FanoutInv, Whole, Fanout!Sinks
  <2>9. Undisturbed' /\ Fanout!ThumbnailIsOptional'
    BY <1>1, <2>2, <2>3 DEF FanoutInv, Undisturbed, Fanout!Sinks, Fanout!ThumbnailIsOptional
  <2> QED  BY <2>4, <2>6, <2>7, <2>8, <2>9 DEF FanoutInv
<1> QED  BY <1>3, <1>4

\* The pipes are closed, or broken for all.
LEMMA FanoutClose ==
  ASSUME FanoutInv, Fanout!ClosePipes PROVE FanoutInv'
<1> USE FanoutConstants
<1>1. copy.pc = "close" /\ UNCHANGED <<upload, readers, objects, faults>>
  BY DEF Fanout!ClosePipes
<1>2. /\ copy'.pc = "wait" /\ copy'.sent = copy.sent /\ copy'.at = copy.at /\ copy'.error = copy.error
      /\ copy' \in CopyStates
      /\ pipe' = IF copy.error = "none" THEN "eof" ELSE "broken"
  BY DEF Fanout!ClosePipes, Fanout!LeftPipe, FanoutInv, FanoutTypes, Fanout!TypeOK, CopyStates
<1>3. FanoutTypes' /\ Flowing'
  BY <1>1, <1>2 DEF FanoutInv, FanoutTypes, Fanout!TypeOK, CopyStates, Flowing
<1>4. Ended' /\ Waited' /\ Whole'
  BY <1>1, <1>2 DEF FanoutInv, Ended, Waited, Whole
<1>5. Undisturbed' /\ Fanout!ThumbnailIsOptional'
  BY <1>1, <1>2 DEF FanoutInv, Undisturbed, Fanout!ThumbnailIsOptional
<1> QED  BY <1>3, <1>4, <1>5 DEF FanoutInv

ReaderStates == [stopped : BOOLEAN, taken : Nat, result : {"none", "ok", "rejected", "failed"}]

\* A goroutine that ends leaves the others as they were.
LEMMA ReaderStops ==
  ASSUME FanoutInv, NEW sink \in Fanout!Sinks, NEW result \in {"ok", "rejected", "failed"},
         Fanout!Stop(sink, result)
  PROVE  /\ readers' \in [Fanout!Sinks -> ReaderStates]
         /\ readers'[sink].stopped /\ readers'[sink].result = result
         /\ \A s \in Fanout!Sinks : readers'[s].taken = readers[s].taken
         /\ \A s \in Fanout!Sinks : s # sink => readers'[s] = readers[s]
<1>1. readers \in [Fanout!Sinks -> ReaderStates]
  BY DEF FanoutInv, FanoutTypes, Fanout!TypeOK, ReaderStates
<1>2. readers' = [readers EXCEPT ![sink].stopped = TRUE, ![sink].result = result]
  BY DEF Fanout!Stop
<1>3. \A s \in Fanout!Sinks : s # sink => readers'[s] = readers[s]
  BY <1>1, <1>2
<1>4. readers'[sink].stopped /\ readers'[sink].result = result
  BY <1>1, <1>2 DEF ReaderStates
<1>5. readers'[sink].taken = readers[sink].taken
  BY <1>1, <1>2 DEF ReaderStates
<1>6. readers' \in [Fanout!Sinks -> ReaderStates]
  BY <1>1, <1>2 DEF ReaderStates
<1> QED  BY <1>3, <1>4, <1>5, <1>6

\* A reader other than the PUT ends; without a fault only the full scan ends
\* before the pipes are closed, and then it has rejected the body.
LEMMA FanoutStops ==
  ASSUME FanoutInv, NEW sink \in {"av", "thumb", "scan"}, NEW result \in {"ok", "rejected", "failed"},
         Fanout!Stop(sink, result), ~readers[sink].stopped, UNCHANGED <<upload, copy, pipe, objects>>,
         faults' \in {faults, faults + 1}, faults' <= FanoutFaults,
         faults' = 0 =>
            /\ sink # "scan" => pipe # "open"
            /\ sink = "av" /\ result = "failed" => readers["scan"].result = "rejected"
            /\ sink = "scan" => result # "failed" /\ (pipe = "open" => result = "rejected")
  PROVE  FanoutInv'
<1> USE FanoutConstants
<1>0. sink \in Fanout!Sinks /\ sink # "s3" /\ readers[sink].result = "none"
  BY DEF FanoutInv, Ended, Fanout!Sinks
<1>1. /\ readers' \in [Fanout!Sinks -> ReaderStates]
      /\ readers'[sink].stopped /\ readers'[sink].result = result
      /\ readers'["s3"] = readers["s3"]
      /\ \A s \in Fanout!Sinks : s # sink => readers'[s] = readers[s]
  BY <1>0, ReaderStops DEF Fanout!Sinks
<1>2. faults \in Nat /\ faults' \in Nat /\ (faults' = 0 => faults = 0)
  BY DEF FanoutInv, FanoutTypes, Fanout!TypeOK
<1>3. FanoutTypes'
  BY <1>1, <1>2 DEF FanoutInv, FanoutTypes, Fanout!TypeOK, ReaderStates
<1>4. Flowing'
  BY <1>1 DEF FanoutInv, Flowing
<1>5. Ended'
  BY <1>1 DEF FanoutInv, Ended
<1>6. /\ Fanout!CopyPassed => Fanout!CopyPassed'
      /\ Passed => Passed'
  BY <1>0, <1>1, WritersInOrder DEF Fanout!CopyPassed, Passed, Fanout!Sinks
<1>7. Waited'
  BY <1>0, <1>1, <1>6 DEF FanoutInv, Waited, Fanout!Sinks
<1>8. Whole'
  BY <1>1, <1>6 DEF FanoutInv, Whole
<1>9. Undisturbed'
  <2> SUFFICES ASSUME faults' = 0
               PROVE  /\ copy.error # "none" => readers'["scan"].result = "rejected"
                      /\ \A s \in {"s3", "av"} :
                           /\ readers'[s].stopped => pipe # "open"
                           /\ readers'[s].result = "failed" => readers'["scan"].result = "rejected"
                      /\ readers'["scan"].result # "failed"
                      /\ readers'["scan"].stopped /\ pipe = "open" => readers'["scan"].result = "rejected"
                      /\ readers'["thumb"].stopped => pipe # "open"
    BY DEF Undisturbed
  <2>1. readers["scan"].result = "rejected" => readers'["scan"].result = "rejected"
    BY <1>0, <1>1 DEF Fanout!Sinks
  <2>2. /\ copy.error # "none" => readers["scan"].result = "rejected"
        /\ \A s \in {"s3", "av"} :
             /\ readers[s].stopped => pipe # "open"
             /\ readers[s].result = "failed" => readers["scan"].result = "rejected"
        /\ readers["scan"].result # "failed"
        /\ readers["scan"].stopped /\ pipe = "open" => readers["scan"].result = "rejected"
        /\ readers["thumb"].stopped => pipe # "open"
    BY <1>2 DEF FanoutInv, Undisturbed
  <2>3. CASE sink = "av"
    BY <1>1, <2>2, <2>3 DEF Fanout!Sinks
  <2>4. CASE sink = "thumb"
    BY <1>1, <2>2, <2>4 DEF Fanout!Sinks
  <2>5. CASE sink = "scan"
    BY <1>0, <1>1, <2>1, <2>2, <2>5 DEF Fanout!Sinks
  <2> QED  BY <2>3, <2>4, <2>5
<1>10. Fanout!ThumbnailIsOptional'
  BY <1>0, <1>1, <1>2 DEF FanoutInv, Fanout!ThumbnailIsOptional, Fanout!Sinks
<1> QED  BY <1>3, <1>4, <1>5, <1>7, <1>8, <1>9, <1>10 DEF FanoutInv

\* The virus scan ends, of itself or by a fault, without holding the others up.
LEMMA FanoutVirus ==
  ASSUME FanoutInv, Fanout!ScanVirus PROVE FanoutInv'
<1> USE FanoutConstants
<1>1. ~readers["av"].stopped /\ UNCHANGED <<upload, copy, pipe, objects>>
  BY DEF Fanout!ScanVirus, Fanout!Listening
<1>2. faults \in 0..FanoutFaults
  BY DEF FanoutInv, FanoutTypes, Fanout!TypeOK
<1>3. CASE Fanout!Fault /\ Fanout!Stop("av", "failed")
  BY <1>1, <1>2, <1>3, FanoutStops DEF Fanout!Fault
<1>4. CASE pipe = "broken" /\ Fanout!Stop("av", "failed") /\ UNCHANGED faults
  <2>1. faults = 0 => readers["scan"].result = "rejected"
    BY <1>4 DEF FanoutInv, Flowing, Undisturbed
  <2> QED  BY <1>1, <1>2, <1>4, <2>1, FanoutStops
<1>5. CASE pipe = "eof" /\ UNCHANGED faults /\ \E result \in {"ok", "rejected"} : Fanout!Stop("av", result)
  BY <1>1, <1>2, <1>5, FanoutStops
<1> QED  BY <1>3, <1>4, <1>5 DEF Fanout!ScanVirus

\* The full scan ends; only it breaks a pipe that nothing disturbs.
LEMMA FanoutDocument ==
  ASSUME FanoutInv, Fanout!ScanDocument PROVE FanoutInv'
<1> USE FanoutConstants
<1>1. ~readers["scan"].stopped /\ UNCHANGED <<upload, copy, pipe, objects, faults>>
  BY DEF Fanout!ScanDocument, Fanout!Listening
<1>2. faults \in 0..FanoutFaults
  BY DEF FanoutInv, FanoutTypes, Fanout!TypeOK
<1>3. PICK result \in {"ok", "rejected", "failed"} :
        /\ Fanout!Stop("scan", result)
        /\ result = "failed" => pipe = "broken"
        /\ result = "ok" => pipe = "eof"
  BY DEF Fanout!ScanDocument
<1>4. pipe = "broken" => faults # 0
  BY <1>1 DEF FanoutInv, Flowing, Undisturbed, Ended, Fanout!Sinks
<1> QED  BY <1>1, <1>2, <1>3, <1>4, FanoutStops

\* The thumbnail ends when the pipes are closed, and nothing depends on it.
LEMMA FanoutConvert ==
  ASSUME FanoutInv, Fanout!Convert PROVE FanoutInv'
<1> USE FanoutConstants
<1>1. /\ ~readers["thumb"].stopped /\ pipe # "open" /\ UNCHANGED <<upload, copy, pipe, objects, faults>>
      /\ \E result \in {"ok", "failed"} : Fanout!Stop("thumb", result)
  BY DEF Fanout!Convert, Fanout!Listening, Fanout!Drained
<1>2. faults \in 0..FanoutFaults
  BY DEF FanoutInv, FanoutTypes, Fanout!TypeOK
<1> QED  BY <1>1, <1>2, FanoutStops

\* The PUT stores what it was given when the body has ended, and that is all of
\* the body.
LEMMA FanoutPut ==
  ASSUME FanoutInv, Fanout!Put PROVE FanoutInv'
<1> USE FanoutConstants
<1>1. ~readers["s3"].stopped /\ UNCHANGED <<upload, copy, pipe>>
  BY DEF Fanout!Put, Fanout!Listening
<1>2. PICK result \in {"ok", "failed"} :
        /\ Fanout!Stop("s3", result)
        /\ \/ objects' = objects /\ result = "failed"
           \/ pipe = "eof" /\ objects' = [objects EXCEPT ![Fanout!Target(upload)] = readers["s3"].taken]
        /\ result = "ok" => pipe = "eof"
        /\ faults' = faults => result = "ok" \/ pipe = "broken"
        /\ faults' = faults \/ (faults < FanoutFaults /\ faults' = faults + 1)
  <2>1. faults \in 0..FanoutFaults
    BY DEF FanoutInv, FanoutTypes, Fanout!TypeOK
  <2>2. CASE /\ pipe = "eof" /\ Fanout!Stop("s3", "ok")
             /\ objects' = [objects EXCEPT ![Fanout!Target(upload)] = readers["s3"].taken]
             /\ UNCHANGED faults
    BY <2>2
  <2>3. CASE /\ pipe = "eof" /\ Fanout!Fault /\ Fanout!Stop("s3", "failed")
             /\ objects' = [objects EXCEPT ![Fanout!Target(upload)] = readers["s3"].taken]
    BY <2>1, <2>3 DEF Fanout!Fault
  <2>4. CASE Fanout!Fault /\ Fanout!Stop("s3", "failed") /\ UNCHANGED objects
    BY <2>1, <2>4 DEF Fanout!Fault
  <2>5. CASE /\ pipe = "broken" /\ Fanout!Stop("s3", "failed")
             /\ UNCHANGED <<objects, faults>>
    BY <2>5
  <2> QED  BY <2>2, <2>3, <2>4, <2>5 DEF Fanout!Put
<1>3. /\ faults \in 0..FanoutFaults /\ faults' \in 0..FanoutFaults
      /\ faults' = 0 => faults = 0 /\ faults' = faults
      /\ readers["s3"].result = "none" /\ "s3" \in Fanout!Sinks
  BY <1>1, <1>2 DEF FanoutInv, FanoutTypes, Fanout!TypeOK, Ended, Fanout!Sinks
<1>4. /\ readers' \in [Fanout!Sinks -> ReaderStates]
      /\ readers'["s3"].stopped /\ readers'["s3"].result = result
      /\ readers'["s3"].taken = readers["s3"].taken
      /\ \A s \in Fanout!Sinks : s # "s3" => readers'[s] = readers[s]
  BY <1>2, <1>3, ReaderStops
<1>5. copy.pc \in {"read", "write", "close", "wait"}
  BY <1>1 DEF FanoutInv, FanoutTypes, Fanout!TypeOK, Waited
<1>6. pipe = "eof" => copy.error = "none" /\ readers["s3"].taken = upload.chunks
  BY <1>5 DEF FanoutInv, FanoutTypes, Fanout!TypeOK, Flowing, Fanout!Inputs
<1>7. upload.chunks \in Nat /\ objects \in [{"temp", "final"} -> Nat \cup {-1}]
      /\ Fanout!Target(upload) \in {"temp", "final"}
  BY DEF FanoutInv, FanoutTypes, Fanout!TypeOK, Fanout!Inputs, Fanout!Target, Fanout!Absent
<1>8. /\ objects' \in [{"temp", "final"} -> Nat \cup {-1}]
      /\ \A o \in {"temp", "final"} : objects'[o] \in {objects[o], upload.chunks}
      /\ Fanout!Staged(upload) => objects'["final"] = objects["final"]
      /\ Fanout!Staged(upload) /\ result = "ok" => objects'["temp"] = upload.chunks
  BY <1>2, <1>6, <1>7 DEF Fanout!Target
<1>9. FanoutTypes'
  BY <1>1, <1>3, <1>4, <1>8 DEF FanoutInv, FanoutTypes, Fanout!TypeOK, ReaderStates, Fanout!Absent
<1>10. Flowing'
  BY <1>1, <1>4 DEF FanoutInv, Flowing
<1>11. Ended'
  BY <1>4 DEF FanoutInv, Ended
<1>12. Waited'
  BY <1>1, <1>5 DEF Waited
<1>13. Whole'
  BY <1>1, <1>4, <1>5, <1>8 DEF FanoutInv, Whole
<1>14. Undisturbed'
  <2> SUFFICES ASSUME faults' = 0
               PROVE  /\ copy.error # "none" => readers'["scan"].result = "rejected"
                      /\ \A s \in {"s3", "av"} :
                           /\ readers'[s].stopped => pipe # "open"
                           /\ readers'[s].result = "failed" => readers'["scan"].result = "rejected"
                      /\ readers'["scan"].result # "failed"
                      /\ readers'["scan"].stopped /\ pipe = "open" => readers'["scan"].result = "rejected"
                      /\ readers'["thumb"].stopped => pipe # "open"
    BY <1>1 DEF Undisturbed
  <2>1. readers'["scan"] = readers["scan"] /\ readers'["av"] = readers["av"]
          /\ readers'["thumb"] = readers["thumb"]
    BY <1>4 DEF Fanout!Sinks
  <2>2. result = "ok" \/ pipe = "broken"
    BY <1>2, <1>3
  <2>3. pipe = "broken" => copy.error # "none"
    BY DEF FanoutInv, Flowing
  <2>4. /\ copy.error # "none" => readers["scan"].result = "rejected"
        /\ readers["av"].stopped => pipe # "open"
        /\ readers["av"].result = "failed" => readers["scan"].result = "rejected"
        /\ readers["scan"].result # "failed"
        /\ readers["scan"].stopped /\ pipe = "open" => readers["scan"].result = "rejected"
        /\ readers["thumb"].stopped => pipe # "open"
    BY <1>3 DEF FanoutInv, Undisturbed
  <2> QED  BY <1>2, <1>4, <2>1, <2>2, <2>3, <2>4
<1>15. Fanout!ThumbnailIsOptional'
  BY <1>1, <1>5 DEF Fanout!ThumbnailIsOptional
<1> QED  BY <1>9, <1>10, <1>11, <1>12, <1>13, <1>14, <1>15 DEF FanoutInv

\* The handler goes on to its next check, all others as they were.
LEMMA FanoutAdvances ==
  ASSUME FanoutInv, NEW pc \in {"inspect", "scan", "prepare", "copy", "accepted"},
         copy.pc \in {"wait", "inspect", "scan", "prepare"}, readers["s3"].stopped, Fanout!CopyPassed,
         pc \in {"prepare", "copy", "accepted"} /\ upload.side = "scan" => readers["scan"].result = "ok",
         copy' = [copy EXCEPT !.pc = pc], UNCHANGED <<upload, pipe, readers, objects, faults>>
  PROVE  FanoutInv'
<1>1. /\ copy' \in CopyStates /\ copy'.pc = pc
      /\ copy'.sent = copy.sent /\ copy'.at = copy.at /\ copy'.error = copy.error
  BY DEF FanoutInv, FanoutTypes, Fanout!TypeOK, CopyStates
<1>2. FanoutTypes' /\ Flowing'
  BY <1>1 DEF FanoutInv, FanoutTypes, Fanout!TypeOK, CopyStates, Flowing
<1>3. Ended' /\ Waited'
  BY <1>1 DEF FanoutInv, Ended, Waited, Fanout!CopyPassed
<1>4. Whole'
  BY <1>1 DEF FanoutInv, Whole, Passed, Fanout!CopyPassed
<1>5. Undisturbed' /\ Fanout!ThumbnailIsOptional'
  BY <1>1 DEF FanoutInv, Undisturbed, Fanout!ThumbnailIsOptional
<1> QED  BY <1>2, <1>3, <1>4, <1>5 DEF FanoutInv

\* It refuses the upload, and removes what is staged if the store lets it.
LEMMA FanoutRejects ==
  ASSUME FanoutInv, Fanout!Reject, copy.pc \in {"wait", "inspect", "scan", "prepare"},
         readers["s3"].stopped, UNCHANGED <<upload, pipe, readers>>,
         faults = 0 => \/ upload.inspected
                       \/ readers["av"].result = "rejected"
                       \/ readers["scan"].result = "rejected"
  PROVE  FanoutInv'
<1> USE FanoutConstants
<1>1. /\ copy' \in CopyStates /\ copy'.pc = "failed"
      /\ copy'.sent = copy.sent /\ copy'.at = copy.at /\ copy'.error = copy.error
  BY DEF Fanout!Reject, FanoutInv, FanoutTypes, Fanout!TypeOK, CopyStates
<1>2. /\ faults' \in 0..FanoutFaults /\ (faults' = 0 => faults = 0)
      /\ objects' \in {objects, [objects EXCEPT !["temp"] = -1]}
  BY DEF Fanout!Reject, Fanout!Discard, Fanout!Remove, Fanout!Absent, Fanout!Fault,
         FanoutInv, FanoutTypes, Fanout!TypeOK
<1>3. /\ objects' \in [{"temp", "final"} -> Nat \cup {-1}]
      /\ objects'["final"] = objects["final"] /\ objects'["temp"] \in {objects["temp"], -1}
  BY <1>2 DEF FanoutInv, FanoutTypes, Fanout!TypeOK, Fanout!Absent
<1>4. FanoutTypes'
  BY <1>1, <1>2, <1>3 DEF FanoutInv, FanoutTypes, Fanout!TypeOK, CopyStates, Fanout!Absent
<1>5. Flowing' /\ Ended' /\ Waited'
  BY <1>1 DEF FanoutInv, Flowing, Ended, Waited
<1>6. Whole'
  BY <1>1, <1>3 DEF FanoutInv, Whole
<1>7. Undisturbed' /\ Fanout!ThumbnailIsOptional'
  BY <1>1, <1>2 DEF FanoutInv, Undisturbed, Fanout!ThumbnailIsOptional
<1> QED  BY <1>4, <1>5, <1>6, <1>7 DEF FanoutInv

\* The handler has waited for the PUT and the virus scan.
LEMMA FanoutWaits ==
  ASSUME FanoutInv, Fanout!WaitCopy PROVE FanoutInv'
<1>1. copy.pc = "wait" /\ readers["s3"].stopped /\ UNCHANGED <<upload, pipe, readers>>
  BY DEF Fanout!WaitCopy
<1>2. CASE Fanout!CopyPassed /\ copy' = [copy EXCEPT !.pc = "inspect"] /\ UNCHANGED <<objects, faults>>
  BY <1>1, <1>2, FanoutAdvances
<1>3. CASE ~Fanout!CopyPassed /\ Fanout!Reject
  <2>1. ASSUME faults = 0
        PROVE  readers["av"].result = "rejected" \/ readers["scan"].result = "rejected"
    <3>1. readers["s3"].result \in {"ok", "failed"}
      BY <1>1 DEF FanoutInv, FanoutTypes, Fanout!TypeOK, Ended, Fanout!Sinks
    <3>2. upload.clamav => readers["av"].result \in {"ok", "failed", "rejected"}
      BY DEF Fanout!WaitCopy, FanoutInv, FanoutTypes, Fanout!TypeOK, Ended, Fanout!Sinks
    <3> QED  BY <1>3, <2>1, <3>1, <3>2 DEF Fanout!CopyPassed, FanoutInv, Undisturbed
  <2> QED  BY <1>1, <1>3, <2>1, FanoutRejects
<1> QED  BY <1>2, <1>3 DEF Fanout!WaitCopy

\* The handler takes a check as passed that passed.
LEMMA FanoutInspects ==
  ASSUME FanoutInv, Fanout!InspectArchive \/ Fanout!AwaitScan \/ Fanout!PrepareDocument PROVE FanoutInv'
<1>1. /\ copy.pc \in {"inspect", "scan", "prepare"} /\ readers["s3"].stopped /\ Fanout!CopyPassed
      /\ copy.pc = "prepare" /\ upload.side = "scan" => readers["scan"].result = "ok"
      /\ UNCHANGED <<upload, pipe, readers>>
  BY DEF Fanout!InspectArchive, Fanout!AwaitScan, Fanout!PrepareDocument, FanoutInv, Waited
<1>2. CASE Fanout!InspectArchive
  <2>1. CASE copy' = [copy EXCEPT !.pc = "scan"] /\ UNCHANGED <<objects, faults>>
    BY <1>1, <2>1, FanoutAdvances
  <2>2. CASE upload.inspected /\ Fanout!Reject
    BY <1>1, <2>2, FanoutRejects
  <2> QED  BY <1>2, <2>1, <2>2 DEF Fanout!InspectArchive
<1>3. CASE Fanout!AwaitScan
  <2>1. CASE /\ upload.side = "scan" => readers["scan"].result = "ok"
             /\ copy' = [copy EXCEPT !.pc = "prepare"] /\ UNCHANGED <<objects, faults>>
    BY <1>1, <2>1, FanoutAdvances
  <2>2. CASE readers["scan"].result \in {"rejected", "failed"} /\ Fanout!Reject
    <3>1. faults = 0 => readers["scan"].result = "rejected"
      BY <2>2 DEF FanoutInv, Undisturbed
    <3> QED  BY <1>1, <2>2, <3>1, FanoutRejects
  <2> QED  BY <1>3, <2>1, <2>2 DEF Fanout!AwaitScan
<1>4. CASE Fanout!PrepareDocument
  <2>1. CASE copy.pc = "prepare" /\ UNCHANGED <<objects, faults>>
             /\ copy' = [copy EXCEPT !.pc = IF Fanout!Staged(upload) THEN "copy" ELSE "accepted"]
    BY <1>1, <2>1, FanoutAdvances
  <2>2. CASE upload.inspected /\ Fanout!Reject
    BY <1>1, <2>2, FanoutRejects
  <2> QED  BY <1>4, <2>1, <2>2 DEF Fanout!PrepareDocument
<1> QED  BY <1>2, <1>3, <1>4

\* The staged object is copied when all has passed.
LEMMA FanoutCopies ==
  ASSUME FanoutInv, Fanout!CopyFinal PROVE FanoutInv'
<1> USE FanoutConstants
<1>1. copy.pc = "copy" /\ UNCHANGED <<upload, pipe, readers>>
  BY DEF Fanout!CopyFinal
<1>2. PICK pc \in {"accepted", "failed"} :
        /\ copy' = [copy EXCEPT !.pc = pc]
        /\ faults' = faults \/ (faults < FanoutFaults /\ faults' = faults + 1)
        /\ pc = "failed" => faults' # faults
  BY DEF Fanout!CopyFinal, Fanout!Fault,
         FanoutInv, FanoutTypes, Fanout!TypeOK
<1>3. /\ objects' \in [{"temp", "final"} -> Nat \cup {-1}]
      /\ \A o \in {"temp", "final"} : objects'[o] \in {-1, objects["temp"], objects["final"]}
  BY DEF Fanout!CopyFinal, Fanout!Absent, FanoutInv, FanoutTypes, Fanout!TypeOK
<1>4. /\ copy' \in CopyStates /\ copy'.pc = pc
      /\ copy'.sent = copy.sent /\ copy'.at = copy.at /\ copy'.error = copy.error
  BY <1>2 DEF FanoutInv, FanoutTypes, Fanout!TypeOK, CopyStates
<1>5. faults' \in 0..FanoutFaults /\ (faults' = 0 => faults = 0 /\ pc # "failed")
  BY <1>2 DEF FanoutInv, FanoutTypes, Fanout!TypeOK
<1>6. FanoutTypes'
  BY <1>1, <1>3, <1>4, <1>5 DEF FanoutInv, FanoutTypes, Fanout!TypeOK, CopyStates, Fanout!Absent
<1>7. Flowing' /\ Ended'
  BY <1>1, <1>4 DEF FanoutInv, Flowing, Ended
<1>8. Passed /\ Passed' /\ Waited'
  BY <1>1, <1>4 DEF FanoutInv, Waited, Passed, Fanout!CopyPassed
<1>9. Whole'
  BY <1>1, <1>3, <1>4, <1>8 DEF FanoutInv, Whole
<1>10. Undisturbed' /\ Fanout!ThumbnailIsOptional'
  BY <1>1, <1>4, <1>5 DEF FanoutInv, Undisturbed, Fanout!ThumbnailIsOptional
<1> QED  BY <1>6, <1>7, <1>8, <1>9, <1>10 DEF FanoutInv

\* Every step of the copy, its readers and the handler keeps the invariant.
LEMMA FanoutSteps ==
  ASSUME FanoutInv, [Fanout!Next]_(Fanout!vars) PROVE FanoutInv'
<1>1. CASE UNCHANGED Fanout!vars
  BY <1>1 DEF Fanout!vars, FanoutInv, FanoutTypes, Fanout!TypeOK, Flowing, Ended, Waited, Fanout!CopyPassed,
     Whole, Passed, Undisturbed, Fanout!ThumbnailIsOptional
<1> QED
  BY <1>1, FanoutRead, FanoutWrite, FanoutClose, FanoutPut, FanoutVirus, FanoutDocument, FanoutConvert,
     FanoutWaits, FanoutInspects, FanoutCopies DEF Fanout!Next

\* The invariant says what the run checks.
LEMMA FanoutDecides ==
  ASSUME FanoutInv PROVE Fanout!FinalIsChecked /\ Fanout!ThumbnailIsOptional
<1>1. Fanout!FinalIsChecked
  BY DEF FanoutInv, Whole, Passed, Fanout!CopyPassed, Fanout!FinalIsChecked, Fanout!Absent, Fanout!Staged
<1> QED  BY <1>1 DEF FanoutInv

\* What is under the final key is the whole body and has passed what was asked
\* for, and without faults nothing but a check refuses it, a thumbnail that fails
\* least of all, for bodies of any length and any limit of the full scan
\* (putObjectWithSecurityScan, uploadFile, startThumbnailUpload).
THEOREM ChecksAlwaysDecide == MCSpec => []ChecksDecide
<1> DEFINE Inv == scene = "fanout" => FanoutInv
<1>1. MCInit => Inv
  BY FanoutBegins DEF MCInit
<1>2. Inv /\ [MCNext]_allVars => Inv'
  <2>1. ASSUME scene' = "fanout", [MCNext]_allVars PROVE scene = "fanout" /\ [Fanout!Next]_(Fanout!vars)
    BY <2>1 DEF MCNext, Creating, Deleting, Revoking, ShareScene, IntakeScene, FanoutScene, ArchiveScene,
       MediaScene, SearchScene, AccessScene, AuditScene, allVars, fanoutVars, Fanout!vars, Fanout!Next
  <2> QED  BY <2>1, FanoutSteps
<1>3. Inv => ChecksDecide
  BY FanoutDecides DEF ChecksDecide
<1> QED  BY <1>1, <1>2, <1>3, PTL DEF MCSpec

(***************************************************************************)
(* The checks of an upload body (Intake).                                  *)
(***************************************************************************)
Beyond(stages) == stage \in stages \cup {"accepted"}

IntakeTypes ==
    /\ Checks!TypeOK
    /\ stage # "accepted" => stored = None

\* The type is settled, and agrees with what the prefix looks like.
Believed ==
    Beyond({"sanitize", "store", "guard", "scan", "document", "copy"}) =>
        /\ type = (IF upload.declared = None THEN upload.file.looks ELSE upload.declared)
        /\ Checks!PrefixPasses(type)

ReadAndChecked == ~Checks!Skipped(policy, type, Checks!Ext) /\ Checks!ReadWhole(type, Checks!Ext)

\* What is left of the body, and what it has passed if it was read whole.
Sanitized ==
    /\ stage \in {"prefix", "sanitize"} => body = [traits |-> upload.file.traits, size |-> upload.file.size]
    /\ Beyond({"store", "guard", "scan", "document", "copy"}) =>
        /\ body.size = Checks!Cut(policy, type, Checks!Ext, upload.file.size)
        /\ body.traits \subseteq upload.file.traits
        /\ ReadAndChecked => Checks!SanitizerPasses(Checks!Mode, type, Checks!Ext, upload.file)
        /\ ReadAndChecked /\ Checks!Strips(Checks!Mode, type, Checks!Ext) => "meta" \notin body.traits

\* The body is in the bucket, under the temporary key first when it must be.
Held ==
    /\ stage \in {"guard", "scan", "document", "copy"} => staged = body
    /\ stage = "accepted" => stored = body
    /\ Beyond({"guard", "scan", "document", "copy"}) => ~Checks!Oversized(policy, body.size)

\* What the staged body has passed.
Inspected ==
    /\ Beyond({"document", "copy"}) /\ Checks!FullScanned(policy, type, Checks!Ext) =>
         Checks!FullScanPasses(policy, Checks!Mode, type, Checks!Ext, upload.file)
    /\ Beyond({"copy"}) /\ Checks!Candidate(type, Checks!Ext, upload.file) \in {"pdf", "docx"} =>
         /\ protected <=> upload.file.secret # None
         /\ protected => upload.password = upload.file.secret

IntakeInv == IntakeTypes /\ Believed /\ Sanitized /\ Held /\ Inspected

-----------------------------------------------------------------------------
\* What the checks say of an upload does not change after the prefix check.
LEMMA IntakeConstants ==
  /\ \A p \in Policies : p.maxUpload \in Int /\ p.maxFile \in Int
  /\ \A u \in Uploads : u.file.size \in Nat
  /\ IntakeFaults \in Nat /\ None \notin {"pdf", "docx"}
BY RequestsAssumption DEF Checks!PoliciesAssumption

\* The lesser of two numbers, as the reader of a body takes it.
LEMMA SmallerOfTwo ==
  ASSUME NEW a \in Int, NEW b \in Int
  PROVE  Checks!Min({a, b}) = IF a <= b THEN a ELSE b
BY DEF Checks!Min

\* The reader of the sanitization cuts only what is too large for the store.
LEMMA CutIsNoticed ==
  ASSUME NEW p \in Policies, NEW t, NEW ext, NEW size \in Nat,
         ~Checks!Oversized(p, Checks!Cut(p, t, ext, size))
  PROVE  Checks!Cut(p, t, ext, size) = size
<1>1. p.maxUpload \in Int /\ p.maxFile \in Int
  BY IntakeConstants
<1>2. CASE ~(~Checks!Skipped(p, t, ext) /\ p.limits /\ p.maxFile > 0)
  BY <1>2 DEF Checks!Cut
<1>3. CASE ~Checks!Skipped(p, t, ext) /\ p.limits /\ p.maxFile > 0
  <2>1. Checks!Cut(p, t, ext, size) = IF size <= p.maxFile + 1 THEN size ELSE p.maxFile + 1
    BY <1>1, <1>3, SmallerOfTwo DEF Checks!Cut
  <2>2. Checks!EffectiveMax(p) \in Int /\ Checks!EffectiveMax(p) > 0 /\ Checks!EffectiveMax(p) <= p.maxFile
    BY <1>1, <1>3 DEF Checks!EffectiveMax, Checks!Tightened
  <2> QED  BY <1>1, <2>1, <2>2 DEF Checks!Oversized
<1> QED  BY <1>2, <1>3

\* An upload begins with the body it was sent with and nothing stored.
LEMMA IntakeBegins ==
  ASSUME Checks!Init PROVE IntakeInv
<1>1. IntakeTypes
  <2>1. 0 \in 0..IntakeFaults
    BY IntakeConstants
  <2> QED  BY <2>1 DEF Checks!Init, IntakeTypes, Checks!TypeOK
<1>2. Believed /\ Sanitized
  BY DEF Checks!Init, Believed, Sanitized, Beyond
<1>3. Held /\ Inspected
  BY DEF Checks!Init, Held, Inspected, Beyond
<1> QED  BY <1>1, <1>2, <1>3 DEF IntakeInv

\* An upload that is refused keeps nothing.
LEMMA IntakeRefuses ==
  ASSUME IntakeInv, stage # "accepted", stage' = "refused",
         UNCHANGED <<upload, policy, type, body, stored, protected>>, faults' \in 0..IntakeFaults
  PROVE  IntakeInv'
BY DEF IntakeInv, IntakeTypes, Checks!TypeOK, Beyond, Believed, Sanitized, Held, Inspected

\* The prefix check settles the type.
LEMMA IntakePrefix ==
  ASSUME IntakeInv, Checks!InspectPrefix PROVE IntakeInv'
<1> DEFINE t == IF upload.declared = None THEN upload.file.looks ELSE upload.declared
<1>1. stage = "prefix"
  BY DEF Checks!InspectPrefix
<1>2. faults \in 0..IntakeFaults
  BY DEF IntakeInv, IntakeTypes, Checks!TypeOK
<1>3. CASE Checks!Refuse
  BY <1>1, <1>2, <1>3, IntakeRefuses DEF Checks!Refuse
<1>4. CASE /\ Checks!PrefixPasses(t) /\ type' = t /\ stage' = "sanitize"
           /\ UNCHANGED <<upload, policy, body, staged, stored, protected, faults>>
  <2>1. Checks!PrefixPasses(type)'
    BY <1>4 DEF Checks!PrefixPasses, Checks!File, Checks!Ext
  <2> QED  BY <1>1, <1>4, <2>1 DEF IntakeInv, IntakeTypes, Checks!TypeOK, Beyond, Believed, Sanitized,
      Held, Inspected
<1> QED  BY <1>3, <1>4 DEF Checks!InspectPrefix, Checks!File

\* What is read off the upload, its policy and its type stays with these.
LEMMA Settled ==
  ASSUME UNCHANGED <<upload, policy, type>>
  PROVE  /\ Checks!PrefixPasses(type)' <=> Checks!PrefixPasses(type)
         /\ Checks!Ext' = Checks!Ext /\ Checks!Mode' = Checks!Mode
         /\ ReadAndChecked' => ReadAndChecked
<1>1. Checks!Ext' = Checks!Ext /\ Checks!Mode' = Checks!Mode
  BY DEF Checks!Ext, Checks!Mode
<1>2. Checks!PrefixPasses(type)' <=> Checks!PrefixPasses(type)
  BY DEF Checks!PrefixPasses, Checks!Ext, Checks!File
<1>3. ReadAndChecked' => ReadAndChecked
  BY DEF ReadAndChecked, Checks!Ext
<1> QED  BY <1>1, <1>2, <1>3

\* What is known of the body is kept by a step that leaves the body alone.
LEMMA SanitizedStays ==
  ASSUME Sanitized, stage \in {"store", "guard", "scan", "document", "copy", "accepted"},
         stage' \in {"store", "guard", "scan", "document", "copy", "accepted"},
         UNCHANGED <<upload, policy, type, body>>
  PROVE  Sanitized'
<1>1. /\ body'.size = Checks!Cut(policy', type', Checks!Ext', upload'.file.size)
      /\ body'.traits \subseteq upload'.file.traits
  BY Settled DEF Sanitized, Beyond
<1>2. /\ ReadAndChecked' => Checks!SanitizerPasses(Checks!Mode', type', Checks!Ext', upload'.file)
  BY Settled DEF Sanitized, Beyond
<1>3. ReadAndChecked' /\ Checks!Strips(Checks!Mode', type', Checks!Ext') => "meta" \notin body'.traits
  BY Settled DEF Sanitized, Beyond
<1> QED  BY <1>1, <1>2, <1>3 DEF Sanitized, Beyond
\* What is known of the type is kept by a step that leaves the type alone.
LEMMA BelievedStays ==
  ASSUME Believed, stage \in {"sanitize", "store", "guard", "scan", "document", "copy", "accepted"},
         stage' \in {"sanitize", "store", "guard", "scan", "document", "copy", "accepted"},
         UNCHANGED <<upload, policy, type>>
  PROVE  Believed'
BY Settled DEF Believed, Beyond

\* What is in the bucket stays there between the checks of a staged body.
LEMMA HeldStays ==
  ASSUME Held, stage \in {"guard", "scan", "document", "copy"},
         stage' \in {"guard", "scan", "document", "copy"},
         UNCHANGED <<policy, body, staged>>
  PROVE  Held'
BY DEF Held, Beyond

\* What the staged body has passed stays with the upload, its policy and type.
LEMMA InspectedStays ==
  ASSUME Checks!FullScanned(policy, type, Checks!Ext) =>
             Checks!FullScanPasses(policy, Checks!Mode, type, Checks!Ext, upload.file),
         stage' \in {"copy", "accepted"}
           /\ Checks!Candidate(type, Checks!Ext, upload.file) \in {"pdf", "docx"} =>
             /\ protected' <=> upload.file.secret # None
             /\ protected' => upload.password = upload.file.secret,
         UNCHANGED <<upload, policy, type>>
  PROVE  Inspected'
<1>1. Checks!FullScanned(policy', type', Checks!Ext') =>
        Checks!FullScanPasses(policy', Checks!Mode', type', Checks!Ext', upload'.file)
  BY Settled
<1>2. stage' \in {"copy", "accepted"}
        /\ Checks!Candidate(type', Checks!Ext', upload'.file) \in {"pdf", "docx"} =>
        /\ protected' <=> upload'.file.secret # None
        /\ protected' => upload'.password = upload'.file.secret
  BY Settled
<1> QED  BY <1>1, <1>2 DEF Inspected, Beyond

\* The sanitization cuts, strips and inspects what it reads whole.
LEMMA IntakeSanitizes ==
  ASSUME IntakeInv, Checks!Sanitize PROVE IntakeInv'
<1> DEFINE size == Checks!Cut(policy, type, Checks!Ext, upload.file.size)
           traits == IF ReadAndChecked /\ Checks!Strips(Checks!Mode, type, Checks!Ext)
                     THEN body.traits \ {"meta"} ELSE body.traits
<1>1. stage = "sanitize"
  BY DEF Checks!Sanitize
<1>2. faults \in 0..IntakeFaults
  BY DEF IntakeInv, IntakeTypes, Checks!TypeOK
<1>3. CASE Checks!Refuse
  BY <1>1, <1>2, <1>3, IntakeRefuses DEF Checks!Refuse
<1>4. CASE /\ ReadAndChecked => Checks!SanitizerPasses(Checks!Mode, type, Checks!Ext, upload.file)
           /\ body' = [size |-> size, traits |-> traits]
           /\ stage' = "store" /\ UNCHANGED <<upload, policy, type, staged, stored, protected, faults>>
  <2>1. body.traits = upload.file.traits
    BY <1>1 DEF IntakeInv, Sanitized
  <2>2. body'.size = size /\ body'.traits \subseteq upload.file.traits
        /\ (ReadAndChecked /\ Checks!Strips(Checks!Mode, type, Checks!Ext) => "meta" \notin body'.traits)
    BY <1>4, <2>1
  <2>3. Sanitized'
    <3>1. /\ body'.size = Checks!Cut(policy', type', Checks!Ext', upload'.file.size)
          /\ body'.traits \subseteq upload'.file.traits
      BY <1>4, <2>2, Settled
    <3>2. ReadAndChecked' => Checks!SanitizerPasses(Checks!Mode', type', Checks!Ext', upload'.file)
      BY <1>4, Settled
    <3>3. ReadAndChecked' /\ Checks!Strips(Checks!Mode', type', Checks!Ext') => "meta" \notin body'.traits
      BY <1>4, <2>2, Settled
    <3> QED  BY <1>4, <3>1, <3>2, <3>3 DEF Sanitized, Beyond
  <2>4. Believed'
    BY <1>1, <1>4, Settled DEF IntakeInv, Believed, Beyond
  <2> QED  BY <1>1, <1>4, <2>3, <2>4 DEF IntakeInv, IntakeTypes, Checks!TypeOK, Beyond, Held, Inspected
<1> QED  BY <1>3, <1>4 DEF Checks!Sanitize, ReadAndChecked, Checks!File

\* A step that moves the stage on and keeps the rest.
LEMMA IntakeStores ==
  ASSUME IntakeInv, Checks!Store PROVE IntakeInv'
<1>1. stage = "store" /\ UNCHANGED <<upload, policy, type, protected, faults, body>>
  BY DEF Checks!Store, Checks!Refuse
<1>2. faults \in 0..IntakeFaults
  BY DEF IntakeInv, IntakeTypes, Checks!TypeOK
<1>3. CASE Checks!Refuse
  BY <1>1, <1>2, <1>3, IntakeRefuses DEF Checks!Refuse
<1>4. CASE /\ ~Checks!Oversized(policy, body.size)
           /\ \/ staged' = body /\ stage' = "guard" /\ UNCHANGED stored
              \/ /\ ~Checks!NeedsStaging(policy, type, Checks!Ext, upload.file)
                 /\ stored' = body /\ stage' = "accepted" /\ UNCHANGED staged
  <2>1. Sanitized' /\ Believed'
    BY <1>1, <1>4, SanitizedStays, BelievedStays DEF IntakeInv
  <2>2. Held'
    BY <1>1, <1>4 DEF IntakeInv, Held, Beyond
  <2>3. Inspected'
    <3>1. CASE stage' = "guard"
      BY <3>1 DEF Inspected, Beyond
    <3>2. CASE ~Checks!NeedsStaging(policy, type, Checks!Ext, upload.file)
      <4>1. ~Checks!FullScanned(policy, type, Checks!Ext)
            /\ Checks!Candidate(type, Checks!Ext, upload.file) \notin {"pdf", "docx"}
        BY <3>2, IntakeConstants DEF Checks!NeedsStaging
      <4> QED  BY <1>1, <4>1, InspectedStays
    <3> QED  BY <1>4, <3>1, <3>2
  <2> QED  BY <1>1, <1>4, <2>1, <2>2, <2>3 DEF IntakeInv, IntakeTypes, Checks!TypeOK
<1> QED  BY <1>3, <1>4 DEF Checks!Store, Checks!File

\* A call of the store that fails refuses the upload.
LEMMA IntakeFails ==
  ASSUME IntakeInv, Checks!StoreFails PROVE IntakeInv'
<1>1. faults' \in 0..IntakeFaults
  BY IntakeConstants DEF Checks!StoreFails, IntakeInv, IntakeTypes, Checks!TypeOK
<1> QED  BY <1>1, IntakeRefuses DEF Checks!StoreFails

\* The archive guard moves a staged body on or refuses it.
LEMMA IntakeGuards ==
  ASSUME IntakeInv, Checks!InspectArchive PROVE IntakeInv'
<1>1. stage = "guard" /\ faults \in 0..IntakeFaults
  BY DEF Checks!InspectArchive, IntakeInv, IntakeTypes, Checks!TypeOK
<1>2. CASE Checks!Refuse
  BY <1>1, <1>2, IntakeRefuses DEF Checks!Refuse
<1>3. CASE Checks!Advance("scan")
  <2>1. Sanitized' /\ Believed' /\ Held'
    BY <1>1, <1>3, SanitizedStays, BelievedStays, HeldStays DEF Checks!Advance, IntakeInv
  <2>2. Inspected'
    BY <1>3 DEF Checks!Advance, Inspected, Beyond
  <2> QED  BY <1>1, <1>3, <2>1, <2>2 DEF Checks!Advance, IntakeInv, IntakeTypes, Checks!TypeOK
<1> QED  BY <1>2, <1>3 DEF Checks!InspectArchive

\* The full scan refuses what it does not pass.
LEMMA IntakeScans ==
  ASSUME IntakeInv, Checks!FullScan PROVE IntakeInv'
<1>1. stage = "scan" /\ faults \in 0..IntakeFaults
  BY DEF Checks!FullScan, IntakeInv, IntakeTypes, Checks!TypeOK
<1>2. CASE Checks!Refuse
  BY <1>1, <1>2, IntakeRefuses DEF Checks!Refuse
<1>3. CASE /\ Checks!Advance("document")
           /\ Checks!FullScanned(policy, type, Checks!Ext) =>
                Checks!FullScanPasses(policy, Checks!Mode, type, Checks!Ext, upload.file)
  <2>1. Sanitized' /\ Believed' /\ Held'
    BY <1>1, <1>3, SanitizedStays, BelievedStays, HeldStays DEF Checks!Advance, IntakeInv
  <2>2. Inspected'
    BY <1>3, InspectedStays DEF Checks!Advance
  <2> QED  BY <1>1, <1>3, <2>1, <2>2 DEF Checks!Advance, IntakeInv, IntakeTypes, Checks!TypeOK
<1> QED  BY <1>2, <1>3 DEF Checks!FullScan, Checks!File

\* A protected document is opened with its password or refused.
LEMMA IntakeOpens ==
  ASSUME IntakeInv, Checks!PrepareDocument PROVE IntakeInv'
<1> DEFINE format == Checks!Candidate(type, Checks!Ext, upload.file)
<1>1. stage = "document" /\ faults \in 0..IntakeFaults
  BY DEF Checks!PrepareDocument, IntakeInv, IntakeTypes, Checks!TypeOK
<1>2. CASE Checks!Refuse
  BY <1>1, <1>2, IntakeRefuses DEF Checks!Refuse
<1>3. CASE /\ stage' = "copy" /\ UNCHANGED <<upload, policy, type, body, staged, stored, faults>>
           /\ protected' \in BOOLEAN
           /\ format \in {"pdf", "docx"} =>
                /\ protected' = (upload.file.secret # None)
                /\ upload.file.secret # None => upload.password = upload.file.secret
  <2>1. Sanitized' /\ Believed' /\ Held'
    BY <1>1, <1>3, SanitizedStays, BelievedStays, HeldStays DEF IntakeInv
  <2>2. Checks!FullScanned(policy, type, Checks!Ext) =>
          Checks!FullScanPasses(policy, Checks!Mode, type, Checks!Ext, upload.file)
    BY <1>1 DEF IntakeInv, Inspected, Beyond
  <2>3. Inspected'
    BY <1>3, <2>2, InspectedStays
  <2> QED  BY <1>1, <1>3, <2>1, <2>3 DEF IntakeInv, IntakeTypes, Checks!TypeOK
<1>4. protected \in BOOLEAN
  BY DEF IntakeInv, IntakeTypes, Checks!TypeOK
<1> QED  BY <1>2, <1>3, <1>4, IntakeConstants
   DEF Checks!PrepareDocument, Checks!File, Checks!Advance, Checks!DocumentPasses, Checks!Unlocks

\* The staged body gets its final key.
LEMMA IntakeCommits ==
  ASSUME IntakeInv, Checks!Commit PROVE IntakeInv'
<1>1. stage = "copy" /\ stage' = "accepted" /\ stored' = staged
      /\ UNCHANGED <<upload, policy, type, body, protected, faults>>
  BY DEF Checks!Commit
<1>2. Sanitized' /\ Believed'
  BY <1>1, SanitizedStays, BelievedStays DEF IntakeInv
<1>3. Inspected'
  <2>1. /\ Checks!FullScanned(policy, type, Checks!Ext) =>
             Checks!FullScanPasses(policy, Checks!Mode, type, Checks!Ext, upload.file)
        /\ Checks!Candidate(type, Checks!Ext, upload.file) \in {"pdf", "docx"} =>
             /\ protected <=> upload.file.secret # None
             /\ protected => upload.password = upload.file.secret
    BY <1>1 DEF IntakeInv, Inspected, Beyond
  <2> QED  BY <1>1, <2>1, InspectedStays
<1>4. Held'
  BY <1>1 DEF IntakeInv, Held, Beyond
<1> QED  BY <1>1, <1>2, <1>3, <1>4 DEF IntakeInv, IntakeTypes, Checks!TypeOK

\* Every step of an upload keeps the invariant.
LEMMA IntakeSteps ==
  ASSUME IntakeInv, [Checks!Next]_(Checks!vars) PROVE IntakeInv'
<1>1. CASE UNCHANGED Checks!vars
  <2>1. Sanitized'
    <3>1. CASE stage \in {"prefix", "sanitize", "refused"}
      BY <1>1, <3>1 DEF Checks!vars, IntakeInv, Sanitized, Beyond
    <3>2. CASE stage \in {"store", "guard", "scan", "document", "copy", "accepted"}
      BY <1>1, <3>2, SanitizedStays DEF Checks!vars, IntakeInv
    <3> QED  BY <3>1, <3>2 DEF IntakeInv, IntakeTypes, Checks!TypeOK
  <2>2. Believed'
    BY <1>1, Settled DEF Checks!vars, IntakeInv, Believed, Beyond
  <2>3. Held'
    BY <1>1 DEF Checks!vars, IntakeInv, Held, Beyond
  <2>4. Inspected'
    <3>1. CASE Beyond({"document", "copy"})
      BY <1>1, <3>1, InspectedStays DEF Checks!vars, IntakeInv, Inspected, Beyond
    <3>2. CASE ~Beyond({"document", "copy"})
      BY <1>1, <3>2 DEF Checks!vars, Inspected, Beyond
    <3> QED  BY <3>1, <3>2
  <2> QED  BY <1>1, <2>1, <2>2, <2>3, <2>4 DEF Checks!vars, IntakeInv, IntakeTypes, Checks!TypeOK
<1> QED
  BY <1>1, IntakePrefix, IntakeSanitizes, IntakeStores, IntakeFails, IntakeGuards, IntakeScans, IntakeOpens,
     IntakeCommits DEF Checks!Next

\* The invariant holds in every state of the scene of uploads.
LEMMA IntakeHolds == MCSpec => [](scene = "intake" => IntakeInv)
<1> DEFINE Inv == scene = "intake" => IntakeInv
<1>1. MCInit => Inv
  BY IntakeBegins DEF MCInit
<1>2. Inv /\ [MCNext]_allVars => Inv'
  <2>1. ASSUME scene' = "intake", [MCNext]_allVars PROVE scene = "intake" /\ [Checks!Next]_(Checks!vars)
    BY <2>1 DEF MCNext, Creating, Deleting, Revoking, ShareScene, IntakeScene, FanoutScene, ArchiveScene,
       MediaScene, SearchScene, AccessScene, AuditScene, allVars, intakeVars, Checks!vars, Checks!Next
  <2> QED  BY <2>1, IntakeSteps
<1> QED  BY <1>1, <1>2, PTL DEF MCSpec

\* A body that was cut is one the store refuses.
LEMMA IntakeWhole ==
  ASSUME IntakeInv PROVE Checks!StoredWhole
<1> SUFFICES ASSUME stored # None
             PROVE  stored.size = upload.file.size /\ ~Checks!Oversized(policy, stored.size)
  BY DEF Checks!StoredWhole, Checks!File
<1>1. stage = "accepted" /\ stored = body /\ upload \in Uploads /\ policy \in Policies
  BY DEF IntakeInv, IntakeTypes, Held, Checks!TypeOK
<1>2. body.size = Checks!Cut(policy, type, Checks!Ext, upload.file.size) /\ ~Checks!Oversized(policy, body.size)
  BY <1>1 DEF IntakeInv, Sanitized, Held, Beyond
<1> QED  BY <1>1, <1>2, CutIsNoticed, IntakeConstants

\* An upload is stored with all its bytes or not at all, for any uploads, limits
\* and modes (EffectiveMaxUploadBytes, applyFileSanitization).
THEOREM UploadsAlwaysWhole == MCSpec => []StoredWhole
<1>1. (scene = "intake" => IntakeInv) => StoredWhole
  BY IntakeWhole DEF StoredWhole
<1> QED  BY <1>1, IntakeHolds, PTL

\* A document is known as protected exactly when it is, and only its own password
\* lets it in (prepareDocument, CheckPassword).
THEOREM ProtectedAlwaysOpened == MCSpec => []ProtectedWasOpened
<1>1. (scene = "intake" => IntakeInv) => ProtectedWasOpened
  BY DEF IntakeInv, IntakeTypes, Inspected, Beyond, ProtectedWasOpened, Checks!ProtectedWasOpened, Checks!File
<1> QED  BY <1>1, IntakeHolds, PTL

-----------------------------------------------------------------------------
\* The type and the name an upload came with agree with its first bytes, if
\* these are of a kind that is inspected.
Names(looks) == IF looks = "html" THEN {"html", "md"} ELSE {looks}

\* A declared type and a known extension agree with the first bytes.
LEMMA NamesAgree ==
  ASSUME NEW p, NEW file, NEW declared, NEW ext,
         Checks!Believable(p, file, declared, ext), ~Checks!Scripted(file, ext),
         file.looks \in {"html", "svg", "xml", "pdf", "docx", "odt", "png", "mp4"}
  PROVE  /\ (IF declared = None THEN file.looks ELSE declared) \in Names(file.looks)
         /\ ext \notin Checks!KnownExtensions \/ ext \in Names(file.looks)
<1>1. ASSUME NEW a, Checks!Equivalent(a, file.looks) \/ Checks!Equivalent(file.looks, a)
      PROVE  a = file.looks
  <2>1. a # file.looks => {a, file.looks} # {"doc", "ole"}
    OBVIOUS
  <2> QED  BY <1>1, <2>1 DEF Checks!Equivalent
<1>2. Checks!CompatibleTypes(declared, file.looks, ext) => declared = "md" /\ file.looks = "html"
  BY DEF Checks!CompatibleTypes
<1>3. declared # None => declared \in Names(file.looks)
  BY <1>1, <1>2 DEF Checks!Believable, Names
<1>4. ASSUME ext \in Checks!KnownExtensions, declared # None, Checks!Equivalent(declared, ext)
      PROVE  ext \in Names(file.looks)
  <2>1. {declared, ext} # {"doc", "ole"}
    BY <1>3, <1>4 DEF Names
  <2> QED  BY <1>3, <1>4, <2>1 DEF Checks!Equivalent
<1>5. ext \notin Checks!KnownExtensions \/ ext \in Names(file.looks)
  <2>1. Checks!Equivalent(declared, ext) => declared # None
    BY DEF Checks!Equivalent
  <2> QED  BY <1>1, <1>4, <2>1 DEF Checks!Believable, Checks!ExtensionAgrees, Names
<1> QED  BY <1>3, <1>5 DEF Names

Classes == <<"svg", "markup", "image", "video", "pdf", "office", "odf", "legacy">>

\* A type without modes of its own has the mode of the first class it is of.
LEMMA ClassModeOf ==
  ASSUME NEW p, NEW t, NEW ext, t \notin DOMAIN p.byType, ext \notin DOMAIN p.byExtension,
         NEW m \in 1..8, Checks!IsClass(Classes[m], t, ext),
         \A i \in 1..(m - 1) : ~Checks!IsClass(Classes[i], t, ext)
  PROVE  Checks!ModeOf(p, t, ext) = p.classMode[Classes[m]]
<1> DEFINE hits == {i \in 1..8 : Checks!IsClass(Classes[i], t, ext)}
<1>1. DOMAIN Classes = 1..8
  BY DEF Classes
<1>2. m \in hits /\ \A i \in hits : m <= i
  OBVIOUS
<1>3. Checks!Min(hits) = m
  BY <1>2 DEF Checks!Min
<1>4. Checks!ModeOf(p, t, ext) = p.classMode[Classes[Checks!Min(hits)]]
  BY <1>1, <1>2 DEF Checks!ModeOf, Classes
<1> QED  BY <1>3, <1>4

\* The mode that applies to a text, if the modes fit and none is set for a foreign
\* extension, acts on it.
LEMMA TextMode ==
  ASSUME NEW p, Checks!ModesFit(p), NEW t \in {"html", "md", "svg", "xml"}, NEW ext,
         ext \in Checks!KnownExtensions => ext \in {"html", "md", "svg", "xml"},
         ~Checks!ForeignMode(p, t, ext)
  PROVE  Checks!ModeOf(p, t, ext) \in Checks!TextModes \cup {"accept_as_is"}
<1> DEFINE own == Checks!TextModes \cup {"accept_as_is"}
<1>1. /\ \A c \in {"svg", "markup"} : p.classMode[c] \in own
      /\ \A n \in {"html", "md", "svg", "xml"} \cap DOMAIN p.byType : p.byType[n] \in own
      /\ \A n \in {"html", "md", "svg", "xml"} \cap DOMAIN p.byExtension :
             n \in Checks!KnownExtensions => p.byExtension[n] \in own
  BY DEF Checks!ModesFit, Checks!Acting, Checks!Members
<1>2. CASE t \in DOMAIN p.byType
  BY <1>1, <1>2 DEF Checks!ModeOf
<1>3. CASE t \notin DOMAIN p.byType /\ ext \in DOMAIN p.byExtension
  BY <1>1, <1>3 DEF Checks!ModeOf, Checks!ForeignMode
<1>4. CASE t \notin DOMAIN p.byType /\ ext \notin DOMAIN p.byExtension
  <2>1. Classes[1] = "svg" /\ Classes[2] = "markup"
    BY DEF Classes
  <2>2. CASE Checks!IsClass("svg", t, ext)
    BY <1>1, <1>4, <2>1, <2>2, ClassModeOf
  <2>3. CASE ~Checks!IsClass("svg", t, ext)
    <3>1. Checks!IsClass("markup", t, ext)
      BY DEF Checks!IsClass, Checks!Members
    <3> QED  BY <1>1, <1>4, <2>1, <2>3, <3>1, ClassModeOf
  <2> QED  BY <2>2, <2>3
<1> QED  BY <1>2, <1>3, <1>4

\* The mode that applies to a picture or a film, if the modes fit and none is set for
\* a foreign extension, acts on it.
LEMMA MediaMode ==
  ASSUME NEW p, Checks!ModesFit(p), NEW t \in {"png", "mp4"}, NEW ext,
         ext \in Checks!KnownExtensions => ext = t, ~Checks!ForeignMode(p, t, ext)
  PROVE  Checks!ModeOf(p, t, ext) \in Checks!MediaModes \cup {"accept_as_is"}
<1> DEFINE own == Checks!MediaModes \cup {"accept_as_is"}
<1>1. /\ \A c \in {"image", "video"} : p.classMode[c] \in own
      /\ \A n \in {"png", "mp4"} \cap DOMAIN p.byType : p.byType[n] \in own
      /\ \A n \in {"png", "mp4"} \cap DOMAIN p.byExtension :
             n \in Checks!KnownExtensions => p.byExtension[n] \in own
  BY DEF Checks!ModesFit, Checks!Acting
<1>2. CASE t \in DOMAIN p.byType
  BY <1>1, <1>2 DEF Checks!ModeOf
<1>3. CASE t \notin DOMAIN p.byType /\ ext \in DOMAIN p.byExtension
  BY <1>1, <1>3 DEF Checks!ModeOf, Checks!ForeignMode
<1>4. CASE t \notin DOMAIN p.byType /\ ext \notin DOMAIN p.byExtension
  <2>1. Classes[1] = "svg" /\ Classes[2] = "markup" /\ Classes[3] = "image" /\ Classes[4] = "video"
    BY DEF Classes
  <2>2. /\ ~Checks!IsClass("svg", t, ext) /\ ~Checks!IsClass("markup", t, ext)
        /\ t = "png" => Checks!IsClass("image", t, ext)
        /\ t = "mp4" => ~Checks!IsClass("image", t, ext) /\ Checks!IsClass("video", t, ext)
    BY DEF Checks!IsClass, Checks!Members, Checks!KnownExtensions
  <2>3. CASE t = "png"
    BY <1>1, <1>4, <2>1, <2>2, <2>3, ClassModeOf
  <2>4. CASE t = "mp4"
    BY <1>1, <1>4, <2>1, <2>2, <2>4, ClassModeOf
  <2> QED  BY <2>3, <2>4
<1> QED  BY <1>2, <1>3, <1>4

\* What is stored was inspected for what its first bytes are.
LEMMA IntakeInspects ==
  ASSUME IntakeInv, Checks!ModesFit(policy) PROVE Checks!StoredWasInspected
<1> DEFINE file == upload.file
           ext == upload.ext
           mode == Checks!ModeOf(policy, type, ext)
           foreign == Checks!ForeignMode(policy, type, ext)
           unfound == mode = "reject_on_sensitive_metadata" /\ file.looks = "png" /\ ~Checks!Found(file)
<1> SUFFICES ASSUME stored # None, ~Checks!Skipped(policy, type, ext), ~Checks!Scripted(file, ext),
                    file.looks \in {"html", "svg", "xml", "pdf", "docx", "odt", "png", "mp4"}
             PROVE  /\ file.looks \in {"pdf", "docx", "odt"} => "active" \notin stored.traits
                    /\ file.looks \in {"html", "svg", "xml"} /\ (foreign => mode \in Checks!TextModes) =>
                           "active" \notin stored.traits
                    /\ file.looks \in {"png", "mp4"} /\ (foreign => mode \in Checks!MediaModes) /\ ~unfound =>
                           "meta" \notin stored.traits
  BY DEF Checks!StoredWasInspected, Checks!File, Checks!Ext, Checks!Mode
<1>1. stage = "accepted" /\ stored = body /\ body.traits \subseteq file.traits
  BY DEF IntakeInv, IntakeTypes, Held, Sanitized, Beyond
<1>2. /\ type \in Names(file.looks)
      /\ ext \notin Checks!KnownExtensions \/ ext \in Names(file.looks)
  <2>1. type = (IF upload.declared = None THEN file.looks ELSE upload.declared)
        /\ Checks!Believable(policy, file, upload.declared, ext)
    BY <1>1 DEF IntakeInv, Believed, Beyond, Checks!PrefixPasses, Checks!File, Checks!Ext
  <2> QED  BY <2>1, NamesAgree
<1>3. mode # "accept_as_is"
  BY DEF Checks!Skipped
<1>4. Checks!ReadWhole(type, ext) =>
        /\ Checks!SanitizerPasses(mode, type, ext, file)
        /\ Checks!Strips(mode, type, ext) => "meta" \notin body.traits
  BY <1>1 DEF IntakeInv, Sanitized, Beyond, ReadAndChecked, Checks!Ext, Checks!Mode
<1>5. Checks!FullScanned(policy, type, ext) => Checks!FullScanPasses(policy, mode, type, ext, file)
  BY <1>1 DEF IntakeInv, Inspected, Beyond, Checks!Ext, Checks!Mode
<1>6. ASSUME file.looks \in {"html", "svg", "xml"}, foreign => mode \in Checks!TextModes
      PROVE  "active" \notin body.traits
  <2>1. type \in {"html", "md", "svg", "xml"}
          /\ (ext \in Checks!KnownExtensions => ext \in {"html", "md", "svg", "xml"})
    BY <1>2, <1>6 DEF Names
  <2>2. Checks!IsClass("svg", type, ext) \/ Checks!IsClass("markup", type, ext)
    BY <2>1 DEF Checks!IsClass, Checks!Members
  <2>3. Checks!ReadWhole(type, ext)
    BY <2>2 DEF Checks!ReadWhole
  <2>4. mode \in Checks!TextModes
    BY <1>3, <1>6, <2>1, TextMode
  <2>5. mode \in Checks!Inspecting
    BY <1>4, <2>3, <2>4 DEF Checks!SanitizerPasses, Checks!Inspecting, Checks!TextModes
  <2>6. Checks!SVGPasses(file) \/ Checks!MarkupPasses(type, ext, file)
    BY <1>4, <2>2, <2>3, <2>5 DEF Checks!SanitizerPasses
  <2> QED  BY <1>1, <2>6 DEF Checks!SVGPasses, Checks!MarkupPasses, Checks!Free
<1>7. ASSUME file.looks \in {"pdf", "docx", "odt"} PROVE "active" \notin body.traits
  <2>1. type = file.looks /\ (ext \in Checks!KnownExtensions => ext = file.looks)
    BY <1>2, <1>7 DEF Names
  <2>2. /\ Checks!IsClass("pdf", type, ext) <=> file.looks = "pdf"
        /\ Checks!IsClass("office", type, ext) <=> file.looks = "docx"
        /\ Checks!IsClass("odf", type, ext) <=> file.looks = "odt"
    BY <1>7, <2>1 DEF Checks!IsClass, Checks!Members, Checks!KnownExtensions
  <2>3. Checks!FullScanned(policy, type, ext)
    BY <1>7, <2>2 DEF Checks!FullScanned, Checks!IsClass
  <2>4. Checks!PDFPasses(file) \/ Checks!OfficePasses(file) \/ Checks!OpenDocumentPasses(file)
    BY <1>5, <1>7, <2>2, <2>3 DEF Checks!FullScanPasses, Checks!Encrypted
  <2> QED  BY <1>1, <2>4 DEF Checks!PDFPasses, Checks!OfficePasses, Checks!OpenDocumentPasses, Checks!Free
<1>8. ASSUME file.looks \in {"png", "mp4"}, foreign => mode \in Checks!MediaModes, ~unfound
      PROVE  "meta" \notin body.traits
  <2>1. type = file.looks /\ (ext \in Checks!KnownExtensions => ext = file.looks)
    BY <1>2, <1>8 DEF Names
  <2>2. /\ \A class \in {"svg", "markup", "pdf", "office"} : ~Checks!IsClass(class, type, ext)
        /\ file.looks = "png" => Checks!IsClass("image", type, ext)
        /\ file.looks = "mp4" => Checks!IsClass("video", type, ext) /\ ~Checks!IsClass("image", type, ext)
    BY <1>8, <2>1 DEF Checks!IsClass, Checks!Members, Checks!KnownExtensions
  <2>3. Checks!ReadWhole(type, ext)
    BY <1>8, <2>2 DEF Checks!ReadWhole
  <2>4. mode \in Checks!MediaModes
    BY <1>3, <1>8, <2>1, MediaMode
  <2>5. /\ mode # "sanitize_when_supported"
        /\ file.looks = "png" => Checks!ImagePasses(mode, file)
        /\ file.looks = "mp4" => Checks!VideoPasses(mode, file)
    BY <1>4, <2>2, <2>3 DEF Checks!SanitizerPasses
  <2>6. CASE mode = "reject_on_sensitive_metadata"
    <3>1. file.looks = "mp4"
      BY <1>8, <2>5, <2>6 DEF Checks!ImagePasses
    <3> QED  BY <1>1, <2>5, <2>6, <3>1 DEF Checks!VideoPasses, Checks!Free
  <2>7. CASE mode \in Checks!Stripping
    BY <1>4, <1>8, <2>2, <2>3, <2>7 DEF Checks!Strips
  <2> QED  BY <2>4, <2>5, <2>6, <2>7 DEF Checks!MediaModes, Checks!Stripping
<1> QED  BY <1>1, <1>6, <1>7, <1>8

\* Nothing active, and no picture or film with metadata, is stored uninspected
\* because of its name or its declared type, for any uploads and any policies whose
\* modes fit the known names and the classes they are set for (inspectUploadPrefix,
\* applyFileSanitization).  The statement names what the code lets by: the modes set
\* for unknown extensions, and pictures whose metadata the search does not find.
THEOREM StoredAlwaysInspected ==
  ASSUME \A p \in Policies : Checks!ModesFit(p) PROVE MCSpec => []StoredWasInspected
<1>1. (scene = "intake" => IntakeInv) => StoredWasInspected
  BY IntakeInspects DEF IntakeInv, IntakeTypes, Checks!TypeOK, StoredWasInspected
<1> QED  BY <1>1, IntakeHolds, PTL

(***************************************************************************)
(* Searches (SearchOverlay).                                               *)
(***************************************************************************)

\* The cache has what the overlay no longer lists, whatever the indexer does.
Folded ==
    /\ \A f \in Files : cache[f] >= Search!Newest(f, 1, cursor)
    /\ run.pc = "cache" => run.last > cursor
    /\ overlay.since <= cursor /\ overlay.since <= overlay.last

\* What a request carries from one call to the next.
Carried ==
    /\ request.pc \in {"since", "list", "answer"} =>
         DOMAIN request = {"pc", "q", "began", "since", "still", "hits", "total", "counts"}
    /\ request.pc = "done" =>
         DOMAIN request = {"pc", "q", "began", "still", "last", "results", "counts"}
    /\ request.pc \in {"since", "list", "answer"} => request.hits \subseteq Files
    /\ request.pc # "idle" => request.began \in 0..Len(journal)
    /\ request.pc \in {"list", "answer"} => request.since \in 0..cursor
    /\ request.pc = "answer" => overlay.since = request.since

\* What has been shown is as new as what the overlay reaches.
ShownFromOverlay ==
    request.pc = "done" =>
        /\ request.last = overlay.last
        /\ \A f \in DOMAIN request.results.shown :
              /\ f \in Files /\ request.results.shown[f] \in Nat
              /\ request.results.shown[f] >= Search!Newest(f, 1, overlay.last)

\* Without a run in between, index and cache stand still under the request.
StandsStill ==
    request.pc # "idle" /\ request.still =>
        /\ run.pc = "idle" /\ index = cache /\ index = Search!Fold(cursor)
        /\ request.pc \in {"list", "answer"} => request.since = cursor

\* What the index found, in the index as it is now.
Found(q) == {f \in Files : Search!Indexed(q, f)}
Counted(q, c) == {f \in Found(q) : c \in Search!Child(q, Search!StateOf(index[f]).path)}

StillFound ==
    request.pc \in {"since", "list", "answer"} /\ request.still =>
        /\ request.hits = Search!Page(Found(request.q), request.q)
        /\ request.total = Cardinality(Found(request.q))
        /\ DOMAIN request.counts = Search!Children(request.q)
        /\ \A c \in Search!Children(request.q) :
              request.counts[c] = Cardinality(Counted(request.q, c))

\* The files that match when the journal is read up to last, and those of them
\* under a child.
Matching(q, last) ==
    {f \in Files : /\ Search!Newest(f, 1, last) > 0
                   /\ Search!Matches(q, Search!StateOf(Search!Newest(f, 1, last)))}
MatchingIn(q, c, last) ==
    {f \in Matching(q, last) :
        c \in Search!Child(q, Search!StateOf(Search!Newest(f, 1, last)).path)}

WholeListing ==
    request.still /\ ~request.q.text /\ request.q.offset = 0 /\ PageSize >= Cardinality(Files)

Exact ==
    request.pc = "done" /\ WholeListing =>
        /\ DOMAIN request.results.shown = Matching(request.q, overlay.last)
        /\ request.results.total = Cardinality(Matching(request.q, overlay.last))
        /\ \A c \in DOMAIN request.counts :
              request.counts[c] = Cardinality(MatchingIn(request.q, c, overlay.last))

SearchInv ==
    /\ Search!TypeOK /\ Folded /\ Carried /\ ShownFromOverlay /\ StandsStill /\ StillFound
    /\ Exact

-----------------------------------------------------------------------------
\* Cardinality means the same inside the instance.
LEMMA SameSize == ASSUME NEW S PROVE Search!Cardinality(S) = Cardinality(S)
BY DEF Search!Cardinality, Cardinality

\* The parameters the proofs about searches use.
LEMMA SearchConstants ==
  /\ Cardinality(Files) \in Nat /\ Files = 1..Cardinality(Files)
  /\ PageSize \in Nat \ {0} /\ MaxOverlay \in Nat \ {0} /\ MaxEvents \in Nat \ {0}
<1>1. Search!SearchAssumption
  BY RequestsAssumption
<1>2. {PageSize, MaxOverlay, MaxEvents} \subseteq Nat \ {0}
  BY <1>1 DEF Search!SearchAssumption
<1>3. Cardinality(Files) \in Nat /\ Files = 1..Cardinality(Files)
  <2>1. Search!Cardinality(Files) = Cardinality(Files)
    BY SameSize
  <2> QED  BY <1>1, <2>1 DEF Search!SearchAssumption
<1> QED  BY <1>2, <1>3

\* There are finitely many files, which are numbers.
LEMMA FilesAreFinite == IsFiniteSet(Files) /\ Cardinality(Files) \in Nat /\ Files \subseteq Nat
<1>1. IsFiniteSet(1..Cardinality(Files))
  BY SearchConstants, FS_Interval
<1> QED  BY <1>1, SearchConstants

-----------------------------------------------------------------------------
(* The newest event of a file.                                             *)

\* A non-empty set of numbers up to n has a greatest element.
LEMMA GreatestExists ==
  ASSUME NEW n \in Nat, NEW S \in SUBSET (0..n), S # {}
  PROVE  \E x \in S : \A y \in S : y <= x
<1> DEFINE R == StrictSubsetOrdering(0..n)
           Above(x) == x..n
           T == {Above(x) : x \in S}
<1>1. IsWellFoundedOn(R, FiniteSubsetsOf(0..n))
  BY FS_StrictSubsetOrderingWellFounded
<1>2. T \subseteq FiniteSubsetsOf(0..n) /\ T # {}
  <2>1. ASSUME NEW x \in S PROVE Above(x) \in FiniteSubsetsOf(0..n)
    <3>1. x \in 0..n /\ Above(x) \in SUBSET (0..n)
      OBVIOUS
    <3>2. IsFiniteSet(Above(x))
      BY <3>1, FS_Interval
    <3> QED  BY <3>1, <3>2 DEF FiniteSubsetsOf
  <2> QED  BY <2>1
<1>3. PICK t \in T : \A u \in T : <<u, t>> \notin R
  <2> HIDE DEF R, T
  <2> QED  BY <1>1, <1>2, WFMin
<1>4. PICK x \in S : t = Above(x)
  BY <1>3
<1>5. ASSUME NEW y \in S, y > x PROVE FALSE
  <2>1. Above(y) \in SUBSET (0..n) /\ Above(x) \in SUBSET (0..n) /\ Above(y) \subseteq Above(x)
    BY <1>5
  <2>2. x \in Above(x) /\ x \notin Above(y)
    BY <1>5
  <2>3. <<Above(y), Above(x)>> \in R
    BY <2>1, <2>2 DEF StrictSubsetOrdering
  <2> QED  BY <1>3, <1>4, <2>3
<1> QED  BY <1>5

\* The greatest of them is the one the model takes.
LEMMA GreatestIs ==
  ASSUME NEW n \in Nat, NEW S \in SUBSET (0..n), S # {}
  PROVE  Search!Max(S) \in S /\ \A y \in S : y <= Search!Max(S)
<1>1. PICK x \in S : \A y \in S : y <= x
  BY GreatestExists
<1>2. x \in S /\ \A y \in S : x >= y
  BY <1>1
<1> QED  BY <1>2 DEF Search!Max

\* Min of two numbers is the lesser.
LEMMA LesserOfTwo ==
  ASSUME NEW a \in Int, NEW b \in Int
  PROVE  Search!Min({a, b}) = IF a <= b THEN a ELSE b
BY DEF Search!Min

\* Max of two numbers is the greater.
LEMMA GreaterOfTwo ==
  ASSUME NEW a \in Int, NEW b \in Int
  PROVE  Search!Max({a, b}) = IF a >= b THEN a ELSE b
BY DEF Search!Max

\* The newest event of a file in a span of the journal.
LEMMA NewestIs ==
  ASSUME NEW f, NEW a \in Nat \ {0}, NEW b \in Nat
  PROVE  LET m == Search!Newest(f, a, b) IN
         /\ m \in 0..b
         /\ m # 0 => m \in a..b /\ journal[m].file = f
         /\ \A k \in a..b : journal[k].file = f => k <= m
<1> DEFINE S == {k \in a..b : journal[k].file = f} \cup {0}
<1>1. S \in SUBSET (0..b) /\ S # {}
  OBVIOUS
<1>2. Search!Newest(f, a, b) = Search!Max(S)
  BY DEF Search!Newest
<1>3. Search!Newest(f, a, b) \in S /\ \A y \in S : y <= Search!Newest(f, a, b)
  BY <1>1, <1>2, GreatestIs
<1> QED  BY <1>3

\* An event is the newest of a file in a span if no later one is of that file.
LEMMA NewestOnly ==
  ASSUME NEW f, NEW a \in Nat \ {0}, NEW b \in Nat, NEW m \in Nat,
         m # 0 => m \in a..b /\ journal[m].file = f,
         \A k \in a..b : journal[k].file = f => k <= m
  PROVE  Search!Newest(f, a, b) = m
<1>1. /\ Search!Newest(f, a, b) \in 0..b
      /\ Search!Newest(f, a, b) # 0 =>
           Search!Newest(f, a, b) \in a..b /\ journal[Search!Newest(f, a, b)].file = f
      /\ \A k \in a..b : journal[k].file = f => k <= Search!Newest(f, a, b)
  BY NewestIs
<1> QED  BY <1>1

\* A longer span has no older newest event.
LEMMA NewestGrows ==
  ASSUME NEW f, NEW b \in Nat, NEW c \in Nat, b <= c
  PROVE  /\ Search!Newest(f, 1, b) \in 0..b
         /\ Search!Newest(f, 1, b) <= Search!Newest(f, 1, c)
<1>1. /\ Search!Newest(f, 1, b) \in 0..b /\ Search!Newest(f, 1, c) \in 0..c
      /\ Search!Newest(f, 1, b) # 0 =>
           Search!Newest(f, 1, b) \in 1..b /\ journal[Search!Newest(f, 1, b)].file = f
      /\ \A k \in 1..c : journal[k].file = f => k <= Search!Newest(f, 1, c)
  BY NewestIs
<1> QED  BY <1>1

\* The events up to l are those up to s and the later ones.
LEMMA NewestSplits ==
  ASSUME NEW f, NEW s \in Nat, NEW l \in Nat, s <= l
  PROVE  Search!Newest(f, 1, l) =
           IF Search!Newest(f, s + 1, l) > 0 THEN Search!Newest(f, s + 1, l) ELSE Search!Newest(f, 1, s)
<1> DEFINE late == Search!Newest(f, s + 1, l)
           soon == Search!Newest(f, 1, s)
<1>1. /\ late \in 0..l
      /\ late # 0 => late \in (s + 1)..l /\ journal[late].file = f
      /\ \A k \in (s + 1)..l : journal[k].file = f => k <= late
  BY NewestIs
<1>2. /\ soon \in 0..s
      /\ soon # 0 => soon \in 1..s /\ journal[soon].file = f
      /\ \A k \in 1..s : journal[k].file = f => k <= soon
  BY NewestIs
<1> HIDE DEF late, soon
<1>3. CASE late > 0
  BY <1>1, <1>3, NewestOnly DEF late
<1>4. CASE late = 0
  <2>1. \A k \in 1..l : journal[k].file = f => k <= soon
    BY <1>1, <1>2, <1>4
  <2> QED  BY <1>2, <1>4, <2>1, NewestOnly DEF late, soon
<1> QED  BY <1>1, <1>3, <1>4 DEF late, soon

\* Events are only appended, so what is the newest up to a key stays so.
LEMMA NewestStays ==
  ASSUME NEW f, NEW a \in Nat \ {0}, NEW b \in Nat, \A k \in a..b : journal'[k] = journal[k]
  PROVE  Search!Newest(f, a, b)' = Search!Newest(f, a, b)
<1>1. {k \in a..b : journal'[k].file = f} = {k \in a..b : journal[k].file = f}
  OBVIOUS
<1> QED  BY <1>1 DEF Search!Newest

-----------------------------------------------------------------------------
(* The steps.                                                              *)

\* The types of the variables.
LEMMA SearchTypes ==
  ASSUME SearchInv
  PROVE  /\ journal \in Seq([file : Files, state : States]) /\ Len(journal) \in Nat /\ Len(journal) <= MaxEvents
         /\ index \in [Files -> 0..Len(journal)] /\ cache \in [Files -> 0..Len(journal)]
         /\ cursor \in 0..Len(journal) /\ run \in [pc : {"idle", "cache"}, last : 0..Len(journal)]
         /\ overlay \in [since : 0..Len(journal), last : 0..Len(journal), fresh : BOOLEAN]
         /\ request.pc \in {"idle", "since", "list", "answer", "done"}
<1>1. Search!TypeOK
  BY DEF SearchInv
<1>2. journal \in Seq([file : Files, state : States]) /\ Len(journal) <= MaxEvents
  BY <1>1 DEF Search!TypeOK
<1>3. {index, cache} \subseteq [Files -> 0..Len(journal)] /\ cursor \in 0..Len(journal)
  BY <1>1 DEF Search!TypeOK
<1>4. index \in [Files -> 0..Len(journal)] /\ cache \in [Files -> 0..Len(journal)]
  BY <1>3
<1>5. /\ run \in [pc : {"idle", "cache"}, last : 0..Len(journal)]
      /\ overlay \in [since : 0..Len(journal), last : 0..Len(journal), fresh : BOOLEAN]
      /\ request.pc \in {"idle", "since", "list", "answer", "done"}
  BY <1>1 DEF Search!TypeOK
<1> QED  BY <1>2, <1>3, <1>4, <1>5

\* A step that at most appends an event, or forgets that the overlay is fresh.
LEMMA Appended ==
  ASSUME SearchInv, journal' \in Seq([file : Files, state : States]),
         Len(journal') \in Len(journal)..MaxEvents,
         \A k \in 1..Len(journal) : journal'[k] = journal[k],
         overlay'.since = overlay.since, overlay'.last = overlay.last,
         overlay' \in [since : 0..Len(journal), last : 0..Len(journal), fresh : BOOLEAN],
         UNCHANGED <<index, cache, cursor, run, request>>
  PROVE  SearchInv'
<1> USE SearchConstants
<1>1. /\ Len(journal) \in Nat /\ Len(journal') \in Nat /\ Len(journal) <= Len(journal')
           /\ Len(journal') <= MaxEvents
      /\ index \in [Files -> 0..Len(journal)] /\ cache \in [Files -> 0..Len(journal)]
      /\ cursor \in 0..Len(journal) /\ run \in [pc : {"idle", "cache"}, last : 0..Len(journal)]
      /\ overlay.since \in 0..Len(journal) /\ overlay.last \in 0..Len(journal)
      /\ request.pc \in {"idle", "since", "list", "answer", "done"}
  <2>1. Len(journal) \in Nat /\ Len(journal') \in Nat
    BY SearchTypes
  <2> QED  BY <2>1, SearchTypes
<1>2. Search!TypeOK'
  <2>1. index \in [Files -> 0..Len(journal')] /\ cache \in [Files -> 0..Len(journal')]
    BY <1>1
  <2>2. run \in [pc : {"idle", "cache"}, last : 0..Len(journal')] /\ cursor \in 0..Len(journal')
    BY <1>1
  <2>3. overlay' \in [since : 0..Len(journal'), last : 0..Len(journal'), fresh : BOOLEAN]
    BY <1>1
  <2> QED  BY <1>1, <2>1, <2>2, <2>3 DEF Search!TypeOK
<1>3. ASSUME NEW f, NEW b \in 0..Len(journal) PROVE Search!Newest(f, 1, b)' = Search!Newest(f, 1, b)
  BY <1>1, NewestStays
<1>4. Folded'
  BY <1>1, <1>3 DEF SearchInv, Folded
<1>5. Carried'
  BY <1>1 DEF SearchInv, Carried
<1>6. ShownFromOverlay'
  BY <1>1, <1>3 DEF SearchInv, ShownFromOverlay
<1>7. StandsStill'
  <2>1. Search!Fold(cursor)' = Search!Fold(cursor)
    BY <1>1, <1>3 DEF Search!Fold
  <2> QED  BY <2>1 DEF SearchInv, StandsStill
<1>8. StillFound'
  <2>1. ASSUME NEW f \in Files, index[f] > 0 PROVE Search!StateOf(index[f])' = Search!StateOf(index[f])
    <3>1. index[f] \in 1..Len(journal) /\ index'[f] = index[f]
      BY <1>1, <2>1
    <3>2. journal'[index[f]] = journal[index[f]]
      BY <3>1
    <3> QED  BY <3>1, <3>2 DEF Search!StateOf
  <2>2. ASSUME NEW q, NEW f \in Files PROVE Search!Indexed(q, f)' <=> Search!Indexed(q, f)
    BY <2>1 DEF Search!Indexed
  <2>3. ASSUME NEW q PROVE Found(q)' = Found(q)
    BY <2>2 DEF Found
  <2>4. ASSUME NEW q, NEW c PROVE Counted(q, c)' = Counted(q, c)
    <3>1. ASSUME NEW f \in Found(q) PROVE Search!StateOf(index[f])' = Search!StateOf(index[f])
      BY <2>1 DEF Found, Search!Indexed
    <3> QED  BY <2>3, <3>1 DEF Counted
  <2> QED  BY <2>3, <2>4 DEF SearchInv, StillFound
<1>9. Exact'
  <2> DEFINE last == overlay.last
  <2>1. ASSUME NEW f PROVE Search!Newest(f, 1, last)' = Search!Newest(f, 1, last)
    BY <1>1, <1>3
  <2>2. ASSUME NEW f, Search!Newest(f, 1, last) > 0
        PROVE  Search!StateOf(Search!Newest(f, 1, last))' = Search!StateOf(Search!Newest(f, 1, last))
    <3>1. Search!Newest(f, 1, last) \in 0..last
      BY <1>1, NewestGrows
    <3>2. \A n \in 0..last : n > 0 => n \in 1..Len(journal)
      BY <1>1
    <3>3. Search!Newest(f, 1, last) \in 1..Len(journal)
      BY <2>2, <3>1, <3>2
    <3> QED  BY <2>1, <3>3 DEF Search!StateOf
  <2>3. ASSUME NEW q PROVE Matching(q, last)' = Matching(q, last)
    BY <2>1, <2>2 DEF Matching
  <2>4. ASSUME NEW q, NEW c PROVE MatchingIn(q, c, last)' = MatchingIn(q, c, last)
    BY <2>1, <2>2, <2>3 DEF MatchingIn, Matching
  <2> QED  BY <2>3, <2>4 DEF SearchInv, Exact, WholeListing
<1> QED  BY <1>2, <1>4, <1>5, <1>6, <1>7, <1>8, <1>9 DEF SearchInv

\* Before any event nothing is indexed or listed.
LEMMA SearchBegins ==
  ASSUME Search!Init PROVE SearchInv
<1> USE SearchConstants
<1>1. journal = <<>> /\ Len(journal) = 0 /\ cursor = 0
      /\ index = [f \in Files |-> 0] /\ cache = [f \in Files |-> 0] /\ run = [pc |-> "idle", last |-> 0]
      /\ overlay = [since |-> 0, last |-> 0, fresh |-> FALSE] /\ request.pc = "idle"
  BY DEF Search!Init, Search!NoRequest
<1>2. Search!TypeOK
  <2>1. journal \in Seq([file : Files, state : States]) /\ index \in [Files -> 0..0]
          /\ cache \in [Files -> 0..0]
    BY <1>1
  <2> QED  BY <1>1, <2>1 DEF Search!TypeOK
<1>3. Folded
  <2>1. ASSUME NEW f \in Files PROVE Search!Newest(f, 1, cursor) = 0
    BY <1>1, NewestGrows
  <2> QED  BY <1>1, <2>1 DEF Folded
<1>4. Carried /\ ShownFromOverlay /\ StandsStill /\ StillFound /\ Exact
  BY <1>1 DEF Carried, ShownFromOverlay, StandsStill, StillFound, Exact
<1> QED  BY <1>2, <1>3, <1>4 DEF SearchInv

\* After a step of the indexer the request is no longer a quiet one.
LEMMA Disturbs ==
  ASSUME SearchInv, Search!Disturbed, UNCHANGED <<journal, overlay>>, cursor' \in Nat, cursor <= cursor'
  PROVE  Carried' /\ ShownFromOverlay' /\ StandsStill' /\ StillFound' /\ Exact'
         /\ request'.pc \in {"idle", "since", "list", "answer", "done"}
<1>1. cursor \in Nat /\ Len(journal) \in Nat /\ request.pc \in {"idle", "since", "list", "answer", "done"}
  BY SearchTypes
<1>2. CASE request.pc = "idle"
  BY <1>2 DEF Search!Disturbed, Carried, ShownFromOverlay, StandsStill, StillFound, Exact
<1>3. CASE request.pc \in {"since", "list", "answer"}
  <2>1. DOMAIN request = {"pc", "q", "began", "since", "still", "hits", "total", "counts"}
    BY <1>3 DEF SearchInv, Carried
  <2>2. /\ DOMAIN request' = DOMAIN request /\ ~request'.still
        /\ request'.pc = request.pc /\ request'.began = request.began /\ request'.hits = request.hits
        /\ request'.since = request.since
    BY <1>3, <2>1 DEF Search!Disturbed
  <2>3. Carried'
    BY <1>1, <1>3, <2>1, <2>2 DEF SearchInv, Carried
  <2> QED  BY <1>3, <2>2, <2>3 DEF ShownFromOverlay, StandsStill, StillFound, Exact
<1>4. CASE request.pc = "done"
  <2>1. DOMAIN request = {"pc", "q", "began", "still", "last", "results", "counts"}
    BY <1>4 DEF SearchInv, Carried
  <2>2. /\ DOMAIN request' = DOMAIN request /\ ~request'.still
        /\ request'.pc = request.pc /\ request'.began = request.began
        /\ request'.last = request.last /\ request'.results = request.results
    BY <1>4, <2>1 DEF Search!Disturbed
  <2>3. Carried'
    BY <1>1, <1>4, <2>1, <2>2 DEF SearchInv, Carried
  <2>4. ShownFromOverlay'
    BY <1>4, <2>2 DEF SearchInv, ShownFromOverlay, Search!Newest
  <2> QED  BY <1>4, <2>2, <2>3, <2>4 DEF StandsStill, StillFound, Exact, WholeListing
<1> QED  BY <1>1, <1>2, <1>3, <1>4

\* The cache only gains, and has the events up to the key when the key moves.
LEMMA IndexerSteps ==
  ASSUME SearchInv, Search!Commit \/ Search!PutCache \/ Search!SetLast \/ Search!RunFails
  PROVE  SearchInv'
<1> USE SearchConstants
<1>1. Search!Disturbed /\ UNCHANGED <<journal, overlay>>
  BY DEF Search!Commit, Search!PutCache, Search!SetLast, Search!RunFails
<1>2. /\ Len(journal) \in Nat /\ Len(journal) <= MaxEvents /\ journal \in Seq([file : Files, state : States])
      /\ index \in [Files -> 0..Len(journal)] /\ cache \in [Files -> 0..Len(journal)]
      /\ cursor \in 0..Len(journal) /\ run \in [pc : {"idle", "cache"}, last : 0..Len(journal)]
      /\ overlay \in [since : 0..Len(journal), last : 0..Len(journal), fresh : BOOLEAN]
  BY SearchTypes
<1>3. ASSUME NEW f \in Files, NEW b \in 0..Len(journal) PROVE Search!Newest(f, 1, b) \in 0..Len(journal)
  <2>1. Search!Newest(f, 1, b) \in 0..b
    BY <1>2, NewestGrows
  <2> QED  BY <1>2, <2>1
<1>4. ASSUME NEW f, NEW b PROVE Search!Newest(f, 1, b)' = Search!Newest(f, 1, b)
  BY <1>1 DEF Search!Newest
<1>5. /\ index' \in [Files -> 0..Len(journal)] /\ cache' \in [Files -> 0..Len(journal)]
      /\ cursor' \in 0..Len(journal) /\ cursor <= cursor'
      /\ run' \in [pc : {"idle", "cache"}, last : 0..Len(journal)]
      /\ \A f \in Files : cache'[f] >= Search!Newest(f, 1, cursor')
      /\ run'.pc = "cache" => run'.last > cursor'
  <2>1. CASE Search!Commit
    <3>1. PICK last \in (cursor + 1)..Len(journal) :
             /\ index' = [f \in Files |-> Search!Max({index[f], Search!Newest(f, 1, last)})]
             /\ run' = [pc |-> "cache", last |-> last]
      BY <2>1 DEF Search!Commit
    <3>2. last \in 0..Len(journal) /\ last > cursor
      BY <1>2
    <3>3. ASSUME NEW f \in Files PROVE Search!Max({index[f], Search!Newest(f, 1, last)}) \in 0..Len(journal)
      <4>1. Search!Newest(f, 1, last) \in 0..Len(journal) /\ index[f] \in 0..Len(journal)
        BY <1>2, <1>3, <3>2
      <4>2. Search!Newest(f, 1, last) \in Int /\ index[f] \in Int
        BY <1>2, <4>1
      <4> QED  BY <4>1, <4>2, GreaterOfTwo
    <3>4. index' \in [Files -> 0..Len(journal)]
      BY <3>1, <3>3
    <3>5. cache' = cache /\ cursor' = cursor
      BY <2>1 DEF Search!Commit
    <3>6. run' \in [pc : {"idle", "cache"}, last : 0..Len(journal)] /\ run'.last > cursor
      BY <3>1, <3>2
    <3>7. \A f \in Files : cache'[f] >= Search!Newest(f, 1, cursor')
      BY <3>5 DEF SearchInv, Folded
    <3>8. cursor' \in 0..Len(journal) /\ cursor <= cursor' /\ cache' \in [Files -> 0..Len(journal)]
          /\ run'.last > cursor'
      BY <1>2, <3>5, <3>6
    <3> QED  BY <3>4, <3>6, <3>7, <3>8
  <2>2. CASE Search!PutCache
    <3>1. PICK g \in Files :
             /\ Search!Newest(g, 1, run.last) > cache[g]
             /\ cache' = [cache EXCEPT ![g] = Search!Newest(g, 1, run.last)]
      BY <2>2 DEF Search!PutCache
    <3>2. run.last \in 0..Len(journal)
      BY <1>2
    <3>3. Search!Newest(g, 1, run.last) \in 0..Len(journal)
      BY <1>3, <3>2
    <3>4. cache' \in [Files -> 0..Len(journal)] /\ \A f \in Files : cache'[f] >= cache[f]
      <4>1. ASSUME NEW v \in 0..Len(journal), v > cache[g]
            PROVE  /\ [cache EXCEPT ![g] = v] \in [Files -> 0..Len(journal)]
                   /\ \A f \in Files : [cache EXCEPT ![g] = v][f] >= cache[f]
        <5>1. [cache EXCEPT ![g] = v] \in [Files -> 0..Len(journal)]
          BY <1>2
        <5>2. ASSUME NEW f \in Files PROVE [cache EXCEPT ![g] = v][f] >= cache[f]
          <6>1. cache[f] \in Int /\ v \in Int
            BY <1>2
          <6>2. [cache EXCEPT ![g] = v][f] = IF f = g THEN v ELSE cache[f]
            BY <1>2
          <6> QED  BY <4>1, <6>1, <6>2
        <5> QED  BY <5>1, <5>2
      <4> QED  BY <3>1, <3>3, <4>1
    <3>5. UNCHANGED <<index, cursor, run>>
      BY <2>2 DEF Search!PutCache
    <3>6. ASSUME NEW f \in Files
          PROVE  Search!Newest(f, 1, cursor) \in Int /\ cache[f] >= Search!Newest(f, 1, cursor)
      BY <1>2, <1>3 DEF SearchInv, Folded
    <3>7. ASSUME NEW f \in Files PROVE cache'[f] >= Search!Newest(f, 1, cursor)
      <4>1. cache'[f] \in Int /\ cache[f] \in Int /\ cache'[f] >= cache[f]
        BY <1>2, <3>4
      <4> QED  BY <3>6, <4>1
    <3>8. \A f \in Files : cache'[f] >= Search!Newest(f, 1, cursor')
      BY <3>5, <3>7
    <3>9. /\ cursor' \in 0..Len(journal) /\ cursor <= cursor' /\ index' \in [Files -> 0..Len(journal)]
          /\ run' \in [pc : {"idle", "cache"}, last : 0..Len(journal)]
          /\ run'.pc = "cache" => run'.last > cursor'
      BY <1>2, <3>5 DEF SearchInv, Folded
    <3>10. cache' \in [Files -> 0..Len(journal)]
      BY <3>4
    <3> QED  BY <3>8, <3>9, <3>10
  <2>3. CASE Search!SetLast
    <3>1. /\ cursor' = run.last /\ run' = [run EXCEPT !.pc = "idle"] /\ run.pc = "cache"
          /\ \A f \in Files : cache[f] >= Search!Newest(f, 1, run.last)
          /\ UNCHANGED <<index, cache>>
      BY <2>3 DEF Search!SetLast, Search!Cached
    <3>2. run.last > cursor /\ run.last \in 0..Len(journal)
      BY <1>2, <3>1 DEF SearchInv, Folded
    <3>3. run' \in [pc : {"idle", "cache"}, last : 0..Len(journal)] /\ run'.pc = "idle"
      BY <1>2, <3>1
    <3>4. \A f \in Files : cache'[f] >= Search!Newest(f, 1, cursor')
      BY <3>1, Zenon
    <3>5. index' \in [Files -> 0..Len(journal)] /\ cache' \in [Files -> 0..Len(journal)]
      BY <1>2, <3>1
    <3>6. cursor' \in 0..Len(journal) /\ cursor <= cursor'
      <4>1. cursor \in Int /\ run.last \in Int
        BY <1>2, <3>2
      <4> QED  BY <3>1, <3>2, <4>1
    <3> QED  BY <3>3, <3>4, <3>5, <3>6
  <2>4. CASE Search!RunFails
    <3>1. run' = [run EXCEPT !.pc = "idle"] /\ UNCHANGED <<index, cache, cursor>>
      BY <2>4 DEF Search!RunFails
    <3>2. run' \in [pc : {"idle", "cache"}, last : 0..Len(journal)] /\ run'.pc = "idle"
      BY <1>2, <3>1
    <3>3. \A f \in Files : cache'[f] >= Search!Newest(f, 1, cursor')
      BY <3>1 DEF SearchInv, Folded
    <3>4. /\ index' \in [Files -> 0..Len(journal)] /\ cache' \in [Files -> 0..Len(journal)]
          /\ cursor' \in 0..Len(journal) /\ cursor <= cursor'
      BY <1>2, <3>1
    <3> QED  BY <3>2, <3>3, <3>4
  <2> QED  BY <2>1, <2>2, <2>3, <2>4
<1>6. Folded'
  <2>1. overlay'.since <= cursor' /\ overlay'.since <= overlay'.last
    BY <1>1, <1>2, <1>5 DEF SearchInv, Folded
  <2>2. ASSUME NEW f \in Files PROVE cache'[f] >= Search!Newest(f, 1, cursor)'
    BY <1>1, <1>5 DEF Search!Newest
  <2> QED  BY <1>5, <2>1, <2>2 DEF Folded
<1>7. Carried' /\ ShownFromOverlay' /\ StandsStill' /\ StillFound' /\ Exact'
      /\ request'.pc \in {"idle", "since", "list", "answer", "done"}
  BY <1>1, <1>2, <1>5, Disturbs
<1>8. Search!TypeOK'
  BY <1>1, <1>2, <1>5, <1>7 DEF Search!TypeOK
<1> QED  BY <1>6, <1>7, <1>8 DEF SearchInv

\* A request asks the index, and what it found stays what is in the index.
LEMMA SearchAsks ==
  ASSUME SearchInv, Search!AskIndex PROVE SearchInv'
<1>1. UNCHANGED <<journal, index, cache, cursor, run, overlay>>
  BY DEF Search!AskIndex
<1>2. PICK q \in Queries :
        request' = [pc |-> "since", q |-> q, began |-> Len(journal), since |-> 0,
                    still |-> run.pc = "idle" /\ index = cache /\ index = Search!Fold(cursor),
                    hits |-> Search!Page(Found(q), q), total |-> Search!Cardinality(Found(q)),
                    counts |-> [c \in Search!Children(q) |-> Search!Cardinality(Counted(q, c))]]
  BY DEF Search!AskIndex, Found, Counted
<1>3. /\ request'.pc = "since" /\ request'.q = q /\ request'.began = Len(journal)
      /\ request'.hits = Search!Page(Found(q), q) /\ request'.total = Cardinality(Found(q))
      /\ request'.counts = [c \in Search!Children(q) |-> Search!Cardinality(Counted(q, c))]
      /\ DOMAIN request' = {"pc", "q", "began", "since", "still", "hits", "total", "counts"}
  BY <1>2, SameSize
<1>4. request'.still = (run.pc = "idle" /\ index = cache /\ index = Search!Fold(cursor))
  BY <1>2
<1>5. ASSUME NEW f, NEW b PROVE Search!Newest(f, 1, b)' = Search!Newest(f, 1, b)
  BY <1>1 DEF Search!Newest
<1>6. Search!TypeOK' /\ Folded'
  BY <1>1, <1>3, <1>5 DEF SearchInv, Search!TypeOK, Folded
<1>7. Carried'
  <2>1. Len(journal) \in 0..Len(journal)
    BY SearchTypes
  <2>2. Search!Page(Found(q), q) \subseteq Files
    BY DEF Search!Page, Found
  <2> QED  BY <1>1, <1>3, <2>1, <2>2 DEF Carried
<1>8. ShownFromOverlay' /\ Exact'
  BY <1>3 DEF ShownFromOverlay, Exact
<1>9. StandsStill'
  <2>1. Search!Fold(cursor)' = Search!Fold(cursor)
    BY <1>1, <1>5 DEF Search!Fold
  <2> QED  BY <1>1, <1>3, <1>4, <2>1 DEF StandsStill
<1>10. StillFound'
  <2>1. ASSUME NEW c PROVE Found(q)' = Found(q) /\ Counted(q, c)' = Counted(q, c)
    BY <1>1 DEF Found, Counted, Search!Indexed, Search!StateOf
  <2>2. /\ request'.hits = Search!Page(Found(q)', q) /\ request'.total = Cardinality(Found(q)')
        /\ DOMAIN request'.counts = Search!Children(q)
        /\ \A c \in Search!Children(q) : request'.counts[c] = Cardinality(Counted(q, c)')
    BY <1>3, <2>1, SameSize
  <2> QED  BY <1>3, <2>2 DEF StillFound
<1> QED  BY <1>6, <1>7, <1>8, <1>9, <1>10 DEF SearchInv

\* What a query finds depends on the index and the journal alone.
LEMMA IndexStays ==
  ASSUME UNCHANGED <<journal, index>>, NEW q
  PROVE  Found(q)' = Found(q) /\ \A c : Counted(q, c)' = Counted(q, c)
BY DEF Found, Counted, Search!Indexed, Search!StateOf

\* A request reads the key of the indexer.
LEMMA SearchReadsKey ==
  ASSUME SearchInv, Search!ReadKey PROVE SearchInv'
<1>1. /\ UNCHANGED <<journal, index, cache, cursor, run, overlay>> /\ request.pc = "since"
      /\ request' = [request EXCEPT !.pc = "list", !.since = cursor]
  BY DEF Search!ReadKey
<1>2. DOMAIN request = {"pc", "q", "began", "since", "still", "hits", "total", "counts"}
  BY <1>1 DEF SearchInv, Carried
<1>3. DOMAIN request' = DOMAIN request /\ request'.pc = "list" /\ request'.since = cursor
      /\ request'.q = request.q /\ request'.began = request.began /\ request'.still = request.still
      /\ request'.hits = request.hits /\ request'.total = request.total /\ request'.counts = request.counts
  BY <1>1, <1>2
<1>4. ASSUME NEW f, NEW b PROVE Search!Newest(f, 1, b)' = Search!Newest(f, 1, b)
  BY <1>1 DEF Search!Newest
<1>5. Search!TypeOK' /\ Folded'
  BY <1>1, <1>3, <1>4 DEF SearchInv, Search!TypeOK, Folded
<1>6. Carried'
  <2>1. cursor \in 0..cursor
    BY SearchTypes
  <2> QED  BY <1>1, <1>2, <1>3, <2>1 DEF SearchInv, Carried
<1>7. ShownFromOverlay' /\ Exact'
  BY <1>3 DEF ShownFromOverlay, Exact
<1>8. StandsStill'
  <2>1. Search!Fold(cursor)' = Search!Fold(cursor)
    BY <1>1, <1>4 DEF Search!Fold
  <2> QED  BY <1>1, <1>3, <2>1 DEF SearchInv, StandsStill
<1>9. StillFound'
  BY <1>1, <1>3, IndexStays DEF SearchInv, StillFound
<1> QED  BY <1>5, <1>6, <1>7, <1>8, <1>9 DEF SearchInv

\* A request lists the overlay, or finds it still fresh for that key.
LEMMA SearchLists ==
  ASSUME SearchInv, Search!ListOverlay PROVE SearchInv'
<1> USE SearchConstants
<1>1. /\ UNCHANGED <<journal, index, cache, cursor, run>> /\ request.pc = "list"
      /\ request' = [request EXCEPT !.pc = "answer"]
  BY DEF Search!ListOverlay
<1>2. DOMAIN request = {"pc", "q", "began", "since", "still", "hits", "total", "counts"}
  BY <1>1 DEF SearchInv, Carried
<1>3. DOMAIN request' = DOMAIN request /\ request'.pc = "answer" /\ request'.since = request.since
      /\ request'.q = request.q /\ request'.began = request.began /\ request'.still = request.still
      /\ request'.hits = request.hits /\ request'.total = request.total /\ request'.counts = request.counts
  BY <1>1, <1>2
<1>4. ASSUME NEW f, NEW b PROVE Search!Newest(f, 1, b)' = Search!Newest(f, 1, b)
  BY <1>1 DEF Search!Newest
<1>5. /\ Len(journal) \in Nat /\ cursor \in 0..Len(journal) /\ request.since \in 0..cursor
      /\ overlay \in [since : 0..Len(journal), last : 0..Len(journal), fresh : BOOLEAN]
      /\ overlay.since <= overlay.last /\ OverlayTTL \in BOOLEAN
  <2>1. OverlayTTL \in BOOLEAN
    BY RequestsAssumption DEF Search!SearchAssumption
  <2> QED  BY <1>1, <2>1, SearchTypes DEF SearchInv, Carried, Folded
<1>6. /\ overlay' \in [since : 0..Len(journal), last : 0..Len(journal), fresh : BOOLEAN]
      /\ overlay'.since = request.since /\ overlay'.since <= overlay'.last
  <2>1. CASE overlay.fresh /\ overlay.since = request.since
    BY <1>5, <2>1 DEF Search!ListOverlay
  <2>2. CASE ~(overlay.fresh /\ overlay.since = request.since)
    <3>1. PICK last : /\ last = Search!Min({Len(journal), request.since + MaxOverlay})
                      /\ overlay' = [since |-> request.since, fresh |-> OverlayTTL, last |-> last]
      BY <2>2 DEF Search!ListOverlay
    <3>2. last \in 0..Len(journal) /\ request.since <= last /\ request.since \in 0..Len(journal)
      <4>1. Len(journal) \in Int /\ request.since + MaxOverlay \in Int
        BY <1>5
      <4>2. last = IF Len(journal) <= request.since + MaxOverlay THEN Len(journal)
                   ELSE request.since + MaxOverlay
        BY <3>1, <4>1, LesserOfTwo
      <4> QED  BY <1>5, <4>2
    <3> QED  BY <1>5, <3>1, <3>2
  <2> QED  BY <2>1, <2>2
<1>7. Search!TypeOK'
  BY <1>1, <1>3, <1>6 DEF SearchInv, Search!TypeOK
<1>8. Folded'
  BY <1>1, <1>4, <1>5, <1>6 DEF SearchInv, Folded
<1>9. Carried'
  BY <1>1, <1>2, <1>3, <1>6 DEF SearchInv, Carried
<1>10. ShownFromOverlay' /\ Exact'
  BY <1>3 DEF ShownFromOverlay, Exact
<1>11. StandsStill'
  <2>1. Search!Fold(cursor)' = Search!Fold(cursor)
    BY <1>1, <1>4 DEF Search!Fold
  <2> QED  BY <1>1, <1>3, <2>1 DEF SearchInv, StandsStill
<1>12. StillFound'
  BY <1>1, <1>3, IndexStays DEF SearchInv, StillFound
<1> QED  BY <1>7, <1>8, <1>9, <1>10, <1>11, <1>12 DEF SearchInv

\* A request is forgotten.
LEMMA SearchForgets ==
  ASSUME SearchInv, Search!Forget PROVE SearchInv'
<1>1. UNCHANGED <<journal, index, cache, cursor, run, overlay>> /\ request'.pc = "idle"
  BY DEF Search!Forget, Search!NoRequest
<1>2. ASSUME NEW f, NEW b PROVE Search!Newest(f, 1, b)' = Search!Newest(f, 1, b)
  BY <1>1 DEF Search!Newest
<1>3. Search!TypeOK' /\ Folded'
  BY <1>1, <1>2 DEF SearchInv, Search!TypeOK, Folded
<1>4. Carried' /\ ShownFromOverlay' /\ StandsStill' /\ StillFound' /\ Exact'
  BY <1>1 DEF Carried, ShownFromOverlay, StandsStill, StillFound, Exact
<1> QED  BY <1>3, <1>4 DEF SearchInv

-----------------------------------------------------------------------------
(* The answer.                                                             *)

\* The newest event the request knows of a file: of its overlay, or the one
\* the cache had folded before.
LEMMA NewestKnown ==
  ASSUME SearchInv, NEW f \in Files
  PROVE  /\ Search!Overlaid(f) \in Nat /\ cache[f] \in Nat
         /\ Search!Newest(f, 1, overlay.last) \in Nat
         /\ Search!Overlaid(f) > 0 => Search!Newest(f, 1, overlay.last) = Search!Overlaid(f)
         /\ Search!Overlaid(f) = 0 =>
              Search!Newest(f, 1, overlay.last) = Search!Newest(f, 1, overlay.since)
         /\ Search!Newest(f, 1, overlay.since) <= cache[f]
<1>1. /\ Len(journal) \in Nat /\ overlay.since \in Nat /\ overlay.last \in Nat /\ cursor \in Nat
      /\ cache[f] \in Nat
  BY SearchTypes
<1>2. overlay.since <= cursor /\ overlay.since <= overlay.last /\ cache[f] >= Search!Newest(f, 1, cursor)
  BY DEF SearchInv, Folded
<1>3. Search!Newest(f, 1, overlay.last) =
        IF Search!Newest(f, overlay.since + 1, overlay.last) > 0
        THEN Search!Newest(f, overlay.since + 1, overlay.last) ELSE Search!Newest(f, 1, overlay.since)
  <2>1. ASSUME NEW s \in Nat, NEW l \in Nat, s <= l
        PROVE  Search!Newest(f, 1, l) =
                 IF Search!Newest(f, s + 1, l) > 0 THEN Search!Newest(f, s + 1, l)
                 ELSE Search!Newest(f, 1, s)
    BY <2>1, NewestSplits
  <2> QED  BY <1>1, <1>2, <2>1
<1>4. Search!Newest(f, overlay.since + 1, overlay.last) \in 0..overlay.last
  BY <1>1, NewestIs
<1>5. /\ Search!Newest(f, 1, overlay.since) \in 0..overlay.since
      /\ Search!Newest(f, 1, overlay.since) <= Search!Newest(f, 1, cursor)
      /\ Search!Newest(f, 1, cursor) \in 0..cursor
  BY <1>1, <1>2, NewestGrows
<1>6. Search!Newest(f, 1, overlay.last) \in 0..overlay.last
  BY <1>1, NewestGrows
<1> QED  BY <1>1, <1>2, <1>3, <1>4, <1>5, <1>6 DEF Search!Overlaid

\* An answer shows a file as new as the overlay reaches.
LEMMA AnswerIsCurrent ==
  ASSUME SearchInv, request.pc = "answer", NEW q, NEW f \in DOMAIN Search!Results(q).shown
  PROVE  /\ f \in Files /\ Search!Results(q).shown[f] \in Nat
         /\ Search!Results(q).shown[f] >= Search!Newest(f, 1, overlay.last)
<1> DEFINE kept == {g \in request.hits : Search!Shown(q, g) > 0}
           added == {g \in Files : Search!Added(q, g)}
<1>1. Search!Results(q).shown =
        [g \in kept \cup added |-> IF g \in kept THEN Search!Shown(q, g) ELSE Search!Overlaid(g)]
  BY DEF Search!Results
<1>2. f \in kept \cup added
  BY <1>1
<1>3. f \in Files
  BY <1>2 DEF SearchInv, Carried
<1>4. Search!Results(q).shown[f] = IF f \in kept THEN Search!Shown(q, f) ELSE Search!Overlaid(f)
  BY <1>1, <1>2
<1>5. CASE f \in kept
  <2>1. Search!Shown(q, f) > 0
    BY <1>5
  <2>2. Search!Shown(q, f) \in {0, Search!Overlaid(f), cache[f]}
        /\ (Search!Shown(q, f) # 0 =>
              Search!Shown(q, f) = IF Search!Overlaid(f) > 0 THEN Search!Overlaid(f) ELSE cache[f])
    BY DEF Search!Shown
  <2>3. Search!Shown(q, f) = IF Search!Overlaid(f) > 0 THEN Search!Overlaid(f) ELSE cache[f]
    BY <1>3, <2>1, <2>2, NewestKnown
  <2> QED  BY <1>3, <1>4, <1>5, <2>3, NewestKnown
<1>6. CASE f \notin kept
  <2>1. Search!Overlaid(f) > 0
    BY <1>2, <1>6 DEF Search!Added
  <2> QED  BY <1>3, <1>4, <1>6, <2>1, NewestKnown
<1> QED  BY <1>5, <1>6

\* A set of files is counted in two parts.
LEMMA FilesPart ==
  ASSUME NEW A \in SUBSET Files, NEW B \in SUBSET Files
  PROVE  /\ Cardinality(A) \in Nat
         /\ Cardinality(A) = Cardinality(A \cap B) + Cardinality(A \ B)
         /\ Cardinality(A) <= Cardinality(Files)
<1>1. IsFiniteSet(A) /\ IsFiniteSet(A \cap B) /\ IsFiniteSet(A \ B)
  BY FilesAreFinite, FS_Subset
<1>2. Cardinality(A) \in Nat /\ Cardinality(A \cap B) \in Nat /\ Cardinality(A \ B) \in Nat
  BY <1>1, FS_CardinalityType
<1>3. Cardinality(A \ B) = Cardinality(A) - Cardinality(A \cap B)
  BY <1>1, FS_Difference
<1>4. Cardinality(A) <= Cardinality(Files)
  BY FilesAreFinite, FS_Subset
<1> QED  BY <1>2, <1>3, <1>4

\* All of a set of files is on a first page that is long enough.
LEMMA WholePage ==
  ASSUME NEW q, q.offset = 0, PageSize >= Cardinality(Files), NEW fs \in SUBSET Files
  PROVE  Search!Page(fs, q) = fs
<1>1. PageSize \in Nat /\ Cardinality(Files) \in Nat /\ Files \subseteq Nat /\ IsFiniteSet(Files)
  BY SearchConstants, FilesAreFinite
<1>2. ASSUME NEW f \in fs PROVE Search!Cardinality({g \in fs : g < f}) \in q.offset..(q.offset + PageSize - 1)
  <2> DEFINE S == {g \in fs : g < f}
  <2>1. S \subseteq Files /\ S # Files
    <3>1. f \in Files /\ f \in Nat
      BY <1>1
    <3>2. f \notin S
      BY <3>1
    <3> QED  BY <3>1, <3>2
  <2>2. Cardinality(S) \in Nat /\ Cardinality(S) < Cardinality(Files)
    <3>1. IsFiniteSet(S) /\ Cardinality(S) <= Cardinality(Files)
          /\ (Cardinality(S) = Cardinality(Files) => S = Files)
      BY <1>1, <2>1, FS_Subset
    <3>2. Cardinality(S) \in Nat
      BY <3>1, FS_CardinalityType
    <3> QED  BY <1>1, <2>1, <3>1, <3>2
  <2>3. Search!Cardinality(S) = Cardinality(S)
    BY SameSize
  <2> HIDE DEF S
  <2>4. Search!Cardinality(S) \in q.offset..(q.offset + PageSize - 1)
    BY <1>1, <2>2, <2>3
  <2> QED  BY <2>4 DEF S
<1> QED  BY <1>2 DEF Search!Page

\* The number of a set of files after some of them left and others came.
LEMMA Exchanged ==
  ASSUME NEW A \in SUBSET Files, NEW X \in SUBSET A, NEW Y \in SUBSET Files, Y \cap (A \ X) = {}
  PROVE  Cardinality(A) - Cardinality(X) + Cardinality(Y) = Cardinality((A \ X) \cup Y)
<1>1. IsFiniteSet(A) /\ IsFiniteSet(X) /\ IsFiniteSet(Y) /\ IsFiniteSet(A \ X)
  BY FilesAreFinite, FS_Subset
<1>2. /\ Cardinality(A) \in Nat /\ Cardinality(X) \in Nat /\ Cardinality(Y) \in Nat
      /\ Cardinality(A \ X) \in Nat /\ Cardinality({}) = 0
  BY <1>1, FS_CardinalityType, FS_EmptySet
<1>3. Cardinality(A \ X) = Cardinality(A) - Cardinality(X)
  <2>1. A \cap X = X
    OBVIOUS
  <2>2. Cardinality(A \ X) = Cardinality(A) - Cardinality(A \cap X)
    BY <1>1, FS_Difference
  <2> QED  BY <2>1, <2>2
<1>4. Cardinality((A \ X) \cup Y) = Cardinality(A \ X) + Cardinality(Y)
  <2>1. (A \ X) \cap Y = {}
    OBVIOUS
  <2>2. Cardinality((A \ X) \cup Y) =
          Cardinality(A \ X) + Cardinality(Y) - Cardinality((A \ X) \cap Y)
    BY <1>1, FS_Union
  <2>3. Cardinality((A \ X) \cap Y) = 0
    BY <1>2, <2>1
  <2>4. ASSUME NEW n, NEW k \in Nat, NEW m \in Nat, n = k + m - 0 PROVE n = k + m
    BY <2>4
  <2> QED  BY <1>2, <2>2, <2>3, <2>4
<1> QED  BY <1>2, <1>3, <1>4

\* A quiet answer is what the journal says as far as the overlay reaches.
LEMMA ExactAnswer ==
  ASSUME SearchInv, request.pc = "answer", WholeListing, NEW q, q = request.q
  PROVE  /\ DOMAIN Search!Results(q).shown = Matching(q, overlay.last)
         /\ Search!Results(q).total = Cardinality(Matching(q, overlay.last))
         /\ \A c \in DOMAIN Search!Patched(q) :
               Search!Patched(q)[c] = Cardinality(MatchingIn(q, c, overlay.last))
<1> DEFINE latest(f) == Search!Newest(f, 1, overlay.last)
           kept == {f \in request.hits : Search!Shown(q, f) > 0}
           added == {f \in Files : Search!Added(q, f)}
           M == Matching(q, overlay.last)
           H == Found(q)
           O == {f \in Files : Search!Overlaid(f) > 0}
<1>1. request.still /\ ~q.text /\ q.offset = 0 /\ PageSize >= Cardinality(Files)
  BY DEF WholeListing
<1>2. /\ index = cache /\ index = Search!Fold(cursor) /\ overlay.since = cursor
      /\ request.hits = Search!Page(H, q) /\ request.total = Cardinality(H)
      /\ DOMAIN request.counts = Search!Children(q)
      /\ \A c \in Search!Children(q) : request.counts[c] = Cardinality(Counted(q, c))
  BY <1>1 DEF SearchInv, StandsStill, StillFound, Carried
<1>3. H \in SUBSET Files /\ M \in SUBSET Files /\ request.hits = H
  <2>1. H \in SUBSET Files
    BY DEF Found
  <2> QED  BY <1>1, <1>2, <2>1, WholePage DEF Matching
<1>4. ASSUME NEW f \in Files
      PROVE  /\ Search!Overlaid(f) \in Nat /\ cache[f] \in Nat /\ latest(f) \in Nat /\ index[f] = cache[f]
             /\ latest(f) = IF Search!Overlaid(f) > 0 THEN Search!Overlaid(f) ELSE cache[f]
  <2>1. cache[f] = Search!Newest(f, 1, overlay.since)
    BY <1>2 DEF Search!Fold
  <2> QED  BY <1>2, <2>1, NewestKnown
<1>5. ASSUME NEW f \in Files
      PROVE  f \in H <=> cache[f] > 0 /\ Search!Matches(q, Search!StateOf(cache[f]))
  BY <1>1, <1>4 DEF Found, Search!Indexed, Search!Matches
<1>6. ASSUME NEW f \in Files PROVE f \in M <=> latest(f) > 0 /\ Search!Matches(q, Search!StateOf(latest(f)))
  BY DEF Matching
<1>7. kept = H \cap M
  <2>1. ASSUME NEW f \in H PROVE Search!Shown(q, f) > 0 <=> f \in M
    <3>1. f \in Files
      BY <1>3
    <3>2. Search!Shown(q, f) = IF \/ latest(f) = 0
                                  \/ (Search!Overlaid(f) > 0 /\ ~Search!Matches(q, Search!StateOf(latest(f))))
                                  \/ (latest(f) > 0 /\ Search!StateOf(latest(f)).deleted)
                               THEN 0 ELSE latest(f)
      BY <1>4, <3>1 DEF Search!Shown
    <3>3. Search!Matches(q, Search!StateOf(latest(f))) => ~Search!StateOf(latest(f)).deleted
      BY DEF Search!Matches
    <3>4. latest(f) \in Nat
      BY <1>4, <3>1
    <3>5. CASE Search!Overlaid(f) > 0
      BY <1>6, <3>1, <3>2, <3>3, <3>4, <3>5
    <3>6. CASE ~(Search!Overlaid(f) > 0)
      <4>1. latest(f) = cache[f]
        BY <1>4, <3>1, <3>6
      <4>2. latest(f) > 0 /\ Search!Matches(q, Search!StateOf(latest(f)))
        BY <1>5, <3>1, <4>1
      <4> QED  BY <1>6, <3>1, <3>2, <3>3, <3>4, <3>6, <4>2
    <3> QED  BY <3>5, <3>6
  <2> QED  BY <1>3, <2>1
<1>8. added = M \ H
  <2>1. ASSUME NEW f \in Files PROVE Search!Added(q, f) <=> f \in M /\ f \notin H
    <3>1. Search!Added(q, f) <=> /\ Search!Overlaid(f) > 0
                                 /\ Search!Matches(q, Search!StateOf(Search!Overlaid(f))) /\ f \notin H
      BY <1>1, <1>3 DEF Search!Added
    <3>2. CASE Search!Overlaid(f) > 0
      BY <1>4, <1>6, <3>1, <3>2
    <3>3. CASE ~(Search!Overlaid(f) > 0)
      <4>1. latest(f) = cache[f]
        BY <1>4, <3>3
      <4> QED  BY <1>5, <1>6, <3>1, <3>3, <4>1
    <3> QED  BY <3>2, <3>3
  <2> QED  BY <1>3, <2>1
<1>9. /\ DOMAIN Search!Results(q).shown = kept \cup added
      /\ Search!Results(q).total = request.total - Search!Cardinality(request.hits \ kept)
                                   + Search!Cardinality(added)
  BY DEF Search!Results
<1>10. DOMAIN Search!Results(q).shown = M
  BY <1>7, <1>8, <1>9
<1>11. Search!Results(q).total = Cardinality(M)
  <2>1. request.hits \ kept = H \ M
    BY <1>3, <1>7
  <2>2. Search!Results(q).total = Cardinality(H) - Cardinality(H \ M) + Cardinality(M \ H)
    BY <1>2, <1>8, <1>9, <2>1, SameSize
  <2> HIDE DEF H, M
  <2>3. /\ H \ M \in SUBSET H /\ M \ H \in SUBSET Files
        /\ (M \ H) \cap (H \ (H \ M)) = {} /\ (H \ (H \ M)) \cup (M \ H) = M
    BY <1>3
  <2>4. Cardinality(H) - Cardinality(H \ M) + Cardinality(M \ H)
          = Cardinality((H \ (H \ M)) \cup (M \ H))
    BY <1>3, <2>3, Exchanged
  <2> QED  BY <2>2, <2>3, <2>4
<1>12. ASSUME NEW c \in DOMAIN Search!Patched(q)
       PROVE  Search!Patched(q)[c] = Cardinality(MatchingIn(q, c, overlay.last))
  <2> DEFINE A == Counted(q, c)
             D == MatchingIn(q, c, overlay.last)
             in(s) == Search!Matches(q, s) /\ c \in Search!Child(q, s.path)
             Before == {f \in Files : Search!Overlaid(f) > 0 /\ cache[f] > 0 /\ in(Search!StateOf(cache[f]))}
             After == {f \in Files : Search!Overlaid(f) > 0 /\ in(Search!StateOf(Search!Overlaid(f)))}
  <2>1. c \in Search!Children(q)
    BY DEF Search!Patched
  <2>2. Search!Patched(q)[c] = request.counts[c] - Search!Cardinality(Before) + Search!Cardinality(After)
    BY <2>1 DEF Search!Patched
  <2>3. A \in SUBSET Files /\ D \in SUBSET Files
    BY <1>3 DEF Counted, MatchingIn
  <2>4. ASSUME NEW f \in Files PROVE f \in A <=> cache[f] > 0 /\ in(Search!StateOf(cache[f]))
    BY <1>4, <1>5 DEF Counted
  <2>5. ASSUME NEW f \in Files PROVE f \in D <=> latest(f) > 0 /\ in(Search!StateOf(latest(f)))
    BY <1>6 DEF MatchingIn
  <2>6. Before = A \cap O
    BY <2>3, <2>4
  <2>7. After = D \cap O
    BY <1>4, <2>3, <2>5
  <2>8. A \ O = D \ O
    <3>1. ASSUME NEW f \in Files, f \notin O PROVE f \in A <=> f \in D
      BY <1>4, <2>4, <2>5, <3>1
    <3> QED  BY <2>3, <3>1
  <2>9. Search!Patched(q)[c] = Cardinality(A) - Cardinality(A \cap O) + Cardinality(D \cap O)
    BY <1>2, <2>1, <2>2, <2>6, <2>7, SameSize
  <2> HIDE DEF A, D, O
  <2>10. /\ A \cap O \in SUBSET A /\ D \cap O \in SUBSET Files
         /\ (D \cap O) \cap (A \ (A \cap O)) = {} /\ (A \ (A \cap O)) \cup (D \cap O) = D
    BY <2>3, <2>8
  <2>11. Cardinality(A) - Cardinality(A \cap O) + Cardinality(D \cap O)
           = Cardinality((A \ (A \cap O)) \cup (D \cap O))
    BY <2>3, <2>10, Exchanged
  <2>12. Search!Patched(q)[c] = Cardinality(D)
    BY <2>9, <2>10, <2>11
  <2> QED  BY <2>12 DEF D
<1> QED  BY <1>10, <1>11, <1>12

\* The answer is made of what the request carries, the cache and the overlay.
LEMMA SearchAnswers ==
  ASSUME SearchInv, Search!Answer PROVE SearchInv'
<1>1. /\ UNCHANGED <<journal, index, cache, cursor, run, overlay>> /\ request.pc = "answer"
      /\ request' = [pc |-> "done", q |-> request.q, began |-> request.began,
                     still |-> request.still, last |-> overlay.last,
                     results |-> Search!Results(request.q), counts |-> Search!Patched(request.q)]
  BY DEF Search!Answer
<1>2. /\ DOMAIN request' = {"pc", "q", "began", "still", "last", "results", "counts"}
      /\ request'.pc = "done" /\ request'.q = request.q /\ request'.began = request.began
      /\ request'.still = request.still /\ request'.last = overlay.last
      /\ request'.results = Search!Results(request.q) /\ request'.counts = Search!Patched(request.q)
  BY <1>1
<1>3. ASSUME NEW f, NEW b PROVE Search!Newest(f, 1, b)' = Search!Newest(f, 1, b)
  BY <1>1 DEF Search!Newest
<1>4. Search!TypeOK' /\ Folded'
  BY <1>1, <1>2, <1>3 DEF SearchInv, Search!TypeOK, Folded
<1>5. Carried'
  BY <1>1, <1>2 DEF SearchInv, Carried
<1>6. ShownFromOverlay'
  <2>1. \A f \in DOMAIN Search!Results(request.q).shown :
          /\ f \in Files /\ Search!Results(request.q).shown[f] \in Nat
          /\ Search!Results(request.q).shown[f] >= Search!Newest(f, 1, overlay.last)
    BY <1>1, AnswerIsCurrent
  <2> QED  BY <1>1, <1>2, <1>3, <2>1 DEF ShownFromOverlay
<1>7. StandsStill'
  <2>1. Search!Fold(cursor)' = Search!Fold(cursor)
    BY <1>1, <1>3 DEF Search!Fold
  <2> QED  BY <1>1, <1>2, <2>1 DEF SearchInv, StandsStill
<1>8. StillFound'
  BY <1>2 DEF StillFound
<1>9. Exact'
  <2>1. ASSUME NEW q PROVE Matching(q, overlay.last)' = Matching(q, overlay.last)
    BY <1>1, <1>3 DEF Matching, Search!StateOf
  <2>2. ASSUME NEW q, NEW c PROVE MatchingIn(q, c, overlay.last)' = MatchingIn(q, c, overlay.last)
    BY <1>1, <1>3, <2>1 DEF MatchingIn, Search!StateOf
  <2>3. WholeListing' <=> WholeListing
    BY <1>1, <1>2 DEF WholeListing
  <2>4. WholeListing =>
           /\ DOMAIN Search!Results(request.q).shown = Matching(request.q, overlay.last)
           /\ Search!Results(request.q).total = Cardinality(Matching(request.q, overlay.last))
           /\ \A c \in DOMAIN Search!Patched(request.q) :
                 Search!Patched(request.q)[c] = Cardinality(MatchingIn(request.q, c, overlay.last))
    BY <1>1, ExactAnswer
  <2> QED  BY <1>1, <1>2, <2>1, <2>2, <2>3, <2>4 DEF Exact
<1> QED  BY <1>4, <1>5, <1>6, <1>7, <1>8, <1>9 DEF SearchInv

\* Every step of events, indexer and request keeps the invariant.
LEMMA SearchSteps ==
  ASSUME SearchInv, [Search!Next]_(Search!vars) PROVE SearchInv'
<1> USE SearchConstants
<1>1. /\ Len(journal) \in Nat /\ Len(journal) <= MaxEvents /\ journal \in Seq([file : Files, state : States])
      /\ overlay \in [since : 0..Len(journal), last : 0..Len(journal), fresh : BOOLEAN]
  BY SearchTypes
<1>2. Len(journal) \in Len(journal)..MaxEvents
  BY <1>1
<1>3. CASE Search!Append1
  <2>1. PICK f \in Files, s \in States : journal' = Append(journal, [file |-> f, state |-> s])
    BY <1>3 DEF Search!Append1
  <2>2. /\ journal' \in Seq([file : Files, state : States]) /\ Len(journal') = Len(journal) + 1
        /\ \A k \in 1..Len(journal) : journal'[k] = journal[k]
    BY <1>1, <2>1
  <2>3. Len(journal') \in Len(journal)..MaxEvents
    BY <1>1, <1>3, <2>2 DEF Search!Append1
  <2>4. PICK own \in BOOLEAN : overlay' = [overlay EXCEPT !.fresh = @ /\ ~own]
    BY <1>3 DEF Search!Append1
  <2>5. /\ overlay'.since = overlay.since /\ overlay'.last = overlay.last
        /\ overlay' \in [since : 0..Len(journal), last : 0..Len(journal), fresh : BOOLEAN]
    BY <1>1, <2>4
  <2>6. UNCHANGED <<index, cache, cursor, run, request>>
    BY <1>3 DEF Search!Append1
  <2> QED  BY <2>2, <2>3, <2>5, <2>6, Appended
<1>4. CASE Search!ExpireOverlay
  <2>1. /\ overlay' = [overlay EXCEPT !.fresh = FALSE]
        /\ UNCHANGED <<journal, index, cache, cursor, run, request>>
    BY <1>4 DEF Search!ExpireOverlay
  <2>2. /\ overlay'.since = overlay.since /\ overlay'.last = overlay.last
        /\ overlay' \in [since : 0..Len(journal), last : 0..Len(journal), fresh : BOOLEAN]
    BY <1>1, <2>1
  <2> QED  BY <1>1, <1>2, <2>1, <2>2, Appended
<1>5. CASE UNCHANGED Search!vars
  <2>1. UNCHANGED <<journal, index, cache, cursor, run, overlay, request>>
    BY <1>5 DEF Search!vars
  <2> QED  BY <1>1, <1>2, <2>1, Appended
<1>6. CASE Search!Commit \/ Search!PutCache \/ Search!SetLast \/ Search!RunFails
  BY <1>6, IndexerSteps
<1>7. CASE Search!AskIndex \/ Search!ReadKey \/ Search!ListOverlay \/ Search!Answer \/ Search!Forget
  BY <1>7, SearchAsks, SearchReadsKey, SearchLists, SearchAnswers, SearchForgets
<1> QED  BY <1>3, <1>4, <1>5, <1>6, <1>7 DEF Search!Next

\* The overlay reaches as far as an answer has to know.
LEMMA CurrentFromInv ==
  ASSUME SearchInv PROVE Search!ShownIsCurrent
<1>1. SUFFICES ASSUME Search!Answered, NEW f \in DOMAIN request.results.shown
               PROVE  request.results.shown[f] >= Search!Newest(f, 1, Search!Known)
  BY DEF Search!ShownIsCurrent
<1>2. /\ request.pc = "done" /\ request.last = overlay.last /\ request.began \in 0..Len(journal)
      /\ f \in Files /\ request.results.shown[f] \in Nat
      /\ request.results.shown[f] >= Search!Newest(f, 1, overlay.last)
  BY <1>1 DEF Search!Answered, SearchInv, Carried, ShownFromOverlay
<1>3. /\ Len(journal) \in Nat /\ overlay.since \in Nat /\ overlay.last \in Nat
      /\ request.began \in Nat /\ overlay.since <= overlay.last
  BY <1>2, SearchTypes DEF SearchInv, Folded
<1>4. Search!Known \in Nat /\ Search!Known <= overlay.last
  <2>1. Search!Max({request.last, overlay.since}) = overlay.last
    BY <1>2, <1>3, GreaterOfTwo
  <2>2. Search!Known = Search!Min({request.began, overlay.last})
    BY <2>1 DEF Search!Known
  <2>3. ASSUME NEW a \in Nat, NEW b \in Nat PROVE Search!Min({a, b}) \in Nat /\ Search!Min({a, b}) <= b
    BY LesserOfTwo
  <2> QED  BY <1>3, <2>2, <2>3
<1>5. ASSUME NEW b \in Nat, NEW c \in Nat, NEW n \in Nat, b <= c, n >= Search!Newest(f, 1, c)
      PROVE  n >= Search!Newest(f, 1, b)
  <2>1. /\ Search!Newest(f, 1, b) \in 0..b /\ Search!Newest(f, 1, c) \in 0..c
        /\ Search!Newest(f, 1, b) <= Search!Newest(f, 1, c)
    BY <1>5, NewestGrows
  <2> QED  BY <1>5, <2>1
<1> QED  BY <1>2, <1>3, <1>4, <1>5

\* A quiet answer is exact, as the run states it.
LEMMA ExactFromInv ==
  ASSUME SearchInv PROVE Search!QuietExact
<1> DEFINE q == request.q
           newest == [f \in Files |-> Search!Newest(f, 1, request.last)]
           matching == {f \in Files : /\ newest[f] > 0
                                      /\ Search!Matches(q, Search!StateOf(newest[f]))}
<1>1. SUFFICES ASSUME Search!Answered, request.still, ~q.text, q.offset = 0,
                      PageSize >= Search!Cardinality(Files)
               PROVE  /\ DOMAIN request.results.shown = matching
                      /\ request.results.total = Search!Cardinality(matching)
                      /\ \A c \in DOMAIN request.counts : request.counts[c] =
                            Search!Cardinality({f \in matching :
                               c \in Search!Child(q, Search!StateOf(newest[f]).path)})
  BY DEF Search!QuietExact
<1>2. request.pc = "done" /\ WholeListing
  BY <1>1, SameSize DEF Search!Answered, WholeListing
<1>3. request.last = overlay.last
  BY <1>2 DEF SearchInv, ShownFromOverlay
<1>4. \A f \in Files : newest[f] = Search!Newest(f, 1, overlay.last)
  BY <1>3
<1>5. matching = Matching(q, overlay.last)
  BY <1>4 DEF Matching
<1>6. ASSUME NEW c PROVE {f \in matching : c \in Search!Child(q, Search!StateOf(newest[f]).path)}
                           = MatchingIn(q, c, overlay.last)
  BY <1>4, <1>5 DEF MatchingIn, Matching
<1>7. /\ DOMAIN request.results.shown = Matching(q, overlay.last)
      /\ request.results.total = Cardinality(Matching(q, overlay.last))
      /\ \A c \in DOMAIN request.counts :
            request.counts[c] = Cardinality(MatchingIn(q, c, overlay.last))
  BY <1>2 DEF SearchInv, Exact
<1> HIDE DEF matching, newest
<1> QED  BY <1>5, <1>6, <1>7, SameSize

\* The invariant holds in every state of the scene of searches.
LEMMA SearchHolds == MCSpec => [](scene = "search" => SearchInv)
<1> DEFINE Inv == scene = "search" => SearchInv
<1>1. MCInit => Inv
  BY SearchBegins DEF MCInit
<1>2. Inv /\ [MCNext]_allVars => Inv'
  <2>1. ASSUME scene' = "search", [MCNext]_allVars PROVE scene = "search" /\ [Search!Next]_(Search!vars)
    BY <2>1 DEF MCNext, Creating, Deleting, Revoking, ShareScene, IntakeScene, FanoutScene, ArchiveScene,
       MediaScene, SearchScene, AccessScene, AuditScene, allVars, searchVars, Search!vars, Search!Next
  <2> QED  BY <2>1, SearchSteps
<1> QED  BY <1>1, <1>2, PTL DEF MCSpec

\* No search shows a file in a state older than one journaled before it began and
\* its overlay was told of, whatever the indexer does meanwhile: for any files,
\* queries, page size, limit of the overlay and journal (Server.search,
\* overlayStates).
THEOREM ShownAlwaysCurrent == MCSpec => []ShownIsCurrent
<1>1. (scene = "search" => SearchInv) => ShownIsCurrent
  BY CurrentFromInv DEF ShownIsCurrent
<1> QED  BY <1>1, SearchHolds, PTL

\* While no run moves the index the overlay makes a listing exact: the files that
\* match, their number and the facet counts, whatever was edited, moved or deleted
\* since the last run (Server.search, Server.facets).
THEOREM QuietAlwaysExact == MCSpec => []QuietExact
<1>1. (scene = "search" => SearchInv) => QuietExact
  BY ExactFromInv DEF QuietExact
<1> QED  BY <1>1, SearchHolds, PTL

(***************************************************************************)
(* Verification of the chain (AuditVerify).  What the Drive wrote is a     *)
(* history; the chain in the bucket is what is left of it.                 *)
(***************************************************************************)
\* The checkpoint before n as written, and the keys that n covers.
Prior(n) == IF n = 1 THEN Audit!Genesis ELSE written.chain[n - 1]
Span(n) == (Prior(n).last + 1)..written.chain[n].last
Height == Audit!HeadN(written.chain)

AuditTypes ==
    /\ journal \in [1..MaxKey -> {0, 1, 2}] /\ original \in [1..MaxKey -> Audit!Originals]
    /\ DOMAIN chain = 1..MaxKey
    /\ \A n \in 1..MaxKey : DOMAIN chain[n] = DOMAIN Audit!Genesis
    /\ DOMAIN written = {"journal", "chain"} /\ written.journal \in [1..MaxKey -> {0, 1, 2}]
    /\ DOMAIN written.chain = 1..MaxKey
    /\ faults \in Nat

\* The checkpoints written have the numbers from 1 on, and each is built over the
\* events after the one before.
Built ==
    /\ Height \in 0..MaxKey /\ Audit!Numbers(written.chain) = 1..Height
    /\ \A n \in 1..Height :
         /\ written.chain[n] =
              Audit!Build(n, Prior(n), Audit!Leaves(written.journal, Span(n)))
         /\ Prior(n).last \in (n - 1)..MaxKey
         /\ written.chain[n].last \in (Prior(n).last + 1)..MaxKey
         /\ written.journal[written.chain[n].last] > 0

\* Their spans follow each other without a gap.
Tiled ==
    \A n \in 1..Height :
        /\ \A m \in 1..(n - 1) : written.chain[m].last <= Prior(n).last
        /\ \A k \in 1..written.chain[n].last : \E m \in 1..n : k \in Span(m)

\* Nobody adds a checkpoint or moves one to another number, and before the first
\* change the bucket is as written.
Remains ==
    /\ Audit!Numbers(chain) \subseteq 1..Height
    /\ \A n \in Audit!Numbers(chain) : chain[n].n = n
    /\ faults = 0 => journal = written.journal /\ chain = written.chain

AuditInv == AuditTypes /\ Built /\ Tiled /\ Remains

-----------------------------------------------------------------------------
\* The parameters the proofs about the audit chain use.
LEMMA AuditConstants ==
  /\ MaxKey \in Nat \ {0} /\ MaxTampers \in Nat
  /\ Audit!JournalKeys = 1..MaxKey
  /\ \A S : Audit!Cardinality(S) = Cardinality(S)
<1>1. Audit!AuditAssumption
  BY RequestsAssumption
<1>2. ASSUME NEW S PROVE Audit!Cardinality(S) = Cardinality(S)
  BY DEF Audit!Cardinality, Cardinality
<1> QED  BY <1>1, <1>2 DEF Audit!AuditAssumption, Audit!JournalKeys

\* The greatest of them is the one the model takes.
LEMMA AuditGreatest ==
  ASSUME NEW n \in Nat, NEW S \in SUBSET (0..n), S # {}
  PROVE  Audit!Max(S) \in S /\ \A y \in S : y <= Audit!Max(S)
<1>1. PICK x \in S : \A y \in S : y <= x
  BY GreatestExists
<1>2. x \in S /\ \A y \in S : x >= y
  BY <1>1
<1> QED  BY <1>2 DEF Audit!Max

-----------------------------------------------------------------------------
(* The leaves of a checkpoint.                                             *)

\* The keys of a set up to k, and how many they are.
LEMMA UpTo ==
  ASSUME NEW S \in SUBSET (1..MaxKey), NEW k \in 0..MaxKey
  PROVE  /\ IsFiniteSet(S \cap 1..k) /\ Cardinality(S \cap 1..k) \in Nat
         /\ k > 0 => Cardinality(S \cap 1..k) =
              Cardinality(S \cap 1..(k - 1)) + (IF k \in S THEN 1 ELSE 0)
         /\ k = 0 => Cardinality(S \cap 1..k) = 0
         /\ k = MaxKey => S \cap 1..k = S
<1> DEFINE T(i) == S \cap 1..i
<1>1. ASSUME NEW i \in Int PROVE IsFiniteSet(T(i)) /\ Cardinality(T(i)) \in Nat
  <2>1. IsFiniteSet(1..i)
    BY FS_Interval
  <2>2. IsFiniteSet(T(i))
    BY <2>1, FS_Subset, T(i) \in SUBSET (1..i)
  <2> QED  BY <2>2, FS_CardinalityType
<1>2. ASSUME k > 0
      PROVE  Cardinality(T(k)) = Cardinality(T(k - 1)) + (IF k \in S THEN 1 ELSE 0)
  <2>1. k - 1 \in Int /\ k \notin T(k - 1)
    BY AuditConstants
  <2>2. Cardinality(T(k - 1) \cup {k}) = Cardinality(T(k - 1)) + 1
    BY <1>1, <2>1, FS_AddElement
  <2>3. k \in S => T(k) = T(k - 1) \cup {k}
    BY <1>2, AuditConstants
  <2>4. k \notin S => T(k) = T(k - 1)
    BY <1>2, AuditConstants
  <2>5. Cardinality(T(k - 1)) \in Nat
    BY <1>1, <2>1
  <2> HIDE DEF T
  <2>6. CASE k \in S
    BY <2>2, <2>3, <2>6
  <2>7. CASE k \notin S
    BY <2>4, <2>5, <2>7
  <2> QED  BY <2>6, <2>7
<1>3. k = 0 => T(k) = {}
  OBVIOUS
<1>4. k = MaxKey => T(k) = S
  OBVIOUS
<1>5. k \in Int
  BY AuditConstants
<1> HIDE DEF T
<1>6. /\ IsFiniteSet(T(k)) /\ Cardinality(T(k)) \in Nat
      /\ k > 0 => Cardinality(T(k)) = Cardinality(T(k - 1)) + (IF k \in S THEN 1 ELSE 0)
      /\ k = 0 => Cardinality(T(k)) = 0
      /\ k = MaxKey => T(k) = S
  BY <1>1, <1>2, <1>3, <1>4, <1>5, FS_EmptySet
<1> QED  BY <1>6 DEF T

\* The number of keys up to a key of the set grows with the key.
LEMMA UpToGrows ==
  ASSUME NEW S \in SUBSET (1..MaxKey), NEW k \in S, NEW l \in S, k < l
  PROVE  Cardinality(S \cap 1..k) < Cardinality(S \cap 1..l)
<1> DEFINE T(i) == S \cap 1..i
<1>1. k \in 0..MaxKey /\ l \in 0..MaxKey /\ l - 1 \in 0..MaxKey /\ l > 0
  BY AuditConstants
<1>2. T(k) \in SUBSET T(l - 1)
  BY <1>1
<1>3. Cardinality(T(l)) = Cardinality(T(l - 1)) + 1
  BY <1>1, UpTo
<1>4. IsFiniteSet(T(l - 1)) /\ Cardinality(T(l - 1)) \in Nat /\ Cardinality(T(k)) \in Nat
  BY <1>1, UpTo
<1> HIDE DEF T
<1>5. Cardinality(T(k)) <= Cardinality(T(l - 1))
  BY <1>2, <1>4, FS_Subset
<1>6. Cardinality(T(k)) < Cardinality(T(l))
  BY <1>3, <1>4, <1>5
<1> QED  BY <1>6 DEF T

\* A set of keys can be put in order: the i-th is the one up to which there are i.
LEMMA OrderExists ==
  ASSUME NEW S \in SUBSET (1..MaxKey)
  PROVE  \E s \in [1..Cardinality(S) -> S] :
            \A i, j \in DOMAIN s : i < j => s[i] < s[j]
<1> DEFINE Count(k) == Cardinality(S \cap 1..k)
<1>0. \A k \in 0..MaxKey :
        /\ Count(k) \in Nat
        /\ k > 0 => Count(k) = Count(k - 1) + (IF k \in S THEN 1 ELSE 0)
        /\ k = 0 => Count(k) = 0
        /\ k = MaxKey => Count(k) = Cardinality(S)
  BY UpTo
<1>1. \A k, l \in S : k < l => Count(k) < Count(l)
  BY UpToGrows
<1> HIDE DEF Count
<1>2. ASSUME NEW i \in 1..Cardinality(S) PROVE \E k \in S : Count(k) = i
  <2> DEFINE Less == {k \in 0..MaxKey : Count(k) < i}
  <2>1. MaxKey \in Nat /\ 0 \in Less
    BY <1>0, AuditConstants
  <2>2. PICK m \in Less : \A y \in Less : y <= m
    BY <2>1, GreatestExists
  <2>3. m \in 0..MaxKey /\ Count(m) < i
    BY <2>2
  <2>4. m < MaxKey
    <3>1. Count(MaxKey) = Cardinality(S)
      BY <1>0, <2>1
    <3>2. Cardinality(S) \in Nat
      BY <1>0, <2>1, <3>1
    <3> QED  BY <3>1, <3>2, <2>3, <2>1
  <2>5. m + 1 \in 0..MaxKey /\ m + 1 \notin Less /\ m + 1 > 0 /\ (m + 1) - 1 = m
    BY <2>2, <2>3, <2>4, <2>1
  <2>6. Count(m + 1) >= i
    BY <2>5, <1>0
  <2>7. Count(m + 1) = Count(m) + (IF m + 1 \in S THEN 1 ELSE 0)
    BY <2>5, <1>0
  <2>8. Count(m) \in Nat
    BY <2>3, <1>0
  <2>9. m + 1 \in S /\ Count(m + 1) = i
    BY <2>3, <2>6, <2>7, <2>8
  <2> QED  BY <2>9
<1> DEFINE s == [i \in 1..Cardinality(S) |-> CHOOSE k \in S : Count(k) = i]
<1>3. ASSUME NEW i \in 1..Cardinality(S) PROVE s[i] \in S /\ Count(s[i]) = i
  BY <1>2
<1>4. ASSUME NEW i \in 1..Cardinality(S), NEW j \in 1..Cardinality(S), i < j PROVE s[i] < s[j]
  <2>1. s[i] \in S /\ s[j] \in S /\ Count(s[i]) = i /\ Count(s[j]) = j
    BY <1>3
  <2> HIDE DEF s
  <2>2. s[i] \in 1..MaxKey /\ s[j] \in 1..MaxKey
    BY <2>1
  <2> QED  BY <2>1, <2>2, <1>1, <1>4
<1>5. s \in [1..Cardinality(S) -> S] /\ DOMAIN s = 1..Cardinality(S)
  BY <1>3
<1> HIDE DEF s
<1> QED  BY <1>4, <1>5

\* InOrder lists every key of the set once, in order.
LEMMA OrderIs ==
  ASSUME NEW S \in SUBSET (1..MaxKey)
  PROVE  /\ Cardinality(S) \in Nat /\ (S # {} => Cardinality(S) > 0)
         /\ Audit!InOrder(S) \in [1..Cardinality(S) -> S]
         /\ \A i, j \in 1..Cardinality(S) : i < j => Audit!InOrder(S)[i] < Audit!InOrder(S)[j]
         /\ \A k \in S : \E i \in 1..Cardinality(S) : Audit!InOrder(S)[i] = k
<1> DEFINE s == Audit!InOrder(S)
<1>1. IsFiniteSet(S) /\ Cardinality(S) \in Nat /\ (S # {} => Cardinality(S) > 0)
  <2>1. IsFiniteSet(1..MaxKey)
    BY FS_Interval, AuditConstants
  <2>2. IsFiniteSet(S)
    BY <2>1, FS_Subset
  <2> QED  BY <2>2, FS_CardinalityType, FS_EmptySet
<1>2. s \in [1..Cardinality(S) -> S] /\ \A i, j \in DOMAIN s : i < j => s[i] < s[j]
  BY OrderExists, AuditConstants DEF Audit!InOrder
<1> HIDE DEF s
<1>3. s \in Injection(1..Cardinality(S), S)
  <2>1. \A i, j \in 1..Cardinality(S) : i # j => i < j \/ j < i
    BY <1>1
  <2>2. \A k, l \in S : k < l => k # l
    OBVIOUS
  <2>3. \A i, j \in 1..Cardinality(S) : s[i] = s[j] => i = j
    BY <1>2, <2>1, <2>2
  <2> QED  BY <1>2, <2>3 DEF Injection, IsInjective
<1>4. Cardinality(1..Cardinality(S)) = Cardinality(S)
  BY <1>1, FS_Interval
<1>5. s \in Surjection(1..Cardinality(S), S)
  BY <1>1, <1>3, <1>4, FS_Injection
<1> QED  BY <1>1, <1>2, <1>5 DEF Surjection, s

\* What is listed of the keys from a to b: those with an event, in order.
LEMMA LeavesAre ==
  ASSUME NEW e \in [1..MaxKey -> {0, 1, 2}], NEW a \in Nat \ {0}, NEW b \in 0..MaxKey
  PROVE  LET ls == Audit!Leaves(e, a..b) IN
         /\ DOMAIN ls = 1..Len(ls) /\ Len(ls) \in Nat
         /\ \A i \in 1..Len(ls) :
              /\ ls[i] = [key |-> ls[i].key, digest |-> e[ls[i].key]]
              /\ ls[i].key \in a..b /\ ls[i].key \in 1..MaxKey /\ e[ls[i].key] > 0
         /\ \A i, j \in 1..Len(ls) : i < j => ls[i].key < ls[j].key
         /\ \A k \in a..b : e[k] > 0 => \E i \in 1..Len(ls) : ls[i].key = k
         /\ ls = <<>> <=> \A k \in a..b : ~(e[k] > 0)
<1> DEFINE S == {k \in a..b : e[k] > 0}
           s == Audit!InOrder(S)
           ls == Audit!Leaves(e, a..b)
<1>1. S \in SUBSET (1..MaxKey)
  BY AuditConstants
<1>2. /\ Cardinality(S) \in Nat /\ (S # {} => Cardinality(S) > 0)
      /\ s \in [1..Cardinality(S) -> S]
      /\ \A i, j \in 1..Cardinality(S) : i < j => s[i] < s[j]
      /\ \A k \in S : \E i \in 1..Cardinality(S) : s[i] = k
  BY <1>1, OrderIs
<1>3. ls = [i \in DOMAIN s |-> [key |-> s[i], digest |-> e[s[i]]]]
  BY DEF Audit!Leaves
<1> HIDE DEF s, ls
<1>4. ls = [i \in 1..Cardinality(S) |-> [key |-> s[i], digest |-> e[s[i]]]]
  BY <1>2, <1>3
<1> DEFINE R == [key : S, digest : {0, 1, 2}]
<1>5. ls \in Seq(R) /\ Len(ls) = Cardinality(S) /\ DOMAIN ls = 1..Len(ls)
  <2>1. \A i \in 1..Cardinality(S) : [key |-> s[i], digest |-> e[s[i]]] \in R
    BY <1>1, <1>2
  <2> HIDE DEF R
  <2>2. ls \in [1..Cardinality(S) -> R]
    BY <1>4, <2>1
  <2> HIDE DEF S
  <2> QED  BY <1>2, <2>2
<1>6. \A i \in 1..Len(ls) : ls[i].key = s[i] /\ ls[i].digest = e[s[i]] /\ s[i] \in S
  BY <1>2, <1>4, <1>5
<1>7. \A i \in 1..Len(ls) :
         /\ ls[i] = [key |-> ls[i].key, digest |-> e[ls[i].key]]
         /\ ls[i].key \in a..b /\ ls[i].key \in 1..MaxKey /\ e[ls[i].key] > 0
  BY <1>1, <1>2, <1>4, <1>5, <1>6
<1>8. ASSUME NEW k \in a..b, e[k] > 0 PROVE \E i \in 1..Len(ls) : ls[i].key = k
  <2>1. PICK i \in 1..Cardinality(S) : s[i] = k
    BY <1>2, <1>8
  <2>2. i \in 1..Len(ls) /\ ls[i].key = k
    BY <1>5, <1>6, <2>1
  <2> QED  BY <2>2
<1>9. ls = <<>> <=> \A k \in a..b : ~(e[k] > 0)
  <2>1. ls = <<>> <=> Len(ls) = 0
    BY <1>5
  <2>2. ASSUME Len(ls) = 0, NEW k \in a..b, e[k] > 0 PROVE FALSE
    BY <1>8, <2>2
  <2>3. ASSUME \A k \in a..b : ~(e[k] > 0) PROVE Len(ls) = 0
    <3>1. S = {}
      BY <2>3
    <3>2. Cardinality(S) = 0
      BY <3>1, FS_EmptySet
    <3> QED  BY <1>5, <3>2
  <2> QED  BY <2>1, <2>2, <2>3
<1>10. ASSUME NEW i \in 1..Len(ls), NEW j \in 1..Len(ls), i < j PROVE ls[i].key < ls[j].key
  <2>1. s[i] < s[j]
    BY <1>2, <1>5, <1>10
  <2>2. ls[i].key = s[i] /\ ls[j].key = s[j]
    BY <1>6
  <2> QED  BY <2>1, <2>2
<1> QED  BY <1>2, <1>5, <1>7, <1>8, <1>9, <1>10 DEF ls

\* The leaves depend on the events of their span alone.
LEMMA LeavesSame ==
  ASSUME NEW e \in [1..MaxKey -> {0, 1, 2}], NEW f \in [1..MaxKey -> {0, 1, 2}],
         NEW a \in Nat \ {0}, NEW b \in 0..MaxKey, \A k \in a..b : e[k] = f[k]
  PROVE  Audit!Leaves(e, a..b) = Audit!Leaves(f, a..b)
<1> DEFINE S == {k \in a..b : e[k] > 0}
           s == Audit!InOrder(S)
<1>1. S = {k \in a..b : f[k] > 0}
  OBVIOUS
<1>2. S \in SUBSET (1..MaxKey)
  BY AuditConstants
<1>3. s \in [1..Cardinality(S) -> S]
  BY <1>2, OrderIs
<1>4. \A i \in DOMAIN s : e[s[i]] = f[s[i]]
  BY <1>3
<1>5. Audit!Leaves(e, a..b) = [i \in DOMAIN s |-> [key |-> s[i], digest |-> e[s[i]]]]
  BY DEF Audit!Leaves
<1>6. Audit!Leaves(f, a..b) = [i \in DOMAIN s |-> [key |-> s[i], digest |-> f[s[i]]]]
  BY <1>1 DEF Audit!Leaves
<1> HIDE DEF s
<1> QED  BY <1>4, <1>5, <1>6
-----------------------------------------------------------------------------
(* The steps.                                                              *)

\* The number of the newest checkpoint.
LEMMA HeadIs ==
  ASSUME NEW c
  PROVE  /\ Audit!Numbers(c) \subseteq 1..MaxKey
         /\ Audit!HeadN(c) \in Audit!Numbers(c) \cup {0} /\ Audit!HeadN(c) \in 0..MaxKey
         /\ \A n \in Audit!Numbers(c) : n <= Audit!HeadN(c)
         /\ \A h \in Nat : Audit!Numbers(c) = 1..h => Audit!HeadN(c) = h
<1> DEFINE N == Audit!Numbers(c)
           h == Audit!HeadN(c)
<1>1. N \subseteq 1..MaxKey
  BY AuditConstants DEF Audit!Numbers
<1> HIDE DEF N
<1>2. N \cup {0} \in SUBSET (0..MaxKey) /\ N \cup {0} # {} /\ MaxKey \in Nat
  BY <1>1, AuditConstants
<1>3. h \in N \cup {0} /\ \A n \in N \cup {0} : n <= h
  BY <1>2, AuditGreatest DEF Audit!HeadN, N
<1> HIDE DEF h
<1>4. h \in 0..MaxKey /\ \A n \in N : n <= h
  BY <1>2, <1>3
<1>5. ASSUME NEW g \in Nat, N = 1..g PROVE h = g
  <2>1. h \in 0..g
    BY <1>3, <1>5
  <2>2. g \in N \cup {0}
    BY <1>5
  <2> QED  BY <1>3, <2>1, <2>2
<1> QED  BY <1>1, <1>3, <1>4, <1>5 DEF N, h

\* What a checkpoint built over the events of a span says of itself.
LEMMA BuildIs ==
  ASSUME NEW n, NEW p, NEW ls
  PROVE  LET cp == Audit!Build(n, p, ls) IN
         /\ cp.n = n /\ cp.prev = <<p>> /\ cp.leaves = ls /\ cp.count = Len(ls)
         /\ cp.root = Audit!MerkleRoot(ls) /\ cp.first = ls[1].key /\ cp.last = ls[Len(ls)].key
         /\ cp.originals = {ls[i].key : i \in DOMAIN ls}
         /\ DOMAIN cp = DOMAIN Audit!Genesis
         /\ n # -1 => cp # Audit!Missing
         /\ n # 0 => cp # Audit!Genesis
<1> DEFINE cp == Audit!Build(n, p, ls)
<1>1. /\ cp.n = n /\ cp.prev = <<p>> /\ cp.leaves = ls /\ cp.count = Len(ls)
      /\ cp.root = Audit!MerkleRoot(ls) /\ cp.first = ls[1].key /\ cp.last = ls[Len(ls)].key
      /\ cp.originals = {ls[i].key : i \in DOMAIN ls}
  BY DEF Audit!Build
<1>2. DOMAIN cp = DOMAIN Audit!Genesis
  BY DEF Audit!Build, Audit!Genesis
<1>3. Audit!Missing.n = -1 /\ Audit!Genesis.n = 0
  BY DEF Audit!Missing, Audit!Genesis
<1> HIDE DEF cp
<1> QED  BY <1>1, <1>2, <1>3 DEF cp

\* Before any event nothing is covered.
LEMMA AuditBegins == Audit!Init => AuditInv
<1> SUFFICES ASSUME Audit!Init PROVE AuditInv
  OBVIOUS
<1>1. /\ journal = [k \in 1..MaxKey |-> 0] /\ original = [k \in 1..MaxKey |-> Audit!Gone]
      /\ chain = [k \in 1..MaxKey |-> Audit!Missing]
      /\ written = [journal |-> journal, chain |-> chain] /\ faults = 0
  BY AuditConstants DEF Audit!Init
<1>2. DOMAIN Audit!Missing = DOMAIN Audit!Genesis
  BY DEF Audit!Missing, Audit!Genesis
<1>3. AuditTypes
  <2>1. Audit!Gone \in Audit!Originals
    BY DEF Audit!Originals
  <2> QED  BY <1>1, <1>2, <2>1 DEF AuditTypes
<1>4. Audit!Numbers(chain) = {}
  BY <1>1, AuditConstants DEF Audit!Numbers
<1>5. Height = 0 /\ written.chain = chain
  <2>1. written.chain = chain /\ {} = 1..0 /\ 0 \in Nat
    BY <1>1
  <2> QED  BY <1>4, <2>1, HeadIs DEF Height
<1>6. 1..Height = {} /\ Height \in 0..MaxKey
  BY <1>5, AuditConstants
<1> HIDE DEF Height
<1>7. Built
  BY <1>4, <1>5, <1>6 DEF Built
<1>8. Tiled
  BY <1>6 DEF Tiled
<1>9. Remains
  BY <1>1, <1>4, <1>5 DEF Remains
<1> QED  BY <1>3, <1>7, <1>8, <1>9 DEF AuditInv

\* An event is appended behind every span.
LEMMA AuditAppends ==
  ASSUME AuditInv, Audit!AppendEvent
  PROVE  AuditInv'
<1>1. PICK k \in 1..MaxKey, c \in {1, 2} :
        /\ \A l \in k..MaxKey : journal[l] = 0 /\ written.journal[l] = 0
        /\ journal' = [journal EXCEPT ![k] = c]
        /\ original' = [original EXCEPT ![k] = Audit!Intact]
        /\ written' = [written EXCEPT !.journal[k] = c]
  BY AuditConstants DEF Audit!AppendEvent, Audit!Contents
<1>2. UNCHANGED <<chain, faults>>
  BY DEF Audit!AppendEvent
<1>3. /\ written'.chain = written.chain
      /\ written'.journal = [written.journal EXCEPT ![k] = c]
      /\ DOMAIN written' = DOMAIN written
  BY <1>1 DEF AuditInv, AuditTypes
<1>4. AuditTypes'
  <2>1. Audit!Intact \in Audit!Originals
    BY DEF Audit!Originals
  <2>2. \A n \in 1..MaxKey : DOMAIN chain'[n] = DOMAIN Audit!Genesis'
    BY <1>2 DEF AuditInv, AuditTypes, Audit!Genesis
  <2>3. Audit!Originals' = Audit!Originals
    BY DEF Audit!Originals, Audit!Gone, Audit!Intact
  <2> QED  BY <1>1, <1>2, <1>3, <2>1, <2>2, <2>3 DEF AuditInv, AuditTypes
<1>5. Height' = Height /\ Audit!Numbers(written.chain)' = Audit!Numbers(written.chain)
      /\ Audit!Numbers(chain)' = Audit!Numbers(chain)
  BY <1>2, <1>3 DEF Height, Audit!HeadN, Audit!Numbers, Audit!Missing, Audit!Genesis, Audit!JournalKeys
<1>6. \A n : Prior(n)' = Prior(n) /\ Span(n)' = Span(n)
  BY <1>3 DEF Prior, Span, Audit!Genesis
<1>7. ASSUME NEW n \in 1..Height
      PROVE  /\ Audit!Leaves(written.journal, Span(n))' = Audit!Leaves(written.journal, Span(n))
             /\ written'.journal[written.chain[n].last] > 0
  <2> DEFINE last == written.chain[n].last
             first == Prior(n).last + 1
  <2>1. /\ Prior(n).last \in (n - 1)..MaxKey /\ last \in first..MaxKey /\ written.journal[last] > 0
        /\ n \in Nat \ {0} /\ MaxKey \in Nat
    BY <1>7, AuditConstants DEF AuditInv, Built
  <2> HIDE DEF last
  <2>2. first \in Nat \ {0} /\ last \in 0..MaxKey /\ last \in 1..MaxKey
    BY <2>1
  <2>3. last < k
    BY <1>1, <2>1, <2>2
  <2> HIDE DEF first
  <2>4. \A l \in first..last : written'.journal[l] = written.journal[l]
    BY <1>3, <2>2, <2>3 DEF AuditInv, AuditTypes
  <2>5. written.journal \in [1..MaxKey -> {0, 1, 2}] /\ written'.journal \in [1..MaxKey -> {0, 1, 2}]
    BY <1>4 DEF AuditInv, AuditTypes
  <2>6. Audit!Leaves(written'.journal, first..last) = Audit!Leaves(written.journal, first..last)
    BY <2>2, <2>4, <2>5, LeavesSame
  <2>7. written'.journal[last] > 0
    BY <1>3, <2>1, <2>2, <2>3 DEF AuditInv, AuditTypes
  <2>8. Audit!Leaves(written.journal, Span(n))' = Audit!Leaves(written'.journal, Span(n)')
    BY DEF Audit!Leaves, Audit!InOrder, Audit!Cardinality
  <2>9. Span(n) = first..last
    BY DEF Span, first, last
  <2> QED  BY <1>6, <2>6, <2>7, <2>8, <2>9 DEF last
<1>8. Built'
  <2>1. ASSUME NEW n \in 1..Height PROVE
          Audit!Build(n, Prior(n), Audit!Leaves(written.journal, Span(n)))'
          = Audit!Build(n, Prior(n), Audit!Leaves(written.journal, Span(n)))
    <3>1. Audit!Build(n, Prior(n), Audit!Leaves(written.journal, Span(n)))'
            = Audit!Build(n, Prior(n)', Audit!Leaves(written.journal, Span(n))')
      BY DEF Audit!Build
    <3> QED  BY <1>6, <1>7, <3>1
  <2> QED  BY <1>3, <1>5, <1>6, <1>7, <2>1 DEF AuditInv, Built
<1>9. Tiled'
  BY <1>3, <1>5, <1>6 DEF AuditInv, Tiled
<1>10. Remains'
  BY <1>1, <1>2, <1>3, <1>5 DEF AuditInv, Remains
<1> QED  BY <1>4, <1>8, <1>9, <1>10 DEF AuditInv
\* What the invariant says of a checkpoint as it was written.
LEMMA WrittenIs ==
  ASSUME AuditInv, NEW n \in 1..Height
  PROVE  LET cp == written.chain[n]
             ls == Audit!Leaves(written.journal, Span(n)) IN
         /\ cp.n = n /\ cp.prev = <<Prior(n)>> /\ cp.leaves = ls /\ cp.count = Len(ls)
         /\ cp.root = Audit!MerkleRoot(ls) /\ cp.first = ls[1].key /\ cp.last = ls[Len(ls)].key
         /\ cp.originals = {ls[i].key : i \in DOMAIN ls}
         /\ cp # Audit!Missing /\ cp # Audit!Genesis
         /\ n \in 1..MaxKey /\ n \in Nat \ {0}
         /\ Prior(n).last \in Nat /\ Prior(n).last >= n - 1 /\ cp.last > Prior(n).last
         /\ cp.last \in 1..MaxKey /\ written.journal[cp.last] > 0
         /\ Span(n) = (Prior(n).last + 1)..cp.last
<1> DEFINE ls == Audit!Leaves(written.journal, Span(n))
<1>1. /\ written.chain[n] = Audit!Build(n, Prior(n), ls)
      /\ Prior(n).last \in (n - 1)..MaxKey
      /\ written.chain[n].last \in (Prior(n).last + 1)..MaxKey
      /\ written.journal[written.chain[n].last] > 0
      /\ Height \in 0..MaxKey
  BY DEF AuditInv, Built
<1> HIDE DEF ls
<1>2. n \in 1..MaxKey /\ n \in Nat \ {0} /\ n # -1 /\ n # 0
  BY <1>1, AuditConstants
<1>3. /\ Prior(n).last \in Nat /\ Prior(n).last >= n - 1
      /\ written.chain[n].last > Prior(n).last /\ written.chain[n].last \in 1..MaxKey
  BY <1>1, <1>2, AuditConstants
<1>4. Span(n) = (Prior(n).last + 1)..written.chain[n].last
  BY DEF Span
<1> DEFINE cp == Audit!Build(n, Prior(n), ls)
<1>5. /\ cp.n = n /\ cp.prev = <<Prior(n)>> /\ cp.leaves = ls /\ cp.count = Len(ls)
      /\ cp.root = Audit!MerkleRoot(ls) /\ cp.first = ls[1].key /\ cp.last = ls[Len(ls)].key
      /\ cp.originals = {ls[i].key : i \in DOMAIN ls}
      /\ cp # Audit!Missing /\ cp # Audit!Genesis
  BY <1>2, BuildIs
<1>6. written.chain[n] = cp
  BY <1>1
<1> HIDE DEF cp
<1> QED  BY <1>1, <1>2, <1>3, <1>4, <1>5, <1>6 DEF ls

\* A checkpoint is written behind the newest one, over the events since.
LEMMA AuditChains ==
  ASSUME AuditInv, Audit!Checkpoint
  PROVE  AuditInv'
<1> DEFINE prior == Audit!Newest(chain)
           n == Height + 1
<1>1. faults = 0 /\ UNCHANGED <<journal, original, faults>>
  BY DEF Audit!Checkpoint
<1>2. journal = written.journal /\ chain = written.chain /\ Audit!HeadN(chain) = Height
  BY <1>1 DEF AuditInv, Remains, Height
<1>3. PICK last \in 1..MaxKey :
        /\ Audit!Leaves(journal, (prior.last + 1)..last) # <<>> /\ journal[last] > 0
        /\ chain' = [chain EXCEPT ![n] =
                       Audit!Build(n, prior, Audit!Leaves(journal, (prior.last + 1)..last))]
        /\ written' = [written EXCEPT !.chain = chain']
  BY <1>2, AuditConstants DEF Audit!Checkpoint
<1> DEFINE ls == Audit!Leaves(journal, (prior.last + 1)..last)
           cp == Audit!Build(n, prior, ls)
<1>4. /\ prior = Prior(n) /\ prior.last \in Nat /\ prior.last >= Height
      /\ Height \in 0..MaxKey /\ n \in Nat \ {0}
      /\ Height > 0 => prior = written.chain[Height]
      /\ Height = 0 => prior.last = 0
  <2>1. Height \in 0..MaxKey /\ n \in Nat \ {0} /\ n - 1 = Height /\ (n = 1 <=> Height = 0)
    BY AuditConstants DEF AuditInv, Built
  <2>2. prior = IF Height = 0 THEN Audit!Genesis ELSE written.chain[Height]
    BY <1>2 DEF Audit!Newest
  <2> HIDE DEF prior
  <2>3. prior = Prior(n)
    BY <2>1, <2>2 DEF Prior
  <2>4. CASE Height = 0
    BY <2>1, <2>2, <2>3, <2>4 DEF Audit!Genesis
  <2>5. CASE Height # 0
    <3>1. Height \in 1..Height
      BY <2>1, <2>5
    <3>2. prior.last \in 1..MaxKey /\ prior.last > Prior(Height).last /\ Prior(Height).last \in Nat
          /\ Prior(Height).last >= Height - 1
      BY <2>2, <2>5, <3>1, WrittenIs
    <3> QED  BY <2>1, <2>2, <2>3, <2>5, <3>2
  <2> QED  BY <2>4, <2>5
<1> HIDE DEF prior
<1>5. journal \in [1..MaxKey -> {0, 1, 2}] /\ last \in 0..MaxKey /\ prior.last + 1 \in Nat \ {0}
  BY <1>4, AuditConstants DEF AuditInv, AuditTypes
<1>6. PICK k \in (prior.last + 1)..last : journal[k] > 0
  BY <1>3, <1>5, LeavesAre
<1>7. last > prior.last /\ n \in 1..MaxKey /\ last \in (prior.last + 1)..MaxKey
  BY <1>4, <1>5, <1>6, AuditConstants
<1>8. ls[Len(ls)].key = last
  <2>1. /\ Len(ls) \in Nat
        /\ \A i \in 1..Len(ls) : ls[i].key \in (prior.last + 1)..last
        /\ \A i, j \in 1..Len(ls) : i < j => ls[i].key < ls[j].key
        /\ \E i \in 1..Len(ls) : ls[i].key = last
    <3>1. /\ Len(ls) \in Nat
          /\ \A i \in 1..Len(ls) : ls[i].key \in (prior.last + 1)..last
          /\ \A i, j \in 1..Len(ls) : i < j => ls[i].key < ls[j].key
          /\ \A l \in (prior.last + 1)..last : journal[l] > 0 => \E i \in 1..Len(ls) : ls[i].key = l
      BY <1>5, LeavesAre
    <3> HIDE DEF ls
    <3>2. last \in (prior.last + 1)..last
      BY <1>4, <1>5, <1>7
    <3> QED  BY <1>3, <3>1, <3>2
  <2> HIDE DEF ls
  <2>2. PICK i \in 1..Len(ls) : ls[i].key = last
    BY <2>1
  <2>3. Len(ls) \in 1..Len(ls) /\ (i = Len(ls) \/ i < Len(ls))
    BY <2>1
  <2>4. ls[Len(ls)].key <= last
    BY <2>1, <2>3
  <2>5. ls[Len(ls)].key \in Int /\ last \in Int
    BY <2>1, <2>3
  <2>6. i < Len(ls) => last < ls[Len(ls)].key
    BY <2>1, <2>2, <2>3
  <2> QED  BY <2>2, <2>3, <2>4, <2>5, <2>6
<1>9. cp.n = n /\ cp.last = last /\ cp # Audit!Missing /\ DOMAIN cp = DOMAIN Audit!Genesis
  BY <1>4, <1>7, <1>8, BuildIs
<1>10. /\ written'.chain = chain' /\ written'.journal = written.journal
       /\ DOMAIN written' = DOMAIN written
       /\ DOMAIN chain' = 1..MaxKey /\ chain'[n] = cp
       /\ \A m \in 1..MaxKey : m # n => chain'[m] = chain[m]
  <2> HIDE DEF cp
  <2>1. chain' = [chain EXCEPT ![n] = cp]
    BY <1>3 DEF cp, ls
  <2> QED  BY <1>3, <1>7, <2>1 DEF AuditInv, AuditTypes
<1> HIDE DEF cp, ls, n
<1>11. AuditTypes'
  <2>1. \A m \in 1..MaxKey : DOMAIN chain'[m] = (DOMAIN Audit!Genesis)'
    BY <1>9, <1>10 DEF AuditInv, AuditTypes, Audit!Genesis
  <2>2. Audit!Originals' = Audit!Originals
    BY DEF Audit!Originals, Audit!Gone, Audit!Intact
  <2> QED  BY <1>1, <1>10, <2>1, <2>2 DEF AuditInv, AuditTypes
<1>12. Audit!Numbers(written.chain) = 1..Height
  BY DEF AuditInv, Built
<1>13. Audit!Numbers(chain') = 1..n /\ Audit!Numbers(chain)' = 1..n
  <2>1. \A m \in 1..MaxKey : chain'[m] # Audit!Missing <=> m \in 1..n
    <3>1. \A m \in 1..MaxKey : chain[m] # Audit!Missing <=> m \in 1..Height
      BY <1>2, <1>12, AuditConstants DEF Audit!Numbers
    <3> QED  BY <1>4, <1>7, <1>9, <1>10, <3>1 DEF n
  <2>2. Audit!Numbers(chain') = 1..n
    BY <1>7, <2>1, AuditConstants DEF Audit!Numbers
  <2>3. Audit!Numbers(chain)' = Audit!Numbers(chain')
    BY DEF Audit!Numbers, Audit!Missing, Audit!Genesis, Audit!JournalKeys
  <2> QED  BY <2>2, <2>3
<1>14. Height' = n
  <2>1. Height' = Audit!HeadN(chain')
    BY <1>10 DEF Height, Audit!HeadN, Audit!Numbers, Audit!Missing, Audit!Genesis, Audit!JournalKeys,
       Audit!Max
  <2> QED  BY <1>4, <1>13, <2>1, HeadIs
<1>15. ASSUME NEW m \in 1..n PROVE
         /\ Prior(m)' = Prior(m)
         /\ m # n => Span(m)' = Span(m) /\ written'.chain[m] = written.chain[m] /\ m \in 1..Height
         /\ m = n => Span(m)' = (prior.last + 1)..last /\ written'.chain[m] = cp
  <2>1. m \in 1..MaxKey /\ (m # 1 => m - 1 \in 1..MaxKey /\ m - 1 # n) /\ (m # n => m \in 1..Height)
    <3>1. Height \in Nat /\ n = Height + 1 /\ MaxKey \in Nat /\ n <= MaxKey
      BY <1>4, <1>7, AuditConstants DEF n
    <3> HIDE DEF Height
    <3> QED  BY <3>1
  <2>2. Prior(m)' = Prior(m)
    BY <1>2, <1>10, <2>1 DEF Prior, Audit!Genesis
  <2>3. m # n => Span(m)' = Span(m) /\ written'.chain[m] = written.chain[m]
    BY <1>2, <1>10, <2>1, <2>2 DEF Span
  <2>4. m = n => Span(m)' = (prior.last + 1)..last /\ written'.chain[m] = cp
    BY <1>4, <1>9, <1>10, <2>2 DEF Span
  <2> QED  BY <2>1, <2>2, <2>3, <2>4
<1>16. Built'
  <2>1. ASSUME NEW m \in 1..n
        PROVE  /\ written'.chain[m] =
                    Audit!Build(m, Prior(m), Audit!Leaves(written.journal, Span(m)))'
               /\ Prior(m)'.last \in (m - 1)..MaxKey
               /\ written'.chain[m].last \in (Prior(m)'.last + 1)..MaxKey
               /\ written'.journal[written'.chain[m].last] > 0
    <3>1. Audit!Build(m, Prior(m), Audit!Leaves(written.journal, Span(m)))'
          = Audit!Build(m, Prior(m)', Audit!Leaves(written.journal, Span(m))')
      BY DEF Audit!Build
    <3>2. Audit!Leaves(written.journal, Span(m))' = Audit!Leaves(written.journal, Span(m)')
      BY <1>10 DEF Audit!Leaves, Audit!InOrder, Audit!Cardinality
    <3>3. CASE m = n
      <4>1. written'.chain[m] = Audit!Build(m, Prior(m)', Audit!Leaves(written.journal, Span(m)'))
        BY <1>2, <1>4, <1>15, <3>3 DEF cp, ls
      <4>2. Prior(m)' = prior /\ written'.chain[m] = cp /\ m - 1 = Height
        BY <1>4, <1>15, <3>3 DEF n
      <4>3. prior.last \in (m - 1)..MaxKey
        BY <1>4, <1>7, <4>2, AuditConstants
      <4>4. written'.chain[m].last = last /\ written'.journal = journal
        BY <1>2, <1>9, <1>10, <4>2
      <4> QED  BY <1>3, <1>7, <3>1, <3>2, <4>1, <4>2, <4>3, <4>4
    <3>4. CASE m # n
      <4>1. m \in 1..Height /\ Prior(m)' = Prior(m) /\ Span(m)' = Span(m)
            /\ written'.chain[m] = written.chain[m]
        BY <1>15, <3>4
      <4> QED  BY <1>10, <3>1, <3>2, <4>1 DEF AuditInv, Built
    <3> QED  BY <3>3, <3>4
  <2>2. Audit!Numbers(written.chain)' = 1..n
    BY <1>10, <1>13 DEF Audit!Numbers, Audit!Missing, Audit!Genesis, Audit!JournalKeys
  <2>3. n \in 0..MaxKey
    BY <1>7
  <2> QED  BY <1>14, <2>1, <2>2, <2>3 DEF Built
<1>17. Tiled'
  <2>1. ASSUME NEW m \in 1..n
        PROVE  /\ \A q \in 1..(m - 1) : written'.chain[q].last <= Prior(m)'.last
               /\ \A q \in 1..written'.chain[m].last : \E r \in 1..m : q \in Span(r)'
    <3>1. CASE m # n
      <4>1. m \in 1..Height /\ Prior(m)' = Prior(m) /\ written'.chain[m] = written.chain[m]
            /\ \A q \in 1..m : q \in 1..n /\ q # n
        <5>1. n \in Nat /\ \A q \in 1..m : q \in 1..n /\ q # n
          BY <1>4, <3>1
        <5> QED  BY <1>15, <3>1, <5>1
      <4>2. \A q \in 1..m : Span(q)' = Span(q) /\ written'.chain[q] = written.chain[q]
        BY <1>15, <4>1
      <4>3. \A q \in 1..(m - 1) : q \in 1..m
        OBVIOUS
      <4> QED  BY <4>1, <4>2, <4>3 DEF AuditInv, Tiled
    <3>2. CASE m = n
      <4>1. written'.chain[m].last = last /\ Prior(m)' = prior /\ Span(m)' = (prior.last + 1)..last
        BY <1>4, <1>9, <1>15, <3>2
      <4>2. ASSUME NEW q \in 1..(m - 1) PROVE written'.chain[q].last <= prior.last
        <5>1. q \in 1..n /\ q # n /\ q \in 1..Height /\ Height > 0 /\ Height \in 1..Height
              /\ prior = written.chain[Height]
          BY <1>4, <3>2, <4>2 DEF n
        <5>2. written'.chain[q] = written.chain[q]
          BY <1>15, <5>1
        <5>3. CASE q = Height
          BY <1>4, <5>1, <5>2, <5>3
        <5>4. CASE q # Height
          <6>1. q \in 1..(Height - 1)
            BY <5>1, <5>4
          <6>2. written.chain[q].last <= Prior(Height).last
            BY <5>1, <6>1 DEF AuditInv, Tiled
          <6>3. /\ Prior(Height).last < prior.last /\ Prior(Height).last \in Nat
                /\ written.chain[q].last \in 1..MaxKey
            BY <5>1, WrittenIs
          <6> QED  BY <1>4, <5>2, <6>2, <6>3
        <5> QED  BY <5>3, <5>4
      <4>3. ASSUME NEW q \in 1..last PROVE \E r \in 1..m : q \in Span(r)'
        <5>1. CASE q > prior.last
          <6>1. q \in (prior.last + 1)..last /\ m \in 1..m
            BY <1>4, <3>2, <5>1
          <6> QED  BY <4>1, <6>1
        <5>2. CASE ~(q > prior.last)
          <6>1. Height > 0 /\ Height \in 1..Height /\ q \in 1..written.chain[Height].last
            BY <1>4, <5>2
          <6>2. PICK r \in 1..Height : q \in Span(r)
            BY <6>1 DEF AuditInv, Tiled
          <6>3. r \in 1..m /\ r \in 1..n /\ r # n
            BY <1>4, <3>2 DEF n
          <6>4. Span(r)' = Span(r)
            BY <1>15, <6>3
          <6> QED  BY <6>2, <6>3, <6>4
        <5> QED  BY <5>1, <5>2
      <4> QED  BY <4>1, <4>2, <4>3
    <3> QED  BY <3>1, <3>2
  <2> QED  BY <1>14, <2>1 DEF Tiled
<1>18. Remains'
  <2>1. ASSUME NEW m \in 1..n PROVE chain'[m].n = m
    <3>1. CASE m = n
      BY <1>9, <1>10, <3>1
    <3>2. CASE m # n
      <4>1. m \in 1..Height /\ written'.chain[m] = written.chain[m]
        BY <1>15, <3>2
      <4> QED  BY <1>10, <4>1, WrittenIs
    <3> QED  BY <3>1, <3>2
  <2> QED  BY <1>1, <1>2, <1>10, <1>13, <1>14, <2>1 DEF Remains
<1> QED  BY <1>11, <1>16, <1>17, <1>18 DEF AuditInv
\* What somebody else changes is not what was written.
LEMMA AuditTampers ==
  ASSUME AuditInv, Audit!TamperEvent \/ Audit!TamperOriginal \/ Audit!TamperChain
  PROVE  AuditInv'
<1>1. written' = written /\ faults' \in Nat /\ faults' # 0
  BY DEF AuditInv, AuditTypes, Audit!TamperEvent, Audit!TamperOriginal, Audit!TamperChain, Audit!Tampered
<1>2. journal' \in [1..MaxKey -> {0, 1, 2}] /\ original' \in [1..MaxKey -> Audit!Originals]
  <2> USE AuditConstants DEF AuditInv, AuditTypes, Audit!Contents
  <2>1. CASE Audit!TamperEvent
    <3>1. PICK k \in 1..MaxKey, c \in {0, 1, 2} : journal' = [journal EXCEPT ![k] = c]
      BY <2>1 DEF Audit!TamperEvent
    <3> QED  BY <2>1, <3>1 DEF Audit!TamperEvent
  <2>2. CASE Audit!TamperOriginal
    <3>1. PICK k \in 1..MaxKey, o \in Audit!Originals : original' = [original EXCEPT ![k] = o]
      BY <2>2 DEF Audit!TamperOriginal
    <3> QED  BY <2>2, <3>1 DEF Audit!TamperOriginal
  <2>3. CASE Audit!TamperChain
    BY <2>3 DEF Audit!TamperChain
  <2> QED  BY <2>1, <2>2, <2>3
<1>3. /\ DOMAIN chain' = 1..MaxKey
      /\ \A m \in 1..MaxKey : DOMAIN chain'[m] = DOMAIN Audit!Genesis
      /\ \A m \in 1..MaxKey : chain'[m] # Audit!Missing =>
           chain[m] # Audit!Missing /\ chain'[m].n = chain[m].n
  <2>1. CASE Audit!TamperEvent \/ Audit!TamperOriginal
    BY <2>1 DEF AuditInv, AuditTypes, Audit!TamperEvent, Audit!TamperOriginal
  <2>2. CASE Audit!TamperChain
    <3>1. PICK n \in Audit!Numbers(chain) : \E cp \in Audit!Forged(n) : chain' = [chain EXCEPT ![n] = cp]
      BY <2>2 DEF Audit!TamperChain
    <3>2. PICK cp \in Audit!Forged(n) : chain' = [chain EXCEPT ![n] = cp]
      BY <3>1
    <3>3. /\ n \in 1..MaxKey /\ chain[n] # Audit!Missing
           /\ chain[n].n = n /\ DOMAIN chain[n] = DOMAIN Audit!Genesis
          /\ "n" \in DOMAIN Audit!Genesis
      BY <3>1, AuditConstants DEF AuditInv, AuditTypes, Remains, Audit!Numbers, Audit!Genesis
    <3>4. DOMAIN cp = DOMAIN Audit!Genesis /\ (cp = Audit!Missing \/ cp.n = n)
      <4>1. CASE cp = Audit!Missing
        BY <4>1 DEF Audit!Missing, Audit!Genesis
      <4>2. ASSUME NEW p, NEW ls, cp = Audit!Build(n, p, ls)
            PROVE  DOMAIN cp = DOMAIN Audit!Genesis /\ cp.n = n
        BY <4>2, BuildIs
      <4>3. ASSUME NEW ls, cp = [chain[n] EXCEPT !.leaves = ls]
            PROVE  DOMAIN cp = DOMAIN Audit!Genesis /\ cp.n = n
        BY <3>3, <4>3
      <4> QED  BY <3>2, <4>1, <4>2, <4>3 DEF Audit!Forged
    <3>5. chain'[n] = cp /\ DOMAIN chain' = 1..MaxKey /\ \A m \in 1..MaxKey : m # n => chain'[m] = chain[m]
      BY <3>2, <3>3 DEF AuditInv, AuditTypes
    <3> QED  BY <3>3, <3>4, <3>5 DEF AuditInv, AuditTypes
  <2> QED  BY <2>1, <2>2
<1>4. AuditTypes'
  <2>1. Audit!Originals' = Audit!Originals /\ (DOMAIN Audit!Genesis)' = DOMAIN Audit!Genesis
    BY DEF Audit!Originals, Audit!Gone, Audit!Intact, Audit!Genesis
  <2> QED  BY <1>1, <1>2, <1>3, <2>1 DEF AuditInv, AuditTypes
<1>5. Height' = Height /\ Audit!Numbers(written.chain)' = Audit!Numbers(written.chain)
  BY <1>1 DEF Height, Audit!HeadN, Audit!Numbers, Audit!Missing, Audit!Genesis, Audit!JournalKeys
<1>6. \A n : Prior(n)' = Prior(n) /\ Span(n)' = Span(n)
  BY <1>1 DEF Prior, Span, Audit!Genesis
<1>7. Built'
  <2>1. ASSUME NEW n PROVE
          Audit!Build(n, Prior(n), Audit!Leaves(written.journal, Span(n)))'
          = Audit!Build(n, Prior(n), Audit!Leaves(written.journal, Span(n)))
    <3>1. Audit!Leaves(written.journal, Span(n))' = Audit!Leaves(written.journal, Span(n))
      <4>1. Audit!Leaves(written.journal, Span(n))' = Audit!Leaves(written'.journal, Span(n)')
        BY DEF Audit!Leaves, Audit!InOrder, Audit!Cardinality
      <4> QED  BY <1>1, <1>6, <4>1
    <3>2. Audit!Build(n, Prior(n), Audit!Leaves(written.journal, Span(n)))'
          = Audit!Build(n, Prior(n)', Audit!Leaves(written.journal, Span(n))')
      BY DEF Audit!Build
    <3> QED  BY <1>6, <3>1, <3>2
  <2> QED  BY <1>1, <1>5, <1>6, <2>1 DEF AuditInv, Built
<1>8. Tiled'
  BY <1>1, <1>5, <1>6 DEF AuditInv, Tiled
<1>9. Remains'
  <2>1. \A m \in 1..MaxKey : chain[m] # Audit!Missing => m \in 1..Height /\ chain[m].n = m
    BY AuditConstants DEF AuditInv, Remains, Audit!Numbers
  <2>2. Audit!Numbers(chain)' = {m \in 1..MaxKey : chain'[m] # Audit!Missing}
    BY AuditConstants DEF Audit!Numbers, Audit!Missing, Audit!Genesis, Audit!JournalKeys
  <2> QED  BY <1>1, <1>3, <1>5, <2>1, <2>2 DEF Remains
<1> QED  BY <1>4, <1>7, <1>8, <1>9 DEF AuditInv

\* Every step, the changes among them, keeps the invariant.
LEMMA AuditSteps ==
  ASSUME AuditInv, [Audit!Next]_(Audit!vars)
  PROVE  AuditInv'
<1>1. CASE Audit!AppendEvent
  BY <1>1, AuditAppends
<1>2. CASE Audit!Checkpoint
  BY <1>2, AuditChains
<1>3. CASE Audit!TamperEvent \/ Audit!TamperOriginal \/ Audit!TamperChain
  BY <1>3, AuditTampers
<1>4. CASE UNCHANGED Audit!vars
  <2>1. UNCHANGED <<journal, original, chain, written, faults>>
    BY <1>4 DEF Audit!vars
  <2> USE DEF Audit!Originals, Audit!Gone, Audit!Intact, Audit!Genesis, Audit!Missing, Audit!JournalKeys
  <2>2. AuditTypes'
    BY <2>1 DEF AuditInv, AuditTypes
  <2>3. Height' = Height /\ Audit!Numbers(written.chain)' = Audit!Numbers(written.chain)
        /\ Audit!Numbers(chain)' = Audit!Numbers(chain)
    BY <2>1 DEF Height, Audit!HeadN, Audit!Numbers
  <2>4. \A n : Prior(n)' = Prior(n) /\ Span(n)' = Span(n)
    BY <2>1 DEF Prior, Span
  <2>5. ASSUME NEW n PROVE
          Audit!Build(n, Prior(n), Audit!Leaves(written.journal, Span(n)))'
          = Audit!Build(n, Prior(n), Audit!Leaves(written.journal, Span(n)))
    <3>1. Audit!Leaves(written.journal, Span(n))' = Audit!Leaves(written.journal, Span(n))
      <4>1. Audit!Leaves(written.journal, Span(n))' = Audit!Leaves(written'.journal, Span(n)')
        BY DEF Audit!Leaves, Audit!InOrder, Audit!Cardinality
      <4> QED  BY <2>1, <2>4, <4>1
    <3>2. Audit!Build(n, Prior(n), Audit!Leaves(written.journal, Span(n)))'
          = Audit!Build(n, Prior(n)', Audit!Leaves(written.journal, Span(n))')
      BY DEF Audit!Build
    <3> QED  BY <2>4, <3>1, <3>2
  <2>6. Built'
    BY <2>1, <2>3, <2>4, <2>5 DEF AuditInv, Built
  <2>7. Tiled'
    BY <2>1, <2>3, <2>4 DEF AuditInv, Tiled
  <2>8. Remains'
    BY <2>1, <2>3 DEF AuditInv, Remains
  <2> QED  BY <2>2, <2>6, <2>7, <2>8 DEF AuditInv
<1> QED  BY <1>1, <1>2, <1>3, <1>4 DEF Audit!Next
-----------------------------------------------------------------------------
(* What Verify finds.                                                      *)

\* The leaves of a checkpoint as it was written.
LEMMA WrittenLeaves ==
  ASSUME AuditInv, NEW n \in 1..Height
  PROVE  LET ls == written.chain[n].leaves IN
         /\ ls # <<>> /\ DOMAIN ls = 1..Len(ls) /\ Len(ls) \in Nat
         /\ \A i \in 1..Len(ls) :
              /\ ls[i] = [key |-> ls[i].key, digest |-> written.journal[ls[i].key]]
              /\ ls[i].key \in Span(n) /\ ls[i].key \in 1..MaxKey /\ written.journal[ls[i].key] > 0
         /\ \A i, j \in 1..Len(ls) : i < j => ls[i].key < ls[j].key
         /\ \A k \in Span(n) : written.journal[k] > 0 => \E i \in 1..Len(ls) : ls[i].key = k
<1> DEFINE a == Prior(n).last + 1
           b == written.chain[n].last
           ls == written.chain[n].leaves
<1>1. ls = Audit!Leaves(written.journal, a..b) /\ Span(n) = a..b
      /\ a \in Nat \ {0} /\ b \in 0..MaxKey /\ b \in a..b /\ written.journal[b] > 0
  <2>1. /\ ls = Audit!Leaves(written.journal, Span(n)) /\ Span(n) = a..b
        /\ Prior(n).last \in Nat /\ b > Prior(n).last /\ b \in 1..MaxKey /\ written.journal[b] > 0
    BY WrittenIs
  <2> HIDE DEF b, ls
  <2> QED  BY <2>1
<1>2. written.journal \in [1..MaxKey -> {0, 1, 2}]
  BY DEF AuditInv, AuditTypes
<1> HIDE DEF a, b, ls
<1>3. /\ DOMAIN ls = 1..Len(ls) /\ Len(ls) \in Nat
      /\ \A i \in 1..Len(ls) :
           /\ ls[i] = [key |-> ls[i].key, digest |-> written.journal[ls[i].key]]
           /\ ls[i].key \in a..b /\ ls[i].key \in 1..MaxKey /\ written.journal[ls[i].key] > 0
      /\ \A i, j \in 1..Len(ls) : i < j => ls[i].key < ls[j].key
      /\ \A k \in a..b : written.journal[k] > 0 => \E i \in 1..Len(ls) : ls[i].key = k
      /\ ls = <<>> <=> \A k \in a..b : ~(written.journal[k] > 0)
  <2> DEFINE e == written.journal
  <2>0. e \in [1..MaxKey -> {0, 1, 2}]
    BY <1>2
  <2> HIDE DEF e
  <2> DEFINE L == Audit!Leaves(e, a..b)
  <2>1. /\ DOMAIN L = 1..Len(L) /\ Len(L) \in Nat
        /\ \A i \in 1..Len(L) :
             /\ L[i] = [key |-> L[i].key, digest |-> e[L[i].key]]
             /\ L[i].key \in a..b /\ L[i].key \in 1..MaxKey /\ e[L[i].key] > 0
        /\ \A i, j \in 1..Len(L) : i < j => L[i].key < L[j].key
        /\ \A k \in a..b : e[k] > 0 => \E i \in 1..Len(L) : L[i].key = k
        /\ L = <<>> <=> \A k \in a..b : ~(e[k] > 0)
    <3>1. a \in Nat \ {0} /\ b \in 0..MaxKey
      BY <1>1
    <3> QED  BY <2>0, <3>1, LeavesAre
  <2>2. ls = L
    BY <1>1 DEF e
  <2> HIDE DEF L
  <2> QED  BY <2>1, <2>2 DEF e
<1>4. ls # <<>>
  BY <1>1, <1>3
<1> QED  BY <1>1, <1>3, <1>4 DEF ls

\* The events that a chain ending there covers.
Recorded(end) == {k \in 1..end : written.journal[k] > 0}
LeafOf(k) == [key |-> k, digest |-> written.journal[k]]

\* Checkpoints that are as written are linked, and cover what was journaled.
LEMMA AsWritten ==
  ASSUME AuditInv, \A n \in 1..Audit!HeadN(chain) : chain[n] = written.chain[n]
  PROVE  LET end == Audit!Newest(chain).last IN
         /\ end \in 0..MaxKey
         /\ UNION {Audit!LinkFindings(n) : n \in Audit!Numbers(chain)} = {}
         /\ Audit!OrderFindings = {}
         /\ Audit!Covered = {LeafOf(k) : k \in Recorded(end)}
         /\ Audit!CoveredEnd = end
         /\ UNION {chain[n].originals : n \in Audit!Numbers(chain)} = Recorded(end)
<1> DEFINE h == Audit!HeadN(chain)
           end == Audit!Newest(chain).last
<1>1. h \in 0..MaxKey /\ h \in 0..Height /\ Audit!Numbers(chain) = 1..h /\ Height \in 0..MaxKey
  <2>1. /\ h \in Audit!Numbers(chain) \cup {0} /\ h \in 0..MaxKey
        /\ \A n \in Audit!Numbers(chain) : n <= h
    BY HeadIs
  <2>2. Audit!Numbers(chain) \subseteq 1..Height /\ Height \in 0..MaxKey
    BY DEF AuditInv, Remains, Built
  <2>3. \A n \in 1..h : chain[n] = written.chain[n]
    OBVIOUS
  <2> HIDE DEF h, Height
  <2>4. h \in 0..Height
    BY <2>1, <2>2
  <2>5. ASSUME NEW n \in 1..h PROVE n \in Audit!Numbers(chain)
    <3>1. n \in 1..Height /\ n \in 1..MaxKey
      BY <2>2, <2>4, <2>5, AuditConstants
    <3>2. chain[n] # Audit!Missing
      BY <2>3, <2>5, <3>1, WrittenIs DEF Height
    <3> QED  BY <3>1, <3>2, AuditConstants DEF Audit!Numbers
  <2>6. \A n \in Audit!Numbers(chain) : n \in 1..h
    BY <2>1, <2>2, AuditConstants
  <2> QED  BY <2>1, <2>2, <2>4, <2>5, <2>6
<1>2. \A n \in 1..h : n \in 1..Height /\ chain[n] = written.chain[n] /\ n \in Nat
  <2>1. \A n \in 1..h : chain[n] = written.chain[n]
    OBVIOUS
  <2> HIDE DEF h, Height
  <2> QED  BY <1>1, <2>1
<1>3. /\ h = 0 => end = 0
      /\ h > 0 => h \in 1..h /\ end = written.chain[h].last
      /\ end \in 0..MaxKey
  <2>1. end = IF h = 0 THEN 0 ELSE chain[h].last
    BY DEF Audit!Newest, Audit!Genesis
  <2> HIDE DEF h, end
  <2>2. h > 0 => h \in 1..h /\ chain[h] = written.chain[h] /\ written.chain[h].last \in 1..MaxKey
    BY <1>1, <1>2, WrittenIs
  <2> QED  BY <1>1, <2>1, <2>2, AuditConstants
<1> HIDE DEF h, end
<1>4. ASSUME NEW n \in 1..h PROVE Audit!LinkFindings(n) = {}
  <2> DEFINE B == {0} \cup {k \in Audit!Numbers(chain) : k < n}
  <2>1. B = 0..(n - 1) /\ n - 1 \in Nat /\ B \in SUBSET (0..(n - 1)) /\ B # {}
    BY <1>1, <1>4
  <2>2. Audit!Max(B) = n - 1
    <3>1. Audit!Max(B) \in B /\ \A y \in B : y <= Audit!Max(B)
      BY <2>1, AuditGreatest
    <3> HIDE DEF B
    <3>2. n - 1 \in B /\ Audit!Max(B) \in 0..(n - 1)
      BY <2>1, <3>1
    <3> QED  BY <3>1, <3>2
  <2>3. Audit!Before(n) = Prior(n)
    <3>1. Audit!Before(n) = IF n - 1 = 0 THEN Audit!Genesis ELSE chain[n - 1]
      BY <2>2 DEF Audit!Before
    <3>2. n # 1 => n - 1 \in 1..h
      BY <1>1, <1>4
    <3> QED  BY <1>2, <3>1, <3>2, <2>1 DEF Prior
  <2>4. Prior(n).n = n - 1
    <3>1. CASE n = 1
      BY <3>1 DEF Prior, Audit!Genesis
    <3>2. CASE n # 1
      <4>1. n - 1 \in 1..h /\ n - 1 \in 1..Height
        BY <1>1, <1>2, <1>4, <3>2
      <4> QED  BY <3>2, <4>1, WrittenIs DEF Prior
    <3> QED  BY <3>1, <3>2
  <2>5. /\ chain[n].n = n /\ chain[n].prev = <<Prior(n)>> /\ chain[n].count = Len(chain[n].leaves)
        /\ chain[n].root = Audit!MerkleRoot(chain[n].leaves) /\ chain[n].first = chain[n].leaves[1].key
        /\ chain[n].last = chain[n].leaves[Len(chain[n].leaves)].key
    <3> DEFINE ls == Audit!Leaves(written.journal, Span(n))
               cp == written.chain[n]
    <3>1. /\ cp.n = n /\ cp.prev = <<Prior(n)>> /\ cp.leaves = ls /\ cp.count = Len(ls)
          /\ cp.root = Audit!MerkleRoot(ls) /\ cp.first = ls[1].key /\ cp.last = ls[Len(ls)].key
      BY <1>2, <1>4, WrittenIs
    <3>2. chain[n] = cp
      BY <1>2, <1>4
    <3> HIDE DEF ls, cp
    <3> QED  BY <3>1, <3>2
  <2>6. chain[n].leaves # <<>>
    BY <1>2, <1>4, WrittenLeaves
  <2>7. n = (n - 1) + 1
    BY <1>2
  <2> QED  BY <2>3, <2>4, <2>5, <2>6, <2>7 DEF Audit!LinkFindings
<1>5. UNION {Audit!LinkFindings(n) : n \in Audit!Numbers(chain)} = {}
  BY <1>1, <1>4
\* What is read off the leaves at a place of the walk.
<1>6. ASSUME NEW p \in Audit!Walk
      PROVE  /\ p[1] \in 1..h /\ p[1] \in 1..Height
             /\ p[2] \in Nat /\ p[2] \in DOMAIN written.chain[p[1]].leaves
             /\ Audit!Leaf(p) = written.chain[p[1]].leaves[p[2]]
             /\ Audit!Leaf(p) = LeafOf(Audit!Leaf(p).key) /\ Audit!Leaf(p).key \in Span(p[1])
             /\ written.journal[Audit!Leaf(p).key] > 0
  <2>1. PICK n \in 1..h : \E i \in DOMAIN chain[n].leaves : p = <<n, i>>
    BY <1>1 DEF Audit!Walk
  <2>2. PICK i \in DOMAIN chain[n].leaves : p = <<n, i>>
    BY <2>1
  <2>3. n \in 1..Height /\ chain[n] = written.chain[n]
    BY <1>2
  <2>4. /\ DOMAIN written.chain[n].leaves = 1..Len(written.chain[n].leaves)
        /\ \A j \in 1..Len(written.chain[n].leaves) :
             /\ written.chain[n].leaves[j] = LeafOf(written.chain[n].leaves[j].key)
             /\ written.chain[n].leaves[j].key \in Span(n)
             /\ written.journal[written.chain[n].leaves[j].key] > 0
    BY <2>3, WrittenLeaves DEF LeafOf
  <2>5. p[1] = n /\ p[2] = i /\ i \in 1..Len(written.chain[n].leaves) /\ i \in Nat
    BY <2>2, <2>3, <2>4
  <2>6. Audit!Leaf(p) = written.chain[n].leaves[i]
    BY <2>3, <2>5 DEF Audit!Leaf
  <2> QED  BY <2>2, <2>3, <2>4, <2>5, <2>6
\* A span lies between the ends of two checkpoints, below the end of the chain.
<1>7. ASSUME NEW n \in 1..h
      PROVE  /\ \A k \in Span(n) : k \in 1..end /\ Prior(n).last < k /\ k <= written.chain[n].last
             /\ \A m \in 1..h : m < n => written.chain[m].last <= Prior(n).last
  <2>1. /\ Prior(n).last \in Nat /\ written.chain[n].last \in 1..MaxKey
        /\ Span(n) = (Prior(n).last + 1)..written.chain[n].last /\ n \in 1..Height /\ n \in Nat
    BY <1>2, WrittenIs
  <2>2. written.chain[n].last <= end
    <3>1. h > 0 /\ h \in 1..Height /\ end = written.chain[h].last
      BY <1>1, <1>2, <1>3
    <3>2. CASE n = h
      BY <2>1, <3>1, <3>2
    <3>3. CASE n # h
      <4>1. n \in 1..(h - 1)
        BY <1>1, <3>3
      <4>2. written.chain[n].last <= Prior(h).last
        BY <3>1, <4>1 DEF AuditInv, Tiled
      <4>3. Prior(h).last < written.chain[h].last /\ Prior(h).last \in Nat
            /\ written.chain[h].last \in 1..MaxKey
        BY <3>1, WrittenIs
      <4> QED  BY <2>1, <3>1, <4>2, <4>3
    <3> QED  BY <3>2, <3>3
  <2>3. \A m \in 1..h : m < n => m \in 1..(n - 1)
    BY <1>1, <2>1
  <2>4. \A m \in 1..(n - 1) : written.chain[m].last <= Prior(n).last
    BY <2>1 DEF AuditInv, Tiled
  <2>5. \A k \in Span(n) : k \in 1..end /\ Prior(n).last < k /\ k <= written.chain[n].last
    BY <1>3, <2>1, <2>2
  <2> QED  BY <2>3, <2>4, <2>5
<1>8. ASSUME NEW p \in Audit!Walk, NEW q \in Audit!Walk, Audit!Earlier(q, p)
      PROVE  Audit!Leaf(q).key < Audit!Leaf(p).key
  <2>1. p[1] \in 1..h /\ q[1] \in 1..h /\ p[2] \in Nat /\ q[2] \in Nat
    BY <1>6
  <2>2. CASE q[1] < p[1]
    <3>1. /\ Audit!Leaf(q).key <= written.chain[q[1]].last
          /\ written.chain[q[1]].last <= Prior(p[1]).last
          /\ Prior(p[1]).last < Audit!Leaf(p).key
      BY <1>6, <1>7, <2>1, <2>2
    <3>2. /\ Audit!Leaf(q).key \in Nat /\ Audit!Leaf(p).key \in Nat
          /\ written.chain[q[1]].last \in Nat /\ Prior(p[1]).last \in Nat
      <4>1. Audit!Leaf(q).key \in 1..end /\ Audit!Leaf(p).key \in 1..end
        BY <1>6, <1>7, <2>1
      <4>2. written.chain[q[1]].last \in 1..MaxKey /\ Prior(p[1]).last \in Nat
        BY <1>6, WrittenIs
      <4> QED  BY <4>1, <4>2
    <3> QED  BY <3>1, <3>2
  <2>3. CASE q[1] = p[1] /\ q[2] < p[2]
    <3>1. p[1] \in 1..Height /\ q[2] \in DOMAIN written.chain[p[1]].leaves
          /\ p[2] \in DOMAIN written.chain[p[1]].leaves
      BY <1>6, <2>3
    <3>2. written.chain[p[1]].leaves[q[2]].key < written.chain[p[1]].leaves[p[2]].key
      BY <2>3, <3>1, WrittenLeaves
    <3>3. Audit!Leaf(q) = written.chain[p[1]].leaves[q[2]] /\ Audit!Leaf(p) = written.chain[p[1]].leaves[p[2]]
      BY <1>6, <2>3
    <3> QED  BY <3>2, <3>3
  <2> QED  BY <1>8, <2>2, <2>3 DEF Audit!Earlier
<1>9. Audit!Accepted = Audit!Walk /\ Audit!OrderFindings = {}
  <2>1. Audit!Accepted = Audit!Walk
    BY <1>8 DEF Audit!Accepted
  <2> QED  BY <2>1 DEF Audit!OrderFindings
\* Every event up to the end is at a place of the walk.
<1>10. ASSUME NEW k \in Recorded(end)
       PROVE  /\ \E p \in Audit!Walk : Audit!Leaf(p) = LeafOf(k)
              /\ \E n \in 1..h : k \in chain[n].originals
  <2>1. k \in 1..end /\ written.journal[k] > 0
    BY DEF Recorded
  <2>2. h > 0 /\ h \in 1..Height /\ end = written.chain[h].last
    BY <1>1, <1>2, <1>3, <2>1
  <2>3. PICK n \in 1..h : k \in Span(n)
    BY <2>1, <2>2 DEF AuditInv, Tiled
  <2>4. n \in 1..Height /\ chain[n] = written.chain[n] /\ n \in Audit!Numbers(chain)
    BY <1>1, <1>2
  <2> DEFINE ls == written.chain[n].leaves
  <2>5. /\ DOMAIN ls = 1..Len(ls)
        /\ \A i \in 1..Len(ls) : ls[i] = LeafOf(ls[i].key)
        /\ \E i \in 1..Len(ls) : ls[i].key = k
    <3>1. n \in 1..Height
      BY <2>4
    <3> QED  BY <2>1, <2>3, <3>1, WrittenLeaves DEF LeafOf
  <2>6. PICK i \in DOMAIN chain[n].leaves : chain[n].leaves[i] = LeafOf(k) /\ chain[n].leaves[i].key = k
    <3> HIDE DEF ls
    <3>1. PICK i \in 1..Len(ls) : ls[i].key = k
      BY <2>5
    <3>2. i \in DOMAIN ls /\ ls[i] = LeafOf(k)
      BY <2>5, <3>1
    <3>3. chain[n].leaves = ls
      BY <2>4 DEF ls
    <3> QED  BY <3>1, <3>2, <3>3
  <2>7. <<n, i>> \in Audit!Walk /\ Audit!Leaf(<<n, i>>) = LeafOf(k)
    BY <2>4, <2>6 DEF Audit!Walk, Audit!Leaf
  <2>8. k \in chain[n].originals
    <3>1. chain[n].originals = {chain[n].leaves[j].key : j \in DOMAIN chain[n].leaves}
      BY <2>4, WrittenIs
    <3> QED  BY <2>6, <3>1
  <2> QED  BY <2>7, <2>8
<1>11. ASSUME NEW p \in Audit!Walk
       PROVE  Audit!Leaf(p).key \in Recorded(end) /\ Audit!Leaf(p) = LeafOf(Audit!Leaf(p).key)
  BY <1>6, <1>7 DEF Recorded
<1>12. Audit!Covered = {LeafOf(k) : k \in Recorded(end)}
  <2>1. Audit!Covered = {Audit!Leaf(p) : p \in Audit!Walk}
    BY <1>9 DEF Audit!Covered
  <2> QED  BY <1>10, <1>11, <2>1
<1>13. {l.key : l \in Audit!Covered} = Recorded(end)
  <2>1. \A k : LeafOf(k).key = k
    BY DEF LeafOf
  <2> QED  BY <1>12, <2>1
<1>14. Audit!CoveredEnd = end
  <2> DEFINE B == {0} \cup Recorded(end)
  <2>1. B \in SUBSET (0..end) /\ B # {} /\ end \in Nat
    BY <1>3 DEF Recorded
  <2>2. end \in B
    <3>1. CASE h = 0
      BY <1>3, <3>1
    <3>2. CASE h # 0
      <4>1. h > 0 /\ h \in 1..Height /\ end = written.chain[h].last
        BY <1>1, <1>2, <1>3, <3>2
      <4>2. end \in 1..MaxKey /\ written.journal[end] > 0
        BY <4>1, WrittenIs
      <4> QED  BY <4>2 DEF Recorded
    <3> QED  BY <3>1, <3>2
  <2>3. Audit!Max(B) \in B /\ \A y \in B : y <= Audit!Max(B)
    BY <2>1, AuditGreatest
  <2>4. Audit!CoveredEnd = Audit!Max(B)
    BY <1>13 DEF Audit!CoveredEnd
  <2> HIDE DEF B
  <2>5. Audit!Max(B) \in 0..end /\ end <= Audit!Max(B)
    BY <2>1, <2>2, <2>3
  <2> QED  BY <2>1, <2>4, <2>5
<1>15. UNION {chain[n].originals : n \in Audit!Numbers(chain)} = Recorded(end)
  <2>1. ASSUME NEW n \in 1..h, NEW k \in chain[n].originals PROVE k \in Recorded(end)
    <3>1. n \in 1..Height /\ chain[n] = written.chain[n]
      BY <1>2
    <3>2. chain[n].originals = {chain[n].leaves[j].key : j \in DOMAIN chain[n].leaves}
      BY <3>1, WrittenIs
    <3>3. PICK j \in DOMAIN chain[n].leaves : k = chain[n].leaves[j].key
      BY <2>1, <3>2
    <3>4. k \in Span(n) /\ written.journal[k] > 0
      BY <3>1, <3>3, WrittenLeaves
    <3> QED  BY <1>7, <3>4 DEF Recorded
  <2> QED  BY <1>1, <1>10, <2>1
<1> QED  BY <1>3, <1>5, <1>9, <1>12, <1>14, <1>15 DEF end
\* Of checkpoints as written, Verify finds the differences and nothing else.
LEMMA VerifyFinds ==
  ASSUME AuditInv, \A n \in 1..Audit!HeadN(chain) : chain[n] = written.chain[n]
  PROVE  Audit!Verify = Audit!Differences
<1> DEFINE end == Audit!Newest(chain).last
           E == Recorded(end)
           C == {LeafOf(k) : k \in E}
<1>1. /\ end \in 0..MaxKey
      /\ UNION {Audit!LinkFindings(n) : n \in Audit!Numbers(chain)} = {}
      /\ Audit!OrderFindings = {} /\ Audit!Covered = C /\ Audit!CoveredEnd = end
      /\ UNION {chain[n].originals : n \in Audit!Numbers(chain)} = E
  BY AsWritten
<1>2. /\ journal \in [1..MaxKey -> {0, 1, 2}] /\ written.journal \in [1..MaxKey -> {0, 1, 2}]
      /\ original \in [1..MaxKey -> Audit!Originals]
  BY DEF AuditInv, AuditTypes
<1>3. Audit!Verify = Audit!EventFindings(C, end) \cup Audit!OriginalFindings
  <2>1. Audit!EventFindings(Audit!Covered, Audit!CoveredEnd) = Audit!EventFindings(C, end)
    <3> HIDE DEF C, end
    <3> QED  BY <1>1
  <2>2. ASSUME NEW x PROVE x \notin UNION {Audit!LinkFindings(n) : n \in Audit!Numbers(chain)}
    BY <1>1
  <2>3. ASSUME NEW x
        PROVE  x \in Audit!Verify <=>
                 \/ x \in Audit!EventFindings(Audit!Covered, Audit!CoveredEnd)
                 \/ x \in Audit!OriginalFindings
    <3>1. Audit!OrderFindings = {}
      BY <1>1
    <3> QED  BY <2>2, <3>1 DEF Audit!Verify
  <2> HIDE DEF C, end
  <2> QED  BY <2>1, <2>3
<1> HIDE DEF end
<1>4. \A k \in E : k \in 1..end /\ k \in 1..MaxKey /\ written.journal[k] \in {1, 2}
  BY <1>1, <1>2, AuditConstants DEF Recorded
<1>5. /\ \A k : k \in E <=> k \in 1..end /\ written.journal[k] > 0
      /\ \A k \in 1..end : /\ k \in 1..MaxKey
                           /\ journal[k] \in {0, 1, 2} /\ written.journal[k] \in {0, 1, 2}
  <2>1. \A k : k \in E <=> k \in 1..end /\ written.journal[k] > 0
    BY DEF Recorded
  <2>2. \A k \in 1..end : k \in 1..MaxKey
    BY <1>1, AuditConstants
  <2> QED  BY <1>2, <2>1, <2>2
<1>6. \A k : LeafOf(k).key = k /\ LeafOf(k).digest = written.journal[k]
  BY DEF LeafOf
<1>7. {l.key : l \in C} = E
  BY <1>6
<1> DEFINE missing == {k \in E : journal[k] = 0}
           modified == {k \in E : journal[k] \notin {0, written.journal[k]}}
           extra == {k \in 1..MaxKey : journal[k] > 0 /\ k <= end /\ k \notin E}
           gone == {k \in E : original[k] = Audit!Gone}
           changed == {k \in E : /\ original[k] # Audit!Gone
                                 /\ \/ original[k].size # Audit!Intact.size
                                    \/ HashOriginals /\ original[k].bytes # Audit!Intact.bytes}
           Named(kind, keys) == {Audit!Found(kind, k) : k \in keys}
<1>8. Audit!EventFindings(C, end) =
        Named("missing_event", missing) \cup Named("modified_event", modified)
        \cup Named("extra_event", extra)
  <2> HIDE DEF E
  <2>1. {Audit!Found("missing_event", l.key) : l \in {c \in C : journal[c.key] = 0}}
        = Named("missing_event", missing)
    BY <1>6
  <2>2. {Audit!Found("modified_event", l.key) : l \in {c \in C : journal[c.key] \notin {0, c.digest}}}
        = Named("modified_event", modified)
    BY <1>6
  <2>3. {k \in 1..MaxKey : /\ journal[k] > 0 /\ k <= end /\ k \notin {l.key : l \in C}} = extra
    BY <1>7
  <2> HIDE DEF C
  <2> QED  BY <2>1, <2>2, <2>3, AuditConstants DEF Audit!EventFindings
<1>9. Audit!OriginalFindings = Named("missing_original", gone) \cup Named("modified_original", changed)
  <2> HIDE DEF E
  <2> QED  BY <1>1 DEF Audit!OriginalFindings
<1> HIDE DEF C, E
<1>10. missing = {k \in 1..end : written.journal[k] > 0 /\ journal[k] = 0}
  BY <1>5
<1>11. modified = {k \in 1..end : /\ 0 \notin {journal[k], written.journal[k]}
                                  /\ journal[k] # written.journal[k]}
  BY <1>5
<1>12. extra = {k \in 1..end : written.journal[k] = 0 /\ journal[k] > 0}
  BY <1>1, <1>2, <1>4, <1>5, AuditConstants
<1>13. gone = {k \in 1..end : written.journal[k] > 0 /\ original[k] = Audit!Gone}
  BY <1>5
<1>14. changed = {k \in 1..end :
                   /\ written.journal[k] > 0 /\ original[k] \notin {Audit!Gone, Audit!Intact}
                   /\ (HashOriginals \/ original[k].size # Audit!Intact.size)}
  <2>1. ASSUME NEW o \in Audit!Originals
        PROVE  (/\ o # Audit!Gone
                /\ o.size # Audit!Intact.size \/ (HashOriginals /\ o.bytes # Audit!Intact.bytes))
               <=> (/\ o \notin {Audit!Gone, Audit!Intact}
                    /\ HashOriginals \/ o.size # Audit!Intact.size)
    BY DEF Audit!Originals, Audit!Gone, Audit!Intact
  <2>2. \A k \in 1..end : k \in 1..MaxKey /\ original[k] \in Audit!Originals
                          /\ (k \in E <=> written.journal[k] > 0)
    BY <1>2, <1>5
  <2>3. \A k \in E : k \in 1..end
    BY <1>4
  <2> QED  BY <2>1, <2>2, <2>3
<1> HIDE DEF missing, modified, extra, gone, changed
<1>15. Audit!Differences =
         Named("missing_event", missing) \cup Named("extra_event", extra)
         \cup Named("modified_event", modified)
         \cup Named("missing_original", gone) \cup Named("modified_original", changed)
  BY <1>10, <1>11, <1>12, <1>13, <1>14 DEF Audit!Differences, end
<1> HIDE DEF Named
<1> QED  BY <1>3, <1>8, <1>9, <1>15

\* An unaltered newest checkpoint vouches for all before it, if Verify is silent:
\* the greatest number at which the chain is not as written would be linked.
LEMMA SilenceProves ==
  ASSUME AuditInv, Audit!AuthenticHead, Audit!Verify = {}
  PROVE  \A n \in 1..Audit!HeadN(chain) : chain[n] = written.chain[n]
<1> DEFINE h == Audit!HeadN(chain)
           Touched == {n \in 1..h : chain[n] # written.chain[n]}
<1>1. /\ h \in Audit!Numbers(chain) /\ h \in Nat /\ Audit!Numbers(chain) \subseteq 1..Height
      /\ chain[h] = written.chain[h] /\ Height \in 0..MaxKey
      /\ \A n \in Audit!Numbers(chain) : n <= h
  <2>1. /\ h \in Audit!Numbers(chain) \cup {0} /\ h \in 0..MaxKey
        /\ \A n \in Audit!Numbers(chain) : n <= h /\ n \in 1..MaxKey
    BY HeadIs
  <2>2. Audit!Numbers(chain) # {} /\ Audit!Newest(chain) = written.chain[h]
    BY DEF Audit!AuthenticHead
  <2>3. Audit!Numbers(chain) \subseteq 1..Height /\ Height \in 0..MaxKey
    BY DEF AuditInv, Remains, Built
  <2>4. Audit!Newest(chain) = IF h = 0 THEN Audit!Genesis ELSE chain[h]
    BY DEF Audit!Newest
  <2> HIDE DEF h, Height
  <2>5. h # 0 /\ h \in Audit!Numbers(chain)
    BY <2>1, <2>2, AuditConstants
  <2> QED  BY <2>1, <2>2, <2>3, <2>4, <2>5
<1> HIDE DEF h
<1>2. ASSUME Touched # {} PROVE FALSE
  <2>1. Touched \in SUBSET (0..h) /\ h \in Nat
    BY <1>1
  <2>2. PICK m \in Touched : \A y \in Touched : y <= m
    BY <1>2, <2>1, GreatestExists
  <2>3. m \in 1..h /\ chain[m] # written.chain[m] /\ m # h /\ h \in 1..Height
    BY <1>1, <2>2
  <2> DEFINE n == m + 1
  <2>4. n \in 1..h /\ n \in 1..Height /\ m \in 1..Height /\ n \notin Touched /\ n - 1 = m /\ n # 1 /\ m \in Nat
    BY <1>1, <2>2, <2>3, AuditConstants
  <2>5. chain[n] = written.chain[n]
    BY <2>4
  <2> HIDE DEF n, Touched
  <2>6. n \in Audit!Numbers(chain) /\ chain[n].prev = <<written.chain[m]>>
    <3>1. written.chain[n] # Audit!Missing /\ n \in 1..MaxKey /\ written.chain[n].prev = <<Prior(n)>>
      BY <2>4, WrittenIs
    <3>2. Prior(n) = written.chain[m]
      BY <2>4 DEF Prior
    <3> QED  BY <2>5, <3>1, <3>2, AuditConstants DEF Audit!Numbers
  <2>7. Audit!Before(n) = written.chain[m]
    <3>1. Audit!LinkFindings(n) = {}
      BY <2>6 DEF Audit!Verify
    <3>2. chain[n].prev = <<Audit!Before(n)>>
      BY <3>1 DEF Audit!LinkFindings
    <3> QED  BY <2>6, <3>2
  <2>8. written.chain[m].n = m /\ written.chain[m] # Audit!Genesis
    BY <2>4, WrittenIs
  <2> DEFINE B == {0} \cup {k \in Audit!Numbers(chain) : k < n}
             b == Audit!Max(B)
  <2>9. b \in B
    <3>1. B \in SUBSET (0..h) /\ B # {}
      BY <1>1, AuditConstants
    <3> QED  BY <1>1, <3>1, AuditGreatest
  <2>10. Audit!Before(n) = IF b = 0 THEN Audit!Genesis ELSE chain[b]
    BY DEF Audit!Before
  <2> HIDE DEF b
  <2>11. b \in Audit!Numbers(chain) /\ chain[b] = written.chain[m]
    BY <2>7, <2>8, <2>9, <2>10
  <2>12. chain[b].n = b
    BY <2>11 DEF AuditInv, Remains
  <2> QED  BY <2>3, <2>8, <2>11, <2>12
<1> QED  BY <1>2 DEF h

\* The invariant says what the run checks.
LEMMA AuditDecides ==
  ASSUME AuditInv PROVE Audit!SilenceIsProof /\ Audit!FindingsAreExact
<1>1. Audit!FindingsAreExact
  BY VerifyFinds DEF Audit!FindingsAreExact
<1>2. ASSUME Audit!AuthenticHead, Audit!Verify = {}
      PROVE  /\ \A n \in 1..Audit!HeadN(chain) : chain[n] = written.chain[n]
             /\ Audit!Differences = {}
  <2>1. \A n \in 1..Audit!HeadN(chain) : chain[n] = written.chain[n]
    BY <1>2, SilenceProves
  <2>2. Audit!Verify = Audit!Differences
    BY <2>1, VerifyFinds
  <2> QED  BY <1>2, <2>1, <2>2
<1> QED  BY <1>1, <1>2 DEF Audit!SilenceIsProof

\* Of checkpoints as written Verify reports each difference and nothing else, and if
\* it is silent about a chain whose newest checkpoint is as written, no checkpoint,
\* event or original that it reaches was touched: for any number of events and of
\* changes made together, whatever they are (Chain.Verify).
THEOREM VerificationAlwaysExact == MCSpec => []VerifyIsExact
<1> DEFINE Inv == scene = "audit" => AuditInv
<1>1. MCInit => Inv
  BY AuditBegins DEF MCInit
<1>2. Inv /\ [MCNext]_allVars => Inv'
  <2>1. ASSUME scene' = "audit", [MCNext]_allVars PROVE scene = "audit" /\ [Audit!Next]_(Audit!vars)
    BY <2>1 DEF MCNext, Creating, Deleting, Revoking, ShareScene, IntakeScene, FanoutScene, ArchiveScene,
       MediaScene, SearchScene, AccessScene, AuditScene, allVars, auditVars, Audit!vars, Audit!Next
  <2> QED  BY <2>1, AuditSteps
<1>3. Inv => VerifyIsExact
  BY AuditDecides DEF VerifyIsExact
<1> QED  BY <1>1, <1>2, <1>3, PTL DEF MCSpec

=============================================================================
