-------------------------- MODULE MetaFollower_proofs --------------------------
(***************************************************************************)
(* What holds of the meta cache of a server in split mode for any files,   *)
(* any number of events, any batch size and any bounds of the history: the *)
(* history of the pointer has no hole, and a cache that follows it, over   *)
(* skipped generations and failed refreshes, never falls behind the key of *)
(* the pointer it serves.                                                  *)
(***************************************************************************)
EXTENDS MetaFollower, TLAPS, FiniteSetTheorems, SequenceTheorems, WellFoundedInduction

(***************************************************************************)
(* The inductive invariant.                                                *)
(***************************************************************************)
PointerShape == [gen : Nat, last : Nat, history : Seq(Change)]
Copies == [Files -> Nat]

Types ==
    /\ journal \in Seq(Files) /\ snap \in Copies
    /\ pointer \in PointerShape /\ served \in PointerShape /\ target \in PointerShape
    /\ ipc \in {"down", "idle", "snap"} /\ last \in Nat /\ batch \in Nat
    /\ todo \in SUBSET Files
    /\ unpub \in [on : BOOLEAN, full : BOOLEAN, ids : SUBSET Files]
    /\ disk \in [ok : BOOLEAN, last : Nat, gen : Nat, synced : BOOLEAN]
    /\ rpc \in {"idle", "some", "full"} /\ plan \in SUBSET Files
    /\ fresh \in Copies /\ metas \in Copies
    /\ spent \in [{"errors", "stops"} -> Nat]

\* The history goes up to the generation it is published with, without a hole.
Chained(p) ==
    LET h == p.history IN
    /\ p.gen = 0 <=> Len(h) = 0
    /\ \A i \in 1..Len(h) : h[i].gen = p.gen - (Len(h) - i)
    /\ \A i \in 2..Len(h) : ~h[i].full
    /\ Len(h) <= MaxHistory
    /\ Len(h) > 1 => IdsIn(h) <= MaxIds

\* A copy of the file states misses none of the first `key` events.
Has(j, copy, key) == \A k \in 1..key : k <= copy[j[k]]

\* The files of the events after `from` and up to `to` are reported.
Reported(j, ids, from, to) == \A k \in (from + 1)..to : j[k] \in ids

\* What p says of the generations after those of s, if it goes back that far.
Tells(j, p, s) ==
    s.gen # 0 /\ Covered(p, s.gen) => Reported(j, ChangedSince(p, s.gen), s.last, p.last)

\* No key is past the end of the journal.
InBounds ==
    /\ Len(journal) <= MaxKey
    /\ last <= Len(journal) /\ batch <= Len(journal)
    /\ disk.last <= Len(journal) /\ pointer.last <= Len(journal)
    /\ served.last <= Len(journal) /\ target.last <= Len(journal)
    /\ \A f \in Files : /\ snap[f] <= Len(journal)
                        /\ metas[f] <= Len(journal) /\ fresh[f] <= Len(journal)

\* A directory a restart goes on from is not behind the pointer, and says so
\* when it is ahead.
DiskInv ==
    /\ disk.gen <= pointer.gen /\ (pointer.gen = 0 => pointer.last = 0)
    /\ disk.ok /\ (pointer.gen = 0 \/ disk.gen = pointer.gen) =>
          /\ pointer.last <= disk.last
          /\ Has(journal, snap, disk.last)
          /\ disk.synced => disk.last <= pointer.last

\* The ids not yet published are those of every event after the pointer, and
\* the snapshots have every event before the cursor.
ProcessInv ==
    /\ Has(journal, snap, pointer.last)
    /\ ipc # "down" =>
          /\ disk.ok /\ disk.last = last /\ pointer.last <= last
          /\ Has(journal, snap, last)
          /\ unpub.full \/ Reported(journal, unpub.ids, pointer.last, last)
    /\ ipc = "snap" =>
          /\ last < batch /\ ~disk.synced
          /\ unpub.full \/ Reported(journal, unpub.ids, pointer.last, batch)
          /\ \A k \in 1..batch : journal[k] \in todo \/ k <= snap[journal[k]]

\* A refresh has every state up to its target except those it has still to read.
FollowerInv ==
    /\ served.gen <= pointer.gen /\ target.gen <= pointer.gen
    /\ served.last <= pointer.last /\ target.last <= pointer.last
    /\ Tells(journal, pointer, served) /\ Tells(journal, pointer, target)
    /\ served.gen # 0 => Has(journal, metas, served.last)
    /\ rpc = "some" =>
          /\ served.gen # 0
          /\ \A k \in 1..target.last : journal[k] \in plan \/ k <= metas[journal[k]]
    /\ rpc = "full" =>
          \A k \in 1..target.last : journal[k] \in plan \/ k <= fresh[journal[k]]

Shape == Types /\ InBounds /\ Chained(pointer)
Inv   == Shape /\ DiskInv /\ ProcessInv /\ FollowerInv


\* No snapshot misses a state at or before the newest one, which is the cursor
\* a rebuild will set.
Whole == \A f, g \in Files : StateAt(g, snap[f]) <= snap[g]

\* A rebuild, asked for or at start, finds such snapshots.
RebuildsWhole ==
    Rebuild \/ (ipc = "down" /\ ~disk.ok /\ pointer.gen = 0 /\ Restart) => Whole

(***************************************************************************)
(* Numbers and events.                                                     *)
(***************************************************************************)

\* A non-empty set of numbers has a least element.
LEMMA LeastExists ==
  ASSUME NEW S \in SUBSET Nat, S # {}
  PROVE  \E x \in S : \A y \in S : x <= y
<1> DEFINE R == StrictSubsetOrdering(Nat)
           T == {0..x : x \in S}
<1>1. IsWellFoundedOn(R, FiniteSubsetsOf(Nat))
  BY FS_StrictSubsetOrderingWellFounded
<1>2. T \subseteq FiniteSubsetsOf(Nat) /\ T # {}
  <2>1. ASSUME NEW x \in S PROVE 0..x \in FiniteSubsetsOf(Nat)
    <3>1. x \in Nat /\ 0..x \in SUBSET Nat
      OBVIOUS
    <3>2. IsFiniteSet(0..x)
      BY <3>1, FS_Interval
    <3> QED  BY <3>1, <3>2 DEF FiniteSubsetsOf
  <2>2. T \subseteq FiniteSubsetsOf(Nat)
    BY <2>1
  <2>3. T # {}
    OBVIOUS
  <2> QED  BY <2>2, <2>3
<1>3. PICK t \in T : \A u \in T : <<u, t>> \notin R
  <2> HIDE DEF R, T
  <2> QED  BY <1>1, <1>2, WFMin
<1>4. PICK x \in S : t = 0..x
  BY <1>3
<1>5. ASSUME NEW y \in S, y < x PROVE FALSE
  <2>1. 0..y \in SUBSET Nat /\ 0..x \in SUBSET Nat /\ 0..y \subseteq 0..x
    BY <1>5
  <2>2. x \in 0..x /\ x \notin 0..y
    BY <1>5
  <2>3. <<0..y, 0..x>> \in R
    BY <2>1, <2>2 DEF StrictSubsetOrdering
  <2> QED  BY <1>3, <1>4, <2>3
<1> QED  BY <1>5

\* A bounded one has a greatest element.
LEMMA GreatestExists ==
  ASSUME NEW S \in SUBSET Nat, S # {}, NEW b \in Nat, \A x \in S : x <= b
  PROVE  \E x \in S : \A y \in S : y <= x
<1> DEFINE T == {b - x : x \in S}
<1>1. T \in SUBSET Nat /\ T # {}
  <2>1. ASSUME NEW x \in S PROVE b - x \in Nat
    <3>1. x \in Nat /\ x <= b
      OBVIOUS
    <3> QED  BY <3>1
  <2>2. T # {}
    OBVIOUS
  <2> QED  BY <2>1, <2>2
<1>2. PICK t \in T : \A u \in T : t <= u
  <2> HIDE DEF T
  <2> QED  BY <1>1, LeastExists
<1>3. PICK x \in S : t = b - x
  OBVIOUS
<1>4. ASSUME NEW y \in S PROVE y <= x
  <2>1. b - x <= b - y /\ x \in Nat /\ y \in Nat
    BY <1>2, <1>3
  <2> QED  BY <2>1
<1> QED  BY <1>4

\* StateAt is the last event of the file up to a key.
LEMMA StateAtIs ==
  ASSUME NEW f, NEW key \in Nat
  PROVE  /\ StateAt(f, key) \in 0..key
         /\ \A k \in 1..key : journal[k] = f => k <= StateAt(f, key)
         /\ StateAt(f, key) # 0 => journal[StateAt(f, key)] = f
<1> DEFINE ks == {k \in 1..key : journal[k] = f}
<1>1. CASE ks = {}
  BY <1>1 DEF StateAt
<1>2. CASE ks # {}
  <2>1. StateAt(f, key) = CHOOSE k \in ks : \A h \in ks : h <= k
    BY <1>2 DEF StateAt
  <2>2. ks \in SUBSET Nat /\ \A x \in ks : x <= key
    OBVIOUS
  <2>3. \E k \in ks : \A h \in ks : h <= k
    <3> HIDE DEF ks
    <3> QED  BY <1>2, <2>2, GreatestExists
  <2>4. StateAt(f, key) \in ks /\ \A h \in ks : h <= StateAt(f, key)
    <3> HIDE DEF ks
    <3> QED  BY <2>1, <2>3
  <2> QED  BY <2>4
<1> QED  BY <1>1, <1>2

\* An event appended keeps what is said of the ones before it.
LEMMA AppendKeeps ==
  ASSUME NEW j \in Seq(Files), NEW f \in Files
  PROVE  LET i == Append(j, f) IN
         /\ i \in Seq(Files) /\ Len(i) = Len(j) + 1
         /\ \A copy : \A key \in 0..Len(j) : Has(j, copy, key) => Has(i, copy, key)
         /\ \A ids : \A from \in Nat : \A to \in 0..Len(j) :
               Reported(j, ids, from, to) => Reported(i, ids, from, to)
         /\ \A k \in 1..Len(j) : i[k] = j[k]
<1> DEFINE i == Append(j, f)
<1>1. i \in Seq(Files) /\ Len(i) = Len(j) + 1 /\ \A k \in 1..Len(j) : i[k] = j[k]
  BY AppendProperties
<1>2. Len(j) \in Nat
  BY LenProperties
<1> HIDE DEF i
<1>3. \A copy : \A key \in 0..Len(j) : Has(j, copy, key) => Has(i, copy, key)
  BY <1>1, <1>2 DEF Has
<1>4. \A ids : \A from \in Nat : \A to \in 0..Len(j) :
               Reported(j, ids, from, to) => Reported(i, ids, from, to)
  BY <1>1, <1>2 DEF Reported
<1> QED  BY <1>1, <1>3, <1>4 DEF i

(***************************************************************************)
(* The history.                                                            *)
(***************************************************************************)

\* What is kept of a history is a tail of it that is within the bounds, or one
\* entry.
LEMMA TrimmedIs ==
  ASSUME NEW h \in Seq(Change), Len(h) >= 1
  PROVE  \E i \in 1..Len(h) :
            LET t == Trimmed(h) IN
            /\ t \in Seq(Change) /\ Len(t) = Len(h) - i + 1
            /\ \A k \in 1..Len(t) : t[k] = h[i + k - 1]
            /\ Len(t) <= MaxHistory
            /\ Len(t) > 1 => IdsIn(t) <= MaxIds
<1> DEFINE n == Len(h)
           fits == {i \in 1..n : \/ i = n
                                 \/ n - i < MaxHistory /\ IdsIn(SubSeq(h, i, n)) <= MaxIds}
<1>1. n \in Nat /\ n \in 1..n /\ MaxHistory \in Nat \ {0}
  BY LenProperties, FollowerAssumption
<1>2. fits \in SUBSET Nat /\ fits # {}
  <2>1. n \in fits
    BY <1>1
  <2> QED  BY <1>1, <2>1
<1> DEFINE i == CHOOSE i \in fits : \A j \in fits : i <= j
<1>3. i \in fits
  <2> HIDE DEF fits
  <2>1. \E x \in fits : \A j \in fits : x <= j
    BY <1>2, LeastExists
  <2> QED  BY <2>1
<1>4. Trimmed(h) = SubSeq(h, i, n)
  BY DEF Trimmed
<1> HIDE DEF i
<1>5. /\ i \in 1..n
      /\ i = n \/ (n - i < MaxHistory /\ IdsIn(SubSeq(h, i, n)) <= MaxIds)
  BY <1>3
<1> HIDE DEF fits
<1> DEFINE t == SubSeq(h, i, n)
<1>6. t \in Seq(Change) /\ Len(t) = n - i + 1 /\ \A k \in 1..Len(t) : t[k] = h[i + k - 1]
  BY <1>1, <1>5, SubSeqProperties
<1> HIDE DEF t
<1>7. Len(t) <= MaxHistory /\ (Len(t) > 1 => IdsIn(t) <= MaxIds)
  <2>1. CASE i = n
    BY <1>1, <1>6, <2>1
  <2>2. CASE i # n
    <3>1. n - i < MaxHistory /\ IdsIn(t) <= MaxIds
      BY <1>5, <2>2 DEF t
    <3> QED  BY <1>1, <1>5, <1>6, <3>1
  <2> QED  BY <2>1, <2>2
<1> QED  BY <1>4, <1>5, <1>6, <1>7 DEF t

\* The parts of an unbroken history.
LEMMA ChainedIf ==
  ASSUME NEW p, NEW h, p.history = h,
         p.gen # 0, Len(h) # 0,
         \A i \in 1..Len(h) : h[i].gen = p.gen - (Len(h) - i),
         \A i \in 2..Len(h) : ~h[i].full,
         Len(h) <= MaxHistory,
         Len(h) > 1 => IdsIn(h) <= MaxIds
  PROVE  Chained(p)
BY DEF Chained

\* What a publication writes: the generation after the one in the bucket, whose
\* entry holds the ids not yet published; the other entries are the old ones.
LEMMA NewPointerIs ==
  ASSUME Types, Chained(pointer)
  PROVE  LET p == NewPointer IN
         /\ p \in PointerShape /\ p.gen = pointer.gen + 1 /\ p.last = last
         /\ Chained(p)
         /\ \A d \in ToSet(p.history) :
               IF d.gen = p.gen THEN ~d.full => ~unpub.full /\ d.changed = unpub.ids
               ELSE d \in ToSet(pointer.history)
<1> DEFINE old == pointer.history
           c   == [gen |-> pointer.gen + 1, full |-> unpub.full, changed |-> unpub.ids]
           h   == AppendHistory(old, c)
           p   == NewPointer
<1>1. /\ pointer.gen \in Nat /\ old \in Seq(Change) /\ Len(old) \in Nat /\ last \in Nat
      /\ unpub.full \in BOOLEAN /\ unpub.ids \in SUBSET Files /\ c \in Change
  BY LenProperties DEF Types, PointerShape, Change
<1>2. p = [gen |-> pointer.gen + 1, last |-> last, history |-> h]
  BY DEF NewPointer
<1>3. /\ \A i \in 1..Len(old) : old[i].gen = pointer.gen - (Len(old) - i)
      /\ \A i \in 2..Len(old) : ~old[i].full
  BY DEF Chained
<1>4. MaxHistory \in Nat \ {0}
  BY FollowerAssumption
<1>5. CASE unpub.full
  <2> DEFINE e == [gen |-> pointer.gen + 1, full |-> TRUE, changed |-> {}]
  <2>1. h = <<e>>
    BY <1>5 DEF AppendHistory
  <2>2. e \in Change /\ e.gen = pointer.gen + 1 /\ e.full
    BY <1>1 DEF Change
  <2> HIDE DEF e
  <2>3. h \in Seq(Change) /\ Len(h) = 1 /\ h[1] = e
    <3> HIDE DEF h
    <3> QED  BY <2>1, <2>2
  <2> HIDE DEF h
  <2>4. ToSet(h) = {e}
    <3>1. DOMAIN h = {1}
      BY <2>3
    <3> QED  BY <2>3, <3>1 DEF ToSet
  <2>5. p \in PointerShape
    BY <1>1, <1>2, <2>3 DEF PointerShape
  <2>6. Chained(p)
    <3>1. p.gen = pointer.gen + 1 /\ p.history = h
      BY <1>2
    <3> HIDE DEF p
    <3>2. h[1].gen = p.gen /\ p.gen \in Nat \ {0}
      BY <1>1, <2>2, <2>3, <3>1
    <3>3. \A i \in 1..Len(h) : h[i].gen = p.gen - (Len(h) - i)
      BY <2>3, <3>2
    <3>4. /\ Len(h) <= MaxHistory /\ Len(h) # 0 /\ ~(Len(h) > 1)
          /\ \A i \in 2..Len(h) : ~h[i].full
      BY <1>4, <2>3
    <3> HIDE DEF h
    <3> QED  BY <3>1, <3>2, <3>3, <3>4, ChainedIf


  <2> QED  BY <1>1, <1>2, <2>2, <2>4, <2>5, <2>6
<1>6. CASE ~unpub.full
  <2> DEFINE a == Append(old, c)
  <2>1. /\ a \in Seq(Change) /\ Len(a) = Len(old) + 1
        /\ \A k \in 1..Len(old) : a[k] = old[k]
        /\ a[Len(old) + 1] = c
    BY <1>1, AppendProperties
  <2>2. c.gen = pointer.gen + 1 /\ ~c.full /\ c.changed = unpub.ids
    BY <1>6
  <2>3. h = Trimmed(a)
    BY <1>6 DEF AppendHistory
  <2> HIDE DEF a, c, h
  <2>4. PICK i \in 1..Len(a) :
            /\ h \in Seq(Change) /\ Len(h) = Len(a) - i + 1
            /\ \A k \in 1..Len(h) : h[k] = a[i + k - 1]
            /\ Len(h) <= MaxHistory
            /\ Len(h) > 1 => IdsIn(h) <= MaxIds
    <3>1. Len(a) >= 1
      BY <1>1, <2>1
    <3> QED  BY <2>1, <2>3, <3>1, TrimmedIs
  <2>5. \A k \in 1..Len(a) : a[k].gen = pointer.gen + 1 - (Len(a) - k)
    <3>1. ASSUME NEW k \in 1..Len(a) PROVE a[k].gen = pointer.gen + 1 - (Len(a) - k)
      <4>1. CASE k = Len(a)
        BY <1>1, <2>1, <2>2, <4>1
      <4>2. CASE k # Len(a)
        <5>1. k \in 1..Len(old) /\ a[k] = old[k]
          BY <1>1, <2>1, <4>2
        <5>2. a[k].gen = pointer.gen - (Len(old) - k)
          BY <1>3, <5>1
        <5>3. k \in Int
          OBVIOUS
        <5> HIDE DEF old
        <5> QED  BY <1>1, <2>1, <5>2, <5>3
      <4> QED  BY <4>1, <4>2
    <3> QED  BY <3>1
  <2>6. \A k \in 2..Len(a) : ~a[k].full
    <3>1. ASSUME NEW k \in 2..Len(a) PROVE ~a[k].full
      <4>1. CASE k = Len(a)
        BY <1>1, <2>1, <2>2, <4>1
      <4>2. CASE k # Len(a)
        <5>1. k \in 2..Len(old) /\ a[k] = old[k]
          BY <1>1, <2>1, <4>2
        <5> QED  BY <1>3, <5>1
      <4> QED  BY <4>1, <4>2
    <3> QED  BY <3>1
  <2>7. Len(a) \in Nat /\ Len(h) \in 1..Len(a)
    BY <1>1, <2>1, <2>4
  <2>8. \A k \in 1..Len(h) : /\ i + k - 1 \in 1..Len(a)
                             /\ h[k].gen = pointer.gen + 1 - (Len(h) - k)
    <3>1. ASSUME NEW k \in 1..Len(h)
          PROVE  /\ i + k - 1 \in 1..Len(a)
                 /\ h[k].gen = pointer.gen + 1 - (Len(h) - k)
      <4>1. k \in Nat /\ i \in Nat /\ i + k - 1 \in 1..Len(a)
        BY <2>4, <2>7
      <4>2. h[k].gen = pointer.gen + 1 - (Len(a) - (i + k - 1))
        BY <2>4, <2>5, <4>1
      <4>3. Len(a) - (i + k - 1) = Len(h) - k
        BY <2>4, <2>7, <4>1
      <4> QED  BY <4>1, <4>2, <4>3
    <3> QED  BY <3>1
  <2>9. \A k \in 2..Len(h) : ~h[k].full
    <3>1. ASSUME NEW k \in 2..Len(h) PROVE ~h[k].full
      <4>1. h[k] = a[i + k - 1] /\ i + k - 1 \in 2..Len(a)
        BY <2>4, <2>7
      <4> QED  BY <2>6, <4>1
    <3> QED  BY <3>1
  <2>10. p \in PointerShape
    BY <1>1, <1>2, <2>4 DEF PointerShape
  <2>11. Chained(p)
    <3>1. p.gen = pointer.gen + 1 /\ p.history = h /\ p.gen # 0
      BY <1>1, <1>2
    <3> HIDE DEF p, old
    <3>2. Len(h) # 0
      BY <2>7
    <3>3. \A k \in 1..Len(h) : h[k].gen = p.gen - (Len(h) - k)
      <4>1. ASSUME NEW k \in 1..Len(h) PROVE h[k].gen = p.gen - (Len(h) - k)
        <5>1. h[k].gen = pointer.gen + 1 - (Len(h) - k)
          BY <2>8
        <5>2. k \in Int
          OBVIOUS
        <5> QED  BY <1>1, <2>7, <3>1, <5>1, <5>2
      <4> QED  BY <4>1
    <3> QED  BY <2>4, <2>9, <3>1, <3>2, <3>3, ChainedIf

  <2>12. ASSUME NEW d \in ToSet(h)
         PROVE  IF d.gen = pointer.gen + 1 THEN ~d.full => ~unpub.full /\ d.changed = unpub.ids
                ELSE d \in ToSet(old)
    <3>1. PICK k \in 1..Len(h) : d = h[k]
      BY <2>4 DEF ToSet
    <3>2. PICK m \in 1..Len(a) : d = a[m]
      BY <2>4, <2>8, <3>1
    <3>3. CASE m = Len(a)
      BY <1>6, <1>1, <2>1, <2>2, <3>2, <3>3
    <3>4. CASE m # Len(a)
      <4>1. m \in 1..Len(old) /\ d = old[m]
        BY <1>1, <2>1, <3>2, <3>4
      <4>2. d \in ToSet(old) /\ d.gen # pointer.gen + 1
        BY <1>1, <1>3, <4>1 DEF ToSet
      <4> QED  BY <4>2
    <3> QED  BY <3>3, <3>4
  <2> QED  BY <1>2, <2>10, <2>11, <2>12
<1> QED  BY <1>1, <1>5, <1>6

\* A generation has one entry.
LEMMA OneEntry ==
  ASSUME NEW p \in PointerShape, Chained(p),
         NEW d \in ToSet(p.history), NEW e \in ToSet(p.history), d.gen = e.gen
  PROVE  d = e /\ d.gen <= p.gen
<1> DEFINE h == p.history
<1>1. h \in Seq(Change) /\ p.gen \in Nat /\ Len(h) \in Nat
  BY LenProperties DEF PointerShape
<1>2. PICK i \in 1..Len(h) : d = h[i]
  BY <1>1 DEF ToSet
<1>3. PICK k \in 1..Len(h) : e = h[k]
  BY <1>1 DEF ToSet
<1>4. d.gen = p.gen - (Len(h) - i) /\ e.gen = p.gen - (Len(h) - k)
  BY <1>2, <1>3 DEF Chained
<1> QED  BY <1>1, <1>2, <1>3, <1>4

\* A publication tells a follower at any earlier generation of every file that
\* changed since, if its history goes back that far.
LEMMA PublicationTells ==
  ASSUME Types, Chained(pointer), NEW s \in PointerShape, s.gen <= pointer.gen,
         Tells(journal, pointer, s), pointer.last <= last,
         unpub.full \/ Reported(journal, unpub.ids, pointer.last, last)
  PROVE  Tells(journal, NewPointer, s)
<1> DEFINE p == NewPointer
<1>1. /\ p \in PointerShape /\ p.gen = pointer.gen + 1 /\ p.last = last
      /\ \A d \in ToSet(p.history) :
            IF d.gen = p.gen THEN ~d.full => ~unpub.full /\ d.changed = unpub.ids
            ELSE d \in ToSet(pointer.history)
  BY NewPointerIs
<1> HIDE DEF p
<1>2. /\ pointer \in PointerShape /\ pointer.gen \in Nat /\ s.gen \in Nat
      /\ pointer.last \in Nat /\ s.last \in Nat /\ last \in Nat
  BY DEF Types, PointerShape
<1>3. SUFFICES ASSUME s.gen # 0, Covered(p, s.gen)
               PROVE  Reported(journal, ChangedSince(p, s.gen), s.last, p.last)
  BY DEF Tells, p
<1>4. \A g \in s.gen + 1 .. p.gen : \E d \in ToSet(p.history) : d.gen = g /\ ~d.full
  BY <1>3 DEF Covered
<1>5. PICK top \in ToSet(p.history) : top.gen = p.gen /\ ~top.full
  BY <1>1, <1>2, <1>4
<1>6. ~unpub.full /\ top.changed = unpub.ids
  BY <1>1, <1>5
<1>7. \A g \in s.gen + 1 .. pointer.gen :
         \E d \in ToSet(p.history) : d.gen = g /\ ~d.full /\ d \in ToSet(pointer.history)
  <2>1. ASSUME NEW g \in s.gen + 1 .. pointer.gen
        PROVE  \E d \in ToSet(p.history) :
                  d.gen = g /\ ~d.full /\ d \in ToSet(pointer.history)
    <3>1. PICK d \in ToSet(p.history) : d.gen = g /\ ~d.full
      BY <1>1, <1>2, <1>4
    <3>2. d.gen # p.gen
      BY <1>1, <1>2, <3>1
    <3> QED  BY <1>1, <3>1, <3>2
  <2> QED  BY <2>1
<1>8. Covered(pointer, s.gen)
  BY <1>7 DEF Covered
<1>9. Reported(journal, ChangedSince(pointer, s.gen), s.last, pointer.last)
  BY <1>3, <1>8 DEF Tells
<1>10. ChangedSince(pointer, s.gen) \subseteq ChangedSince(p, s.gen)
  <2>1. ASSUME NEW d \in ToSet(pointer.history), d.gen > s.gen
        PROVE  d \in ToSet(p.history)
    <3>1. d.gen <= pointer.gen /\ d.gen \in Nat
      <4>1. d.gen <= pointer.gen
        BY <1>2, OneEntry
      <4>2. d \in Change
        <5>1. pointer.history \in Seq(Change)
          BY <1>2 DEF PointerShape
        <5> QED  BY <5>1 DEF ToSet
      <4> QED  BY <4>1, <4>2 DEF Change
    <3>2. PICK e \in ToSet(p.history) : e.gen = d.gen /\ e \in ToSet(pointer.history)
      BY <1>2, <1>7, <2>1, <3>1
    <3>3. e = d
      BY <1>2, <3>2, OneEntry
    <3> QED  BY <3>2, <3>3
  <2> QED  BY <2>1 DEF ChangedSince
<1>11. unpub.ids \subseteq ChangedSince(p, s.gen)
  <2>1. top.gen > s.gen
    BY <1>1, <1>2, <1>5
  <2> QED  BY <1>5, <1>6, <2>1 DEF ChangedSince
<1>12. Reported(journal, unpub.ids, pointer.last, last)
  BY <1>6
<1> QED  BY <1>1, <1>2, <1>9, <1>10, <1>11, <1>12 DEF Reported

(***************************************************************************)
(* Types, bounds and the history.                                          *)
(***************************************************************************)

\* The cursor of a rebuild is the newest event of a snapshot.
LEMMA RebuiltIs ==
  ASSUME Shape, Rebuilt
  PROVE  /\ last' \in Nat /\ last' <= Len(journal)
         /\ \A f \in Files : snap[f] <= last'
         /\ last' = 0 \/ \E f \in Files : last' = snap[f]
         /\ unpub' = AllNew
         /\ disk' = [ok |-> TRUE, last |-> last', gen |-> disk.gen, synced |-> FALSE]
<1> DEFINE S == {snap[f] : f \in Files} \cup {0}
<1>1. /\ Len(journal) \in Nat /\ \A f \in Files : snap[f] \in Nat /\ snap[f] <= Len(journal)
  BY LenProperties DEF Shape, Types, InBounds, Copies
<1>2. S \in SUBSET Nat /\ S # {} /\ \A x \in S : x <= Len(journal)
  BY <1>1
<1>3. \E x \in S : \A y \in S : y <= x
  <2> HIDE DEF S
  <2> QED  BY <1>1, <1>2, GreatestExists
<1>4. last' = CHOOSE k \in S : \A f \in Files : snap[f] <= k
  BY DEF Rebuilt
<1>5. \E k \in S : \A f \in Files : snap[f] <= k
  BY <1>3
<1>6. last' \in S /\ \A f \in Files : snap[f] <= last'
  <2> HIDE DEF S
  <2> QED  BY <1>4, <1>5
<1> QED  BY <1>1, <1>2, <1>6 DEF Rebuilt

LEMMA ShapeInit ==
  Init => Shape
<1> SUFFICES ASSUME Init PROVE Shape
  OBVIOUS
<1> USE DEF Init, None, NoPointer, NoDisk, Published
<1>0. MaxKey \in Nat /\ MaxHistory \in Nat
  BY FollowerAssumption
<1>1. Types
  BY DEF Types, PointerShape, Copies
<1>2. InBounds
  BY <1>0 DEF InBounds
<1>3. Chained(pointer)
  BY <1>0 DEF Chained
<1> QED  BY <1>1, <1>2, <1>3 DEF Shape

\* The steps that leave the bucket and the indexer, or the follower, alone keep
\* the range of the rest.
LEMMA ShapeStep ==
  ASSUME Shape, [Next]_vars
  PROVE  Shape'
<1> DEFINE n == Len(journal)
<1>0. /\ Types /\ InBounds /\ Chained(pointer) /\ n \in Nat
      /\ journal \in Seq(Files) /\ snap \in Copies /\ fresh \in Copies /\ metas \in Copies
      /\ pointer \in PointerShape /\ served \in PointerShape /\ target \in PointerShape
      /\ last \in Nat /\ batch \in Nat /\ todo \in SUBSET Files
      /\ unpub \in [on : BOOLEAN, full : BOOLEAN, ids : SUBSET Files]
      /\ disk \in [ok : BOOLEAN, last : Nat, gen : Nat, synced : BOOLEAN]
      /\ spent \in [{"errors", "stops"} -> Nat]
  BY LenProperties DEF Shape, Types
<1>01. /\ pointer.gen \in Nat /\ pointer.last \in Nat
       /\ NoPointer \in PointerShape /\ NoPointer.last = 0
       /\ None \in Copies /\ \A f \in Files : None[f] = 0
       /\ NoDisk \in [ok : BOOLEAN, last : Nat, gen : Nat, synced : BOOLEAN]
       /\ NoDisk.last = 0
       /\ Published \in [on : BOOLEAN, full : BOOLEAN, ids : SUBSET Files]
       /\ AllNew \in [on : BOOLEAN, full : BOOLEAN, ids : SUBSET Files]
  BY <1>0 DEF PointerShape, NoPointer, None, Copies, NoDisk, Published, AllNew
<1>02. /\ Fault => spent' \in [{"errors", "stops"} -> Nat]
       /\ Stopped => spent' \in [{"errors", "stops"} -> Nat]
  BY <1>0 DEF Fault, Stopped
<1>1. CASE AppendEvent
  <2>1. PICK f \in Files : journal' = Append(journal, f)
    BY <1>1 DEF AppendEvent
  <2>2. journal' \in Seq(Files) /\ Len(journal') = n + 1 /\ n < MaxKey
    BY <1>0, <1>1, <2>1, AppendProperties DEF AppendEvent
  <2>3. UNCHANGED <<snap, pointer, ipc, last, batch, todo, unpub, disk, rpc, served,
                    target, plan, fresh, metas, spent>>
    BY <1>1 DEF AppendEvent, indexerVars, followerVars
  <2>4. Types'
    BY <1>0, <2>2, <2>3 DEF Types
  <2>5. MaxKey \in Nat
    BY FollowerAssumption
  <2>6. InBounds'
    <3>1. \A x \in Nat : x <= n => x <= n + 1
      BY <1>0
    <3>2. /\ disk.last \in Nat /\ pointer.last \in Nat /\ served.last \in Nat
          /\ target.last \in Nat
          /\ \A g \in Files : snap[g] \in Nat /\ metas[g] \in Nat /\ fresh[g] \in Nat
      BY <1>0 DEF PointerShape, Copies
    <3>3. n + 1 <= MaxKey
      BY <1>0, <2>2, <2>5
    <3> HIDE DEF n
    <3> QED  BY <1>0, <2>2, <2>3, <3>1, <3>2, <3>3 DEF InBounds, n

  <2>7. Chained(pointer')
    BY <1>0, <2>3
  <2> QED  BY <2>4, <2>6, <2>7 DEF Shape
<1>2. CASE Fold
  <2> DEFINE hi == IF n - last > MaxBatch THEN last + MaxBatch ELSE n
  <2>1. /\ batch' = hi /\ hi > last /\ todo' = Touched(last, hi)
        /\ unpub' = Unpublished(todo') /\ disk' = [disk EXCEPT !.synced = FALSE]
        /\ ipc' = "snap"
        /\ UNCHANGED <<journal, snap, pointer, last, rpc, served, target, plan, fresh,
                       metas, spent>>
    BY <1>2 DEF Fold, bucketVars, followerVars
  <2>2. hi \in Nat /\ hi <= n
    <3>1. MaxBatch \in Nat /\ last <= n
      BY <1>0, FollowerAssumption DEF InBounds
    <3> QED  BY <1>0, <3>1
  <2> HIDE DEF hi
  <2>3. todo' \in SUBSET Files
    <3>1. \A k \in last + 1 .. hi : k \in 1..n
      BY <1>0, <2>2
    <3>2. \A k \in last + 1 .. hi : journal[k] \in Files
      BY <1>0, <3>1
    <3> QED  BY <2>1, <3>2 DEF Touched
  <2>4. unpub' \in [on : BOOLEAN, full : BOOLEAN, ids : SUBSET Files]
    BY <1>0, <2>1, <2>3 DEF Unpublished
  <2>5. /\ disk' \in [ok : BOOLEAN, last : Nat, gen : Nat, synced : BOOLEAN]
        /\ disk'.last = disk.last
    BY <1>0, <2>1
  <2>6. Types'
    BY <1>0, <2>1, <2>2, <2>3, <2>4, <2>5 DEF Types
  <2>7. InBounds'
    BY <1>0, <2>1, <2>2, <2>5 DEF InBounds
  <2>8. Chained(pointer')
    BY <1>0, <2>1
  <2> QED  BY <2>6, <2>7, <2>8 DEF Shape
<1>3. CASE WriteSnapshot
  <2>1. /\ UNCHANGED <<journal, pointer, last, unpub, disk, rpc, served, target, plan, fresh,
                       metas>>
    BY <1>3 DEF WriteSnapshot, followerVars
  <2>2. CASE \E f \in todo :
                /\ FirstSeen(f) /\ snap' = [snap EXCEPT ![f] = StateAt(f, batch)]
                /\ todo' = todo \ {f} /\ UNCHANGED <<ipc, batch, spent>>
    <3>1. PICK f \in todo : /\ snap' = [snap EXCEPT ![f] = StateAt(f, batch)]
                            /\ todo' = todo \ {f} /\ UNCHANGED <<ipc, batch, spent>>
      BY <2>2
    <3>2. StateAt(f, batch) \in Nat /\ StateAt(f, batch) <= n
      <4>1. StateAt(f, batch) \in 0..batch /\ batch <= n
        BY <1>0, StateAtIs DEF InBounds
      <4> QED  BY <1>0, <4>1
    <3>3. snap' \in Copies /\ \A g \in Files : snap'[g] <= n
      <4>1. \A g \in Files : snap[g] <= n
        BY <1>0 DEF InBounds
      <4> QED  BY <1>0, <3>1, <3>2, <4>1 DEF Copies
    <3>4. Types'
      BY <1>0, <2>1, <3>1, <3>3 DEF Types
    <3>5. InBounds'
      BY <1>0, <2>1, <3>1, <3>3 DEF InBounds
    <3> QED  BY <1>0, <2>1, <3>4, <3>5 DEF Shape
  <2>3. CASE Fault /\ EndRun /\ UNCHANGED snap
    <3>1. Types'
      BY <1>0, <1>02, <2>1, <2>3 DEF Types, EndRun
    <3>2. InBounds'
      BY <1>0, <2>1, <2>3 DEF InBounds, EndRun
    <3> QED  BY <1>0, <2>1, <3>1, <3>2 DEF Shape
  <2> QED  BY <1>3, <2>2, <2>3 DEF WriteSnapshot
<1>4. CASE SaveKey
  <2>1. /\ last' = batch /\ disk' = [disk EXCEPT !.last = batch]
        /\ ipc' = "idle" /\ batch' = 0 /\ todo' = {}
        /\ UNCHANGED <<journal, snap, pointer, unpub, rpc, served, target, plan, fresh,
                       metas, spent>>
    BY <1>4 DEF SaveKey, EndRun, bucketVars, followerVars
  <2>2. /\ disk' \in [ok : BOOLEAN, last : Nat, gen : Nat, synced : BOOLEAN]
        /\ disk'.last = batch
    BY <1>0, <2>1
  <2>3. Types'
    BY <1>0, <2>1, <2>2 DEF Types
  <2>4. InBounds'
    BY <1>0, <2>1, <2>2 DEF InBounds
  <2> QED  BY <1>0, <2>1, <2>3, <2>4 DEF Shape
<1>5. CASE Publish
  <2>1. UNCHANGED <<journal, snap, ipc, last, batch, todo, rpc, served, target, plan, fresh,
                    metas>>
    BY <1>5 DEF Publish, followerVars
  <2>2. /\ pointer' \in {pointer, NewPointer} /\ unpub' \in {unpub, Published}
        /\ \/ disk' = disk
           \/ disk' = [disk EXCEPT !.gen = pointer.gen + 1, !.synced = TRUE]
           \/ disk' = [disk EXCEPT !.synced = TRUE]
        /\ spent' \in [{"errors", "stops"} -> Nat]
    BY <1>0, <1>02, <1>5 DEF Publish
  <2>3. /\ disk' \in [ok : BOOLEAN, last : Nat, gen : Nat, synced : BOOLEAN]
        /\ disk'.last = disk.last
    <3>1. CASE disk' = disk
      BY <1>0, <3>1
    <3>2. CASE disk' = [disk EXCEPT !.gen = pointer.gen + 1, !.synced = TRUE]
      <4>1. pointer.gen + 1 \in Nat
        BY <1>01
      <4> QED  BY <1>0, <3>2, <4>1
    <3>3. CASE disk' = [disk EXCEPT !.synced = TRUE]
      BY <1>0, <3>3
    <3> QED  BY <2>2, <3>1, <3>2, <3>3
  <2>4. /\ NewPointer \in PointerShape /\ NewPointer.last = last /\ Chained(NewPointer)
    BY <1>0, NewPointerIs
  <2>5. Types'
    BY <1>0, <1>01, <2>1, <2>2, <2>3, <2>4 DEF Types
  <2>6. InBounds'
    BY <1>0, <2>1, <2>2, <2>3, <2>4 DEF InBounds
  <2>7. Chained(pointer')
    BY <1>0, <2>2, <2>4
  <2> QED  BY <2>5, <2>6, <2>7 DEF Shape
<1>6. CASE Crash
  <2>1. /\ ipc' = "down" /\ last' = 0 /\ batch' = 0 /\ todo' = {} /\ unpub' = Published
        /\ disk' \in {disk, NoDisk}
        /\ UNCHANGED <<journal, snap, pointer, rpc, served, target, plan, fresh, metas>>
    BY <1>6 DEF Crash, bucketVars, followerVars
  <2>2. Types'
    BY <1>0, <1>01, <1>02, <1>6, <2>1 DEF Types, Crash
  <2>3. InBounds'
    BY <1>0, <1>01, <2>1 DEF InBounds
  <2> QED  BY <1>0, <2>1, <2>2, <2>3 DEF Shape
<1>7. CASE Restart
  <2>1. /\ ipc' = "idle"
        /\ UNCHANGED <<journal, snap, pointer, batch, todo, rpc, served, target, plan,
                       fresh, metas, spent>>
    BY <1>7 DEF Restart, bucketVars, followerVars
  <2>2. /\ last' \in Nat /\ last' <= n
        /\ disk' \in [ok : BOOLEAN, last : Nat, gen : Nat, synced : BOOLEAN]
        /\ disk'.last <= n
        /\ unpub' \in {Published, AllNew}
    <3>1. CASE pointer.gen # 0 /\ (~disk.ok \/ disk.gen # pointer.gen)
      <4>1. /\ last' = pointer.last /\ unpub' = Published
            /\ disk' = [ok |-> TRUE, last |-> pointer.last, gen |-> pointer.gen,
                        synced |-> TRUE]
        BY <1>7, <3>1 DEF Restart
      <4> QED  BY <1>0, <1>01, <4>1 DEF InBounds
    <3>2. CASE ~(pointer.gen # 0 /\ (~disk.ok \/ disk.gen # pointer.gen)) /\ ~disk.ok
      <4>1. Rebuilt
        BY <1>7, <3>2 DEF Restart
      <4>2. /\ last' \in Nat /\ last' <= Len(journal) /\ unpub' = AllNew
            /\ disk' = [ok |-> TRUE, last |-> last', gen |-> disk.gen, synced |-> FALSE]
        BY <4>1, RebuiltIs
      <4> QED  BY <1>0, <4>2
    <3>3. CASE ~(pointer.gen # 0 /\ (~disk.ok \/ disk.gen # pointer.gen)) /\ disk.ok
      <4>1. last' = disk.last /\ unpub' \in {Published, AllNew} /\ disk' = disk
        BY <1>7, <3>3 DEF Restart
      <4> QED  BY <1>0, <4>1 DEF InBounds
    <3> QED  BY <3>1, <3>2, <3>3
  <2>3. Types'
    BY <1>0, <1>01, <2>1, <2>2 DEF Types
  <2>4. InBounds'
    BY <1>0, <2>1, <2>2 DEF InBounds
  <2> QED  BY <1>0, <2>1, <2>3, <2>4 DEF Shape
<1>8. CASE Rebuild
  <2>1. /\ Rebuilt /\ Stopped
        /\ UNCHANGED <<journal, snap, pointer, ipc, batch, todo, rpc, served, target, plan,
                       fresh, metas>>
    BY <1>8 DEF Rebuild, bucketVars, followerVars
  <2>2. /\ last' \in Nat /\ last' <= n /\ unpub' = AllNew
        /\ disk' = [ok |-> TRUE, last |-> last', gen |-> disk.gen, synced |-> FALSE]
    BY <2>1, RebuiltIs
  <2>3. /\ disk' \in [ok : BOOLEAN, last : Nat, gen : Nat, synced : BOOLEAN]
        /\ disk'.last = last'
    BY <1>0, <2>2
  <2>4. Types'
    BY <1>0, <1>01, <1>02, <2>1, <2>2, <2>3 DEF Types
  <2>5. InBounds'
    BY <1>0, <2>1, <2>2, <2>3 DEF InBounds
  <2> QED  BY <1>0, <2>1, <2>4, <2>5 DEF Shape
<1>9. CASE Refresh \/ RestartFollower
  <2>1. /\ UNCHANGED <<journal, snap, pointer, ipc, last, batch, todo, unpub, disk>>
        /\ spent' \in [{"errors", "stops"} -> Nat]
    BY <1>0, <1>02, <1>9
       DEF Refresh, ReadPointer, ReadSnapshot, FinishRefresh, RestartFollower,
           bucketVars, indexerVars
  <2>2. /\ rpc' \in {"idle", "some", "full"} /\ plan' \in SUBSET Files
        /\ fresh' \in Copies /\ metas' \in Copies
        /\ \A f \in Files : fresh'[f] <= n /\ metas'[f] <= n
        /\ target' \in {pointer, target, NoPointer} /\ served' \in {served, target, NoPointer}
    <3>0. /\ rpc \in {"idle", "some", "full"} /\ plan \in SUBSET Files
          /\ \A f \in Files : snap[f] <= n /\ fresh[f] <= n /\ metas[f] <= n
      BY <1>0 DEF Types, InBounds
    <3>1. CASE ReadPointer
      <4>1. /\ rpc' \in {"some", "full"} /\ target' = pointer
            /\ UNCHANGED <<served, fresh, metas>>
            /\ plan' \in {ChangedSince(pointer, served.gen), {f \in Files : snap[f] # 0}}
        BY <3>1 DEF ReadPointer
      <4>2. ChangedSince(pointer, served.gen) \in SUBSET Files
        <5>1. pointer.history \in Seq(Change)
          BY <1>0 DEF PointerShape
        <5>2. \A d \in ToSet(pointer.history) : d \in Change
          BY <5>1 DEF ToSet
        <5>3. \A d \in ToSet(pointer.history) : d.changed \in SUBSET Files
          BY <5>2 DEF Change
        <5> QED  BY <5>3 DEF ChangedSince
      <4> QED  BY <1>0, <3>0, <4>1, <4>2
    <3>2. CASE ReadSnapshot
      <4>1. CASE \E f \in plan :
              /\ plan' = plan \ {f}
              /\ IF rpc = "full"
                   THEN fresh' = [fresh EXCEPT ![f] = snap[f]] /\ UNCHANGED metas
                   ELSE metas' = [metas EXCEPT ![f] = snap[f]] /\ UNCHANGED fresh
              /\ UNCHANGED <<rpc, target, spent>>
        <5>1. PICK f \in plan :
              /\ plan' = plan \ {f}
              /\ IF rpc = "full"
                   THEN fresh' = [fresh EXCEPT ![f] = snap[f]] /\ UNCHANGED metas
                   ELSE metas' = [metas EXCEPT ![f] = snap[f]] /\ UNCHANGED fresh
              /\ UNCHANGED <<rpc, target, spent>>
          BY <4>1
        <5>2. UNCHANGED served /\ f \in Files /\ snap[f] \in Nat
          BY <1>0, <3>0, <3>2 DEF ReadSnapshot, Copies
        <5>3. fresh' \in Copies /\ metas' \in Copies
          BY <1>0, <5>1, <5>2 DEF Copies
        <5>4. \A g \in Files : fresh'[g] <= n /\ metas'[g] <= n
          BY <1>0, <3>0, <5>1, <5>2 DEF Copies
        <5> QED  BY <3>0, <5>1, <5>2, <5>3, <5>4
      <4>2. CASE plan # {} /\ Fault /\ EndRefresh /\ UNCHANGED metas
        <5>1. UNCHANGED served
          BY <3>2 DEF ReadSnapshot
        <5> QED  BY <1>0, <1>01, <3>0, <4>2, <5>1 DEF EndRefresh
      <4> QED  BY <3>2, <4>1, <4>2 DEF ReadSnapshot
    <3>3. CASE FinishRefresh
      <4>1. metas' \in {fresh, metas} /\ served' = target /\ EndRefresh
        BY <3>3 DEF FinishRefresh
      <4> QED  BY <1>0, <1>01, <3>0, <4>1 DEF EndRefresh
    <3>4. CASE RestartFollower
      <4>1. metas' = None /\ served' = NoPointer /\ EndRefresh
        BY <3>4 DEF RestartFollower
      <4> QED  BY <1>0, <1>01, <3>0, <4>1 DEF EndRefresh
    <3> QED  BY <1>9, <3>1, <3>2, <3>3, <3>4 DEF Refresh
  <2>3. Types'
    BY <1>0, <1>01, <2>1, <2>2 DEF Types
  <2>4. InBounds'
    <3>1. target'.last <= n /\ served'.last <= n
      BY <1>0, <1>01, <2>2 DEF InBounds
    <3> QED  BY <1>0, <2>1, <2>2, <3>1 DEF InBounds
  <2> QED  BY <1>0, <2>1, <2>3, <2>4 DEF Shape
<1>10. CASE UNCHANGED vars
  <2>1. UNCHANGED <<journal, snap, pointer, ipc, last, batch, todo, unpub, disk, rpc, served,
                    target, plan, fresh, metas, spent>>
    BY <1>10 DEF vars, bucketVars, indexerVars, followerVars
  <2>2. Types' /\ InBounds'
    BY <1>0, <2>1 DEF Types, InBounds
  <2> QED  BY <1>0, <2>1, <2>2 DEF Shape
<1> QED  BY <1>1, <1>2, <1>3, <1>4, <1>5, <1>6, <1>7, <1>8, <1>9, <1>10 DEF Next, Run

(***************************************************************************)
(* The states behind a pointer.                                            *)
(***************************************************************************)
LEMMA InvInit ==
  Init => Inv
<1> SUFFICES ASSUME Init PROVE Inv
  OBVIOUS
<1>1. Shape
  BY ShapeInit
<1>2. DiskInv
  BY DEF Init, DiskInv, NoDisk, NoPointer
<1>3. ProcessInv
  BY DEF Init, ProcessInv, Has, NoPointer
<1>4. FollowerInv
  BY DEF Init, FollowerInv, Tells, NoPointer
<1> QED  BY <1>1, <1>2, <1>3, <1>4 DEF Inv

\* What the steps below use of the ranges.
LEMMA Ranges ==
  ASSUME Shape
  PROVE  /\ Len(journal) \in Nat /\ journal \in Seq(Files)
         /\ \A k \in 1..Len(journal) : journal[k] \in Files
         /\ \A f \in Files : /\ snap[f] \in Nat /\ metas[f] \in Nat /\ fresh[f] \in Nat
                             /\ snap[f] <= Len(journal)
         /\ snap \in Copies /\ metas \in Copies /\ fresh \in Copies
         /\ last \in Nat /\ batch \in Nat /\ last <= Len(journal) /\ batch <= Len(journal)
         /\ pointer.last \in Nat /\ pointer.gen \in Nat /\ pointer.last <= Len(journal)
         /\ served.last \in Nat /\ served.gen \in Nat /\ served.last <= Len(journal)
         /\ target.last \in Nat /\ target.gen \in Nat /\ target.last <= Len(journal)
         /\ disk.last \in Nat /\ disk.gen \in Nat /\ disk.last <= Len(journal)
<1>1. Types /\ InBounds /\ Len(journal) \in Nat
  BY LenProperties DEF Shape, Types
<1>2. /\ \A k \in 1..Len(journal) : journal[k] \in Files
      /\ journal \in Seq(Files)
      /\ snap \in Copies /\ metas \in Copies /\ fresh \in Copies
  BY <1>1 DEF Types
<1>3. \A f \in Files : /\ snap[f] \in Nat /\ metas[f] \in Nat /\ fresh[f] \in Nat
                        /\ snap[f] <= Len(journal)
  BY <1>1, <1>2 DEF InBounds, Copies
<1>4. /\ last \in Nat /\ batch \in Nat /\ last <= Len(journal) /\ batch <= Len(journal)
      /\ disk.last \in Nat /\ disk.gen \in Nat /\ disk.last <= Len(journal)
  BY <1>1 DEF Types, InBounds
<1>5. /\ pointer.last \in Nat /\ pointer.gen \in Nat /\ pointer.last <= Len(journal)
      /\ served.last \in Nat /\ served.gen \in Nat /\ served.last <= Len(journal)
      /\ target.last \in Nat /\ target.gen \in Nat /\ target.last <= Len(journal)
  BY <1>1 DEF Types, InBounds, PointerShape
<1> QED  BY <1>1, <1>2, <1>3, <1>4, <1>5

\* An event appended.
LEMMA AppendStep ==
  ASSUME Inv, AppendEvent
  PROVE  DiskInv' /\ ProcessInv' /\ FollowerInv'
<1> DEFINE n == Len(journal)
<1>0. Shape /\ DiskInv /\ ProcessInv /\ FollowerInv
  BY DEF Inv
<1>1. PICK f \in Files : journal' = Append(journal, f)
  BY DEF AppendEvent
<1>2. UNCHANGED <<snap, pointer, ipc, last, batch, todo, unpub, disk, rpc, served,
                  target, plan, fresh, metas>>
  BY DEF AppendEvent, indexerVars, followerVars
<1>3. /\ \A copy : \A key \in 0..n : Has(journal, copy, key) => Has(journal', copy, key)
      /\ \A ids : \A from \in Nat : \A to \in 0..n :
            Reported(journal, ids, from, to) => Reported(journal', ids, from, to)
      /\ \A k \in 1..n : journal'[k] = journal[k]
  BY <1>0, <1>1, Ranges, AppendKeeps
<1>4. /\ last \in 0..n /\ batch \in 0..n /\ pointer.last \in 0..n /\ served.last \in 0..n
      /\ target.last \in 0..n /\ disk.last \in 0..n
      /\ pointer.last \in Nat /\ served.last \in Nat /\ target.last \in Nat /\ n \in Nat
  BY <1>0, Ranges
<1>5. \A to \in 0..n : \A k \in 1..to : journal'[k] = journal[k]
  BY <1>3, <1>4
<1> HIDE DEF n
<1>6. DiskInv'
  BY <1>0, <1>2, <1>3, <1>4 DEF DiskInv
<1>7. ProcessInv'
  BY <1>0, <1>2, <1>3, <1>4, <1>5 DEF ProcessInv
<1>8. FollowerInv'
  <2>1. Tells(journal', pointer, served) /\ Tells(journal', pointer, target)
    BY <1>0, <1>3, <1>4 DEF FollowerInv, Tells
  <2> QED  BY <1>0, <1>2, <1>3, <1>4, <1>5, <2>1 DEF FollowerInv
<1> QED  BY <1>6, <1>7, <1>8

\* A batch: the ids to publish grow by its files.
LEMMA FoldStep ==
  ASSUME Inv, Fold
  PROVE  DiskInv' /\ ProcessInv' /\ FollowerInv'
<1> DEFINE n == Len(journal)
           hi == IF n - last > MaxBatch THEN last + MaxBatch ELSE n
<1>0. Shape /\ DiskInv /\ ProcessInv /\ FollowerInv
  BY DEF Inv
<1>1. /\ ipc = "idle" /\ batch' = hi /\ hi > last /\ todo' = Touched(last, hi)
      /\ unpub' = Unpublished(todo') /\ disk' = [disk EXCEPT !.synced = FALSE]
      /\ ipc' = "snap"
      /\ UNCHANGED <<journal, snap, pointer, last, rpc, served, target, plan, fresh, metas>>
  BY DEF Fold, bucketVars, followerVars
<1>2. hi \in Nat /\ hi <= n
  BY <1>0, Ranges, FollowerAssumption
<1> HIDE DEF hi
<1>3. /\ disk'.ok = disk.ok /\ disk'.last = disk.last /\ disk'.gen = disk.gen
      /\ ~disk'.synced
  BY <1>0, <1>1 DEF Shape, Types
<1>4. DiskInv'
  BY <1>0, <1>1, <1>3 DEF DiskInv
<1>5. /\ disk.ok /\ disk.last = last /\ pointer.last <= last
      /\ Has(journal, snap, last)
      /\ unpub.full \/ Reported(journal, unpub.ids, pointer.last, last)
  BY <1>0, <1>1 DEF ProcessInv
<1>6. \A k \in last + 1 .. hi : journal[k] \in todo'
  BY <1>1 DEF Touched
<1>7. unpub'.full \/ (\A k \in pointer.last + 1 .. hi : journal[k] \in unpub'.ids)
  <2>1. CASE unpub.full
    BY <1>1, <2>1 DEF Unpublished
  <2>2. CASE ~unpub.full
    <3>1. unpub'.ids = unpub.ids \cup todo'
      BY <1>1, <2>2 DEF Unpublished
    <3>2. ASSUME NEW k \in pointer.last + 1 .. hi PROVE journal[k] \in unpub'.ids
      <4>1. CASE k <= last
        <5>1. k \in pointer.last + 1 .. last
          BY <1>0, <1>2, <4>1, Ranges
        <5> QED  BY <1>5, <2>2, <3>1, <5>1 DEF Reported
      <4>2. CASE ~(k <= last)
        <5>1. k \in last + 1 .. hi
          BY <1>0, <1>2, <4>2, Ranges
        <5> QED  BY <1>6, <3>1, <5>1
      <4> QED  BY <4>1, <4>2
    <3> QED  BY <3>2
  <2> QED  BY <2>1, <2>2
<1>8. \A k \in 1..hi : journal[k] \in todo' \/ k <= snap[journal[k]]
  <2>1. ASSUME NEW k \in 1..hi PROVE journal[k] \in todo' \/ k <= snap[journal[k]]
    <3>1. k \in 1..last \/ k \in last + 1 .. hi
      BY <1>0, <1>2, Ranges
    <3> QED  BY <1>5, <1>6, <3>1 DEF Has
  <2> QED  BY <2>1
<1>9. unpub'.full \/ (\A k \in pointer.last + 1 .. last : journal[k] \in unpub'.ids)
  <2>1. \A k \in pointer.last + 1 .. last : k \in pointer.last + 1 .. hi
    BY <1>0, <1>1, <1>2, Ranges
  <2> QED  BY <1>7, <2>1
<1>10. ProcessInv'
  <2>1. Has(journal, snap, pointer.last)
    BY <1>0 DEF ProcessInv
  <2>2. hi > last => last < hi
    BY <1>0, <1>2, Ranges
  <2> QED  BY <1>1, <1>3, <1>5, <1>7, <1>8, <1>9, <2>1, <2>2 DEF ProcessInv, Reported
<1>11. FollowerInv'
  BY <1>0, <1>1 DEF FollowerInv
<1> QED  BY <1>4, <1>10, <1>11

\* A snapshot written, or the error that ends the run.
LEMMA SnapshotStep ==
  ASSUME Inv, WriteSnapshot
  PROVE  DiskInv' /\ ProcessInv' /\ FollowerInv'
<1>0. Shape /\ DiskInv /\ ProcessInv /\ FollowerInv
  BY DEF Inv
<1>1. /\ ipc = "snap" /\ todo # {}
      /\ UNCHANGED <<journal, pointer, last, unpub, disk, rpc, served, target, plan, fresh,
                     metas>>
  BY DEF WriteSnapshot, followerVars
<1>2. /\ disk.ok /\ disk.last = last /\ pointer.last <= last /\ Has(journal, snap, last)
      /\ unpub.full \/ Reported(journal, unpub.ids, pointer.last, last)
      /\ last < batch /\ ~disk.synced
      /\ unpub.full \/ Reported(journal, unpub.ids, pointer.last, batch)
      /\ \A k \in 1..batch : journal[k] \in todo \/ k <= snap[journal[k]]
      /\ Has(journal, snap, pointer.last)
  BY <1>0, <1>1 DEF ProcessInv
<1>3. FollowerInv'
  BY <1>0, <1>1 DEF FollowerInv
<1>4. CASE Fault /\ EndRun /\ UNCHANGED snap
  <2>1. DiskInv'
    BY <1>0, <1>1, <1>4 DEF DiskInv
  <2>2. ProcessInv'
    BY <1>1, <1>2, <1>4 DEF ProcessInv, EndRun
  <2> QED  BY <1>3, <2>1, <2>2
<1>5. CASE \E f \in todo :
                /\ FirstSeen(f) /\ snap' = [snap EXCEPT ![f] = StateAt(f, batch)]
                /\ todo' = todo \ {f} /\ UNCHANGED <<ipc, batch, spent>>
  <2>1. PICK f \in todo : /\ snap' = [snap EXCEPT ![f] = StateAt(f, batch)]
                          /\ todo' = todo \ {f} /\ UNCHANGED <<ipc, batch, spent>>
    BY <1>5
  <2>2. \A k \in 1..batch : journal[k] = f => k <= StateAt(f, batch)
    BY <1>0, Ranges, StateAtIs
  <2>3. ASSUME NEW k \in 1..batch, k <= snap[journal[k]] \/ journal[k] = f
        PROVE  k <= snap'[journal[k]]
    <3>1. journal[k] \in Files
      BY <1>0, Ranges
    <3>2. CASE journal[k] = f
      <4>1. snap'[journal[k]] = StateAt(f, batch)
        BY <1>0, <2>1, <3>1, <3>2, Ranges DEF Copies
      <4> QED  BY <2>2, <3>2, <4>1
    <3>3. CASE journal[k] # f
      <4>1. snap'[journal[k]] = snap[journal[k]]
        BY <1>0, <2>1, <3>1, <3>3, Ranges DEF Copies
      <4> QED  BY <2>3, <3>3, <4>1
    <3> QED  BY <3>2, <3>3
  <2>4. \A key \in 0..batch : Has(journal, snap, key) => Has(journal, snap', key)
    <3>1. ASSUME NEW key \in 0..batch, Has(journal, snap, key), NEW k \in 1..key
          PROVE  k <= snap'[journal[k]]
      <4>1. k \in 1..batch /\ k <= snap[journal[k]]
        BY <1>0, <3>1, Ranges DEF Has
      <4> QED  BY <2>3, <4>1
    <3> QED  BY <3>1 DEF Has
  <2>5. pointer.last \in 0..batch /\ last \in 0..batch
    BY <1>0, <1>2, Ranges
  <2>6. DiskInv'
    BY <1>0, <1>1, <1>2, <2>4, <2>5 DEF DiskInv
  <2>7. \A k \in 1..batch : journal[k] \in todo' \/ k <= snap'[journal[k]]
    BY <1>2, <2>1, <2>3
  <2>8. ProcessInv'
    BY <1>1, <1>2, <2>1, <2>4, <2>5, <2>7 DEF ProcessInv
  <2> QED  BY <1>3, <2>6, <2>8
<1> QED  BY <1>4, <1>5 DEF WriteSnapshot

\* The end of a run: the key.
LEMMA SaveStep ==
  ASSUME Inv, SaveKey
  PROVE  DiskInv' /\ ProcessInv' /\ FollowerInv'
<1>0. Shape /\ DiskInv /\ ProcessInv /\ FollowerInv
  BY DEF Inv
<1>1. /\ ipc = "snap" /\ todo = {}
      /\ last' = batch /\ disk' = [disk EXCEPT !.last = batch]
      /\ ipc' = "idle" /\ batch' = 0 /\ todo' = {}
      /\ UNCHANGED <<journal, snap, pointer, unpub, rpc, served, target, plan, fresh, metas>>
  BY DEF SaveKey, EndRun, bucketVars, followerVars
<1>2. /\ disk'.ok = disk.ok /\ disk'.last = batch /\ disk'.gen = disk.gen
      /\ disk'.synced = disk.synced
  BY <1>0, <1>1 DEF Shape, Types
<1>3. /\ disk.ok /\ pointer.last <= last /\ last < batch /\ ~disk.synced
      /\ unpub.full \/ Reported(journal, unpub.ids, pointer.last, batch)
      /\ \A k \in 1..batch : journal[k] \in todo \/ k <= snap[journal[k]]
      /\ Has(journal, snap, pointer.last)
  BY <1>0, <1>1 DEF ProcessInv
<1>4. Has(journal, snap, batch)
  BY <1>1, <1>3 DEF Has
<1>5. pointer.last <= batch
  BY <1>0, <1>3, Ranges
<1>6. DiskInv'
  BY <1>0, <1>1, <1>2, <1>3, <1>4, <1>5 DEF DiskInv
<1>7. ProcessInv'
  BY <1>1, <1>2, <1>3, <1>4, <1>5 DEF ProcessInv
<1>8. FollowerInv'
  BY <1>0, <1>1 DEF FollowerInv
<1> QED  BY <1>6, <1>7, <1>8

\* A publication, the failed one whose PUT was stored included.
LEMMA PublishStep ==
  ASSUME Inv, Publish
  PROVE  DiskInv' /\ ProcessInv' /\ FollowerInv'
<1>0. Shape /\ DiskInv /\ ProcessInv /\ FollowerInv
  BY DEF Inv
<1>1. /\ ipc = "idle"
      /\ UNCHANGED <<journal, snap, ipc, last, batch, todo, rpc, served, target, plan, fresh,
                     metas>>
  BY DEF Publish, followerVars
<1>2. /\ disk.ok /\ disk.last = last /\ pointer.last <= last /\ Has(journal, snap, last)
      /\ unpub.full \/ Reported(journal, unpub.ids, pointer.last, last)
  BY <1>0, <1>1 DEF ProcessInv
<1>3. CASE UNCHANGED <<unpub, pointer, disk>>
  BY <1>0, <1>1, <1>3 DEF DiskInv, ProcessInv, FollowerInv
<1>4. CASE pointer' = NewPointer
  <2>1. NewPointer.gen = pointer.gen + 1 /\ NewPointer.last = last
    BY <1>0, NewPointerIs DEF Shape
  <2>2. ASSUME NEW s \in PointerShape, s.gen <= pointer.gen, Tells(journal, pointer, s)
        PROVE  Tells(journal, NewPointer, s)
    BY <1>0, <1>2, <2>2, PublicationTells DEF Shape
  <2>3. served \in PointerShape /\ target \in PointerShape
    BY <1>0 DEF Shape, Types
  <2>4. FollowerInv'
    <3>1. Tells(journal, NewPointer, served) /\ Tells(journal, NewPointer, target)
      BY <1>0, <2>2, <2>3 DEF FollowerInv
    <3>2. /\ served.gen <= NewPointer.gen /\ target.gen <= NewPointer.gen
          /\ served.last <= NewPointer.last /\ target.last <= NewPointer.last
      <4>1. /\ served.gen <= pointer.gen /\ target.gen <= pointer.gen
            /\ served.last <= pointer.last /\ target.last <= pointer.last
        BY <1>0 DEF FollowerInv
      <4>2. pointer.gen <= NewPointer.gen /\ pointer.last <= NewPointer.last
        BY <1>0, <1>2, <2>1, Ranges
      <4>3. /\ {served.gen, target.gen, pointer.gen, NewPointer.gen} \subseteq Nat
            /\ {served.last, target.last, pointer.last, NewPointer.last} \subseteq Nat
        BY <1>0, <2>1, Ranges
      <4> HIDE DEF NewPointer
      <4> QED  BY <4>1, <4>2, <4>3
    <3> QED  BY <1>0, <1>1, <1>4, <3>1, <3>2 DEF FollowerInv
  <2>5. /\ disk'.ok = disk.ok /\ disk'.last = disk.last
        /\ \/ disk'.gen = disk.gen /\ unpub' = unpub
           \/ disk'.gen = pointer.gen + 1 /\ unpub' = Published
    <3>1. CASE UNCHANGED unpub /\ disk' = [disk EXCEPT !.synced = TRUE]
      BY <1>0, <3>1 DEF Shape, Types
    <3>2. CASE unpub' = Published /\ disk' = [disk EXCEPT !.gen = pointer.gen + 1,
                                                          !.synced = TRUE]
      BY <1>0, <3>2 DEF Shape, Types
    <3>3. pointer' # pointer
      <4>1. pointer'.gen = pointer.gen + 1
        BY <1>4, <2>1
      <4> QED  BY <1>0, <4>1, Ranges
    <3> QED  BY <3>1, <3>2, <3>3 DEF Publish
  <2>6. Has(journal, snap, pointer'.last) /\ pointer'.last <= disk'.last
        /\ disk'.last <= pointer'.last /\ pointer'.gen # 0
    BY <1>0, <1>2, <1>4, <2>1, <2>5, Ranges
  <2>7. DiskInv'
    <3>1. disk'.gen <= pointer'.gen
      BY <1>0, <1>4, <2>1, <2>5, Ranges DEF DiskInv
    <3>2. Has(journal, snap, disk'.last)
      BY <1>2, <2>5
    <3> QED  BY <1>1, <2>6, <3>1, <3>2 DEF DiskInv
  <2>8. ProcessInv'
    <3>1. \A ids : Reported(journal, ids, last, last)
      BY <1>0, Ranges DEF Reported
    <3>2. last <= last
      BY <1>0, Ranges
    <3> QED  BY <1>1, <1>2, <1>4, <2>1, <2>5, <2>6, <3>1, <3>2 DEF ProcessInv

  <2> QED  BY <2>4, <2>7, <2>8
<1> QED  BY <1>3, <1>4 DEF Publish

\* A crash of the indexer, with or without its disk.
LEMMA CrashStep ==
  ASSUME Inv, Crash
  PROVE  DiskInv' /\ ProcessInv' /\ FollowerInv'
<1>0. Shape /\ DiskInv /\ ProcessInv /\ FollowerInv
  BY DEF Inv
<1>1. /\ ipc' = "down" /\ disk' \in {disk, NoDisk}
      /\ UNCHANGED <<journal, snap, pointer, rpc, served, target, plan, fresh, metas>>
  BY DEF Crash, bucketVars, followerVars
<1>2. NoDisk.gen = 0 /\ ~NoDisk.ok
  BY DEF NoDisk
<1>3. 0 <= pointer.gen
  BY <1>0, Ranges
<1>4. DiskInv'
  BY <1>0, <1>1, <1>2, <1>3 DEF DiskInv
<1>5. ProcessInv'
  BY <1>0, <1>1 DEF ProcessInv
<1>6. FollowerInv'
  BY <1>0, <1>1 DEF FollowerInv
<1> QED  BY <1>4, <1>5, <1>6

\* The cursor of a rebuild that finds whole snapshots has every state before it
\* stored, and is not behind the pointer.
LEMMA RebuiltKeeps ==
  ASSUME Inv, Rebuilt, Whole
  PROVE  Has(journal, snap, last') /\ pointer.last <= last'
<1>0. Shape /\ ProcessInv
  BY DEF Inv
<1>1. /\ last' \in Nat /\ last' <= Len(journal)
      /\ \A f \in Files : snap[f] <= last'
      /\ last' = 0 \/ \E f \in Files : last' = snap[f]
  BY <1>0, RebuiltIs
<1>2. Has(journal, snap, last')
  <2>1. ASSUME NEW k \in 1..last' PROVE k <= snap[journal[k]]
    <3>1. PICK f \in Files : last' = snap[f]
      BY <1>1, <2>1
    <3>2. journal[k] \in Files
      BY <1>0, <1>1, Ranges
    <3>3. /\ StateAt(journal[k], last') \in 0..last' /\ k <= StateAt(journal[k], last')
      BY <1>1, StateAtIs
    <3>4. StateAt(journal[k], last') <= snap[journal[k]]
      BY <3>1, <3>2 DEF Whole
    <3>5. snap[journal[k]] \in Nat
      BY <1>0, <3>2, Ranges
    <3> QED  BY <1>1, <3>3, <3>4, <3>5
  <2> QED  BY <2>1 DEF Has
<1>3. pointer.last <= last'
  <2>1. CASE pointer.last = 0
    BY <1>1, <2>1
  <2>2. CASE pointer.last # 0
    <3>1. pointer.last \in 1..pointer.last /\ journal[pointer.last] \in Files
      BY <1>0, <2>2, Ranges
    <3>2. pointer.last <= snap[journal[pointer.last]]
      BY <1>0, <3>1 DEF ProcessInv, Has
    <3> QED  BY <1>0, <1>1, <3>1, <3>2, Ranges
  <2> QED  BY <2>1, <2>2
<1> QED  BY <1>2, <1>3

\* A start: adopted, rebuilt or local.
LEMMA RestartStep ==
  ASSUME Inv, Restart, RebuildsWhole
  PROVE  DiskInv' /\ ProcessInv' /\ FollowerInv'
<1>0. Shape /\ DiskInv /\ ProcessInv /\ FollowerInv
  BY DEF Inv
<1>1. /\ ipc = "down" /\ ipc' = "idle"
      /\ UNCHANGED <<journal, snap, pointer, batch, todo, rpc, served, target, plan, fresh,
                     metas>>
  BY DEF Restart, bucketVars, followerVars
<1>2. FollowerInv'
  BY <1>0, <1>1 DEF FollowerInv
<1>3. /\ Has(journal, snap, pointer.last) /\ (pointer.gen = 0 => pointer.last = 0)
      /\ disk.gen <= pointer.gen
  BY <1>0 DEF ProcessInv, DiskInv
<1>4. CASE pointer.gen # 0 /\ (~disk.ok \/ disk.gen # pointer.gen)
  <2>1. /\ last' = pointer.last /\ unpub' = Published
        /\ disk' = [ok |-> TRUE, last |-> pointer.last, gen |-> pointer.gen,
                    synced |-> TRUE]
    BY <1>4 DEF Restart
  <2>2. /\ disk'.ok /\ disk'.last = pointer.last /\ disk'.gen = pointer.gen
        /\ pointer.last <= pointer.last /\ pointer.gen <= pointer.gen
    BY <1>0, <2>1, Ranges
  <2>3. Reported(journal, unpub'.ids, pointer.last, pointer.last)
    BY <1>0, Ranges DEF Reported
  <2>4. DiskInv'
    BY <1>1, <1>3, <2>1, <2>2 DEF DiskInv
  <2>5. ProcessInv'
    BY <1>1, <1>3, <2>1, <2>2, <2>3 DEF ProcessInv
  <2> QED  BY <1>2, <2>4, <2>5
<1>5. CASE ~(pointer.gen # 0 /\ (~disk.ok \/ disk.gen # pointer.gen)) /\ ~disk.ok
  <2>1. Rebuilt /\ Whole
    BY <1>1, <1>5 DEF Restart, RebuildsWhole
  <2>2. /\ unpub' = AllNew
        /\ disk' = [ok |-> TRUE, last |-> last', gen |-> disk.gen, synced |-> FALSE]
    BY <1>0, <2>1, RebuiltIs
  <2>3. Has(journal, snap, last') /\ pointer.last <= last'
    BY <2>1, RebuiltKeeps
  <2>4. DiskInv'
    BY <1>1, <1>3, <2>2, <2>3 DEF DiskInv
  <2>5. ProcessInv'
    BY <1>1, <1>3, <2>2, <2>3 DEF ProcessInv, AllNew
  <2> QED  BY <1>2, <2>4, <2>5
<1>6. CASE ~(pointer.gen # 0 /\ (~disk.ok \/ disk.gen # pointer.gen)) /\ disk.ok
  <2>1. /\ last' = disk.last /\ unpub' = IF Ahead THEN AllNew ELSE Published
        /\ disk' = disk
    BY <1>6 DEF Restart
  <2>2. /\ pointer.last <= disk.last /\ Has(journal, snap, disk.last)
        /\ disk.synced => disk.last <= pointer.last
    BY <1>0, <1>6 DEF DiskInv
  <2>3. unpub'.full \/ Reported(journal, unpub'.ids, pointer.last, last')
    <3>1. CASE Ahead
      BY <2>1, <3>1 DEF AllNew
    <3>2. CASE ~Ahead
      <4>1. disk.synced /\ disk.last = pointer.last
        BY <1>0, <2>2, <3>2, Ranges DEF Ahead
      <4> QED  BY <1>0, <2>1, <4>1, Ranges DEF Reported
    <3> QED  BY <3>1, <3>2
  <2>4. DiskInv'
    BY <1>0, <1>1, <2>1 DEF DiskInv
  <2>5. ProcessInv'
    BY <1>1, <1>3, <1>6, <2>1, <2>2, <2>3 DEF ProcessInv
  <2> QED  BY <1>2, <2>4, <2>5
<1> QED  BY <1>4, <1>5, <1>6

\* A reindex request.
LEMMA RebuildStep ==
  ASSUME Inv, Rebuild, RebuildsWhole
  PROVE  DiskInv' /\ ProcessInv' /\ FollowerInv'
<1>0. Shape /\ DiskInv /\ ProcessInv /\ FollowerInv
  BY DEF Inv
<1>1. /\ ipc = "idle" /\ Rebuilt /\ Whole
      /\ UNCHANGED <<journal, snap, pointer, ipc, batch, todo, rpc, served, target, plan,
                     fresh, metas>>
  BY DEF Rebuild, RebuildsWhole, bucketVars, followerVars
<1>2. /\ unpub' = AllNew
      /\ disk' = [ok |-> TRUE, last |-> last', gen |-> disk.gen, synced |-> FALSE]
  BY <1>0, <1>1, RebuiltIs
<1>3. Has(journal, snap, last') /\ pointer.last <= last'
  BY <1>1, RebuiltKeeps
<1>4. DiskInv'
  BY <1>0, <1>1, <1>2, <1>3 DEF DiskInv
<1>5. ProcessInv'
  BY <1>0, <1>1, <1>2, <1>3 DEF ProcessInv, AllNew
<1>6. FollowerInv'
  BY <1>0, <1>1 DEF FollowerInv
<1> QED  BY <1>4, <1>5, <1>6

\* A refresh begins: what it plans to read is all that can be missing.
LEMMA ReadPointerStep ==
  ASSUME Inv, ReadPointer
  PROVE  FollowerInv'
<1>0. Shape /\ ProcessInv /\ FollowerInv
  BY DEF Inv
<1> DEFINE some == served.gen # 0 /\ Covered(pointer, served.gen)
<1>1. /\ target' = pointer
      /\ rpc' = IF some THEN "some" ELSE "full"
      /\ plan' = IF some THEN ChangedSince(pointer, served.gen)
                 ELSE {f \in Files : snap[f] # 0}
      /\ UNCHANGED <<journal, pointer, served, fresh, metas>>
  BY DEF ReadPointer, bucketVars
<1>2. /\ pointer.gen <= pointer.gen /\ pointer.last <= pointer.last
      /\ Tells(journal, pointer, pointer)
  BY <1>0, Ranges DEF Tells, Reported
<1>3. /\ served.gen <= pointer.gen /\ served.last <= pointer.last
      /\ Tells(journal, pointer, served)
      /\ served.gen # 0 => Has(journal, metas, served.last)
  BY <1>0 DEF FollowerInv
<1>4. CASE some
  <2>1. rpc' = "some" /\ plan' = ChangedSince(pointer, served.gen)
    BY <1>1, <1>4
  <2>2. ASSUME NEW k \in 1..pointer.last
        PROVE  journal[k] \in plan' \/ k <= metas[journal[k]]
    <3>1. CASE k <= served.last
      <4>1. k \in 1..served.last
        BY <1>0, <3>1, Ranges
      <4> QED  BY <1>3, <1>4, <4>1 DEF Has
    <3>2. CASE ~(k <= served.last)
      <4>1. k \in served.last + 1 .. pointer.last
        BY <1>0, <3>2, Ranges
      <4> QED  BY <1>3, <1>4, <2>1, <4>1 DEF Tells, Reported
    <3> QED  BY <3>1, <3>2
  <2> QED  BY <1>1, <1>2, <1>3, <1>4, <2>1, <2>2 DEF FollowerInv
<1>5. CASE ~some
  <2>1. rpc' = "full" /\ plan' = {f \in Files : snap[f] # 0}
    BY <1>1, <1>5
  <2>2. ASSUME NEW k \in 1..pointer.last PROVE journal[k] \in plan'
    <3>1. journal[k] \in Files /\ k <= snap[journal[k]] /\ snap[journal[k]] \in Nat
      BY <1>0, Ranges DEF ProcessInv, Has
    <3> QED  BY <2>1, <3>1
  <2> HIDE DEF some
  <2> QED  BY <1>1, <1>2, <1>3, <2>1, <2>2 DEF FollowerInv
<1> QED  BY <1>4, <1>5

\* A snapshot read is as new as the pointer in the bucket, and so as the target.
LEMMA ReadSnapshotStep ==
  ASSUME Inv, ReadSnapshot
  PROVE  FollowerInv'
<1>0. Shape /\ ProcessInv /\ FollowerInv
  BY DEF Inv
<1>1. rpc # "idle" /\ UNCHANGED <<journal, pointer, served>>
  BY DEF ReadSnapshot, bucketVars
<1>2. CASE plan # {} /\ Fault /\ EndRefresh /\ UNCHANGED metas
  <2>1. target' = NoPointer /\ rpc' = "idle"
    BY <1>2 DEF EndRefresh
  <2>2. NoPointer.gen = 0 /\ NoPointer.last = 0 /\ 0 <= pointer.gen /\ 0 <= pointer.last
    BY <1>0, Ranges DEF NoPointer
  <2> QED  BY <1>0, <1>1, <1>2, <2>1, <2>2 DEF FollowerInv, Tells
<1>3. CASE \E f \in plan :
              /\ plan' = plan \ {f}
              /\ IF rpc = "full"
                   THEN fresh' = [fresh EXCEPT ![f] = snap[f]] /\ UNCHANGED metas
                   ELSE metas' = [metas EXCEPT ![f] = snap[f]] /\ UNCHANGED fresh
              /\ UNCHANGED <<rpc, target, spent>>
  <2>1. PICK f \in plan :
              /\ plan' = plan \ {f}
              /\ IF rpc = "full"
                   THEN fresh' = [fresh EXCEPT ![f] = snap[f]] /\ UNCHANGED metas
                   ELSE metas' = [metas EXCEPT ![f] = snap[f]] /\ UNCHANGED fresh
              /\ UNCHANGED <<rpc, target>>
    BY <1>3
  <2>2. \A k \in 1..pointer.last : k <= snap[journal[k]]
    BY <1>0 DEF ProcessInv, Has
  <2>3. /\ \A k \in 1..served.last : k \in 1..pointer.last
        /\ \A k \in 1..target.last : k \in 1..pointer.last
        /\ \A k \in 1..pointer.last : journal[k] \in Files
    BY <1>0, Ranges DEF FollowerInv
  <2>4. CASE rpc = "full"
    <3>1. UNCHANGED metas /\ fresh' = [fresh EXCEPT ![f] = snap[f]]
      BY <2>1, <2>4
    <3>2. ASSUME NEW k \in 1..target.last
          PROVE  journal[k] \in plan' \/ k <= fresh'[journal[k]]
      <4>1. CASE journal[k] = f
        BY <1>0, <2>2, <2>3, <3>1, <4>1, Ranges DEF Copies
      <4>2. CASE journal[k] # f
        <5>1. fresh'[journal[k]] = fresh[journal[k]]
          BY <1>0, <2>3, <3>1, <4>2, Ranges DEF Copies
        <5>2. journal[k] \in plan \/ k <= fresh[journal[k]]
          BY <1>0, <2>4 DEF FollowerInv
        <5> QED  BY <2>1, <4>2, <5>1, <5>2
      <4> QED  BY <4>1, <4>2
    <3> QED  BY <1>0, <1>1, <2>1, <2>4, <3>1, <3>2 DEF FollowerInv
  <2>5. CASE rpc # "full"
    <3>1. UNCHANGED fresh /\ metas' = [metas EXCEPT ![f] = snap[f]]
      BY <2>1, <2>5
    <3>2. ASSUME NEW k \in 1..pointer.last, journal[k] = f \/ k <= metas[journal[k]]
          PROVE  k <= metas'[journal[k]]
      <4>1. CASE journal[k] = f
        BY <1>0, <2>2, <2>3, <3>1, <4>1, Ranges DEF Copies
      <4>2. CASE journal[k] # f
        <5>1. metas'[journal[k]] = metas[journal[k]]
          BY <1>0, <2>3, <3>1, <4>2, Ranges DEF Copies
        <5> QED  BY <3>2, <4>2, <5>1
      <4> QED  BY <4>1, <4>2
    <3>3. served.gen # 0 => Has(journal, metas', served.last)
      BY <1>0, <2>3, <3>2 DEF FollowerInv, Has
    <3>4. rpc = "some" =>
             \A k \in 1..target.last : journal[k] \in plan' \/ k <= metas'[journal[k]]
      BY <1>0, <2>1, <2>3, <3>2 DEF FollowerInv
    <3> QED  BY <1>0, <1>1, <2>1, <2>5, <3>1, <3>3, <3>4 DEF FollowerInv
  <2> QED  BY <2>4, <2>5
<1> QED  BY <1>2, <1>3 DEF ReadSnapshot

\* The end of a refresh, or of the follower.
LEMMA FinishStep ==
  ASSUME Inv, FinishRefresh \/ RestartFollower
  PROVE  FollowerInv'
<1>0. Shape /\ FollowerInv
  BY DEF Inv
<1>1. UNCHANGED <<journal, pointer>> /\ target' = NoPointer /\ rpc' = "idle"
  BY DEF FinishRefresh, RestartFollower, EndRefresh, bucketVars
<1>2. NoPointer.gen = 0 /\ NoPointer.last = 0 /\ 0 <= pointer.gen /\ 0 <= pointer.last
  BY <1>0, Ranges DEF NoPointer
<1>3. CASE FinishRefresh
  <2>1. /\ rpc # "idle" /\ plan = {} /\ served' = target
        /\ metas' = IF rpc = "full" THEN fresh ELSE metas
    BY <1>3 DEF FinishRefresh
  <2>2. rpc \in {"some", "full"}
    BY <1>0, <2>1 DEF Shape, Types
  <2>3. Has(journal, metas', target.last)
    BY <1>0, <2>1, <2>2 DEF FollowerInv, Has
  <2> QED  BY <1>0, <1>1, <1>2, <2>1, <2>3 DEF FollowerInv, Tells
<1>4. CASE RestartFollower
  <2>1. served' = NoPointer
    BY <1>4 DEF RestartFollower
  <2> QED  BY <1>1, <1>2, <2>1 DEF FollowerInv, Tells
<1> QED  BY <1>3, <1>4

LEMMA InvStep ==
  ASSUME Inv, [Next]_vars, RebuildsWhole
  PROVE  Inv'
<1>0. Shape /\ DiskInv /\ ProcessInv /\ FollowerInv
  BY DEF Inv
<1>1. Shape'
  BY <1>0, ShapeStep
<1>2. CASE Refresh \/ RestartFollower
  <2>1. UNCHANGED <<journal, snap, pointer, ipc, last, batch, todo, unpub, disk>>
    BY <1>2 DEF Refresh, ReadPointer, ReadSnapshot, FinishRefresh, RestartFollower,
                bucketVars, indexerVars
  <2>2. DiskInv' /\ ProcessInv'
    BY <1>0, <2>1 DEF DiskInv, ProcessInv
  <2>3. FollowerInv'
    BY <1>2, ReadPointerStep, ReadSnapshotStep, FinishStep DEF Refresh
  <2> QED  BY <2>2, <2>3, <1>1 DEF Inv
<1>3. CASE UNCHANGED vars
  <2>1. DiskInv' /\ ProcessInv' /\ FollowerInv'
    BY <1>0, <1>3
       DEF vars, bucketVars, indexerVars, followerVars, DiskInv, ProcessInv, FollowerInv
  <2> QED  BY <2>1, <1>1 DEF Inv
<1>4. CASE AppendEvent \/ Run \/ Crash \/ Rebuild
  <2>1. DiskInv' /\ ProcessInv' /\ FollowerInv'
    BY <1>4, AppendStep, FoldStep, SnapshotStep, SaveStep, PublishStep, CrashStep,
       RestartStep, RebuildStep DEF Run
  <2> QED  BY <2>1, <1>1 DEF Inv
<1> QED  BY <1>2, <1>3, <1>4 DEF Next

(***************************************************************************)
(* The theorems.                                                           *)
(***************************************************************************)

\* Every variable stays in its range: no key is past the events written, none of
\* the snapshots, copies and cursors is of an event that does not exist.
THEOREM TypesCorrect == Spec => []TypeOK
<1>1. Shape => TypeOK
  <2> SUFFICES ASSUME Shape PROVE TypeOK
    OBVIOUS
  <2>1. MaxKey \in Nat /\ Len(journal) <= MaxKey /\ Len(journal) \in Nat
    BY FollowerAssumption, Ranges DEF Shape, InBounds
  <2>2. Types /\ InBounds
    BY DEF Shape
  <2>3. \A x \in Nat : x <= Len(journal) => x \in Key
    BY <2>1 DEF Key
  <2>4. \A c \in Copies : (\A f \in Files : c[f] <= Len(journal)) => c \in [Files -> Key]
    BY <2>3 DEF Copies
  <2>5. snap \in [Files -> Key] /\ fresh \in [Files -> Key] /\ metas \in [Files -> Key]
    BY <2>2, <2>4 DEF Types, InBounds
  <2>6. \A p \in PointerShape : p.last <= Len(journal) => p \in Pointer
    BY <2>3 DEF PointerShape, Pointer
  <2>7. {pointer, served, target} \subseteq Pointer
    BY <2>2, <2>6 DEF Types, InBounds
  <2>8. last \in Key /\ batch \in Key
    BY <2>2, <2>3 DEF Types, InBounds
  <2>9. disk \in [ok : BOOLEAN, last : Key, gen : Nat, synced : BOOLEAN]
    BY <2>2, <2>3 DEF Types, InBounds
  <2> QED  BY <2>2, <2>5, <2>7, <2>8, <2>9 DEF Types, TypeOK
<1>2. Init => Shape
  BY ShapeInit
<1>3. Shape /\ [Next]_vars => Shape'
  BY ShapeStep
<1> QED  BY <1>1, <1>2, <1>3, PTL DEF Spec

\* The history of the pointer has an entry for every generation it goes back
\* over, the newest that of the pointer, and stays within its bounds: whatever
\* the indexer loses and whichever publication fails (drive/snapshot
\* appendHistory and trimHistory, over the pointer in the bucket).
THEOREM HistoryAlwaysUnbroken == Spec => []HistoryUnbroken
<1>1. Shape => HistoryUnbroken
  <2> SUFFICES ASSUME Shape, pointer.gen # 0 PROVE HistoryUnbroken
    BY DEF HistoryUnbroken
  <2> DEFINE h == pointer.history
  <2>1. Chained(pointer) /\ h \in Seq(Change) /\ Len(h) \in Nat
    BY LenProperties DEF Shape, Types, PointerShape
  <2>2. Len(h) \in 1..MaxHistory
    <3>1. Len(h) # 0 /\ Len(h) <= MaxHistory
      BY <2>1 DEF Chained
    <3> QED  BY <2>1, <3>1, FollowerAssumption
  <2> QED  BY <2>1, <2>2 DEF HistoryUnbroken, Chained
<1>2. Init => Shape
  BY ShapeInit
<1>3. Shape /\ [Next]_vars => Shape'
  BY ShapeStep
<1> QED  BY <1>1, <1>2, <1>3, PTL DEF Spec

\* The meta cache of a server has every state up to the key of the pointer it
\* serves: over generations it skipped, refreshes that failed half way, restarts
\* of either process and publications stored but reported failed, as long as
\* the rebuilds find whole snapshots (follower.go Refresh and ChangesSince,
\* indexer.go markUnpublished and publishPendingLocked).
THEOREM CacheAlwaysCovers ==
  Spec /\ [][RebuildsWhole]_vars => []CacheCoversPointer
<1>1. Inv => CacheCoversPointer
  <2> SUFFICES ASSUME Inv, served.gen # 0, NEW f \in Files
               PROVE  metas[f] >= StateAt(f, served.last)
    BY DEF CacheCoversPointer
  <2>1. Shape /\ Has(journal, metas, served.last)
    BY DEF Inv, FollowerInv
  <2>2. metas[f] \in Nat /\ served.last \in Nat
    BY <2>1, Ranges
  <2>3. /\ StateAt(f, served.last) \in 0..served.last
        /\ StateAt(f, served.last) # 0 => journal[StateAt(f, served.last)] = f
    BY <2>2, StateAtIs
  <2>4. CASE StateAt(f, served.last) = 0
    BY <2>2, <2>4
  <2>5. CASE StateAt(f, served.last) # 0
    <3>1. StateAt(f, served.last) \in 1..served.last
      BY <2>2, <2>3, <2>5
    <3>2. StateAt(f, served.last) <= metas[f]
      BY <2>1, <2>3, <2>5, <3>1 DEF Has
    <3> QED  BY <2>2, <2>3, <3>2
  <2> QED  BY <2>4, <2>5
<1>2. Init => Inv
  BY InvInit
<1>3. Inv /\ [Next]_vars /\ [RebuildsWhole]_vars => Inv'
  <2>1. Inv /\ [Next]_vars /\ RebuildsWhole => Inv'
    BY InvStep
  <2>2. Inv /\ UNCHANGED vars => Inv'
    <3> SUFFICES ASSUME Inv, UNCHANGED vars PROVE Inv'
      OBVIOUS
    <3>1. Shape'
      BY ShapeStep DEF Inv
    <3> QED  BY <3>1 DEF Inv, vars, bucketVars, indexerVars, followerVars,
                         DiskInv, ProcessInv, FollowerInv
  <2> QED  BY <2>1, <2>2
<1> QED  BY <1>1, <1>2, <1>3, PTL DEF Spec

\* No reindex is asked for, and no crash takes the disk.
KeepsDisk == ~Rebuild /\ (disk.ok => disk'.ok)

\* While the indexer keeps its local directory, whatever else fails, nothing has
\* to be assumed of the snapshots: the one rebuild is that of the first start,
\* which finds none.
THEOREM CacheCoversWithDisk ==
  Spec /\ [][KeepsDisk]_vars => []CacheCoversPointer
<1> DEFINE FirstStart == ~disk.ok => ipc = "down" /\ snap = None
<1>1. Init => Shape /\ FirstStart
  <2>1. Init => FirstStart
    BY DEF Init
  <2> QED  BY <2>1, ShapeInit
<1>2. Shape /\ FirstStart /\ [Next]_vars /\ [KeepsDisk]_vars => Shape' /\ FirstStart'
  <2> SUFFICES ASSUME Shape, FirstStart, [Next]_vars, [KeepsDisk]_vars
               PROVE  Shape' /\ FirstStart'
    OBVIOUS
  <2>1. Shape'
    BY ShapeStep
  <2>2. disk.ok => disk'.ok
    BY DEF KeepsDisk, vars, indexerVars
  <2>3. CASE Restart
    <3>1. disk'.ok
      <4>1. CASE pointer.gen # 0 /\ (~disk.ok \/ disk.gen # pointer.gen)
        BY <2>3, <4>1 DEF Restart
      <4>2. CASE ~(pointer.gen # 0 /\ (~disk.ok \/ disk.gen # pointer.gen)) /\ ~disk.ok
        BY <2>3, <4>2 DEF Restart, Rebuilt
      <4>3. CASE disk.ok
        BY <2>2, <4>3
      <4> QED  BY <4>1, <4>2, <4>3
    <3> QED  BY <2>1, <3>1
  <2>4. CASE ~disk.ok /\ ~Restart
    <3>1. ipc = "down" /\ snap = None
      BY <2>4
    <3>2. UNCHANGED <<ipc, snap>>
      BY <2>4, <3>1
         DEF Next, Run, Refresh, AppendEvent, Fold, WriteSnapshot, SaveKey, Publish, Crash,
             Rebuild, ReadPointer, ReadSnapshot, FinishRefresh, RestartFollower,
             vars, bucketVars, indexerVars, followerVars
    <3> QED  BY <2>1, <3>1, <3>2
  <2> QED  BY <2>1, <2>2, <2>3, <2>4
<1>3. Shape /\ FirstStart /\ [Next]_vars /\ [KeepsDisk]_vars => [RebuildsWhole]_vars
  <2> SUFFICES ASSUME Shape, FirstStart, KeepsDisk, ipc = "down", ~disk.ok PROVE Whole
    BY DEF KeepsDisk, RebuildsWhole
  <2>1. snap = None
    OBVIOUS
  <2>2. \A f \in Files : snap[f] = 0 /\ StateAt(f, 0) = 0
    BY <2>1, StateAtIs DEF None
  <2> QED  BY <2>2 DEF Whole
<1> HIDE DEF FirstStart
<1>4. Spec /\ [][KeepsDisk]_vars => [][RebuildsWhole]_vars
  BY <1>1, <1>2, <1>3, PTL DEF Spec
<1> QED  BY <1>4, CacheAlwaysCovers, PTL

================================================================================
