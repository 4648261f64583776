------------------------------ MODULE AccessLog ------------------------------
(***************************************************************************)
(* Recorded reads in WORM mode (drive/server access.go).  Before a byte    *)
(* leaves, the handler takes the time, then asks the access log, under its *)
(* mutex, whether this read (client, kind and object: a key) is new within *)
(* the window, and if so appends a file.accessed event to the journal.     *)
(* Requests may come to ask in another order than they took their times.   *)
(***************************************************************************)
EXTENDS Integers, FiniteSets

CONSTANTS
    Reads,          \* bound: requests
    Keys,           \* actor, client, kind and object of a read
    Window,         \* Config.AccessWindow, in ticks; 0 records every read
    MaxSeen,        \* entries from which expired ones are dropped
    MaxTime,        \* bound: the clock
    MaxFailures     \* bound: failed appends

AccessAssumption == {Window, MaxSeen, MaxTime, MaxFailures} \subseteq Nat

Never == -1

VARIABLES
    now,
    seen,           \* accessLog.seen: key -> time, Never when there is no entry
    read,           \* the requests
    events,         \* the journal: file.accessed events, with the request
    failures

vars == <<now, seen, read, events, failures>>

\* A request: the time it took, and what the properties ask of its turn at the
\* mutex: `found` is the answer, "recent" for a read within the window, "new" or,
\* when expired entries were dropped too, "full"; `after` are the requests that
\* had their turn before it.
NoRead == [pc |-> "new", key |-> CHOOSE k \in Keys : TRUE, at |-> 0, found |-> "nothing", after |-> {}]

Init ==
    /\ now = 0 /\ seen = [k \in Keys |-> Never]
    /\ read = [q \in Reads |-> NoRead]
    /\ events = {} /\ failures = 0

Tick == now < MaxTime /\ now' = now + 1 /\ UNCHANGED <<seen, read, events, failures>>

\* recordAccess takes the time and calls the log.
Begin(q) ==
    /\ read[q].pc = "new"
    /\ \E k \in Keys : read' = [read EXCEPT ![q].pc = "asking", ![q].key = k, ![q].at = now]
    /\ UNCHANGED <<now, seen, events, failures>>

\* An entry of k is within the window of a request that took the time t.
Fresh(k, t) == seen[k] # Never /\ t - seen[k] < Window

\* Variant: a full log is emptied.
Kept_None(k, t) == Never

\* What a full log keeps of an entry.
Kept(k, t) == IF Fresh(k, t) THEN seen[k] ELSE Never

Full == Cardinality({k \in Keys : seen[k] # Never}) > MaxSeen

\* The log after it has been told of a new read of k.
Remembered(k, t) ==
    [h \in Keys |-> IF h = k THEN t ELSE IF Full THEN Kept(h, t) ELSE seen[h]]

\* The requests that have had their turn.
HadTurn == {q \in Reads : read[q].found # "nothing"}

\* shouldRecord, under the mutex of the log: read[q].at may be older than an entry.
Ask(q) ==
    LET k == read[q].key
        t == read[q].at
        Turn(pc, found) ==
            read' = [read EXCEPT ![q].pc = pc, ![q].found = found, ![q].after = HadTurn]
    IN  /\ read[q].pc = "asking"
        /\ \/ /\ Window > 0 /\ Fresh(k, t)
              /\ Turn("served", "recent")
              /\ UNCHANGED seen
           \/ /\ Window = 0
              /\ Turn("append", "new")
              /\ UNCHANGED seen
           \/ /\ Window > 0 /\ ~Fresh(k, t)
              /\ Turn("append", IF Full THEN "full" ELSE "new")
              /\ seen' = Remembered(k, t)
        /\ UNCHANGED <<now, events, failures>>

Event(q) == [key |-> read[q].key, at |-> read[q].at, by |-> q]

\* Variant: a read is served although its event was not written.
Refused_Served == "served"

Refused == "failed"

\* Journal.Append; when it fails the answer is an error.
Record(q) ==
    /\ read[q].pc = "append"
    /\ \/ /\ events' = events \cup {Event(q)}
          /\ read' = [read EXCEPT ![q].pc = "served"]
          /\ UNCHANGED failures
       \/ /\ failures < MaxFailures /\ failures' = failures + 1
          /\ read' = [read EXCEPT ![q].pc = Refused]
          /\ events' \in {events, events \cup {Event(q)}}
    /\ UNCHANGED <<now, seen>>

Next == Tick \/ \E q \in Reads : Begin(q) \/ Ask(q) \/ Record(q)

Spec == Init /\ [][Next]_vars

(***************************************************************************)
(* Properties.                                                             *)
(***************************************************************************)
\* Every variable stays in its range.
TypeOK ==
    /\ now \in 0..MaxTime /\ seen \in [Keys -> -1..MaxTime]
    /\ read \in [Reads -> [pc : {"new", "asking", "append", "served", "failed"},
                           key : Keys, at : 0..MaxTime,
                           found : {"nothing", "recent", "new", "full"}, after : SUBSET Reads]]
    /\ events \subseteq [key : Keys, at : 0..MaxTime, by : Reads]
    /\ failures \in 0..MaxFailures

\* The log told p to record itself, before it was asked by q, which reads the
\* same within the window.
Opens(p, q) ==
    /\ p \in read[q].after /\ read[p].found \in {"new", "full"}
    /\ read[p].key = read[q].key /\ read[q].at - read[p].at < Window

\* An event tells of the read, its own or the one that opened the window.
Told(q) == \E e \in events : e.by = q \/ Opens(e.by, q)

\* What a served read without an event rests on: an append under way, or one that
\* failed.
Awaited(q) == \E p \in Reads : read[p].pc = "append" /\ Opens(p, q)
Missed(q) == \E p \in Reads : read[p].pc = "failed" /\ Opens(p, q)

\* A read is served without an event only in the window of a read whose event is
\* being written or was refused, whatever the requests ask first and however many
\* writes fail.  (The comment of recordAccess asks for the event before any byte:
\* the log remembers a read before its event is written and does not forget it when
\* the write fails, so the retry of a refused read is served with no event.)
EveryReadAccounted ==
    \A q \in Reads : read[q].pc = "served" => Told(q) \/ Awaited(q) \/ Missed(q)

\* A burst of reads of one object by one client is one event per window, however
\* the requests interleave between taking the time and asking: of two events of
\* one key the later asked a window after the earlier, by its own time or by that
\* of a request between them that found the log full and dropped what it could.
OneEventPerWindow ==
    \A e, d \in events :
        e.key = d.key /\ e.by \in read[d.by].after =>
            \/ d.at - e.at >= Window
            \/ Window = 0
            \/ \E r \in read[d.by].after :
                   /\ e.by \in read[r].after /\ read[r].found = "full"
                   /\ read[r].at - e.at >= Window

===============================================================================
