---------------------------- MODULE PublishedIndex ----------------------------
(***************************************************************************)
(* What the rest of the Drive may rely on about the published index: it is *)
(* a register, replaced as a whole, one generation at a time, whose every  *)
(* value holds for each file the state of the journal at the key stored    *)
(* with it, or a later one.  A server that overlays the events after that  *)
(* key on a value of the register therefore shows every event.             *)
(***************************************************************************)
EXTENDS DriveJournal

VARIABLES
    journal,        \* key -> event
    generation,     \* 0 until the first publication
    last,           \* the journal key the value covers
    docs            \* the documents

vars == <<journal, generation, last, docs>>

Init ==
    /\ journal = [k \in Keys |-> NoEvent]
    /\ generation = 0 /\ last = 0 /\ docs = [f \in Files |-> 0]

\* A server appends an event after everything that has landed.
Land ==
    /\ \E k \in Keys, e \in Event :
         /\ After(journal, k) = {} /\ k \notin Landed(journal)
         /\ journal' = [journal EXCEPT ![k] = e]
    /\ UNCHANGED <<generation, last, docs>>

\* The indexer replaces the value.  Documents may be ahead of the key, after a
\* run that committed and then failed, but they never miss an event before it.
Publish ==
    /\ generation' = generation + 1
    /\ last' \in Landed(journal) \cup {0}
    /\ docs' \in [Files -> Keys \cup {0}]
    /\ \A f \in Files : docs'[f] \in DocsSince(journal, f, last')
    /\ UNCHANGED journal

Next == Land \/ Publish

Spec == Init /\ [][Next]_vars

===============================================================================
