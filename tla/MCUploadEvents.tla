---------------------------- MODULE MCUploadEvents ----------------------------
(* Instances of UploadEvents for TLC: an upload is followed by a watching    *)
(* socket or by a waiting backend.  They do not affect each other.           *)
EXTENDS UploadEvents, TLC

VARIABLE follower

Asks(thumb, text, doc) == "thumb" :> thumb @@ "text" :> text @@ "doc" :> doc
Setup(doc, upfront, mode) == [doc |-> doc, upfront |-> upfront, mode |-> mode]

\* What a socket watches: each kind of task once in line and once as a goroutine.
Watched ==
    {Setup("no", FALSE, Asks("sequential", "async", "async")),
     Setup("clear", FALSE, Asks("async", "sequential", "async"))}

\* What a backend waits for, protected and upfront conversions among it.
Awaitable ==
    {Setup("no", FALSE, Asks(thumb, text, "async")) :
        thumb \in {"sequential", "async"}, text \in {"sequential", "async"}}
    \cup {Setup("clear", FALSE, Asks("async", "sequential", "async")),
          Setup("clear", FALSE, Asks("off", "sequential", "sequential")),
          Setup("protected", FALSE, Asks("off", "off", "async")),
          Setup("clear", TRUE, Asks("off", "sequential", "sequential"))}
AllSetups == Watched \cup Awaitable

MCInit ==
    /\ Init
    /\ \/ follower = "socket" /\ setup \in Watched
       \/ follower = "backend" /\ setup \in Awaitable

Same == UNCHANGED follower
Asking1 ==
    follower = "socket" /\ Same
    /\ UNCHANGED <<setup, item, markers, stored, handler, task, waiter, lost, faults>>
Waiting1 ==
    follower = "backend" /\ Same
    /\ UNCHANGED <<setup, item, markers, stored, handler, task, socket, lost>>
Working == Same /\ UNCHANGED <<setup, item, markers, handler, socket, waiter, lost>>

\* The actions of UploadEvents one by one.
MCNext ==
    \/ Same /\ Accept
    \/ Same /\ PutMarker
    \/ Same /\ Spawn
    \/ Same /\ RunInline
    \/ Same /\ Answer
    \/ Working /\ ThumbWork
    \/ Working /\ TextWork
    \/ Working /\ DocWork
    \/ Working /\ DocFinish
    \/ Working /\ DocStore
    \/ Same /\ \E t \in Tasks : Update(t)
    \/ Same /\ \E t \in Tasks : Tell(t)
    \/ Same /\ \E t \in Tasks : Unmark(t)
    \/ Same /\ \E s \in Sockets : Deliver(s)
    \/ Asking1 /\ \E s \in Sockets : Watch(s)
    \/ Asking1 /\ \E s \in Sockets : Unwatch(s)
    \/ Asking1 /\ \E s \in Sockets : Ping(s)
    \/ Asking1 /\ \E s \in Sockets : Close(s)
    \/ Waiting1 /\ \E w \in Waiters : AwaitTasks(w)
    \/ Waiting1 /\ \E w \in Waiters : AwaitFacts(w)
    \/ Waiting1 /\ \E w \in Waiters : HeadMarker(w)
    \/ Waiting1 /\ \E w \in Waiters : RoundEnds(w)
    \/ Same /\ Crash

MCSpec == MCInit /\ [][MCNext]_<<vars, follower>> /\ Fairness
===============================================================================
