------------------------------- MODULE Network -------------------------------
(***************************************************************************)
(* The life of networks and of their store (src/network.rs, src/store.rs): *)
(* start spawns a delivery loop for each address of the network, stop ends *)
(* the loops and forgets the callbacks, and the store closes the queue     *)
(* when nothing uses it any more.  Calls of start and stop are made by     *)
(* tasks of the application and interleave at their awaits.  The loops     *)
(* share the store's lock with requests and with the timers.               *)
(*                                                                         *)
(* Of the messages there are only the unblock messages, which are          *)
(* acknowledged as they are delivered.  What delivery does to tasks is in  *)
(* Store.                                                                  *)
(***************************************************************************)
EXTENDS Integers, Sequences

CONSTANTS
    Net,            \* networks
    Unicast,        \* the unicast address of each network
    Anycast,        \* the anycast address of each network, of its group
    Caller,         \* tasks of the application
    LoopId,         \* tells the delivery loops apart, and bounds the starts
    Job,            \* unblock messages
    AddressOf,      \* the address of each message
    MaxFaults,      \* bound on the failed claims and deliveries and lost leases
    RegistersFirst, \* the application starts only networks with a callback
    None

ASSUME NetworkAssumption ==
    /\ LoopId \subseteq Nat
    /\ None \notin LoopId /\ None \notin Job /\ None \notin Net
    /\ \A n \in Net : Unicast[n] # Anycast[n]
    /\ MaxFaults \in Nat
    /\ RegistersFirst \in BOOLEAN

VARIABLES
    alive,          \* the networks that were built and not dropped
    callbacks,      \* how many callbacks each network has
    workers,        \* the handles of its loops, behind the network's mutex
    caller,         \* the calls in progress
    loop,           \* the delivery loops
    job,            \* the messages in the queue
    seen,           \* the messages that were passed to a callback
    store,          \* the store: "open", "closing" or "closed"; or its queue stays
                    \* open for a network ("running") or the application ("shared")
    lock,           \* who has the store's lock: "loop", "request", "timer", or "free"
    faults          \* the faults so far

vars == <<alive, callbacks, workers, caller, loop, job, seen, store, lock, faults>>

\* A task that is not in a call.  One that stops a network has handles left to
\* shut down; one whose request is applied has the store's lock.
NoCall == [pc |-> "idle", net |-> None, left |-> <<>>]

NoLoop == [pc |-> "none", net |-> None, address |-> None, job |-> None,
           cancelled |-> FALSE]

Init ==
    /\ alive = {}
    /\ callbacks = [n \in Net |-> 0]
    /\ workers = [n \in Net |-> <<>>]
    /\ caller = [c \in Caller |-> NoCall]
    /\ loop = [l \in LoopId |-> NoLoop]
    /\ job = [j \in Job |-> [state |-> "waiting", by |-> None]]
    /\ seen = {}
    /\ store = "open"
    /\ lock = "free"
    /\ faults = 0

-----------------------------------------------------------------------------
(* Networks                                                                *)

Build(n) ==
    /\ store = "open" /\ n \notin alive
    /\ alive' = alive \cup {n}
    /\ UNCHANGED <<callbacks, workers, caller, loop, job, seen, store, lock, faults>>

InCall(n) == \E c \in Caller : caller[c].net = n

\* The application drops a network it has stopped.
Drop(n) ==
    /\ n \in alive /\ workers[n] = <<>> /\ ~InCall(n)
    /\ alive' = alive \ {n}
    /\ callbacks' = [callbacks EXCEPT ![n] = 0]
    /\ UNCHANGED <<workers, caller, loop, job, seen, store, lock, faults>>

\* One callback is enough to tell a network that has some from one without.
Recv(c, n) ==
    /\ caller[c].pc = "idle" /\ n \in alive /\ callbacks[n] = 0
    /\ callbacks' = [callbacks EXCEPT ![n] = 1]
    /\ UNCHANGED <<alive, workers, caller, loop, job, seen, store, lock, faults>>

\* Pairs of loops that were never started, each named by its first.
Unused == {l \in LoopId : {l, l + 1} \subseteq {i \in LoopId : loop[i].pc = "none"}}

NewLoop(n, address) ==
    [NoLoop EXCEPT !.pc = "claiming", !.net = n, !.address = address]

\* A network that has workers is not started again, not even when they have ended.
Start(c, n) ==
    /\ caller[c].pc = "idle" /\ n \in alive /\ (RegistersFirst => callbacks[n] > 0)
    /\ workers[n] = <<>> /\ Unused # {}
    /\ LET l == CHOOSE i \in Unused : TRUE
       IN  /\ loop' = [loop EXCEPT ![l] = NewLoop(n, Unicast[n]),
                                   ![l + 1] = NewLoop(n, Anycast[n])]
           /\ workers' = [workers EXCEPT ![n] = <<l, l + 1>>]
    /\ UNCHANGED <<alive, callbacks, caller, job, seen, store, lock, faults>>

\* Mutant: the handles are copied and not taken.
StopCopies(c, n) ==
    /\ caller[c].pc = "idle" /\ n \in alive
    /\ caller' = [caller EXCEPT ![c] = [pc |-> "stopping", net |-> n,
                                        left |-> workers[n]]]
    /\ UNCHANGED <<alive, callbacks, workers, loop, job, seen, store, lock, faults>>

\* Take the handles; the mutex is released before they are shut down.
StopTakes(c, n) ==
    /\ caller[c].pc = "idle" /\ n \in alive
    /\ caller' = [caller EXCEPT ![c] = [pc |-> "stopping", net |-> n,
                                        left |-> workers[n]]]
    /\ workers' = [workers EXCEPT ![n] = <<>>]
    /\ UNCHANGED <<alive, callbacks, loop, job, seen, store, lock, faults>>

\* Ask the next loop to end.
StopCancels(c) ==
    /\ caller[c].pc = "stopping" /\ caller[c].left # <<>>
    /\ ~loop[Head(caller[c].left)].cancelled
    /\ loop' = [loop EXCEPT ![Head(caller[c].left)].cancelled = TRUE]
    /\ UNCHANGED <<alive, callbacks, workers, caller, job, seen, store, lock, faults>>

\* Mutant: stop does not wait for the loop.
StopGoesOn(c) ==
    /\ caller[c].pc = "stopping" /\ caller[c].left # <<>>
    /\ loop[Head(caller[c].left)].cancelled
    /\ caller' = [caller EXCEPT ![c].left = Tail(@)]
    /\ UNCHANGED <<alive, callbacks, workers, loop, job, seen, store, lock, faults>>

\* Wait until it has.
StopJoins(c) ==
    /\ caller[c].pc = "stopping" /\ caller[c].left # <<>>
    /\ loop[Head(caller[c].left)].cancelled
    /\ loop[Head(caller[c].left)].pc \in {"ended", "failed"}
    /\ caller' = [caller EXCEPT ![c].left = Tail(@)]
    /\ UNCHANGED <<alive, callbacks, workers, loop, job, seen, store, lock, faults>>

StopClears(c) ==
    /\ caller[c].pc = "stopping" /\ caller[c].left = <<>>
    /\ callbacks' = [callbacks EXCEPT ![caller[c].net] = 0]
    /\ caller' = [caller EXCEPT ![c] = NoCall]
    /\ UNCHANGED <<alive, workers, loop, job, seen, store, lock, faults>>

\* A request of the network has the store's lock while it is applied.
SendLocks(c, n) ==
    /\ caller[c].pc = "idle" /\ n \in alive /\ lock = "free"
    /\ caller' = [caller EXCEPT ![c] = [pc |-> "sending", net |-> n, left |-> <<>>]]
    /\ lock' = "request"
    /\ UNCHANGED <<alive, callbacks, workers, loop, job, seen, store, faults>>

SendReturns(c) ==
    /\ caller[c].pc = "sending"
    /\ caller' = [caller EXCEPT ![c] = NoCall]
    /\ lock' = "free"
    /\ UNCHANGED <<alive, callbacks, workers, loop, job, seen, store, faults>>

-----------------------------------------------------------------------------
(* Delivery loops                                                          *)

Idle(l) == loop[l].pc = "claiming"

\* Mutant: both loops of a network claim from the unicast queue.
LoopClaimsUnicast(l, j) ==
    /\ Idle(l) /\ ~loop[l].cancelled /\ store # "closed"
    /\ job[j].state = "waiting" /\ AddressOf[j] = Unicast[loop[l].net]
    /\ job' = [job EXCEPT ![j] = [state |-> "claimed", by |-> l]]
    /\ loop' = [loop EXCEPT ![l].pc = "waiting", ![l].job = j]
    /\ UNCHANGED <<alive, callbacks, workers, caller, seen, store, lock, faults>>

LoopClaims(l, j) ==
    /\ Idle(l) /\ ~loop[l].cancelled /\ store # "closed"
    /\ job[j].state = "waiting" /\ AddressOf[j] = loop[l].address
    /\ job' = [job EXCEPT ![j] = [state |-> "claimed", by |-> l]]
    /\ loop' = [loop EXCEPT ![l].pc = "waiting", ![l].job = j]
    /\ UNCHANGED <<alive, callbacks, workers, caller, seen, store, lock, faults>>

\* A claim fails, as every claim on a closed queue does, and the loop ends; its
\* handle stays with the network.
LoopClaimFails(l) ==
    /\ Idle(l) /\ ~loop[l].cancelled
    /\ IF store = "closed" THEN UNCHANGED faults
       ELSE faults < MaxFaults /\ faults' = faults + 1
    /\ loop' = [loop EXCEPT ![l].pc = "failed"]
    /\ UNCHANGED <<alive, callbacks, workers, caller, job, seen, store, lock>>

\* Mutant: a loop learns that it shall end when a message comes.
LoopEndsLate(l) ==
    /\ Idle(l) /\ loop[l].cancelled
    /\ \E j \in Job : job[j].state = "waiting" /\ AddressOf[j] = loop[l].address
    /\ loop' = [loop EXCEPT ![l].pc = "ended"]
    /\ UNCHANGED <<alive, callbacks, workers, caller, job, seen, store, lock, faults>>

\* A loop that is asked to end does so between two deliveries.
LoopEnds(l) ==
    /\ Idle(l) /\ loop[l].cancelled
    /\ loop' = [loop EXCEPT ![l].pc = "ended"]
    /\ UNCHANGED <<alive, callbacks, workers, caller, job, seen, store, lock, faults>>

\* It drops the claim it was waiting for, which may have been made.
LoopDropsClaim(l, j) ==
    /\ Idle(l) /\ loop[l].cancelled
    /\ job[j].state = "waiting" /\ AddressOf[j] = loop[l].address
    /\ job' = [job EXCEPT ![j] = [state |-> "claimed", by |-> None]]
    /\ loop' = [loop EXCEPT ![l].pc = "ended"]
    /\ UNCHANGED <<alive, callbacks, workers, caller, seen, store, lock, faults>>

\* It waits for the store's lock.
LoopLocks(l) ==
    /\ loop[l].pc = "waiting" /\ lock = "free"
    /\ loop' = [loop EXCEPT ![l].pc = "delivering"]
    /\ lock' = "loop"
    /\ UNCHANGED <<alive, callbacks, workers, caller, job, seen, store, faults>>

\* The message is acknowledged and given to the loop.  A claim whose lease has
\* ended acknowledges nothing, and the loop has the message all the same.
LoopDelivers(l) ==
    LET j == loop[l].job
    IN  /\ loop[l].pc = "delivering"
        /\ job' = IF job[j] = [state |-> "claimed", by |-> l]
                  THEN [job EXCEPT ![j].state = "delivered"] ELSE job
        /\ loop' = [loop EXCEPT ![l].pc = "calling"]
        /\ lock' = "free"
        /\ UNCHANGED <<alive, callbacks, workers, caller, seen, store, faults>>

\* The delivery is not committed; the claim stays until its lease ends.
LoopDeliveryFails(l) ==
    /\ loop[l].pc = "delivering"
    /\ faults < MaxFaults /\ faults' = faults + 1
    /\ job' = [job EXCEPT ![loop[l].job] = IF @.by = l /\ @.state = "claimed"
                                           THEN [@ EXCEPT !.by = None] ELSE @]
    /\ loop' = [loop EXCEPT ![l].pc = "claiming", ![l].job = None]
    /\ lock' = "free"
    /\ UNCHANGED <<alive, callbacks, workers, caller, seen, store>>

\* Every callback the network has gets the message.
LoopCalls(l) ==
    /\ loop[l].pc = "calling"
    /\ seen' = IF callbacks[loop[l].net] > 0 THEN seen \cup {loop[l].job} ELSE seen
    /\ loop' = [loop EXCEPT ![l].pc = "claiming", ![l].job = None]
    /\ UNCHANGED <<alive, callbacks, workers, caller, job, store, lock, faults>>

\* The lease of a claim that nobody holds ends.
Reap(j) ==
    /\ job[j] = [state |-> "claimed", by |-> None] /\ store # "closed"
    /\ job' = [job EXCEPT ![j] = [state |-> "waiting", by |-> None]]
    /\ UNCHANGED <<alive, callbacks, workers, caller, loop, seen, store, lock, faults>>

\* The lease of a claim ends although a loop holds it.
LeaseEnds(j) ==
    /\ job[j].state = "claimed" /\ job[j].by # None /\ store # "closed"
    /\ faults < MaxFaults /\ faults' = faults + 1
    /\ job' = [job EXCEPT ![j] = [state |-> "waiting", by |-> None]]
    /\ UNCHANGED <<alive, callbacks, workers, caller, loop, seen, store, lock>>

-----------------------------------------------------------------------------
(* The store                                                               *)

\* A timer has the store's lock while it fires.
TimerLocks ==
    /\ store \in {"open", "closing"} /\ lock = "free"
    /\ lock' = "timer"
    /\ UNCHANGED <<alive, callbacks, workers, caller, loop, job, seen, store, faults>>

TimerFires ==
    /\ lock = "timer" /\ lock' = "free"
    /\ UNCHANGED <<alive, callbacks, workers, caller, loop, job, seen, store, faults>>

\* The store asks its timers to end, which have the store's state until then.
CloseBegins ==
    /\ store = "open" /\ store' = "closing"
    /\ UNCHANGED <<alive, callbacks, workers, caller, loop, job, seen, lock, faults>>

Running(l) == loop[l].pc \in {"claiming", "waiting", "delivering", "calling"}

\* The networks and the loops that run have the store's state as well.
SharedIsUsed == alive # {} \/ \E l \in LoopId : Running(l)

\* Leave the queue open when the store's state is shared, or when the application
\* has the queue too; close it otherwise.
CloseEnds ==
    /\ store = "closing" /\ lock # "timer"
    /\ store' \in IF SharedIsUsed THEN {"running"} ELSE {"closed", "shared"}
    /\ UNCHANGED <<alive, callbacks, workers, caller, loop, job, seen, lock, faults>>

-----------------------------------------------------------------------------
LoopStep(l) ==
    \/ LoopEnds(l) \/ LoopDelivers(l) \/ LoopCalls(l)
    \/ \E j \in Job : LoopClaims(l, j) \/ LoopDropsClaim(l, j)

StopStep(c) == StopCancels(c) \/ StopJoins(c) \/ StopClears(c)

Next ==
    \/ \E n \in Net : Build(n) \/ Drop(n)
    \/ \E c \in Caller, n \in Net : Recv(c, n) \/ Start(c, n) \/ StopTakes(c, n)
                                     \/ SendLocks(c, n)
    \/ \E c \in Caller : StopStep(c) \/ SendReturns(c)
    \/ \E l \in LoopId : LoopStep(l) \/ LoopLocks(l) \/ LoopClaimFails(l)
                         \/ LoopDeliveryFails(l)
    \/ \E j \in Job : Reap(j) \/ LeaseEnds(j)
    \/ TimerLocks \/ TimerFires \/ CloseBegins \/ CloseEnds

\* Calls, loops and the reaper go on, and a claim that is waited for is made.
\* Requests and timers give the store's lock back, and it is fair: a loop that
\* waits for it gets it, however often the others take it.
Fairness ==
    /\ \A c \in Caller : WF_vars(StopStep(c)) /\ WF_vars(SendReturns(c))
    /\ \A l \in LoopId : WF_vars(LoopStep(l)) /\ SF_vars(LoopLocks(l))
    /\ \A j \in Job : WF_vars(Reap(j))
    /\ WF_vars(TimerFires)

Spec == Init /\ [][Next]_vars /\ Fairness

-----------------------------------------------------------------------------
\* Every loop that runs is one that a stop can end or is ending: none is left
\* behind when starts and stops interleave, so a stopped network calls nobody.
NoLoopIsLeftBehind ==
    \A l \in LoopId : Running(l) =>
        \/ \E m \in DOMAIN workers[loop[l].net] : workers[loop[l].net][m] = l
        \/ \E c \in Caller : \E m \in DOMAIN caller[c].left : caller[c].left[m] = l

\* A loop of the network at the address, which nobody has asked to end.  It runs
\* unless its claim failed.
LoopServes(l, n, a) ==
    /\ loop[l].net = n /\ loop[l].address = a
    /\ ~loop[l].cancelled
    /\ Running(l) \/ loop[l].pc = "failed"

\* A network that has handles, and that start therefore takes for started, has a
\* loop for each of its addresses: a stop that is still in progress ends the loops
\* it took and none that a later start spawned.  Only a failed claim can leave an
\* address without one.
StartedIsServed ==
    \A n \in Net : workers[n] # <<>> =>
        /\ n \in alive
        /\ \A a \in {Unicast[n], Anycast[n]} :
              \E m \in DOMAIN workers[n] : LoopServes(workers[n][m], n, a)

\* Store::close (src/store.rs): the queue "closes only when no network created by
\* this store is alive, and stays open otherwise".  The networks alone decide: no
\* loop keeps the store's state when the network that spawned it was stopped and
\* dropped, however starts, stops and the end of the loops interleaved, so the
\* store is never left open for a network that is gone.
ClosesUnlessAlive ==
    [][store = "closing" /\ store' # "closing" => (store' = "running" <=> alive # {})]_vars

\* src/network.rs: the store's messages "are delivered to the callback registered
\* with [recv] while the network is started".  A message that was acknowledged,
\* and is not in the hands of a loop, was passed to a callback.
DeliveredIsSeen ==
    \A j \in Job : job[j].state = "delivered" =>
        \/ j \in seen
        \/ \E l \in LoopId : loop[l].pc = "calling" /\ loop[l].job = j

\* A stop returns, whatever its loops were doing: one that waits for the store's
\* lock gets it, delivers and ends.
StopReturns == \A c \in Caller : caller[c].pc = "stopping" ~> caller[c].pc = "idle"

\* The network serves the address with a loop.
Serves(a) == \E l \in LoopId : /\ Running(l) /\ ~loop[l].cancelled
                               /\ loop[l].address = a

\* A message that waits at an address that some loop serves is delivered, or no
\* loop serves the address any more: it is not lost in a claim that was dropped or
\* failed.
MessageArrives ==
    \A j \in Job : Serves(AddressOf[j]) ~>
        job[j].state = "delivered" \/ ~Serves(AddressOf[j])
=============================================================================
