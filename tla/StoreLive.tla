------------------------------ MODULE StoreLive ------------------------------
(***************************************************************************)
(* What must eventually happen in the store.  Clients may stop at any time *)
(* and owe no request; the tasks of the process are fair: the transaction  *)
(* that has the lock goes on, the lock is handed out in turn, the loops    *)
(* claim, the reaper and the clock go on.  Faults come, but not for ever.  *)
(*                                                                         *)
(* Time has no end here.  Past MaxTime the clock stays and the leases and  *)
(* the execute jobs come one tick nearer instead: every comparison comes   *)
(* out as if the clock had gone on, for deadlines that have passed by      *)
(* MaxTime and for deadlines that never come.                              *)
(***************************************************************************)
EXTENDS Store

CONSTANT
    Far             \* a deadline from here on never comes

ASSUME LiveAssumption ==
    /\ Far \in Nat /\ Far > MaxTime
    /\ \A p \in Id : \A data \in Creations[p] :
          data.timeoutAt <= MaxTime \/ data.timeoutAt >= Far

LaterTick ==
    /\ now = MaxTime
    /\ jobs' = [j \in Job |->
                  IF /\ jobs[j].state = "claimed" \/ j[1] = "execute"
                     /\ jobs[j].at > 0
                  THEN [jobs[j] EXCEPT !.at = @ - 1] ELSE jobs[j]]
    /\ UNCHANGED <<now, promise, task, held, txnVars, loops, owed>>

\* The work of loop l that waits for nothing, and the work that needs the lock.
\* The lock is a fair mutex, so whoever asks for it again and again gets it.
LoopFree(l) == LoopEmit(l) \/ WorkerNack(l) \/ \E job \in Job : LoopClaim(l, job)

LoopLocked(l) == DeliverUnblock(l) \/ DeliverExecute(l) \/ FirePromiseTimeout(l)

Fairness ==
    /\ WF_vars(TxnStep) /\ WF_vars(Tick) /\ WF_vars(LaterTick)
    /\ \A job \in Job : WF_vars(Reap(job))
    /\ \A l \in Loop : WF_vars(LoopFree(l)) /\ SF_vars(LoopLocked(l))

\* From some time on, what looks like a fault is an ordinary step.
FaultsEnd == <>[][FaultStep => StoreStep]_vars

LiveSpec == Init /\ [][Next \/ LaterTick]_vars /\ Fairness /\ FaultsEnd

-----------------------------------------------------------------------------
\* The delivery of the task is committed: its claim is to be held and its execute
\* message to be sent.
Delivering(t) == lock = "finish" /\ after.op = "hold" /\ after.task = t

\* No task is stranded: one that is pending, acquired or suspended is delivered
\* again or ends.  No fault, lost claim or holder that falls silent leaves it
\* without a message to come, and nothing it awaits passes it by.
NoTaskIsStranded ==
    \A t \in Id : task[t].state \in {"pending", "acquired", "suspended"} ~>
                     \/ Delivering(t)
                     \/ task[t].state \in {"halted", "fulfilled"}

\* An awaitable promise settles at its deadline, whoever forgets about it.
DeadlineComes ==
    \A p \in Id :
        /\ IsPending(promise[p]) /\ promise[p].timeoutAt < Far
        /\ IsExternal(promise[p].tags)
        ~> ~IsPending(promise[p])

\* Every registered listener is told.
ListenerIsTold ==
    \A p \in Id, a \in Address : <<p, a>> \in owed ~> <<p, a>> \notin owed
=============================================================================
