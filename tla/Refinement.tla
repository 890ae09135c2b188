------------------------------ MODULE Refinement -----------------------------
(***************************************************************************)
(* The store implements the protocol: its committed records change only by *)
(* the protocol's steps, whatever the queue, the lease holders, the        *)
(* loops and the faults do.                                                *)
(***************************************************************************)
EXTENDS Store

Overdue == {p \in Id : promise[p].state # "absent" /\ now >= promise[p].timeoutAt}

Abstract == INSTANCE Protocol WITH
                promises <- promise,
                tasks    <- [t \in Id |-> TaskRecord(task[t])],
                overdue  <- Overdue

\* Every commit is one legal transaction of the protocol on the records that were
\* committed before it, and nothing but a commit changes what a client sees.
ImplementsProtocol == Abstract!Spec

-----------------------------------------------------------------------------
(* The inductive invariant behind the refinement                           *)

\* The committed records: promise and task agree, only an acquired task has a
\* holder, only tasks are registered, and a task that sleeps will be woken.
RecordsOK ==
    /\ FulfilledIffSettled
    /\ ResumesAreSettled
    /\ SuspendedIsAwaited
    /\ \A t \in Id : /\ task[t].state # "acquired" => task[t].pid = None
                     /\ task[t].state = "absent" => task[t] = NoTask
    /\ \A p, t \in Id : t \in promise[p].callbacks => task[t].state # "absent"

\* The view's task t is a legal step from the committed one.
LegalTask(v, t) ==
    /\ Abstract!TaskStep(t, task[t], v.task[t], promise, v.promise, t \in Overdue)
    /\ v.task[t].state = "absent" => v.task[t] = NoTask
    /\ \A p \in Id : t \in v.promise[p].callbacks => v.task[t].state # "absent"

\* View v is a legal transaction of the protocol on the committed records.
Legal(v) ==
    /\ \A p \in Id : Abstract!PromiseStep(promise[p], v.promise[p])
    /\ \A t \in Id : LegalTask(v, t)

\* Whatever is left to commit is legal, at any time until its commit.
ProtocolInv == RecordsOK /\ (lock = "commit" => Legal(view))
=============================================================================
