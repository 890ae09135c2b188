--------------------------- MODULE SchedulesProofs ---------------------------
(***************************************************************************)
(* Schedules: no schedule falls silent, no firing is skipped, early or     *)
(* past its own deadline.  The worker's timer stays in the queue until the *)
(* worker settles it, and a timer that was fired is not the one its        *)
(* schedule waits for, nor becomes it when the schedule is created anew:   *)
(* its time has come, and a new schedule starts after the present.  This   *)
(* is the strengthening ScheduleInv.                                       *)
(***************************************************************************)
EXTENDS Schedules, KernelProofs, WellFoundedInduction

\* A timer of a schedule that exists names its next firing, which has not ended it.
Awaited(k) ==
    LET s == timer[k].id
    IN  schedule[s] # None /\ schedule[s].nextRunAt = timer[k].at /\ ~HasEnded(s)

\* The timer the worker has is in the queue, its time has come, and once it was
\* fired no schedule waits for it.
WorkerOK ==
    worker.pc # "idle" =>
        /\ worker.slot \in Slot
        /\ timer[worker.slot].state # "none"
        /\ timer[worker.slot].at <= now
        /\ worker.pc = "fired" => ~Awaited(worker.slot)

\* A timer in the queue has a schedule id.
TimersOK == \A k \in Slot : timer[k].state # "none" => timer[k].id \in ScheduleId

\* A schedule is what a client asked for, and fires at times of its expression.
SchedulesOK ==
    \A s \in ScheduleId : schedule[s] # None =>
        /\ \E data \in ScheduleData :
              /\ schedule[s].cron = data.cron /\ schedule[s].template = data.template
              /\ schedule[s].tags = data.tags
        /\ schedule[s].nextRunAt \in schedule[s].cron

ScheduleInv ==
    TypeOK /\ WorkerOK /\ TimersOK /\ SchedulesOK /\ now <= MaxTime

-----------------------------------------------------------------------------
(* The next firing of an expression                                        *)

\* A set of times has a first one.
LEMMA FirstTime ==
    ASSUME NEW T \in SUBSET Nat, T # {} PROVE \E c \in T : \A d \in T : c <= d
<1> DEFINE R == OpToRel(<, Nat)
<1>1. IsWellFoundedOn(R, Nat)
  BY NatLessThanWellFounded
<1>2. \A a, b \in Nat : <<a, b>> \in R <=> a < b
  BY DEF OpToRel
<1> HIDE DEF R
<1>3. PICK x \in T : \A y \in T : <<y, x>> \notin R
  BY <1>1, WFMin
<1>4. \A y \in T : x <= y
  <2> TAKE y \in T
  <2>1. x \in Nat /\ y \in Nat
    OBVIOUS
  <2>2. ~(y < x)
    BY <1>2, <1>3, <2>1
  <2> QED BY <2>1, <2>2
<1> QED BY <1>4

\* next_after: the first time of the expression after the given one, if there is one.
LEMMA NextAfterFirst ==
    ASSUME NEW cron \in Cron, NEW after \in Nat
    PROVE  /\ NextAfter(cron, after) = None => \A c \in cron : c <= after
           /\ NextAfter(cron, after) # None =>
                /\ NextAfter(cron, after) \in cron /\ NextAfter(cron, after) \in Nat
                /\ NextAfter(cron, after) > after
                /\ \A c \in cron : c > after => NextAfter(cron, after) <= c
<1> DEFINE later == {c \in cron : c > after}
           first == CHOOSE c \in later : \A d \in later : c <= d
<1>1. later \in SUBSET Nat /\ cron \in SUBSET Nat
  BY DEF Cron
<1>2. CASE later = {}
  <2>1. NextAfter(cron, after) = None
    BY <1>2 DEF NextAfter
  <2>2. \A c \in cron : c <= after
    BY <1>1, <1>2
  <2> QED BY <2>1, <2>2
<1>3. CASE later # {}
  <2>1. NextAfter(cron, after) = first
    BY <1>3 DEF NextAfter
  <2>2. first \in later /\ \A d \in later : first <= d
    <3> HIDE DEF later
    <3>1. \E c \in later : \A d \in later : c <= d
      BY <1>1, <1>3, FirstTime
    <3> QED BY <3>1
  <2> HIDE DEF first
  <2>3. first \in Nat /\ first > after
    BY <1>1, <2>2
  <2>4. first # None
    BY <2>3, NoneAssumption
  <2> QED BY <2>1, <2>2, <2>3, <2>4
<1> QED BY <1>2, <1>3

\* The deadline of a firing is a time, and not before the firing.
LEMMA SaturatingAddBound ==
    ASSUME NEW a \in Nat, NEW b \in Nat
    PROVE  SaturatingAdd(a, b) \in Nat /\ (a <= MaxMillis => SaturatingAdd(a, b) >= a)
BY ScheduleAssumption DEF SaturatingAdd

-----------------------------------------------------------------------------
(* The effects of the steps                                                *)

\* One promise is created, with the deadline and the tags that are asked for.
Creates(p, data) ==
    /\ \A q \in Id : q # p => promise'[q] = promise[q]
    /\ promise'[p].state # "absent"
    /\ promise'[p].timeoutAt = data.timeoutAt /\ promise'[p].tags = data.tags

\* The record of a created promise.
LEMMA CreatedFields ==
    ASSUME NEW data, NEW n
    PROVE  /\ CreatedPromise(data, n).state # "absent"
           /\ CreatedPromise(data, n).timeoutAt = data.timeoutAt
           /\ CreatedPromise(data, n).tags = data.tags
BY DEF CreatedPromise, NoPromise, TimeoutState

\* To create a promise keeps the types and touches no other one.
LEMMA CreateEffect ==
    ASSUME TypeOK, NEW p \in Id, NEW data \in CreateData,
           Write(CreateDispatched(Records0, p, data, now))
    PROVE  /\ promise' \in [Id -> StoredPromise] /\ task' \in [Id -> StoredTask]
           /\ enqueued' \subseteq EnqueueRequest
           /\ Creates(p, data)
<1> DEFINE v == CreateDispatched(Records0, p, data, now)
<1>1. Records0 \in View
  BY DEF Records0, View, TypeOK
<1>2. v \in View
  BY <1>1, CreateDispatchedType DEF TypeOK
<1>3. v.promise = [promise EXCEPT ![p] = CreatedPromise(data, now)]
  BY DEF CreateDispatched, CreateWith, Records0
<1> HIDE DEF v
<1>4. promise' = v.promise /\ task' = v.task /\ enqueued' = enqueued \cup v.enqueue
  BY DEF Write, v
<1>5. promise' \in [Id -> StoredPromise] /\ task' \in [Id -> StoredTask] /\ enqueued' \subseteq EnqueueRequest
  BY <1>2, <1>4 DEF View, TypeOK
<1>6. Creates(p, data)
  BY <1>3, <1>4, CreatedFields DEF Creates, TypeOK
<1> QED BY <1>5, <1>6

\* A schedule moves on by one firing, the timer of the next one is enqueued.
Moves(s) ==
    /\ \A x \in ScheduleId : x # s => schedule'[x] = schedule[x]
    /\ schedule'[s].cron = schedule[s].cron
    /\ schedule'[s].template = schedule[s].template
    /\ schedule'[s].tags = schedule[s].tags
    /\ schedule'[s].createdAt = schedule[s].createdAt
    /\ schedule'[s].lastRunAt = schedule[s].nextRunAt
    /\ \/ /\ Following(s) = None
          /\ schedule'[s].nextRunAt = schedule[s].nextRunAt /\ timer' = timer
       \/ /\ Following(s) # None
          /\ schedule'[s].nextRunAt = Following(s) /\ timer' = Schedule(s, Following(s))

\* What a client asked a firing's promise to be.
FiringData(s) ==
    [timeoutAt |-> SaturatingAdd(schedule[s].nextRunAt, schedule[s].timeout),
     tags      |-> schedule[s].tags]

\* A firing creates the promise of the next firing unless it exists.
Fires(s) ==
    IF promise[NextPromise(s)].state = "absent"
    THEN Creates(NextPromise(s), FiringData(s))
    ELSE UNCHANGED promise

\* What is known of the schedule that a timer fires.
LEMMA ActingSchedule ==
    ASSUME ScheduleInv, worker.pc = "claimed", Acts(worker.slot)
    PROVE  LET s == timer[worker.slot].id
           IN  /\ worker.slot \in Slot /\ s \in ScheduleId /\ schedule[s] # None
               /\ schedule[s] \in ScheduleRecord
               /\ schedule[s].nextRunAt = timer[worker.slot].at
               /\ schedule[s].nextRunAt <= now /\ schedule[s].nextRunAt <= MaxMillis
               /\ NextPromise(s) \in Id
               /\ NextPromise(s) = FiringId(s, schedule[s].template, schedule[s].nextRunAt)
<1> DEFINE s == timer[worker.slot].id
<1>1. worker.slot \in Slot /\ timer[worker.slot].state # "none" /\ timer[worker.slot].at <= now
  BY DEF ScheduleInv, WorkerOK
<1>2. s \in ScheduleId /\ schedule[s] # None /\ schedule[s].nextRunAt = timer[worker.slot].at
  BY <1>1 DEF ScheduleInv, TimersOK, Acts
<1>3. schedule[s] \in ScheduleRecord
  BY <1>2 DEF ScheduleInv, TypeOK
<1> HIDE DEF s
<1>4. schedule[s].nextRunAt \in Nat
  BY <1>3 DEF ScheduleRecord
<1>5. now \in Nat /\ now <= MaxMillis
  BY ScheduleAssumption DEF ScheduleInv, TypeOK
<1>6. PICK data \in ScheduleData :
        schedule[s].cron = data.cron /\ schedule[s].template = data.template
  BY <1>2 DEF ScheduleInv, SchedulesOK
<1>7. schedule[s].nextRunAt \in data.cron
  BY <1>2, <1>6 DEF ScheduleInv, SchedulesOK
<1>8. FiringId(s, data.template, schedule[s].nextRunAt) \in Id
  BY <1>2, <1>7, ScheduleAssumption
<1>9. NextPromise(s) = FiringId(s, schedule[s].template, schedule[s].nextRunAt) /\ NextPromise(s) \in Id
  BY <1>6, <1>8 DEF NextPromise
<1>10. schedule[s].nextRunAt <= now /\ schedule[s].nextRunAt <= MaxMillis
  <2>1. timer[worker.slot].at = schedule[s].nextRunAt
    BY <1>2
  <2>2. schedule[s].nextRunAt <= now
    BY <1>1, <2>1
  <2> QED BY <1>4, <1>5, <2>2, ScheduleAssumption
<1> QED BY <1>1, <1>2, <1>3, <1>9, <1>10 DEF s

\* What a firing does.
LEMMA FireEffect ==
    ASSUME ScheduleInv, worker.pc = "claimed", Acts(worker.slot),
           FireSchedule(timer[worker.slot].id)
    PROVE  LET s == timer[worker.slot].id
           IN  /\ Fires(s) /\ Moves(s)
               /\ promise' \in [Id -> StoredPromise] /\ task' \in [Id -> StoredTask]
               /\ enqueued' \subseteq EnqueueRequest
               /\ schedule' \in [ScheduleId -> ScheduleRecord \cup {None}]
               /\ schedule'[s] \in ScheduleRecord
<1> DEFINE s == timer[worker.slot].id
           p == NextPromise(s)
           q == [schedule[s] EXCEPT !.lastRunAt = schedule[s].nextRunAt,
                    !.nextRunAt = IF Following(s) = None THEN schedule[s].nextRunAt ELSE Following(s)]
<1>1. /\ s \in ScheduleId /\ schedule[s] \in ScheduleRecord /\ p \in Id
      /\ schedule \in [ScheduleId -> ScheduleRecord \cup {None}]
  BY ActingSchedule DEF ScheduleInv, TypeOK
<1>2. FirePromise(s) /\ MoveOn(s)
  BY DEF FireSchedule
<1> HIDE DEF s
<1>3. schedule[s].nextRunAt \in Nat /\ schedule[s].timeout \in Nat /\ schedule[s].tags \in Tags
      /\ schedule[s].cron \in Cron
  BY <1>1 DEF ScheduleRecord
<1>4. FiringData(s) \in CreateData
  BY <1>3, SaturatingAddBound DEF FiringData, CreateData
<1>5. /\ Fires(s)
      /\ promise' \in [Id -> StoredPromise] /\ task' \in [Id -> StoredTask]
      /\ enqueued' \subseteq EnqueueRequest
  <2>1. CASE promise[p].state = "absent"
    <3>1. Write(CreateDispatched(Records0, p, FiringData(s), now))
      BY <1>2, <2>1 DEF FirePromise, FiringData
    <3> QED BY <1>1, <1>4, <2>1, <3>1, CreateEffect DEF ScheduleInv, Fires
  <2>2. CASE promise[p].state # "absent"
    <3>1. promise' = promise /\ task' = task /\ enqueued' = enqueued
      BY <1>2, <2>2 DEF FirePromise, Write, Records0
    <3> QED BY <2>2, <3>1 DEF Fires, ScheduleInv, TypeOK
  <2> QED BY <2>1, <2>2
<1>6. Following(s) # None => Following(s) \in Nat
  BY <1>3, NextAfterFirst DEF Following
<1>7. q \in ScheduleRecord
  BY <1>1, <1>3, <1>6 DEF ScheduleRecord
<1>8. /\ q.cron = schedule[s].cron /\ q.template = schedule[s].template
      /\ q.tags = schedule[s].tags /\ q.createdAt = schedule[s].createdAt
      /\ q.lastRunAt = schedule[s].nextRunAt
      /\ q.nextRunAt = IF Following(s) = None THEN schedule[s].nextRunAt ELSE Following(s)
  BY <1>1 DEF ScheduleRecord
<1>9. /\ schedule' = [schedule EXCEPT ![s] = q]
      /\ timer' = IF Following(s) = None THEN timer ELSE Schedule(s, Following(s))
  BY <1>2 DEF MoveOn
<1> HIDE DEF q
<1>10. schedule'[s] = q /\ \A x \in ScheduleId : x # s => schedule'[x] = schedule[x]
  BY <1>1, <1>9
<1>11. Moves(s)
  BY <1>8, <1>9, <1>10 DEF Moves
<1> QED BY <1>1, <1>5, <1>7, <1>9, <1>10, <1>11 DEF s

\* A timer goes to a slot that was free.
LEMMA ScheduleTimer ==
    ASSUME TypeOK, FreeSlots # {}, NEW s \in ScheduleId, NEW at \in Nat, timer' = Schedule(s, at)
    PROVE  /\ timer' \in [Slot -> TimerRecord]
           /\ FreeSlot \in Slot /\ timer[FreeSlot].state = "none"
           /\ timer'[FreeSlot] = WaitingTimer(s, at)
           /\ \A k \in Slot : timer[k].state # "none" => timer'[k] = timer[k]
           /\ \A k \in Slot : k # FreeSlot => timer'[k] = timer[k]
<1>1. FreeSlot \in FreeSlots
  BY DEF FreeSlot
<1>2. FreeSlot \in Slot /\ timer[FreeSlot].state = "none"
  BY <1>1 DEF FreeSlots
<1>3. WaitingTimer(s, at) \in TimerRecord
  BY DEF WaitingTimer, TimerRecord
<1> HIDE DEF FreeSlot
<1> QED BY <1>2, <1>3 DEF Schedule, TypeOK

\* What schedule.create does.
LEMMA ScheduleCreateEffect ==
    ASSUME ScheduleInv, NEW s \in ScheduleId, NEW data \in ScheduleData, ScheduleCreate(s, data)
    PROVE  /\ \A x \in ScheduleId : x # s => schedule'[x] = schedule[x]
           /\ schedule' \in [ScheduleId -> ScheduleRecord \cup {None}]
           /\ schedule'[s].cron = data.cron /\ schedule'[s].template = data.template
           /\ schedule'[s].tags = data.tags
           /\ schedule'[s].createdAt = now /\ schedule'[s].lastRunAt = None
           /\ schedule'[s].nextRunAt = NextAfter(data.cron, now)
           /\ NextAfter(data.cron, now) \in data.cron /\ NextAfter(data.cron, now) \in Nat
           /\ NextAfter(data.cron, now) > now
           /\ \A c \in data.cron : c > now => NextAfter(data.cron, now) <= c
           /\ FreeSlots # {} /\ timer' = Schedule(s, NextAfter(data.cron, now))
           /\ creates' \in 0 .. MaxCreates
<1> DEFINE next == NextAfter(data.cron, now)
           q == [cron |-> data.cron, template |-> data.template, timeout |-> data.timeout,
                 tags |-> data.tags, createdAt |-> now, nextRunAt |-> next, lastRunAt |-> None]
<1>1. data.cron \in Cron /\ data.template \in Template /\ data.timeout \in Nat /\ data.tags \in Tags
  BY ScheduleAssumption
<1>2. now \in Nat /\ next # None
  BY DEF ScheduleCreate, ScheduleInv, TypeOK
<1>3. /\ next \in data.cron /\ next \in Nat /\ next > now
      /\ \A c \in data.cron : c > now => next <= c
  BY <1>1, <1>2, NextAfterFirst
<1>4. /\ FreeSlots # {} /\ timer' = Schedule(s, next) /\ schedule' = [schedule EXCEPT ![s] = q]
      /\ creates < MaxCreates /\ creates' = creates + 1
  BY DEF ScheduleCreate
<1> HIDE DEF next
<1>5. q \in ScheduleRecord
  BY <1>1, <1>2, <1>3 DEF ScheduleRecord
<1>6. /\ q.cron = data.cron /\ q.template = data.template /\ q.tags = data.tags
      /\ q.createdAt = now /\ q.lastRunAt = None /\ q.nextRunAt = next
  OBVIOUS
<1> HIDE DEF q
<1>7. /\ schedule'[s] = q /\ \A x \in ScheduleId : x # s => schedule'[x] = schedule[x]
      /\ schedule' \in [ScheduleId -> ScheduleRecord \cup {None}]
  BY <1>4, <1>5 DEF ScheduleInv, TypeOK
<1>8. creates' \in 0 .. MaxCreates
  BY <1>4, ScheduleAssumption DEF ScheduleInv, TypeOK
<1> QED BY <1>3, <1>4, <1>6, <1>7, <1>8 DEF next

-----------------------------------------------------------------------------
(* The inductive invariant                                                 *)

\* A schedule is created, or deleted.
LEMMA ScheduleRequestInv ==
    ASSUME ScheduleInv, NEW s \in ScheduleId,
           ScheduleDelete(s) \/ \E data \in ScheduleData : ScheduleCreate(s, data)
    PROVE  ScheduleInv'
<1>1. CASE ScheduleDelete(s)
  <2>1. /\ schedule' \in [ScheduleId -> ScheduleRecord \cup {None}] /\ schedule'[s] = None
        /\ \A x \in ScheduleId : x # s => schedule'[x] = schedule[x]
        /\ UNCHANGED <<now, promise, task, enqueued, timer, worker, creates, faults>>
    BY <1>1 DEF ScheduleDelete, ScheduleInv, TypeOK
  <2>2. TypeOK' /\ TimersOK' /\ now' <= MaxTime
    BY <2>1 DEF ScheduleInv, TypeOK, TimersOK
  <2>3. SchedulesOK'
    BY <2>1 DEF ScheduleInv, SchedulesOK
  <2>4. WorkerOK'
    <3>1. \A k \in Slot : timer[k].state # "none" /\ Awaited(k)' => Awaited(k)
      BY <2>1 DEF ScheduleInv, TimersOK, Awaited, HasEnded
    <3> QED BY <2>1, <3>1 DEF ScheduleInv, WorkerOK
  <2> QED BY <2>2, <2>3, <2>4 DEF ScheduleInv
<1>2. ASSUME NEW data \in ScheduleData, ScheduleCreate(s, data) PROVE ScheduleInv'
  <2> DEFINE next == NextAfter(data.cron, now)
  <2>1. /\ \A x \in ScheduleId : x # s => schedule'[x] = schedule[x]
        /\ schedule' \in [ScheduleId -> ScheduleRecord \cup {None}]
        /\ schedule'[s].cron = data.cron /\ schedule'[s].template = data.template
        /\ schedule'[s].tags = data.tags /\ schedule'[s].nextRunAt = next
        /\ next \in data.cron /\ next \in Nat /\ next > now
        /\ FreeSlots # {} /\ timer' = Schedule(s, next) /\ creates' \in 0 .. MaxCreates
    BY <1>2, ScheduleCreateEffect
  <2>2. UNCHANGED <<now, promise, task, enqueued, worker, faults>>
    BY <1>2 DEF ScheduleCreate
  <2> HIDE DEF next
  <2>3. /\ timer' \in [Slot -> TimerRecord] /\ timer'[FreeSlot] = WaitingTimer(s, next)
        /\ \A k \in Slot : timer[k].state # "none" => timer'[k] = timer[k]
        /\ \A k \in Slot : k # FreeSlot => timer'[k] = timer[k]
    BY <2>1, ScheduleTimer DEF ScheduleInv
  <2>4. TypeOK' /\ now' <= MaxTime
    BY <2>1, <2>2, <2>3 DEF ScheduleInv, TypeOK
  <2>5. TimersOK'
    BY <2>3 DEF ScheduleInv, TimersOK, WaitingTimer
  <2>6. SchedulesOK'
    BY <2>1 DEF ScheduleInv, SchedulesOK
  <2>7. WorkerOK'
    <3>1. SUFFICES ASSUME worker.pc # "idle"
                   PROVE  /\ timer'[worker.slot].state # "none" /\ timer'[worker.slot].at <= now
                          /\ worker.slot \in Slot
                          /\ worker.pc = "fired" => ~Awaited(worker.slot)'
      BY <2>2 DEF WorkerOK, Awaited
    <3>2. /\ worker.slot \in Slot /\ timer[worker.slot].state # "none"
          /\ timer[worker.slot].at <= now /\ timer'[worker.slot] = timer[worker.slot]
          /\ timer[worker.slot].at \in Nat /\ now \in Nat
          /\ worker.pc = "fired" => ~Awaited(worker.slot)
      BY <2>3, <3>1 DEF ScheduleInv, WorkerOK, TypeOK, TimerRecord
    <3>3. timer[worker.slot].id \in ScheduleId
      BY <3>2 DEF ScheduleInv, TimersOK
    <3>4. CASE timer[worker.slot].id = s
      <4>1. schedule'[s].nextRunAt # timer[worker.slot].at
        BY <2>1, <3>2
      <4> QED BY <2>2, <3>2, <3>4, <4>1 DEF Awaited
    <3>5. CASE timer[worker.slot].id # s
      BY <2>1, <2>2, <3>2, <3>3, <3>5 DEF Awaited, HasEnded
    <3> QED BY <3>2, <3>4, <3>5
  <2> QED BY <2>4, <2>5, <2>6, <2>7 DEF ScheduleInv
<1> QED BY <1>1, <1>2

\* A client takes a promise id.
LEMMA PromiseCreateInv ==
    ASSUME ScheduleInv, NEW p \in ClientId, NEW data \in PromiseData, PromiseCreate(p, data)
    PROVE  ScheduleInv'
<1>1. p \in Id /\ data \in CreateData
  BY ScheduleAssumption
<1>2. /\ Write(CreateDispatched(Records0, p, data, now))
      /\ UNCHANGED <<now, schedule, timer, worker, creates, faults>>
  BY DEF PromiseCreate
<1>3. TypeOK'
  BY <1>1, <1>2, CreateEffect DEF ScheduleInv, TypeOK
<1> QED BY <1>2, <1>3 DEF ScheduleInv, WorkerOK, TimersOK, SchedulesOK, Awaited, HasEnded

\* The worker fires its timer, and the schedule moves on from it.
LEMMA FireInv ==
    ASSUME ScheduleInv, Fire PROVE ScheduleInv'
<1> DEFINE k == worker.slot
           s == timer[k].id
<1>1. /\ worker.pc = "claimed" /\ worker' = [worker EXCEPT !.pc = "fired"]
      /\ UNCHANGED <<now, creates, faults>>
  BY DEF Fire
<1>2. /\ worker'.pc = "fired" /\ worker'.slot = k
      /\ worker' \in [pc : {"idle", "claimed", "fired", "failed"}, slot : Slot \cup {None}]
  BY <1>1 DEF ScheduleInv, TypeOK
<1>3. k \in Slot /\ timer[k].state # "none" /\ timer[k].at <= now
  BY <1>1 DEF ScheduleInv, WorkerOK
<1>4. CASE Acts(k) /\ FreeSlots # {} /\ FireSchedule(s)
  <2>1. /\ s \in ScheduleId /\ schedule[s] # None /\ schedule[s] \in ScheduleRecord
        /\ schedule[s].nextRunAt = timer[k].at
    BY <1>1, <1>4, ActingSchedule
  <2>2. /\ Moves(s)
        /\ promise' \in [Id -> StoredPromise] /\ task' \in [Id -> StoredTask]
        /\ enqueued' \subseteq EnqueueRequest
        /\ schedule' \in [ScheduleId -> ScheduleRecord \cup {None}]
    BY <1>1, <1>4, FireEffect
  <2> HIDE DEF s, k
  <2>3. schedule[s].nextRunAt \in Nat /\ schedule[s].cron \in Cron
    BY <2>1 DEF ScheduleRecord
  <2>4. Following(s) # None =>
          /\ Following(s) \in Nat /\ Following(s) \in schedule[s].cron
          /\ Following(s) > schedule[s].nextRunAt
    BY <2>3, NextAfterFirst DEF Following
  <2>5. /\ timer' \in [Slot -> TimerRecord]
        /\ \A j \in Slot : timer[j].state # "none" => timer'[j] = timer[j]
        /\ \A j \in Slot : timer'[j].state # "none" => timer'[j] = timer[j] \/ timer'[j].id = s
    <3>1. CASE timer' = timer
      BY <3>1 DEF ScheduleInv, TypeOK
    <3>2. CASE Following(s) # None /\ timer' = Schedule(s, Following(s))
      <4>1. /\ timer' \in [Slot -> TimerRecord] /\ timer'[FreeSlot] = WaitingTimer(s, Following(s))
            /\ \A j \in Slot : timer[j].state # "none" => timer'[j] = timer[j]
            /\ \A j \in Slot : j # FreeSlot => timer'[j] = timer[j]
        BY <1>4, <2>1, <2>4, <3>2, ScheduleTimer DEF ScheduleInv
      <4> QED BY <4>1 DEF WaitingTimer
    <3> QED BY <2>2, <3>1, <3>2 DEF Moves
  <2>6. TypeOK' /\ now' <= MaxTime
    BY <1>1, <1>2, <2>2, <2>5 DEF ScheduleInv, TypeOK
  <2>7. TimersOK'
    BY <2>1, <2>5 DEF ScheduleInv, TimersOK
  <2>8. SchedulesOK'
    BY <2>1, <2>2, <2>4 DEF ScheduleInv, SchedulesOK, Moves
  <2>9. WorkerOK'
    <3>1. timer'[k] = timer[k] /\ timer[k].id = s /\ timer[k].at = schedule[s].nextRunAt
      <4>1. timer[k].id = s
        BY DEF s
      <4> QED BY <1>3, <2>1, <2>5, <4>1
    <3>2. ~(schedule'[s].nextRunAt = schedule[s].nextRunAt
            /\ schedule'[s].lastRunAt # schedule'[s].nextRunAt)
      <4>1. CASE Following(s) = None
        BY <2>2, <4>1 DEF Moves
      <4>2. CASE Following(s) # None
        <5>1. schedule'[s].nextRunAt = Following(s)
          BY <2>2, <4>2 DEF Moves
        <5>2. Following(s) # schedule[s].nextRunAt
          BY <2>3, <2>4, <4>2
        <5> QED BY <5>1, <5>2
      <4> QED BY <4>1, <4>2
    <3>3. ~Awaited(worker.slot)'
      BY <1>2, <3>1, <3>2 DEF Awaited, HasEnded
    <3> QED BY <1>1, <1>2, <1>3, <3>1, <3>3 DEF WorkerOK, Awaited
  <2> QED BY <2>6, <2>7, <2>8, <2>9 DEF ScheduleInv
<1>5. CASE ~Acts(k) /\ UNCHANGED <<schedule, promise, task, enqueued, timer>>
  <2>1. ~Awaited(k)
    BY <1>5 DEF Acts, Awaited
  <2> HIDE DEF k
  <2>2. WorkerOK'
    BY <1>1, <1>2, <1>3, <1>5, <2>1 DEF WorkerOK, Awaited, HasEnded
  <2>3. TypeOK'
    BY <1>1, <1>2, <1>5 DEF ScheduleInv, TypeOK
  <2> QED BY <1>1, <1>5, <2>2, <2>3 DEF ScheduleInv, TimersOK, SchedulesOK
<1> QED BY <1>4, <1>5 DEF Fire

\* The worker claims a timer, fails to fire it, or settles it.
LEMMA WorkerInv ==
    ASSUME ScheduleInv, WorkerSettles \/ FireFails \/ \E k \in Slot : ClaimTimer(k)
    PROVE  ScheduleInv'
<1> USE DEF ScheduleInv
<1>1. ASSUME NEW k \in Slot, ClaimTimer(k) PROVE ScheduleInv'
  <2> DEFINE r == [timer[k] EXCEPT !.state = "claimed", !.expiry = now + WorkerLease]
  <2>1. /\ timer[k].at <= now /\ timer[k].state = "waiting"
        /\ timer' = [timer EXCEPT ![k] = r] /\ worker' = [pc |-> "claimed", slot |-> k]
        /\ UNCHANGED <<now, schedule, promise, task, enqueued, creates, faults>>
    BY <1>1 DEF ClaimTimer, TypeOK
  <2>2. now + WorkerLease \in Nat /\ timer[k] \in TimerRecord
    BY ScheduleAssumption DEF TypeOK
  <2>3. /\ r \in TimerRecord /\ r.id = timer[k].id /\ r.at = timer[k].at /\ r.state = "claimed"
    BY <2>2 DEF TimerRecord
  <2> HIDE DEF r
  <2>4. /\ timer' \in [Slot -> TimerRecord] /\ timer'[k] = r
        /\ \A j \in Slot : j # k => timer'[j] = timer[j]
    BY <2>1, <2>3 DEF TypeOK
  <2>5. TypeOK'
    BY <2>1, <2>4 DEF TypeOK
  <2>6. WorkerOK'
    BY <2>1, <2>3, <2>4 DEF WorkerOK
  <2>7. TimersOK'
    BY <2>1, <2>3, <2>4 DEF TimersOK
  <2> QED BY <2>1, <2>5, <2>6, <2>7 DEF SchedulesOK
<1>2. CASE FireFails
  <2>1. /\ worker.pc = "claimed" /\ worker' = [worker EXCEPT !.pc = "failed"]
        /\ faults' \in 0 .. MaxFaults
        /\ UNCHANGED <<now, schedule, promise, task, enqueued, timer, creates>>
    BY <1>2, ScheduleAssumption DEF FireFails, TypeOK
  <2>2. /\ worker'.pc = "failed" /\ worker'.slot = worker.slot
        /\ worker' \in [pc : {"idle", "claimed", "fired", "failed"}, slot : Slot \cup {None}]
    BY <2>1 DEF TypeOK
  <2>3. TypeOK'
    BY <2>1, <2>2 DEF TypeOK
  <2> QED BY <2>1, <2>2, <2>3 DEF WorkerOK, TimersOK, SchedulesOK
<1>3. CASE WorkerSettles
  <2> DEFINE k == worker.slot
             x == timer[k]
             r == IF x.state # "claimed" THEN x
                  ELSE IF worker.pc = "fired" THEN NoTimer ELSE WaitingTimer(x.id, x.at)
  <2>1. /\ k \in Slot /\ timer' = [timer EXCEPT ![k] = r] /\ worker' = IdleWorker
        /\ UNCHANGED <<now, schedule, promise, task, enqueued, creates, faults>>
    BY <1>3 DEF WorkerSettles, WorkerOK, TypeOK
  <2>2. x \in TimerRecord
    BY <2>1 DEF TypeOK
  <2>3. r \in TimerRecord /\ (r.state # "none" => r.id = x.id /\ x.state # "none")
    BY <2>2 DEF TimerRecord, NoTimer, WaitingTimer
  <2> HIDE DEF r
  <2>4. /\ timer' \in [Slot -> TimerRecord] /\ timer'[k] = r
        /\ \A j \in Slot : j # k => timer'[j] = timer[j]
    BY <2>1, <2>3 DEF TypeOK
  <2>5. TypeOK' /\ WorkerOK'
    BY <2>1, <2>4 DEF TypeOK, IdleWorker, WorkerOK
  <2>6. TimersOK'
    BY <2>1, <2>3, <2>4 DEF TimersOK
  <2> QED BY <2>1, <2>5, <2>6 DEF SchedulesOK
<1> QED BY <1>1, <1>2, <1>3

\* A lease ends, time passes, or the process crashes.
LEMMA SurroundingsInv ==
    ASSUME ScheduleInv, Tick \/ Crash \/ \E k \in Slot : Reap(k) PROVE ScheduleInv'
<1> USE DEF ScheduleInv
<1>1. CASE Tick
  <2>1. /\ now \in Nat /\ now' \in Nat /\ now' >= now /\ now' <= MaxTime
        /\ UNCHANGED <<schedule, promise, task, enqueued, timer, worker, creates, faults>>
    BY <1>1, ScheduleAssumption DEF Tick, TypeOK
  <2>2. TypeOK' /\ TimersOK' /\ SchedulesOK'
    BY <2>1 DEF TypeOK, TimersOK, SchedulesOK
  <2>3. worker.pc # "idle" => timer[worker.slot].at \in Nat
    BY DEF WorkerOK, TypeOK, TimerRecord
  <2>4. WorkerOK'
    BY <2>1, <2>3 DEF WorkerOK, Awaited, HasEnded
  <2> QED BY <2>1, <2>2, <2>4
<1>2. CASE Crash
  <2> DEFINE r(k) == IF timer[k].state = "claimed" THEN WaitingTimer(timer[k].id, timer[k].at)
                     ELSE timer[k]
  <2>1. /\ faults' \in 0 .. MaxFaults /\ worker' = IdleWorker
        /\ timer' = [k \in Slot |-> r(k)]
        /\ UNCHANGED <<now, schedule, promise, task, enqueued, creates>>
    BY <1>2, ScheduleAssumption DEF Crash, TypeOK
  <2>2. \A k \in Slot : /\ r(k) \in TimerRecord
                        /\ r(k).state # "none" => r(k).id = timer[k].id /\ timer[k].state # "none"
    BY DEF TypeOK, TimerRecord, WaitingTimer
  <2> HIDE DEF r
  <2>3. TypeOK' /\ WorkerOK'
    BY <2>1, <2>2 DEF TypeOK, IdleWorker, WorkerOK
  <2>4. TimersOK'
    BY <2>1, <2>2 DEF TimersOK
  <2> QED BY <2>1, <2>3, <2>4 DEF SchedulesOK
<1>3. ASSUME NEW k \in Slot, Reap(k) PROVE ScheduleInv'
  <2> DEFINE r == WaitingTimer(timer[k].id, timer[k].at)
  <2>1. /\ timer[k].state = "claimed" /\ timer' = [timer EXCEPT ![k] = r]
        /\ UNCHANGED <<now, schedule, promise, task, enqueued, worker, creates, faults>>
    BY <1>3 DEF Reap, TypeOK
  <2>2. r \in TimerRecord /\ r.id = timer[k].id /\ r.at = timer[k].at /\ r.state = "waiting"
    BY DEF TypeOK, TimerRecord, WaitingTimer
  <2> HIDE DEF r
  <2>3. /\ timer' \in [Slot -> TimerRecord]
        /\ \A j \in Slot : /\ timer'[j].id = timer[j].id /\ timer'[j].at = timer[j].at
                           /\ timer'[j].state # "none" <=> timer[j].state # "none"
    BY <2>1, <2>2 DEF TypeOK
  <2>4. TypeOK'
    BY <2>1, <2>3 DEF TypeOK
  <2>5. WorkerOK'
    BY <2>1, <2>3 DEF WorkerOK, Awaited, HasEnded
  <2> QED BY <2>1, <2>3, <2>4, <2>5 DEF TimersOK, SchedulesOK
<1> QED BY <1>1, <1>2, <1>3

\* The invariant holds initially.
LEMMA ScheduleInvInit == Init => ScheduleInv
<1> SUFFICES ASSUME Init PROVE ScheduleInv
  OBVIOUS
<1>1. NoPromise \in StoredPromise /\ NoTask \in StoredTask
  BY DEF NoPromise, NoTask, StoredPromise, StoredTask, Tags
<1>2. NoTimer \in TimerRecord /\ NoTimer.state = "none"
  BY DEF NoTimer, TimerRecord
<1>3. TypeOK
  BY <1>1, <1>2, ScheduleAssumption DEF Init, TypeOK, IdleWorker
<1> QED BY <1>2, <1>3, ScheduleAssumption
        DEF Init, ScheduleInv, WorkerOK, TimersOK, SchedulesOK, IdleWorker

\* Every step keeps it.
LEMMA ScheduleInvStep == ScheduleInv /\ [Next]_vars => ScheduleInv'
<1> SUFFICES ASSUME ScheduleInv, [Next]_vars PROVE ScheduleInv'
  OBVIOUS
<1>1. CASE UNCHANGED vars
  BY <1>1 DEF vars, ScheduleInv, TypeOK, WorkerOK, TimersOK, SchedulesOK, Awaited, HasEnded
<1> QED BY <1>1, ScheduleRequestInv, PromiseCreateInv, FireInv, WorkerInv, SurroundingsInv
        DEF Next, WorkerStep

\* Type correctness of the schedules, whatever schedules and promises clients ask
\* for: a schedule that has ended keeps a time for its next firing (fire_schedule,
\* src/kernel.rs).
THEOREM ScheduleTypeCorrect == Spec => []TypeOK
<1>1. ScheduleInv => TypeOK
  BY DEF ScheduleInv
<1> QED BY <1>1, ScheduleInvInit, ScheduleInvStep, PTL DEF Spec

-----------------------------------------------------------------------------
(* No schedule falls silent                                                *)

\* The timers that are in the queue stay in it.
TimersStay ==
    \A k \in Slot : timer[k].state # "none" =>
        /\ timer'[k].state # "none"
        /\ timer'[k].id = timer[k].id /\ timer'[k].at = timer[k].at

\* As long as schedules and timers stay, no schedule falls silent.
LEMMA NextFiringStays ==
    ASSUME NextFiringIsScheduled, TimersStay, NEW s \in ScheduleId,
           schedule'[s] = schedule[s], schedule'[s] # None, ~HasEnded(s)
    PROVE  \E k \in Slot : /\ timer'[k].state # "none" /\ timer'[k].id = s
                           /\ timer'[k].at = schedule'[s].nextRunAt
BY DEF NextFiringIsScheduled, TimersStay

\* When the schedules are left alone, too.
LEMMA NextFiringStaysAll ==
    ASSUME NextFiringIsScheduled, TimersStay, schedule' = schedule
    PROVE  NextFiringIsScheduled'
BY DEF NextFiringIsScheduled, TimersStay, HasEnded

\* The timer of a schedule's next firing is in the queue after every step.
LEMMA NextFiringStep ==
    ScheduleInv /\ NextFiringIsScheduled /\ [Next]_vars => NextFiringIsScheduled'
<1> SUFFICES ASSUME ScheduleInv, NextFiringIsScheduled, [Next]_vars
             PROVE  NextFiringIsScheduled'
  OBVIOUS
<1>1. ASSUME NEW s \in ScheduleId, NEW data \in ScheduleData, ScheduleCreate(s, data)
      PROVE  NextFiringIsScheduled'
  <2> DEFINE next == NextAfter(data.cron, now)
  <2>1. /\ \A x \in ScheduleId : x # s => schedule'[x] = schedule[x]
        /\ schedule'[s].nextRunAt = next /\ next \in Nat
        /\ FreeSlots # {} /\ timer' = Schedule(s, next)
    BY <1>1, ScheduleCreateEffect
  <2> HIDE DEF next
  <2>2. /\ FreeSlot \in Slot /\ timer'[FreeSlot] = WaitingTimer(s, next)
        /\ TimersStay
    BY <2>1, ScheduleTimer DEF ScheduleInv, TimersStay
  <2>3. ASSUME NEW x \in ScheduleId, schedule'[x] # None,
               schedule'[x].lastRunAt # schedule'[x].nextRunAt
        PROVE  \E k \in Slot : /\ timer'[k].state # "none" /\ timer'[k].id = x
                               /\ timer'[k].at = schedule'[x].nextRunAt
    <3>1. CASE x = s
      BY <2>1, <2>2, <3>1 DEF WaitingTimer
    <3>2. CASE x # s
      BY <2>1, <2>2, <2>3, <3>2, NextFiringStays DEF HasEnded
    <3> QED BY <3>1, <3>2
  <2> QED BY <2>3 DEF NextFiringIsScheduled, HasEnded
<1>2. ASSUME NEW s \in ScheduleId, ScheduleDelete(s) PROVE NextFiringIsScheduled'
  <2>1. /\ schedule'[s] = None /\ timer' = timer
        /\ \A x \in ScheduleId : x # s => schedule'[x] = schedule[x]
    BY <1>2 DEF ScheduleDelete, ScheduleInv, TypeOK
  <2> QED BY <2>1 DEF NextFiringIsScheduled, HasEnded
<1>3. ASSUME NEW p \in ClientId, NEW data \in PromiseData, PromiseCreate(p, data)
      PROVE  NextFiringIsScheduled'
  BY <1>3 DEF PromiseCreate, NextFiringIsScheduled, HasEnded
<1>4. CASE Fire
  <2>1. CASE ~Acts(worker.slot) /\ UNCHANGED <<schedule, promise, task, enqueued, timer>>
    BY <2>1 DEF NextFiringIsScheduled, HasEnded
  <2>2. CASE /\ worker.pc = "claimed" /\ Acts(worker.slot) /\ FreeSlots # {}
             /\ FireSchedule(timer[worker.slot].id)
    <3>1. PICK s \in ScheduleId : Moves(s) /\ schedule[s] \in ScheduleRecord
      BY <2>2, ActingSchedule, FireEffect
    <3>2. Following(s) # None => Following(s) \in Nat
      BY <3>1, NextAfterFirst DEF Following, ScheduleRecord
    <3>3. ASSUME NEW x \in ScheduleId, schedule'[x] # None,
                 schedule'[x].lastRunAt # schedule'[x].nextRunAt
          PROVE  \E k \in Slot : /\ timer'[k].state # "none" /\ timer'[k].id = x
                                 /\ timer'[k].at = schedule'[x].nextRunAt
      <4>1. CASE Following(s) = None
        <5>1. timer' = timer /\ x # s
          BY <3>1, <3>3, <4>1 DEF Moves
        <5>2. schedule'[x] = schedule[x] /\ TimersStay
          BY <3>1, <5>1 DEF Moves, TimersStay
        <5> QED BY <3>3, <5>2, NextFiringStays DEF HasEnded
      <4>2. CASE Following(s) # None
        <5>1. schedule'[s].nextRunAt = Following(s) /\ timer' = Schedule(s, Following(s))
          BY <3>1, <4>2 DEF Moves
        <5>2. /\ FreeSlot \in Slot /\ timer'[FreeSlot] = WaitingTimer(s, Following(s))
              /\ TimersStay
          BY <2>2, <3>2, <4>2, <5>1, ScheduleTimer DEF ScheduleInv, TimersStay
        <5>3. CASE x = s
          BY <5>1, <5>2, <5>3 DEF WaitingTimer
        <5>4. CASE x # s
          <6>1. schedule'[x] = schedule[x]
            BY <3>1, <5>4 DEF Moves
          <6> QED BY <3>3, <5>2, <6>1, NextFiringStays DEF HasEnded
        <5> QED BY <5>3, <5>4
      <4> QED BY <4>1, <4>2
    <3> QED BY <3>3 DEF NextFiringIsScheduled, HasEnded
  <2> QED BY <1>4, <2>1, <2>2 DEF Fire
<1>5. CASE WorkerSettles
  <2> DEFINE k == worker.slot
  <2>1. /\ k \in Slot /\ schedule' = schedule
        /\ timer' = [timer EXCEPT ![k] =
                        IF timer[k].state # "claimed" THEN timer[k]
                        ELSE IF worker.pc = "fired" THEN NoTimer
                        ELSE WaitingTimer(timer[k].id, timer[k].at)]
    BY SMTT(40), <1>5 DEF WorkerSettles, ScheduleInv, WorkerOK, TypeOK
  <2>2. CASE worker.pc = "fired"
    <3>1. ~Awaited(k)
      BY <2>2 DEF ScheduleInv, WorkerOK
    <3>2. \A j \in Slot : j # k => timer'[j] = timer[j]
      BY <2>1 DEF ScheduleInv, TypeOK
    <3>3. ASSUME NEW x \in ScheduleId, schedule[x] # None, ~HasEnded(x)
          PROVE  \E j \in Slot : /\ timer'[j].state # "none" /\ timer'[j].id = x
                                 /\ timer'[j].at = schedule[x].nextRunAt
      <4>1. PICK j \in Slot : /\ timer[j].state # "none" /\ timer[j].id = x
                              /\ timer[j].at = schedule[x].nextRunAt
        BY <3>3 DEF NextFiringIsScheduled
      <4>2. j # k
        BY <3>1, <3>3, <4>1 DEF Awaited
      <4> QED BY <3>2, <4>1, <4>2
    <3> QED BY <2>1, <3>3 DEF NextFiringIsScheduled, HasEnded
  <2>3. CASE worker.pc # "fired"
    <3>1. TimersStay
      BY <2>1, <2>3 DEF TimersStay, WaitingTimer, ScheduleInv, TypeOK
    <3> QED BY <2>1, <3>1, NextFiringStaysAll
  <2> QED BY <2>2, <2>3
<1>6. ASSUME NEW k \in Slot, ClaimTimer(k) \/ Reap(k) PROVE NextFiringIsScheduled'
  <2>1. TimersStay
    BY <1>6 DEF ClaimTimer, Reap, TimersStay, WaitingTimer, ScheduleInv, TypeOK, TimerRecord
  <2> QED BY <1>6, <2>1, NextFiringStaysAll DEF ClaimTimer, Reap
<1>7. CASE Crash
  <2>1. TimersStay
    BY <1>7 DEF Crash, TimersStay, WaitingTimer
  <2> QED BY <1>7, <2>1, NextFiringStaysAll DEF Crash
<1>8. CASE FireFails \/ Tick \/ UNCHANGED vars
  BY <1>8 DEF FireFails, Tick, vars, NextFiringIsScheduled, HasEnded
<1> QED BY <1>1, <1>2, <1>3, <1>4, <1>5, <1>6, <1>7, <1>8 DEF Next, WorkerStep

\* A schedule with a firing to come has its timer in the queue, whatever was
\* deleted and created again, failed or ended its lease (fire_schedule,
\* src/kernel.rs, and the timer worker, src/timers.rs).
THEOREM ScheduleNeverSilent == Spec => []NextFiringIsScheduled
<1>1. Init => NextFiringIsScheduled
  BY DEF Init, NextFiringIsScheduled
<1> QED BY <1>1, ScheduleInvInit, ScheduleInvStep, NextFiringStep, PTL DEF Spec

-----------------------------------------------------------------------------
(* No firing is skipped, early, or past its deadline                       *)

\* What a step does to schedules and promises.
LEMMA ScheduleStepKinds ==
    ASSUME ScheduleInv, [Next]_vars
    PROVE  \/ \E s \in ScheduleId, data \in ScheduleData : ScheduleCreate(s, data)
           \/ \E s \in ScheduleId : ScheduleDelete(s)
           \/ \E p \in ClientId, data \in PromiseData :
                 Creates(p, data) /\ UNCHANGED <<schedule, now>>
           \/ /\ worker.pc = "claimed" /\ Acts(worker.slot)
              /\ FireSchedule(timer[worker.slot].id) /\ now' = now
           \/ UNCHANGED <<schedule, promise>> /\ now' >= now
<1>0. now \in Nat
  BY DEF ScheduleInv, TypeOK
<1>1. ASSUME NEW p \in ClientId, NEW data \in PromiseData, PromiseCreate(p, data)
      PROVE  Creates(p, data) /\ UNCHANGED <<schedule, now>>
  <2>1. p \in Id /\ data \in CreateData
    BY ScheduleAssumption
  <2> QED BY <1>1, <2>1, CreateEffect DEF PromiseCreate, ScheduleInv
<1>2. CASE Fire
  <2>1. now' = now /\ now' >= now
    BY <1>0, <1>2 DEF Fire
  <2> QED BY <1>2, <2>1 DEF Fire
<1>3. ASSUME NEW k \in Slot, ClaimTimer(k) \/ Reap(k)
      PROVE  UNCHANGED <<schedule, promise>> /\ now' >= now
  BY <1>0, <1>3 DEF ClaimTimer, Reap
<1>4. CASE WorkerSettles \/ FireFails \/ Tick \/ Crash \/ UNCHANGED vars
  BY <1>0, <1>4 DEF WorkerSettles, FireFails, Tick, Crash, vars
<1>5. CASE \E s \in ScheduleId :
              ScheduleDelete(s) \/ \E data \in ScheduleData : ScheduleCreate(s, data)
  BY <1>5
<1>6. CASE \E p \in ClientId, data \in PromiseData : PromiseCreate(p, data)
  BY <1>1, <1>6
<1> QED BY <1>2, <1>3, <1>4, <1>5, <1>6 DEF Next, WorkerStep

\* The ids of a schedule's firings are promise ids.
LEMMA FiringIdType ==
    ASSUME ScheduleInv, NEW s \in ScheduleId, schedule[s] # None, NEW c \in schedule[s].cron
    PROVE  FiringId(s, schedule[s].template, c) \in Id
BY ScheduleAssumption DEF ScheduleInv, SchedulesOK

\* Promises that are there stay.
LEMMA PromisesStay ==
    ASSUME NEW p, NEW data, Creates(p, data), NEW q \in Id, promise[q].state # "absent"
    PROVE  promise'[q].state # "absent"
BY DEF Creates

\* Each time up to the next firing has its promise after every step.
LEMMA NoSkipStep ==
    ScheduleInv /\ NoFiringIsSkipped /\ [Next]_vars => NoFiringIsSkipped'
<1> SUFFICES ASSUME ScheduleInv, NoFiringIsSkipped, [Next]_vars PROVE NoFiringIsSkipped'
  OBVIOUS
<1> DEFINE Gone(s, c) == schedule[s].createdAt < c /\ (c < schedule[s].nextRunAt \/ HasEnded(s))
           There(s, c) == promise[FiringId(s, schedule[s].template, c)].state # "absent"
<1>0. \A s \in ScheduleId : schedule[s] # None =>
        \A c \in schedule[s].cron : Gone(s, c) => There(s, c)
  BY DEF NoFiringIsSkipped
<1>1. ASSUME NEW s \in ScheduleId, NEW data \in ScheduleData, ScheduleCreate(s, data)
      PROVE  NoFiringIsSkipped'
  <2>1. /\ \A x \in ScheduleId : x # s => schedule'[x] = schedule[x]
        /\ schedule'[s].cron = data.cron
        /\ schedule'[s].createdAt = now /\ schedule'[s].lastRunAt = None
        /\ schedule'[s].nextRunAt = NextAfter(data.cron, now)
        /\ NextAfter(data.cron, now) \in Nat
        /\ \A c \in data.cron : c > now => NextAfter(data.cron, now) <= c
    BY <1>1, ScheduleCreateEffect
  <2>2. promise' = promise /\ data.cron \in SUBSET Nat /\ now \in Nat
    BY <1>1, ScheduleAssumption DEF ScheduleCreate, Cron, ScheduleInv, TypeOK
  <2>3. NextAfter(data.cron, now) # None
    BY <2>1, NoneAssumption
  <2>4. \A c \in schedule'[s].cron :
          ~(schedule'[s].createdAt < c /\
            (c < schedule'[s].nextRunAt \/ schedule'[s].lastRunAt = schedule'[s].nextRunAt))
    <3> DEFINE next == NextAfter(data.cron, now)
    <3> HIDE DEF next
    <3>1. next \in Nat /\ next # None /\ \A c \in data.cron : c > now => next <= c
      BY <2>1, <2>3 DEF next
    <3>2. \A c \in data.cron : ~(now < c /\ (c < next \/ None = next))
      BY <2>2, <3>1
    <3> QED BY <2>1, <3>2 DEF next
  <2> QED BY <2>1, <2>2, <2>4 DEF NoFiringIsSkipped, HasEnded
<1>2. ASSUME NEW s \in ScheduleId, ScheduleDelete(s) PROVE NoFiringIsSkipped'
  <2>1. /\ schedule'[s] = None /\ promise' = promise
        /\ \A x \in ScheduleId : x # s => schedule'[x] = schedule[x]
    BY <1>2 DEF ScheduleDelete, ScheduleInv, TypeOK
  <2> QED BY <2>1 DEF NoFiringIsSkipped, HasEnded
<1>3. ASSUME NEW p, NEW data, Creates(p, data), schedule' = schedule PROVE NoFiringIsSkipped'
  <2>1. ASSUME NEW s \in ScheduleId, schedule[s] # None, NEW c \in schedule[s].cron, Gone(s, c)
        PROVE  promise'[FiringId(s, schedule[s].template, c)].state # "absent"
    <3>1. There(s, c) /\ FiringId(s, schedule[s].template, c) \in Id
      BY <1>0, <2>1, FiringIdType
    <3> QED BY <1>3, <3>1, PromisesStay
  <2> QED BY <1>3, <2>1 DEF NoFiringIsSkipped, HasEnded
<1>4. CASE /\ worker.pc = "claimed" /\ Acts(worker.slot)
           /\ FireSchedule(timer[worker.slot].id)
  <2>1. PICK s \in ScheduleId :
          /\ Fires(s) /\ Moves(s) /\ schedule[s] # None /\ schedule[s] \in ScheduleRecord
          /\ NextPromise(s) \in Id
          /\ NextPromise(s) = FiringId(s, schedule[s].template, schedule[s].nextRunAt)
    BY <1>4, ActingSchedule, FireEffect
  <2>2. schedule[s].nextRunAt \in Nat /\ schedule[s].cron \in Cron /\ schedule[s].cron \in SUBSET Nat
    BY <2>1 DEF ScheduleRecord, Cron
  <2>3. \A q \in Id : promise[q].state # "absent" => promise'[q].state # "absent"
    BY <2>1, PromisesStay DEF Fires
  <2>4. promise'[NextPromise(s)].state # "absent"
    BY <2>1 DEF Fires, Creates
  <2>5. ASSUME NEW x \in ScheduleId, schedule'[x] # None, NEW c \in schedule'[x].cron,
               schedule'[x].createdAt < c,
               c < schedule'[x].nextRunAt \/ schedule'[x].lastRunAt = schedule'[x].nextRunAt
        PROVE  promise'[FiringId(x, schedule'[x].template, c)].state # "absent"
    <3>1. CASE x # s
      <4>1. schedule'[x] = schedule[x]
        BY <2>1, <3>1 DEF Moves
      <4>2. There(x, c)
        BY <1>0, <2>5, <4>1 DEF HasEnded
      <4>3. FiringId(x, schedule[x].template, c) \in Id
        BY <2>5, <4>1, FiringIdType
      <4> QED BY <2>3, <4>1, <4>2, <4>3
    <3>2. CASE x = s
      <4>1. /\ schedule'[s].cron = schedule[s].cron /\ schedule'[s].template = schedule[s].template
            /\ schedule'[s].createdAt = schedule[s].createdAt
        BY <2>1 DEF Moves
      <4>2. c \in schedule[s].cron /\ c \in Nat /\ schedule[s].createdAt < c
        BY <2>2, <2>5, <3>2, <4>1
      <4>3. c <= schedule[s].nextRunAt
        <5>1. CASE Following(s) = None
          BY <2>2, <4>2, <5>1, NextAfterFirst DEF Following
        <5>2. CASE Following(s) # None
          <6>1. /\ schedule'[s].nextRunAt = Following(s)
                /\ schedule'[s].lastRunAt = schedule[s].nextRunAt
            BY <2>1, <5>2 DEF Moves
          <6>2. /\ Following(s) \in Nat /\ Following(s) > schedule[s].nextRunAt
                /\ \A d \in schedule[s].cron : d > schedule[s].nextRunAt => Following(s) <= d
            BY <2>2, <5>2, NextAfterFirst DEF Following
          <6>3. c < Following(s)
            BY <2>2, <2>5, <3>2, <6>1, <6>2
          <6> QED BY <2>2, <4>2, <6>2, <6>3
        <5> QED BY <5>1, <5>2
      <4>4. CASE c = schedule[s].nextRunAt
        BY <2>1, <2>4, <3>2, <4>1, <4>4
      <4>5. CASE c < schedule[s].nextRunAt
        <5>1. There(s, c)
          BY <1>0, <2>1, <4>2, <4>5
        <5>2. FiringId(s, schedule[s].template, c) \in Id
          BY <2>1, <4>2, FiringIdType
        <5> QED BY <2>3, <3>2, <4>1, <5>1, <5>2
      <4> QED BY <2>2, <4>2, <4>3, <4>4, <4>5
    <3> QED BY <3>1, <3>2
  <2> QED BY <2>5 DEF NoFiringIsSkipped, HasEnded
<1>5. CASE UNCHANGED <<schedule, promise>>
  BY <1>5 DEF NoFiringIsSkipped, HasEnded
<1> QED BY <1>1, <1>2, <1>3, <1>4, <1>5, ScheduleStepKinds

\* Each time an expression names, between the creation of the schedule and its next
\* firing, has its promise: a worker that is late, or down, fires each of them
\* (fire_schedule, src/kernel.rs).
THEOREM FiringsAreNotSkipped == Spec => []NoFiringIsSkipped
<1>1. Init => NoFiringIsSkipped
  BY DEF Init, NoFiringIsSkipped
<1> QED BY <1>1, ScheduleInvInit, ScheduleInvStep, NoSkipStep, PTL DEF Spec

\* The promise a firing creates has the firing's id and deadline.
LEMMA FiringPromise ==
    ASSUME ScheduleInv, worker.pc = "claimed", Acts(worker.slot),
           FireSchedule(timer[worker.slot].id)
    PROVE  \/ promise' = promise
           \/ \E p \in Id : \E data :
                /\ Creates(p, data)
                /\ p[2] # None => p[2] \in Nat /\ p[2] <= now /\ data.timeoutAt >= p[2]
<1> DEFINE s == timer[worker.slot].id
           at == schedule[s].nextRunAt
<1>1. /\ Fires(s) /\ schedule[s] \in ScheduleRecord /\ at <= now /\ at <= MaxMillis
      /\ NextPromise(s) \in Id /\ NextPromise(s) = FiringId(s, schedule[s].template, at)
  BY ActingSchedule, FireEffect
<1> HIDE DEF s
<1>2. at \in Nat /\ schedule[s].timeout \in Nat
  BY <1>1 DEF ScheduleRecord
<1>3. NextPromise(s)[2] \in {at, None}
  BY <1>1 DEF FiringId
<1>4. FiringData(s).timeoutAt >= at
  BY <1>1, <1>2, SaturatingAddBound DEF FiringData
<1> HIDE DEF at
<1>5. NextPromise(s)[2] # None =>
        /\ NextPromise(s)[2] \in Nat /\ NextPromise(s)[2] <= now
        /\ FiringData(s).timeoutAt >= NextPromise(s)[2]
  BY <1>1, <1>2, <1>3, <1>4
<1> QED BY <1>1, <1>5 DEF Fires

\* No step creates a firing's promise before its time.
LEMMA NotEarlyStep ==
    ScheduleInv /\ NoFiringIsEarly /\ [Next]_vars => NoFiringIsEarly'
<1> SUFFICES ASSUME ScheduleInv, NoFiringIsEarly, [Next]_vars,
                    NEW s \in ScheduleId, NEW c, c \in (now' + 1) .. MaxMillis,
                    <<s, c>> \in Id, promise'[<<s, c>>].state # "absent"
             PROVE  promise'[<<s, c>>].tags.target = None
  BY DEF NoFiringIsEarly
<1>1. now \in Nat /\ now' \in Nat /\ MaxMillis \in Nat
  BY ScheduleInvStep, ScheduleAssumption DEF ScheduleInv, TypeOK
<1>2. c \in Nat /\ c > now' /\ <<s, c>>[2] = c /\ c # None
  <2> DEFINE m == now'
  <2>1. m \in Nat /\ MaxMillis \in Nat /\ c \in (m + 1) .. MaxMillis
    BY <1>1
  <2> HIDE DEF m
  <2>2. c \in Nat /\ c > m
    BY <2>1
  <2>3. c \in Nat /\ c > now'
    BY <2>2 DEF m
  <2>4. <<s, c>>[2] = c
    OBVIOUS
  <2>5. None \notin Int
    BY NoneAssumption
  <2> QED BY <2>3, <2>4, <2>5
<1>3. ASSUME now' >= now, promise'[<<s, c>>] = promise[<<s, c>>]
      PROVE  promise'[<<s, c>>].tags.target = None
  <2>1. c \in (now + 1) .. MaxMillis
    BY <1>1, <1>2, <1>3
  <2> QED BY <1>3, <2>1 DEF NoFiringIsEarly
<1>4. ASSUME NEW x \in ScheduleId, NEW data \in ScheduleData, ScheduleCreate(x, data)
      PROVE  promise'[<<s, c>>].tags.target = None
  BY <1>1, <1>3, <1>4 DEF ScheduleCreate
<1>5. ASSUME NEW x \in ScheduleId, ScheduleDelete(x)
      PROVE  promise'[<<s, c>>].tags.target = None
  BY <1>1, <1>3, <1>5 DEF ScheduleDelete
<1>6. ASSUME NEW p \in ClientId, NEW data \in PromiseData, Creates(p, data), now' = now
      PROVE  promise'[<<s, c>>].tags.target = None
  <2>1. CASE p = <<s, c>>
    BY <1>6, <2>1, ScheduleAssumption DEF Creates
  <2>2. CASE p # <<s, c>>
    BY <1>1, <1>3, <1>6, <2>2 DEF Creates
  <2> QED BY <2>1, <2>2
<1>7. ASSUME worker.pc = "claimed", Acts(worker.slot),
             FireSchedule(timer[worker.slot].id), now' = now
      PROVE  promise'[<<s, c>>].tags.target = None
  <2>1. CASE promise' = promise
    BY <1>1, <1>3, <1>7, <2>1
  <2>2. ASSUME NEW p \in Id, NEW data, Creates(p, data), p[2] # None => p[2] \in Nat /\ p[2] <= now
        PROVE  promise'[<<s, c>>].tags.target = None
    <3>1. p # <<s, c>>
      BY <1>1, <1>2, <1>7, <2>2
    <3> QED BY <1>1, <1>3, <1>7, <2>2, <3>1 DEF Creates
  <2> QED BY <1>7, <2>1, <2>2, FiringPromise
<1>8. CASE UNCHANGED <<schedule, promise>> /\ now' >= now
  BY <1>3, <1>8
<1> QED BY <1>4, <1>5, <1>6, <1>7, <1>8, ScheduleStepKinds

\* A schedule fires when its time has come and not before, although timers of an
\* earlier schedule with the same id are still in the queue: the timer worker
\* compares the time of its timer with next_run_at (src/timers.rs).
THEOREM FiringsAreNotEarly == Spec => []NoFiringIsEarly
<1>1. Init => NoFiringIsEarly
  <2> SUFFICES ASSUME Init, NEW s \in ScheduleId, NEW c \in (now + 1) .. MaxMillis,
                      <<s, c>> \in Id, promise[<<s, c>>].state # "absent"
               PROVE  promise[<<s, c>>].tags.target = None
    BY DEF NoFiringIsEarly
  <2> QED BY DEF Init, NoPromise
<1> QED BY <1>1, ScheduleInvInit, ScheduleInvStep, NotEarlyStep, PTL DEF Spec

\* No step creates a firing's promise with a deadline before its firing.
LEMMA DeadlineStep ==
    ScheduleInv /\ DeadlineAfterFiring /\ [Next]_vars => DeadlineAfterFiring'
<1> SUFFICES ASSUME ScheduleInv, DeadlineAfterFiring, [Next]_vars, NEW q \in Id,
                    promise'[q].tags.target # None, q[2] # None
             PROVE  promise'[q].timeoutAt >= q[2]
  BY DEF DeadlineAfterFiring
<1>1. ASSUME promise'[q] = promise[q] PROVE promise'[q].timeoutAt >= q[2]
  BY <1>1 DEF DeadlineAfterFiring
<1>2. ASSUME NEW x \in ScheduleId, NEW data \in ScheduleData, ScheduleCreate(x, data)
      PROVE  promise'[q].timeoutAt >= q[2]
  BY <1>1, <1>2 DEF ScheduleCreate
<1>3. ASSUME NEW x \in ScheduleId, ScheduleDelete(x) PROVE promise'[q].timeoutAt >= q[2]
  BY <1>1, <1>3 DEF ScheduleDelete
<1>4. ASSUME NEW p \in ClientId, NEW data \in PromiseData, Creates(p, data)
      PROVE  promise'[q].timeoutAt >= q[2]
  <2>1. p # q
    BY <1>4, ScheduleAssumption DEF Creates
  <2> QED BY <1>1, <1>4, <2>1 DEF Creates
<1>5. ASSUME worker.pc = "claimed", Acts(worker.slot), FireSchedule(timer[worker.slot].id)
      PROVE  promise'[q].timeoutAt >= q[2]
  <2>1. ASSUME NEW p \in Id, NEW data, Creates(p, data), p[2] # None => data.timeoutAt >= p[2]
        PROVE  promise'[q].timeoutAt >= q[2]
    BY <1>1, <2>1 DEF Creates
  <2> QED BY <1>1, <1>5, <2>1, FiringPromise
<1>6. CASE UNCHANGED <<schedule, promise>>
  BY <1>1, <1>6
<1> QED BY <1>2, <1>3, <1>4, <1>5, <1>6, ScheduleStepKinds

\* The deadline of a schedule's promise is not before its firing, however long the
\* timeout: the sum saturates (saturating_add in fire_schedule, src/kernel.rs).
THEOREM DeadlineFollowsFiring == Spec => []DeadlineAfterFiring
<1>1. Init => DeadlineAfterFiring
  <2>1. NoPromise.tags.target = None
    BY DEF NoPromise
  <2> QED BY <2>1 DEF Init, DeadlineAfterFiring
<1> QED BY <1>1, ScheduleInvInit, ScheduleInvStep, DeadlineStep, PTL DEF Spec
=============================================================================
