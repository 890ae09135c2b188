------------------------------- MODULE Search -------------------------------
(***************************************************************************)
(* What a client reads of many records at once (src/kernel.rs,             *)
(* src/txn.rs): the search requests, whose pages a client walks with a     *)
(* cursor while other requests create, change and delete records, and the  *)
(* preload, the promises of a branch that come with a task.                *)
(*                                                                         *)
(* A request is one step: it runs under the store's lock, and the scans it *)
(* makes read one state of the queue.  Between two pages of a walk         *)
(* anything may happen.  Ids are numbers, in the order of the keys.        *)
(***************************************************************************)
EXTENDS Integers, SequencesExt

CONSTANTS
    Id,             \* ids, in order
    Kinds,          \* the records that are searched
    Tag,            \* the tags clients search for, as keys and values
    Shapes,         \* the tags and branches that records are created with
    SearchStates,   \* the states clients search for
    Limits,         \* the limits clients ask for, valid or not
    DefaultLimit,   \* the limit of a search that names none
    MaxSearchLimit, \* the largest valid limit
    PreloadLimit,   \* the largest number of promises in a preload
    Deadlines,      \* deadlines of promises
    MaxTime,        \* bound on the clock
    MaxChanges,     \* bound on the changes of records
    None

States == [promise  |-> {"pending", "resolved", "rejected_timedout"},
           task     |-> {"pending", "acquired", "fulfilled"},
           schedule |-> {"scheduled"}]

\* What a record may be: a promise, a task or a schedule.
Record == [state     : UNION {States[k] : k \in DOMAIN States},
           tags      : {s.tags : s \in Shapes} \cup {{}},
           timeoutAt : Deadlines \cup {0},
           branch    : {s.branch : s \in Shapes} \cup {None}]

ASSUME SearchAssumption ==
    /\ Id \subseteq Nat /\ IsFiniteSet(Id)
    /\ None \notin Id /\ None \notin Record
    /\ Kinds \subseteq DOMAIN States
    /\ Limits \subseteq Int \cup {None}
    /\ MaxSearchLimit \in Nat /\ DefaultLimit \in 1 .. MaxSearchLimit
    /\ PreloadLimit \in Nat
    /\ Deadlines \subseteq Nat /\ MaxTime \in Nat /\ MaxChanges \in Nat

VARIABLES
    now,        \* the queue's clock
    kind,       \* the kind of the records, which does not change
    record,     \* the records of the kind
    walk,       \* a client's walk through the pages of a search
    reply,      \* the ids in the reply to the last request, and what it was
    changes     \* the changes so far

vars == <<now, kind, record, walk, reply, changes>>

\* A record that is written.
NewRecord(state, tags, timeoutAt, branch) ==
    [state |-> state, tags |-> tags, timeoutAt |-> timeoutAt, branch |-> branch]

\* No walk.  `steady' is what matched the search at every moment of the walk.
Idle == [pc |-> "idle", state |-> None, tags |-> None, limit |-> 0,
         cursor |-> None, seen |-> <<>>, steady |-> {}]

NoReply == [to |-> "nothing", ids |-> <<>>, own |-> None]

Init ==
    /\ now = 0 /\ kind \in Kinds
    /\ record = [i \in Id |-> None]
    /\ walk = Idle /\ reply = NoReply
    /\ changes = 0

-----------------------------------------------------------------------------
\* Every pair of the filter is a tag of the record.
TagsMatch(tags, filter) == filter = None \/ filter \subseteq tags

\* The records of a search.  A task has no tags and a schedule no state to search by.
Matching(r, w) ==
    {i \in Id : /\ r[i] # None
                /\ w.state = None \/ kind = "schedule" \/ r[i].state = w.state
                /\ kind = "task" \/ TagsMatch(r[i].tags, w.tags)}

\* Ids in the order of the keys, in which every scan reads them.
InOrder(S) ==
    [n \in 1 .. Cardinality(S) |->
        CHOOSE i \in S : Cardinality({j \in S : j < i}) = n - 1]

First(n, seq) == SubSeq(seq, 1, Min({n, Len(seq)}))

\* The limit of a search, None when it is not valid.
SearchLimit(limit) ==
    IF limit = None THEN DefaultLimit
    ELSE IF limit \in 1 .. MaxSearchLimit THEN limit ELSE None

\* Mutants: a page begins with the cursor's record, and the cursor is the first
\* record that was left out.
PageFromCursor(S, cursor, limit) ==
    LET rest == InOrder({i \in S : cursor = None \/ i >= cursor})
    IN  IF Len(rest) > limit
        THEN [ids |-> First(limit, rest), next |-> rest[limit]]
        ELSE [ids |-> rest, next |-> None]

PageNamesNext(S, cursor, limit) ==
    LET rest == InOrder({i \in S : cursor = None \/ i > cursor})
    IN  IF Len(rest) > limit
        THEN [ids |-> First(limit, rest), next |-> rest[limit + 1]]
        ELSE [ids |-> rest, next |-> None]

\* The records after the cursor, up to the limit, and the cursor of the next page
\* when there are more.
Page(S, cursor, limit) ==
    LET rest == InOrder({i \in S : cursor = None \/ i > cursor})
    IN  IF Len(rest) > limit
        THEN [ids |-> First(limit, rest), next |-> rest[limit]]
        ELSE [ids |-> rest, next |-> None]

-----------------------------------------------------------------------------
(* Search requests                                                         *)

\* One page of the walk w.
NextPage(w) ==
    LET page == Page(Matching(record, w), w.cursor, w.limit)
    IN  /\ walk' = [w EXCEPT !.pc = IF page.next = None THEN "done" ELSE "walking",
                             !.cursor = page.next,
                             !.seen = w.seen \o page.ids]
        /\ reply' = [to |-> "search", ids |-> page.ids, own |-> None]
        /\ UNCHANGED <<now, kind, record, changes>>

\* The first page of a search by state, by tags or by both.  A limit that is not
\* valid is refused.
SearchFirst(state, tags, limit) ==
    LET w == [Idle EXCEPT !.state = state, !.tags = tags,
                          !.limit = SearchLimit(limit)]
    IN  /\ walk.pc = "idle" /\ SearchLimit(limit) # None
        /\ NextPage([w EXCEPT !.steady = Matching(record, w)])

SearchNext == walk.pc = "walking" /\ NextPage(walk)

-----------------------------------------------------------------------------
(* Requests and timers that change records                                 *)

\* The records are now r.
Changed(r) ==
    /\ changes < MaxChanges /\ changes' = changes + 1
    /\ record' = r
    /\ walk' = [walk EXCEPT !.steady = @ \cap Matching(r, walk)]
    /\ UNCHANGED <<now, kind>>

\* A promise created after its deadline is created settled.
CreatedPromise(tags, timeoutAt, branch) ==
    NewRecord(IF now >= timeoutAt THEN "rejected_timedout" ELSE "pending",
              tags, timeoutAt, branch)

Expired(r, p) == r[p] # None /\ r[p].state = "pending" /\ now >= r[p].timeoutAt

\* The deadlines of the named promises applied.
TryTimeout(r, ids) ==
    [p \in Id |-> IF p \in ids /\ Expired(r, p)
                  THEN [r[p] EXCEPT !.state = "rejected_timedout"] ELSE r[p]]

PromiseCreate(p, tags, timeoutAt, branch) ==
    /\ kind = "promise" /\ record[p] = None
    /\ Changed([record EXCEPT ![p] = CreatedPromise(tags, timeoutAt, branch)])
    /\ reply' = NoReply

\* A client's settlement, or the deadline when that has passed.
PromiseSettle(p) ==
    LET r == TryTimeout(record, {p})
    IN  /\ kind = "promise" /\ record[p] # None /\ record[p].state = "pending"
        /\ Changed(IF r[p].state = "pending"
                   THEN [r EXCEPT ![p].state = "resolved"] ELSE r)
        /\ reply' = NoReply

TaskChange(t, state) ==
    /\ kind = "task" /\ (record[t] # None => record[t].state # "fulfilled")
    /\ Changed([record EXCEPT ![t] = NewRecord(state, {}, 0, None)])
    /\ reply' = NoReply

ScheduleCreate(s, tags) ==
    /\ kind = "schedule" /\ record[s] = None
    /\ Changed([record EXCEPT ![s] = NewRecord("scheduled", tags, 0, None)])
    /\ reply' = NoReply

ScheduleDelete(s) ==
    /\ kind = "schedule" /\ record[s] # None
    /\ Changed([record EXCEPT ![s] = None])
    /\ reply' = NoReply

-----------------------------------------------------------------------------
(* Preload                                                                 *)

\* The index entries of a branch that are in r.
Entries(r, branch) == {p \in Id : r[p] # None /\ r[p].branch = branch}

\* Mutant: what this request created comes after what was there.
PreloadAppended(committed, written, own) ==
    LET scan == First(PreloadLimit + 1, InOrder(committed \ {own}))
        ids  == scan \o InOrder(written \ (committed \cup {own}))
    IN  First(PreloadLimit, ids)

\* The scan of the committed entries ends when it has one more than the limit;
\* the entries this request writes are added, sorted in and the end cut off.
Preload(committed, written, own) ==
    LET scan == First(PreloadLimit + 1, InOrder(committed \ {own}))
        ids  == InOrder(Range(scan) \cup (written \ {own}))
    IN  First(PreloadLimit, ids)

\* The preload of a task's promise when the request made `record' into r.
PreloadReply(r, own) ==
    [to  |-> "preload", own |-> own,
     ids |-> IF r[own].branch = None THEN <<>>
             ELSE Preload(Entries(record, r[own].branch),
                          Entries(r, r[own].branch) \ Entries(record, r[own].branch),
                          own)]

\* The tasks that are not fulfilled: those of pending promises.
HasTask(r, t) == kind = "promise" /\ r[t] # None /\ r[t].state = "pending"

\* A task is acquired, or refuses to suspend: its promise comes with a preload.
TaskView(t) ==
    LET r == TryTimeout(record, {t})
    IN  /\ HasTask(r, t)
        /\ reply' = PreloadReply(r, t)
        /\ UNCHANGED <<now, kind, record, walk, changes>>

\* A fenced creation: the deadlines of both promises come first, and a promise
\* that exists is not created.
TaskFence(t, p, tags, timeoutAt, branch) ==
    LET r == TryTimeout(record, {t, p})
        w == IF r[p] # None THEN r
             ELSE [r EXCEPT ![p] = CreatedPromise(tags, timeoutAt, branch)]
    IN  /\ t # p /\ HasTask(r, t)
        /\ Changed(w)
        /\ reply' = PreloadReply(w, t)

Tick ==
    /\ now < MaxTime
    /\ now' = now + 1 /\ reply' = NoReply
    /\ UNCHANGED <<kind, record, walk, changes>>

Next ==
    \/ \E limit \in Limits, tags \in {None, Tag},
          state \in SearchStates \cup {None} : SearchFirst(state, tags, limit)
    \/ SearchNext
    \/ \E i \in Id, s \in Shapes :
          \/ \E timeoutAt \in Deadlines :
                \/ PromiseCreate(i, s.tags, timeoutAt, s.branch)
                \/ \E t \in Id : TaskFence(t, i, s.tags, timeoutAt, s.branch)
          \/ ScheduleCreate(i, s.tags)
    \/ \E i \in Id : PromiseSettle(i) \/ ScheduleDelete(i) \/ TaskView(i)
    \/ \E i \in Id, state \in States.task : TaskChange(i, state)
    \/ Tick

Spec == Init /\ [][Next]_vars

-----------------------------------------------------------------------------
\* No record that matches the search through the whole walk is left out, whatever
\* is created, changed or deleted between the pages: as far as the walk has come,
\* each of them has been seen.
WalkMissesNothing ==
    \A i \in walk.steady :
        /\ walk.pc = "done" \/ (walk.pc = "walking" /\ i <= walk.cursor)
        => i \in Range(walk.seen)

\* The pages of a walk hold no record twice and go up in id order.
WalkGoesForward ==
    \A m, n \in DOMAIN walk.seen : m < n => walk.seen[m] < walk.seen[n]

\* The preload of a request is the branch as the request leaves it: the first
\* promises of it in id order, the one just created among them, without the
\* task's own.
PreloadIsFirstOfBranch ==
    reply.to = "preload" =>
        LET siblings == {p \in Id : /\ record[p] # None /\ p # reply.own
                                    /\ record[p].branch # None
                                    /\ record[p].branch = record[reply.own].branch}
        IN  /\ \A p \in siblings :
                  p \in Range(reply.ids) <=>
                      Cardinality({q \in siblings : q < p}) < PreloadLimit
            /\ Range(reply.ids) \subseteq siblings
            /\ reply.ids = InOrder(Range(reply.ids))
=============================================================================
