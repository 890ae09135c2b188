---------------------------- MODULE NetworkProofs ----------------------------
(***************************************************************************)
(* Networks and their store: no delivery loop is left behind by starts and *)
(* stops that interleave, none is ended by a stop that did not take it,    *)
(* and none outlives its network, so that the store closes when the        *)
(* networks are gone.  A running loop is handled by a handle of its        *)
(* network, or by one that a stop has taken and not yet shut down.  That a *)
(* stop keeps the handle of the loop it waits for, that a task outside of  *)
(* a call has none, and that no handle is in two places, is the            *)
(* strengthening.                                                          *)
(***************************************************************************)
EXTENDS Network, TLAPS

Addresses == {Unicast[n] : n \in Net} \cup {Anycast[n] : n \in Net}

LoopRecord ==
    [pc : {"none", "claiming", "waiting", "delivering", "calling", "ended", "failed"},
     net : Net \cup {None}, address : Addresses \cup {None}, job : Job \cup {None},
     cancelled : BOOLEAN]

\* The types of what the handles are about.
HandlesTyped ==
    /\ callbacks \in [Net -> Nat]
    /\ workers \in [Net -> Seq(LoopId)]
    /\ caller \in [Caller -> [pc : {"idle", "stopping", "sending"}, net : Net \cup {None},
                              left : Seq(LoopId)]]
    /\ loop \in [LoopId -> LoopRecord]

\* Only a task that stops a network has handles, and a running loop has a network.
HandlesOK ==
    /\ \A c \in Caller : caller[c].pc # "stopping" => caller[c].left = <<>>
    /\ \A l \in LoopId : Running(l) => loop[l].net \in Net

LifecycleInv == HandlesTyped /\ HandlesOK /\ NoLoopIsLeftBehind

\* The handle of the loop is in the list.
In(l, s) == \E m \in DOMAIN s : s[m] = l

\* A loop that has a handle.
Handled(l, net, ws, cs) ==
    In(l, ws[net]) \/ \E c \in Caller : In(l, cs[c].left)

-----------------------------------------------------------------------------
(* Lists of handles                                                        *)

\* The handles of a pair of loops.
LEMMA InPair ==
    ASSUME NEW a, NEW b PROVE In(a, <<a, b>>) /\ In(b, <<a, b>>)
<1>1. DOMAIN <<a, b>> = 1 .. 2 /\ <<a, b>>[1] = a /\ <<a, b>>[2] = b
  OBVIOUS
<1>2. 1 \in 1 .. 2 /\ 2 \in 1 .. 2
  OBVIOUS
<1> QED BY <1>1, <1>2, Zenon DEF In

\* There are none in an empty list.
LEMMA InNone ==
    ASSUME NEW l PROVE ~In(l, <<>>)
BY DEF In

\* The handles that are left when the first one is shut down.
LEMMA InTail ==
    ASSUME NEW s \in Seq(LoopId), s # <<>>, NEW l, In(l, s), l # Head(s)
    PROVE  In(l, Tail(s))
<1>1. PICK m \in 1 .. Len(s) : s[m] = l
  BY DEF In
<1>2. m # 1
  BY <1>1
<1>3. m - 1 \in 1 .. Len(s) - 1 /\ Len(s) \in Nat
  BY <1>2
<1>4. m - 1 \in DOMAIN Tail(s) /\ Tail(s)[m - 1] = s[m]
  BY <1>2, <1>3
<1> QED BY <1>1, <1>4 DEF In

\* The property in terms of handles.
LEMMA LeftBehind ==
    NoLoopIsLeftBehind <=>
        \A l \in LoopId : Running(l) => Handled(l, loop[l].net, workers, caller)
BY DEF NoLoopIsLeftBehind, Handled, In

-----------------------------------------------------------------------------
(* The steps                                                               *)

\* A step that neither starts a loop nor gives one to another network, and leaves
\* the handles alone.
LoopChange ==
    /\ UNCHANGED <<workers, caller>>
    /\ HandlesTyped'
    /\ \A l \in LoopId : Running(l)' => Running(l) /\ loop'[l].net = loop[l].net

\* Such a step leaves no loop behind.
LEMMA LoopChangeInv ==
    ASSUME LifecycleInv, LoopChange PROVE LifecycleInv'
<1>1. HandlesOK'
  BY DEF LifecycleInv, HandlesOK, LoopChange
<1>2. \A l \in LoopId : Running(l)' => Handled(l, loop'[l].net, workers', caller')
  BY LeftBehind DEF LifecycleInv, LoopChange
<1>3. NoLoopIsLeftBehind'
  BY <1>2 DEF Handled, In, NoLoopIsLeftBehind
<1> QED BY <1>1, <1>3 DEF LifecycleInv, LoopChange

\* A running loop that takes a step leaves no loop behind.
LEMMA LoopSetInv ==
    ASSUME LifecycleInv, NEW l \in LoopId, NEW r \in LoopRecord,
           Running(l), r.net = loop[l].net, loop' = [loop EXCEPT ![l] = r],
           UNCHANGED <<callbacks, workers, caller>>
    PROVE  LifecycleInv'
<1>1. /\ loop' \in [LoopId -> LoopRecord]
      /\ \A i \in LoopId : loop'[i] = IF i = l THEN r ELSE loop[i]
  BY DEF LifecycleInv, HandlesTyped
<1>2. LoopChange
  BY <1>1 DEF LifecycleInv, HandlesTyped, LoopChange, Running
<1> QED BY <1>2, LoopChangeInv

\* The steps of the delivery loops.
LEMMA LoopStepInv ==
    ASSUME LifecycleInv, NEW l \in LoopId,
           LoopStep(l) \/ LoopLocks(l) \/ LoopClaimFails(l) \/ LoopDeliveryFails(l)
    PROVE  LifecycleInv'
<1> DEFINE Moved(pc) == [loop[l] EXCEPT !.pc = pc]
           Given(pc, j) == [loop[l] EXCEPT !.pc = pc, !.job = j]
<1>1. loop \in [LoopId -> LoopRecord] /\ loop[l] \in LoopRecord
  BY DEF LifecycleInv, HandlesTyped
<1>2. \A pc \in {"claiming", "waiting", "delivering", "calling", "ended", "failed"} :
        Moved(pc) \in LoopRecord /\ Moved(pc).net = loop[l].net
  BY <1>1 DEF LoopRecord
<1>3. \A pc \in {"claiming", "waiting", "delivering", "calling", "ended", "failed"}, j \in Job \cup {None} :
        Given(pc, j) \in LoopRecord /\ Given(pc, j).net = loop[l].net
  BY <1>1 DEF LoopRecord
<1>4. ASSUME NEW pc \in {"claiming", "waiting", "delivering", "calling", "ended", "failed"}, Running(l),
             loop' = [loop EXCEPT ![l].pc = pc], UNCHANGED <<callbacks, workers, caller>>
      PROVE  LifecycleInv'
  <2>1. loop' = [loop EXCEPT ![l] = Moved(pc)]
    BY <1>4
  <2> QED BY <1>2, <1>4, <2>1, LoopSetInv
<1>5. ASSUME NEW pc \in {"claiming", "waiting", "delivering", "calling", "ended", "failed"}, NEW j \in Job \cup {None},
             Running(l), loop' = [loop EXCEPT ![l].pc = pc, ![l].job = j],
             UNCHANGED <<callbacks, workers, caller>>
      PROVE  LifecycleInv'
  <2>1. loop' = [loop EXCEPT ![l] = Given(pc, j)]
    BY <1>1, <1>5
  <2> QED BY <1>3, <1>5, <2>1, LoopSetInv
<1> HIDE DEF Moved, Given
<1>6. CASE LoopEnds(l)
  BY <1>4, <1>6 DEF LoopEnds, Idle, Running
<1>7. CASE LoopDelivers(l)
  BY <1>4, <1>7 DEF LoopDelivers, Running
<1>8. CASE LoopCalls(l)
  BY <1>5, <1>8 DEF LoopCalls, Running
<1>9. ASSUME NEW j \in Job, LoopClaims(l, j) PROVE LifecycleInv'
  BY <1>5, <1>9 DEF LoopClaims, Idle, Running
<1>10. ASSUME NEW j \in Job, LoopDropsClaim(l, j) PROVE LifecycleInv'
  BY <1>4, <1>10 DEF LoopDropsClaim, Idle, Running
<1>11. CASE LoopClaimFails(l)
  BY <1>4, <1>11 DEF LoopClaimFails, Idle, Running
<1>12. CASE LoopDeliveryFails(l)
  BY <1>5, <1>12 DEF LoopDeliveryFails, Running
<1>13. CASE LoopLocks(l)
  BY <1>4, <1>13 DEF LoopLocks, Running
<1> QED BY <1>6, <1>7, <1>8, <1>9, <1>10, <1>11, <1>12, <1>13 DEF LoopStep

\* A start hands the loops it spawns to its network, which had none.
LEMMA StartInv ==
    ASSUME LifecycleInv, NEW c \in Caller, NEW n \in Net, Start(c, n) PROVE LifecycleInv'
<1> DEFINE k == CHOOSE i \in Unused : TRUE
<1>1. /\ k \in LoopId /\ k + 1 \in LoopId /\ k # k + 1
      /\ loop[k].pc = "none" /\ loop[k + 1].pc = "none"
  <2>1. k \in Unused
    BY DEF Start
  <2> HIDE DEF k
  <2>2. k \in Nat
    BY <2>1, NetworkAssumption DEF Unused
  <2>3. k # k + 1
    BY <2>2
  <2> QED BY <2>1, <2>3 DEF Unused
<1>2. /\ loop' = [loop EXCEPT ![k] = NewLoop(n, Unicast[n]), ![k + 1] = NewLoop(n, Anycast[n])]
      /\ workers' = [workers EXCEPT ![n] = <<k, k + 1>>]
      /\ workers[n] = <<>>
      /\ UNCHANGED <<callbacks, caller>>
  BY DEF Start
<1> HIDE DEF k
<1>3. <<k, k + 1>> \in Seq(LoopId)
  BY <1>1
<1>4. Unicast[n] \in Addresses /\ Anycast[n] \in Addresses
  BY DEF Addresses
<1>5. ASSUME NEW a \in Addresses PROVE NewLoop(n, a) \in LoopRecord /\ NewLoop(n, a).net = n
  <2>1. NoLoop \in LoopRecord
    BY DEF NoLoop, LoopRecord
  <2> QED BY <2>1 DEF NewLoop, LoopRecord
<1>6. /\ loop' \in [LoopId -> LoopRecord]
      /\ loop'[k].net = n /\ loop'[k + 1].net = n
      /\ \A l \in LoopId : l \notin {k, k + 1} => loop'[l] = loop[l]
  <2>1. /\ NewLoop(n, Unicast[n]) \in LoopRecord /\ NewLoop(n, Unicast[n]).net = n
        /\ NewLoop(n, Anycast[n]) \in LoopRecord /\ NewLoop(n, Anycast[n]).net = n
    BY <1>4, <1>5
  <2>2. loop \in [LoopId -> LoopRecord]
    BY DEF LifecycleInv, HandlesTyped
  <2> QED BY <1>1, <1>2, <2>1, <2>2
<1>7. HandlesTyped'
  BY <1>1, <1>2, <1>3, <1>6 DEF LifecycleInv, HandlesTyped
<1>8. HandlesOK'
  BY <1>2, <1>6 DEF LifecycleInv, HandlesOK, Running
<1>9. ASSUME NEW l \in LoopId, Running(l)' PROVE Handled(l, loop'[l].net, workers', caller')
  <2>1. workers'[n] = <<k, k + 1>>
    BY <1>2 DEF LifecycleInv, HandlesTyped
  <2>2. CASE l \in {k, k + 1}
    BY ZenonT(60), <1>6, <2>1, <2>2, InPair DEF Handled
  <2>3. CASE l \notin {k, k + 1}
    <3>1. Running(l) /\ loop'[l] = loop[l]
      BY <1>6, <1>9, <2>3 DEF Running
    <3>2. Handled(l, loop[l].net, workers, caller) /\ loop[l].net \in Net
      BY <3>1, LeftBehind DEF LifecycleInv, HandlesOK
    <3>3. CASE loop[l].net = n
      BY <1>2, <3>1, <3>2, <3>3, InNone DEF Handled
    <3>4. CASE loop[l].net # n
      <4>1. workers'[loop[l].net] = workers[loop[l].net]
        BY <1>2, <3>2, <3>4 DEF LifecycleInv, HandlesTyped
      <4> QED BY <1>2, <3>1, <3>2, <4>1 DEF Handled
    <3> QED BY <3>3, <3>4
  <2> QED BY <2>2, <2>3
<1>10. NoLoopIsLeftBehind'
  BY <1>9 DEF Handled, In, NoLoopIsLeftBehind
<1> QED BY <1>7, <1>8, <1>10 DEF LifecycleInv

\* A stop takes the handles of its network all at once.
LEMMA StopTakesInv ==
    ASSUME LifecycleInv, NEW c \in Caller, NEW n \in Net, StopTakes(c, n) PROVE LifecycleInv'
<1>1. /\ caller[c].pc = "idle"
      /\ caller' = [caller EXCEPT ![c] = [pc |-> "stopping", net |-> n, left |-> workers[n]]]
      /\ workers' = [workers EXCEPT ![n] = <<>>]
      /\ UNCHANGED <<callbacks, loop>>
  BY DEF StopTakes
<1>2. caller[c].left = <<>>
  BY <1>1 DEF LifecycleInv, HandlesOK
<1>3. workers[n] \in Seq(LoopId) /\ <<>> \in Seq(LoopId)
  BY DEF LifecycleInv, HandlesTyped
<1>4. /\ caller'[c].left = workers[n] /\ caller'[c].pc = "stopping"
      /\ \A d \in Caller : d # c => caller'[d] = caller[d]
      /\ \A m \in Net : m # n => workers'[m] = workers[m]
  BY <1>1 DEF LifecycleInv, HandlesTyped
<1>5. HandlesTyped'
  BY <1>1, <1>3 DEF LifecycleInv, HandlesTyped
<1>6. HandlesOK'
  BY <1>1, <1>4 DEF LifecycleInv, HandlesOK, Running
<1>7. ASSUME NEW l \in LoopId, Running(l)' PROVE Handled(l, loop'[l].net, workers', caller')
  <2>1. Running(l) /\ loop'[l].net = loop[l].net
    BY <1>1, <1>7 DEF Running
  <2>2. Handled(l, loop[l].net, workers, caller) /\ loop[l].net \in Net
    BY <2>1, LeftBehind DEF LifecycleInv, HandlesOK
  <2>3. CASE In(l, workers[loop[l].net])
    BY <1>4, <2>1, <2>2, <2>3 DEF Handled
  <2>4. CASE \E d \in Caller : In(l, caller[d].left)
    <3>1. PICK d \in Caller : In(l, caller[d].left)
      BY <2>4
    <3>2. d # c
      BY <1>2, <3>1, InNone
    <3> QED BY <1>4, <3>1, <3>2 DEF Handled
  <2> QED BY <2>2, <2>3, <2>4 DEF Handled
<1>8. NoLoopIsLeftBehind'
  BY <1>7 DEF Handled, In, NoLoopIsLeftBehind
<1> QED BY <1>5, <1>6, <1>8 DEF LifecycleInv

\* A stop lets go of a handle when its loop has ended.
LEMMA StopJoinsInv ==
    ASSUME LifecycleInv, NEW c \in Caller, StopJoins(c) PROVE LifecycleInv'
<1> DEFINE s == caller[c].left
<1>1. /\ caller[c].pc = "stopping" /\ s # <<>> /\ loop[Head(s)].pc \in {"ended", "failed"}
      /\ caller' = [caller EXCEPT ![c].left = Tail(s)]
      /\ UNCHANGED <<callbacks, workers, loop>>
  BY DEF StopJoins, LifecycleInv, HandlesTyped
<1>2. s \in Seq(LoopId)
  BY DEF LifecycleInv, HandlesTyped
<1>3. Tail(s) \in Seq(LoopId)
  BY <1>1, <1>2
<1>4. /\ caller'[c].left = Tail(s) /\ caller'[c].pc = "stopping"
      /\ \A d \in Caller : d # c => caller'[d] = caller[d]
  BY <1>1 DEF LifecycleInv, HandlesTyped
<1>5. HandlesTyped'
  BY <1>1, <1>3 DEF LifecycleInv, HandlesTyped
<1>6. HandlesOK'
  BY <1>1, <1>4 DEF LifecycleInv, HandlesOK, Running
<1> HIDE DEF s
<1>7. ASSUME NEW l \in LoopId, Running(l)' PROVE Handled(l, loop'[l].net, workers', caller')
  <2>1. Running(l) /\ loop'[l].net = loop[l].net
    BY <1>1, <1>7 DEF Running
  <2>2. Handled(l, loop[l].net, workers, caller)
    BY <2>1, LeftBehind DEF LifecycleInv
  <2>3. ASSUME NEW d \in Caller, In(l, caller[d].left) PROVE In(l, caller'[d].left)
    <3>1. CASE d # c
      BY <1>4, <2>3, <3>1
    <3>2. CASE d = c
      <4>1. l # Head(s)
        BY <1>1, <2>1 DEF Running
      <4> QED BY <1>1, <1>2, <1>4, <2>3, <3>2, <4>1, InTail DEF s
    <3> QED BY <3>1, <3>2
  <2> QED BY <1>1, <2>1, <2>2, <2>3 DEF Handled
<1>8. NoLoopIsLeftBehind'
  BY <1>7 DEF Handled, In, NoLoopIsLeftBehind
<1> QED BY <1>5, <1>6, <1>8 DEF LifecycleInv

\* A stop that returns has no handle left.
LEMMA StopClearsInv ==
    ASSUME LifecycleInv, NEW c \in Caller, StopClears(c) PROVE LifecycleInv'
<1>1. /\ caller[c].left = <<>> /\ caller' = [caller EXCEPT ![c] = NoCall]
      /\ callbacks' = [callbacks EXCEPT ![caller[c].net] = 0]
      /\ UNCHANGED <<workers, loop>>
  BY DEF StopClears
<1>2. NoCall = [pc |-> "idle", net |-> None, left |-> <<>>]
  BY DEF NoCall
<1>3. /\ caller'[c] = NoCall
      /\ \A d \in Caller : d # c => caller'[d] = caller[d]
  BY <1>1 DEF LifecycleInv, HandlesTyped
<1>4. HandlesTyped'
  BY <1>1, <1>2 DEF LifecycleInv, HandlesTyped
<1>5. HandlesOK'
  BY <1>1, <1>2, <1>3 DEF LifecycleInv, HandlesOK, Running
<1>6. \A d \in Caller : caller'[d].left = caller[d].left
  BY <1>1, <1>2, <1>3
<1>7. NoLoopIsLeftBehind'
  BY <1>1, <1>6 DEF LifecycleInv, NoLoopIsLeftBehind, Running
<1> QED BY <1>4, <1>5, <1>7 DEF LifecycleInv

\* A task that sends a request has no handles.
LEMMA SendInv ==
    ASSUME LifecycleInv, NEW c \in Caller,
           SendReturns(c) \/ \E n \in Net : SendLocks(c, n)
    PROVE  LifecycleInv'
<1>1. PICK r \in [pc : {"idle", "sending"}, net : Net \cup {None}, left : {<<>>}] :
        caller' = [caller EXCEPT ![c] = r] /\ caller[c].left = <<>>
  <2>1. CASE SendReturns(c)
    <3>1. caller[c].left = <<>> /\ caller' = [caller EXCEPT ![c] = NoCall]
      BY <2>1 DEF SendReturns, LifecycleInv, HandlesOK
    <3> QED BY <3>1 DEF NoCall
  <2>2. ASSUME NEW n \in Net, SendLocks(c, n)
        PROVE  /\ caller[c].left = <<>>
               /\ caller' = [caller EXCEPT ![c] = [pc |-> "sending", net |-> n, left |-> <<>>]]
    BY <2>2 DEF SendLocks, LifecycleInv, HandlesOK
  <2> QED BY <2>1, <2>2
<1>2. UNCHANGED <<callbacks, workers, loop>>
  BY DEF SendReturns, SendLocks
<1>3. /\ caller'[c] = r
      /\ \A d \in Caller : d # c => caller'[d] = caller[d]
  BY <1>1 DEF LifecycleInv, HandlesTyped
<1>4. HandlesTyped'
  BY <1>1, <1>2 DEF LifecycleInv, HandlesTyped
<1>5. HandlesOK'
  BY <1>1, <1>2, <1>3 DEF LifecycleInv, HandlesOK, Running
<1>6. \A d \in Caller : caller'[d].left = caller[d].left
  BY <1>1, <1>3
<1>7. NoLoopIsLeftBehind'
  BY <1>2, <1>6 DEF LifecycleInv, NoLoopIsLeftBehind, Running
<1> QED BY <1>4, <1>5, <1>7 DEF LifecycleInv

\* No step leaves a loop behind.
LEMMA LifecycleStep == LifecycleInv /\ [Next]_vars => LifecycleInv'
<1> SUFFICES ASSUME LifecycleInv, [Next]_vars PROVE LifecycleInv'
  OBVIOUS
<1>1. ASSUME UNCHANGED <<workers, caller, loop>>, callbacks' \in [Net -> Nat]
      PROVE  LifecycleInv'
  <2>1. LoopChange
    BY <1>1 DEF LifecycleInv, HandlesTyped, LoopChange, Running
  <2> QED BY <2>1, LoopChangeInv
<1>2. ASSUME NEW n \in Net, Build(n) \/ Drop(n) PROVE LifecycleInv'
  <2>1. callbacks \in [Net -> Nat]
    BY DEF LifecycleInv, HandlesTyped
  <2>2. UNCHANGED <<workers, caller, loop>> /\ callbacks' \in [Net -> Nat]
    BY <1>2, <2>1 DEF Build, Drop
  <2> QED BY <1>1, <2>2
<1>3. ASSUME NEW c \in Caller, NEW n \in Net,
             Recv(c, n) \/ Start(c, n) \/ StopTakes(c, n) \/ SendLocks(c, n)
      PROVE  LifecycleInv'
  <2>1. CASE Recv(c, n)
    BY <1>1, <2>1 DEF Recv, LifecycleInv, HandlesTyped
  <2> QED BY <1>3, <2>1, StartInv, StopTakesInv, SendInv
<1>4. ASSUME NEW c \in Caller, StopStep(c) PROVE LifecycleInv'
  <2>1. CASE StopCancels(c)
    <3> DEFINE l == Head(caller[c].left)
               r == [loop[l] EXCEPT !.cancelled = TRUE]
    <3>1. caller[c].left \in Seq(LoopId) /\ caller[c].left # <<>>
      BY <2>1 DEF StopCancels, LifecycleInv, HandlesTyped
    <3>2. l \in LoopId
      BY <3>1
    <3>3. loop \in [LoopId -> LoopRecord] /\ loop[l] \in LoopRecord
      BY <3>2 DEF LifecycleInv, HandlesTyped
    <3>4. r \in LoopRecord /\ r.net = loop[l].net /\ r.pc = loop[l].pc
      BY <3>3 DEF LoopRecord
    <3>5. loop' = [loop EXCEPT ![l] = r] /\ UNCHANGED <<callbacks, workers, caller>>
      BY <2>1 DEF StopCancels
    <3> HIDE DEF l, r
    <3>6. /\ loop' \in [LoopId -> LoopRecord]
          /\ \A i \in LoopId : loop'[i] = IF i = l THEN r ELSE loop[i]
      BY <3>2, <3>3, <3>4, <3>5
    <3>7. LoopChange
      BY <3>4, <3>5, <3>6 DEF LifecycleInv, HandlesTyped, LoopChange, Running
    <3> QED BY <3>7, LoopChangeInv
  <2> QED BY <1>4, <2>1, StopJoinsInv, StopClearsInv DEF StopStep
<1>5. ASSUME NEW j \in Job, Reap(j) \/ LeaseEnds(j) PROVE LifecycleInv'
  BY <1>1, <1>5 DEF Reap, LeaseEnds, LifecycleInv, HandlesTyped
<1>6. CASE TimerLocks \/ TimerFires \/ CloseBegins \/ CloseEnds \/ UNCHANGED vars
  BY <1>1, <1>6 DEF TimerLocks, TimerFires, CloseBegins, CloseEnds, vars, LifecycleInv, HandlesTyped
<1> QED BY <1>2, <1>3, <1>4, <1>5, <1>6, LoopStepInv, SendInv DEF Next

\* The handles to begin with.
LEMMA LifecycleInit == Init => LifecycleInv
<1> SUFFICES ASSUME Init PROVE LifecycleInv
  OBVIOUS
<1>1. HandlesTyped
  BY DEF Init, HandlesTyped, NoCall, NoLoop, LoopRecord
<1>2. HandlesOK /\ NoLoopIsLeftBehind
  BY DEF Init, HandlesOK, NoLoopIsLeftBehind, Running, NoCall, NoLoop
<1> QED BY <1>1, <1>2 DEF LifecycleInv

\* Every loop that runs is one that a stop can end or is ending, for any number of
\* networks, callers and loops: start and stop (src/network.rs) take the handles
\* under the network's mutex, and stop keeps each until its loop has ended.
THEOREM NoLoopLeftBehind == Spec => []NoLoopIsLeftBehind
<1>1. LifecycleInv => NoLoopIsLeftBehind
  BY DEF LifecycleInv
<1> QED BY <1>1, LifecycleInit, LifecycleStep, PTL DEF Spec

-----------------------------------------------------------------------------
(* Started networks                                                        *)

\* The loops of a pair serve the two addresses of the network.
PairServes(n, l) ==
    /\ l \in LoopId /\ l + 1 \in LoopId
    /\ LoopServes(l, n, Unicast[n]) /\ LoopServes(l + 1, n, Anycast[n])

\* The handles of a network are of such a pair.
Served(n) == n \in alive /\ \E l \in LoopId : workers[n] = <<l, l + 1>> /\ PairServes(n, l)

\* The inductive invariant of started networks: a stop that is in progress has no
\* handle that a network has.
ServedInv ==
    /\ \A n \in Net : workers[n] # <<>> => Served(n)
    /\ \A c \in Caller, l \in LoopId : In(l, caller[c].left) =>
          /\ loop[l].pc # "none"
          /\ \A n \in Net : ~In(l, workers[n])

\* A pair has no other handles.
LEMMA OnlyInPair ==
    ASSUME NEW a, NEW b, NEW l, In(l, <<a, b>>) PROVE l = a \/ l = b
<1>1. PICK m \in DOMAIN <<a, b>> : <<a, b>>[m] = l
  BY DEF In
<1>2. m = 1 \/ m = 2
  BY <1>1
<1> QED BY <1>1, <1>2

\* A handle that is left after the first is a handle.
LEMMA TailIn ==
    ASSUME NEW s \in Seq(LoopId), s # <<>>, NEW l, In(l, Tail(s))
    PROVE  In(l, s)
<1>1. PICK m \in 1 .. Len(s) - 1 : Tail(s)[m] = l
  BY DEF In
<1>2. m + 1 \in DOMAIN s /\ s[m + 1] = l
  BY <1>1
<1> QED BY <1>2 DEF In

\* The first handle is one.
LEMMA HeadIn ==
    ASSUME NEW s \in Seq(LoopId), s # <<>> PROVE Head(s) \in LoopId /\ In(Head(s), s)
<1>1. 1 \in DOMAIN s /\ s[1] = Head(s) /\ s[1] \in LoopId
  OBVIOUS
<1> QED BY <1>1 DEF In

\* A handle of a network is of a loop that serves it.
LEMMA HandleServes ==
    ASSUME ServedInv, NEW n \in Net, NEW l, In(l, workers[n])
    PROVE  /\ l \in LoopId /\ loop[l].net = n /\ loop[l].pc # "none"
           /\ ~loop[l].cancelled
<1>1. workers[n] # <<>>
  BY InNone
<1>2. PICK k \in LoopId : workers[n] = <<k, k + 1>> /\ PairServes(n, k)
  BY <1>1 DEF ServedInv, Served
<1>3. l = k \/ l = k + 1
  BY <1>2, OnlyInPair
<1> QED BY <1>2, <1>3 DEF PairServes, LoopServes, Running

\* The handles do not change, and the loops of networks go on to serve them.
LEMMA ServedGoesOn ==
    ASSUME ServedInv, UNCHANGED <<workers, caller>>,
           \A n \in Net : n \in alive /\ workers[n] # <<>> => n \in alive',
           \A l \in LoopId : loop[l].pc # "none" => loop'[l].pc # "none",
           \A n \in Net, l \in LoopId : \A a \in {Unicast[n], Anycast[n]} :
              In(l, workers[n]) /\ LoopServes(l, n, a) => LoopServes(l, n, a)'
    PROVE  ServedInv'
<1>1. ASSUME NEW n \in Net, workers[n] # <<>> PROVE Served(n)'
  <2>1. PICK l \in LoopId : workers[n] = <<l, l + 1>> /\ PairServes(n, l)
    BY <1>1 DEF ServedInv, Served
  <2>2. In(l, workers[n]) /\ In(l + 1, workers[n])
    BY <2>1, InPair
  <2>3. PairServes(n, l)'
    BY <2>1, <2>2 DEF PairServes
  <2>4. n \in alive'
    BY <1>1 DEF ServedInv, Served
  <2> QED BY <2>1, <2>3, <2>4 DEF Served
<1> QED BY <1>1 DEF ServedInv

\* A loop that takes a step serves its network as before, or its claim failed.
LEMMA LoopStepServed ==
    ASSUME HandlesTyped, ServedInv, NEW l \in LoopId,
           LoopStep(l) \/ LoopLocks(l) \/ LoopClaimFails(l) \/ LoopDeliveryFails(l)
    PROVE  ServedInv'
<1>1. loop \in [LoopId -> LoopRecord] /\ loop[l] \in LoopRecord
  BY DEF HandlesTyped
<1>2. UNCHANGED <<workers, caller, alive>>
  BY DEF LoopStep, LoopEnds, LoopDelivers, LoopCalls, LoopClaims, LoopDropsClaim,
         LoopLocks, LoopClaimFails, LoopDeliveryFails
<1>3. PICK r \in LoopRecord :
        /\ loop' = [loop EXCEPT ![l] = r]
        /\ r.net = loop[l].net /\ r.address = loop[l].address
        /\ r.cancelled = loop[l].cancelled /\ r.pc # "none"
        /\ r.cancelled \/ r.pc # "ended"
  <2> DEFINE Moved(pc) == [loop[l] EXCEPT !.pc = pc]
             Given(pc, j) == [loop[l] EXCEPT !.pc = pc, !.job = j]
             Fits(r) == /\ loop' = [loop EXCEPT ![l] = r]
                        /\ r.net = loop[l].net /\ r.address = loop[l].address
                        /\ r.cancelled = loop[l].cancelled /\ r.pc # "none"
                        /\ r.cancelled \/ r.pc # "ended"
             Goal == \E r \in LoopRecord : Fits(r)
  <2>1. ASSUME NEW pc \in {"claiming", "waiting", "delivering", "calling", "ended", "failed"},
               loop' = [loop EXCEPT ![l].pc = pc], loop[l].cancelled \/ pc # "ended"
        PROVE  Goal
    <3>1. Moved(pc) \in LoopRecord
      BY <1>1 DEF LoopRecord
    <3>2. Fits(Moved(pc))
      BY <1>1, <2>1 DEF LoopRecord
    <3> QED BY <3>1, <3>2
  <2>2. ASSUME NEW pc \in {"claiming", "waiting", "delivering", "calling", "failed"}, NEW j \in Job \cup {None},
               loop' = [loop EXCEPT ![l].pc = pc, ![l].job = j]
        PROVE  Goal
    <3>1. Given(pc, j) \in LoopRecord
      BY <1>1 DEF LoopRecord
    <3>2. loop' = [loop EXCEPT ![l] = Given(pc, j)]
      BY <1>1, <2>2
    <3>3. Fits(Given(pc, j))
      BY <1>1, <3>2 DEF LoopRecord
    <3> QED BY <3>1, <3>3
  <2> HIDE DEF Goal
  <2>3. ASSUME NEW j \in Job, LoopClaims(l, j) PROVE Goal
    BY <2>2, <2>3 DEF LoopClaims
  <2>4. ASSUME NEW j \in Job, LoopDropsClaim(l, j) PROVE Goal
    BY <2>1, <2>4 DEF LoopDropsClaim
  <2>5. ASSUME LoopEnds(l) \/ LoopLocks(l) \/ LoopDelivers(l) PROVE Goal
    BY <2>1, <2>5 DEF LoopEnds, LoopLocks, LoopDelivers
  <2>6. ASSUME LoopCalls(l) \/ LoopDeliveryFails(l) PROVE Goal
    BY <2>2, <2>6 DEF LoopCalls, LoopDeliveryFails
  <2>7. ASSUME LoopClaimFails(l) PROVE Goal
    BY <2>1, <2>7 DEF LoopClaimFails
  <2>8. Goal
    BY <2>3, <2>4, <2>5, <2>6, <2>7 DEF LoopStep
  <2> QED BY <2>8 DEF Goal
<1>4. /\ loop'[l] = r
      /\ \A i \in LoopId : i # l => loop'[i] = loop[i]
  BY <1>1, <1>3
<1>5. r.pc \in {"claiming", "waiting", "delivering", "calling", "ended", "failed"}
  BY <1>3 DEF LoopRecord
<1>6. \A i \in LoopId : loop[i].pc # "none" => loop'[i].pc # "none"
  BY <1>3, <1>4
<1>7. ASSUME NEW n \in Net, NEW i \in LoopId, NEW a \in {Unicast[n], Anycast[n]},
             LoopServes(i, n, a)
      PROVE  LoopServes(i, n, a)'
  BY <1>3, <1>4, <1>5, <1>7 DEF LoopServes, Running
<1> QED BY <1>2, <1>6, <1>7, ServedGoesOn

\* A start hands a pair of new loops to its network.
LEMMA StartServed ==
    ASSUME HandlesTyped, ServedInv, NEW c \in Caller, NEW n \in Net, Start(c, n)
    PROVE  ServedInv'
<1>1. PICK k :
        /\ k \in LoopId /\ k + 1 \in LoopId /\ k # k + 1
        /\ loop[k].pc = "none" /\ loop[k + 1].pc = "none"
        /\ loop' = [loop EXCEPT ![k] = NewLoop(n, Unicast[n]), ![k + 1] = NewLoop(n, Anycast[n])]
        /\ workers' = [workers EXCEPT ![n] = <<k, k + 1>>]
  <2>1. PICK k \in Unused :
          /\ loop' = [loop EXCEPT ![k] = NewLoop(n, Unicast[n]), ![k + 1] = NewLoop(n, Anycast[n])]
          /\ workers' = [workers EXCEPT ![n] = <<k, k + 1>>]
    BY DEF Start
  <2>2. k \in Nat
    BY <2>1, NetworkAssumption DEF Unused
  <2>3. k # k + 1
    BY <2>2
  <2>4. k \in LoopId /\ k + 1 \in LoopId /\ loop[k].pc = "none" /\ loop[k + 1].pc = "none"
    BY <2>1 DEF Unused
  <2> QED BY <2>1, <2>3, <2>4
<1>2. n \in alive /\ UNCHANGED <<alive, caller>>
  BY DEF Start
<1>3. /\ loop'[k] = NewLoop(n, Unicast[n]) /\ loop'[k + 1] = NewLoop(n, Anycast[n])
      /\ \A l \in LoopId : l \notin {k, k + 1} => loop'[l] = loop[l]
  BY <1>1 DEF HandlesTyped
<1>4. /\ workers'[n] = <<k, k + 1>>
      /\ \A m \in Net : m # n => workers'[m] = workers[m]
  BY <1>1 DEF HandlesTyped
<1>5. PairServes(n, k)'
  <2>1. ASSUME NEW a
        PROVE  /\ NewLoop(n, a).net = n /\ NewLoop(n, a).address = a
               /\ NewLoop(n, a).pc = "claiming" /\ NewLoop(n, a).cancelled = FALSE
    BY DEF NewLoop, NoLoop
  <2>2. ASSUME NEW l, NEW a, loop'[l] = NewLoop(n, a) PROVE LoopServes(l, n, a)'
    <3>1. /\ loop'[l].net = n /\ loop'[l].address = a
          /\ loop'[l].pc = "claiming" /\ loop'[l].cancelled = FALSE
      BY <2>1, <2>2
    <3> QED BY <3>1 DEF LoopServes, Running
  <2>3. LoopServes(k, n, Unicast[n])' /\ LoopServes(k + 1, n, Anycast[n])'
    BY <1>3, <2>2
  <2> QED BY <1>1, <2>3 DEF PairServes
<1>6. ASSUME NEW m \in Net, workers'[m] # <<>> PROVE Served(m)'
  <2>1. CASE m = n
    BY <1>1, <1>2, <1>4, <1>5, <2>1 DEF Served
  <2>2. CASE m # n
    <3>1. PICK l \in LoopId : workers[m] = <<l, l + 1>> /\ PairServes(m, l) /\ m \in alive
      BY <1>4, <1>6, <2>2 DEF ServedInv, Served
    <3>2. l \notin {k, k + 1} /\ l + 1 \notin {k, k + 1}
      BY <1>1, <3>1 DEF PairServes, LoopServes, Running
    <3>3. PairServes(m, l)'
      BY <1>3, <3>1, <3>2 DEF PairServes, LoopServes, Running
    <3> QED BY <1>2, <1>4, <2>2, <3>1, <3>3 DEF Served
  <2> QED BY <2>1, <2>2
<1>7. ASSUME NEW d \in Caller, NEW l \in LoopId, In(l, caller[d].left)
      PROVE  loop'[l].pc # "none" /\ \A m \in Net : ~In(l, workers'[m])
  <2>1. loop[l].pc # "none" /\ \A m \in Net : ~In(l, workers[m])
    BY <1>7 DEF ServedInv
  <2>2. l \notin {k, k + 1}
    BY <1>1, <2>1
  <2>3. ~In(l, <<k, k + 1>>)
    BY <2>2, OnlyInPair
  <2> QED BY <1>3, <1>4, <2>1, <2>2, <2>3
<1> QED BY <1>2, <1>6, <1>7 DEF ServedInv

\* A stop takes the handles from the network.
LEMMA StopTakesServed ==
    ASSUME HandlesTyped, ServedInv, NEW c \in Caller, NEW n \in Net, StopTakes(c, n)
    PROVE  ServedInv'
<1>1. /\ caller' = [caller EXCEPT ![c] = [pc |-> "stopping", net |-> n, left |-> workers[n]]]
      /\ workers' = [workers EXCEPT ![n] = <<>>]
      /\ UNCHANGED <<alive, loop>>
  BY DEF StopTakes
<1>2. /\ caller'[c].left = workers[n]
      /\ \A d \in Caller : d # c => caller'[d] = caller[d]
      /\ workers'[n] = <<>> /\ \A m \in Net : m # n => workers'[m] = workers[m]
  BY <1>1 DEF HandlesTyped
<1>3. ASSUME NEW m \in Net, workers'[m] # <<>> PROVE Served(m)'
  <2>1. workers'[m] = workers[m] /\ Served(m)
    BY <1>2, <1>3 DEF ServedInv
  <2>2. PICK l \in LoopId : workers[m] = <<l, l + 1>> /\ PairServes(m, l) /\ m \in alive
    BY <2>1 DEF Served
  <2>3. PairServes(m, l)'
    BY <1>1, <2>2 DEF PairServes, LoopServes, Running
  <2> QED BY <1>1, <2>1, <2>2, <2>3 DEF Served
<1>4. ASSUME NEW d \in Caller, NEW l \in LoopId, In(l, caller'[d].left), NEW m \in Net
      PROVE  loop'[l].pc # "none" /\ ~In(l, workers'[m])
  <2>1. In(l, workers'[m]) => m # n /\ In(l, workers[m])
    BY <1>2, InNone
  <2>2. CASE d # c
    BY <1>1, <1>2, <1>4, <2>1, <2>2 DEF ServedInv
  <2>3. CASE d = c
    <3>1. In(l, workers[n])
      BY <1>2, <1>4, <2>3
    <3>2. loop[l].net = n /\ loop[l].pc # "none"
      BY <3>1, HandleServes
    <3>3. In(l, workers[m]) => loop[l].net = m
      BY HandleServes
    <3> QED BY <1>1, <2>1, <3>2, <3>3
  <2> QED BY <2>2, <2>3
<1> QED BY <1>3, <1>4 DEF ServedInv

\* A stop asks a loop to end that no network has.
LEMMA StopCancelsServed ==
    ASSUME HandlesTyped, ServedInv, NEW c \in Caller, StopCancels(c) PROVE ServedInv'
<1>1. /\ caller[c].left # <<>>
      /\ loop' = [loop EXCEPT ![Head(caller[c].left)].cancelled = TRUE]
      /\ UNCHANGED <<workers, caller, alive>>
  BY DEF StopCancels
<1>2. PICK l \in LoopId : l = Head(caller[c].left) /\ In(l, caller[c].left)
  BY <1>1, HeadIn DEF HandlesTyped
<1>3. \A n \in Net : ~In(l, workers[n])
  BY <1>2 DEF ServedInv
<1>4. \A i \in LoopId : loop'[i].pc = loop[i].pc /\ (i # l => loop'[i] = loop[i])
  BY <1>1, <1>2 DEF HandlesTyped, LoopRecord
<1>5. ASSUME NEW n \in Net, NEW i \in LoopId, NEW a \in {Unicast[n], Anycast[n]},
             In(i, workers[n]), LoopServes(i, n, a)
      PROVE  LoopServes(i, n, a)'
  <2>1. loop'[i] = loop[i]
    BY <1>3, <1>4, <1>5
  <2> QED BY <1>5, <2>1 DEF LoopServes, Running
<1> QED BY <1>1, <1>4, <1>5, ServedGoesOn

\* A stop lets go of its handles one by one.
LEMMA StopGoesOnServed ==
    ASSUME HandlesTyped, ServedInv, NEW c \in Caller, StopJoins(c) \/ StopClears(c)
    PROVE  ServedInv'
<1>1. UNCHANGED <<workers, loop, alive>>
  BY DEF StopJoins, StopClears
<1>2. ASSUME NEW d \in Caller, NEW l \in LoopId, In(l, caller'[d].left)
      PROVE  In(l, caller[d].left)
  <2>1. CASE StopJoins(c)
    <3>1. caller[c].left # <<>> /\ caller[c].left \in Seq(LoopId)
      BY <2>1 DEF StopJoins, HandlesTyped
    <3>2. /\ caller'[c].left = Tail(caller[c].left)
          /\ d # c => caller'[d] = caller[d]
      BY <2>1 DEF StopJoins, HandlesTyped
    <3> QED BY <1>2, <3>1, <3>2, TailIn
  <2>2. CASE StopClears(c)
    <3>1. /\ caller'[c].left = <<>>
          /\ d # c => caller'[d] = caller[d]
      BY <2>2 DEF StopClears, HandlesTyped, NoCall
    <3> QED BY <1>2, <3>1, InNone
  <2> QED BY <2>1, <2>2
<1>3. ASSUME NEW n \in Net, workers[n] # <<>> PROVE Served(n)'
  BY <1>1, <1>3 DEF ServedInv, Served, PairServes, LoopServes, Running
<1> QED BY <1>1, <1>2, <1>3 DEF ServedInv

\* A task that sends a request has none.
LEMMA SendServed ==
    ASSUME HandlesTyped, ServedInv, NEW c \in Caller,
           SendReturns(c) \/ \E n \in Net : SendLocks(c, n)
    PROVE  ServedInv'
<1>1. UNCHANGED <<workers, loop, alive>>
  BY DEF SendReturns, SendLocks
<1>2. ASSUME NEW d \in Caller, NEW l \in LoopId, In(l, caller'[d].left)
      PROVE  In(l, caller[d].left)
  <2>1. caller'[d] = caller[d] \/ caller'[d].left = <<>>
    <3>1. CASE SendReturns(c)
      BY <3>1 DEF SendReturns, NoCall, HandlesTyped
    <3>2. CASE \E n \in Net : SendLocks(c, n)
      BY <3>2 DEF SendLocks, HandlesTyped
    <3> QED BY <3>1, <3>2
  <2> QED BY <1>2, <2>1, InNone
<1>3. ASSUME NEW n \in Net, workers[n] # <<>> PROVE Served(n)'
  BY <1>1, <1>3 DEF ServedInv, Served, PairServes, LoopServes, Running
<1> QED BY <1>1, <1>2, <1>3 DEF ServedInv

\* Every step keeps the started networks served.
LEMMA ServedStep == HandlesTyped /\ ServedInv /\ [Next]_vars => ServedInv'
<1> SUFFICES ASSUME HandlesTyped, ServedInv, [Next]_vars PROVE ServedInv'
  OBVIOUS
<1>1. ASSUME UNCHANGED <<workers, caller, loop>>,
             \A n \in Net : n \in alive /\ workers[n] # <<>> => n \in alive'
      PROVE  ServedInv'
  <2>1. ASSUME NEW n \in Net, NEW i \in LoopId, NEW a \in {Unicast[n], Anycast[n]},
               LoopServes(i, n, a)
        PROVE  LoopServes(i, n, a)'
    BY <1>1, <2>1 DEF LoopServes, Running
  <2> QED BY <1>1, <2>1, ServedGoesOn
<1>2. ASSUME NEW n \in Net, Build(n) \/ Drop(n) PROVE ServedInv'
  BY <1>1, <1>2 DEF Build, Drop
<1>3. ASSUME NEW c \in Caller, NEW n \in Net,
             Recv(c, n) \/ Start(c, n) \/ StopTakes(c, n) \/ SendLocks(c, n)
      PROVE  ServedInv'
  <2>1. CASE Recv(c, n)
    BY <1>1, <2>1 DEF Recv
  <2> QED BY <1>3, <2>1, StartServed, StopTakesServed, SendServed
<1>4. ASSUME NEW c \in Caller, StopStep(c) PROVE ServedInv'
  BY <1>4, StopCancelsServed, StopGoesOnServed DEF StopStep
<1>5. ASSUME NEW j \in Job, Reap(j) \/ LeaseEnds(j) PROVE ServedInv'
  BY <1>1, <1>5 DEF Reap, LeaseEnds
<1>6. CASE TimerLocks \/ TimerFires \/ CloseBegins \/ CloseEnds \/ UNCHANGED vars
  BY <1>1, <1>6 DEF TimerLocks, TimerFires, CloseBegins, CloseEnds, vars
<1> QED BY <1>2, <1>3, <1>4, <1>5, <1>6, LoopStepServed, SendServed DEF Next

\* A network that has handles has a loop for each of its addresses, which no stop
\* has asked to end and which runs unless its own claim failed: start and stop
\* (src/network.rs), called by any number of tasks at once, never end each other's
\* loops.
THEOREM StartedNetworkIsServed == Spec => []StartedIsServed
<1>1. Init => ServedInv
  <2>1. ASSUME Init PROVE ServedInv
    <3>1. \A n \in Net : workers[n] = <<>>
      BY <2>1 DEF Init
    <3>2. \A c \in Caller : caller[c].left = <<>>
      BY <2>1 DEF Init, NoCall
    <3> QED BY <3>1, <3>2, InNone DEF ServedInv
  <2> QED BY <2>1
<1>2. LifecycleInv => HandlesTyped
  BY DEF LifecycleInv
<1>3. ServedInv => StartedIsServed
  <2> SUFFICES ASSUME ServedInv, NEW n \in Net, workers[n] # <<>>
               PROVE  /\ n \in alive
                      /\ \A a \in {Unicast[n], Anycast[n]} :
                            \E m \in DOMAIN workers[n] : LoopServes(workers[n][m], n, a)
    BY DEF StartedIsServed
  <2>1. PICK l \in LoopId : workers[n] = <<l, l + 1>> /\ PairServes(n, l) /\ n \in alive
    BY DEF ServedInv, Served
  <2>2. In(l, workers[n]) /\ In(l + 1, workers[n])
    BY <2>1, InPair
  <2> QED BY <2>1, <2>2 DEF In, PairServes
<1> QED BY <1>1, <1>2, <1>3, LifecycleInit, LifecycleStep, ServedStep, PTL DEF Spec

-----------------------------------------------------------------------------
(* The close of the store                                                  *)

\* The inductive invariant of networks that are dropped: a loop runs only for a
\* network that is alive, what a stop has taken are loops of its network, and the
\* network of a call is not dropped.
AliveInv ==
    /\ \A l \in LoopId : Running(l) => loop[l].net \in alive
    /\ \A c \in Caller, l \in LoopId : In(l, caller[c].left) => loop[l].net = caller[c].net
    /\ \A c \in Caller : caller[c].net # None => caller[c].net \in alive

\* The loops run on or end, the others are of the same networks, and calls have the
\* handles they had.
LEMMA AliveGoesOn ==
    ASSUME AliveInv, UNCHANGED alive,
           \A l \in LoopId : Running(l)' => Running(l),
           \A l \in LoopId : loop'[l].net = loop[l].net,
           \A c \in Caller, l \in LoopId : In(l, caller'[c].left) =>
              In(l, caller[c].left) /\ caller'[c].net = caller[c].net,
           \A c \in Caller : caller'[c].net # None => caller'[c].net \in alive
    PROVE  AliveInv'
BY ZenonT(60) DEF AliveInv

\* The steps of a loop.
LEMMA LoopStepAlive ==
    ASSUME HandlesTyped, AliveInv, NEW l \in LoopId,
           LoopStep(l) \/ LoopLocks(l) \/ LoopClaimFails(l) \/ LoopDeliveryFails(l)
    PROVE  AliveInv'
<1>1. UNCHANGED <<caller, alive>>
  BY DEF LoopStep, LoopEnds, LoopDelivers, LoopCalls, LoopClaims, LoopDropsClaim,
         LoopLocks, LoopClaimFails, LoopDeliveryFails
<1>2. loop[l] \in LoopRecord /\ Running(l)
  BY DEF LoopStep, LoopEnds, LoopDelivers, LoopCalls, LoopClaims, LoopDropsClaim,
         LoopLocks, LoopClaimFails, LoopDeliveryFails, Idle, Running, HandlesTyped
<1>3. \A i \in LoopId : loop'[i].net = loop[i].net /\ (i # l => loop'[i] = loop[i])
  BY <1>2 DEF LoopStep, LoopEnds, LoopDelivers, LoopCalls, LoopClaims, LoopDropsClaim,
         LoopLocks, LoopClaimFails, LoopDeliveryFails, HandlesTyped, LoopRecord
<1>4. \A i \in LoopId : Running(i)' => Running(i)
  BY <1>2, <1>3 DEF Running
<1>5. \A c \in Caller : caller'[c].net # None => caller'[c].net \in alive
  BY <1>1 DEF AliveInv
<1> QED BY <1>1, <1>3, <1>4, <1>5, AliveGoesOn

\* A start spawns loops that no stop has, for a network that is alive.
LEMMA StartAlive ==
    ASSUME HandlesTyped, ServedInv, AliveInv, NEW c \in Caller, NEW n \in Net, Start(c, n)
    PROVE  AliveInv'
<1>1. PICK k \in Unused :
        loop' = [loop EXCEPT ![k] = NewLoop(n, Unicast[n]), ![k + 1] = NewLoop(n, Anycast[n])]
  BY DEF Start
<1>2. /\ k \in LoopId /\ k + 1 \in LoopId
      /\ loop[k].pc = "none" /\ loop[k + 1].pc = "none"
  BY <1>1 DEF Unused
<1>3. n \in alive /\ UNCHANGED <<alive, caller>>
  BY DEF Start
<1>4. \A l \in LoopId : IF l \in {k, k + 1} THEN loop'[l].net = n ELSE loop'[l] = loop[l]
  BY <1>1, <1>2 DEF HandlesTyped, NewLoop, NoLoop
<1>5. ASSUME NEW l \in LoopId, Running(l)' PROVE loop'[l].net \in alive
  BY <1>3, <1>4, <1>5 DEF AliveInv, Running
<1>6. ASSUME NEW d \in Caller, NEW l \in LoopId, In(l, caller[d].left)
      PROVE  loop'[l].net = caller[d].net
  <2>1. l \notin {k, k + 1}
    BY <1>2, <1>6 DEF ServedInv
  <2> QED BY <1>4, <1>6, <2>1 DEF AliveInv
<1> QED BY <1>3, <1>5, <1>6 DEF AliveInv

\* A network that is dropped has no loop: its handles are gone, and no stop has any.
LEMMA DropAlive ==
    ASSUME LifecycleInv, AliveInv, NEW n \in Net, Drop(n) PROVE AliveInv'
<1>1. /\ workers[n] = <<>> /\ \A c \in Caller : caller[c].net # n
      /\ alive' = alive \ {n} /\ UNCHANGED <<caller, loop>>
  BY DEF Drop, InCall
<1>2. ASSUME NEW l \in LoopId, Running(l) PROVE loop[l].net # n
  <2>1. ASSUME loop[l].net = n PROVE FALSE
    <3>1. PICK c \in Caller : In(l, caller[c].left)
      BY <1>1, <1>2, <2>1, LeftBehind, InNone DEF LifecycleInv, Handled
    <3> QED BY <1>1, <2>1, <3>1 DEF AliveInv
  <2> QED BY <2>1
<1>3. ASSUME NEW l \in LoopId, Running(l)' PROVE loop'[l].net \in alive'
  BY <1>1, <1>2, <1>3 DEF AliveInv, Running
<1> QED BY <1>1, <1>3 DEF AliveInv

\* The steps of calls.
LEMMA CallAlive ==
    ASSUME LifecycleInv, ServedInv, AliveInv, NEW c \in Caller,
           \/ StopStep(c) \/ SendReturns(c)
           \/ \E n \in Net : StopTakes(c, n) \/ SendLocks(c, n)
    PROVE  AliveInv'
<1>1. HandlesTyped /\ UNCHANGED alive
  BY DEF LifecycleInv, StopStep, StopCancels, StopJoins, StopClears, SendReturns, StopTakes,
         SendLocks
<1>2. \A l \in LoopId : loop'[l].net = loop[l].net /\ loop'[l].pc = loop[l].pc
  <2>1. CASE StopCancels(c)
    <3>1. Head(caller[c].left) \in LoopId
      BY <1>1, <2>1, HeadIn DEF HandlesTyped, StopCancels
    <3> QED BY <1>1, <2>1, <3>1 DEF HandlesTyped, LoopRecord, StopCancels
  <2>2. CASE ~StopCancels(c)
    BY <2>2 DEF StopStep, StopJoins, StopClears, SendReturns, StopTakes, SendLocks
  <2> QED BY <2>1, <2>2
<1>3. \A l \in LoopId : Running(l)' => Running(l)
  BY <1>2 DEF Running
<1>4. \A d \in Caller : d # c => caller'[d] = caller[d]
  BY <1>1 DEF HandlesTyped, StopStep, StopCancels, StopJoins, StopClears, SendReturns,
              StopTakes, SendLocks
<1>5. ASSUME NEW n \in Net, StopTakes(c, n) PROVE AliveInv'
  <2>1. /\ n \in alive /\ caller'[c].net = n /\ caller'[c].left = workers[n]
        /\ UNCHANGED loop
    BY <1>1, <1>5 DEF HandlesTyped, StopTakes
  <2>2. \A l \in LoopId : In(l, workers[n]) => loop[l].net = n
    BY HandleServes
  <2>3. ASSUME NEW d \in Caller, NEW l \in LoopId, In(l, caller'[d].left)
        PROVE  loop'[l].net = caller'[d].net
    BY <1>4, <2>1, <2>2, <2>3 DEF AliveInv
  <2>4. ASSUME NEW d \in Caller, caller'[d].net # None PROVE caller'[d].net \in alive
    BY <1>4, <2>1, <2>4 DEF AliveInv
  <2> QED BY <1>1, <1>2, <1>3, <2>3, <2>4 DEF AliveInv
<1>6. ASSUME \/ caller'[c].net \in {None} \cup alive /\ caller'[c].left = <<>>
             \/ /\ caller'[c].net = caller[c].net
                /\ \A l \in LoopId : In(l, caller'[c].left) => In(l, caller[c].left)
      PROVE  AliveInv'
  <2>1. ASSUME NEW d \in Caller, NEW l \in LoopId, In(l, caller'[d].left)
        PROVE  In(l, caller[d].left) /\ caller'[d].net = caller[d].net
    BY <1>4, <1>6, <2>1, InNone
  <2>2. ASSUME NEW d \in Caller, caller'[d].net # None PROVE caller'[d].net \in alive
    BY <1>4, <1>6, <2>2 DEF AliveInv
  <2> QED BY <1>1, <1>2, <1>3, <2>1, <2>2, AliveGoesOn
<1>7. CASE StopCancels(c)
  BY <1>6, <1>7 DEF StopCancels
<1>8. CASE StopJoins(c)
  <2>1. /\ caller[c].left \in Seq(LoopId) /\ caller[c].left # <<>>
        /\ caller'[c].net = caller[c].net /\ caller'[c].left = Tail(caller[c].left)
    BY <1>1, <1>8 DEF HandlesTyped, StopJoins
  <2> QED BY <1>6, <2>1, TailIn
<1>9. CASE StopClears(c) \/ SendReturns(c)
  <2>1. caller'[c] = NoCall
    BY <1>1, <1>9 DEF HandlesTyped, StopClears, SendReturns
  <2> QED BY <1>6, <2>1 DEF NoCall
<1>10. ASSUME NEW n \in Net, SendLocks(c, n) PROVE AliveInv'
  <2>1. n \in alive /\ caller'[c].net = n /\ caller'[c].left = <<>>
    BY <1>1, <1>10 DEF HandlesTyped, SendLocks
  <2> QED BY <1>6, <2>1
<1> QED BY <1>5, <1>7, <1>8, <1>9, <1>10 DEF StopStep

\* No step drops a network whose loops run.
LEMMA AliveStep == LifecycleInv /\ ServedInv /\ AliveInv /\ [Next]_vars => AliveInv'
<1> SUFFICES ASSUME LifecycleInv, ServedInv, AliveInv, [Next]_vars PROVE AliveInv'
  OBVIOUS
<1>1. HandlesTyped
  BY DEF LifecycleInv
<1>2. ASSUME UNCHANGED <<caller, loop>>, alive \subseteq alive' PROVE AliveInv'
  <2>1. \A l \in LoopId : Running(l)' => Running(l)
    BY <1>2 DEF Running
  <2> QED BY <1>2, <2>1 DEF AliveInv
<1>3. ASSUME NEW n \in Net, Build(n) \/ Drop(n) PROVE AliveInv'
  <2>1. CASE Build(n)
    BY <1>2, <2>1 DEF Build
  <2> QED BY <1>3, <2>1, DropAlive
<1>4. ASSUME NEW c \in Caller, NEW n \in Net,
             Recv(c, n) \/ Start(c, n) \/ StopTakes(c, n) \/ SendLocks(c, n)
      PROVE  AliveInv'
  <2>1. CASE Recv(c, n)
    BY <1>2, <2>1 DEF Recv
  <2> QED BY <1>1, <1>4, <2>1, StartAlive, CallAlive
<1>5. ASSUME NEW c \in Caller, StopStep(c) \/ SendReturns(c) PROVE AliveInv'
  BY <1>5, CallAlive
<1>6. ASSUME NEW j \in Job, Reap(j) \/ LeaseEnds(j) PROVE AliveInv'
  BY <1>2, <1>6 DEF Reap, LeaseEnds
<1>7. CASE TimerLocks \/ TimerFires \/ CloseBegins \/ CloseEnds \/ UNCHANGED vars
  BY <1>2, <1>7 DEF TimerLocks, TimerFires, CloseBegins, CloseEnds, vars
<1> QED BY <1>1, <1>3, <1>4, <1>5, <1>6, <1>7, LoopStepAlive DEF Next

\* When the close ends, the queue stays open for networks if and only if one of them
\* is alive (Store::close, src/store.rs): a loop shares the store's state, and none
\* outlives its network, since a stop joins its loops before the network can be
\* dropped (stop, src/network.rs).
THEOREM CloseDependsOnNetworks == Spec => ClosesUnlessAlive
<1>1. Init => AliveInv /\ ServedInv
  <2>1. ASSUME Init PROVE AliveInv /\ ServedInv
    <3>1. /\ \A n \in Net : workers[n] = <<>>
          /\ \A c \in Caller : caller[c] = NoCall
          /\ \A l \in LoopId : loop[l] = NoLoop
      BY <2>1 DEF Init
    <3>2. \A c \in Caller : caller[c].left = <<>> /\ caller[c].net = None
      BY <3>1 DEF NoCall
    <3>3. \A l \in LoopId : ~Running(l)
      BY <3>1 DEF NoLoop, Running
    <3> QED BY <3>1, <3>2, <3>3, InNone DEF AliveInv, ServedInv
  <2> QED BY <2>1
<1>2. LifecycleInv => HandlesTyped
  BY DEF LifecycleInv
<1>3. AliveInv /\ [Next]_vars =>
        [store = "closing" /\ store' # "closing" => (store' = "running" <=> alive # {})]_vars
  <2> SUFFICES ASSUME AliveInv, [Next]_vars, store = "closing", store' # "closing"
               PROVE  store' = "running" <=> alive # {}
    OBVIOUS
  <2>1. CloseEnds
    BY ZenonT(60) DEF Next, Build, Drop, Recv, Start, StopTakes, StopStep, StopCancels,
                StopJoins, StopClears, SendLocks, SendReturns, LoopStep, LoopLocks, LoopEnds,
                LoopDelivers, LoopCalls, LoopClaims, LoopDropsClaim, LoopClaimFails,
                LoopDeliveryFails, Reap, LeaseEnds, TimerLocks, TimerFires, CloseBegins, vars
  <2>2. SharedIsUsed <=> alive # {}
    BY DEF SharedIsUsed, AliveInv
  <2> QED BY <2>1, <2>2 DEF CloseEnds
<1> QED BY <1>1, <1>2, <1>3, LifecycleInit, LifecycleStep, ServedStep, AliveStep, PTL
        DEF Spec, ClosesUnlessAlive
=============================================================================
