------------------------------- MODULE MCLive --------------------------------
(***************************************************************************)
(* Instances of StoreLive for TLC.                                         *)
(***************************************************************************)
EXTENDS StoreLive, MCStore

\* A task that is dispatched later, and whose deadline never comes, awaits a
\* promise whose deadline comes.
WakeCreations ==
    [p \in Id |-> IF p = "a" THEN {Delayed(1, 9)} ELSE {External(1)}]
=============================================================================
