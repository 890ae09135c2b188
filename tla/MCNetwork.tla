------------------------------ MODULE MCNetwork ------------------------------
(***************************************************************************)
(* Instances of Network for TLC.                                           *)
(***************************************************************************)
EXTENDS Network

\* The networks of one group: each has its own unicast address.
OwnAddress == [n \in Net |-> n]

GroupAddress == [n \in Net |-> "any"]

\* One message for the group and one for each network.
OneEach == [j \in Job |-> j]
=============================================================================
