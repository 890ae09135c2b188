------------------------------ MODULE MCSearch ------------------------------
(***************************************************************************)
(* Instances of Search for TLC.                                            *)
(***************************************************************************)
EXTENDS Search

\* A record with the tag that is searched for and in a branch, and one with
\* neither.
TaggedOrPlain == {[tags |-> {"t"}, branch |-> "b"], [tags |-> {}, branch |-> None]}
=============================================================================
