-------------------------------- MODULE MCKeys --------------------------------
(***************************************************************************)
(* Instances of Keys for TLC.                                              *)
(***************************************************************************)
EXTENDS Keys

\* The digits of the underscore and the slash.
HexDigits == "_" :> <<"5", "F">> @@ "/" :> <<"2", "F">>

\* Promises that schedules name by their own id and a time.
PlainFired == {<<"x">>, <<"x", ".", ":">>}

\* A template with a null byte, which schedule.create takes as it is.
NullFired == {<<"x", Null, "x">>}
===============================================================================
