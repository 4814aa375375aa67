------------------------------- MODULE MCEvent -------------------------------
(***************************************************************************)
(* Instances of Event for TLC.  "plain" has no ErrorListener, "full" has   *)
(* one.                                                                    *)
(***************************************************************************)
EXTENDS Event

CONSTANTS d1, d2, c1

TwoDispatchers == {d1, d2}
OneThread == {d1}
OneDispatcher == {d1, c1}
==============================================================================
