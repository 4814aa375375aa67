------------------------------ MODULE MCVariant ------------------------------
(***************************************************************************)
(* An instance of Variant for TLC: of its values, zero and minusZero are   *)
(* equal, as 0.0 and -0.0 are, and nan is not equal to itself.             *)
(***************************************************************************)
EXTENDS Variant

CONSTANTS zero, minusZero, nan

MCEquals == {zero, minusZero} \X {zero, minusZero}
==============================================================================
