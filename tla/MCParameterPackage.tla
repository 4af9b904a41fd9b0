------------------------- MODULE MCParameterPackage -------------------------
(***************************************************************************)
(* Packages of up to three parameters of two values.                       *)
(***************************************************************************)
EXTENDS ParameterPackage

MCSizes == {1, 2, 3}
MCBothStrategies == {PutWithoutPos, PutWithPos}
=============================================================================
