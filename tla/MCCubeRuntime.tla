--------------------------- MODULE MCCubeRuntime ---------------------------
(***************************************************************************)
(* Model-checking instances of CubeRuntime.                                *)
(***************************************************************************)
EXTENDS CubeRuntime

CONSTANT s1
=============================================================================
