----------------------------- MODULE MCBuildpack -----------------------------
(***************************************************************************)
(* The composed supply and finalize phases on the small instances of       *)
(* MCSupply.                                                               *)
(***************************************************************************)
EXTENDS Buildpack, MCSupply

=============================================================================
