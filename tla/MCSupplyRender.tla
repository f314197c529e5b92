--------------------------- MODULE MCSupplyRender ---------------------------
(***************************************************************************)
(* The renderer refinement on the small instances of MCSupply.            *)
(***************************************************************************)
EXTENDS SupplyRender, MCSupply

=============================================================================
