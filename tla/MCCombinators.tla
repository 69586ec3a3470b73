---------------------------- MODULE MCCombinators ----------------------------
(***************************************************************************)
(* Up to two sources, the first created under the caller's context and the *)
(* second under a context of its own.                                      *)
(***************************************************************************)
EXTENDS Combinators

MCKinds == {"AllOf", "AllSettled", "Race", "AnyOf", "Zip"}
MCBound == {1}
=============================================================================
