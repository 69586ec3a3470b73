------------------------------ MODULE MCLazySeq ------------------------------
(***************************************************************************)
(* Lazy sequences alone.                                                   *)
(***************************************************************************)
EXTENDS LazySeq, MCChains
=============================================================================
