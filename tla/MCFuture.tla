------------------------------ MODULE MCFuture ------------------------------
(***************************************************************************)
(* Two producers and two awaiters on one future.                           *)
(***************************************************************************)
EXTENDS Future, TLC

CONSTANTS p1, p2, a1, a2, v1

MCProducers == {p1, p2}
MCAwaiters == {a1, a2}
MCValues == {v1}
MCErrors == {Canceled, NilRejected}
=============================================================================
