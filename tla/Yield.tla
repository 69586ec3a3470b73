--------------------------------- MODULE Yield ---------------------------------
(***************************************************************************)
(* The call in progress of the lazy sequences of stream/seq.go.  Calls go  *)
(* up the chain of stages by yield and come back with an answer, false     *)
(* when no more elements are wanted.                                       *)
(***************************************************************************)
EXTENDS Integers

VARIABLES
  at,             \* the stage that has control
  doing,          \* "begin", "body", "emit", "resume" or "ended"
  item, answer,   \* what is yielded, and what yield returned
  refused         \* the stages that yield has returned false to

control == <<at, doing, item, answer>>

(* No stage calls a loop body again after it answered false, neither with  *)
(* the rest of what it emits for one element, nor with another element,    *)
(* nor when it finishes: the runtime would panic.                          *)
YieldsWhileWanted == doing = "body" => at - 1 \notin refused
=============================================================================
