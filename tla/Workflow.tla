------------------------------- MODULE Workflow -------------------------------
(***************************************************************************)
(* What durable execution promises: the steps of a workflow complete in    *)
(* order, each once, into a record that only grows, and every turn of the  *)
(* workflow is given, for each step, the value on record.                  *)
(* DurableContext.tla is shown to implement it when the workflow awaits    *)
(* each step before the next and turns do not overlap.                     *)
(***************************************************************************)
EXTENDS Naturals, Sequences

CONSTANTS
  Steps,          \* how many steps the workflow has
  Values(_),      \* the values a step may complete with
  Nothing         \* what a turn has been given for a step before it completes

VARIABLES
  record,         \* the completed steps, in order
  view            \* what the current turn was given

wvars == <<record, view>>

Init == record = <<>> /\ view = [s \in 1..Steps |-> Nothing]

Complete ==
  /\ Len(record) < Steps
  /\ \E v \in Values(Len(record) + 1) : record' = Append(record, v)
  /\ UNCHANGED view

Give(s) ==
  /\ s \in 1..Len(record) /\ view[s] = Nothing
  /\ view' = [view EXCEPT ![s] = record[s]]
  /\ UNCHANGED record

Restart ==
  /\ view' = [s \in 1..Steps |-> Nothing]
  /\ UNCHANGED record

Next == Complete \/ Restart \/ \E s \in 1..Steps : Give(s)

Spec == Init /\ [][Next]_wvars
=============================================================================
