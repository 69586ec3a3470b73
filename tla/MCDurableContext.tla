--------------------------- MODULE MCDurableContext ---------------------------
(***************************************************************************)
(* Workflows of three steps over four turns, with every kind of budget.   *)
(***************************************************************************)
EXTENDS DurableContext

MCBudgets == {-1, 0, 1, 2}
=============================================================================
