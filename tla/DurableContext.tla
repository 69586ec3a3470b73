---------------------------- MODULE DurableContext ----------------------------
(***************************************************************************)
(* Durable execution of async/context.go: a Journal that survives from turn *)
(* to turn, a DurableContext made afresh for each turn that hands out step  *)
(* indexes and replays, suspends or executes each step, and the goroutines  *)
(* that execute steps (execCall, or the goroutine of Async), which journal  *)
(* a value and then resolve the step's promise.                             *)
(*                                                                         *)
(* The workflow is a coroutine body of the repository's kind: it issues     *)
(* steps 1..Steps in program order and ends at the first step that fails.   *)
(* Whether it awaits a step before it issues the next (FanOut), and whether *)
(* a turn may start while steps of an earlier one still execute (Overlap),  *)
(* is up to the user of the package.                                        *)
(***************************************************************************)
EXTENDS Turns

vars == <<journal, turn, status, ctxDone, maxSteps, stepIndex, got, live, tries, fresh>>

TypeOK ==
  /\ journal \in Seq(AllValues)
  /\ turn \in 1..MaxTurns
  /\ status \in {"running", "completed", "stopped"}
  /\ ctxDone \in BOOLEAN
  /\ maxSteps \in Budgets
  /\ stepIndex \in 0..Steps
  /\ got \in [1..Steps -> Outcomes]
  /\ live \subseteq Executions
  /\ tries \in [1..Steps -> 0..MaxTurns]
  /\ fresh \in 0..Steps

Init ==
  /\ journal = <<>>
  /\ turn = 1 /\ MaxTurns > 0
  /\ status = "running"
  /\ ctxDone = FALSE
  /\ maxSteps \in Budgets
  /\ stepIndex = 0
  /\ got = [s \in 1..Steps |-> Pending]
  /\ live = {}
  /\ tries = [s \in 1..Steps |-> 0]
  /\ fresh = 0

-----------------------------------------------------------------------------
(* The body issues its next step; allocStep gives it index stepIndex.      *)

Issues(s) ==
  /\ status = "running"
  /\ s = stepIndex + 1 /\ s <= Steps
  /\ FanOut \/ \A t \in 1..(s - 1) : got[t].is = "ok"
  /\ stepIndex' = s

ReplayedButLast(s) == s < Len(journal)
Replayed(s) == s <= Len(journal)
OverBudget(s) == ~ Replayed(s) /\ maxSteps >= 0 /\ s > maxSteps

(* settleReplay: resolved from the journal ... *)
ReplayStep(s) ==
  /\ Issues(s) /\ Replayed(s)
  /\ got' = [got EXCEPT ![s] = Given(journal[s])]
  /\ UNCHANGED <<journal, turn, status, ctxDone, maxSteps, live, tries, fresh>>

(* ... or rejected with ErrSuspended ... *)
SuspendStep(s) ==
  /\ Issues(s) /\ OverBudget(s)
  /\ got' = [got EXCEPT ![s] = Suspended]
  /\ UNCHANGED <<journal, turn, status, ctxDone, maxSteps, live, tries, fresh>>

(* ... or executed on a goroutine of its own. *)
ExecuteUnbudgeted(s) ==
  /\ Issues(s) /\ ~ Replayed(s)
  /\ live' = live \cup {[turn |-> turn, step |-> s, at |-> "running",
                         val |-> Value(s, tries[s] + 1)]}
  /\ tries' = [tries EXCEPT ![s] = @ + 1]
  /\ fresh' = fresh + 1
  /\ UNCHANGED <<journal, turn, status, ctxDone, maxSteps, got>>

ExecuteStep(s) ==
  /\ Issues(s) /\ ~ Replayed(s) /\ ~ OverBudget(s)
  /\ live' = live \cup {[turn |-> turn, step |-> s, at |-> "running",
                         val |-> Value(s, tries[s] + 1)]}
  /\ tries' = [tries EXCEPT ![s] = @ + 1]
  /\ fresh' = fresh + 1
  /\ UNCHANGED <<journal, turn, status, ctxDone, maxSteps, got>>

-----------------------------------------------------------------------------
(* The executing goroutine. *)

(* prom.Resolve or prom.Reject: in vain once the turn of the step is over, *)
(* or its future has ended with the context.                               *)
Deliver(x, r) ==
  got' = IF x.turn = turn /\ status = "running" /\ got[x.step] = Pending
         THEN [got EXCEPT ![x.step] = r] ELSE got

Advance(x, at) == live' = (live \ {x}) \cup {[x EXCEPT !.at = at]}

HandlerReturns(x) ==
  /\ x.at = "running"
  /\ Advance(x, "ran")
  /\ UNCHANGED <<journal, turn, status, ctxDone, maxSteps, stepIndex, got, tries, fresh>>

(* The handler returns an error or panics, or none is registered: nothing  *)
(* is journaled.  One that leaves by Goexit, or panics with a nil of some  *)
(* type, does not settle the promise either.                               *)
HandlerFails(x) ==
  /\ x.at = "running"
  /\ live' = live \ {x}
  /\ Deliver(x, Failed) \/ UNCHANGED got
  /\ UNCHANGED <<journal, turn, status, ctxDone, maxSteps, stepIndex, tries, fresh>>

(* settleFromResult: Journal.Append, then Resolve. *)
ResolveUnjournaled(x) ==
  /\ x.at = "ran"
  /\ live' = live \ {x}
  /\ Deliver(x, Given(x.val))
  /\ UNCHANGED <<journal, turn, status, ctxDone, maxSteps, stepIndex, tries, fresh>>

JournalStep(x) ==
  /\ x.at = "ran"
  /\ journal' = Append(journal, x.val)
  /\ Advance(x, "journaled")
  /\ UNCHANGED <<turn, status, ctxDone, maxSteps, stepIndex, got, tries, fresh>>

NeverResolve(x) ==
  /\ x.at = "journaled"
  /\ live' = live \ {x}
  /\ UNCHANGED <<journal, turn, status, ctxDone, maxSteps, stepIndex, got, tries, fresh>>

ResolveStep(x) ==
  /\ x.at = "journaled"
  /\ live' = live \ {x}
  /\ Deliver(x, Given(x.val))
  /\ UNCHANGED <<journal, turn, status, ctxDone, maxSteps, stepIndex, tries, fresh>>

(* The context of the turn ends: the futures of the steps in flight end     *)
(* with it, and those of the steps still to come; the executions go on,    *)
(* and may still be journaled.                                             *)
ContextEnds ==
  /\ status = "running" /\ ~ ctxDone
  /\ ctxDone' = TRUE
  /\ UNCHANGED <<journal, turn, status, maxSteps, stepIndex, got, live, tries, fresh>>

ContextEndsStep(s) ==
  /\ status = "running" /\ ctxDone
  /\ s <= stepIndex /\ got[s] = Pending
  /\ got' = [got EXCEPT ![s] = Failed]
  /\ UNCHANGED <<journal, turn, status, ctxDone, maxSteps, stepIndex, live, tries, fresh>>

-----------------------------------------------------------------------------
(* Turns. *)

BodyReturns ==
  /\ status = "running"
  /\ \A s \in 1..Steps : got[s].is = "ok"
  /\ status' = "completed"
  /\ UNCHANGED <<journal, turn, ctxDone, maxSteps, stepIndex, got, live, tries, fresh>>

(* The body awaits its steps in order and returns the first error.         *)
BodyStops ==
  /\ status = "running"
  /\ \E s \in 1..Steps :
       /\ got[s].is \in {"suspended", "failed"}
       /\ \A t \in 1..(s - 1) : got[t].is = "ok"
  /\ status' = "stopped"
  /\ UNCHANGED <<journal, turn, ctxDone, maxSteps, stepIndex, got, live, tries, fresh>>

(* Task.Cancel: the body stops at once, the executions it started go on.   *)
CancelTurn ==
  /\ status = "running"
  /\ status' = "stopped"
  /\ UNCHANGED <<journal, turn, ctxDone, maxSteps, stepIndex, got, live, tries, fresh>>

(* The workflow is launched again on a new DurableContext and the journal. *)
NewTurn ==
  /\ status # "running" /\ turn < MaxTurns
  /\ Overlap \/ live = {}
  /\ turn' = turn + 1
  /\ status' = "running"
  /\ ctxDone' = FALSE
  /\ maxSteps' \in Budgets
  /\ stepIndex' = 0
  /\ got' = [s \in 1..Steps |-> Pending]
  /\ fresh' = 0
  /\ UNCHANGED <<journal, live, tries>>

Body == BodyReturns \/ BodyStops
          \/ \E s \in 1..Steps : ReplayStep(s) \/ SuspendStep(s) \/ ExecuteStep(s)

Execution(x) ==
  HandlerReturns(x) \/ HandlerFails(x) \/ JournalStep(x) \/ ResolveStep(x)

Next ==
  \/ Body \/ CancelTurn \/ NewTurn
  \/ ContextEnds \/ \E s \in 1..Steps : ContextEndsStep(s)
  \/ \E x \in live : Execution(x)

(* The body is scheduled, contexts reach the futures under them, and every *)
(* handler returns, fails or leaves.                                       *)
Fairness ==
  /\ WF_vars(Body) /\ WF_vars(\E x \in live : Execution(x))
  /\ WF_vars(\E s \in 1..Steps : ContextEndsStep(s))

Spec == Init /\ [][Next]_vars
FairSpec == Spec /\ Fairness
=============================================================================
