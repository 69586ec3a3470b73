--------------------------------- MODULE Turns ---------------------------------
(***************************************************************************)
(* The turns of a durable workflow (async/context.go): what is kept from   *)
(* one to the next, what a turn holds, and what is promised of them.       *)
(* DurableContext.tla has the steps they take.                             *)
(***************************************************************************)
EXTENDS Integers, Sequences, FiniteSets

CONSTANTS
  Steps,          \* how many steps the workflow has
  Budgets,        \* the values SetMaxSteps is called with; -1 is no limit
  MaxTurns,       \* bound: how many turns are run
  FanOut,         \* the body issues steps before earlier ones are awaited
  Overlap         \* a turn may start before executions of the last are over

ASSUME DurableAssumption ==
  /\ Steps \in Nat /\ MaxTurns \in Nat
  /\ Budgets \subseteq Int
  /\ FanOut \in BOOLEAN /\ Overlap \in BOOLEAN

(* The value step s gives when it is executed for the n-th time.           *)
Value(s, n) == [step |-> s, try |-> n]
Values(s) == {Value(s, n) : n \in 1..MaxTurns}
AllValues == UNION {Values(s) : s \in 1..Steps}

Given(v) == [is |-> "ok", val |-> v]
Pending == [is |-> "pending"]
Suspended == [is |-> "suspended"]     \* ErrSuspended
Failed == [is |-> "failed"]           \* the handler failed, panicked or is missing

Outcomes == {Given(v) : v \in AllValues} \cup {Pending, Suspended, Failed}

Executions ==
  [turn : 1..MaxTurns, step : 1..Steps, val : AllValues,
   at : {"running", "ran", "journaled"}]

VARIABLES
  journal,        \* Journal.history
  turn,           \* the number of the current turn
  status,         \* of its body: "running", "completed" or "stopped"
  ctxDone,        \* DurableContext.Context has ended in this turn
  maxSteps,       \* DurableContext.maxSteps of this turn
  stepIndex,      \* DurableContext.stepIndex: the steps allocated this turn
  got,            \* the future of each step in this turn
  live,           \* executions in flight, of this turn or an earlier one
  tries,          \* how often each step has been executed
  fresh           \* how many steps this turn has executed rather than replayed

-----------------------------------------------------------------------------

(* What a turn is given for a step is a value of that step.                *)
GivesOwnStep == \A s \in 1..Steps : got[s].is = "ok" => got[s].val.step = s

(* "Re-running the same coroutine replays already-completed steps from the *)
(* journal": what a turn is given for a step is a value of that step, the  *)
(* one on record, whether it was executed in this turn or replayed.        *)
ReplayGivesOwnResult ==
  /\ GivesOwnStep
  /\ \A s \in 1..Steps :
       got[s].is = "ok" => s <= Len(journal) /\ got[s].val = journal[s]

(* "... instead of re-executing them": once a value of a step is on record, *)
(* wherever in the journal, or an execution of it is under way, no turn    *)
(* executes the step again.                                                *)
OnRecord(s) == \E i \in DOMAIN journal : journal[i].step = s
UnderWay(s) == \E x \in live : x.step = s
NoReexecution ==
  [][\A s \in 1..Steps : OnRecord(s) \/ UnderWay(s) => tries'[s] = tries[s]]_tries

(* A turn executes at most as many steps as SetMaxSteps allows; it may be  *)
(* suspended with some of them left, as replayed steps count too.          *)
WithinBudget == maxSteps >= 0 => fresh <= maxSteps

(* Every turn ends, completed, suspended, failed or cancelled, except while *)
(* its context lives and it waits for a step that its handler left without *)
(* a value and without settling it.                                        *)
LeftUnsettled(s) ==
  got[s] = Pending /\ ~ OnRecord(s) /\ ~ UnderWay(s)
TurnEnds ==
  status = "running" ~>
    status # "running" \/ (~ ctxDone /\ \E s \in 1..stepIndex : LeftUnsettled(s))

(* Turns run one after the other on an ever-growing record.                *)
View == [s \in 1..Steps |-> IF got[s].is = "ok" THEN got[s].val ELSE Pending]
Promise == INSTANCE Workflow WITH record <- journal, view <- View, Nothing <- Pending
ImplementsWorkflow == Promise!Spec
=============================================================================
