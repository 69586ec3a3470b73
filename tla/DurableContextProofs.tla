------------------------- MODULE DurableContextProofs -------------------------
(***************************************************************************)
(* Proofs about DurableContext.tla for any number of steps and turns and   *)
(* any budgets.  When the workflow awaits each step before it issues the   *)
(* next and turns do not overlap, the journal stays aligned with the steps, *)
(* so every turn replays its own results, no step on record is executed    *)
(* again, and the turns implement Workflow.tla; without either assumption  *)
(* alignment is lost.  Types and budgets are kept by every workflow.       *)
(***************************************************************************)
EXTENDS DurableContext, TLAPS

(* The i-th entry of the journal is a value of step i. *)
Aligned == Len(journal) <= Steps /\ \A i \in 1..Len(journal) : journal[i] \in Values(i)

(* What the turn was given is on record, and only for allocated steps.     *)
GivenFromJournal ==
  \A s \in 1..Steps :
    /\ got[s].is = "ok" => s <= Len(journal) /\ got[s] = Given(journal[s])
    /\ s > stepIndex => got[s] = Pending

(* At most one step is being executed: the last one the turn allocated,    *)
(* which is the next one to be journaled or the last one that was.         *)
OneInFlight ==
  /\ \A x, y \in live : x = y
  /\ \A x \in live :
       /\ x.turn = turn /\ x.step = stepIndex
       /\ x.val \in Values(x.step)
       /\ got[x.step].is # "ok"
       /\ x.at # "journaled" => x.step = Len(journal) + 1
       /\ x.at = "journaled" => x.step = Len(journal) /\ journal[x.step] = x.val

(* A turn executes a step at most once. *)
TriesBounded ==
  \A s \in 1..Steps : tries[s] <= turn /\ (s > stepIndex => tries[s] < turn)

Spending == fresh <= stepIndex /\ WithinBudget

IInv ==
  /\ TypeOK
  /\ Aligned
  /\ GivenFromJournal
  /\ OneInFlight
  /\ TriesBounded
  /\ Spending

Sequential == ~ FanOut /\ ~ Overlap

-----------------------------------------------------------------------------
(* The outcomes of a step are told apart by their tag. *)
LEMMA OutcomeTags ==
  /\ Pending.is # "ok" /\ Suspended.is # "ok" /\ Failed.is # "ok"
  /\ {Pending, Suspended, Failed} \subseteq Outcomes
  /\ \A v \in AllValues : Given(v) \in Outcomes /\ Given(v).is = "ok" /\ Given(v).val = v
BY DEF Pending, Suspended, Failed, Outcomes, Given

(* A value of a step names its step. *)
LEMMA ValuesOfStep ==
  \A s \in 1..Steps : \A v \in Values(s) : v \in AllValues /\ v.step = s
BY DEF AllValues, Values, Value

(* A body that awaits its steps has nothing in flight when it issues one,  *)
(* and issues the step after the last one on record, or one on record.     *)
LEMMA IssuesAlone ==
  ASSUME Sequential, IInv, NEW s \in 1..Steps, Issues(s)
  PROVE  live = {} /\ s <= Len(journal) + 1 /\ got[s] = Pending
<1> USE DurableAssumption
<1>0. stepIndex \in 0..Steps /\ s = stepIndex + 1 /\ Len(journal) \in Nat
  BY DEF IInv, TypeOK, Issues
<1>1. \A t \in 1..(s - 1) : got[t].is = "ok"
  BY DEF Sequential, Issues
<1>2. live = {}
  <2> SUFFICES ASSUME NEW x \in live PROVE FALSE
    OBVIOUS
  <2>1. x.step = stepIndex /\ x.step \in 1..Steps /\ got[x.step].is # "ok"
    BY DEF IInv, TypeOK, OneInFlight, Executions
  <2> QED BY <1>0, <1>1, <2>1
<1>3. s <= Len(journal) + 1
  <2>1. CASE s = 1
    BY <1>0, <2>1
  <2>2. CASE s > 1
    <3>1. s - 1 \in 1..Steps /\ s - 1 \in 1..(s - 1)
      BY <2>2
    <3>2. s - 1 <= Len(journal)
      BY <1>1, <3>1 DEF IInv, GivenFromJournal
    <3> QED BY <1>0, <3>2
  <2> QED BY <2>1, <2>2
<1>4. got[s] = Pending
  BY <1>0 DEF IInv, GivenFromJournal
<1> QED BY <1>2, <1>3, <1>4

(* A step that the turn has not allocated may still be executed in it.      *)
LEMMA TriesLeft ==
  ASSUME TypeOK, TriesBounded, NEW s \in 1..Steps, s > stepIndex
  PROVE  tries[s] + 1 \in 1..MaxTurns
BY DurableAssumption DEF TypeOK, TriesBounded

-----------------------------------------------------------------------------
(* Init satisfies the invariant. *)
LEMMA InitInv == Init => IInv
<1> SUFFICES ASSUME Init PROVE IInv
  OBVIOUS
<1> USE DurableAssumption
<1>1. TypeOK
  <2>1. journal \in Seq(AllValues) /\ live \subseteq Executions
    BY DEF Init
  <2>2. turn \in 1..MaxTurns
    BY DEF Init
  <2>3. got \in [1..Steps -> Outcomes]
    BY OutcomeTags DEF Init
  <2>4. tries \in [1..Steps -> 0..MaxTurns]
    BY DEF Init
  <2>5. ctxDone \in BOOLEAN
    BY DEF Init
  <2>6. /\ status \in {"running", "completed", "stopped"} /\ maxSteps \in Budgets
        /\ stepIndex \in 0..Steps /\ fresh \in 0..Steps
    BY DEF Init
  <2> QED BY <2>1, <2>2, <2>3, <2>4, <2>5, <2>6 DEF TypeOK
<1>2. Aligned /\ GivenFromJournal
  BY OutcomeTags DEF Init, Aligned, GivenFromJournal
<1>3. OneInFlight /\ TriesBounded
  BY DEF Init, OneInFlight, TriesBounded
<1>4. Spending
  BY DEF Init, Spending, WithinBudget
<1> QED BY <1>1, <1>2, <1>3, <1>4 DEF IInv

-----------------------------------------------------------------------------
(* Each step preserves the invariant. *)

(* A step replayed from the journal (context.go:135-157). *)
LEMMA ReplayInv ==
  ASSUME Sequential, IInv, NEW s \in 1..Steps, ReplayStep(s)
  PROVE  IInv'
<1> USE DurableAssumption, OutcomeTags, ValuesOfStep DEF IInv, ReplayStep, Issues, Replayed
<1>0. live = {} /\ s <= Len(journal) + 1 /\ got[s] = Pending
  BY IssuesAlone
<1>1. TypeOK'
  BY <1>0 DEF TypeOK, Aligned
<1>2. Aligned'
  BY <1>0 DEF TypeOK, Aligned
<1>3. GivenFromJournal'
  BY <1>0 DEF TypeOK, Aligned, GivenFromJournal
<1>4. OneInFlight'
  BY <1>0 DEF TypeOK, OneInFlight, GivenFromJournal
<1>5. TriesBounded'
  BY <1>0 DEF TypeOK, TriesBounded
<1>6. Spending'
  BY <1>0 DEF TypeOK, Spending, WithinBudget
<1> QED BY <1>1, <1>2, <1>3, <1>4, <1>5, <1>6

(* A step suspended (context.go:141, 152). *)
LEMMA SuspendInv ==
  ASSUME Sequential, IInv, NEW s \in 1..Steps, SuspendStep(s)
  PROVE  IInv'
<1> USE DurableAssumption, OutcomeTags, ValuesOfStep DEF IInv, SuspendStep, Issues
<1>0. live = {} /\ s <= Len(journal) + 1 /\ got[s] = Pending
  BY IssuesAlone
<1>1. TypeOK'
  BY <1>0 DEF TypeOK
<1>2. Aligned'
  BY <1>0 DEF TypeOK, Aligned
<1>3. GivenFromJournal'
  BY <1>0 DEF TypeOK, Aligned, GivenFromJournal
<1>4. OneInFlight'
  BY <1>0 DEF TypeOK, OneInFlight, GivenFromJournal
<1>5. TriesBounded'
  BY <1>0 DEF TypeOK, TriesBounded
<1>6. Spending'
  BY <1>0 DEF TypeOK, Spending, WithinBudget
<1> QED BY <1>1, <1>2, <1>3, <1>4, <1>5, <1>6

(* A step given to a goroutine (context.go:189-193, 205). *)
LEMMA ExecuteInv ==
  ASSUME Sequential, IInv, NEW s \in 1..Steps, ExecuteStep(s)
  PROVE  IInv'
<1> USE DurableAssumption, OutcomeTags, ValuesOfStep DEF IInv, ExecuteStep, Issues, Replayed, OverBudget
<1>0. live = {} /\ s <= Len(journal) + 1 /\ got[s] = Pending
  BY IssuesAlone
<1>1. TypeOK'
  <2> DEFINE x == [turn |-> turn, step |-> s, at |-> "running", val |-> Value(s, tries[s] + 1)]
  <2>1. tries[s] + 1 \in 1..MaxTurns
    <3> s > stepIndex
      BY DEF TypeOK
    <3> QED BY TriesLeft
  <2>2. x.val \in AllValues
    BY <2>1 DEF Values, AllValues
  <2>3. x \in Executions
    BY <2>2 DEF TypeOK, Executions
  <2>4. tries' \in [1..Steps -> 0..MaxTurns]
    BY <2>1 DEF TypeOK
  <2>5. fresh' \in 0..Steps
    BY DEF TypeOK, Spending
  <2>6. live' = {x}
    BY <1>0
  <2> QED BY <2>3, <2>4, <2>5, <2>6 DEF TypeOK
<1>2. Aligned'
  BY <1>0 DEF TypeOK, Aligned
<1>3. GivenFromJournal'
  BY <1>0 DEF TypeOK, Aligned, GivenFromJournal
<1>4. OneInFlight'
  BY <1>0 DEF TypeOK, OneInFlight, GivenFromJournal, TriesBounded, Executions, Values
<1>5. TriesBounded'
  BY <1>0 DEF TypeOK, TriesBounded
<1>6. Spending'
  BY <1>0 DEF TypeOK, Spending, WithinBudget
<1> QED BY <1>1, <1>2, <1>3, <1>4, <1>5, <1>6

(* A handler returned (context.go:178, 207). *)
LEMMA ReturnsInv ==
  ASSUME Sequential, IInv, NEW x \in live, HandlerReturns(x)
  PROVE  IInv'
<1> USE DurableAssumption, OutcomeTags, ValuesOfStep DEF IInv, HandlerReturns, Advance
<1>0. /\ x \in Executions /\ \A y \in live : y = x
      /\ x.step \in 1..Steps /\ x.val \in Values(x.step)
  BY DEF TypeOK, OneInFlight, Executions
<1>1. TypeOK'
  <2>1. [x EXCEPT !.at = "ran"] \in Executions
    BY <1>0 DEF Executions
  <2> QED BY <1>0, <2>1 DEF TypeOK
<1>2. Aligned'
  BY <1>0 DEF TypeOK, Aligned
<1>3. GivenFromJournal'
  BY <1>0 DEF TypeOK, Aligned, GivenFromJournal
<1>4. OneInFlight'
  BY <1>0 DEF TypeOK, OneInFlight, GivenFromJournal, Executions
<1>5. TriesBounded'
  BY <1>0 DEF TypeOK, TriesBounded
<1>6. Spending'
  BY <1>0 DEF TypeOK, Spending, WithinBudget
<1> QED BY <1>1, <1>2, <1>3, <1>4, <1>5, <1>6

(* A handler failed, or left its step unsettled (context.go:161-163, 172). *)
LEMMA FailsInv ==
  ASSUME Sequential, IInv, NEW x \in live, HandlerFails(x)
  PROVE  IInv'
<1> USE DurableAssumption, OutcomeTags, ValuesOfStep DEF IInv, HandlerFails, Deliver
<1>0. /\ x \in Executions /\ \A y \in live : y = x
      /\ x.step \in 1..Steps /\ x.val \in Values(x.step)
  BY DEF TypeOK, OneInFlight, Executions
<1>1. TypeOK'
  <2>1. got' \in [1..Steps -> Outcomes] /\ live' \subseteq live
    BY <1>0 DEF TypeOK
  <2>2. UNCHANGED <<journal, turn, status, ctxDone, maxSteps, stepIndex, tries, fresh>>
    OBVIOUS
  <2> QED BY <2>1, <2>2 DEF TypeOK
<1>2. Aligned'
  BY <1>0 DEF TypeOK, Aligned
<1>3. GivenFromJournal'
  <2>1. \A s \in 1..Steps : got'[s] = got[s] \/ (s = x.step /\ got'[s] = Failed)
    BY <1>0 DEF TypeOK
  <2>2. x.step = stepIndex /\ stepIndex \in Nat
    BY DEF TypeOK, OneInFlight
  <2> QED BY <2>1, <2>2 DEF GivenFromJournal
<1>4. OneInFlight'
  <2>1. live' = {}
    BY <1>0
  <2> QED BY <2>1 DEF OneInFlight
<1>5. TriesBounded'
  BY <1>0 DEF TypeOK, TriesBounded
<1>6. Spending'
  BY <1>0 DEF TypeOK, Spending, WithinBudget
<1> QED BY <1>1, <1>2, <1>3, <1>4, <1>5, <1>6

(* A value is journaled (context.go:165-166). *)
LEMMA JournalInv ==
  ASSUME Sequential, IInv, NEW x \in live, JournalStep(x)
  PROVE  IInv'
<1> USE DurableAssumption, OutcomeTags, ValuesOfStep DEF IInv, JournalStep, Advance
<1>0. /\ x \in Executions /\ \A y \in live : y = x
      /\ x.step \in 1..Steps /\ x.val \in Values(x.step)
  BY DEF TypeOK, OneInFlight, Executions
<1>1. TypeOK'
  <2>1. [x EXCEPT !.at = "journaled"] \in Executions
    BY <1>0 DEF Executions
  <2>2. journal' \in Seq(AllValues)
    BY <1>0 DEF TypeOK
  <2> QED BY <1>0, <2>1, <2>2 DEF TypeOK
<1>2. Aligned'
  BY <1>0 DEF TypeOK, Aligned, OneInFlight
<1>3. GivenFromJournal'
  BY <1>0 DEF TypeOK, Aligned, GivenFromJournal, OneInFlight
<1>4. OneInFlight'
  <2> DEFINE y == [x EXCEPT !.at = "journaled"]
  <2>1. live' = {y}
    BY <1>0
  <2>2. y.turn = x.turn /\ y.step = x.step /\ y.val = x.val /\ y.at = "journaled"
    BY <1>0 DEF Executions
  <2>3. x.step = Len(journal) + 1 /\ Len(journal) \in Nat
    BY <1>0 DEF TypeOK, OneInFlight
  <2>4. x.step = Len(journal') /\ journal'[x.step] = x.val
    BY <1>0, <2>3 DEF TypeOK
  <2>5. x.turn = turn /\ x.step = stepIndex /\ got[x.step].is # "ok"
    BY DEF OneInFlight
  <2> HIDE DEF y
  <2>6. \A z \in live' : z = y
    BY <2>1
  <2> QED BY <1>0, <2>2, <2>4, <2>5, <2>6 DEF OneInFlight
<1>5. TriesBounded'
  BY <1>0 DEF TypeOK, TriesBounded
<1>6. Spending'
  BY <1>0 DEF TypeOK, Spending, WithinBudget
<1> QED BY <1>1, <1>2, <1>3, <1>4, <1>5, <1>6

(* A journaled step is resolved (context.go:167). *)
LEMMA ResolveInv ==
  ASSUME Sequential, IInv, NEW x \in live, ResolveStep(x)
  PROVE  IInv'
<1> USE DurableAssumption, OutcomeTags, ValuesOfStep DEF IInv, ResolveStep, Deliver
<1>0. /\ x \in Executions /\ \A y \in live : y = x
      /\ x.step \in 1..Steps /\ x.val \in Values(x.step)
  BY DEF TypeOK, OneInFlight, Executions
<1>1. TypeOK'
  BY <1>0 DEF TypeOK
<1>2. Aligned'
  BY <1>0 DEF TypeOK, Aligned
<1>3. GivenFromJournal'
  <2>1. \A s \in 1..Steps : got'[s] = got[s] \/ (s = x.step /\ got'[s] = Given(x.val))
    BY <1>0 DEF TypeOK
  <2>2. x.step = stepIndex /\ stepIndex \in Nat /\ x.step = Len(journal) /\ journal[x.step] = x.val
    BY DEF TypeOK, OneInFlight
  <2>3. UNCHANGED <<journal, stepIndex>> /\ Len(journal) \in Nat
    BY DEF TypeOK
  <2> QED BY <1>0, <2>1, <2>2, <2>3 DEF GivenFromJournal
<1>4. OneInFlight'
  BY <1>0 DEF TypeOK, OneInFlight, GivenFromJournal
<1>5. TriesBounded'
  BY <1>0 DEF TypeOK, TriesBounded
<1>6. Spending'
  BY <1>0 DEF TypeOK, Spending, WithinBudget
<1> QED BY <1>1, <1>2, <1>3, <1>4, <1>5, <1>6

(* The body ends or is cancelled, or the context ends. *)
LEMMA TurnInv ==
  ASSUME Sequential, IInv, BodyReturns \/ BodyStops \/ CancelTurn \/ ContextEnds
  PROVE  IInv'
<1> USE DurableAssumption, OutcomeTags, ValuesOfStep DEF IInv, BodyReturns, BodyStops, CancelTurn, ContextEnds
<1>1. TypeOK'
  BY DEF TypeOK
<1>2. Aligned'
  BY DEF TypeOK, Aligned
<1>3. GivenFromJournal'
  BY DEF TypeOK, Aligned, GivenFromJournal
<1>4. OneInFlight'
  BY DEF TypeOK, OneInFlight, GivenFromJournal, BodyReturns
<1>5. TriesBounded'
  BY DEF TypeOK, TriesBounded
<1>6. Spending'
  BY DEF TypeOK, Spending, WithinBudget
<1> QED BY <1>1, <1>2, <1>3, <1>4, <1>5, <1>6

(* The end of the context reaches a step. *)
LEMMA EndsStepInv ==
  ASSUME Sequential, IInv, NEW s \in 1..Steps, ContextEndsStep(s)
  PROVE  IInv'
<1> USE DurableAssumption, OutcomeTags, ValuesOfStep DEF IInv, ContextEndsStep
<1>1. TypeOK'
  BY DEF TypeOK
<1>2. Aligned'
  BY DEF TypeOK, Aligned
<1>3. GivenFromJournal'
  BY DEF TypeOK, Aligned, GivenFromJournal
<1>4. OneInFlight'
  BY DEF TypeOK, OneInFlight, GivenFromJournal
<1>5. TriesBounded'
  BY DEF TypeOK, TriesBounded
<1>6. Spending'
  BY DEF TypeOK, Spending, WithinBudget
<1> QED BY <1>1, <1>2, <1>3, <1>4, <1>5, <1>6

(* The next turn starts on the same journal (context.go:112-119). *)
LEMMA NewTurnInv ==
  ASSUME Sequential, IInv, NewTurn
  PROVE  IInv'
<1> USE DurableAssumption, OutcomeTags, ValuesOfStep DEF IInv, NewTurn, Sequential
<1>1. TypeOK'
  <2>1. turn' \in 1..MaxTurns
    BY DEF TypeOK
  <2>2. got' \in [1..Steps -> Outcomes]
    OBVIOUS
  <2>3. ctxDone' \in BOOLEAN
    OBVIOUS
  <2>4. /\ status' \in {"running", "completed", "stopped"} /\ maxSteps' \in Budgets
        /\ stepIndex' \in 0..Steps /\ fresh' \in 0..Steps
    OBVIOUS
  <2>5. UNCHANGED <<journal, live, tries>>
    OBVIOUS
  <2> QED BY <2>1, <2>2, <2>3, <2>4, <2>5 DEF TypeOK
<1>2. Aligned'
  BY DEF TypeOK, Aligned
<1>3. GivenFromJournal'
  BY DEF TypeOK, Aligned, GivenFromJournal
<1>4. OneInFlight'
  BY DEF TypeOK, OneInFlight, GivenFromJournal
<1>5. TriesBounded'
  <2> SUFFICES ASSUME NEW s \in 1..Steps PROVE tries[s] < turn + 1
    BY DEF TypeOK, TriesBounded
  <2> QED BY DEF TypeOK, TriesBounded
<1>6. Spending'
  BY DEF TypeOK, Spending, WithinBudget
<1> QED BY <1>1, <1>2, <1>3, <1>4, <1>5, <1>6

(* The invariant is inductive. *)
LEMMA StepInv == Sequential /\ IInv /\ [Next]_vars => IInv'
<1> SUFFICES ASSUME Sequential, IInv, [Next]_vars PROVE IInv'
  OBVIOUS
<1>1. CASE UNCHANGED vars
  BY <1>1 DEF vars, IInv, TypeOK, Aligned, GivenFromJournal, OneInFlight, TriesBounded,
     Spending, WithinBudget
<1>2. CASE Body
  BY <1>2, ReplayInv, SuspendInv, ExecuteInv, TurnInv DEF Body
<1>3. CASE CancelTurn \/ ContextEnds \/ \E s \in 1..Steps : ContextEndsStep(s)
  BY <1>3, TurnInv, EndsStepInv
<1>4. CASE NewTurn
  BY <1>4, NewTurnInv
<1>5. CASE \E x \in live : Execution(x)
  BY <1>5, ReturnsInv, FailsInv, JournalInv, ResolveInv DEF Execution
<1> QED BY <1>1, <1>2, <1>3, <1>4, <1>5 DEF Next

(* The invariant holds throughout every execution of a sequential workflow. *)
LEMMA Invariance == ASSUME Sequential PROVE Spec => []IInv
BY Sequential, InitInv, StepInv, PTL DEF Spec

-----------------------------------------------------------------------------
(* What holds of every workflow, whether or not it awaits its steps and its *)
(* turns overlap: types, at most one execution of a step per turn, budgets. *)
Bounds == TypeOK /\ TriesBounded /\ Spending

(* Executing a step the turn has just allocated (context.go:135-143, 189-193). *)
LEMMA ExecuteBounds ==
  ASSUME Bounds, NEW s \in 1..Steps, ExecuteStep(s)
  PROVE  Bounds'
<1> USE DurableAssumption DEF Bounds, ExecuteStep, Issues, OverBudget
<1>1. s > stepIndex /\ tries[s] + 1 \in 1..MaxTurns
  <2>1. s > stepIndex
    BY DEF TypeOK
  <2> QED BY <2>1, TriesLeft
<1>2. TypeOK'
  <2> DEFINE x == [turn |-> turn, step |-> s, at |-> "running", val |-> Value(s, tries[s] + 1)]
  <2>1. x.val \in AllValues
    BY <1>1 DEF Values, AllValues
  <2>2. x \in Executions
    BY <2>1 DEF TypeOK, Executions
  <2>3. tries' \in [1..Steps -> 0..MaxTurns] /\ fresh' \in 0..Steps
    BY <1>1 DEF TypeOK, Spending
  <2>4. live' = live \cup {x}
    OBVIOUS
  <2> HIDE DEF x
  <2> QED BY <2>2, <2>3, <2>4 DEF TypeOK
<1>3. TriesBounded'
  BY <1>1 DEF TypeOK, TriesBounded
<1>4. Spending'
  BY DEF TypeOK, Spending, WithinBudget
<1> QED BY <1>2, <1>3, <1>4

(* The steps of the goroutines that execute (context.go:160-179, 207).     *)
LEMMA ExecutionBounds ==
  ASSUME Bounds, NEW x \in live, Execution(x)
  PROVE  Bounds'
<1> USE DurableAssumption DEF Bounds
<1>0. x \in Executions /\ x.step \in 1..Steps /\ x.val \in AllValues
  BY DEF TypeOK, Executions
<1>1. UNCHANGED <<turn, status, ctxDone, maxSteps, stepIndex, tries, fresh>>
  BY DEF Execution, HandlerReturns, HandlerFails, JournalStep, ResolveStep
<1>2. TriesBounded' /\ Spending'
  BY <1>1 DEF TriesBounded, Spending, WithinBudget
<1>3. live' \subseteq Executions
  <2>1. \A at \in {"ran", "journaled"} : [x EXCEPT !.at = at] \in Executions
    BY <1>0 DEF Executions
  <2> QED BY <2>1 DEF TypeOK, Execution, HandlerReturns, HandlerFails, JournalStep,
             ResolveStep, Advance
<1>4. journal' \in Seq(AllValues)
  <2>1. journal' = journal \/ journal' = Append(journal, x.val)
    BY DEF Execution, HandlerReturns, HandlerFails, JournalStep, ResolveStep
  <2>2. journal \in Seq(AllValues) /\ x.val \in AllValues
    BY <1>0 DEF TypeOK
  <2>3. Append(journal, x.val) \in Seq(AllValues)
    BY ONLY <2>2
  <2> QED BY <2>1, <2>2, <2>3
<1>5. got' \in [1..Steps -> Outcomes]
  <2>1. Given(x.val) \in Outcomes /\ Failed \in Outcomes
    BY <1>0, OutcomeTags
  <2> QED BY <1>0, <2>1 DEF TypeOK, Execution, HandlerReturns, HandlerFails, JournalStep,
             ResolveStep, Deliver
<1> QED BY <1>1, <1>2, <1>3, <1>4, <1>5 DEF TypeOK

(* The body, the context and a new turn (context.go:112-126, 135-157).     *)
LEMMA TurnBounds ==
  ASSUME Bounds,
         \/ BodyReturns \/ BodyStops \/ CancelTurn \/ NewTurn \/ ContextEnds
         \/ \E s \in 1..Steps : ReplayStep(s) \/ SuspendStep(s) \/ ContextEndsStep(s)
  PROVE  Bounds'
<1> USE DurableAssumption, OutcomeTags DEF Bounds
<1>1. CASE BodyReturns \/ BodyStops \/ CancelTurn \/ ContextEnds
  BY <1>1 DEF BodyReturns, BodyStops, CancelTurn, ContextEnds, TypeOK, TriesBounded, Spending,
     WithinBudget
<1>2. CASE NewTurn
  <2>1. turn' \in 1..MaxTurns /\ got' \in [1..Steps -> Outcomes]
    BY <1>2 DEF NewTurn, TypeOK
  <2>2. TypeOK'
    <3>1. ctxDone' \in BOOLEAN
      BY <1>2 DEF NewTurn
    <3>2. /\ status' \in {"running", "completed", "stopped"} /\ maxSteps' \in Budgets
          /\ stepIndex' \in 0..Steps /\ fresh' \in 0..Steps
      BY <1>2 DEF NewTurn
    <3>3. UNCHANGED <<journal, live, tries>>
      BY <1>2 DEF NewTurn
    <3> QED BY <2>1, <3>1, <3>2, <3>3 DEF TypeOK
  <2>3. TriesBounded'
    BY <1>2 DEF NewTurn, TypeOK, TriesBounded
  <2>4. Spending'
    BY <1>2 DEF NewTurn, TypeOK, Spending, WithinBudget
  <2> QED BY <2>2, <2>3, <2>4
<1>3. ASSUME NEW s \in 1..Steps, ReplayStep(s) PROVE Bounds'
  <2>1. Given(journal[s]) \in Outcomes
    BY <1>3 DEF ReplayStep, Replayed, TypeOK
  <2>2. TypeOK'
    BY <1>3, <2>1 DEF ReplayStep, Issues, TypeOK
  <2> QED BY <1>3, <2>2 DEF ReplayStep, Issues, TypeOK, TriesBounded, Spending, WithinBudget
<1>4. ASSUME NEW s \in 1..Steps, SuspendStep(s) PROVE Bounds'
  BY <1>4 DEF SuspendStep, Issues, TypeOK, TriesBounded, Spending, WithinBudget
<1>5. ASSUME NEW s \in 1..Steps, ContextEndsStep(s) PROVE Bounds'
  BY <1>5 DEF ContextEndsStep, TypeOK, TriesBounded, Spending, WithinBudget
<1> QED BY <1>1, <1>2, <1>3, <1>4, <1>5

(* The bounds hold throughout every execution of any workflow.             *)
LEMMA BoundsInvariance == Spec => []Bounds
<1>1. Init => Bounds
  BY InitInv DEF IInv, Bounds
<1>2. Bounds /\ [Next]_vars => Bounds'
  <2> SUFFICES ASSUME Bounds, [Next]_vars PROVE Bounds'
    OBVIOUS
  <2>1. CASE UNCHANGED vars
    BY <2>1 DEF vars, Bounds, TypeOK, TriesBounded, Spending, WithinBudget
  <2>2. CASE Next
    BY <2>2, ExecuteBounds, ExecutionBounds, TurnBounds DEF Next, Body
  <2> QED BY <2>1, <2>2
<1> QED BY <1>1, <1>2, PTL DEF Spec

-----------------------------------------------------------------------------
(* The journal, the turn's bookkeeping and every execution keep their types *)
(* (context.go:67-109), with or without fan-out and overlapping turns.     *)
THEOREM TypeCorrect == Spec => []TypeOK
BY BoundsInvariance, PTL DEF Bounds

(* A turn is given each step's own result, the one on record, whether it   *)
(* executed the step or replayed it (context.go:135-168).                  *)
THEOREM OwnResultsReplayed == ASSUME Sequential PROVE Spec => []ReplayGivesOwnResult
<1>1. IInv => ReplayGivesOwnResult
  <2> SUFFICES ASSUME IInv, NEW s \in 1..Steps, got[s].is = "ok"
               PROVE  /\ got[s].val.step = s
                      /\ s <= Len(journal) /\ got[s].val = journal[s]
    BY DEF ReplayGivesOwnResult, GivesOwnStep
  <2>1. s <= Len(journal) /\ got[s] = Given(journal[s])
    BY DEF IInv, GivenFromJournal
  <2>2. s \in 1..Len(journal)
    BY <2>1 DEF IInv, TypeOK
  <2>3. journal[s] \in Values(s)
    BY <2>2 DEF IInv, Aligned
  <2>4. got[s].val = journal[s] /\ journal[s].step = s
    BY <2>1, <2>3, OutcomeTags, ValuesOfStep
  <2> QED BY <2>1, <2>4
<1> QED BY <1>1, Invariance, PTL

(* No turn executes more steps than SetMaxSteps allows (context.go:141),   *)
(* with or without fan-out and overlapping turns.                          *)
THEOREM BudgetKept == Spec => []WithinBudget
BY BoundsInvariance, PTL DEF Bounds, Spending

(* A step with a value on record, wherever in the journal, or with an      *)
(* execution under way is not executed again: the steps on record are the  *)
(* first ones, in order, and a body that awaits its steps issues the first *)
(* of the others (context.go:84-92, 135-143).                              *)
THEOREM JournaledStepsStay == ASSUME Sequential PROVE Spec => NoReexecution
<1>1. ASSUME IInv, NEW t \in 1..Steps, ExecuteStep(t),
             NEW s \in 1..Steps, OnRecord(s) \/ UnderWay(s)
      PROVE  s # t
  <2>1. live = {} /\ t > Len(journal)
    BY <1>1, IssuesAlone DEF ExecuteStep, Replayed, IInv, TypeOK
  <2>2. PICK i \in DOMAIN journal : journal[i].step = s
    BY <1>1, <2>1 DEF OnRecord, UnderWay
  <2>3. i \in 1..Len(journal) /\ i \in 1..Steps /\ Len(journal) \in Nat
    BY <1>1, <2>2, DurableAssumption DEF IInv, TypeOK, Aligned
  <2>4. journal[i].step = i
    BY <1>1, <2>3, ValuesOfStep DEF IInv, Aligned
  <2> QED BY <2>1, <2>2, <2>3, <2>4
<1>2. IInv /\ [Next]_vars =>
        [\A s \in 1..Steps : OnRecord(s) \/ UnderWay(s) => tries'[s] = tries[s]]_tries
  <2> SUFFICES ASSUME IInv, [Next]_vars, NEW s \in 1..Steps, OnRecord(s) \/ UnderWay(s)
               PROVE  tries'[s] = tries[s]
    OBVIOUS
  <2>1. CASE UNCHANGED tries
    BY <2>1
  <2>2. ASSUME NEW t \in 1..Steps, ExecuteStep(t) PROVE tries'[s] = tries[s]
    <3>1. tries' = [tries EXCEPT ![t] = tries[t] + 1] /\ s # t
      BY <1>1, <2>2 DEF ExecuteStep
    <3> QED BY <3>1 DEF IInv, TypeOK
  <2> QED
    BY <2>1, <2>2 DEF Next, vars, Body, BodyReturns, BodyStops, ReplayStep, SuspendStep,
       CancelTurn, NewTurn, ContextEnds, ContextEndsStep, Execution, HandlerReturns,
       HandlerFails, JournalStep, ResolveStep
<1> QED BY <1>2, Invariance, PTL DEF Spec, NoReexecution

-----------------------------------------------------------------------------
(* Refinement: journaling a value completes a step, and a replay or a       *)
(* resolution gives it to the turn.                                         *)

(* A step that gives the turn a value on record, and nothing else.         *)
LEMMA GiveStep ==
  ASSUME IInv, NEW s \in 1..Steps, got[s] = Pending, UNCHANGED journal,
         s <= Len(journal), got' = [got EXCEPT ![s] = Given(journal[s])]
  PROVE  Promise!Give(s)
<1>1. s \in 1..Len(journal) /\ got \in [1..Steps -> Outcomes]
  BY DEF IInv, TypeOK
<1>2. View[s] = Pending
  BY OutcomeTags DEF View
<1>3. got'[s].is = "ok" /\ got'[s].val = journal[s]
  <2>1. journal[s] \in AllValues
    BY <1>1, ValuesOfStep DEF IInv, Aligned
  <2> QED BY <1>1, <2>1, OutcomeTags
<1>4. \A t \in 1..Steps : t # s => got'[t] = got[t]
  BY <1>1
<1>5. View' = [View EXCEPT ![s] = journal[s]]
  <2> DEFINE w == [View EXCEPT ![s] = journal[s]]
  <2>1. \A t \in 1..Steps : View'[t] = w[t]
    <3> TAKE t \in 1..Steps
    <3>1. CASE t = s
      BY <1>3, <3>1 DEF View
    <3>2. CASE t # s
      BY <1>4, <3>2 DEF View
    <3> QED BY <3>1, <3>2
  <2>2. View' = [t \in 1..Steps |-> View'[t]]
    BY DEF View
  <2>3. w = [t \in 1..Steps |-> w[t]]
    BY DEF View
  <2> HIDE DEF w
  <2>4. View' = w
    BY <2>1, <2>2, <2>3
  <2> QED BY <2>4 DEF w
<1> QED BY <1>1, <1>2, <1>5 DEF Promise!Give

(* A step that leaves what the turn was given alone. *)
LEMMA SameView ==
  ASSUME IInv, NEW s \in 1..Steps, got[s] = Pending, NEW r \in {Suspended, Failed},
         got' = [got EXCEPT ![s] = r]
  PROVE  View' = View
<1>1. got \in [1..Steps -> Outcomes]
  BY DEF IInv, TypeOK
<1>2. \A t \in 1..Steps : got'[t].is = "ok" <=> got[t].is = "ok"
  BY <1>1, OutcomeTags
<1>3. \A t \in 1..Steps : got'[t].is = "ok" => got'[t] = got[t]
  BY <1>1, OutcomeTags
<1> QED BY <1>2, <1>3 DEF View

(* Each step of a turn is a step of the abstract workflow or invisible to   *)
(* it: Journal.Append completes a step, the promise gives it to the turn,   *)
(* and a new turn starts over with nothing given.                          *)
LEMMA RefinesStep ==
  Sequential /\ IInv /\ IInv' /\ [Next]_vars => [Promise!Next]_(Promise!wvars)
<1> SUFFICES ASSUME Sequential, IInv, IInv', [Next]_vars
             PROVE  [Promise!Next]_(Promise!wvars)
  OBVIOUS
<1>0. \A x \in live : x \in Executions /\ x.step \in 1..Steps
  BY DEF IInv, TypeOK, Executions
<1>1. CASE UNCHANGED <<journal, got>>
  BY <1>1 DEF Promise!wvars, View
<1>2. ASSUME NEW s \in 1..Steps, ReplayStep(s) PROVE Promise!Next
  <2>1. got[s] = Pending
    BY <1>2, IssuesAlone DEF ReplayStep
  <2>2. Promise!Give(s)
    BY <1>2, <2>1, GiveStep DEF ReplayStep, Replayed
  <2> QED BY <2>2 DEF Promise!Next
<1>3. ASSUME NEW s \in 1..Steps, SuspendStep(s) PROVE UNCHANGED Promise!wvars
  <2>1. got[s] = Pending
    BY <1>3, IssuesAlone DEF SuspendStep
  <2> QED BY <1>3, <2>1, SameView DEF SuspendStep, Promise!wvars
<1>4. ASSUME NEW s \in 1..Steps, ContextEndsStep(s) PROVE UNCHANGED Promise!wvars
  BY <1>4, SameView DEF ContextEndsStep, Promise!wvars
<1>5. ASSUME NEW x \in live, HandlerFails(x) PROVE [Promise!Next]_(Promise!wvars)
  <2>1. CASE UNCHANGED got
    BY <1>1, <1>5, <2>1 DEF HandlerFails
  <2>2. CASE got[x.step] = Pending /\ got' = [got EXCEPT ![x.step] = Failed]
    BY <1>0, <1>5, <2>2, SameView DEF HandlerFails, Promise!wvars
  <2> QED BY <1>5, <2>1, <2>2 DEF HandlerFails, Deliver
<1>6. ASSUME NEW x \in live, JournalStep(x) PROVE Promise!Next
  <2>1. x.step = Len(journal) + 1 /\ x.val \in Values(x.step) /\ x.step <= Steps
    BY <1>0, <1>6 DEF JournalStep, IInv, OneInFlight
  <2>2. Len(journal) < Steps
    BY <2>1, DurableAssumption DEF IInv, TypeOK
  <2>3. View' = View
    BY <1>6 DEF JournalStep, View
  <2>4. Promise!Complete
    BY <1>6, <2>1, <2>2, <2>3 DEF JournalStep, Promise!Complete
  <2> QED BY <2>4 DEF Promise!Next
<1>7. ASSUME NEW x \in live, ResolveStep(x) PROVE [Promise!Next]_(Promise!wvars)
  <2>1. CASE UNCHANGED got
    BY <1>1, <1>7, <2>1 DEF ResolveStep
  <2>2. CASE got[x.step] = Pending /\ got' = [got EXCEPT ![x.step] = Given(x.val)]
    <3>1. x.step = Len(journal) /\ journal[x.step] = x.val
      BY <1>7 DEF ResolveStep, IInv, OneInFlight
    <3>2. Len(journal) \in Nat /\ UNCHANGED journal
      BY <1>7 DEF ResolveStep, IInv, TypeOK
    <3>3. x.step <= Len(journal) /\ got' = [got EXCEPT ![x.step] = Given(journal[x.step])]
      BY <2>2, <3>1, <3>2
    <3>4. Promise!Give(x.step)
      BY <1>0, <2>2, <3>2, <3>3, GiveStep
    <3> QED BY <1>0, <3>4 DEF Promise!Next
  <2> QED BY <1>7, <2>1, <2>2 DEF ResolveStep, Deliver
<1>8. ASSUME NewTurn PROVE Promise!Next
  <2>1. View' = [s \in 1..Steps |-> Pending]
    BY <1>8, OutcomeTags DEF NewTurn, View
  <2> QED BY <1>8, <2>1 DEF NewTurn, Promise!Restart, Promise!Next
<1>9. CASE Body
  <2>1. CASE BodyReturns \/ BodyStops \/ \E s \in 1..Steps : ExecuteStep(s)
    BY <1>1, <2>1 DEF BodyReturns, BodyStops, ExecuteStep
  <2> QED BY <1>2, <1>3, <1>9, <2>1 DEF Body
<1>10. CASE CancelTurn \/ ContextEnds
  BY <1>1, <1>10 DEF CancelTurn, ContextEnds
<1>11. ASSUME NEW x \in live, Execution(x) PROVE [Promise!Next]_(Promise!wvars)
  BY <1>1, <1>5, <1>6, <1>7, <1>11 DEF Execution, HandlerReturns
<1> QED BY <1>1, <1>4, <1>8, <1>9, <1>10, <1>11 DEF Next, vars

(* Turns of a sequential workflow implement Workflow.tla: steps complete in *)
(* order, each once, into a record that only grows, and every turn is given *)
(* what is on record (context.go:66-210).                                  *)
THEOREM TurnsImplementWorkflow == ASSUME Sequential PROVE Spec => ImplementsWorkflow
<1>1. Init => Promise!Init
  BY OutcomeTags DEF Init, Promise!Init, View
<1> QED BY <1>1, Sequential, RefinesStep, Invariance, PTL DEF Spec, Promise!Spec, ImplementsWorkflow
=============================================================================
