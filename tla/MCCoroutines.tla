----------------------------- MODULE MCCoroutines -----------------------------
(***************************************************************************)
(* Coroutines and their engines, one question at a time.  Two goroutines   *)
(* that call Run on one task, whose body may spawn a child, with both      *)
(* engines.  Or the handlers of one engine that three tasks share: t1 and  *)
(* t2 handle the same operation with payloads of different types.  Or a    *)
(* durable workflow of three steps over four turns, with every kind of     *)
(* budget.                                                                 *)
(***************************************************************************)
EXTENDS Task, Turns

CONSTANTS
  r1, r2, c1,
  Tasks, OnCall(_), Requests    \* of the shared engine

MCRunners == {r1, r2}
MCChildren == {c1}
MCEngines == {"own", "supplied"}

VARIABLES inUse, handlers, packaging, packaged, answer, raced

dispatchVars == <<handlers, packaging, packaged, answer, raced>>

MCTasks == {"t1", "t2", "t3"}
MCOnCall(t) ==
  LET Handler(op, type) == [op |-> op, takes |-> type, owner |-> t] IN
  CASE t = "t1" -> <<Handler("ask", "int")>>
    [] t = "t2" -> <<Handler("log", "int"), Handler("ask", "string")>>
    [] t = "t3" -> <<>>

Request(t, op, type) == [task |-> t, op |-> op, payload |-> type]
MCRequests ==
  {Request("t1", "ask", "int"), Request("t2", "ask", "string"), Request("t2", "log", "int"),
   Request("t3", "ask", "int"), Request("t3", "log", "string")}

(* SetHandlers keeps a slice per task, and a handler says whose it is; no  *)
(* task is named like the other answers to a call.                         *)
HandlersOf(t) == {OnCall(t)[i] : i \in DOMAIN OnCall(t)}

ASSUME EngineAssumption ==
  /\ \A t \in Tasks : OnCall(t) \in Seq(HandlersOf(t)) /\ \A h \in HandlersOf(t) : h.owner = t
  /\ Tasks \cap {None, "no handler", "type mismatch", "panic"} = {}

TheEngine == INSTANCE Dispatch WITH Nobody <- None

MCBudgets == {-1, 0, 1, 2}

turnVars == <<journal, turn, status, ctxDone, maxSteps, stepIndex, got, live, tries, fresh>>

TheWorkflow == INSTANCE DurableContext

MCInit ==
  /\ inUse \in {"task", "engine", "workflow"}
  /\ Init /\ (inUse # "task" => engine = "own")
  /\ TheEngine!Init
  /\ TheWorkflow!Init /\ (inUse # "workflow" => maxSteps = -1)

MCNext ==
  \/ inUse = "task" /\ Next /\ UNCHANGED <<inUse, dispatchVars, turnVars>>
  \/ inUse = "engine" /\ TheEngine!Next /\ UNCHANGED <<inUse, vars, turnVars>>
  \/ inUse = "workflow" /\ TheWorkflow!Next /\ UNCHANGED <<inUse, vars, dispatchVars>>

(* The fairness of a workflow concerns only the behaviours that run one.   *)
MCSpec ==
  /\ MCInit /\ [][MCNext]_<<inUse, vars, dispatchVars, turnVars>>
  /\ Fairness
  /\ WF_turnVars(inUse = "workflow" /\ TheWorkflow!Body)
  /\ WF_turnVars(inUse = "workflow" /\ \E x \in live : TheWorkflow!Execution(x))
  /\ WF_turnVars(inUse = "workflow" /\ \E s \in 1..Steps : TheWorkflow!ContextEndsStep(s))

(* The engine's own property. *)
EngineFirstHandlerAnswers == TheEngine!FirstHandlerAnswers

(* Every turn of a workflow that is run ends as TurnEnds says.             *)
EveryTurnEnds == inUse = "workflow" => TurnEnds
=============================================================================
