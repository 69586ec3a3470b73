--------------------------------- MODULE Task ---------------------------------
(***************************************************************************)
(* A coroutine of async/coroutine.go: a packaged Task with the goroutines  *)
(* that call Run, the body, and the children it spawns with Co.Async or    *)
(* Co.Call.  A child is two futures, the engine's (untyped) and the one the *)
(* body holds (typed), with a goroutine of the engine that settles the     *)
(* first and one of bridgeFuture that carries its result to the second.    *)
(* The engine is the task's own GoroutineContext or one that the caller    *)
(* supplied in Config.Context.                                             *)
(*                                                                         *)
(* Futures are the single-assignment cells of Future.tla; a context's end  *)
(* reaches its children in later steps.                                    *)
(***************************************************************************)
EXTENDS Naturals

CONSTANTS
  Runners,        \* goroutines that call Task.Run; Launch's is one of them
  Children,       \* the Async and Call children the body may spawn
  Engines         \* which engines to consider: "own", "supplied"

ASSUME TaskAssumption == Engines \subseteq {"own", "supplied"}

(* Results, and the causes contexts end with, by origin. *)
OK == "ok"
Zero == "zero"                  \* the zero Result, an OK nobody produced
Errors ==
  {"body error", "panic", "fn error", "fn panic", "mismatch", "user", "base", "canceled"}
Results == {OK, Zero} \cup Errors
None == "none"
Live == "live"

(* A settled future's context is cancelled with the error, or with nil.    *)
CauseOf(r) == IF r = OK THEN "canceled" ELSE r

VARIABLES
  engine,         \* "own" or "supplied"
  cause,          \* of the contexts "base" and "task"
  started,        \* Task.started
  task,           \* the result of the task's future
  pc, ret,        \* of each Run: where it is and what it returned
  ended,          \* how the body ended, None before
  runs,           \* how often the body was entered
  fn,             \* the engine's goroutine of each child
  anyCause, any,  \* the engine's future of each child
  futCause, fut,  \* the body's future of each child
  bridge          \* the goroutine that carries one to the other

taskVars == <<cause, started, task, pc, ret, ended, runs>>
childVars == <<fn, anyCause, any, futCause, fut, bridge>>
vars == <<engine, taskVars, childVars>>

TypeOK ==
  /\ engine \in Engines
  /\ cause \in [{"base", "task"} -> Errors \cup {Live}]
  /\ started \in BOOLEAN
  /\ task \in Results \cup {None}
  /\ pc \in [Runners -> {"idle", "check", "body", "fold", "recover", "await", "done", "gone"}]
  /\ ret \in [Runners -> Results \cup {None}]
  /\ ended \in {None, "ok", "body error", "panic", "nil panic", "exit"}
  /\ runs \in Nat
  /\ fn \in [Children -> {None, "running", "done"}]
  /\ anyCause \in [Children -> Errors \cup {Live}]
  /\ any \in [Children -> Results \cup {None}]
  /\ futCause \in [Children -> Errors \cup {Live}]
  /\ fut \in [Children -> Results \cup {None}]
  /\ bridge \in [Children -> {None, "inline", "finishing", "waiting", "carrying", "done"}]

Init ==
  /\ engine \in Engines
  /\ cause = [c \in {"base", "task"} |-> Live]
  /\ started = FALSE
  /\ task = None
  /\ pc = [r \in Runners |-> "idle"]
  /\ ret = [r \in Runners |-> None]
  /\ ended = None
  /\ runs = 0
  /\ fn = [c \in Children |-> None]
  /\ anyCause = [c \in Children |-> Live]
  /\ any = [c \in Children |-> None]
  /\ futCause = [c \in Children |-> Live]
  /\ fut = [c \in Children |-> None]
  /\ bridge = [c \in Children |-> None]

Go(r, from, to) ==
  /\ pc[r] = from
  /\ pc' = [pc EXCEPT ![r] = to]

TaskDone == cause["task"] # Live

(* settle on the task's future *)
SettleTask(r) ==
  IF task # None THEN UNCHANGED <<task, cause>>
  ELSE /\ task' = r
       /\ cause' = IF TaskDone THEN cause ELSE [cause EXCEPT !["task"] = CauseOf(r)]

(* settle on one of a child's two futures, given as result and cause *)
Settle(res, c, r) == IF res[c] = None THEN [res EXCEPT ![c] = r] ELSE res
EndBy(ctx, res, c, r) ==
  IF res[c] = None /\ ctx[c] = Live THEN [ctx EXCEPT ![c] = CauseOf(r)] ELSE ctx

-----------------------------------------------------------------------------
(* Contexts: the base is Config.Context or Background. *)

BaseEnds ==
  /\ cause["base"] = Live
  /\ cause' = [cause EXCEPT !["base"] = "base"]
  /\ UNCHANGED <<engine, started, task, pc, ret, ended, runs, childVars>>

BaseReachesTask ==
  /\ cause["base"] # Live /\ ~ TaskDone
  /\ cause' = [cause EXCEPT !["task"] = cause["base"]]
  /\ UNCHANGED <<engine, started, task, pc, ret, ended, runs, childVars>>

(* The engine's futures are children of the engine's context: the task's   *)
(* for its own GoroutineContext, the base for a supplied engine.           *)
EngineCtx == IF engine = "own" THEN "task" ELSE "base"

EngineReachesChild(c) ==
  /\ fn[c] # None /\ anyCause[c] = Live /\ cause[EngineCtx] # Live
  /\ anyCause' = [anyCause EXCEPT ![c] = cause[EngineCtx]]
  /\ UNCHANGED <<engine, taskVars, fn, any, futCause, fut, bridge>>

EngineReachesFuture(c) ==
  /\ fn[c] # None /\ futCause[c] = Live /\ cause[EngineCtx] # Live
  /\ futCause' = [futCause EXCEPT ![c] = cause[EngineCtx]]
  /\ UNCHANGED <<engine, taskVars, fn, anyCause, any, fut, bridge>>

TaskReachesChild(c) ==
  /\ fn[c] # None /\ futCause[c] = Live /\ TaskDone
  /\ futCause' = [futCause EXCEPT ![c] = cause["task"]]
  /\ UNCHANGED <<engine, taskVars, fn, anyCause, any, fut, bridge>>

-----------------------------------------------------------------------------
(* Run. *)

(* started.CompareAndSwap(false, true): the others await the future. *)
StoreStarted(r) ==
  /\ Go(r, "idle", "check")
  /\ started' = TRUE
  /\ UNCHANGED <<engine, cause, task, ret, ended, runs, childVars>>

CompareAndSwap(r) ==
  /\ IF started THEN Go(r, "idle", "await") ELSE Go(r, "idle", "check")
  /\ started' = TRUE
  /\ UNCHANGED <<engine, cause, task, ret, ended, runs, childVars>>

(* A task that was cancelled before it started does not run its body.      *)
Check(r) ==
  /\ \/ TaskDone /\ Go(r, "check", "await") /\ UNCHANGED runs
     \/ ~ TaskDone /\ Go(r, "check", "body") /\ runs' = runs + 1
  /\ UNCHANGED <<engine, cause, started, task, ret, ended, childVars>>

(* The body does not go on while it carries a child's result itself.       *)
BodyFree == \A c \in Children : bridge[c] \notin {"inline", "finishing"}

(* The body returns a value or an error, panics, with a value or with a nil *)
(* of some type, or leaves by Goexit, after which recover() returns nil.   *)
BodyEnds(r) ==
  /\ BodyFree
  /\ \/ Go(r, "body", "fold") /\ ended' \in {"ok", "body error"}
     \/ Go(r, "body", "recover") /\ ended' \in {"panic", "nil panic"}
     \/ Go(r, "body", "gone") /\ ended' = "exit"
  /\ UNCHANGED <<engine, cause, started, task, ret, runs, childVars>>


Fold(r) ==
  /\ Go(r, "fold", "await")
  /\ SettleTask(ended)
  /\ UNCHANGED <<engine, started, ret, ended, runs, childVars>>

(* settlePanic recovers and rejects the promise, but for a panic with a nil *)
(* of some type, which adt.Opt takes for None: it is recovered and settles *)
(* nothing.  Either way the deferred call leaves the unnamed result of run *)
(* at its zero value, and that is what Run returns.                        *)
ForgetPanic(r) ==
  /\ Go(r, "recover", "done")
  /\ ret' = [ret EXCEPT ![r] = Zero]
  /\ UNCHANGED <<engine, cause, started, task, ended, runs, childVars>>

Recover(r) ==
  /\ Go(r, "recover", "done")
  /\ \/ ended = "panic" /\ SettleTask("panic")
     \/ ended = "nil panic" /\ UNCHANGED <<task, cause>>
  /\ ret' = [ret EXCEPT ![r] = Zero]
  /\ UNCHANGED <<engine, started, ended, runs, childVars>>

Await(r) ==
  /\ TaskDone
  /\ Go(r, "await", "done")
  /\ SettleTask(cause["task"])
  /\ ret' = [ret EXCEPT ![r] = task']
  /\ UNCHANGED <<engine, started, ended, runs, childVars>>

(* Task.Cancel *)
Cancel ==
  /\ task = None
  /\ SettleTask("user")
  /\ UNCHANGED <<engine, started, pc, ret, ended, runs, childVars>>

-----------------------------------------------------------------------------
(* Children. *)

(* Co.Async or Co.Call: both futures are created and the engine's goroutine *)
(* is started.  bridgeFuture carries the result on a goroutine, or, when    *)
(* the context of the engine's future has ended, in the body itself; the   *)
(* engine's goroutine may then still be the one that settles that future.  *)
Spawn(r, c) ==
  /\ pc[r] = "body" /\ BodyFree
  /\ fn[c] = None
  /\ fn' = [fn EXCEPT ![c] = "running"]
  /\ anyCause' = [anyCause EXCEPT ![c] = cause[EngineCtx]]
  /\ futCause' = [futCause EXCEPT ![c] = cause["task"]]
  /\ bridge' = [bridge EXCEPT ![c] = IF cause[EngineCtx] = Live THEN "waiting" ELSE "inline"]
  /\ UNCHANGED <<engine, taskVars, any, fut>>

(* The child's function or call handler returns, fails, panics, or leaves  *)
(* by Goexit or a panic with a nil of some type and settles nothing.       *)
FnEnds(c) ==
  /\ fn[c] = "running"
  /\ fn' = [fn EXCEPT ![c] = "done"]
  /\ \/ \E r \in {OK, "fn error", "fn panic"} :
          any' = Settle(any, c, r) /\ anyCause' = EndBy(anyCause, any, c, r)
     \/ UNCHANGED <<any, anyCause>>
  /\ UNCHANGED <<engine, taskVars, futCause, fut, bridge>>

(* settleTypeCast: Await the engine's future ... *)
BridgeWakes(c) ==
  /\ bridge[c] \in {"inline", "waiting"} /\ anyCause[c] # Live
  /\ any' = Settle(any, c, anyCause[c])
  /\ bridge' = [bridge EXCEPT ![c] = IF @ = "inline" THEN "finishing" ELSE "carrying"]
  /\ UNCHANGED <<engine, taskVars, fn, anyCause, futCause, fut>>

(* ... and settle the body's with its result, or with a mismatch. *)
CarryMistyped(c) ==
  /\ bridge[c] \in {"finishing", "carrying"}
  /\ fut' = Settle(fut, c, OK) /\ futCause' = EndBy(futCause, fut, c, OK)
  /\ bridge' = [bridge EXCEPT ![c] = "done"]
  /\ UNCHANGED <<engine, taskVars, fn, anyCause, any>>

Carry(c) ==
  /\ bridge[c] \in {"finishing", "carrying"}
  /\ \E r \in IF any[c] = OK THEN {OK, "mismatch"} ELSE {any[c]} :
       fut' = Settle(fut, c, r) /\ futCause' = EndBy(futCause, fut, c, r)
  /\ bridge' = [bridge EXCEPT ![c] = "done"]
  /\ UNCHANGED <<engine, taskVars, fn, anyCause, any>>

(* Whoever holds the child's future awaits it. *)
AwaitChild(c) ==
  /\ futCause[c] # Live /\ fut[c] = None
  /\ fut' = Settle(fut, c, futCause[c])
  /\ UNCHANGED <<engine, taskVars, fn, anyCause, any, futCause, bridge>>

-----------------------------------------------------------------------------
RunStep(r) ==
  Check(r) \/ Fold(r) \/ Recover(r) \/ Await(r)

ChildStep(c) ==
  EngineReachesChild(c) \/ TaskReachesChild(c) \/ BridgeWakes(c) \/ Carry(c)

Next ==
  \/ \E r \in Runners :
       \/ CompareAndSwap(r) \/ RunStep(r) \/ BodyEnds(r)
       \/ \E c \in Children : Spawn(r, c)
  \/ \E c \in Children : ChildStep(c) \/ FnEnds(c) \/ AwaitChild(c)
  \/ BaseEnds \/ BaseReachesTask \/ Cancel

(* Goroutines are scheduled and contexts reach their children.  The body   *)
(* and the functions of its children may run for ever.                     *)
Fairness ==
  /\ \A r \in Runners : WF_vars(RunStep(r))
  /\ \A c \in Children : WF_vars(EngineReachesChild(c)) /\ WF_vars(TaskReachesChild(c))
                           /\ WF_vars(BridgeWakes(c) \/ Carry(c))
  /\ WF_vars(BaseReachesTask)

Spec == Init /\ [][Next]_vars
FairSpec == Spec /\ Fairness

-----------------------------------------------------------------------------
(* Properties. *)

(* However many goroutines call Run, the body is entered at most once, and *)
(* not at all by a Run that found the task cancelled; whoever does not run *)
(* it waits for the one result, and every Run that returns, except the one *)
(* whose body panicked, returns that result.                               *)
RunsOnceForAll ==
  /\ runs <= 1
  /\ \A q, r \in Runners : pc[q] \in {"body", "fold", "recover", "gone"}
                             /\ pc[r] \in {"check", "body", "fold", "recover", "gone"} => q = r
  /\ \A r \in Runners : ret[r] # None =>
       ret[r] = task \/ (ret[r] = Zero /\ ended \in {"panic", "nil panic"})

(* The task's result is the body's outcome, unless the task was cancelled  *)
(* by its user or with the base context.  Once its Run has returned, a     *)
(* panic with a value is the result, or the task was cancelled before; one *)
(* with a nil of some type is lost, and settles nothing.                   *)
OutcomeIsBodys ==
  /\ task \in {OK, "body error", "panic"} => ended = task
  /\ task = "base" => cause["base"] # Live
  /\ \A r \in Runners : pc[r] = "done" /\ ended = "panic" => task \in {"panic", "user", "base"}
  /\ ended = "nil panic" => task \in {None, "user", "base"}

(* A child's result comes from its function, unless its task or its engine *)
(* ended: OK only when the function returned a value of the right type.    *)
ChildResultIsFns ==
  \A c \in Children :
    /\ fut[c] # None => futCause[c] # Live
    /\ fut[c] = OK => any[c] = OK
    /\ fut[c] \in {"fn error", "fn panic"} => any[c] = fut[c]
    /\ fut[c] \in {"canceled", "body error", "panic", "user"} => TaskDone

(* Once the task is over its children's futures end, whatever their        *)
(* functions do, and with the task's own engine so do the engine's futures *)
(* and the bridging goroutines.                                            *)
ChildrenEnd ==
  \A c \in Children :
    /\ (fn[c] # None /\ TaskDone) ~> (futCause[c] # Live)
    /\ (fn[c] # None /\ TaskDone /\ engine = "own")
         ~> (bridge[c] = "done" /\ anyCause[c] # Live)


(* "the task runs once and all callers receive the settled result".        *)
AllCallersReceiveResult == \A r \in Runners : ret[r] # None => ret[r] = task
=============================================================================
