------------------------------- MODULE Future -------------------------------
(***************************************************************************)
(* One Promise/Future pair of async/future.go, at the grain of the         *)
(* instructions other goroutines can observe: the sync.Once that guards the *)
(* result, the write of the result, the cancellation of the future's own    *)
(* context and the release of the once are separate steps, interleaved with *)
(* producers, awaiters and contexts that expire.                            *)
(*                                                                         *)
(* The future's context is a child of the context given to NewPromise: when *)
(* the parent is cancelled the child is cancelled too, but in a later step, *)
(* and nothing is written to the result until somebody awaits or settles.   *)
(***************************************************************************)
EXTENDS Naturals, FiniteSets

CONSTANTS
  Producers,      \* goroutines holding the Promise (or calling Future.Cancel)
  Awaiters,       \* goroutines holding the Future
  Values,         \* values a promise can be resolved with
  Errors,         \* errors, as rejections and as cancellation causes
  Canceled,       \* context.Canceled
  NilRejected,    \* the error Reject(nil) makes up
  NilError,       \* a nil error argument
  Live,           \* cause of a context that is not done
  NoResult        \* the zero Result before once.Do has run

ASSUME FutureAssumption ==
  /\ Producers \cap Awaiters = {}
  /\ {Canceled, NilRejected} \subseteq Errors
  /\ NilError \notin Errors
  /\ Live \notin Errors
  /\ "parent" \notin Awaiters /\ "future" \notin Awaiters

OK(v) == [ok |-> TRUE, val |-> v]
Err(e) == [ok |-> FALSE, err |-> e]

OKs == {OK(v) : v \in Values}
Errs == {Err(e) : e \in Errors}
Results == OKs \cup Errs

ASSUME NoResultAssumption == NoResult \notin Results

Contexts == {"parent", "future"} \cup Awaiters

VARIABLES
  once,           \* Future.once: "new", "running" or "done"
  result,         \* Future.result
  cause,          \* of each context, Live while it is not done
  pc,             \* where each goroutine is in its call
  arg,            \* the result a producer passes to settle
  won,            \* what settle returned: "none", "yes" or "no"
  seen            \* what Await or AwaitCtx returned

vars == <<once, result, cause, pc, arg, won, seen>>

Goroutines == Producers \cup Awaiters

ProducerSteps == {"idle", "enter", "write", "cancel", "leave", "done"}
AwaiterSteps ==
  {"idle", "wait", "select", "enter", "write", "leave", "read", "done", "expired"}

TypeOK ==
  /\ once \in {"new", "running", "done"}
  /\ result \in Results \cup {NoResult}
  /\ cause \in [Contexts -> Errors \cup {Live}]
  /\ pc \in [Goroutines -> ProducerSteps \cup AwaiterSteps]
  /\ \A p \in Producers : pc[p] \in ProducerSteps
  /\ \A a \in Awaiters : pc[a] \in AwaiterSteps
  /\ arg \in [Producers -> Results \cup {NoResult}]
  /\ won \in [Producers -> {"none", "yes", "no"}]
  /\ seen \in [Awaiters -> Results \cup {NoResult}]

Init ==
  /\ once = "new"
  /\ result = NoResult
  /\ cause = [c \in Contexts |-> Live]
  /\ pc = [g \in Goroutines |-> "idle"]
  /\ arg = [p \in Producers |-> NoResult]
  /\ won = [p \in Producers |-> "none"]
  /\ seen = [a \in Awaiters |-> NoResult]

Go(g, from, to) ==
  /\ pc[g] = from
  /\ pc' = [pc EXCEPT ![g] = to]

(* adt.Opt(e).OrElse(d) on an error argument. *)
KeepNil(e, d) == e
OrElse(e, d) == IF e = NilError THEN d ELSE e

(* The cause settle passes to the CancelCauseFunc: nil, which the context  *)
(* records as context.Canceled, for a value; the error itself otherwise.   *)
CauseOf(r) == IF r.ok THEN Canceled ELSE r.err

Done(c) == cause[c] # Live

-----------------------------------------------------------------------------
(* Producers. *)

Settle(p, r) ==
  /\ Go(p, "idle", "enter")
  /\ arg' = [arg EXCEPT ![p] = r]
  /\ UNCHANGED <<once, result, cause, won, seen>>

Resolve(p) == \E v \in Values : Settle(p, OK(v))
Reject(p) == \E e \in Errors \cup {NilError} : Settle(p, Err(OrElse(e, NilRejected)))
Cancel(p) == \E e \in Errors \cup {NilError} : Settle(p, Err(OrElse(e, Canceled)))

(* once.Do: the first caller runs the function; the others wait until it   *)
(* has returned and skip it.                                               *)
EnterUnguarded(g) ==
  /\ Go(g, "enter", "write")
  /\ once' = "running"
  /\ UNCHANGED <<result, cause, arg, won, seen>>

Enter(g) ==
  /\ once = "new"
  /\ Go(g, "enter", "write")
  /\ once' = "running"
  /\ UNCHANGED <<result, cause, arg, won, seen>>

SkipSettle(p) ==
  /\ once = "done"
  /\ Go(p, "enter", "done")
  /\ won' = [won EXCEPT ![p] = "no"]
  /\ UNCHANGED <<once, result, cause, arg, seen>>

CancelBeforeWrite(p) ==
  /\ Go(p, "write", "cancel")
  /\ cause' = [cause EXCEPT !["future"] = IF Done("future") THEN @ ELSE CauseOf(arg[p])]
  /\ UNCHANGED <<once, result, arg, won, seen>>

WriteResult(p) ==
  /\ Go(p, "write", "cancel")
  /\ result' = arg[p]
  /\ UNCHANGED <<once, cause, arg, won, seen>>

(* A CancelCauseFunc on a context that is already done does nothing: the   *)
(* first cause stays.                                                      *)
CancelOnErrorOnly(p) ==
  /\ Go(p, "cancel", "leave")
  /\ cause' = IF arg[p].ok \/ Done("future") THEN cause
              ELSE [cause EXCEPT !["future"] = arg[p].err]
  /\ UNCHANGED <<once, result, arg, won, seen>>

CancelFutureCtx(p) ==
  /\ Go(p, "cancel", "leave")
  /\ cause' = [cause EXCEPT !["future"] = IF Done("future") THEN @ ELSE CauseOf(arg[p])]
  /\ UNCHANGED <<once, result, arg, won, seen>>

LeaveSettle(p) ==
  /\ Go(p, "leave", "done")
  /\ once' = "done"
  /\ won' = [won EXCEPT ![p] = "yes"]
  /\ UNCHANGED <<result, cause, arg, seen>>

-----------------------------------------------------------------------------
(* Awaiters. *)

Await(a) ==
  /\ Go(a, "idle", "wait")
  /\ UNCHANGED <<once, result, cause, arg, won, seen>>

AwaitCtx(a) ==
  /\ Go(a, "idle", "select")
  /\ UNCHANGED <<once, result, cause, arg, won, seen>>

(* <-f.ctx.Done() in Await, or that case of the select in AwaitCtx. *)
WakeEarly(a) ==
  /\ Go(a, "wait", "read") \/ Go(a, "select", "read")
  /\ Done("future")
  /\ UNCHANGED <<once, result, cause, arg, won, seen>>

Wake(a) ==
  /\ Done("future")
  /\ Go(a, "wait", "enter") \/ Go(a, "select", "enter")
  /\ UNCHANGED <<once, result, cause, arg, won, seen>>

(* The other case of the select; when both are ready either may be taken.  *)
GiveUp(a) ==
  /\ Done(a)
  /\ Go(a, "select", "expired")
  /\ seen' = [seen EXCEPT ![a] = Err(cause[a])]
  /\ UNCHANGED <<once, result, cause, arg, won>>

SkipAwait(a) ==
  /\ once = "done"
  /\ Go(a, "enter", "read")
  /\ UNCHANGED <<once, result, cause, arg, won, seen>>

(* Nobody settled the future: the awaiter records why its context ended.   *)
WriteCtxErr(a) ==
  /\ Go(a, "write", "leave")
  /\ result' = Err(Canceled)
  /\ UNCHANGED <<once, cause, arg, won, seen>>

WriteCause(a) ==
  /\ Go(a, "write", "leave")
  /\ result' = Err(cause["future"])
  /\ UNCHANGED <<once, cause, arg, won, seen>>

LeaveAwait(a) ==
  /\ Go(a, "leave", "read")
  /\ once' = "done"
  /\ UNCHANGED <<result, cause, arg, won, seen>>

ReadResult(a) ==
  /\ Go(a, "read", "done")
  /\ seen' = [seen EXCEPT ![a] = result]
  /\ UNCHANGED <<once, result, cause, arg, won>>

-----------------------------------------------------------------------------
(* Contexts: the caller's contexts end when they like, for any cause; the  *)
(* end of the parent reaches the future's context in a step of its own.    *)

Expire(c) ==
  /\ c # "future"
  /\ ~ Done(c)
  /\ \E e \in Errors : cause' = [cause EXCEPT ![c] = e]
  /\ UNCHANGED <<once, result, pc, arg, won, seen>>

Propagate ==
  /\ Done("parent") /\ ~ Done("future")
  /\ cause' = [cause EXCEPT !["future"] = cause["parent"]]
  /\ UNCHANGED <<once, result, pc, arg, won, seen>>

-----------------------------------------------------------------------------
ProducerCall(p) == Resolve(p) \/ Reject(p) \/ Cancel(p)
ProducerStep(p) ==
  Enter(p) \/ SkipSettle(p) \/ WriteResult(p) \/ CancelFutureCtx(p) \/ LeaveSettle(p)

AwaiterCall(a) == Await(a) \/ AwaitCtx(a)
AwaiterStep(a) ==
  \/ Wake(a) \/ GiveUp(a) \/ Enter(a) \/ SkipAwait(a)
  \/ WriteCause(a) \/ LeaveAwait(a) \/ ReadResult(a)

Next ==
  \/ \E p \in Producers : ProducerCall(p) \/ ProducerStep(p)
  \/ \E a \in Awaiters : AwaiterCall(a) \/ AwaiterStep(a)
  \/ \E c \in Contexts : Expire(c)
  \/ Propagate

(* A goroutine in the middle of a call is eventually scheduled, and a      *)
(* cancelled parent reaches its child.  Nobody has to call anything and no *)
(* caller's context has to expire.                                         *)
Fairness ==
  /\ \A p \in Producers : WF_vars(ProducerStep(p))
  /\ \A a \in Awaiters : WF_vars(AwaiterStep(a))
  /\ WF_vars(Propagate)

Spec == Init /\ [][Next]_vars
FairSpec == Spec /\ Fairness

-----------------------------------------------------------------------------
(* Properties. *)

(* Every goroutine that finished Await, by whichever of its branches, holds *)
(* the result that is in the future, and that result is set: nobody reads   *)
(* it while it is being written (Await and settle under one sync.Once).     *)
Agreement == \A a \in Awaiters : pc[a] = "done" => seen[a] = result /\ result # NoResult

(* The producers whose write is the result: told so, or about to be.        *)
Writer == {p \in Producers : pc[p] \in {"cancel", "leave"} \/ won[p] = "yes"}

(* A result is what one producer passed to settle, or, when every settle    *)
(* was or will be refused, the cause for which the parent was cancelled;    *)
(* Resolve, Reject and Cancel return true for that one producer only.       *)
ResultOrigin ==
  /\ \A p, q \in Producers : won[p] = "yes" /\ won[q] = "yes" => p = q
  /\ result # NoResult =>
       \/ \E p \in Producers : Writer = {p} /\ result = arg[p]
       \/ Writer = {} /\ Done("parent") /\ result = Err(cause["parent"])

(* Whoever is woken by the future's context, as watchCancel is, finds the   *)
(* result already recorded and matching the context's cause, unless it was  *)
(* the parent that ended: settle writes the result before it cancels.       *)
CauseHonest ==
  Done("future") =>
    \/ result # NoResult /\ cause["future"] = CauseOf(result)
    \/ cause["future"] = cause["parent"]

(* Await and AwaitCtx return once the parent is cancelled or some producer  *)
(* has called Resolve, Reject or Cancel, and AwaitCtx also once its own     *)
(* context is done.                                                         *)
AwaitReturns ==
  \A a \in Awaiters :
    /\ pc[a] \in {"wait", "select"} /\ (Done("parent") \/ \E p \in Producers : pc[p] # "idle")
         ~> pc[a] \in {"done", "expired"}
    /\ pc[a] = "select" /\ Done(a) ~> pc[a] \in {"done", "expired"}

Abs == INSTANCE SingleAssignment WITH
         Failures <- Errs, cell <- result, writer <- Writer,
         offer <- arg, verdict <- won

(* The future is a single-assignment cell: however its steps interleave,    *)
(* they are steps of the abstract cell or invisible to it.                  *)
ImplementsSingleAssignment == Abs!Spec
=============================================================================
