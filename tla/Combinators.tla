----------------------------- MODULE Combinators -----------------------------
(***************************************************************************)
(* The combinators of async/future.go, AllOf, AllSettled, Race, AnyOf and  *)
(* Zip2/Zip3, with the TaskGroup they run on: one goroutine per source, the *)
(* goroutine that waits for the group, the goroutine of watchCancel, and    *)
(* three nested contexts, the caller's, the group's and the combined        *)
(* future's.  Every future is the single-assignment cell that Future.tla is *)
(* shown to implement, so settling one is a single step here.               *)
(***************************************************************************)
EXTENDS Naturals, Sequences

CONSTANTS
  Kinds,          \* the combinators to consider
  N,              \* the most sources a combinator is given
  Bound           \* the sources whose context is a child of the caller's

ASSUME CombinatorsAssumption ==
  /\ Kinds \subseteq {"AllOf", "AllSettled", "Race", "AnyOf", "Zip"}
  /\ N \in Nat
  /\ Bound \subseteq 1..N

(* Errors, by origin. *)
Failed(i) == <<"failed", i>>            \* what source i rejects with
CallerErr == <<"caller", 0>>            \* cause the caller's context ends with
UserErr == <<"user", 0>>                \* cause the combined future is cancelled with
Canceled == <<"canceled", 0>>           \* context.Canceled
EmptySources == <<"empty", 0>>          \* ErrEmptySources
AllFailed == <<"all failed", 0>>        \* errors.Join(ErrAllFailed, ...)
Live == <<"live", 0>>                   \* cause of a context that is not done

Errors == {Failed(i) : i \in 1..N}
            \cup {CallerErr, UserErr, Canceled, EmptySources, AllFailed}

OK(i) == [ok |-> TRUE, val |-> i]       \* source i's value
Err(e) == [ok |-> FALSE, err |-> e]
OKOf(f) == [ok |-> TRUE, val |-> f]     \* the combined value: results by source
NoResult == [ok |-> FALSE]

SourceResults == {OK(i) : i \in 1..N} \cup {Err(e) : e \in Errors}

(* The cause a group is cancelled with: Fold in TaskGroup.Run, and settle. *)
CauseOf(r) == IF r.ok THEN Canceled ELSE r.err

VARIABLES
  kind,           \* the combinator called
  n,              \* how many sources it was given
  src,            \* the result of each source, or NoResult
  ended,          \* the sources whose own context ended with the caller's
  cause,          \* of the contexts "caller", "group" and "combined"
  fut,            \* the result of the combined future, or NoResult
  decided,        \* the combinator's sync.Once has run
  pc,             \* the goroutine of each source
  res,            \* what its AwaitCtx returned
  out,            \* the slices out and errs, by source
  sweep,          \* how far cancelAll got, in each goroutine; 0 is watchCancel
  main,           \* the goroutine that waits for the group
  watch           \* the goroutine of watchCancel

vars == <<kind, n, src, ended, cause, fut, decided, pc, res, out, sweep, main, watch>>

Sources == 1..n

TypeOK ==
  /\ kind \in Kinds /\ n \in 0..N
  /\ src \in [Sources -> SourceResults \cup {NoResult}]
  /\ ended \subseteq Sources \cap Bound
  /\ cause \in [{"caller", "group", "combined"} -> Errors \cup {Live}]
  /\ \/ fut \in {NoResult} \cup {Err(e) : e \in Errors}
     \/ fut.ok /\ fut.val \in UNION {[S -> SourceResults] : S \in SUBSET Sources}
  /\ decided \in BOOLEAN
  /\ pc \in [Sources -> {"await", "policy", "decide", "stop", "sweep", "done"}]
  /\ res \in [Sources -> SourceResults \cup {NoResult}]
  /\ out \in [Sources -> SourceResults \cup {NoResult}]
  /\ sweep \in [0..n -> 1..(n + 1)]
  /\ main \in {"wait", "done"} /\ watch \in {"wait", "sweep", "done"}

(* Without sources nothing is started: resolvedFuture or rejectedFuture.   *)
EmptyResult ==
  IF kind \in {"AllOf", "AllSettled"} THEN OKOf(<<>>) ELSE Err(EmptySources)

Init ==
  /\ kind \in Kinds
  /\ n \in 0..N
  /\ kind = "Zip" => n > 1
  /\ src = [i \in Sources |-> NoResult]
  /\ ended = {}
  /\ fut = IF n = 0 THEN EmptyResult ELSE NoResult
  /\ cause = [c \in {"caller", "group", "combined"} |->
               IF n = 0 /\ c = "combined" THEN CauseOf(fut) ELSE Live]
  /\ decided = FALSE
  /\ pc = [i \in Sources |-> "await"]
  /\ res = [i \in Sources |-> NoResult]
  /\ out = [i \in Sources |-> NoResult]
  /\ sweep = [g \in 0..n |-> 1]
  /\ main = IF n = 0 THEN "done" ELSE "wait"
  /\ watch = main

Done(c) == cause[c] # Live
Settled(i) == src[i] # NoResult

-----------------------------------------------------------------------------
(* Futures. *)

(* settle on source i. *)
SettleSource(i, r) == src' = IF Settled(i) THEN src ELSE [src EXCEPT ![i] = r]

(* settle on the combined future; its context may already be done. *)
SettleCombined(r) ==
  IF fut # NoResult THEN UNCHANGED <<fut, cause>>
  ELSE /\ fut' = r
       /\ cause' = IF Done("combined") THEN cause
                   ELSE [cause EXCEPT !["combined"] = CauseOf(r)]

(* A source's producer resolves or rejects it, at any time or never.       *)
Produce(i) ==
  /\ ~ Settled(i)
  /\ \E r \in {OK(i), Err(Failed(i))} : SettleSource(i, r)
  /\ UNCHANGED <<kind, n, ended, cause, fut, decided, pc, res, out, sweep, main, watch>>

-----------------------------------------------------------------------------
(* Contexts. *)

CallerCancels ==
  /\ ~ Done("caller")
  /\ cause' = [cause EXCEPT !["caller"] = CallerErr]
  /\ UNCHANGED <<kind, n, src, ended, fut, decided, pc, res, out, sweep, main, watch>>

Parent(c) == IF c = "group" THEN "caller" ELSE "group"

Propagate(c) ==
  /\ n > 0 \* the group exists
  /\ Done(Parent(c)) /\ ~ Done(c)
  /\ cause' = [cause EXCEPT ![c] = cause[Parent(c)]]
  /\ UNCHANGED <<kind, n, src, ended, fut, decided, pc, res, out, sweep, main, watch>>

PropagateToSource(i) ==
  /\ i \in Bound \ ended /\ Done("caller") /\ ~ Settled(i)
  /\ ended' = ended \cup {i}
  /\ UNCHANGED <<kind, n, src, cause, fut, decided, pc, res, out, sweep, main, watch>>

-----------------------------------------------------------------------------
(* The goroutine of source i, started by TaskGroup.Run or zipBranch. *)

(* AwaitCtx(tg.ctx): the source's Await, which records the end of the      *)
(* source's context when nobody settled it, or the group's end.  When both *)
(* are ready the select takes either.                                      *)
TakeSource(i) ==
  /\ pc[i] = "await"
  /\ Settled(i) \/ i \in ended
  /\ SettleSource(i, Err(CallerErr))
  /\ res' = [res EXCEPT ![i] = src'[i]]
  /\ pc' = [pc EXCEPT ![i] = "policy"]
  /\ UNCHANGED <<kind, n, ended, cause, fut, decided, out, sweep, main, watch>>

TakeGroup(i) ==
  /\ pc[i] = "await"
  /\ Done("group")
  /\ res' = [res EXCEPT ![i] = Err(cause["group"])]
  /\ pc' = [pc EXCEPT ![i] = "policy"]
  /\ UNCHANGED <<kind, n, src, ended, cause, fut, decided, out, sweep, main, watch>>

(* The results a policy only stores; on any other it decides the combined  *)
(* future and stops the group.                                             *)
StoresFailures(r) ==
  \/ kind \in {"AllOf", "Zip", "AllSettled"}
  \/ kind = "AnyOf" /\ ~ r.ok

Stores(r) ==
  \/ kind \in {"AllOf", "Zip"} /\ r.ok
  \/ kind = "AllSettled"
  \/ kind = "AnyOf" /\ ~ r.ok

(* cancelAll before tg.cancel in Zip's fail, after it in TaskGroup.Run.    *)
StopsFirst == <<"stop", "sweep", "decide", "done">>
StopSteps ==
  IF kind = "Zip" THEN <<"decide", "sweep", "stop", "done">>
                  ELSE <<"decide", "stop", "sweep", "done">>

StepAfter(s) ==
  LET k == CHOOSE j \in 1..3 : StopSteps[j] = s IN StopSteps[k + 1]

Policy(i) ==
  /\ pc[i] = "policy"
  /\ IF Stores(res[i])
     THEN /\ out' = [out EXCEPT ![i] = res[i]]
          /\ pc' = [pc EXCEPT ![i] = "done"]
     ELSE /\ pc' = [pc EXCEPT ![i] = StopSteps[1]]
          /\ UNCHANGED out
  /\ UNCHANGED <<kind, n, src, ended, cause, fut, decided, res, sweep, main, watch>>

(* once.Do(prom.Resolve or prom.Reject) with this source's result. *)
Decide(i) ==
  /\ pc[i] = "decide"
  /\ IF decided THEN UNCHANGED <<fut, cause>>
     ELSE SettleCombined(IF res[i].ok THEN OKOf([j \in {i} |-> res[i]]) ELSE res[i])
  /\ decided' = TRUE
  /\ pc' = [pc EXCEPT ![i] = StepAfter("decide")]
  /\ UNCHANGED <<kind, n, src, ended, res, out, sweep, main, watch>>

(* tg.cancel *)
StopGroup(i) ==
  /\ pc[i] = "stop"
  /\ cause' = IF Done("group") THEN cause
              ELSE [cause EXCEPT !["group"] = CauseOf(res[i])]
  /\ pc' = [pc EXCEPT ![i] = StepAfter("stop")]
  /\ UNCHANGED <<kind, n, src, ended, fut, decided, res, out, sweep, main, watch>>

(* One Future.Cancel of cancelAll, in order. *)
CancelOne(i) ==
  /\ pc[i] = "sweep"
  /\ SettleSource(sweep[i], Err(CauseOf(res[i])))
  /\ sweep' = [sweep EXCEPT ![i] = @ + 1]
  /\ pc' = IF sweep[i] = n THEN [pc EXCEPT ![i] = StepAfter("sweep")] ELSE pc
  /\ UNCHANGED <<kind, n, ended, cause, fut, decided, res, out, main, watch>>

Worker(i) ==
  TakeSource(i) \/ TakeGroup(i) \/ Policy(i) \/ Decide(i) \/ StopGroup(i) \/ CancelOne(i)

-----------------------------------------------------------------------------
(* The goroutine that runs the group. *)

MainResult == IF kind = "AnyOf" THEN Err(AllFailed) ELSE OKOf(out)

(* wg.Wait() returned. *)
GroupDone == \A i \in Sources : pc[i] = "done"

(* AllSettled resolves without a once, Race leaves everything to its policy. *)
MainSilentForAnyOf ==
  /\ main = "wait" /\ GroupDone
  /\ IF kind \in {"Race", "AnyOf"} \/ decided THEN UNCHANGED <<fut, cause>>
     ELSE SettleCombined(MainResult)
  /\ main' = "done"
  /\ UNCHANGED <<kind, n, src, ended, decided, pc, res, out, sweep, watch>>

Main ==
  /\ main = "wait" /\ GroupDone
  /\ IF kind = "Race" \/ decided THEN UNCHANGED <<fut, cause>>
     ELSE SettleCombined(MainResult)
  /\ decided' = (decided \/ kind \notin {"Race", "AllSettled"})
  /\ main' = "done"
  /\ UNCHANGED <<kind, n, src, ended, pc, res, out, sweep, watch>>

(* watchCancel: when the combined context ends, cancel every source.       *)
WatchWakes ==
  /\ watch = "wait" /\ Done("combined")
  /\ watch' = "sweep"
  /\ UNCHANGED <<kind, n, src, ended, cause, fut, decided, pc, res, out, sweep, main>>

WatchForgets ==
  /\ watch = "sweep"
  /\ watch' = "done"
  /\ UNCHANGED <<kind, n, src, ended, cause, fut, decided, pc, res, out, sweep, main>>

WatchCancelsOne ==
  /\ watch = "sweep"
  /\ SettleSource(sweep[0], Err(cause["combined"]))
  /\ sweep' = [sweep EXCEPT ![0] = @ + 1]
  /\ watch' = IF sweep[0] = n THEN "done" ELSE watch
  /\ UNCHANGED <<kind, n, ended, cause, fut, decided, pc, res, out, main>>

-----------------------------------------------------------------------------
(* The consumer of the combined future. *)

Cancel ==
  /\ fut = NoResult
  /\ SettleCombined(Err(UserErr))
  /\ UNCHANGED <<kind, n, src, ended, decided, pc, res, out, sweep, main, watch>>

Await ==
  /\ Done("combined") /\ fut = NoResult
  /\ SettleCombined(Err(cause["combined"]))
  /\ UNCHANGED <<kind, n, src, ended, decided, pc, res, out, sweep, main, watch>>

-----------------------------------------------------------------------------
Next ==
  \/ \E i \in Sources : Worker(i) \/ Produce(i) \/ PropagateToSource(i)
  \/ \E c \in {"group", "combined"} : Propagate(c)
  \/ Main \/ WatchWakes \/ WatchCancelsOne
  \/ CallerCancels \/ Cancel \/ Await

(* Every goroutine the combinator starts is scheduled and contexts reach   *)
(* their children; producers and consumers owe nothing.                    *)
Fairness ==
  /\ \A i \in 1..N : WF_vars(i \in Sources /\ (Worker(i) \/ PropagateToSource(i)))
  /\ \A c \in {"group", "combined"} : WF_vars(Propagate(c))
  /\ WF_vars(Main) /\ WF_vars(WatchWakes \/ WatchCancelsOne)

Spec == Init /\ [][Next]_vars
FairSpec == Spec /\ Fairness

-----------------------------------------------------------------------------
(* Properties. *)

(* What a combined future resolves with comes from its sources: AllOf and  *)
(* Zip need every source resolved, Race and AnyOf hand on a value a source *)
(* really has, AllSettled lists the results of all its sources, and AnyOf  *)
(* gives up with ErrAllFailed when all of them failed.  After the caller's *)
(* context has ended, and only then, AllSettled may list that end for a    *)
(* source it did not wait for, and AnyOf may give up without having asked  *)
(* all of them, against what it says of itself (AllFailedOnlyIfAllFail).   *)
ValuesFromSources ==
  /\ fut.ok =>
       /\ kind \in {"AllOf", "Zip", "AllSettled"} => DOMAIN fut.val = Sources
       /\ \A i \in DOMAIN fut.val :
            \/ Settled(i) /\ fut.val[i] = src[i] /\ (src[i].ok \/ kind = "AllSettled")
            \/ kind = "AllSettled" /\ Done("caller") /\ fut.val[i] = Err(CallerErr)
  /\ fut = Err(AllFailed) =>
       Done("caller") \/ \A i \in Sources : Settled(i) /\ ~ src[i].ok

(* AnyOf "is rejected with ErrAllFailed only if all sources fail". *)
AllFailedOnlyIfAllFail ==
  fut = Err(AllFailed) => \A i \in Sources : Settled(i) /\ ~ src[i].ok

(* The cancellation that the group itself starts stays inside.  A combined *)
(* future is rejected only for a failure of a source, for a cancellation   *)
(* by its consumer or by the caller, or, by AnyOf, for all failures        *)
(* together; and a source is cancelled only after the combined future is   *)
(* settled or cancelled: none pays for a decision that was not yet taken.  *)
RejectedForCause ==
  /\ fut # NoResult /\ ~ fut.ok =>
       \/ n = 0
       \/ fut = Err(AllFailed) /\ kind = "AnyOf"
       \/ fut = Err(UserErr)
       \/ fut = Err(CallerErr) /\ Done("caller")
       \/ \E i \in Sources : fut = Err(Failed(i)) /\ src[i] = fut /\ kind # "AnyOf"
  /\ \A i \in Sources :
       Settled(i) /\ src[i] \notin {OK(i), Err(Failed(i))} => Done("combined") \/ i \in ended

AllQuiet ==
  /\ \A i \in Sources : Settled(i) /\ pc[i] = "done"
  /\ main = "done" /\ watch = "done"

(* When the combined future is settled, cancelled or its caller gone, every *)
(* source is settled and every goroutine the combinator started returns,    *)
(* even if no producer ever answers.                                        *)
NothingLeaks == Done("combined") \/ (n > 0 /\ Done("caller")) ~> AllQuiet

(* Enough sources settled settle the combined future: one failure for      *)
(* AllOf and Zip, one result for Race, one value for AnyOf, all of them for *)
(* any combinator, whatever the other producers do.                         *)
Enough ==
  /\ n > 0
  /\ \/ \A i \in Sources : Settled(i)
     \/ \E i \in Sources :
          /\ Settled(i)
          /\ \/ kind \in {"AllOf", "Zip"} /\ ~ src[i].ok
             \/ kind = "Race"
             \/ kind = "AnyOf" /\ src[i].ok

SettlesWhenEnough == Enough ~> Done("combined")
=============================================================================
