---------------------------- MODULE FutureProofs ----------------------------
(***************************************************************************)
(* Proofs about Future.tla for any number of producers and awaiters and    *)
(* any values and errors: the inductive invariant IInv, and from it type   *)
(* correctness, Agreement, ResultOrigin, CauseHonest, the fact that the    *)
(* result never changes once set, and the refinement of SingleAssignment.  *)
(***************************************************************************)
EXTENDS Future, TLAPS

(* In the function that once.Do runs. *)
InOnce(g) == pc[g] \in {"write", "cancel", "leave"}

(* The sync.Once is a mutex around at most one execution of its function.  *)
OnceOwned ==
  /\ \A g, h \in Goroutines : InOnce(g) /\ InOnce(h) => g = h
  /\ \A g \in Goroutines : InOnce(g) => once = "running"
  /\ once = "running" => \E g \in Goroutines : InOnce(g)

(* The result is set from the write inside the once on, and not before.    *)
ResultSet ==
  result # NoResult <=>
    once = "done" \/ \E g \in Goroutines : pc[g] \in {"cancel", "leave"}

ProducerFacts ==
  \A p \in Producers :
    /\ pc[p] = "idle" <=> arg[p] = NoResult
    /\ pc[p] \in {"cancel", "leave"} => result = arg[p]
    /\ pc[p] = "done" <=> won[p] # "none"
    /\ won[p] # "none" => once = "done"
    /\ won[p] = "yes" => result = arg[p]

OneWriter == \A p, q \in Producers : p \in Writer /\ q \in Writer => p = q

AwaiterFacts ==
  \A a \in Awaiters :
    /\ pc[a] \in {"enter", "write", "leave", "read"} => Done("future")
    /\ pc[a] \in {"read", "done"} => once = "done"
    /\ pc[a] = "done" => seen[a] = result
    /\ pc[a] \in {"done", "expired"} <=> seen[a] # NoResult

(* What is written without a producer is the parent's cause. *)
Origin ==
  /\ result # NoResult /\ Writer = {} => Done("parent") /\ result = Err(cause["parent"])
  /\ \A a \in Awaiters : pc[a] \in {"write", "leave"} => Writer = {}

IInv ==
  /\ TypeOK
  /\ OnceOwned
  /\ ResultSet
  /\ ProducerFacts
  /\ OneWriter
  /\ AwaiterFacts
  /\ Origin
  /\ CauseHonest

-----------------------------------------------------------------------------
(* Results, causes and defaults stay in their sets.                        *)
LEMMA ResultType ==
  /\ \A v \in Values : OK(v) \in Results
  /\ \A e \in Errors : Err(e) \in Results
BY DEF Results, OKs, Errs

(* settle always has an error to cancel with (future.go:66-70). *)
LEMMA CauseType == \A r \in Results : CauseOf(r) \in Errors /\ CauseOf(r) # Live
<1> TAKE r \in Results
<1>1. CASE r \in OKs
  BY <1>1, FutureAssumption DEF OKs, OK, CauseOf
<1>2. CASE r \in Errs
  BY <1>2, FutureAssumption DEF Errs, Err, CauseOf
<1> QED BY <1>1, <1>2 DEF Results

(* adt.Opt(err).OrElse(default) is never nil. *)
LEMMA OrElseType ==
  \A e \in Errors \cup {NilError} : \A d \in Errors : OrElse(e, d) \in Errors
BY FutureAssumption DEF OrElse

(* Every call of a producer passes one of the results to settle. *)
LEMMA CallIsSettle ==
  ASSUME NEW p \in Producers, ProducerCall(p)
  PROVE  \E r \in Results : Settle(p, r)
<1>1. CASE Resolve(p)
  BY <1>1, ResultType DEF Resolve
<1>2. CASE Reject(p)
  BY <1>2, ResultType, OrElseType, FutureAssumption DEF Reject
<1>3. CASE Cancel(p)
  BY <1>3, ResultType, OrElseType, FutureAssumption DEF Cancel
<1> QED BY <1>1, <1>2, <1>3 DEF ProducerCall

-----------------------------------------------------------------------------
(* A promise just made by NewPromise (future.go:80-91) satisfies the      *)
(* invariant: nobody is in the once and no result is set.                  *)
LEMMA InitInv == Init => IInv
<1> SUFFICES ASSUME Init PROVE IInv
  OBVIOUS
<1> USE FutureAssumption, NoResultAssumption
<1>1. TypeOK
  BY DEF Init, TypeOK, Contexts, Goroutines, ProducerSteps, AwaiterSteps
<1>2. \A g \in Goroutines : ~ InOnce(g)
  BY DEF Init, InOnce
<1>3. Writer = {}
  BY DEF Init, Writer, Goroutines
<1>4. ~ Done("future")
  BY DEF Init, Done, Contexts
<1>5. OnceOwned /\ ResultSet
  BY <1>2 DEF Init, OnceOwned, ResultSet, InOnce
<1>6. ProducerFacts /\ AwaiterFacts
  BY <1>4 DEF Init, ProducerFacts, AwaiterFacts, Goroutines
<1>7. OneWriter /\ Origin /\ CauseHonest
  BY <1>3, <1>4 DEF Init, OneWriter, Origin, CauseHonest, Goroutines
<1> QED BY <1>1, <1>5, <1>6, <1>7 DEF IInv
-----------------------------------------------------------------------------
(* Each step preserves the invariant. *)

(* A call of Resolve, Reject or Cancel (future.go:59-66, 95-112). *)
LEMMA SettleInv ==
  ASSUME IInv, NEW p \in Producers, NEW r \in Results, Settle(p, r)
  PROVE  IInv'
<1> USE FutureAssumption, NoResultAssumption, ResultType, CauseType DEF IInv, Settle, Go
<1>1. TypeOK'
  BY DEF TypeOK, Goroutines, Contexts, ProducerSteps, AwaiterSteps
<1>2. OnceOwned'
  BY DEF TypeOK, Goroutines, Contexts, ProducerSteps, AwaiterSteps, OnceOwned, InOnce
<1>3. ResultSet'
  BY DEF TypeOK, Goroutines, Contexts, ProducerSteps, AwaiterSteps, ResultSet, OnceOwned, InOnce
<1>4. ProducerFacts'
  BY DEF TypeOK, Goroutines, Contexts, ProducerSteps, AwaiterSteps, ProducerFacts, OnceOwned, InOnce, ResultSet
<1>5. OneWriter'
  BY DEF TypeOK, Goroutines, Contexts, ProducerSteps, AwaiterSteps, OneWriter, Writer, OnceOwned, InOnce, ProducerFacts
<1>6. AwaiterFacts'
  BY DEF TypeOK, Goroutines, Contexts, ProducerSteps, AwaiterSteps, AwaiterFacts, ResultSet, OnceOwned, InOnce, Done
<1>7. Origin'
  BY DEF TypeOK, Goroutines, Contexts, ProducerSteps, AwaiterSteps, Origin, Writer, ResultSet, OnceOwned, InOnce, AwaiterFacts, CauseHonest, Done, ProducerFacts
<1>8. CauseHonest'
  BY DEF TypeOK, Goroutines, Contexts, ProducerSteps, AwaiterSteps, CauseHonest, ProducerFacts, ResultSet, AwaiterFacts, OnceOwned, InOnce, Done
<1> QED BY <1>1, <1>2, <1>3, <1>4, <1>5, <1>6, <1>7, <1>8

(* Winning the once (future.go:28, 66). *)
LEMMA EnterInv ==
  ASSUME IInv, NEW g \in Goroutines, Enter(g)
  PROVE  IInv'
<1> USE FutureAssumption, NoResultAssumption, ResultType, CauseType DEF IInv, Enter, Go
<1>1. TypeOK'
  BY DEF TypeOK, Goroutines, Contexts, ProducerSteps, AwaiterSteps
<1>2. OnceOwned'
  BY DEF TypeOK, Goroutines, Contexts, ProducerSteps, AwaiterSteps, OnceOwned, InOnce
<1>3. ResultSet'
  BY DEF TypeOK, Goroutines, Contexts, ProducerSteps, AwaiterSteps, ResultSet, OnceOwned, InOnce
<1>4. ProducerFacts'
  BY DEF TypeOK, Goroutines, Contexts, ProducerSteps, AwaiterSteps, ProducerFacts, OnceOwned, InOnce, ResultSet
<1>5. OneWriter'
  BY DEF TypeOK, Goroutines, Contexts, ProducerSteps, AwaiterSteps, OneWriter, Writer, OnceOwned, InOnce, ProducerFacts
<1>6. AwaiterFacts'
  BY DEF TypeOK, Goroutines, Contexts, ProducerSteps, AwaiterSteps, AwaiterFacts, ResultSet, OnceOwned, InOnce, Done
<1>7. Origin'
  BY DEF TypeOK, Goroutines, Contexts, ProducerSteps, AwaiterSteps, Origin, Writer, ResultSet, OnceOwned, InOnce, AwaiterFacts, CauseHonest, Done, ProducerFacts
<1>8. CauseHonest'
  BY DEF TypeOK, Goroutines, Contexts, ProducerSteps, AwaiterSteps, CauseHonest, ProducerFacts, ResultSet, AwaiterFacts, OnceOwned, InOnce, Done
<1> QED BY <1>1, <1>2, <1>3, <1>4, <1>5, <1>6, <1>7, <1>8

(* Finding the once done: settle returns false (future.go:71). *)
LEMMA SkipSettleInv ==
  ASSUME IInv, NEW p \in Producers, SkipSettle(p)
  PROVE  IInv'
<1> USE FutureAssumption, NoResultAssumption, ResultType, CauseType DEF IInv, SkipSettle, Go
<1>1. TypeOK'
  BY DEF TypeOK, Goroutines, Contexts, ProducerSteps, AwaiterSteps
<1>2. OnceOwned'
  BY DEF TypeOK, Goroutines, Contexts, ProducerSteps, AwaiterSteps, OnceOwned, InOnce
<1>3. ResultSet'
  BY DEF TypeOK, Goroutines, Contexts, ProducerSteps, AwaiterSteps, ResultSet, OnceOwned, InOnce
<1>4. ProducerFacts'
  BY DEF TypeOK, Goroutines, Contexts, ProducerSteps, AwaiterSteps, ProducerFacts, OnceOwned, InOnce, ResultSet
<1>5. OneWriter'
  BY DEF TypeOK, Goroutines, Contexts, ProducerSteps, AwaiterSteps, OneWriter, Writer, OnceOwned, InOnce, ProducerFacts
<1>6. AwaiterFacts'
  BY DEF TypeOK, Goroutines, Contexts, ProducerSteps, AwaiterSteps, AwaiterFacts, ResultSet, OnceOwned, InOnce, Done
<1>7. Origin'
  BY DEF TypeOK, Goroutines, Contexts, ProducerSteps, AwaiterSteps, Origin, Writer, ResultSet, OnceOwned, InOnce, AwaiterFacts, CauseHonest, Done, ProducerFacts
<1>8. CauseHonest'
  BY DEF TypeOK, Goroutines, Contexts, ProducerSteps, AwaiterSteps, CauseHonest, ProducerFacts, ResultSet, AwaiterFacts, OnceOwned, InOnce, Done
<1> QED BY <1>1, <1>2, <1>3, <1>4, <1>5, <1>6, <1>7, <1>8

(* future.go:67 *)
LEMMA WriteResultInv ==
  ASSUME IInv, NEW p \in Producers, WriteResult(p)
  PROVE  IInv'
<1> USE FutureAssumption, NoResultAssumption, ResultType, CauseType DEF IInv, WriteResult, Go
<1>1. TypeOK'
  BY DEF TypeOK, Goroutines, Contexts, ProducerSteps, AwaiterSteps
<1>2. OnceOwned'
  BY DEF TypeOK, Goroutines, Contexts, ProducerSteps, AwaiterSteps, OnceOwned, InOnce
<1>3. ResultSet'
  BY DEF TypeOK, Goroutines, Contexts, ProducerSteps, AwaiterSteps, ResultSet, OnceOwned, InOnce, ProducerFacts
<1>4. ProducerFacts'
  BY DEF TypeOK, Goroutines, Contexts, ProducerSteps, AwaiterSteps, ProducerFacts, OnceOwned, InOnce, ResultSet
<1>5. OneWriter'
  BY DEF TypeOK, Goroutines, Contexts, ProducerSteps, AwaiterSteps, OneWriter, Writer, OnceOwned, InOnce, ProducerFacts
<1>6. AwaiterFacts'
  BY DEF TypeOK, Goroutines, Contexts, ProducerSteps, AwaiterSteps, AwaiterFacts, ResultSet, OnceOwned, InOnce, Done
<1>7. Origin'
  BY DEF TypeOK, Goroutines, Contexts, ProducerSteps, AwaiterSteps, Origin, Writer, ResultSet, OnceOwned, InOnce, AwaiterFacts, CauseHonest, Done, ProducerFacts
<1>8. CauseHonest'
  BY DEF TypeOK, Goroutines, Contexts, ProducerSteps, AwaiterSteps, CauseHonest, ProducerFacts, ResultSet, AwaiterFacts, OnceOwned, InOnce, Done
<1> QED BY <1>1, <1>2, <1>3, <1>4, <1>5, <1>6, <1>7, <1>8

(* future.go:68 *)
LEMMA CancelFutureCtxInv ==
  ASSUME IInv, NEW p \in Producers, CancelFutureCtx(p)
  PROVE  IInv'
<1> USE FutureAssumption, NoResultAssumption, ResultType, CauseType DEF IInv, CancelFutureCtx, Go
<1>1. TypeOK'
  BY DEF TypeOK, Goroutines, Contexts, ProducerSteps, AwaiterSteps, ProducerFacts, OnceOwned, InOnce
<1>2. OnceOwned'
  BY DEF TypeOK, Goroutines, Contexts, ProducerSteps, AwaiterSteps, OnceOwned, InOnce
<1>3. ResultSet'
  BY DEF TypeOK, Goroutines, Contexts, ProducerSteps, AwaiterSteps, ResultSet, OnceOwned, InOnce
<1>4. ProducerFacts'
  BY DEF TypeOK, Goroutines, Contexts, ProducerSteps, AwaiterSteps, ProducerFacts, OnceOwned, InOnce, ResultSet
<1>5. OneWriter'
  BY DEF TypeOK, Goroutines, Contexts, ProducerSteps, AwaiterSteps, OneWriter, Writer, OnceOwned, InOnce, ProducerFacts
<1>6. AwaiterFacts'
  BY DEF TypeOK, Goroutines, Contexts, ProducerSteps, AwaiterSteps, AwaiterFacts, ResultSet, OnceOwned, InOnce, Done
<1>7. Origin'
  BY DEF TypeOK, Goroutines, Contexts, ProducerSteps, AwaiterSteps, Origin, Writer, ResultSet, OnceOwned, InOnce, AwaiterFacts, CauseHonest, Done, ProducerFacts
<1>8. CauseHonest'
  BY DEF TypeOK, Goroutines, Contexts, ProducerSteps, AwaiterSteps, CauseHonest, ProducerFacts, ResultSet, AwaiterFacts, OnceOwned, InOnce, Done
<1> QED BY <1>1, <1>2, <1>3, <1>4, <1>5, <1>6, <1>7, <1>8

(* future.go:69-71 *)
LEMMA LeaveSettleInv ==
  ASSUME IInv, NEW p \in Producers, LeaveSettle(p)
  PROVE  IInv'
<1> USE FutureAssumption, NoResultAssumption, ResultType, CauseType DEF IInv, LeaveSettle, Go
<1>1. TypeOK'
  BY DEF TypeOK, Goroutines, Contexts, ProducerSteps, AwaiterSteps
<1>2. OnceOwned'
  BY DEF TypeOK, Goroutines, Contexts, ProducerSteps, AwaiterSteps, OnceOwned, InOnce
<1>3. ResultSet'
  BY DEF TypeOK, Goroutines, Contexts, ProducerSteps, AwaiterSteps, ResultSet, OnceOwned, InOnce
<1>4. ProducerFacts'
  BY DEF TypeOK, Goroutines, Contexts, ProducerSteps, AwaiterSteps, ProducerFacts, OnceOwned, InOnce, ResultSet
<1>5. OneWriter'
  BY DEF TypeOK, Goroutines, Contexts, ProducerSteps, AwaiterSteps, OneWriter, Writer, OnceOwned, InOnce, ProducerFacts
<1>6. AwaiterFacts'
  BY DEF TypeOK, Goroutines, Contexts, ProducerSteps, AwaiterSteps, AwaiterFacts, ResultSet, OnceOwned, InOnce, Done
<1>7. Origin'
  BY DEF TypeOK, Goroutines, Contexts, ProducerSteps, AwaiterSteps, Origin, Writer, ResultSet, OnceOwned, InOnce, AwaiterFacts, CauseHonest, Done, ProducerFacts
<1>8. CauseHonest'
  BY DEF TypeOK, Goroutines, Contexts, ProducerSteps, AwaiterSteps, CauseHonest, ProducerFacts, ResultSet, AwaiterFacts, OnceOwned, InOnce, Done
<1> QED BY <1>1, <1>2, <1>3, <1>4, <1>5, <1>6, <1>7, <1>8

(* future.go:26-27 *)
LEMMA AwaitInv ==
  ASSUME IInv, NEW a \in Awaiters, Await(a)
  PROVE  IInv'
<1> USE FutureAssumption, NoResultAssumption, ResultType, CauseType DEF IInv, Await, Go
<1>1. TypeOK'
  BY DEF TypeOK, Goroutines, Contexts, ProducerSteps, AwaiterSteps
<1>2. OnceOwned'
  BY DEF TypeOK, Goroutines, Contexts, ProducerSteps, AwaiterSteps, OnceOwned, InOnce
<1>3. ResultSet'
  BY DEF TypeOK, Goroutines, Contexts, ProducerSteps, AwaiterSteps, ResultSet, OnceOwned, InOnce
<1>4. ProducerFacts'
  BY DEF TypeOK, Goroutines, Contexts, ProducerSteps, AwaiterSteps, ProducerFacts, OnceOwned, InOnce, ResultSet
<1>5. OneWriter'
  BY DEF TypeOK, Goroutines, Contexts, ProducerSteps, AwaiterSteps, OneWriter, Writer, OnceOwned, InOnce, ProducerFacts
<1>6. AwaiterFacts'
  BY DEF TypeOK, Goroutines, Contexts, ProducerSteps, AwaiterSteps, AwaiterFacts, ResultSet, OnceOwned, InOnce, Done
<1>7. Origin'
  BY DEF TypeOK, Goroutines, Contexts, ProducerSteps, AwaiterSteps, Origin, Writer, ResultSet, OnceOwned, InOnce, AwaiterFacts, CauseHonest, Done, ProducerFacts
<1>8. CauseHonest'
  BY DEF TypeOK, Goroutines, Contexts, ProducerSteps, AwaiterSteps, CauseHonest, ProducerFacts, ResultSet, AwaiterFacts, OnceOwned, InOnce, Done
<1> QED BY <1>1, <1>2, <1>3, <1>4, <1>5, <1>6, <1>7, <1>8

(* future.go:37-38 *)
LEMMA AwaitCtxInv ==
  ASSUME IInv, NEW a \in Awaiters, AwaitCtx(a)
  PROVE  IInv'
<1> USE FutureAssumption, NoResultAssumption, ResultType, CauseType DEF IInv, AwaitCtx, Go
<1>1. TypeOK'
  BY DEF TypeOK, Goroutines, Contexts, ProducerSteps, AwaiterSteps
<1>2. OnceOwned'
  BY DEF TypeOK, Goroutines, Contexts, ProducerSteps, AwaiterSteps, OnceOwned, InOnce
<1>3. ResultSet'
  BY DEF TypeOK, Goroutines, Contexts, ProducerSteps, AwaiterSteps, ResultSet, OnceOwned, InOnce
<1>4. ProducerFacts'
  BY DEF TypeOK, Goroutines, Contexts, ProducerSteps, AwaiterSteps, ProducerFacts, OnceOwned, InOnce, ResultSet
<1>5. OneWriter'
  BY DEF TypeOK, Goroutines, Contexts, ProducerSteps, AwaiterSteps, OneWriter, Writer, OnceOwned, InOnce, ProducerFacts
<1>6. AwaiterFacts'
  BY DEF TypeOK, Goroutines, Contexts, ProducerSteps, AwaiterSteps, AwaiterFacts, ResultSet, OnceOwned, InOnce, Done
<1>7. Origin'
  BY DEF TypeOK, Goroutines, Contexts, ProducerSteps, AwaiterSteps, Origin, Writer, ResultSet, OnceOwned, InOnce, AwaiterFacts, CauseHonest, Done, ProducerFacts
<1>8. CauseHonest'
  BY DEF TypeOK, Goroutines, Contexts, ProducerSteps, AwaiterSteps, CauseHonest, ProducerFacts, ResultSet, AwaiterFacts, OnceOwned, InOnce, Done
<1> QED BY <1>1, <1>2, <1>3, <1>4, <1>5, <1>6, <1>7, <1>8

(* future.go:27, 39-40 *)
LEMMA WakeInv ==
  ASSUME IInv, NEW a \in Awaiters, Wake(a)
  PROVE  IInv'
<1> USE FutureAssumption, NoResultAssumption, ResultType, CauseType DEF IInv, Wake, Go
<1>1. TypeOK'
  BY DEF TypeOK, Goroutines, Contexts, ProducerSteps, AwaiterSteps
<1>2. OnceOwned'
  BY DEF TypeOK, Goroutines, Contexts, ProducerSteps, AwaiterSteps, OnceOwned, InOnce
<1>3. ResultSet'
  BY DEF TypeOK, Goroutines, Contexts, ProducerSteps, AwaiterSteps, ResultSet, OnceOwned, InOnce
<1>4. ProducerFacts'
  BY DEF TypeOK, Goroutines, Contexts, ProducerSteps, AwaiterSteps, ProducerFacts, OnceOwned, InOnce, ResultSet
<1>5. OneWriter'
  BY DEF TypeOK, Goroutines, Contexts, ProducerSteps, AwaiterSteps, OneWriter, Writer, OnceOwned, InOnce, ProducerFacts
<1>6. AwaiterFacts'
  BY DEF TypeOK, Goroutines, Contexts, ProducerSteps, AwaiterSteps, AwaiterFacts, ResultSet, OnceOwned, InOnce, Done
<1>7. Origin'
  BY DEF TypeOK, Goroutines, Contexts, ProducerSteps, AwaiterSteps, Origin, Writer, ResultSet, OnceOwned, InOnce, AwaiterFacts, CauseHonest, Done, ProducerFacts
<1>8. CauseHonest'
  BY DEF TypeOK, Goroutines, Contexts, ProducerSteps, AwaiterSteps, CauseHonest, ProducerFacts, ResultSet, AwaiterFacts, OnceOwned, InOnce, Done
<1> QED BY <1>1, <1>2, <1>3, <1>4, <1>5, <1>6, <1>7, <1>8

(* future.go:41-42 *)
LEMMA GiveUpInv ==
  ASSUME IInv, NEW a \in Awaiters, GiveUp(a)
  PROVE  IInv'
<1> USE FutureAssumption, NoResultAssumption, ResultType, CauseType DEF IInv, GiveUp, Go
<1>1. TypeOK'
  BY DEF TypeOK, Goroutines, Contexts, ProducerSteps, AwaiterSteps, Done
<1>2. OnceOwned'
  BY DEF TypeOK, Goroutines, Contexts, ProducerSteps, AwaiterSteps, OnceOwned, InOnce
<1>3. ResultSet'
  BY DEF TypeOK, Goroutines, Contexts, ProducerSteps, AwaiterSteps, ResultSet, OnceOwned, InOnce
<1>4. ProducerFacts'
  BY DEF TypeOK, Goroutines, Contexts, ProducerSteps, AwaiterSteps, ProducerFacts, OnceOwned, InOnce, ResultSet
<1>5. OneWriter'
  BY DEF TypeOK, Goroutines, Contexts, ProducerSteps, AwaiterSteps, OneWriter, Writer, OnceOwned, InOnce, ProducerFacts
<1>6. AwaiterFacts'
  BY DEF TypeOK, Goroutines, Contexts, ProducerSteps, AwaiterSteps, AwaiterFacts, ResultSet, OnceOwned, InOnce, Done
<1>7. Origin'
  BY DEF TypeOK, Goroutines, Contexts, ProducerSteps, AwaiterSteps, Origin, Writer, ResultSet, OnceOwned, InOnce, AwaiterFacts, CauseHonest, Done, ProducerFacts
<1>8. CauseHonest'
  BY DEF TypeOK, Goroutines, Contexts, ProducerSteps, AwaiterSteps, CauseHonest, ProducerFacts, ResultSet, AwaiterFacts, OnceOwned, InOnce, Done
<1> QED BY <1>1, <1>2, <1>3, <1>4, <1>5, <1>6, <1>7, <1>8

(* future.go:28, the once already done *)
LEMMA SkipAwaitInv ==
  ASSUME IInv, NEW a \in Awaiters, SkipAwait(a)
  PROVE  IInv'
<1> USE FutureAssumption, NoResultAssumption, ResultType, CauseType DEF IInv, SkipAwait, Go
<1>1. TypeOK'
  BY DEF TypeOK, Goroutines, Contexts, ProducerSteps, AwaiterSteps
<1>2. OnceOwned'
  BY DEF TypeOK, Goroutines, Contexts, ProducerSteps, AwaiterSteps, OnceOwned, InOnce
<1>3. ResultSet'
  BY DEF TypeOK, Goroutines, Contexts, ProducerSteps, AwaiterSteps, ResultSet, OnceOwned, InOnce
<1>4. ProducerFacts'
  BY DEF TypeOK, Goroutines, Contexts, ProducerSteps, AwaiterSteps, ProducerFacts, OnceOwned, InOnce, ResultSet
<1>5. OneWriter'
  BY DEF TypeOK, Goroutines, Contexts, ProducerSteps, AwaiterSteps, OneWriter, Writer, OnceOwned, InOnce, ProducerFacts
<1>6. AwaiterFacts'
  BY DEF TypeOK, Goroutines, Contexts, ProducerSteps, AwaiterSteps, AwaiterFacts, ResultSet, OnceOwned, InOnce, Done
<1>7. Origin'
  BY DEF TypeOK, Goroutines, Contexts, ProducerSteps, AwaiterSteps, Origin, Writer, ResultSet, OnceOwned, InOnce, AwaiterFacts, CauseHonest, Done, ProducerFacts
<1>8. CauseHonest'
  BY DEF TypeOK, Goroutines, Contexts, ProducerSteps, AwaiterSteps, CauseHonest, ProducerFacts, ResultSet, AwaiterFacts, OnceOwned, InOnce, Done
<1> QED BY <1>1, <1>2, <1>3, <1>4, <1>5, <1>6, <1>7, <1>8

(* future.go:29-30 *)
LEMMA WriteCauseInv ==
  ASSUME IInv, NEW a \in Awaiters, WriteCause(a)
  PROVE  IInv'
<1> USE FutureAssumption, NoResultAssumption, ResultType, CauseType DEF IInv, WriteCause, Go
<1>1. TypeOK'
  BY DEF TypeOK, Goroutines, Contexts, ProducerSteps, AwaiterSteps, AwaiterFacts, Done
<1>2. OnceOwned'
  BY DEF TypeOK, Goroutines, Contexts, ProducerSteps, AwaiterSteps, OnceOwned, InOnce
<1>3. ResultSet'
  BY DEF TypeOK, Goroutines, Contexts, ProducerSteps, AwaiterSteps, ResultSet, OnceOwned, InOnce, AwaiterFacts, Done
<1>4. ProducerFacts'
  BY DEF TypeOK, Goroutines, Contexts, ProducerSteps, AwaiterSteps, ProducerFacts, OnceOwned, InOnce, ResultSet
<1>5. OneWriter'
  BY DEF TypeOK, Goroutines, Contexts, ProducerSteps, AwaiterSteps, OneWriter, Writer, OnceOwned, InOnce, ProducerFacts
<1>6. AwaiterFacts'
  BY DEF TypeOK, Goroutines, Contexts, ProducerSteps, AwaiterSteps, AwaiterFacts, ResultSet, OnceOwned, InOnce, Done
<1>7. Origin'
  BY DEF TypeOK, Goroutines, Contexts, ProducerSteps, AwaiterSteps, Origin, Writer, ResultSet, OnceOwned, InOnce, AwaiterFacts, CauseHonest, Done, ProducerFacts
<1>8. CauseHonest'
  BY DEF TypeOK, Goroutines, Contexts, ProducerSteps, AwaiterSteps, CauseHonest, ProducerFacts, ResultSet, AwaiterFacts, OnceOwned, InOnce, Done
<1> QED BY <1>1, <1>2, <1>3, <1>4, <1>5, <1>6, <1>7, <1>8

(* future.go:31 *)
LEMMA LeaveAwaitInv ==
  ASSUME IInv, NEW a \in Awaiters, LeaveAwait(a)
  PROVE  IInv'
<1> USE FutureAssumption, NoResultAssumption, ResultType, CauseType DEF IInv, LeaveAwait, Go
<1>1. TypeOK'
  BY DEF TypeOK, Goroutines, Contexts, ProducerSteps, AwaiterSteps
<1>2. OnceOwned'
  BY DEF TypeOK, Goroutines, Contexts, ProducerSteps, AwaiterSteps, OnceOwned, InOnce
<1>3. ResultSet'
  BY DEF TypeOK, Goroutines, Contexts, ProducerSteps, AwaiterSteps, ResultSet, OnceOwned, InOnce
<1>4. ProducerFacts'
  BY DEF TypeOK, Goroutines, Contexts, ProducerSteps, AwaiterSteps, ProducerFacts, OnceOwned, InOnce, ResultSet
<1>5. OneWriter'
  BY DEF TypeOK, Goroutines, Contexts, ProducerSteps, AwaiterSteps, OneWriter, Writer, OnceOwned, InOnce, ProducerFacts
<1>6. AwaiterFacts'
  BY DEF TypeOK, Goroutines, Contexts, ProducerSteps, AwaiterSteps, AwaiterFacts, ResultSet, OnceOwned, InOnce, Done
<1>7. Origin'
  BY DEF TypeOK, Goroutines, Contexts, ProducerSteps, AwaiterSteps, Origin, Writer, ResultSet, OnceOwned, InOnce, AwaiterFacts, CauseHonest, Done, ProducerFacts
<1>8. CauseHonest'
  BY DEF TypeOK, Goroutines, Contexts, ProducerSteps, AwaiterSteps, CauseHonest, ProducerFacts, ResultSet, AwaiterFacts, OnceOwned, InOnce, Done
<1> QED BY <1>1, <1>2, <1>3, <1>4, <1>5, <1>6, <1>7, <1>8

(* future.go:32 *)
LEMMA ReadResultInv ==
  ASSUME IInv, NEW a \in Awaiters, ReadResult(a)
  PROVE  IInv'
<1> USE FutureAssumption, NoResultAssumption, ResultType, CauseType DEF IInv, ReadResult, Go
<1>1. TypeOK'
  BY DEF TypeOK, Goroutines, Contexts, ProducerSteps, AwaiterSteps
<1>2. OnceOwned'
  BY DEF TypeOK, Goroutines, Contexts, ProducerSteps, AwaiterSteps, OnceOwned, InOnce
<1>3. ResultSet'
  BY DEF TypeOK, Goroutines, Contexts, ProducerSteps, AwaiterSteps, ResultSet, OnceOwned, InOnce
<1>4. ProducerFacts'
  BY DEF TypeOK, Goroutines, Contexts, ProducerSteps, AwaiterSteps, ProducerFacts, OnceOwned, InOnce, ResultSet
<1>5. OneWriter'
  BY DEF TypeOK, Goroutines, Contexts, ProducerSteps, AwaiterSteps, OneWriter, Writer, OnceOwned, InOnce, ProducerFacts
<1>6. AwaiterFacts'
  BY DEF TypeOK, Goroutines, Contexts, ProducerSteps, AwaiterSteps, AwaiterFacts, ResultSet, OnceOwned, InOnce, Done
<1>7. Origin'
  BY DEF TypeOK, Goroutines, Contexts, ProducerSteps, AwaiterSteps, Origin, Writer, ResultSet, OnceOwned, InOnce, AwaiterFacts, CauseHonest, Done, ProducerFacts
<1>8. CauseHonest'
  BY DEF TypeOK, Goroutines, Contexts, ProducerSteps, AwaiterSteps, CauseHonest, ProducerFacts, ResultSet, AwaiterFacts, OnceOwned, InOnce, Done
<1> QED BY <1>1, <1>2, <1>3, <1>4, <1>5, <1>6, <1>7, <1>8

(* A context of a caller ends. *)
LEMMA ExpireInv ==
  ASSUME IInv, NEW c \in Contexts, Expire(c)
  PROVE  IInv'
<1> USE FutureAssumption, NoResultAssumption, ResultType, CauseType DEF IInv, Expire, Go
<1>1. TypeOK'
  BY DEF TypeOK, Goroutines, Contexts, ProducerSteps, AwaiterSteps
<1>2. OnceOwned'
  BY DEF TypeOK, Goroutines, Contexts, ProducerSteps, AwaiterSteps, OnceOwned, InOnce
<1>3. ResultSet'
  BY DEF TypeOK, Goroutines, Contexts, ProducerSteps, AwaiterSteps, ResultSet, OnceOwned, InOnce
<1>4. ProducerFacts'
  BY DEF TypeOK, Goroutines, Contexts, ProducerSteps, AwaiterSteps, ProducerFacts, OnceOwned, InOnce, ResultSet
<1>5. OneWriter'
  BY DEF TypeOK, Goroutines, Contexts, ProducerSteps, AwaiterSteps, OneWriter, Writer, OnceOwned, InOnce, ProducerFacts
<1>6. AwaiterFacts'
  BY DEF TypeOK, Goroutines, Contexts, ProducerSteps, AwaiterSteps, AwaiterFacts, ResultSet, OnceOwned, InOnce, Done
<1>7. Origin'
  BY DEF TypeOK, Goroutines, Contexts, ProducerSteps, AwaiterSteps, Origin, Writer, ResultSet, OnceOwned, InOnce, AwaiterFacts, CauseHonest, Done, ProducerFacts
<1>8. CauseHonest'
  BY DEF TypeOK, Goroutines, Contexts, ProducerSteps, AwaiterSteps, CauseHonest, ProducerFacts, ResultSet, AwaiterFacts, OnceOwned, InOnce, Done
<1> QED BY <1>1, <1>2, <1>3, <1>4, <1>5, <1>6, <1>7, <1>8

(* The parent's end reaches the future's context. *)
LEMMA PropagateInv ==
  ASSUME IInv, Propagate
  PROVE  IInv'
<1> USE FutureAssumption, NoResultAssumption, ResultType, CauseType DEF IInv, Propagate, Go
<1>1. TypeOK'
  BY DEF TypeOK, Goroutines, Contexts, ProducerSteps, AwaiterSteps
<1>2. OnceOwned'
  BY DEF TypeOK, Goroutines, Contexts, ProducerSteps, AwaiterSteps, OnceOwned, InOnce
<1>3. ResultSet'
  BY DEF TypeOK, Goroutines, Contexts, ProducerSteps, AwaiterSteps, ResultSet, OnceOwned, InOnce
<1>4. ProducerFacts'
  BY DEF TypeOK, Goroutines, Contexts, ProducerSteps, AwaiterSteps, ProducerFacts, OnceOwned, InOnce, ResultSet
<1>5. OneWriter'
  BY DEF TypeOK, Goroutines, Contexts, ProducerSteps, AwaiterSteps, OneWriter, Writer, OnceOwned, InOnce, ProducerFacts
<1>6. AwaiterFacts'
  BY DEF TypeOK, Goroutines, Contexts, ProducerSteps, AwaiterSteps, AwaiterFacts, ResultSet, OnceOwned, InOnce, Done
<1>7. Origin'
  BY DEF TypeOK, Goroutines, Contexts, ProducerSteps, AwaiterSteps, Origin, Writer, ResultSet, OnceOwned, InOnce, AwaiterFacts, CauseHonest, Done, ProducerFacts
<1>8. CauseHonest'
  BY DEF TypeOK, Goroutines, Contexts, ProducerSteps, AwaiterSteps, CauseHonest, ProducerFacts, ResultSet, AwaiterFacts, OnceOwned, InOnce, Done
<1> QED BY <1>1, <1>2, <1>3, <1>4, <1>5, <1>6, <1>7, <1>8

(* Every step, of a producer, an awaiter or a context, preserves the       *)
(* invariant: one case per action of Next.                                 *)
LEMMA StepInv == IInv /\ [Next]_vars => IInv'
<1> SUFFICES ASSUME IInv, [Next]_vars PROVE IInv'
  OBVIOUS
<1>1. CASE UNCHANGED vars
  BY <1>1 DEF vars, IInv, TypeOK, OnceOwned, InOnce, ResultSet, ProducerFacts, OneWriter,
     Writer, AwaiterFacts, Origin, CauseHonest, Done
<1>2. ASSUME NEW p \in Producers, ProducerCall(p) \/ ProducerStep(p) PROVE IInv'
  <2>1. CASE ProducerCall(p)
    BY <2>1, CallIsSettle, SettleInv
  <2>2. CASE ProducerStep(p)
    BY <2>2, EnterInv, SkipSettleInv, WriteResultInv, CancelFutureCtxInv, LeaveSettleInv
       DEF ProducerStep, Goroutines
  <2> QED BY <1>2, <2>1, <2>2
<1>3. ASSUME NEW a \in Awaiters, AwaiterCall(a) \/ AwaiterStep(a) PROVE IInv'
  BY <1>3, EnterInv, AwaitInv, AwaitCtxInv, WakeInv, GiveUpInv, SkipAwaitInv, WriteCauseInv,
     LeaveAwaitInv, ReadResultInv DEF AwaiterCall, AwaiterStep, Goroutines
<1>4. ASSUME NEW c \in Contexts, Expire(c) PROVE IInv'
  BY <1>4, ExpireInv
<1>5. CASE Propagate
  BY <1>5, PropagateInv
<1> QED BY <1>1, <1>2, <1>3, <1>4, <1>5 DEF Next

(* The invariant holds throughout every behaviour of a future.             *)
THEOREM Invariance == Spec => []IInv
BY InitInv, StepInv, PTL DEF Spec

-----------------------------------------------------------------------------
(* The properties of the runs, for every set of goroutines. *)

(* Every variable stays in its type whatever Resolve, Reject, Cancel, Await *)
(* and AwaitCtx are called with (future.go:17-112).                        *)
THEOREM TypeCorrect == Spec => []TypeOK
BY Invariance, PTL DEF IInv

(* All goroutines that finish Await hold the one result (future.go:26-33). *)
THEOREM AwaitersAgree == Spec => []Agreement
<1>1. IInv => Agreement
  BY NoResultAssumption DEF IInv, AwaiterFacts, ResultSet, Agreement
<1> QED BY <1>1, Invariance, PTL

(* A result comes from exactly one successful settle, or from the parent's *)
(* cancellation (future.go:28-31, 64-72).                                  *)
THEOREM ResultHasOneOrigin == Spec => []ResultOrigin
<1>1. ASSUME IInv PROVE ResultOrigin
  <2>1. ASSUME result # NoResult, Writer # {}
        PROVE  \E p \in Producers : Writer = {p} /\ result = arg[p]
    <3>1. PICK p \in Producers : p \in Writer
      BY <2>1 DEF Writer
    <3>2. Writer = {p}
      BY <1>1, <3>1 DEF IInv, OneWriter, Writer
    <3>3. result = arg[p]
      BY <1>1, <3>1 DEF IInv, ProducerFacts, Writer
    <3> QED BY <3>2, <3>3
  <2>2. \A p, q \in Producers : won[p] = "yes" /\ won[q] = "yes" => p = q
    BY <1>1 DEF IInv, OneWriter, Writer
  <2> QED BY <1>1, <2>1, <2>2 DEF IInv, Origin, ResultOrigin
<1> QED BY <1>1, Invariance, PTL

(* The context ends only after the result is recorded, or with the parent  *)
(* (future.go:67-68).                                                      *)
THEOREM ContextIsHonest == Spec => []CauseHonest
BY Invariance, PTL DEF IInv

(* Once set, the result never changes again (the sync.Once of Future).     *)
ResultFixed == [][result # NoResult => result' = result]_vars

(* Once settle or an Await has written the result (future.go:26-33, 64-72) *)
(* no later step of any goroutine changes it.                              *)
THEOREM ResultNeverChanges == Spec => ResultFixed
<1>1. IInv /\ [Next]_vars => [result # NoResult => result' = result]_vars
  <2> SUFFICES ASSUME IInv, [Next]_vars, result # NoResult PROVE result' = result
    OBVIOUS
  <2>1. ASSUME NEW g \in Goroutines PROVE pc[g] # "write"
    BY <2>1 DEF IInv, ResultSet, OnceOwned, InOnce
  <2>2. ASSUME NEW p \in Producers, ProducerCall(p) PROVE result' = result
    BY <2>2, CallIsSettle DEF Settle
  <2>3. ASSUME NEW p \in Producers, ProducerStep(p) PROVE result' = result
    BY <2>1, <2>3 DEF ProducerStep, Enter, SkipSettle, WriteResult, CancelFutureCtx,
       LeaveSettle, Go, Goroutines
  <2>4. ASSUME NEW a \in Awaiters, AwaiterCall(a) \/ AwaiterStep(a) PROVE result' = result
    BY <2>1, <2>4 DEF AwaiterCall, AwaiterStep, Await, AwaitCtx, Wake, GiveUp, Enter, SkipAwait,
       WriteCause, LeaveAwait, ReadResult, Go, Goroutines
  <2>5. ASSUME UNCHANGED vars \/ Propagate \/ \E c \in Contexts : Expire(c)
        PROVE  result' = result
    BY <2>5 DEF vars, Propagate, Expire
  <2> QED BY <2>2, <2>3, <2>4, <2>5 DEF Next
<1> QED BY <1>1, Invariance, PTL DEF Spec, ResultFixed

-----------------------------------------------------------------------------
(* Refinement: the step that writes the result is the abstract assignment, *)
(* the step that leaves the once is the abstract verdict, and the steps    *)
(* around them are invisible.                                              *)

(* Only producers' steps and verdicts move the writer. *)
LEMMA WriterSteps ==
  ASSUME IInv, NEW p \in Producers
  PROVE  /\ Enter(p) => Writer' = Writer
         /\ WriteResult(p) => Writer = {} /\ Writer' = {p}
         /\ CancelFutureCtx(p) => Writer' = Writer
         /\ LeaveSettle(p) => Writer = {p} /\ Writer' = {p}
         /\ SkipSettle(p) => Writer' = Writer /\ p \notin Writer
<1> USE DEF IInv, TypeOK, Go, Goroutines
<1>1. Enter(p) => Writer' = Writer
  BY DEF Enter, Writer, ProducerFacts
<1>2. WriteResult(p) => Writer = {} /\ Writer' = {p}
  BY DEF WriteResult, Writer, OnceOwned, InOnce, ProducerFacts
<1>3. CancelFutureCtx(p) => Writer' = Writer
  BY DEF CancelFutureCtx, Writer
<1>4. LeaveSettle(p) => Writer = {p} /\ Writer' = {p}
  BY DEF LeaveSettle, Writer, OneWriter
<1>5. SkipSettle(p) => Writer' = Writer /\ p \notin Writer
  BY DEF SkipSettle, Writer, ProducerFacts
<1> QED BY <1>1, <1>2, <1>3, <1>4, <1>5

(* A step that leaves pc of the producers and won alone leaves Writer alone. *)
LEMMA AwaiterKeepsWriter ==
  ASSUME IInv, won' = won,
         NEW a \in Awaiters, NEW s, pc' = [pc EXCEPT ![a] = s]
  PROVE  Writer' = Writer
BY FutureAssumption DEF IInv, TypeOK, Goroutines, Writer

(* Each step of a future is a step of the abstract cell or leaves it as it *)
(* is: the cell is filled by the write inside the once.                    *)
LEMMA RefinesStep == IInv /\ IInv' /\ [Next]_vars => [Abs!Next]_(Abs!avars)
<1> SUFFICES ASSUME IInv, IInv', [Next]_vars PROVE [Abs!Next]_(Abs!avars)
  OBVIOUS
<1> USE FutureAssumption, NoResultAssumption, ResultType DEF IInv
<1>1. CASE UNCHANGED vars
  BY <1>1 DEF vars, Abs!avars, Writer
<1>2. ASSUME NEW p \in Producers, ProducerCall(p) PROVE Abs!Next
  <2>1. PICK r \in Results : Settle(p, r)
    BY <1>2, CallIsSettle
  <2>2. Writer' = Writer
    BY <2>1 DEF Settle, Go, Writer, TypeOK, Goroutines, ProducerFacts
  <2>3. Abs!Offer(p)
    BY <2>1, <2>2 DEF Settle, Go, ProducerFacts, TypeOK, Abs!Offer
  <2> QED BY <2>3 DEF Abs!Next
<1>3. ASSUME NEW p \in Producers, ProducerStep(p) PROVE [Abs!Next]_(Abs!avars)
  <2>1. CASE Enter(p)
    BY <2>1, WriterSteps DEF Enter, Abs!avars
  <2>2. CASE SkipSettle(p)
    <3>1. Abs!Refuse(p)
      BY <2>2, WriterSteps DEF SkipSettle, Go, ProducerFacts, ResultSet, TypeOK, Abs!Refuse
    <3> QED BY <3>1 DEF Abs!Next
  <2>3. CASE WriteResult(p)
    <3>1. result = NoResult
      BY <2>3 DEF WriteResult, Go, ResultSet, OnceOwned, InOnce, Goroutines
    <3>2. Abs!Assign(p)
      BY <2>3, <3>1, WriterSteps DEF WriteResult, Go, ProducerFacts, Abs!Assign
    <3> QED BY <3>2 DEF Abs!Next
  <2>4. CASE CancelFutureCtx(p)
    BY <2>4, WriterSteps DEF CancelFutureCtx, Abs!avars
  <2>5. CASE LeaveSettle(p)
    <3>1. Abs!Accept(p)
      BY <2>5, WriterSteps DEF LeaveSettle, Go, ProducerFacts, TypeOK, Abs!Accept
    <3> QED BY <3>1 DEF Abs!Next
  <2> QED BY <1>3, <2>1, <2>2, <2>3, <2>4, <2>5 DEF ProducerStep
<1>4. ASSUME NEW a \in Awaiters, AwaiterCall(a) \/ AwaiterStep(a)
      PROVE  [Abs!Next]_(Abs!avars)
  <2>1. Writer' = Writer
    BY <1>4, AwaiterKeepsWriter DEF AwaiterCall, AwaiterStep, Await, AwaitCtx, Wake, GiveUp,
       Enter, SkipAwait, WriteCause, LeaveAwait, ReadResult, Go
  <2>2. CASE Await(a) \/ AwaitCtx(a) \/ Wake(a) \/ Enter(a) \/ SkipAwait(a) \/ LeaveAwait(a)
    BY <2>1, <2>2 DEF Await, AwaitCtx, Wake, Enter, SkipAwait, LeaveAwait, Abs!avars
  <2>3. CASE GiveUp(a)
    <3>1. Err(cause[a]) \in Errs
      BY <2>3 DEF GiveUp, Done, TypeOK, Contexts, Errs
    <3>2. seen[a] = NoResult
      BY <2>3 DEF GiveUp, Go, AwaiterFacts
    <3>3. Abs!GiveUp(a)
      BY <2>1, <2>3, <3>1, <3>2 DEF GiveUp, Abs!GiveUp
    <3> QED BY <3>3 DEF Abs!Next
  <2>4. CASE WriteCause(a)
    <3>1. result = NoResult
      BY <2>4 DEF WriteCause, Go, ResultSet, OnceOwned, InOnce, Goroutines
    <3>2. Abs!Expire
      BY <2>1, <2>4, <3>1
         DEF WriteCause, Go, Done, AwaiterFacts, TypeOK, Contexts, Errs, Abs!Expire
    <3> QED BY <3>2 DEF Abs!Next
  <2>5. CASE ReadResult(a)
    <3>1. Abs!Observe(a)
      BY <2>1, <2>5 DEF ReadResult, Go, AwaiterFacts, ResultSet, TypeOK, Abs!Observe
    <3> QED BY <3>1 DEF Abs!Next
  <2> QED BY <1>4, <2>2, <2>3, <2>4, <2>5 DEF AwaiterCall, AwaiterStep
<1>5. CASE Propagate \/ \E c \in Contexts : Expire(c)
  BY <1>5 DEF Propagate, Expire, Writer, Abs!avars
<1> QED BY <1>1, <1>2, <1>3, <1>4, <1>5 DEF Next

(* Promise and Future implement the single-assignment cell.                *)
THEOREM FutureIsSingleAssignment == Spec => ImplementsSingleAssignment
<1>1. Init => Abs!Init
  BY DEF Init, Abs!Init, Writer, Goroutines
<1> QED BY <1>1, RefinesStep, Invariance, PTL DEF Spec, Abs!Spec, ImplementsSingleAssignment
=============================================================================
