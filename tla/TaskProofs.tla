------------------------------ MODULE TaskProofs ------------------------------
(***************************************************************************)
(* Proofs about Task.tla for any number of goroutines that call Run and of *)
(* children, and either engine: type correctness, RunsOnceForAll,          *)
(* OutcomeIsBodys and ChildResultIsFns, from the inductive invariant IInv. *)
(* At the end, FirstHandlerAnswers of Dispatch.tla for any tasks, handlers *)
(* and calls that share an engine, from EngineInv.                         *)
(***************************************************************************)
EXTENDS MCCoroutines, SequenceTheorems, WellFoundedInduction, TLAPS

(* The Run that won the CompareAndSwap is in one of these places, until it *)
(* joins the others.                                                       *)
Entered(r) == pc[r] \in {"body", "fold", "recover", "gone"}
Ahead(r) == pc[r] = "check" \/ Entered(r)

(* started lets one Run through, and that one enters the body once.        *)
OneRunner ==
  /\ \A q, r \in Runners : Ahead(q) /\ Ahead(r) => q = r
  /\ \A r \in Runners : pc[r] # "idle" => started
  /\ runs \in {0, 1}
  /\ runs = 0 => ended = None /\ \A r \in Runners : ~ Entered(r)
  /\ runs = 1 => \A r \in Runners : pc[r] # "check"
  /\ runs = 1 => started

(* How the body ended is recorded when it ends, once.                      *)
BodyEnd ==
  \A r \in Runners :
    /\ pc[r] = "body" => ended = None
    /\ pc[r] = "fold" => ended \in {"ok", "body error"}
    /\ pc[r] = "recover" => ended \in {"panic", "nil panic"}

(* The task's context ends with its base's cause, or by the one settle of  *)
(* its future.                                                             *)
TaskCauses == {"canceled", "body error", "panic", "user"}

ContextFacts ==
  /\ cause["base"] \in {Live, "base"}
  /\ cause["task"] \in {Live, "base"} \cup TaskCauses
  /\ cause["task"] = "base" => cause["base"] = "base"
  /\ task = None => cause["task"] \in {Live, "base"}

TaskFacts ==
  /\ task \in {None, "ok", "body error", "panic", "user", "base"}
  /\ task \in {OK, "body error", "panic"} => ended = task
  /\ task = "base" => cause["base"] = "base"

RetFacts ==
  \A r \in Runners :
    /\ ret[r] # None <=> pc[r] = "done"
    /\ ret[r] # None => ret[r] = task \/ (ret[r] = Zero /\ ended \in {"panic", "nil panic"})
    /\ pc[r] = "done" => task # None \/ ended = "nil panic"

(* What ends a context below the task's or the engine's, from above.       *)
FromAbove(x) == x = "base" \/ (x \in TaskCauses /\ TaskDone)

(* The two futures of a child: nothing before it is spawned; the cause of  *)
(* an unsettled one came from above; and what the second holds is what the *)
(* first holds, a mismatch, or came from above.                            *)
ChildFactsOf(c) ==
  /\ fn[c] = None => /\ anyCause[c] = Live /\ any[c] = None
                     /\ futCause[c] = Live /\ fut[c] = None /\ bridge[c] = None
  /\ bridge[c] \in {"finishing", "carrying"} => any[c] # None
  /\ any[c] = None /\ anyCause[c] # Live => FromAbove(anyCause[c])
  /\ fut[c] = None /\ futCause[c] # Live => FromAbove(futCause[c])
  /\ any[c] \in {None, OK, "fn error", "fn panic"} \/ FromAbove(any[c])
  /\ fut[c] \in {None, "mismatch"} \/ fut[c] = any[c] \/ FromAbove(fut[c])
  /\ fut[c] # None => futCause[c] # Live

ChildFacts == \A c \in Children : ChildFactsOf(c)

IInv ==
  /\ TypeOK
  /\ OneRunner
  /\ BodyEnd
  /\ ContextFacts
  /\ TaskFacts
  /\ RetFacts
  /\ ChildFacts

-----------------------------------------------------------------------------
(* A new task satisfies the invariant: nobody runs, nothing is spawned.    *)
LEMMA InitInv == Init => IInv
<1> SUFFICES ASSUME Init PROVE IInv
  OBVIOUS
<1> USE DEF Init
<1>1. TypeOK
  BY DEF TypeOK, Results, Errors
<1>2. OneRunner /\ BodyEnd /\ RetFacts
  BY DEF OneRunner, BodyEnd, RetFacts, Ahead, Entered, None
<1>3. ContextFacts /\ TaskFacts
  BY DEF ContextFacts, TaskFacts, TaskCauses, Live, None, OK
<1>4. ChildFacts
  BY DEF ChildFacts, ChildFactsOf, Live, None
<1> QED BY <1>1, <1>2, <1>3, <1>4 DEF IInv

(* A context that has ended stays ended, and what comes from above too.    *)
LEMMA FromAboveStays ==
  ASSUME TaskDone => TaskDone', NEW x, FromAbove(x)
  PROVE  FromAbove(x)'
BY DEF FromAbove

(* A step of the task that leaves its children alone keeps what is known   *)
(* of them.                                                                *)
LEMMA ChildrenKept ==
  ASSUME ChildFacts, UNCHANGED childVars, TaskDone => TaskDone'
  PROVE  ChildFacts'
BY DEF ChildFacts, ChildFactsOf, childVars, FromAbove, TaskCauses, Live, None

-----------------------------------------------------------------------------
(* Contexts. *)

(* The base context ends with its own cause, and passes it on.             *)
LEMMA BaseInv == ASSUME IInv, BaseEnds \/ BaseReachesTask PROVE IInv'
<1> USE DEF IInv
<1>1. UNCHANGED <<engine, started, task, pc, ret, ended, runs, childVars>>
  BY DEF BaseEnds, BaseReachesTask
<1>2. /\ cause' \in [{"base", "task"} -> Errors \cup {Live}]
      /\ TaskDone => TaskDone'
      /\ ContextFacts' /\ TaskFacts'
  <2>1. CASE BaseEnds
    BY <2>1 DEF BaseEnds, TypeOK, Errors, TaskDone, Live, ContextFacts, TaskFacts, TaskCauses
  <2>2. CASE BaseReachesTask
    <3>1. cause["base"] \in Errors \cup {Live} /\ cause["base"] = "base"
      BY <2>2 DEF BaseReachesTask, TypeOK, ContextFacts
    <3> QED BY <3>1, <2>2
            DEF BaseReachesTask, TypeOK, TaskDone, Live, ContextFacts, TaskFacts, TaskCauses
  <2> QED BY <2>1, <2>2
<1>3. TypeOK'
  BY <1>1, <1>2 DEF TypeOK, childVars
<1>4. OneRunner' /\ BodyEnd' /\ RetFacts'
  BY <1>1 DEF OneRunner, BodyEnd, RetFacts, Ahead, Entered
<1>5. ChildFacts'
  BY <1>1, <1>2, ChildrenKept
<1> QED BY <1>2, <1>3, <1>4, <1>5

-----------------------------------------------------------------------------
(* Run. *)

(* What SettleTask(r) does to the task's future and context, for a result  *)
(* r the body or settlePanic gives, a user's cancellation, or the cause    *)
(* that Await finds.                                                       *)
LEMMA SettleTaskEffect ==
  ASSUME IInv, NEW r, SettleTask(r),
         \/ r \in {"ok", "body error", "panic", "user"}
         \/ r = cause["task"] /\ TaskDone,
         r \in {"ok", "body error", "panic"} => ended = r,
         UNCHANGED ended
  PROVE  /\ task' \in {"ok", "body error", "panic", "user", "base"}
         /\ task # None => task' = task
         /\ cause' \in [{"base", "task"} -> Errors \cup {Live}]
         /\ TaskDone => TaskDone'
         /\ ContextFacts' /\ TaskFacts'
<1> USE DEF IInv, TypeOK, ContextFacts, TaskFacts, TaskCauses, None, Live, OK
<1>1. CASE task # None
  BY <1>1 DEF SettleTask, TaskDone
<1>2. CASE task = None
  <2>1. task' = r /\ r \in {"ok", "body error", "panic", "user", "base"}
    BY <1>2 DEF SettleTask, TaskDone
  <2>2. CauseOf(r) \in TaskCauses \/ TaskDone
    BY <2>1 DEF CauseOf
  <2>3. cause' = IF TaskDone THEN cause ELSE [cause EXCEPT !["task"] = CauseOf(r)]
    BY <1>2 DEF SettleTask
  <2>4. r \in {"ok", "body error", "panic"} => ended' = r
    OBVIOUS
  <2>5. CASE TaskDone
    <3>1. cause' = cause /\ (r = "base" => cause["base"] = "base")
      BY <1>2, <2>3, <2>5 DEF TaskDone
    <3>2. TaskDone' /\ ContextFacts'
      BY <2>1, <2>5, <3>1 DEF TaskDone
    <3> QED BY <1>2, <2>1, <2>4, <3>1, <3>2
  <2>6. CASE ~ TaskDone
    <3>1. /\ cause'["task"] = CauseOf(r) /\ cause'["base"] = cause["base"]
          /\ cause' \in [{"base", "task"} -> Errors \cup {Live}]
      BY <2>2, <2>3, <2>6 DEF Errors
    <3>2. r # "base"
      BY <2>6
    <3>3. TaskDone' /\ ContextFacts'
      BY <2>1, <2>2, <2>6, <3>1 DEF TaskDone
    <3> QED BY <1>2, <2>1, <2>4, <2>6, <3>1, <3>2, <3>3
  <2> QED BY <2>5, <2>6
<1> QED BY <1>1, <1>2

(* started.CompareAndSwap lets the first Run through.                      *)
LEMMA CompareAndSwapInv == ASSUME IInv, NEW r \in Runners, CompareAndSwap(r) PROVE IInv'
<1> USE DEF IInv
<1>1. /\ UNCHANGED <<engine, cause, task, ret, ended, runs, childVars>>
      /\ started' = TRUE /\ pc[r] = "idle"
      /\ pc' = [pc EXCEPT ![r] = IF started THEN "await" ELSE "check"]
  BY DEF CompareAndSwap, Go
<1>2. TypeOK'
  BY <1>1 DEF TypeOK, childVars
<1>3. OneRunner'
  <2>1. CASE started
    BY <1>1, <2>1 DEF OneRunner, TypeOK, Ahead, Entered
  <2>2. CASE ~ started
    BY <1>1, <2>2 DEF OneRunner, TypeOK, Ahead, Entered
  <2> QED BY <2>1, <2>2
<1>4. BodyEnd' /\ RetFacts'
  BY <1>1 DEF BodyEnd, RetFacts, TypeOK
<1>5. ContextFacts' /\ TaskFacts' /\ ChildFacts'
  BY <1>1, ChildrenKept DEF ContextFacts, TaskFacts, TaskDone
<1> QED BY <1>2, <1>3, <1>4, <1>5

(* The winner enters the body, unless the task's context has ended.        *)
LEMMA CheckInv == ASSUME IInv, NEW r \in Runners, Check(r) PROVE IInv'
<1> USE DEF IInv
<1>1. /\ UNCHANGED <<engine, cause, started, task, ret, ended, childVars>>
      /\ pc[r] = "check"
      /\ \/ pc' = [pc EXCEPT ![r] = "await"] /\ runs' = runs
         \/ pc' = [pc EXCEPT ![r] = "body"] /\ runs' = runs + 1
  BY DEF Check, Go
<1>2. runs = 0 /\ ended = None /\ started
  BY <1>1 DEF OneRunner
<1>3. TypeOK'
  <2>1. runs' \in Nat /\ pc' \in [Runners -> {"idle", "check", "body", "fold", "recover",
                                             "await", "done", "gone"}]
    BY <1>1, <1>2 DEF TypeOK
  <2> QED BY <1>1, <2>1 DEF TypeOK, childVars
<1>4. OneRunner'
  BY <1>1, <1>2 DEF OneRunner, TypeOK, Ahead, Entered
<1>5. BodyEnd' /\ RetFacts'
  BY <1>1, <1>2 DEF BodyEnd, RetFacts, TypeOK, OneRunner, Entered
<1>6. ContextFacts' /\ TaskFacts' /\ ChildFacts'
  BY <1>1, ChildrenKept DEF ContextFacts, TaskFacts, TaskDone
<1> QED BY <1>3, <1>4, <1>5, <1>6

(* The body ends and nobody else can still be in it.                       *)
LEMMA BodyEndsInv == ASSUME IInv, NEW r \in Runners, BodyEnds(r) PROVE IInv'
<1> USE DEF IInv
<1>1. /\ UNCHANGED <<engine, cause, started, task, ret, runs, childVars>>
      /\ pc[r] = "body" /\ ended = None
      /\ \/ pc' = [pc EXCEPT ![r] = "fold"] /\ ended' \in {"ok", "body error"}
         \/ pc' = [pc EXCEPT ![r] = "recover"] /\ ended' \in {"panic", "nil panic"}
         \/ pc' = [pc EXCEPT ![r] = "gone"] /\ ended' = "exit"
  BY DEF BodyEnds, Go, BodyEnd
<1>2. runs = 1 /\ started
  BY <1>1 DEF OneRunner, Entered
<1>3. TypeOK'
  BY <1>1 DEF TypeOK, childVars
<1>4. OneRunner'
  <2>1. \A q \in Runners : Ahead(q)' => Ahead(q)
    BY <1>1 DEF TypeOK, Ahead, Entered
  <2>2. \A q \in Runners : pc'[q] # "idle" => started'
    BY <1>1, <1>2
  <2>3. \A q \in Runners : pc'[q] # "check"
    BY <1>1, <1>2 DEF TypeOK, OneRunner
  <2>4. runs' = 1 /\ started'
    BY <1>1, <1>2
  <2>5. \A q1, q2 \in Runners : Ahead(q1)' /\ Ahead(q2)' => q1 = q2
    BY <2>1 DEF OneRunner
  <2> QED BY <2>2, <2>3, <2>4, <2>5 DEF OneRunner
<1>5. BodyEnd'
  BY <1>1 DEF BodyEnd, TypeOK, OneRunner, Ahead, Entered
<1>6. RetFacts'
  BY <1>1 DEF RetFacts, TypeOK, None
<1>7. ContextFacts' /\ TaskFacts' /\ ChildFacts'
  BY <1>1, ChildrenKept DEF ContextFacts, TaskFacts, TaskDone, None, OK
<1> QED BY <1>3, <1>4, <1>5, <1>6, <1>7

(* Fold settles the task with the outcome of the body.                     *)
LEMMA FoldInv == ASSUME IInv, NEW r \in Runners, Fold(r) PROVE IInv'
<1> USE DEF IInv
<1>1. /\ UNCHANGED <<engine, started, ret, ended, runs, childVars>>
      /\ pc[r] = "fold" /\ ended \in {"ok", "body error"} /\ SettleTask(ended)
      /\ pc' = [pc EXCEPT ![r] = "await"]
  BY DEF Fold, Go, BodyEnd
<1>2. /\ task' \in {"ok", "body error", "panic", "user", "base"}
      /\ task # None => task' = task
      /\ cause' \in [{"base", "task"} -> Errors \cup {Live}]
      /\ TaskDone => TaskDone'
      /\ ContextFacts' /\ TaskFacts'
  BY <1>1, SettleTaskEffect
<1>3. TypeOK'
  BY <1>1, <1>2 DEF TypeOK, childVars, Results, Errors, OK
<1>4. OneRunner'
  BY <1>1 DEF OneRunner, TypeOK, Ahead, Entered
<1>5. BodyEnd'
  BY <1>1 DEF BodyEnd, TypeOK
<1>6. RetFacts'
  BY <1>1, <1>2 DEF RetFacts, TypeOK, None
<1>7. ChildFacts'
  BY <1>1, <1>2, ChildrenKept
<1> QED BY <1>2, <1>3, <1>4, <1>5, <1>6, <1>7

(* The deferred settlePanic settles the task, but not for a panic with a   *)
(* nil of some type, and this Run alone returns the zero Result.           *)
LEMMA RecoverInv == ASSUME IInv, NEW r \in Runners, Recover(r) PROVE IInv'
<1> USE DEF IInv
<1>1. /\ UNCHANGED <<engine, started, ended, runs, childVars>>
      /\ pc[r] = "recover"
      /\ \/ ended = "panic" /\ SettleTask("panic")
         \/ ended = "nil panic" /\ UNCHANGED <<task, cause>>
      /\ pc' = [pc EXCEPT ![r] = "done"]
      /\ ret' = [ret EXCEPT ![r] = Zero]
  BY DEF Recover, Go
<1>2. /\ task' \in {None, "ok", "body error", "panic", "user", "base"}
      /\ task' = None => ended = "nil panic"
      /\ task # None => task' = task
      /\ cause' \in [{"base", "task"} -> Errors \cup {Live}]
      /\ TaskDone => TaskDone'
      /\ ContextFacts' /\ TaskFacts'
  <2>1. CASE ended = "panic" /\ SettleTask("panic")
    BY <1>1, <2>1, SettleTaskEffect DEF None
  <2>2. CASE ended = "nil panic" /\ UNCHANGED <<task, cause>>
    BY <1>1, <2>2 DEF TypeOK, ContextFacts, TaskFacts, TaskDone
  <2> QED BY <1>1, <2>1, <2>2
<1>3. TypeOK'
  BY <1>1, <1>2 DEF TypeOK, childVars, Results, Errors, OK
<1>4. OneRunner'
  BY <1>1 DEF OneRunner, TypeOK, Ahead, Entered
<1>5. BodyEnd'
  BY <1>1 DEF BodyEnd, TypeOK
<1>6. RetFacts'
  BY <1>1, <1>2 DEF RetFacts, TypeOK, None, Zero
<1>7. ChildFacts'
  BY <1>1, <1>2, ChildrenKept
<1> QED BY <1>2, <1>3, <1>4, <1>5, <1>6, <1>7

(* Await returns the one result, which it records itself when the context  *)
(* ended before anybody settled.                                           *)
LEMMA AwaitInv == ASSUME IInv, NEW r \in Runners, Await(r) PROVE IInv'
<1> USE DEF IInv
<1>1. /\ UNCHANGED <<engine, started, ended, runs, childVars>>
      /\ pc[r] = "await" /\ TaskDone /\ SettleTask(cause["task"])
      /\ pc' = [pc EXCEPT ![r] = "done"]
      /\ ret' = [ret EXCEPT ![r] = task']
  BY DEF Await, Go
<1>2. /\ task' \in {"ok", "body error", "panic", "user", "base"}
      /\ task # None => task' = task
      /\ cause' \in [{"base", "task"} -> Errors \cup {Live}]
      /\ TaskDone'
      /\ ContextFacts' /\ TaskFacts'
  <2>1. CASE task = None
    <3>1. cause["task"] = "base"
      BY <1>1, <2>1 DEF ContextFacts, TaskDone
    <3> QED BY <1>1, <2>1, <3>1, SettleTaskEffect
  <2>2. CASE task # None
    <3>1. task' = task /\ cause' = cause
      BY <1>1, <2>2 DEF SettleTask
    <3> QED BY <1>1, <2>2, <3>1 DEF TypeOK, TaskDone, ContextFacts, TaskFacts, None
  <2> QED BY <2>1, <2>2
<1>3. TypeOK'
  BY <1>1, <1>2 DEF TypeOK, childVars, Results, Errors, OK
<1>4. OneRunner'
  BY <1>1 DEF OneRunner, TypeOK, Ahead, Entered
<1>5. BodyEnd'
  BY <1>1 DEF BodyEnd, TypeOK
<1>6. RetFacts'
  BY <1>1, <1>2 DEF RetFacts, TypeOK, None
<1>7. ChildFacts'
  BY <1>1, <1>2, ChildrenKept
<1> QED BY <1>2, <1>3, <1>4, <1>5, <1>6, <1>7

(* Task.Cancel settles the task for its user.                              *)
LEMMA CancelInv == ASSUME IInv, Cancel PROVE IInv'
<1> USE DEF IInv
<1>1. UNCHANGED <<engine, started, pc, ret, ended, runs, childVars>> /\ SettleTask("user")
  BY DEF Cancel
<1>2. /\ task' \in {"ok", "body error", "panic", "user", "base"}
      /\ task # None => task' = task
      /\ cause' \in [{"base", "task"} -> Errors \cup {Live}]
      /\ TaskDone => TaskDone'
      /\ ContextFacts' /\ TaskFacts'
  BY <1>1, SettleTaskEffect
<1>3. TypeOK'
  BY <1>1, <1>2 DEF TypeOK, childVars, Results, Errors, OK
<1>4. OneRunner' /\ BodyEnd'
  BY <1>1 DEF OneRunner, BodyEnd, Ahead, Entered
<1>5. RetFacts'
  BY <1>1, <1>2 DEF RetFacts, None
<1>6. ChildFacts'
  BY <1>1, <1>2, ChildrenKept
<1> QED BY <1>2, <1>3, <1>4, <1>5, <1>6
-----------------------------------------------------------------------------
(* Children.  A child's step leaves the task alone, and other children.    *)

(* What is known of the task holds after a step that leaves it alone.      *)
LEMMA TaskKept ==
  ASSUME IInv, UNCHANGED <<engine, taskVars>>
  PROVE  OneRunner' /\ BodyEnd' /\ ContextFacts' /\ TaskFacts' /\ RetFacts'
BY DEF IInv, taskVars, OneRunner, BodyEnd, ContextFacts, TaskFacts, RetFacts, Ahead, Entered,
   TaskDone

(* No other child changes. *)
OnlyChild(c) ==
  \A d \in Children \ {c} :
    /\ fn'[d] = fn[d] /\ anyCause'[d] = anyCause[d] /\ any'[d] = any[d]
    /\ futCause'[d] = futCause[d] /\ fut'[d] = fut[d] /\ bridge'[d] = bridge[d]

(* What is known of all children holds when it does of the one that moved. *)
LEMMA OneChild ==
  ASSUME ChildFacts, UNCHANGED <<engine, taskVars>>, NEW c \in Children, OnlyChild(c),
         ChildFactsOf(c)'
  PROVE  ChildFacts'
<1>1. \A x : FromAbove(x)' <=> FromAbove(x)
  BY DEF FromAbove, TaskDone, taskVars
<1>2. ASSUME NEW d \in Children PROVE ChildFactsOf(d)'
  <2>1. CASE d = c
    BY <2>1
  <2>2. CASE d # c
    BY <1>1, <2>2 DEF OnlyChild, ChildFacts, ChildFactsOf
  <2> QED BY <2>1, <2>2
<1> QED BY <1>2 DEF ChildFacts

(* A context above a child that has ended. *)
LEMMA AboveEnded ==
  ASSUME IInv
  PROVE  /\ cause[EngineCtx] \in Errors \cup {Live}
         /\ cause[EngineCtx] # Live => FromAbove(cause[EngineCtx])
         /\ cause["task"] \in Errors \cup {Live}
         /\ TaskDone => FromAbove(cause["task"])
BY DEF IInv, TypeOK, ContextFacts, EngineCtx, FromAbove, TaskDone

(* What ended a context from above is an error, and not a child's own.     *)
LEMMA AboveTypes ==
  ASSUME NEW x, FromAbove(x)
  PROVE  x \in Errors /\ x \in Results /\ x \notin {None, Live, OK, "fn error", "fn panic"}
BY DEF FromAbove, TaskCauses, Errors, Results, None, Live, OK

(* Where a bridge can be. *)
Bridging == {None, "inline", "finishing", "waiting", "carrying", "done"}

(* The types of a child's variables after a step. *)
ChildTypes ==
  /\ fn \in [Children -> {None, "running", "done"}]
  /\ anyCause \in [Children -> Errors \cup {Live}]
  /\ any \in [Children -> Results \cup {None}]
  /\ futCause \in [Children -> Errors \cup {Live}]
  /\ fut \in [Children -> Results \cup {None}]
  /\ bridge \in [Children -> Bridging]

(* A child's step keeps the invariant when it keeps what concerns it.      *)
LEMMA ChildStepKeeps ==
  ASSUME IInv, UNCHANGED <<engine, taskVars>>, NEW c \in Children, OnlyChild(c),
         ChildTypes', ChildFactsOf(c)'
  PROVE  IInv'
<1>1. TypeOK'
  BY DEF IInv, TypeOK, taskVars, ChildTypes, Bridging
<1>2. ChildFacts'
  BY OneChild DEF IInv
<1> QED BY <1>1, <1>2, TaskKept DEF IInv

(* The end of the engine's context reaches the engine's future of a child. *)
LEMMA EngineReachesChildInv == ASSUME IInv, NEW c \in Children, EngineReachesChild(c) PROVE IInv'
<1>1. /\ UNCHANGED <<engine, taskVars, fn, any, futCause, fut, bridge>>
      /\ fn[c] # None /\ cause[EngineCtx] # Live
      /\ anyCause' = [anyCause EXCEPT ![c] = cause[EngineCtx]]
  BY DEF EngineReachesChild
<1>2. ChildTypes'
  BY <1>1, AboveEnded DEF IInv, TypeOK, ChildTypes, Bridging
<1>3. anyCause'[c] = cause[EngineCtx] /\ OnlyChild(c)
  BY <1>1 DEF IInv, TypeOK, OnlyChild
<1>4. \A x : FromAbove(x) => FromAbove(x)'
  BY <1>1 DEF FromAbove, TaskDone, taskVars
<1>5. ChildFactsOf(c)'
  BY <1>1, <1>3, <1>4, AboveEnded DEF IInv, ChildFacts, ChildFactsOf
<1> QED BY <1>1, <1>2, <1>3, <1>5, ChildStepKeeps

(* The end of the task's context reaches the future that the body holds.   *)
LEMMA TaskReachesChildInv == ASSUME IInv, NEW c \in Children, TaskReachesChild(c) PROVE IInv'
<1>1. /\ UNCHANGED <<engine, taskVars, fn, any, anyCause, fut, bridge>>
      /\ fn[c] # None /\ TaskDone
      /\ futCause' = [futCause EXCEPT ![c] = cause["task"]]
  BY DEF TaskReachesChild
<1>2. ChildTypes'
  BY <1>1, AboveEnded DEF IInv, TypeOK, ChildTypes, Bridging
<1>3. futCause'[c] = cause["task"] /\ OnlyChild(c)
  BY <1>1 DEF IInv, TypeOK, OnlyChild
<1>4. \A x : FromAbove(x) => FromAbove(x)'
  BY <1>1 DEF FromAbove, TaskDone, taskVars
<1>5. ChildFactsOf(c)'
  BY <1>1, <1>3, <1>4, AboveEnded DEF IInv, ChildFacts, ChildFactsOf, TaskDone
<1> QED BY <1>1, <1>2, <1>3, <1>5, ChildStepKeeps

(* A spawned child starts with the ends of the contexts above it.          *)
LEMMA SpawnInv == ASSUME IInv, NEW r \in Runners, NEW c \in Children, Spawn(r, c) PROVE IInv'
<1> DEFINE b == IF cause[EngineCtx] = Live THEN "waiting" ELSE "inline"
<1>1. /\ UNCHANGED <<engine, taskVars, any, fut>>
      /\ fn[c] = None
      /\ fn' = [fn EXCEPT ![c] = "running"]
      /\ anyCause' = [anyCause EXCEPT ![c] = cause[EngineCtx]]
      /\ futCause' = [futCause EXCEPT ![c] = cause["task"]]
      /\ bridge' = [bridge EXCEPT ![c] = b]
  BY DEF Spawn
<1>2. \A x : FromAbove(x) => FromAbove(x)'
  BY <1>1 DEF FromAbove, TaskDone, taskVars
<1>3. b \in {"waiting", "inline"}
  OBVIOUS
<1> HIDE DEF b
<1>4. ChildTypes'
  BY <1>1, <1>3, AboveEnded DEF IInv, TypeOK, ChildTypes, Bridging
<1>5. OnlyChild(c)
  BY <1>1 DEF IInv, TypeOK, OnlyChild
<1>6. /\ fn'[c] = "running" /\ anyCause'[c] = cause[EngineCtx] /\ any'[c] = None
      /\ futCause'[c] = cause["task"] /\ fut'[c] = None /\ bridge'[c] = b
  BY <1>1 DEF IInv, TypeOK, ChildFacts, ChildFactsOf
<1>7. ChildFactsOf(c)'
  BY <1>2, <1>3, <1>6, AboveEnded DEF ChildFactsOf, TaskDone, None
<1> QED BY <1>1, <1>4, <1>5, <1>7, ChildStepKeeps

-----------------------------------------------------------------------------
(* The types of a child's futures and of their contexts.                   *)
LEMMA FutureTypes ==
  ASSUME IInv
  PROVE  /\ any \in [Children -> Results \cup {None}] /\ fut \in [Children -> Results \cup {None}]
         /\ anyCause \in [Children -> Errors \cup {Live}]
         /\ futCause \in [Children -> Errors \cup {Live}]
BY DEF IInv, TypeOK

(* A future that is settled keeps its result (settle in future.go).        *)
LEMMA SettleEffect ==
  ASSUME NEW res \in [Children -> Results \cup {None}],
         NEW c \in Children, NEW r \in Results \ {Zero}
  PROVE  /\ Settle(res, c, r) \in [Children -> Results \cup {None}]
         /\ Settle(res, c, r)[c] = IF res[c] = None THEN r ELSE res[c]
         /\ \A d \in Children \ {c} : Settle(res, c, r)[d] = res[d]
BY DEF Settle

(* The context of a settled future has ended, with the first cause given.  *)
LEMMA EndByEffect ==
  ASSUME NEW res \in [Children -> Results \cup {None}],
         NEW ctx \in [Children -> Errors \cup {Live}],
         NEW c \in Children, NEW r \in Results \ {Zero}
  PROVE  /\ EndBy(ctx, res, c, r) \in [Children -> Errors \cup {Live}]
         /\ EndBy(ctx, res, c, r)[c] # Live \/ res[c] # None
         /\ res[c] # None \/ ctx[c] # Live => EndBy(ctx, res, c, r)[c] = ctx[c]
         /\ \A d \in Children \ {c} : EndBy(ctx, res, c, r)[d] = ctx[d]
<1>1. CauseOf(r) \in Errors /\ CauseOf(r) # Live
  BY DEF CauseOf, Errors, Results, Live, OK, Zero
<1>2. CASE res[c] = None /\ ctx[c] = Live
  BY <1>1, <1>2 DEF EndBy
<1>3. CASE ~ (res[c] = None /\ ctx[c] = Live)
  BY <1>3 DEF EndBy
<1> QED BY <1>2, <1>3

(* The function of a child settles the engine's future, or leaves it.      *)
LEMMA FnEndsInv == ASSUME IInv, NEW c \in Children, FnEnds(c) PROVE IInv'
<1>1. /\ UNCHANGED <<engine, taskVars, futCause, fut, bridge>>
      /\ fn[c] = "running"
      /\ fn' = [fn EXCEPT ![c] = "done"]
  BY DEF FnEnds
<1>2. \A x : FromAbove(x) => FromAbove(x)'
  BY <1>1 DEF FromAbove, TaskDone, taskVars
<1>3. fn'[c] = "done" /\ fn' \in [Children -> {None, "running", "done"}]
  BY <1>1 DEF IInv, TypeOK
<1>4. ChildFactsOf(c)
  BY DEF IInv, ChildFacts
<1>5. CASE UNCHANGED <<any, anyCause>>
  <2>1. ChildTypes' /\ OnlyChild(c)
    BY <1>1, <1>3, <1>5 DEF IInv, TypeOK, ChildTypes, Bridging, OnlyChild
  <2>2. ChildFactsOf(c)'
    BY <1>1, <1>2, <1>3, <1>4, <1>5 DEF ChildFactsOf, None
  <2> QED BY <1>1, <2>1, <2>2, ChildStepKeeps
<1>6. ASSUME NEW r \in Results \ {Zero}, r \in {OK, "fn error", "fn panic"},
             any' = Settle(any, c, r), anyCause' = EndBy(anyCause, any, c, r)
      PROVE  IInv'
  <2>1. r # None
    BY <1>6 DEF OK, None
  <2>2. /\ any' \in [Children -> Results \cup {None}]
        /\ any'[c] = IF any[c] = None THEN r ELSE any[c]
        /\ anyCause' \in [Children -> Errors \cup {Live}]
        /\ any[c] # None => anyCause'[c] = anyCause[c]
        /\ \A d \in Children \ {c} : any'[d] = any[d] /\ anyCause'[d] = anyCause[d]
    <3>1. any' = Settle(any, c, r) /\ anyCause' = EndBy(anyCause, any, c, r)
      BY <1>6
    <3>2. /\ any \in [Children -> Results \cup {None}]
          /\ anyCause \in [Children -> Errors \cup {Live}]
      BY FutureTypes
    <3>3. /\ any' \in [Children -> Results \cup {None}]
          /\ any'[c] = IF any[c] = None THEN r ELSE any[c]
          /\ \A d \in Children \ {c} : any'[d] = any[d]
      BY <3>1, <3>2, SettleEffect
    <3>4. /\ anyCause' \in [Children -> Errors \cup {Live}]
          /\ any[c] # None => anyCause'[c] = anyCause[c]
          /\ \A d \in Children \ {c} : anyCause'[d] = anyCause[d]
      BY <3>1, <3>2, EndByEffect
    <3> QED BY <3>3, <3>4
  <2>3. ChildTypes' /\ OnlyChild(c)
    BY <1>1, <1>3, <2>2 DEF IInv, TypeOK, ChildTypes, Bridging, OnlyChild
  <2>4. CASE any[c] = None
    <3>1. fut[c] \in {None, "mismatch"} \/ FromAbove(fut[c])
      BY <1>4, <2>4 DEF ChildFactsOf
    <3>2. ChildFactsOf(c)'
      BY <1>1, <1>2, <1>3, <1>4, <1>6, <2>1, <2>2, <2>4, <3>1 DEF ChildFactsOf, None
    <3> QED BY <1>1, <2>3, <3>2, ChildStepKeeps
  <2>5. CASE any[c] # None
    <3>1. ChildFactsOf(c)'
      BY <1>1, <1>2, <1>3, <1>4, <2>2, <2>5 DEF ChildFactsOf, None
    <3> QED BY <1>1, <2>3, <3>1, ChildStepKeeps
  <2> QED BY <2>4, <2>5
<1>7. {OK, "fn error", "fn panic"} \subseteq Results \ {Zero}
  BY DEF Results, Errors, OK, Zero
<1> QED BY <1>5, <1>6, <1>7 DEF FnEnds

(* The bridge awaits the engine's future: the cause of its context is its  *)
(* result when nobody settled it.                                          *)
LEMMA BridgeWakesInv == ASSUME IInv, NEW c \in Children, BridgeWakes(c) PROVE IInv'
<1>1. /\ UNCHANGED <<engine, taskVars, fn, anyCause, futCause, fut>>
      /\ bridge[c] \in {"inline", "waiting"} /\ anyCause[c] # Live
      /\ any' = Settle(any, c, anyCause[c])
      /\ bridge' = [bridge EXCEPT ![c] = IF @ = "inline" THEN "finishing" ELSE "carrying"]
  BY DEF BridgeWakes
<1>2. \A x : FromAbove(x) => FromAbove(x)'
  BY <1>1 DEF FromAbove, TaskDone, taskVars
<1>3. bridge'[c] \in {"finishing", "carrying"} /\ bridge' \in [Children -> Bridging]
  BY <1>1 DEF IInv, TypeOK, Bridging
<1>4. ChildFactsOf(c) /\ fn[c] # None
  BY <1>1 DEF IInv, ChildFacts, ChildFactsOf, None
<1>5. anyCause[c] \in Results \ {Zero} /\ anyCause[c] # None
  BY <1>1 DEF IInv, TypeOK, Results, Errors, Zero, None
<1>6. /\ any' \in [Children -> Results \cup {None}]
      /\ any'[c] = IF any[c] = None THEN anyCause[c] ELSE any[c]
      /\ \A d \in Children \ {c} : any'[d] = any[d]
  BY <1>1, <1>5, FutureTypes, SettleEffect
<1>7. ChildTypes' /\ OnlyChild(c)
  BY <1>1, <1>3, <1>6 DEF IInv, TypeOK, ChildTypes, Bridging, OnlyChild
<1>8. CASE any[c] = None
  <2>1. FromAbove(anyCause[c]) /\ (fut[c] \in {None, "mismatch"} \/ FromAbove(fut[c]))
    BY <1>1, <1>4, <1>8 DEF ChildFactsOf
  <2>2. ChildFactsOf(c)'
    BY <1>1, <1>2, <1>3, <1>4, <1>5, <1>6, <1>8, <2>1 DEF ChildFactsOf
  <2> QED BY <1>1, <1>7, <2>2, ChildStepKeeps
<1>9. CASE any[c] # None
  <2>1. ChildFactsOf(c)'
    BY <1>1, <1>2, <1>3, <1>4, <1>6, <1>9 DEF ChildFactsOf
  <2> QED BY <1>1, <1>7, <2>1, ChildStepKeeps
<1> QED BY <1>8, <1>9

(* The bridge settles the body's future with what the engine's holds.      *)
LEMMA CarryInv == ASSUME IInv, NEW c \in Children, Carry(c) PROVE IInv'
<1>1. /\ UNCHANGED <<engine, taskVars, fn, anyCause, any>>
      /\ bridge[c] \in {"finishing", "carrying"}
      /\ bridge' = [bridge EXCEPT ![c] = "done"]
  BY DEF Carry
<1>2. \A x : FromAbove(x) => FromAbove(x)'
  BY <1>1 DEF FromAbove, TaskDone, taskVars
<1>3. bridge'[c] = "done" /\ bridge' \in [Children -> Bridging]
  BY <1>1 DEF IInv, TypeOK, Bridging
<1>4. ChildFactsOf(c) /\ fn[c] # None /\ any[c] # None
  BY <1>1 DEF IInv, ChildFacts, ChildFactsOf, None
<1>5. PICK r \in IF any[c] = OK THEN {OK, "mismatch"} ELSE {any[c]} :
        fut' = Settle(fut, c, r) /\ futCause' = EndBy(futCause, fut, c, r)
  BY DEF Carry
<1>6. r \in Results \ {Zero} /\ r # None /\ (r = any[c] \/ r = "mismatch")
  <2>1. any[c] \in {OK, "fn error", "fn panic"} \/ FromAbove(any[c])
    BY <1>4 DEF ChildFactsOf
  <2>2. any[c] \in Results \ {Zero}
    BY <2>1 DEF Results, Errors, FromAbove, TaskCauses, OK, Zero
  <2>3. "mismatch" \in Results \ {Zero} /\ "mismatch" # None
    BY DEF Results, Errors, Zero, None
  <2> QED BY <1>4, <1>5, <2>2, <2>3
<1>7. /\ fut' \in [Children -> Results \cup {None}]
      /\ fut'[c] = IF fut[c] = None THEN r ELSE fut[c]
      /\ futCause' \in [Children -> Errors \cup {Live}]
      /\ futCause'[c] # Live \/ fut[c] # None
      /\ fut[c] # None \/ futCause[c] # Live => futCause'[c] = futCause[c]
      /\ \A d \in Children \ {c} : fut'[d] = fut[d] /\ futCause'[d] = futCause[d]
  <2>1. /\ fut' \in [Children -> Results \cup {None}]
        /\ fut'[c] = IF fut[c] = None THEN r ELSE fut[c]
        /\ \A d \in Children \ {c} : fut'[d] = fut[d]
    BY <1>5, <1>6, FutureTypes, SettleEffect
  <2>2. /\ futCause' \in [Children -> Errors \cup {Live}]
        /\ futCause'[c] # Live \/ fut[c] # None
        /\ fut[c] # None \/ futCause[c] # Live => futCause'[c] = futCause[c]
        /\ \A d \in Children \ {c} : futCause'[d] = futCause[d]
    <3>1. r \in Results \ {Zero} /\ futCause' = EndBy(futCause, fut, c, r)
      BY <1>5, <1>6
    <3>2. /\ EndBy(futCause, fut, c, r) \in [Children -> Errors \cup {Live}]
          /\ EndBy(futCause, fut, c, r)[c] # Live \/ fut[c] # None
          /\ fut[c] # None \/ futCause[c] # Live => EndBy(futCause, fut, c, r)[c] = futCause[c]
      BY <3>1, FutureTypes, EndByEffect
    <3>3. \A d \in Children \ {c} : EndBy(futCause, fut, c, r)[d] = futCause[d]
      BY <3>1, FutureTypes, EndByEffect
    <3> QED BY <3>1, <3>2, <3>3
  <2> QED BY <2>1, <2>2
<1>8. ChildTypes' /\ OnlyChild(c)
  BY <1>1, <1>3, <1>7 DEF IInv, TypeOK, ChildTypes, Bridging, OnlyChild
<1>9. ChildFactsOf(c)'
  <2>1. CASE fut[c] = None
    BY <1>1, <1>2, <1>3, <1>4, <1>6, <1>7, <2>1 DEF ChildFactsOf
  <2>2. CASE fut[c] # None
    BY <1>1, <1>2, <1>3, <1>4, <1>7, <2>2 DEF ChildFactsOf
  <2> QED BY <2>1, <2>2
<1> QED BY <1>1, <1>8, <1>9, ChildStepKeeps

(* Whoever awaits the body's future records its context's cause, unless it *)
(* was settled.                                                            *)
LEMMA AwaitChildInv == ASSUME IInv, NEW c \in Children, AwaitChild(c) PROVE IInv'
<1>1. /\ UNCHANGED <<engine, taskVars, fn, anyCause, any, futCause, bridge>>
      /\ futCause[c] # Live /\ fut[c] = None
      /\ fut' = Settle(fut, c, futCause[c])
  BY DEF AwaitChild
<1>2. \A x : FromAbove(x) => FromAbove(x)'
  BY <1>1 DEF FromAbove, TaskDone, taskVars
<1>3. ChildFactsOf(c) /\ fn[c] # None /\ FromAbove(futCause[c])
  BY <1>1 DEF IInv, ChildFacts, ChildFactsOf
<1>4. futCause[c] \in Results \ {Zero} /\ futCause[c] # None
  BY <1>3, AboveTypes DEF FromAbove, TaskCauses, Zero, None
<1>5. /\ fut' \in [Children -> Results \cup {None}]
      /\ fut'[c] = futCause[c]
      /\ \A d \in Children \ {c} : fut'[d] = fut[d]
  BY <1>1, <1>4, FutureTypes, SettleEffect
<1>6. ChildTypes' /\ OnlyChild(c)
  BY <1>1, <1>5 DEF IInv, TypeOK, ChildTypes, Bridging, OnlyChild
<1>7. ChildFactsOf(c)'
  BY <1>1, <1>2, <1>3, <1>4, <1>5 DEF ChildFactsOf
<1> QED BY <1>1, <1>6, <1>7, ChildStepKeeps

-----------------------------------------------------------------------------
(* The invariant is inductive. *)
LEMMA NextInv == IInv /\ [Next]_vars => IInv'
<1> SUFFICES ASSUME IInv, [Next]_vars PROVE IInv'
  OBVIOUS
<1>1. CASE UNCHANGED vars
  <2>1. UNCHANGED <<engine, taskVars>> /\ UNCHANGED childVars
    BY <1>1 DEF vars
  <2>2. TypeOK'
    BY <2>1 DEF IInv, TypeOK, taskVars, childVars
  <2>3. ChildFacts'
    BY <2>1, ChildrenKept DEF IInv, taskVars, TaskDone
  <2> QED BY <2>1, <2>2, <2>3, TaskKept DEF IInv
<1>2. ASSUME NEW r \in Runners,
             \/ CompareAndSwap(r) \/ RunStep(r) \/ BodyEnds(r)
             \/ \E c \in Children : Spawn(r, c)
      PROVE  IInv'
  BY <1>2, CompareAndSwapInv, CheckInv, BodyEndsInv, FoldInv, RecoverInv, AwaitInv, SpawnInv
     DEF RunStep
<1>3. ASSUME NEW c \in Children, ChildStep(c) \/ FnEnds(c) \/ AwaitChild(c)
      PROVE  IInv'
  BY <1>3, EngineReachesChildInv, TaskReachesChildInv, BridgeWakesInv, CarryInv, FnEndsInv,
     AwaitChildInv DEF ChildStep
<1>4. CASE BaseEnds \/ BaseReachesTask \/ Cancel
  BY <1>4, BaseInv, CancelInv
<1> QED BY <1>1, <1>2, <1>3, <1>4 DEF Next

(* Every reachable state satisfies the inductive invariant.                *)
THEOREM Invariance == Spec => []IInv
BY InitInv, NextInv, PTL DEF Spec

(* Every variable of a task and of its children keeps to its type.         *)
THEOREM TypeCorrect == Spec => []TypeOK
<1>1. IInv => TypeOK
  BY DEF IInv
<1> QED BY <1>1, Invariance, PTL

(* However many goroutines call Run, one of them enters the body, once,    *)
(* and all return its result, but for the one whose body panicked          *)
(* (coroutine.go: CompareAndSwap in Run, settlePanic).                     *)
THEOREM BodyRunsOnce == Spec => []RunsOnceForAll
<1>1. IInv => RunsOnceForAll
  <2> SUFFICES ASSUME IInv PROVE RunsOnceForAll
    OBVIOUS
  <2>1. /\ runs <= 1
        /\ \A q, r \in Runners : pc[q] \in {"body", "fold", "recover", "gone"}
             /\ pc[r] \in {"check", "body", "fold", "recover", "gone"} => q = r
    BY DEF IInv, OneRunner, Ahead, Entered
  <2>2. \A r \in Runners : ret[r] # None =>
          ret[r] = task \/ (ret[r] = Zero /\ ended \in {"panic", "nil panic"})
    BY DEF IInv, RetFacts
  <2> QED BY <2>1, <2>2 DEF RunsOnceForAll
<1> QED BY <1>1, Invariance, PTL

(* The result of a task is the outcome of its body, or a cancellation that *)
(* came before it.  Once the Run has returned, a panic with a value is the *)
(* result unless the task was cancelled before; after a panic with a nil   *)
(* of some type, which settlePanic loses, only a cancellation can be.      *)
THEOREM TaskHasOutcomeOfBody == Spec => []OutcomeIsBodys
<1>1. IInv => OutcomeIsBodys
  BY DEF IInv, ContextFacts, TaskFacts, RetFacts, OutcomeIsBodys, Live, None, OK
<1> QED BY <1>1, Invariance, PTL

(* What the body's future of a child holds was carried over from the       *)
(* engine's future, or is the end of the task or of its engine.            *)
THEOREM ChildHasResultOfFn == Spec => []ChildResultIsFns
<1>1. IInv => ChildResultIsFns
  BY DEF IInv, ChildFacts, ChildFactsOf, FromAbove, TaskCauses, ChildResultIsFns, None, OK
<1> QED BY <1>1, Invariance, PTL

-----------------------------------------------------------------------------
(* The engine that several tasks share. *)

(* A nonempty set of naturals has a least element.                         *)
LEMMA Least ==
  ASSUME NEW S \in SUBSET Nat, S # {}
  PROVE  \E m \in S : \A x \in S : m <= x
<1>1. PICK m \in S : \A x \in S : ~ (<<x, m>> \in OpToRel(<, Nat))
  BY NatLessThanWellFounded, WFMin
<1>2. \A x \in S : ~ (x < m)
  BY <1>1, Zenon DEF OpToRel
<1> QED BY <1>2

AllHandlers == UNION {HandlersOf(t) : t \in Tasks}
Answers == Tasks \cup {None, "no handler", "type mismatch", "panic"}
Handled(list, c) == \E i \in DOMAIN list : TheEngine!Takes(list[i], c)

(* slices.IndexFunc finds the first handler that takes the call.           *)
LEMMA FirstTakes ==
  ASSUME NEW list \in Seq(AllHandlers), NEW c, Handled(list, c)
  PROVE  /\ TheEngine!First(list, c) \in DOMAIN list
         /\ TheEngine!Takes(list[TheEngine!First(list, c)], c)
         /\ \A j \in 1..(TheEngine!First(list, c) - 1) : ~ TheEngine!Takes(list[j], c)
<1> DEFINE S == {i \in DOMAIN list : TheEngine!Takes(list[i], c)}
<1>1. DOMAIN list = 1..Len(list) /\ Len(list) \in Nat
  BY LenProperties
<1>2. S \in SUBSET Nat /\ S # {}
  BY <1>1 DEF Handled
<1>3. PICK m \in S : \A i \in S : m <= i
  BY <1>2, Least
<1>4. \A j \in 1..(m - 1) : ~ TheEngine!Takes(list[j], c)
  BY <1>1, <1>3
<1> QED BY <1>3, <1>4 DEF TheEngine!First

(* Handlers that come after others answer nothing the others take.         *)
LEMMA FirstStays ==
  ASSUME NEW list \in Seq(AllHandlers), NEW more \in Seq(AllHandlers), NEW c, Handled(list, c)
  PROVE  TheEngine!Offer(list \o more, c) = TheEngine!Offer(list, c)
<1> DEFINE f == TheEngine!First(list, c)
           g == TheEngine!First(list \o more, c)
<1>1. /\ list \o more \in Seq(AllHandlers)
      /\ DOMAIN list = 1..Len(list) /\ Len(list) \in Nat /\ Len(more) \in Nat
      /\ DOMAIN (list \o more) = 1..(Len(list) + Len(more))
      /\ \A i \in 1..Len(list) : (list \o more)[i] = list[i]
  BY LenProperties, ConcatProperties
<1>2. Handled(list \o more, c)
  BY <1>1 DEF Handled
<1>3. f \in DOMAIN list /\ TheEngine!Takes(list[f], c)
      /\ \A j \in 1..(f - 1) : ~ TheEngine!Takes(list[j], c)
  BY FirstTakes
<1>4. g \in DOMAIN (list \o more) /\ TheEngine!Takes((list \o more)[g], c)
      /\ \A j \in 1..(g - 1) : ~ TheEngine!Takes((list \o more)[j], c)
  BY <1>1, <1>2, FirstTakes
<1>5. f = g
  <2> HIDE DEF f, g
  <2> QED BY <1>1, <1>3, <1>4
<1> QED BY <1>1, <1>2, <1>3, <1>5 DEF TheEngine!Offer, Handled

(* What the list answers: the owner of a handler that takes the call, or   *)
(* why nobody does.                                                        *)
LEMMA OfferOf ==
  ASSUME NEW list \in Seq(AllHandlers), NEW c
  PROVE  /\ TheEngine!Offer(list, c) \in Tasks \cup {"no handler", "type mismatch"}
         /\ TheEngine!Offer(list, c) = "no handler" <=> ~ Handled(list, c)
         /\ TheEngine!Offer(list, c) \in Tasks =>
              \E i \in DOMAIN list : list[i].op = c.op /\ list[i].owner = TheEngine!Offer(list, c)
<1>1. \A i \in DOMAIN list : list[i].owner \in Tasks
  <2>1. \A h \in AllHandlers : h.owner \in Tasks
    <3>1. \A t \in Tasks : \A h \in HandlersOf(t) : h.owner = t
      BY EngineAssumption
    <3>2. \A h \in AllHandlers : \E t \in Tasks : h \in HandlersOf(t)
      BY DEF AllHandlers
    <3> QED BY <3>1, <3>2
  <2> QED BY <2>1, LenProperties, ElementOfSeq
<1>2. CASE Handled(list, c)
  BY <1>1, <1>2, FirstTakes, EngineAssumption DEF TheEngine!Offer, Handled, TheEngine!Takes
<1>3. CASE ~ Handled(list, c)
  BY <1>3, EngineAssumption DEF TheEngine!Offer, Handled
<1> QED BY <1>2, <1>3

(* A list of handlers of these tasks.                                      *)
HandlersOfThe(tasks, list) ==
  /\ list \in Seq(AllHandlers)
  /\ \A i \in DOMAIN list : \E t \in tasks : list[i] \in HandlersOf(t)

EngineTypes ==
  /\ HandlersOfThe(packaged, handlers)
  /\ packaged \subseteq Tasks
  /\ DOMAIN packaging \subseteq Tasks \ packaged
  /\ \A t \in DOMAIN packaging : HandlersOfThe(packaged, packaging[t]) /\ OnCall(t) # <<>>
  /\ answer \in [Requests -> Answers]
  /\ raced \in BOOLEAN

(* Packaged one at a time, the tasks' handlers are all in the list, and    *)
(* nobody writes back a list that has grown since.                         *)
OneAtATime ==
  ~ raced =>
    /\ \A t, u \in DOMAIN packaging : t = u
    /\ \A t \in DOMAIN packaging : packaging[t] = handlers
    /\ \A t \in packaged : \A h \in HandlersOf(t) : \E i \in DOMAIN handlers : handlers[i] = h
    /\ \A c \in Requests : answer[c] # None => c.task \in packaged

EngineInv == EngineTypes /\ OneAtATime /\ EngineFirstHandlerAnswers

(* A list of handlers of some tasks is one of more tasks, and stays one    *)
(* when the handlers of one of those are appended.                         *)
LEMMA ListGrows ==
  ASSUME NEW few, NEW more, few \subseteq more, NEW list, HandlersOfThe(few, list),
         NEW t \in Tasks, t \in more
  PROVE  /\ HandlersOfThe(more, list)
         /\ HandlersOfThe(more, list \o OnCall(t))
         /\ OnCall(t) \in Seq(AllHandlers)
<1>1. OnCall(t) \in Seq(HandlersOf(t))
  BY EngineAssumption
<1>2. HandlersOf(t) \subseteq AllHandlers
  BY DEF AllHandlers
<1>3. OnCall(t) \in Seq(AllHandlers)
  BY <1>1, <1>2, SeqMonotonic
<1>4. list \in Seq(AllHandlers) /\ \A i \in DOMAIN list : \E u \in more : list[i] \in HandlersOf(u)
  BY DEF HandlersOfThe
<1>5. \A i \in DOMAIN OnCall(t) : OnCall(t)[i] \in HandlersOf(t)
  BY DEF HandlersOf
<1>6. \A i \in DOMAIN (list \o OnCall(t)) :
        \E u \in more : (list \o OnCall(t))[i] \in HandlersOf(u)
  <2> HIDE DEF HandlersOf
  <2> QED BY <1>3, <1>4, <1>5, LenProperties, ConcatProperties
<1>7. list \o OnCall(t) \in Seq(AllHandlers)
  BY <1>3, <1>4, ConcatProperties
<1> QED BY <1>3, <1>4, <1>6, <1>7 DEF HandlersOfThe

(* An engine starts without handlers, and nobody has called.               *)
LEMMA EngineInit == TheEngine!Init => EngineInv
<1> SUFFICES ASSUME TheEngine!Init PROVE EngineInv
  OBVIOUS
<1>1. HandlersOfThe(packaged, handlers)
  BY EmptySeq DEF TheEngine!Init, HandlersOfThe
<1>2. DOMAIN packaging = {} /\ answer = [c \in Requests |-> None] /\ packaged = {} /\ raced = FALSE
  BY DEF TheEngine!Init
<1>3. EngineTypes
  BY <1>1, <1>2 DEF EngineTypes, Answers
<1> QED BY <1>2, <1>3 DEF EngineInv, OneAtATime, EngineFirstHandlerAnswers, TheEngine!FirstHandlerAnswers

(* append reads the slice: nothing but the list's reader changes.          *)
LEMMA ReadsInv == ASSUME EngineInv, NEW t \in Tasks, TheEngine!SetHandlersReads(t) PROVE EngineInv'
<1>1. /\ UNCHANGED <<handlers, packaged, answer>>
      /\ t \notin packaged /\ OnCall(t) # <<>>
      /\ packaging' = [u \in DOMAIN packaging \cup {t} |-> IF u = t THEN handlers ELSE packaging[u]]
      /\ raced' = (raced \/ packaging # <<>>)
  BY DEF TheEngine!SetHandlersReads
<1>2. EngineTypes'
  BY <1>1 DEF EngineInv, EngineTypes
<1>3. OneAtATime'
  <2>1. ASSUME ~ raced' PROVE ~ raced /\ DOMAIN packaging = {}
    <3>1. ~ raced /\ packaging = <<>>
      BY <1>1, <2>1 DEF EngineInv, EngineTypes
    <3>2. DOMAIN (<<>>) = {}
      OBVIOUS
    <3> QED BY <3>1, <3>2
  <2> QED BY <1>1, <2>1 DEF EngineInv, OneAtATime
<1>4. EngineFirstHandlerAnswers'
  <2>1. raced => raced'
    BY <1>1
  <2> QED BY <1>1, <2>1 DEF EngineInv, EngineFirstHandlerAnswers, TheEngine!FirstHandlerAnswers,
                            TheEngine!Owners
<1> QED BY <1>2, <1>3, <1>4 DEF EngineInv

(* Packaging a task whose handlers come after the list, or without any:    *)
(* what was answered stays what the list answers.                          *)
LEMMA PackagedKeepsAnswers ==
  ASSUME EngineInv, NEW t \in Tasks, ~ raced, t \notin packaged, packaged' = packaged \cup {t},
         handlers' = handlers \o OnCall(t) \/ (OnCall(t) = <<>> /\ handlers' = handlers),
         UNCHANGED <<answer, raced>>
  PROVE  /\ \A u \in packaged' : \A h \in HandlersOf(u) : \E i \in DOMAIN handlers' : handlers'[i] = h
         /\ EngineFirstHandlerAnswers'
<1>1. /\ HandlersOfThe(packaged, handlers)
      /\ OnCall(t) \in Seq(AllHandlers)
  BY ListGrows DEF EngineInv, EngineTypes
<1>2. handlers \in Seq(AllHandlers)
  BY <1>1 DEF HandlersOfThe
<1>3. handlers' = handlers \o OnCall(t)
  BY <1>2, ConcatEmptySeq
<1>4. /\ DOMAIN handlers = 1..Len(handlers) /\ Len(handlers) \in Nat
      /\ DOMAIN OnCall(t) = 1..Len(OnCall(t)) /\ Len(OnCall(t)) \in Nat
      /\ DOMAIN handlers' = 1..(Len(handlers) + Len(OnCall(t)))
      /\ \A i \in DOMAIN handlers : handlers'[i] = handlers[i]
      /\ \A i \in DOMAIN OnCall(t) : handlers'[Len(handlers) + i] = OnCall(t)[i]
  BY <1>1, <1>2, <1>3, LenProperties, ConcatProperties
<1>5. ASSUME NEW u \in packaged', NEW h \in HandlersOf(u)
      PROVE  \E i \in DOMAIN handlers' : handlers'[i] = h
  <2>1. CASE u \in packaged
    BY <1>4, <2>1 DEF EngineInv, OneAtATime
  <2>2. CASE u = t
    <3>1. PICK i \in DOMAIN OnCall(t) : OnCall(t)[i] = h
      BY <2>2 DEF HandlersOf
    <3>2. Len(handlers) + i \in DOMAIN handlers'
      BY <1>4, <3>1
    <3> QED BY <1>4, <3>1, <3>2
  <2> QED BY <2>1, <2>2
<1>6. ASSUME NEW c \in Requests, answer[c] # None
      PROVE  /\ \/ answer[c] = TheEngine!Offer(handlers', c)
                \/ answer[c] = "no handler" /\ c.task \notin TheEngine!Owners(c.op)'
             /\ answer[c] \in Tasks => answer[c] \in TheEngine!Owners(c.op)'
             /\ c.task \in TheEngine!Owners(c.op)' => answer[c] # "no handler"
             /\ answer[c] # "panic"
  <2>1. c.task \in packaged
    BY <1>6 DEF EngineInv, OneAtATime
  <2>2. /\ \/ answer[c] = TheEngine!Offer(handlers, c)
           \/ answer[c] = "no handler" /\ c.task \notin TheEngine!Owners(c.op)
        /\ answer[c] \in Tasks => answer[c] \in TheEngine!Owners(c.op)
        /\ c.task \in TheEngine!Owners(c.op) => answer[c] # "no handler"
        /\ answer[c] # "panic"
    BY <1>6 DEF EngineInv, EngineFirstHandlerAnswers, TheEngine!FirstHandlerAnswers
  <2>3. /\ TheEngine!Owners(c.op) \subseteq TheEngine!Owners(c.op)'
        /\ c.task \in TheEngine!Owners(c.op)' => c.task \in TheEngine!Owners(c.op)
    BY <2>1 DEF TheEngine!Owners
  <2>4. CASE Handled(handlers, c)
    <3>1. TheEngine!Offer(handlers', c) = TheEngine!Offer(handlers, c)
      BY <1>1, <1>2, <1>3, <2>4, FirstStays
    <3> QED BY <2>2, <2>3, <3>1
  <2>5. CASE ~ Handled(handlers, c)
    <3>1. TheEngine!Offer(handlers, c) = "no handler"
      BY <1>2, <2>5, OfferOf
    <3> QED BY <2>2, <2>3, <3>1
  <2> QED BY <2>4, <2>5
<1> QED BY <1>5, <1>6 DEF EngineFirstHandlerAnswers, TheEngine!FirstHandlerAnswers

(* ... and its result is written back.                                     *)
LEMMA WritesInv == ASSUME EngineInv, NEW t \in Tasks, TheEngine!SetHandlersWrites(t) PROVE EngineInv'
<1>1. /\ UNCHANGED <<answer, raced>>
      /\ t \in DOMAIN packaging
      /\ handlers' = packaging[t] \o OnCall(t)
      /\ packaging' = [u \in DOMAIN packaging \ {t} |-> packaging[u]]
      /\ packaged' = packaged \cup {t}
  BY DEF TheEngine!SetHandlersWrites, TheEngine!Appended
<1>2. EngineTypes'
  <2>1. ASSUME NEW list, HandlersOfThe(packaged, list)
        PROVE  HandlersOfThe(packaged', list) /\ HandlersOfThe(packaged', list \o OnCall(t))
    BY <1>1, <2>1, ListGrows
  <2>2. HandlersOfThe(packaged', handlers')
    BY <1>1, <2>1 DEF EngineInv, EngineTypes
  <2> QED BY <1>1, <2>1, <2>2 DEF EngineInv, EngineTypes
<1>3. ASSUME ~ raced
      PROVE  OneAtATime' /\ EngineFirstHandlerAnswers'
  <2> t \notin packaged
    BY <1>1 DEF EngineInv, EngineTypes
  <2>1. handlers' = handlers \o OnCall(t) /\ DOMAIN packaging' = {}
    BY <1>1, <1>3 DEF EngineInv, OneAtATime
  <2>2. /\ \A u \in packaged' : \A h \in HandlersOf(u) : \E i \in DOMAIN handlers' : handlers'[i] = h
        /\ EngineFirstHandlerAnswers'
    BY <1>1, <1>3, <2>1, PackagedKeepsAnswers
  <2>3. \A c \in Requests : answer'[c] # None => c.task \in packaged'
    BY <1>1, <1>3 DEF EngineInv, OneAtATime
  <2> QED BY <2>1, <2>2, <2>3 DEF OneAtATime, HandlersOf
<1>4. ASSUME raced PROVE OneAtATime' /\ EngineFirstHandlerAnswers'
  BY <1>1, <1>4 DEF OneAtATime, EngineFirstHandlerAnswers, TheEngine!FirstHandlerAnswers
<1> QED BY <1>2, <1>3, <1>4 DEF EngineInv

(* A task without handlers is packaged at once.                            *)
LEMMA WithoutInv == ASSUME EngineInv, NEW t \in Tasks, TheEngine!PackageWithout(t) PROVE EngineInv'
<1>1. /\ UNCHANGED <<handlers, packaging, answer, raced>>
      /\ t \notin packaged /\ OnCall(t) = <<>>
      /\ packaged' = packaged \cup {t}
  BY DEF TheEngine!PackageWithout
<1>2. EngineTypes'
  <2>1. ASSUME NEW list, HandlersOfThe(packaged, list)
        PROVE  HandlersOfThe(packaged', list)
    BY <1>1, <2>1, ListGrows
  <2> QED BY <1>1, <2>1 DEF EngineInv, EngineTypes
<1>3. ASSUME ~ raced
      PROVE  OneAtATime' /\ EngineFirstHandlerAnswers'
  <2>1. /\ \A u \in packaged' : \A h \in HandlersOf(u) : \E i \in DOMAIN handlers' : handlers'[i] = h
        /\ EngineFirstHandlerAnswers'
    BY <1>1, <1>3, PackagedKeepsAnswers
  <2>2. \A c \in Requests : answer'[c] # None => c.task \in packaged'
    BY <1>1, <1>3 DEF EngineInv, OneAtATime
  <2> QED BY <1>1, <1>3, <2>1, <2>2 DEF EngineInv, OneAtATime, HandlersOf
<1>4. ASSUME raced PROVE OneAtATime' /\ EngineFirstHandlerAnswers'
  BY <1>1, <1>4 DEF OneAtATime, EngineFirstHandlerAnswers, TheEngine!FirstHandlerAnswers
<1> QED BY <1>2, <1>3, <1>4 DEF EngineInv

(* The answer of a call is what the list says, unless the call races with  *)
(* a packaging.                                                            *)
LEMMA AnswerInv ==
  ASSUME EngineInv, NEW c \in Requests, NEW a \in Answers, c.task \in packaged,
         answer' = [answer EXCEPT ![c] = a], raced => raced', raced' \in BOOLEAN,
         UNCHANGED <<handlers, packaging, packaged>>,
         raced' \/ a = TheEngine!Offer(handlers, c)
  PROVE  EngineInv'
<1>1. EngineTypes'
  BY DEF EngineInv, EngineTypes
<1>2. CASE raced'
  BY <1>1, <1>2 DEF EngineInv, OneAtATime, EngineFirstHandlerAnswers, TheEngine!FirstHandlerAnswers
<1>3. CASE ~ raced'
  <2>1. ~ raced /\ a = TheEngine!Offer(handlers, c) /\ answer'[c] = a
    BY <1>3 DEF EngineInv, EngineTypes
  <2>2. \A d \in Requests \ {c} : answer'[d] = answer[d]
    BY DEF EngineInv, EngineTypes
  <2>3. OneAtATime'
    BY <2>1, <2>2 DEF EngineInv, OneAtATime
  <2>4. handlers \in Seq(AllHandlers)
    BY DEF EngineInv, EngineTypes, HandlersOfThe
  <2>5. a \in Tasks => a \in TheEngine!Owners(c.op)
    <3>1. SUFFICES ASSUME a \in Tasks PROVE a \in TheEngine!Owners(c.op)
      OBVIOUS
    <3>2. PICK i \in DOMAIN handlers : handlers[i].op = c.op /\ handlers[i].owner = a
      BY <2>1, <2>4, <3>1, OfferOf
    <3>3. PICK t \in packaged : handlers[i] \in HandlersOf(t)
      BY DEF EngineInv, EngineTypes, HandlersOfThe
    <3>4. t \in Tasks
      BY DEF EngineInv, EngineTypes
    <3>5. t = a
      BY <3>2, <3>3, <3>4, EngineAssumption
    <3> QED BY <3>2, <3>3, <3>5 DEF TheEngine!Owners, HandlersOf
  <2>6. c.task \in TheEngine!Owners(c.op) => a # "no handler"
    <3>1. SUFFICES ASSUME c.task \in TheEngine!Owners(c.op) PROVE Handled(handlers, c)
      BY <2>1, <2>4, OfferOf
    <3>2. PICK j \in DOMAIN OnCall(c.task) : OnCall(c.task)[j].op = c.op
      BY <3>1 DEF TheEngine!Owners
    <3>3. PICK i \in DOMAIN handlers : handlers[i] = OnCall(c.task)[j]
      BY <2>1 DEF EngineInv, OneAtATime, HandlersOf
    <3> QED BY <3>2, <3>3 DEF Handled, TheEngine!Takes
  <2>7. a # "panic"
    BY <2>1, <2>4, OfferOf, EngineAssumption
  <2>8. EngineFirstHandlerAnswers'
    <3>1. ASSUME NEW d \in Requests, answer'[d] # None
          PROVE  /\ \/ answer'[d] = TheEngine!Offer(handlers, d)
                    \/ answer'[d] = "no handler" /\ d.task \notin TheEngine!Owners(d.op)
                 /\ answer'[d] \in Tasks => answer'[d] \in TheEngine!Owners(d.op)
                 /\ d.task \in TheEngine!Owners(d.op) => answer'[d] # "no handler"
                 /\ answer'[d] # "panic"
      <4>1. CASE d = c
        BY <2>1, <2>5, <2>6, <2>7, <4>1
      <4>2. CASE d # c
        BY <2>1, <2>2, <3>1, <4>2
           DEF EngineInv, EngineFirstHandlerAnswers, TheEngine!FirstHandlerAnswers
      <4> QED BY <4>1, <4>2
    <3>2. \A d \in Requests : TheEngine!Owners(d.op)' = TheEngine!Owners(d.op)
      BY DEF TheEngine!Owners
    <3> QED BY <3>1, <3>2 DEF EngineFirstHandlerAnswers, TheEngine!FirstHandlerAnswers
  <2> QED BY <1>1, <2>3, <2>8 DEF EngineInv
<1> QED BY <1>2, <1>3

(* A call is offered to the list it sees, or to one that is being written. *)
LEMMA CallInv ==
  ASSUME EngineInv, NEW c \in Requests,
         TheEngine!Call(c) \/ TheEngine!CallSeesMore(c) \/ TheEngine!CallTorn(c)
  PROVE  EngineInv'
<1>1. ASSUME NEW list \in Seq(AllHandlers), TheEngine!Dispatch(c, list),
             list = handlers \/ packaging # <<>>
      PROVE  EngineInv'
  <2>1. /\ UNCHANGED <<handlers, packaging, packaged>>
        /\ c.task \in packaged
        /\ answer' = [answer EXCEPT ![c] = TheEngine!Offer(list, c)]
        /\ raced' = (raced \/ packaging # <<>>)
    BY <1>1 DEF TheEngine!Dispatch
  <2>2. TheEngine!Offer(list, c) \in Answers
    BY OfferOf DEF Answers
  <2> QED BY <1>1, <2>1, <2>2, AnswerInv DEF EngineInv, EngineTypes
<1>2. CASE TheEngine!Call(c)
  <2>1. handlers \in Seq(AllHandlers)
    BY DEF EngineInv, EngineTypes, HandlersOfThe
  <2> QED BY <1>1, <1>2, <2>1 DEF TheEngine!Call
<1>3. CASE TheEngine!CallSeesMore(c)
  <2>1. PICK t \in DOMAIN packaging : TheEngine!Dispatch(c, packaging[t] \o OnCall(t))
    BY <1>3 DEF TheEngine!CallSeesMore, TheEngine!Appended
  <2>2. packaging[t] \o OnCall(t) \in Seq(AllHandlers)
    <3>1. t \in Tasks /\ HandlersOfThe(packaged, packaging[t])
      BY DEF EngineInv, EngineTypes
    <3>2. HandlersOfThe(packaged \cup {t}, packaging[t] \o OnCall(t))
      BY <3>1, ListGrows
    <3> QED BY <3>2 DEF HandlersOfThe
  <2>3. packaging # <<>>
    <3>1. DOMAIN (<<>>) = {}
      OBVIOUS
    <3> QED BY <3>1
  <2> QED BY <1>1, <2>1, <2>2, <2>3
<1>4. CASE TheEngine!CallTorn(c)
  <2>1. /\ UNCHANGED <<handlers, packaging, packaged>>
        /\ c.task \in packaged /\ raced' = TRUE
        /\ answer' = [answer EXCEPT ![c] = "panic"]
    BY <1>4 DEF TheEngine!CallTorn
  <2> QED BY <2>1, AnswerInv DEF Answers
<1> QED BY <1>2, <1>3, <1>4

(* Tasks packaged one at a time, with no call under way, never change what *)
(* a call is answered: the first handler of the operation, and somebody    *)
(* whenever the caller's own task handles it (context.go: SetHandlers;     *)
(* coroutine.go: dispatchCall).                                            *)
THEOREM FirstHandlerAnswersForAll == MCSpec => []EngineFirstHandlerAnswers
<1>1. MCInit => EngineInv
  BY EngineInit DEF MCInit
<1>2. EngineInv /\ [MCNext]_<<inUse, vars, dispatchVars, turnVars>> => EngineInv'
  <2> SUFFICES ASSUME EngineInv, [MCNext]_<<inUse, vars, dispatchVars, turnVars>> PROVE EngineInv'
    OBVIOUS
  <2>1. CASE UNCHANGED dispatchVars
    BY <2>1 DEF dispatchVars, EngineInv, EngineTypes, OneAtATime, EngineFirstHandlerAnswers,
                TheEngine!FirstHandlerAnswers, TheEngine!Owners
  <2>2. CASE TheEngine!Next
    BY <2>2, ReadsInv, WritesInv, WithoutInv, CallInv DEF TheEngine!Next
  <2> QED BY <2>1, <2>2 DEF MCNext
<1>3. EngineInv => EngineFirstHandlerAnswers
  BY DEF EngineInv
<1> QED BY <1>1, <1>2, <1>3, PTL DEF MCSpec
=============================================================================
