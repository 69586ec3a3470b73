--------------------------------- MODULE Memo ----------------------------------
(***************************************************************************)
(* adt.Memoize and adt.Lazy: values computed once, by whichever goroutine  *)
(* asks first, through a getter made by sync.OnceValue.  Memoize makes a   *)
(* getter on every call and keeps the first in a sync.Map; Defer makes one *)
(* getter when the Lazy is made.  A computation may ask for other values:  *)
(* a memoised function that calls itself, a Lazy made by Map or FlatMap.   *)
(*                                                                         *)
(* A goroutine is a stack of frames, one per call of a getter.             *)
(***************************************************************************)
EXTENDS OnceValues

vars == <<cache, outcome, running, stack, evals, answers>>

Init ==
  /\ cache = [k \in LazyKeys |-> <<Deferred, k>>]
  /\ outcome = [m \in Getters |-> NoOutcome]
  /\ running = {}
  /\ stack = [g \in Callers |-> <<>>]
  /\ evals = [k \in Keys |-> 0]
  /\ answers = [k \in Keys |-> {}]

Idle(g) == stack[g] = <<>>
Top(g) == Head(stack[g])

-----------------------------------------------------------------------------
(* sync.Map.LoadOrStore, with the getter that the caller has just made; a  *)
(* plain Store would put that getter in the place of another's.            *)
Store(g, k) == IF k \in LazyKeys THEN cache[k] ELSE <<g, k>>
LoadOrStore(g, k) == IF k \in DOMAIN cache THEN cache[k] ELSE <<g, k>>

(* A call of the memoised function, or of Get: it comes to a getter.       *)
Enter(g, k) ==
  LET getter == LoadOrStore(g, k) IN
  /\ cache' = [j \in DOMAIN cache \cup {k} |-> IF j = k THEN getter ELSE cache[j]]
  /\ stack' = [stack EXCEPT ![g] = <<[getter |-> getter, computing |-> FALSE, asked |-> 0]>> \o @]
  /\ UNCHANGED <<outcome, running, evals, answers>>

Call(g, k) == Idle(g) /\ Enter(g, k)

Asking(f) == f.computing /\ f.asked < Len(Asks[f.getter[2]])
Ask(g) ==
  /\ ~ Idle(g) /\ Asking(Top(g))
  /\ Enter(g, Asks[Top(g).getter[2]][Top(g).asked + 1])

(* sync.OnceValue: the first to come computes, the others wait for it, and *)
(* all are given what it computed: the value, or the panic again.          *)
Compute(g) ==
  /\ ~ Idle(g) /\ ~ Top(g).computing
  /\ Top(g).getter \notin running
  /\ running' = running \cup {Top(g).getter}
  /\ evals' = [evals EXCEPT ![Top(g).getter[2]] = @ + 1]
  /\ stack' = [stack EXCEPT ![g][1].computing = TRUE]
  /\ UNCHANGED <<cache, outcome, answers>>

Computed(g, o) ==
  /\ outcome' = [outcome EXCEPT ![Top(g).getter] = o]
  /\ stack' = [stack EXCEPT ![g][1].computing = FALSE]
  /\ UNCHANGED <<cache, running, evals, answers>>

(* The function returns a value, which is its own each time, or panics.    *)
Finish(g) ==
  /\ ~ Idle(g) /\ Top(g).computing /\ ~ Asking(Top(g))
  /\ Computed(g, evals[Top(g).getter[2]]) \/ Computed(g, Panic)

(* The getter gives its outcome to the computation that asked, which goes  *)
(* on or panics in turn, or to the goroutine.                              *)
Resume(f, o) == IF o = Panic THEN [f EXCEPT !.computing = FALSE] ELSE [f EXCEPT !.asked = @ + 1]
EndByLost(getter, o) == outcome
EndBy(getter, o) == IF o = Panic THEN [outcome EXCEPT ![getter] = Panic] ELSE outcome

Return(g) ==
  /\ ~ Idle(g) /\ ~ Top(g).computing
  /\ outcome[Top(g).getter] # NoOutcome
  /\ LET o == outcome[Top(g).getter]
         rest == Tail(stack[g]) IN
     /\ answers' = [answers EXCEPT ![Top(g).getter[2]] = @ \cup {o}]
     /\ IF rest = <<>>
        THEN stack' = [stack EXCEPT ![g] = <<>>] /\ UNCHANGED outcome
        ELSE /\ stack' = [stack EXCEPT ![g] = <<Resume(Head(rest), o)>> \o Tail(rest)]
             /\ outcome' = EndBy(Head(rest).getter, o)
  /\ UNCHANGED <<cache, running, evals>>

Step(g) == Ask(g) \/ Compute(g) \/ Finish(g) \/ Return(g)
Next == \E g \in Callers : Step(g) \/ \E k \in Keys : Call(g, k)

Spec == Init /\ [][Next]_vars

(* The scheduler runs a goroutine that can run. *)
Fairness == \A g \in Callers : WF_vars(Step(g))
FairSpec == Spec /\ Fairness
=============================================================================
