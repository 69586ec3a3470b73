------------------------------- MODULE MCShared -------------------------------
(***************************************************************************)
(* Values that goroutines share, one kind at a time.  Two goroutines on    *)
(* ring buffers of zero, one and three slots, with three values in the     *)
(* order they are numbered.  Or three goroutines and three values computed *)
(* once: a Lazy, whose computation calls a memoised function, and two      *)
(* calls of that function, of which the second asks for the Lazy and for   *)
(* the first.  Or two goroutines that register two types under two names.  *)
(***************************************************************************)
EXTENDS RingSearch, OnceValues, TypeNames, TLC

CONSTANTS g1, g2, g3, v1, v2, v3

MCGoroutines == {g1, g2}
MCValues == {v1, v2, v3}
MCLess(a, b) == <<a, b>> \in {<<v1, v2>>, <<v1, v3>>, <<v2, v3>>}

MCCallers == {g1, g2, g3}
MCLazyKeys == {"lazy"}
MCKeys == MCLazyKeys \cup {"fib0", "fib1"}
MCAsks == "fib0" :> <<>> @@ "lazy" :> <<"fib0">> @@ "fib1" :> <<"lazy", "fib0">>

MCTypes == {"t1", "t2"}
MCNames == {"n1", "n2"}

VARIABLE inUse

memoVars == <<cache, outcome, running, stack, evals, answers>>
registryVars == <<nameToType, typeToName, at, boxed, decoded>>

TheMemo == INSTANCE Memo
TheRegistry == INSTANCE Registry

MCInit ==
  /\ inUse \in {"ring", "memo", "registry"}
  /\ Init /\ (inUse # "ring" => capacity = 0)
  /\ TheMemo!Init
  /\ TheRegistry!Init

MCNext ==
  \/ inUse = "ring" /\ Next /\ UNCHANGED <<inUse, memoVars, registryVars>>
  \/ inUse = "memo" /\ TheMemo!Next /\ UNCHANGED <<inUse, vars, registryVars>>
  \/ inUse = "registry" /\ TheRegistry!Next /\ UNCHANGED <<inUse, vars, memoVars>>

(* The fairness of each kind concerns the behaviours that have it in use.  *)
MCSpec ==
  /\ MCInit /\ [][MCNext]_<<inUse, vars, memoVars, registryVars>>
  /\ \A g \in Goroutines :
       /\ WF_vars(inUse = "ring" /\ Inside(g))
       /\ SF_vars(inUse = "ring" /\ Locking(g))
  /\ \A g \in Callers : WF_memoVars(inUse = "memo" /\ TheMemo!Step(g))
=============================================================================
