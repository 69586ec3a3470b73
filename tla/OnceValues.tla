------------------------------- MODULE OnceValues ------------------------------
(***************************************************************************)
(* Values that are computed once, and what is promised of them: the state  *)
(* of Memo.tla and its properties, apart from its actions, for the modules *)
(* that put it next to others.                                             *)
(***************************************************************************)
EXTENDS Naturals, Sequences, FiniteSets

CONSTANTS
  Callers,
  Keys,
  LazyKeys,       \* the keys that stand for a Lazy rather than a memoised call
  Asks,           \* the keys that the computation of a key asks for, in order
  Panic, NoOutcome

ASSUME LazyAssumption == LazyKeys \subseteq Keys

(* No computation asks for itself, directly or through others: it would    *)
(* wait for itself.                                                        *)
ASSUME AsksAssumption ==
  /\ Asks \in [Keys -> Seq(Keys)]
  /\ \E rank \in [Keys -> 1..Cardinality(Keys)] :
       \A k \in Keys : \A i \in DOMAIN Asks[k] : rank[Asks[k][i]] < rank[k]

ASSUME OutcomeAssumption == Panic \notin Nat /\ NoOutcome \notin Nat \cup {Panic}

(* The getters: that of a Lazy, and those that goroutines make for a key.  *)
Deferred == "deferred"
Getters == (Callers \cup {Deferred}) \X Keys

VARIABLES
  cache,          \* the getter kept for each key
  outcome,        \* what each getter has computed, NoOutcome before
  running,        \* the getters whose once has been entered
  stack,          \* the frames of each goroutine, innermost first
  evals,          \* how often the function of each key has been called
  answers         \* what callers have been given for each key

-----------------------------------------------------------------------------
(* Properties. *)

(* A function is called once per key, however many goroutines ask at the   *)
(* same time, and everybody is given the same outcome.  A panic is an      *)
(* outcome like another: nobody tries again, and it reaches every          *)
(* computation that asked.                                                 *)
OncePerKey ==
  /\ \A k \in Keys : evals[k] <= 1 /\ Cardinality(answers[k]) <= 1
  /\ \A m \in Getters : outcome[m] \in Nat =>
       \A i \in DOMAIN Asks[m[2]] : answers[Asks[m[2]][i]] \subseteq Nat

(* Every call returns or panics: nobody waits for ever for a computation   *)
(* that has panicked, or for each other.                                   *)
GettersReturn == \A g \in Callers : stack[g] # <<>> ~> stack[g] = <<>>
=============================================================================
