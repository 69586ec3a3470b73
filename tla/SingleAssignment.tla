-------------------------- MODULE SingleAssignment --------------------------
(***************************************************************************)
(* What a Promise/Future pair promises, with no context, mutex or channel: *)
(* a cell that is assigned at most once.  A producer's offer either becomes *)
(* the content of the cell or is refused, the cell may instead be filled    *)
(* with a cancellation cause, and every awaiter that reads the cell reads   *)
(* the same content.  Future.tla is shown to implement this module.         *)
(***************************************************************************)

CONSTANTS
  Producers,      \* goroutines that try to settle
  Awaiters,       \* goroutines that wait for the outcome
  Results,        \* outcomes a producer may offer
  Failures,       \* the results, among them, that stand for a cancellation
  NoResult        \* content of an unassigned cell, not a result

VARIABLES
  cell,           \* the content, or NoResult
  writer,         \* the producer whose offer became the content, as a set
  offer,          \* what each producer has offered so far
  verdict,        \* what each producer was told: "none", "yes" or "no"
  seen            \* what each awaiter was given

avars == <<cell, writer, offer, verdict, seen>>

Init ==
  /\ cell = NoResult
  /\ writer = {}
  /\ offer = [p \in Producers |-> NoResult]
  /\ verdict = [p \in Producers |-> "none"]
  /\ seen = [a \in Awaiters |-> NoResult]

Offer(p) ==
  /\ offer[p] = NoResult
  /\ \E r \in Results : offer' = [offer EXCEPT ![p] = r]
  /\ UNCHANGED <<cell, writer, verdict, seen>>

(* The only two ways into the cell, both from an empty one. *)
Assign(p) ==
  /\ cell = NoResult
  /\ offer[p] # NoResult
  /\ cell' = offer[p]
  /\ writer' = {p}
  /\ UNCHANGED <<offer, verdict, seen>>

Expire ==
  /\ cell = NoResult
  /\ cell' \in Failures
  /\ UNCHANGED <<writer, offer, verdict, seen>>

Accept(p) ==
  /\ writer = {p}
  /\ verdict[p] = "none"
  /\ verdict' = [verdict EXCEPT ![p] = "yes"]
  /\ UNCHANGED <<cell, writer, offer, seen>>

Refuse(p) ==
  /\ cell # NoResult
  /\ p \notin writer
  /\ offer[p] # NoResult
  /\ verdict[p] = "none"
  /\ verdict' = [verdict EXCEPT ![p] = "no"]
  /\ UNCHANGED <<cell, writer, offer, seen>>

Observe(a) ==
  /\ cell # NoResult
  /\ seen[a] = NoResult
  /\ seen' = [seen EXCEPT ![a] = cell]
  /\ UNCHANGED <<cell, writer, offer, verdict>>

(* AwaitCtx may stop waiting; that assigns nothing. *)
GiveUp(a) ==
  /\ seen[a] = NoResult
  /\ \E r \in Failures : seen' = [seen EXCEPT ![a] = r]
  /\ UNCHANGED <<cell, writer, offer, verdict>>

Next ==
  \/ \E p \in Producers : Offer(p) \/ Assign(p) \/ Accept(p) \/ Refuse(p)
  \/ Expire
  \/ \E a \in Awaiters : Observe(a) \/ GiveUp(a)

Spec == Init /\ [][Next]_avars
=============================================================================
