------------------------------ MODULE BoundedFifo ------------------------------
(***************************************************************************)
(* What a ring buffer promises: a queue of at most capacity values, oldest *)
(* first, in which a push onto a full queue drops the oldest value, and on *)
(* which every operation, of whatever goroutine, happens at one instant.   *)
(* A queue of n values is a function on 0..n-1, as RingBuffer.At sees it.  *)
(***************************************************************************)
EXTENDS Integers

CONSTANTS
  Capacities,
  Goroutines,
  Values,
  None            \* no answer: none yet, returned, or that of Pop on an empty queue

VARIABLES
  capacity,       \* the most values it holds
  len,            \* how many values are in the queue
  items,          \* the values, on 0..len-1
  answer          \* what the operation each goroutine is in has read

fifoVars == <<capacity, len, items, answer>>

Init ==
  /\ capacity \in Capacities
  /\ len = 0
  /\ items = [i \in 0..-1 |-> None]
  /\ answer = [g \in Goroutines |-> None]

Push(v) ==
  /\ len < capacity
  /\ len' = len + 1
  /\ items' = [i \in 0..len |-> IF i < len THEN items[i] ELSE v]
  /\ UNCHANGED <<capacity, answer>>

PushOverOldest(v) ==
  /\ len = capacity /\ len > 0
  /\ len' = len
  /\ items' = [i \in 0..(len - 1) |-> IF i < len - 1 THEN items[i + 1] ELSE v]
  /\ UNCHANGED <<capacity, answer>>

Pop(g) ==
  /\ len > 0
  /\ len' = len - 1
  /\ items' = [i \in 0..(len - 2) |-> items[i + 1]]
  /\ answer' = [answer EXCEPT ![g] = items[0]]

PopEmpty(g) ==
  /\ len = 0
  /\ answer' = [answer EXCEPT ![g] = None]
  /\ UNCHANGED <<capacity, len, items>>

Clear ==
  /\ len' = 0
  /\ items' = [i \in 0..-1 |-> None]
  /\ UNCHANGED <<capacity, answer>>

(* Linearize, Segments and All: a copy of the whole queue. *)
Snapshot(g) ==
  /\ answer' = [answer EXCEPT ![g] = items]
  /\ UNCHANGED <<capacity, len, items>>

(* At, and Peek for i = 0. *)
At(g, i) ==
  /\ answer' = [answer EXCEPT ![g] = IF i < len THEN items[i] ELSE None]
  /\ UNCHANGED <<capacity, len, items>>

Return(g) ==
  /\ answer' = [answer EXCEPT ![g] = None]
  /\ UNCHANGED <<capacity, len, items>>

Next ==
  \/ \E v \in Values : Push(v) \/ PushOverOldest(v)
  \/ Clear
  \/ \E g \in Goroutines :
       Pop(g) \/ PopEmpty(g) \/ Snapshot(g) \/ Return(g) \/ \E i \in 0..capacity : At(g, i)

Spec == Init /\ [][Next]_fifoVars
=============================================================================
