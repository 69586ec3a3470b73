------------------------------- MODULE SyncRing -------------------------------
(***************************************************************************)
(* ds.SyncRingBuffer: the circular buffer of ds/ring.go behind the         *)
(* read/write lock of async.Sync, used by several goroutines.  The methods *)
(* of RingBuffer are modelled at the grain of their assignments to data,   *)
(* head and size, so that what the lock hides is visible here: a push that *)
(* has written its value but not moved the head, a snapshot that has       *)
(* copied the first segment but not the second.                            *)
(***************************************************************************)
EXTENDS Integers

CONSTANTS
  Capacities,     \* a buffer may be made with
  Goroutines,
  Values,
  Zero,           \* the zero value, in slots never written or cleared
  None            \* the None option, and no answer yet

ASSUME SyncRingAssumption == Capacities \subseteq Nat

ASSUME NoneAssumption ==
  None \notin Values /\ None \notin Goroutines

VARIABLES
  capacity,           \* len(r.data), which never changes
  data, head, size,   \* RingBuffer
  writer,             \* who holds or awaits the write lock, None if nobody
  readers,            \* who holds the read lock
  pc,                 \* where each goroutine is in its method
  arg,                \* the value it has still to push
  copied,             \* the first segment a snapshot has copied
  answer              \* what the method it is in will return

ring == <<data, head, size>>
lock == <<writer, readers>>
vars == <<capacity, ring, lock, pc, arg, copied, answer>>

Slots == 0..(capacity - 1)

(* A view of the buffer: n values from logical index 0 at slot h.          *)
View(h, n) == [i \in 0..(n - 1) |-> data[(h + i) % capacity]]
Views == UNION {[0..(n - 1) -> Values] : n \in 0..capacity}

WriteSteps == {"push", "pop", "clear", "grow", "advance", "shrink", "reset", "unlock"}
ReadSteps == {"first", "second", "at", "runlock"}
LockSteps == {"lock push", "lock pop", "lock clear", "wait push", "wait pop", "wait clear"}
RLockSteps == {"rlock first", "rlock at"}

TypeOK ==
  /\ capacity \in Capacities
  /\ data \in [Slots -> Values \cup {Zero}]
  /\ head \in 0..capacity /\ (capacity > 0 => head < capacity)
  /\ size \in 0..capacity
  /\ writer \in Goroutines \cup {None}
  /\ readers \subseteq Goroutines
  /\ pc \in [Goroutines -> {"idle"} \cup WriteSteps \cup ReadSteps \cup LockSteps \cup RLockSteps]
  /\ arg \in [Goroutines -> Values \cup {None}]
  /\ \A g \in Goroutines :
       /\ copied[g] \in Views \cup {None}
       /\ answer[g] \in Values \cup Views \cup {None}

Init ==
  /\ capacity \in Capacities
  /\ data = [i \in Slots |-> Zero]
  /\ head = 0 /\ size = 0
  /\ writer = None /\ readers = {}
  /\ pc = [g \in Goroutines |-> "idle"]
  /\ arg = [g \in Goroutines |-> None]
  /\ copied = [g \in Goroutines |-> None]
  /\ answer = [g \in Goroutines |-> None]

Go(g, from, to) ==
  /\ pc[g] = from
  /\ pc' = [pc EXCEPT ![g] = to]

-----------------------------------------------------------------------------
(* Calls. *)

CallPush(g) ==
  /\ Go(g, "idle", "lock push")
  /\ \E v \in Values : arg' = [arg EXCEPT ![g] = v]
  /\ UNCHANGED <<capacity, ring, lock, copied, answer>>

CallOther(g) ==
  /\ \E s \in {"lock pop", "lock clear", "rlock first", "rlock at"} : Go(g, "idle", s)
  /\ UNCHANGED <<capacity, ring, lock, arg, copied, answer>>

-----------------------------------------------------------------------------
(* sync.RWMutex: a writer first excludes the other writers and the readers *)
(* to come, then waits for the readers it found.                           *)

LockIgnoringReaders(g) ==
  /\ writer = None
  /\ writer' = g
  /\ \/ Go(g, "lock push", "push")
     \/ Go(g, "lock pop", "pop")
     \/ Go(g, "lock clear", "clear")
  /\ UNCHANGED <<capacity, ring, readers, arg, copied, answer>>

Lock(g) ==
  /\ writer = None
  /\ writer' = g
  /\ \/ Go(g, "lock push", "wait push")
     \/ Go(g, "lock pop", "wait pop")
     \/ Go(g, "lock clear", "wait clear")
  /\ UNCHANGED <<capacity, ring, readers, arg, copied, answer>>

ReadersLeft(g) ==
  /\ readers = {}
  /\ \/ Go(g, "wait push", "push")
     \/ Go(g, "wait pop", "pop")
     \/ Go(g, "wait clear", "clear")
  /\ UNCHANGED <<capacity, ring, lock, arg, copied, answer>>

KeepLocked(g) ==
  /\ Go(g, "unlock", "idle")
  /\ answer' = [answer EXCEPT ![g] = None]
  /\ UNCHANGED <<capacity, ring, lock, arg, copied>>

Unlock(g) ==
  /\ Go(g, "unlock", "idle")
  /\ writer' = None
  /\ answer' = [answer EXCEPT ![g] = None]
  /\ UNCHANGED <<capacity, ring, readers, arg, copied>>

RLock(g) ==
  /\ writer = None
  /\ readers' = readers \cup {g}
  /\ Go(g, "rlock first", "first") \/ Go(g, "rlock at", "at")
  /\ UNCHANGED <<capacity, ring, writer, arg, copied, answer>>

RUnlock(g) ==
  /\ Go(g, "runlock", "idle")
  /\ readers' = readers \ {g}
  /\ answer' = [answer EXCEPT ![g] = None]
  /\ UNCHANGED <<capacity, ring, writer, arg, copied>>

-----------------------------------------------------------------------------
(* Push, under the write lock. *)

PushNothing(g) ==
  /\ capacity = 0
  /\ Go(g, "push", "unlock")
  /\ arg' = [arg EXCEPT ![g] = None]
  /\ UNCHANGED <<capacity, ring, lock, copied, answer>>

PushFull(g) ==
  /\ capacity > 0 /\ size = capacity
  /\ Go(g, "push", "advance")
  /\ data' = [data EXCEPT ![head] = arg[g]]
  /\ arg' = [arg EXCEPT ![g] = None]
  /\ UNCHANGED <<capacity, head, size, lock, copied, answer>>

AdvanceHead(g) ==
  /\ Go(g, "advance", "unlock")
  /\ head' = (head + 1) % capacity
  /\ UNCHANGED <<capacity, data, size, lock, arg, copied, answer>>

PushWithRoom(g) ==
  /\ size < capacity
  /\ Go(g, "push", "grow")
  /\ data' = [data EXCEPT ![(head + size) % capacity] = arg[g]]
  /\ arg' = [arg EXCEPT ![g] = None]
  /\ UNCHANGED <<capacity, head, size, lock, copied, answer>>

Grow(g) ==
  /\ Go(g, "grow", "unlock")
  /\ size' = size + 1
  /\ UNCHANGED <<capacity, data, head, lock, arg, copied, answer>>

(* Pop. *)

PopEmpty(g) ==
  /\ size = 0
  /\ Go(g, "pop", "unlock")
  /\ answer' = [answer EXCEPT ![g] = None]
  /\ UNCHANGED <<capacity, ring, lock, arg, copied>>

PopHead(g) ==
  /\ size > 0
  /\ Go(g, "pop", "shrink")
  /\ answer' = [answer EXCEPT ![g] = data[head]]
  /\ head' = (head + 1) % capacity
  /\ UNCHANGED <<capacity, data, size, lock, arg, copied>>

Shrink(g) ==
  /\ Go(g, "shrink", "unlock")
  /\ size' = size - 1
  /\ UNCHANGED <<capacity, data, head, lock, arg, copied, answer>>

(* Clear. *)

ClearData(g) ==
  /\ Go(g, "clear", "reset")
  /\ data' = [i \in Slots |-> Zero]
  /\ UNCHANGED <<capacity, head, size, lock, arg, copied, answer>>

Reset(g) ==
  /\ Go(g, "reset", "unlock")
  /\ head' = 0 /\ size' = 0
  /\ UNCHANGED <<capacity, data, lock, arg, copied, answer>>

-----------------------------------------------------------------------------
(* Segments, Linearize and All, under the read lock: the two segments are  *)
(* copied one after the other.  The first runs from the head to the end of *)
(* the array or of the content, the second is what wrapped around.         *)

FirstLen == IF head + size <= capacity THEN size ELSE capacity - head

CopyFirst(g) ==
  /\ Go(g, "first", "second")
  /\ copied' = [copied EXCEPT ![g] = [i \in 0..(FirstLen - 1) |-> data[head + i]]]
  /\ UNCHANGED <<capacity, ring, lock, arg, answer>>

CopySecond(g) ==
  /\ Go(g, "second", "runlock")
  /\ LET n == FirstLen IN
       answer' = [answer EXCEPT ![g] =
         [i \in 0..(size - 1) |-> IF i < n THEN copied[g][i] ELSE data[i - n]]]
  /\ copied' = [copied EXCEPT ![g] = None]
  /\ UNCHANGED <<capacity, ring, lock, arg>>

(* At(i), and Peek for i = 0. *)
ReadAt(g) ==
  /\ Go(g, "at", "runlock")
  /\ \E i \in 0..capacity :
       answer' = [answer EXCEPT ![g] =
         IF i < size THEN data[(head + i) % capacity] ELSE None]
  /\ UNCHANGED <<capacity, ring, lock, arg, copied>>

-----------------------------------------------------------------------------
Locking(g) == Lock(g) \/ RLock(g)

Inside(g) ==
  \/ ReadersLeft(g) \/ Unlock(g) \/ RUnlock(g)
  \/ PushNothing(g) \/ PushFull(g) \/ AdvanceHead(g) \/ PushWithRoom(g) \/ Grow(g)
  \/ PopEmpty(g) \/ PopHead(g) \/ Shrink(g) \/ ClearData(g) \/ Reset(g)
  \/ CopyFirst(g) \/ CopySecond(g) \/ ReadAt(g)

Next == \E g \in Goroutines : CallPush(g) \/ CallOther(g) \/ Locking(g) \/ Inside(g)

(* The scheduler runs a goroutine that can run; a goroutine that keeps     *)
(* finding the lock free gets it (sync.Mutex's starvation mode, and an     *)
(* Unlock of RWMutex admits the readers that wait).                        *)
Fairness == \A g \in Goroutines : WF_vars(Inside(g)) /\ SF_vars(Locking(g))

Spec == Init /\ [][Next]_vars
FairSpec == Spec /\ Fairness

-----------------------------------------------------------------------------
(* Properties. *)

(* The queue the buffer holds: a writer's first assignment is the one that *)
(* takes effect, the ones that follow restore the representation.          *)
EffHead == IF \E g \in Goroutines : pc[g] = "advance" THEN (head + 1) % capacity ELSE head
EffSize ==
  IF \E g \in Goroutines : pc[g] = "grow" THEN size + 1
  ELSE IF \E g \in Goroutines : pc[g] = "shrink" THEN size - 1
  ELSE IF \E g \in Goroutines : pc[g] = "reset" THEN 0
  ELSE size
Contents == View(EffHead, EffSize)

Fifo == INSTANCE BoundedFifo WITH len <- EffSize, items <- Contents

(* Concurrent calls behave as a bounded queue on which each happens at one *)
(* instant: order is kept across the wrap-around, a full buffer drops its  *)
(* oldest value, and a snapshot is the whole content of one moment.        *)
ImplementsBoundedFifo == Fifo!Spec

(* Every call returns. *)
CallsReturn == \A g \in Goroutines : pc[g] # "idle" ~> pc[g] = "idle"
=============================================================================
