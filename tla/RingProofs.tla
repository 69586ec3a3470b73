------------------------------- MODULE RingProofs -------------------------------
(***************************************************************************)
(* Proofs about the circular buffer of ds/ring.go behind its lock, for any *)
(* number of goroutines and buffers of any capacity: TypeOK and            *)
(* ImplementsBoundedFifo of SyncRing.tla, from RingInv; and about the      *)
(* searches of fn in such a buffer, SearchFindsOldest of RingSearch.tla.   *)
(***************************************************************************)
EXTENDS RingSearch, SequenceTheorems, WellFoundedInduction, TLAPS

(* The slot of logical index i when the content begins at slot h.          *)
Slot(h, i) == IF h + i < capacity THEN h + i ELSE h + i - capacity

(* Reduction modulo the capacity is one subtraction for the indexes in     *)
(* use.                                                                    *)
LEMMA Wraps ==
  ASSUME capacity \in Nat, capacity > 0, NEW h \in Slots, NEW i \in 0..capacity
  PROVE  (h + i) % capacity = Slot(h, i) /\ Slot(h, i) \in Slots
<1>1. PICK k \in 0..(2 * capacity - 1) : k = h + i
  BY DEF Slots
<1>2. k % capacity = IF k < capacity THEN k ELSE k - capacity
  OBVIOUS
<1> QED BY <1>1, <1>2 DEF Slot, Slots

-----------------------------------------------------------------------------
(* The invariant. *)

Places == {"idle"} \cup WriteSteps \cup ReadSteps \cup LockSteps \cup RLockSteps
Waits == {"wait push", "wait pop", "wait clear"}
Between == {"advance", "grow", "shrink", "reset"}

Types ==
  /\ capacity \in Capacities /\ capacity \in Nat
  /\ data \in [Slots -> Values \cup {Zero}]
  /\ head \in 0..capacity /\ (capacity > 0 => head < capacity)
  /\ size \in 0..capacity
  /\ writer \in Goroutines \cup {None}
  /\ readers \subseteq Goroutines
  /\ pc \in [Goroutines -> Places]
  /\ arg \in [Goroutines -> Values \cup {None}]
  /\ copied \in [Goroutines -> Views \cup {None}]
  /\ answer \in [Goroutines -> Values \cup Views \cup {None}]

(* The lock keeps a writer alone, and readers among themselves.            *)
Exclusive ==
  \A g \in Goroutines :
    /\ pc[g] \in WriteSteps \cup Waits => writer = g
    /\ pc[g] \in WriteSteps => readers = {}
    /\ pc[g] \in ReadSteps <=> g \in readers

(* What a method has found when it is between two of its assignments.      *)
Stages ==
  \A g \in Goroutines :
    /\ pc[g] \in {"lock push", "wait push", "push"} => arg[g] \in Values
    /\ pc[g] = "advance" => size = capacity /\ capacity > 0
    /\ pc[g] = "grow" => size < capacity
    /\ pc[g] = "shrink" => size > 0

(* The content is made of values that were pushed.                         *)
Filled == \A i \in 0..(EffSize - 1) : data[(EffHead + i) % capacity] \in Values

(* The first segment a snapshot copied is still what the buffer holds.     *)
Snapshots ==
  \A g \in Goroutines :
    pc[g] = "second" => copied[g] = [i \in 0..(FirstLen - 1) |-> data[head + i]]

RingInv == Types /\ Exclusive /\ Stages /\ Filled /\ Snapshots

-----------------------------------------------------------------------------
(* What a step moves. *)

(* One goroutine moves, and the others stay where they are.                *)
LEMMA GoMoves ==
  ASSUME Types, NEW g \in Goroutines, NEW from, NEW to \in Places, Go(g, from, to)
  PROVE  /\ pc[g] = from
         /\ pc' \in [Goroutines -> Places]
         /\ \A h \in Goroutines : pc'[h] = IF h = g THEN to ELSE pc[h]
BY DEF Go, Types

(* Outside the assignments of a writer the content is what the fields say. *)
LEMMA Rest ==
  ASSUME \A h \in Goroutines : pc[h] \notin Between
  PROVE  EffHead = head /\ EffSize = size
BY DEF EffHead, EffSize, Between

(* A step that leaves the ring and the writers' places in it alone leaves  *)
(* its content alone.                                                      *)
LEMMA RingRests ==
  ASSUME Filled, UNCHANGED <<capacity, ring>>,
         \A h \in Goroutines :
           /\ pc'[h] = "advance" <=> pc[h] = "advance"
           /\ pc'[h] = "grow" <=> pc[h] = "grow"
           /\ pc'[h] = "shrink" <=> pc[h] = "shrink"
           /\ pc'[h] = "reset" <=> pc[h] = "reset"
  PROVE  /\ EffSize' = EffSize /\ Contents' = Contents
         /\ Filled'
<1>1. UNCHANGED <<capacity, data, head, size>>
  BY DEF ring
<1>2. EffHead' = EffHead /\ EffSize' = EffSize
  BY <1>1 DEF EffHead, EffSize
<1>3. Contents' = Contents
  BY <1>1, <1>2 DEF Contents, View
<1>4. Filled'
  BY <1>1, <1>2 DEF Filled
<1> QED BY <1>2, <1>3, <1>4

(* A writer between two assignments: everybody else is out of the buffer.  *)
LEMMA WriterMoves ==
  ASSUME Types, Exclusive, NEW g \in Goroutines, NEW from \in WriteSteps, NEW to \in WriteSteps,
         Go(g, from, to), UNCHANGED <<capacity, lock>>
  PROVE  /\ pc[g] = from
         /\ pc' \in [Goroutines -> Places]
         /\ \A h \in Goroutines : pc'[h] = IF h = g THEN to ELSE pc[h]
         /\ \A h \in Goroutines : h # g => pc[h] \notin WriteSteps
         /\ Exclusive' /\ Snapshots'
<1>1. to \in Places
  BY DEF Places
<1>2. /\ pc[g] = from
      /\ pc' \in [Goroutines -> Places]
      /\ \A h \in Goroutines : pc'[h] = IF h = g THEN to ELSE pc[h]
  BY <1>1, GoMoves
<1>3. UNCHANGED <<writer, readers>> /\ writer = g /\ readers = {}
  BY <1>2 DEF Exclusive, lock
<1>4. \A h \in Goroutines : h # g => pc[h] \notin WriteSteps
  BY <1>3 DEF Exclusive
<1>5. \A h \in Goroutines : pc[h] \notin ReadSteps /\ pc'[h] \notin ReadSteps
  BY <1>2, <1>3 DEF Exclusive, WriteSteps, ReadSteps
<1>6. Exclusive'
  BY <1>2, <1>3, <1>5 DEF Exclusive, Waits
<1>7. Snapshots'
  BY <1>5 DEF Snapshots, ReadSteps
<1> QED BY <1>2, <1>4, <1>6, <1>7

-----------------------------------------------------------------------------
(* The steps that leave the ring alone. *)

(* A step that leaves the buffer alone and takes or gives no answer.       *)
LEMMA QuietStep ==
  ASSUME Types, Filled, UNCHANGED <<capacity, ring, answer>>,
         \A h \in Goroutines : pc'[h] # pc[h] => pc[h] \notin Between /\ pc'[h] \notin Between
  PROVE  Filled' /\ UNCHANGED Fifo!fifoVars
<1>1. \A h \in Goroutines :
        /\ pc'[h] = "advance" <=> pc[h] = "advance"
        /\ pc'[h] = "grow" <=> pc[h] = "grow"
        /\ pc'[h] = "shrink" <=> pc[h] = "shrink"
        /\ pc'[h] = "reset" <=> pc[h] = "reset"
  BY DEF Between
<1> QED BY <1>1, RingRests DEF Fifo!fifoVars

(* A goroutine calls Push.                                                 *)
LEMMA CallPushKeeps ==
  ASSUME RingInv, NEW g \in Goroutines, CallPush(g)
  PROVE  RingInv' /\ UNCHANGED Fifo!fifoVars
<1>0. Types /\ Exclusive /\ Stages /\ Filled /\ Snapshots
  BY DEF RingInv
<1>1. PICK v \in Values :
        /\ Go(g, "idle", "lock push") /\ arg' = [arg EXCEPT ![g] = v]
        /\ UNCHANGED <<capacity, data, head, size, ring, writer, readers, copied, answer>>
  BY DEF CallPush, ring, lock
<1>2. /\ pc[g] = "idle"
      /\ pc' \in [Goroutines -> Places]
      /\ \A h \in Goroutines : pc'[h] = IF h = g THEN "lock push" ELSE pc[h]
  BY <1>0, <1>1, GoMoves DEF Places, LockSteps
<1>3. /\ arg' \in [Goroutines -> Values \cup {None}]
      /\ \A h \in Goroutines : arg'[h] = IF h = g THEN v ELSE arg[h]
  BY <1>0, <1>1 DEF Types
<1>4. Types'
  BY <1>0, <1>1, <1>2, <1>3 DEF Types, Slots, Views
<1>5. Exclusive' /\ Stages'
  BY <1>0, <1>1, <1>2, <1>3 DEF Exclusive, Stages, WriteSteps, ReadSteps, Waits
<1>6. Snapshots'
  BY <1>0, <1>1, <1>2 DEF Snapshots, FirstLen
<1>7. Filled' /\ UNCHANGED Fifo!fifoVars
  BY <1>0, <1>1, <1>2, QuietStep DEF Between
<1> QED BY <1>4, <1>5, <1>6, <1>7 DEF RingInv

(* A goroutine calls one of the other methods.                             *)
LEMMA CallOtherKeeps ==
  ASSUME RingInv, NEW g \in Goroutines, CallOther(g)
  PROVE  RingInv' /\ UNCHANGED Fifo!fifoVars
<1>0. Types /\ Exclusive /\ Stages /\ Filled /\ Snapshots
  BY DEF RingInv
<1>1. PICK s \in {"lock pop", "lock clear", "rlock first", "rlock at"} :
        /\ Go(g, "idle", s)
        /\ UNCHANGED <<capacity, data, head, size, ring, writer, readers, arg, copied, answer>>
  BY DEF CallOther, ring, lock
<1>2. /\ pc[g] = "idle"
      /\ pc' \in [Goroutines -> Places]
      /\ \A h \in Goroutines : pc'[h] = IF h = g THEN s ELSE pc[h]
  BY <1>0, <1>1, GoMoves DEF Places, LockSteps, RLockSteps
<1>3. Types'
  BY <1>0, <1>1, <1>2 DEF Types, Slots, Views
<1>4. Exclusive' /\ Stages'
  BY <1>0, <1>1, <1>2 DEF Exclusive, Stages, WriteSteps, ReadSteps, Waits
<1>5. Snapshots'
  BY <1>0, <1>1, <1>2 DEF Snapshots, FirstLen
<1>6. Filled' /\ UNCHANGED Fifo!fifoVars
  BY <1>0, <1>1, <1>2, QuietStep DEF Between
<1> QED BY <1>3, <1>4, <1>5, <1>6 DEF RingInv

(* A writer takes the mutex of the lock, with readers still inside.        *)
LEMMA LockKeeps ==
  ASSUME RingInv, NEW g \in Goroutines, Lock(g)
  PROVE  RingInv' /\ UNCHANGED Fifo!fifoVars
<1>0. Types /\ Exclusive /\ Stages /\ Filled /\ Snapshots
  BY DEF RingInv
<1>1. PICK s \in LockSteps, t \in Waits :
        /\ Go(g, s, t) /\ writer = None /\ writer' = g
        /\ <<s, t>> \in {<<"lock push", "wait push">>, <<"lock pop", "wait pop">>,
                         <<"lock clear", "wait clear">>}
        /\ UNCHANGED <<capacity, data, head, size, ring, readers, arg, copied, answer>>
  BY DEF Lock, ring, LockSteps, Waits
<1>2. /\ pc[g] = s
      /\ pc' \in [Goroutines -> Places]
      /\ \A h \in Goroutines : pc'[h] = IF h = g THEN t ELSE pc[h]
  BY <1>0, <1>1, GoMoves DEF Places, LockSteps, Waits
<1>3. Types'
  BY <1>0, <1>1, <1>2 DEF Types, Slots, Views
<1>4. Exclusive'
  <2>1. \A h \in Goroutines : h # g => pc[h] \notin WriteSteps \cup Waits
    BY <1>0, <1>1, NoneAssumption DEF Exclusive
  <2>2. t \notin WriteSteps /\ t \notin ReadSteps /\ s \notin ReadSteps
    BY <1>1 DEF WriteSteps, ReadSteps, Waits
  <2> QED BY <1>0, <1>1, <1>2, <2>1, <2>2 DEF Exclusive
<1>5. Stages'
  BY <1>0, <1>1, <1>2 DEF Stages, Waits
<1>6. Snapshots'
  BY <1>0, <1>1, <1>2 DEF Snapshots, FirstLen, Waits
<1>7. Filled' /\ UNCHANGED Fifo!fifoVars
  BY <1>0, <1>1, <1>2, QuietStep DEF Between, LockSteps, Waits
<1> QED BY <1>3, <1>4, <1>5, <1>6, <1>7 DEF RingInv

(* The last reader has left and the writer enters.                         *)
LEMMA ReadersLeftKeeps ==
  ASSUME RingInv, NEW g \in Goroutines, ReadersLeft(g)
  PROVE  RingInv' /\ UNCHANGED Fifo!fifoVars
<1>0. Types /\ Exclusive /\ Stages /\ Filled /\ Snapshots
  BY DEF RingInv
<1>1. PICK s \in Waits, t \in {"push", "pop", "clear"} :
        /\ Go(g, s, t) /\ readers = {}
        /\ <<s, t>> \in {<<"wait push", "push">>, <<"wait pop", "pop">>, <<"wait clear", "clear">>}
        /\ UNCHANGED <<capacity, data, head, size, ring, writer, readers, arg, copied, answer>>
  BY DEF ReadersLeft, ring, lock, Waits
<1>2. /\ pc[g] = s
      /\ pc' \in [Goroutines -> Places]
      /\ \A h \in Goroutines : pc'[h] = IF h = g THEN t ELSE pc[h]
  BY <1>0, <1>1, GoMoves DEF Places, WriteSteps
<1>3. Types'
  BY <1>0, <1>1, <1>2 DEF Types, Slots, Views
<1>4. Exclusive'
  <2>1. t \notin ReadSteps /\ s \notin ReadSteps
    BY <1>1 DEF ReadSteps, Waits
  <2> QED BY <1>0, <1>1, <1>2, <2>1 DEF Exclusive
<1>5. Stages'
  BY <1>0, <1>1, <1>2 DEF Stages, Waits
<1>6. Snapshots'
  BY <1>0, <1>1, <1>2 DEF Snapshots, FirstLen, Waits
<1>7. Filled' /\ UNCHANGED Fifo!fifoVars
  BY <1>0, <1>1, <1>2, QuietStep DEF Between, Waits
<1> QED BY <1>3, <1>4, <1>5, <1>6, <1>7 DEF RingInv

(* A reader enters when no writer waits or is inside.                      *)
LEMMA RLockKeeps ==
  ASSUME RingInv, NEW g \in Goroutines, RLock(g)
  PROVE  RingInv' /\ UNCHANGED Fifo!fifoVars
<1>0. Types /\ Exclusive /\ Stages /\ Filled /\ Snapshots
  BY DEF RingInv
<1>1. PICK s \in RLockSteps, t \in {"first", "at"} :
        /\ Go(g, s, t) /\ writer = None /\ readers' = readers \cup {g}
        /\ UNCHANGED <<capacity, data, head, size, ring, writer, arg, copied, answer>>
  BY DEF RLock, ring, RLockSteps
<1>2. /\ pc[g] = s
      /\ pc' \in [Goroutines -> Places]
      /\ \A h \in Goroutines : pc'[h] = IF h = g THEN t ELSE pc[h]
  BY <1>0, <1>1, GoMoves DEF Places, ReadSteps
<1>3. Types'
  BY <1>0, <1>1, <1>2 DEF Types, Slots, Views
<1>4. Exclusive'
  <2>1. \A h \in Goroutines : pc[h] \notin WriteSteps \cup Waits
    BY <1>0, <1>1, NoneAssumption DEF Exclusive
  <2>2. t \in ReadSteps /\ t \notin WriteSteps \cup Waits
    BY <1>1 DEF WriteSteps, ReadSteps, Waits
  <2> QED BY <1>0, <1>1, <1>2, <2>1, <2>2 DEF Exclusive
<1>5. Stages'
  BY <1>0, <1>1, <1>2 DEF Stages
<1>6. Snapshots'
  BY <1>0, <1>1, <1>2 DEF Snapshots, FirstLen
<1>7. Filled' /\ UNCHANGED Fifo!fifoVars
  BY <1>0, <1>1, <1>2, QuietStep DEF Between, RLockSteps
<1> QED BY <1>3, <1>4, <1>5, <1>6, <1>7 DEF RingInv

(* Push on a buffer of capacity 0 returns at once.                         *)
LEMMA PushNothingKeeps ==
  ASSUME RingInv, NEW g \in Goroutines, PushNothing(g)
  PROVE  RingInv' /\ UNCHANGED Fifo!fifoVars
<1>0. Types /\ Exclusive /\ Stages /\ Filled /\ Snapshots
  BY DEF RingInv
<1>1. /\ Go(g, "push", "unlock") /\ arg' = [arg EXCEPT ![g] = None]
      /\ UNCHANGED <<capacity, data, head, size, ring, lock, writer, readers, copied, answer>>
  BY DEF PushNothing, ring, lock
<1>2. /\ pc[g] = "push"
      /\ pc' \in [Goroutines -> Places]
      /\ \A h \in Goroutines : pc'[h] = IF h = g THEN "unlock" ELSE pc[h]
      /\ Exclusive' /\ Snapshots'
  BY <1>0, <1>1, WriterMoves DEF WriteSteps
<1>3. /\ arg' \in [Goroutines -> Values \cup {None}]
      /\ \A h \in Goroutines : arg'[h] = IF h = g THEN None ELSE arg[h]
  BY <1>0, <1>1 DEF Types
<1>4. Types'
  BY <1>0, <1>1, <1>2, <1>3 DEF Types, Slots, Views
<1>5. Stages'
  BY <1>0, <1>1, <1>2, <1>3 DEF Stages
<1>6. Filled' /\ UNCHANGED Fifo!fifoVars
  BY <1>0, <1>1, <1>2, QuietStep DEF Between
<1> QED BY <1>2, <1>4, <1>5, <1>6 DEF RingInv

(* A step that only answers, or returns.                                   *)
LEMMA AnswerStep ==
  ASSUME Types, Filled, NEW g \in Goroutines, NEW a \in Values \cup Views \cup {None},
         UNCHANGED <<capacity, ring>>, answer' = [answer EXCEPT ![g] = a],
         \A h \in Goroutines : pc'[h] # pc[h] => pc[h] \notin Between /\ pc'[h] \notin Between
  PROVE  /\ Filled' /\ UNCHANGED <<capacity, EffSize, Contents>>
         /\ answer' \in [Goroutines -> Values \cup Views \cup {None}]
<1>1. \A h \in Goroutines :
        /\ pc'[h] = "advance" <=> pc[h] = "advance"
        /\ pc'[h] = "grow" <=> pc[h] = "grow"
        /\ pc'[h] = "shrink" <=> pc[h] = "shrink"
        /\ pc'[h] = "reset" <=> pc[h] = "reset"
  BY DEF Between
<1>2. Filled' /\ UNCHANGED <<capacity, EffSize, Contents>>
  BY <1>1, RingRests
<1>3. answer' \in [Goroutines -> Values \cup Views \cup {None}]
  BY DEF Types
<1> QED BY <1>2, <1>3

(* A writer leaves: its call returns what it answers.                      *)
LEMMA UnlockKeeps ==
  ASSUME RingInv, NEW g \in Goroutines, Unlock(g)
  PROVE  RingInv' /\ Fifo!Return(g)
<1>0. Types /\ Exclusive /\ Stages /\ Filled /\ Snapshots
  BY DEF RingInv
<1>1. /\ Go(g, "unlock", "idle") /\ writer' = None /\ answer' = [answer EXCEPT ![g] = None]
      /\ UNCHANGED <<capacity, data, head, size, ring, readers, arg, copied>>
  BY DEF Unlock, ring
<1>2. /\ pc[g] = "unlock"
      /\ pc' \in [Goroutines -> Places]
      /\ \A h \in Goroutines : pc'[h] = IF h = g THEN "idle" ELSE pc[h]
  BY <1>0, <1>1, GoMoves DEF Places
<1>3. /\ Filled' /\ UNCHANGED <<capacity, EffSize, Contents>>
      /\ answer' \in [Goroutines -> Values \cup Views \cup {None}]
  BY <1>0, <1>1, <1>2, AnswerStep DEF Between
<1>4. Types'
  BY <1>0, <1>1, <1>2, <1>3 DEF Types, Slots, Views
<1>5. Exclusive'
  <2>1. writer = g /\ \A h \in Goroutines : h # g => pc[h] \notin WriteSteps \cup Waits
    BY <1>0, <1>2 DEF Exclusive, WriteSteps
  <2> QED BY <1>0, <1>1, <1>2, <2>1 DEF Exclusive, WriteSteps, ReadSteps, Waits
<1>6. Stages' /\ Snapshots'
  BY <1>0, <1>1, <1>2 DEF Stages, Snapshots, FirstLen
<1>7. Fifo!Return(g)
  BY <1>1, <1>3 DEF Fifo!Return
<1> QED BY <1>3, <1>4, <1>5, <1>6, <1>7 DEF RingInv

(* A reader leaves: its call returns what it answers.                      *)
LEMMA RUnlockKeeps ==
  ASSUME RingInv, NEW g \in Goroutines, RUnlock(g)
  PROVE  RingInv' /\ Fifo!Return(g)
<1>0. Types /\ Exclusive /\ Stages /\ Filled /\ Snapshots
  BY DEF RingInv
<1>1. /\ Go(g, "runlock", "idle") /\ readers' = readers \ {g}
      /\ answer' = [answer EXCEPT ![g] = None]
      /\ UNCHANGED <<capacity, data, head, size, ring, writer, arg, copied>>
  BY DEF RUnlock, ring
<1>2. /\ pc[g] = "runlock"
      /\ pc' \in [Goroutines -> Places]
      /\ \A h \in Goroutines : pc'[h] = IF h = g THEN "idle" ELSE pc[h]
  BY <1>0, <1>1, GoMoves DEF Places
<1>3. /\ Filled' /\ UNCHANGED <<capacity, EffSize, Contents>>
      /\ answer' \in [Goroutines -> Values \cup Views \cup {None}]
  BY <1>0, <1>1, <1>2, AnswerStep DEF Between
<1>4. Types'
  BY <1>0, <1>1, <1>2, <1>3 DEF Types, Slots, Views
<1>5. Exclusive'
  BY <1>0, <1>1, <1>2 DEF Exclusive, WriteSteps, ReadSteps, Waits
<1>6. Stages' /\ Snapshots'
  BY <1>0, <1>1, <1>2 DEF Stages, Snapshots, FirstLen
<1>7. Fifo!Return(g)
  BY <1>1, <1>3 DEF Fifo!Return
<1> QED BY <1>3, <1>4, <1>5, <1>6, <1>7 DEF RingInv

(* Pop on an empty buffer answers that there is nothing.                   *)
LEMMA PopEmptyKeeps ==
  ASSUME RingInv, NEW g \in Goroutines, PopEmpty(g)
  PROVE  RingInv' /\ Fifo!PopEmpty(g)
<1>0. Types /\ Exclusive /\ Stages /\ Filled /\ Snapshots
  BY DEF RingInv
<1>1. /\ size = 0 /\ Go(g, "pop", "unlock") /\ answer' = [answer EXCEPT ![g] = None]
      /\ UNCHANGED <<capacity, data, head, size, ring, lock, writer, readers, arg, copied>>
  BY DEF PopEmpty, ring, lock
<1>2. /\ pc[g] = "pop"
      /\ pc' \in [Goroutines -> Places]
      /\ \A h \in Goroutines : pc'[h] = IF h = g THEN "unlock" ELSE pc[h]
      /\ \A h \in Goroutines : h # g => pc[h] \notin WriteSteps
      /\ Exclusive' /\ Snapshots'
  BY <1>0, <1>1, WriterMoves DEF WriteSteps
<1>3. /\ Filled' /\ UNCHANGED <<capacity, EffSize, Contents>>
      /\ answer' \in [Goroutines -> Values \cup Views \cup {None}]
  BY <1>0, <1>1, <1>2, AnswerStep DEF Between
<1>4. Types'
  BY <1>0, <1>1, <1>2, <1>3 DEF Types, Slots, Views
<1>5. Stages'
  BY <1>0, <1>1, <1>2 DEF Stages
<1>6. Fifo!PopEmpty(g)
  <2>1. EffSize = 0
    BY <1>1, <1>2, Rest DEF Between, WriteSteps
  <2> QED BY <1>1, <1>3, <2>1 DEF Fifo!PopEmpty
<1> QED BY <1>2, <1>3, <1>4, <1>5, <1>6 DEF RingInv

(* While somebody reads, no writer is in the buffer.                       *)
LEMMA ReaderRests ==
  ASSUME RingInv, NEW g \in Goroutines, pc[g] \in ReadSteps
  PROVE  /\ \A h \in Goroutines : pc[h] \notin WriteSteps
         /\ EffHead = head /\ EffSize = size
         /\ Contents = [i \in 0..(size - 1) |-> data[(head + i) % capacity]]
         /\ Contents \in Views
<1>1. \A h \in Goroutines : pc[h] \notin WriteSteps
  BY DEF RingInv, Exclusive
<1>2. EffHead = head /\ EffSize = size
  BY <1>1, Rest DEF Between, WriteSteps
<1>3. Contents = [i \in 0..(size - 1) |-> data[(head + i) % capacity]]
  BY <1>2 DEF Contents, View
<1>4. Contents \in [0..(size - 1) -> Values]
  BY <1>2, <1>3 DEF RingInv, Filled
<1>5. size \in 0..capacity
  BY DEF RingInv, Types
<1> QED BY <1>1, <1>2, <1>3, <1>4, <1>5 DEF Views

(* The two segments are the content.                                       *)
LEMMA Segments ==
  ASSUME Types
  PROVE  /\ FirstLen \in 0..size
         /\ \A i \in 0..(size - 1) :
              (head + i) % capacity = IF i < FirstLen THEN head + i ELSE i - FirstLen
<1>1. /\ capacity \in Nat /\ head \in 0..capacity /\ (capacity > 0 => head < capacity)
      /\ size \in 0..capacity
  BY DEF Types
<1>2. FirstLen \in 0..size
  BY <1>1 DEF FirstLen
<1>3. ASSUME NEW i \in 0..(size - 1)
      PROVE  (head + i) % capacity = IF i < FirstLen THEN head + i ELSE i - FirstLen
  <2>1. capacity > 0 /\ head \in Slots /\ i \in 0..capacity
    BY <1>1 DEF Slots
  <2>2. (head + i) % capacity = Slot(head, i)
    BY <1>1, <2>1, Wraps
  <2> QED BY <1>1, <2>1, <2>2 DEF Slot, FirstLen
<1> QED BY <1>2, <1>3

(* A snapshot copies the first segment, which no writer can change now.    *)
LEMMA CopyFirstKeeps ==
  ASSUME RingInv, NEW g \in Goroutines, CopyFirst(g)
  PROVE  RingInv' /\ UNCHANGED Fifo!fifoVars
<1>0. Types /\ Exclusive /\ Stages /\ Filled /\ Snapshots
  BY DEF RingInv
<1>1. PICK c : c = [i \in 0..(FirstLen - 1) |-> data[head + i]]
  OBVIOUS
<1>2. /\ Go(g, "first", "second") /\ copied' = [copied EXCEPT ![g] = c]
      /\ UNCHANGED <<capacity, data, head, size, ring, writer, readers, arg, answer>>
  BY <1>1 DEF CopyFirst, ring, lock
<1>3. /\ pc[g] = "first"
      /\ pc' \in [Goroutines -> Places]
      /\ \A h \in Goroutines : pc'[h] = IF h = g THEN "second" ELSE pc[h]
  BY <1>0, <1>2, GoMoves DEF Places, ReadSteps
<1>4. c \in Views
  <2>1. FirstLen \in 0..size /\ size \in 0..capacity /\ capacity \in Nat
    BY <1>0, Segments DEF Types
  <2>2. \A i \in 0..(FirstLen - 1) : data[head + i] \in Values
    <3>1. EffHead = head /\ EffSize = size
      BY <1>3, ReaderRests DEF ReadSteps
    <3>2. \A i \in 0..(size - 1) : data[(head + i) % capacity] \in Values
      BY <1>0, <3>1 DEF Filled
    <3>3. \A i \in 0..(FirstLen - 1) : i \in 0..(size - 1) /\ (head + i) % capacity = head + i
      BY <1>0, <2>1, Segments
    <3> QED BY <3>2, <3>3
  <2>3. c \in [0..(FirstLen - 1) -> Values]
    BY <1>1, <2>2
  <2>4. FirstLen \in 0..capacity
    BY <2>1
  <2> QED BY <2>3, <2>4 DEF Views
<1>5. /\ copied' \in [Goroutines -> Views \cup {None}]
      /\ \A h \in Goroutines : copied'[h] = IF h = g THEN c ELSE copied[h]
  BY <1>0, <1>2, <1>4 DEF Types
<1>6. Types'
  BY <1>0, <1>2, <1>3, <1>5 DEF Types, Slots, Views
<1>7. Exclusive' /\ Stages'
  BY <1>0, <1>2, <1>3 DEF Exclusive, Stages, WriteSteps, ReadSteps, Waits
<1>8. Snapshots'
  BY <1>0, <1>1, <1>2, <1>3, <1>5 DEF Snapshots, FirstLen
<1>9. Filled' /\ UNCHANGED Fifo!fifoVars
  BY <1>0, <1>2, <1>3, QuietStep DEF Between
<1> QED BY <1>6, <1>7, <1>8, <1>9 DEF RingInv

(* A snapshot that has copied both segments is the queue at this moment.   *)
LEMMA CopySecondKeeps ==
  ASSUME RingInv, NEW g \in Goroutines, CopySecond(g)
  PROVE  RingInv' /\ Fifo!Snapshot(g)
<1>0. Types /\ Exclusive /\ Stages /\ Filled /\ Snapshots
  BY DEF RingInv
<1>1. PICK a : a = [i \in 0..(size - 1) |->
                     IF i < FirstLen THEN copied[g][i] ELSE data[i - FirstLen]]
  OBVIOUS
<1>2. /\ Go(g, "second", "runlock")
      /\ answer' = [answer EXCEPT ![g] = a] /\ copied' = [copied EXCEPT ![g] = None]
      /\ UNCHANGED <<capacity, data, head, size, ring, writer, readers, arg>>
  BY <1>1 DEF CopySecond, ring, lock
<1>3. /\ pc[g] = "second"
      /\ pc' \in [Goroutines -> Places]
      /\ \A h \in Goroutines : pc'[h] = IF h = g THEN "runlock" ELSE pc[h]
  BY <1>0, <1>2, GoMoves DEF Places, ReadSteps
<1>4. a = Contents /\ a \in Views
  <2>1. Contents = [i \in 0..(size - 1) |-> data[(head + i) % capacity]] /\ Contents \in Views
    BY <1>3, ReaderRests DEF ReadSteps
  <2>2. copied[g] = [i \in 0..(FirstLen - 1) |-> data[head + i]]
    BY <1>0, <1>3 DEF Snapshots
  <2>3. \A i \in 0..(size - 1) :
          (IF i < FirstLen THEN copied[g][i] ELSE data[i - FirstLen]) = data[(head + i) % capacity]
    <3> SUFFICES ASSUME NEW i \in 0..(size - 1)
                 PROVE  (IF i < FirstLen THEN copied[g][i] ELSE data[i - FirstLen])
                          = data[(head + i) % capacity]
      OBVIOUS
    <3>1. (head + i) % capacity = IF i < FirstLen THEN head + i ELSE i - FirstLen
      BY <1>0, Segments
    <3>2. i < FirstLen => i \in 0..(FirstLen - 1)
      BY <1>0, Segments DEF Types
    <3> QED BY <2>2, <3>1, <3>2
  <2> QED BY <1>1, <2>1, <2>3
<1>5. /\ copied' \in [Goroutines -> Views \cup {None}]
      /\ \A h \in Goroutines : copied'[h] = IF h = g THEN None ELSE copied[h]
  BY <1>0, <1>2 DEF Types
<1>6. /\ Filled' /\ UNCHANGED <<capacity, EffSize, Contents>>
      /\ answer' \in [Goroutines -> Values \cup Views \cup {None}]
  BY <1>0, <1>2, <1>3, <1>4, AnswerStep DEF Between
<1>7. Types'
  BY <1>0, <1>2, <1>3, <1>5, <1>6 DEF Types, Slots, Views
<1>8. Exclusive' /\ Stages'
  BY <1>0, <1>2, <1>3 DEF Exclusive, Stages, WriteSteps, ReadSteps, Waits
<1>9. Snapshots'
  BY <1>0, <1>2, <1>3, <1>5 DEF Snapshots, FirstLen
<1>10. Fifo!Snapshot(g)
  BY <1>2, <1>4, <1>6 DEF Fifo!Snapshot
<1> QED BY <1>6, <1>7, <1>8, <1>9, <1>10 DEF RingInv

(* At answers with a value of the queue, or that there is none.            *)
LEMMA ReadAtKeeps ==
  ASSUME RingInv, NEW g \in Goroutines, ReadAt(g)
  PROVE  RingInv' /\ \E i \in 0..capacity : Fifo!At(g, i)
<1>0. Types /\ Exclusive /\ Stages /\ Filled /\ Snapshots
  BY DEF RingInv
<1>1. PICK i \in 0..capacity :
        /\ Go(g, "at", "runlock")
        /\ answer' = [answer EXCEPT ![g] =
                       IF i < size THEN data[(head + i) % capacity] ELSE None]
        /\ UNCHANGED <<capacity, data, head, size, ring, writer, readers, arg, copied>>
  BY DEF ReadAt, ring, lock
<1>2. PICK a : a = IF i < size THEN data[(head + i) % capacity] ELSE None
  OBVIOUS
<1>3. /\ pc[g] = "at"
      /\ pc' \in [Goroutines -> Places]
      /\ \A h \in Goroutines : pc'[h] = IF h = g THEN "runlock" ELSE pc[h]
  BY <1>0, <1>1, GoMoves DEF Places, ReadSteps
<1>4. /\ a = (IF i < EffSize THEN Contents[i] ELSE None) /\ a \in Values \cup {None}
  <2>1. /\ EffSize = size /\ EffHead = head
        /\ Contents = [j \in 0..(size - 1) |-> data[(head + j) % capacity]]
    BY <1>3, ReaderRests DEF ReadSteps
  <2>2. i < size => i \in 0..(size - 1)
    BY <1>0 DEF Types
  <2> QED BY <1>0, <1>2, <2>1, <2>2 DEF Filled
<1>5. /\ Filled' /\ UNCHANGED <<capacity, EffSize, Contents>>
      /\ answer' \in [Goroutines -> Values \cup Views \cup {None}]
  <2>1. answer' = [answer EXCEPT ![g] = a] /\ a \in Values \cup Views \cup {None}
    BY <1>1, <1>2, <1>4
  <2> QED BY <1>0, <1>1, <1>3, <2>1, AnswerStep DEF Between
<1>6. Types'
  BY <1>0, <1>1, <1>3, <1>5 DEF Types, Slots, Views
<1>7. Exclusive' /\ Stages'
  BY <1>0, <1>1, <1>3 DEF Exclusive, Stages, WriteSteps, ReadSteps, Waits
<1>8. Snapshots'
  BY <1>0, <1>1, <1>3 DEF Snapshots, FirstLen
<1>9. Fifo!At(g, i)
  BY <1>1, <1>2, <1>4, <1>5 DEF Fifo!At
<1> QED BY <1>5, <1>6, <1>7, <1>8, <1>9 DEF RingInv

-----------------------------------------------------------------------------
(* The steps that change the ring. *)

(* The place of the one writer decides what the content is.                *)
LEMMA WriterPlace ==
  ASSUME NEW g \in Goroutines, \A h \in Goroutines : h # g => pc[h] \notin WriteSteps
  PROVE  /\ EffHead = IF pc[g] = "advance" THEN (head + 1) % capacity ELSE head
         /\ EffSize = IF pc[g] = "grow" THEN size + 1
                      ELSE IF pc[g] = "shrink" THEN size - 1
                      ELSE IF pc[g] = "reset" THEN 0 ELSE size
BY DEF EffHead, EffSize, WriteSteps

(* ... after its step as well.                                             *)
LEMMA WriterPlaceAfter ==
  ASSUME NEW g \in Goroutines, NEW to, NEW from \in WriteSteps,
         \A h \in Goroutines : h # g => pc[h] \notin WriteSteps,
         \A h \in Goroutines : pc'[h] = IF h = g THEN to ELSE pc[h]
  PROVE  /\ EffHead' = IF to = "advance" THEN (head' + 1) % capacity' ELSE head'
         /\ EffSize' = IF to = "grow" THEN size' + 1
                       ELSE IF to = "shrink" THEN size' - 1
                       ELSE IF to = "reset" THEN 0 ELSE size'
BY DEF EffHead, EffSize, WriteSteps

(* Push writes over the oldest slot of a full buffer; the queue drops it   *)
(* here.                                                                   *)
LEMMA PushFullKeeps ==
  ASSUME RingInv, NEW g \in Goroutines, PushFull(g)
  PROVE  RingInv' /\ \E v \in Values : Fifo!PushOverOldest(v)
<1>0. Types /\ Exclusive /\ Stages /\ Filled /\ Snapshots
  BY DEF RingInv
<1>1. /\ capacity > 0 /\ size = capacity
      /\ Go(g, "push", "advance")
      /\ data' = [data EXCEPT ![head] = arg[g]] /\ arg' = [arg EXCEPT ![g] = None]
      /\ UNCHANGED <<capacity, head, size, lock, writer, readers, copied, answer>>
  BY DEF PushFull, lock
<1>2. /\ pc[g] = "push"
      /\ pc' \in [Goroutines -> Places]
      /\ \A h \in Goroutines : pc'[h] = IF h = g THEN "advance" ELSE pc[h]
      /\ \A h \in Goroutines : h # g => pc[h] \notin WriteSteps
      /\ Exclusive' /\ Snapshots'
  BY <1>0, <1>1, WriterMoves DEF WriteSteps
<1>3. PICK v \in Values : v = arg[g]
  BY <1>0, <1>2 DEF Stages
<1>4. /\ EffHead = head /\ EffSize = size
      /\ EffHead' = (head + 1) % capacity /\ EffSize' = size
  BY <1>1, <1>2, WriterPlace, WriterPlaceAfter DEF WriteSteps
<1>5. /\ capacity \in Nat /\ head \in Slots /\ 0 \in Slots
      /\ data \in [Slots -> Values \cup {Zero}]
  BY <1>0, <1>1 DEF Types, Slots
<1>6. /\ data' \in [Slots -> Values \cup {Zero}]
      /\ \A k \in Slots : data'[k] = IF k = head THEN v ELSE data[k]
  BY <1>1, <1>3, <1>5
<1>7. /\ arg' \in [Goroutines -> Values \cup {None}]
      /\ \A h \in Goroutines : arg'[h] = IF h = g THEN None ELSE arg[h]
  BY <1>0, <1>1 DEF Types
<1>8. \A i \in 0..(size - 1) :
        data'[(EffHead' + i) % capacity] =
          IF i < size - 1 THEN data[(head + (i + 1)) % capacity] ELSE v
  <2> SUFFICES ASSUME NEW i \in 0..(size - 1)
               PROVE  data'[(EffHead' + i) % capacity] =
                        IF i < size - 1 THEN data[(head + (i + 1)) % capacity] ELSE v
    OBVIOUS
  <2>1. i \in 0..capacity /\ i + 1 \in 0..capacity /\ 1 \in 0..capacity
    BY <1>1, <1>5
  <2>2. PICK s \in Slots : EffHead' = s /\ s = Slot(head, 1)
    BY <1>1, <1>4, <1>5, <2>1, Wraps
  <2>3. (s + i) % capacity = Slot(s, i) /\ Slot(s, i) \in Slots
    BY <1>1, <1>5, <2>1, Wraps
  <2>4. (head + (i + 1)) % capacity = Slot(head, i + 1)
    BY <1>1, <1>5, <2>1, Wraps
  <2>5. Slot(s, i) = Slot(head, i + 1)
    BY <1>1, <1>5, <2>2 DEF Slot, Slots
  <2>6. (Slot(head, i + 1) = head) <=> (i = size - 1)
    BY <1>1, <1>5 DEF Slot, Slots
  <2>7. data'[Slot(s, i)] = IF i < size - 1 THEN data[Slot(s, i)] ELSE v
    BY <1>1, <1>5, <1>6, <2>3, <2>5, <2>6
  <2> QED BY <2>2, <2>3, <2>4, <2>5, <2>7
<1>9. Types'
  BY <1>0, <1>1, <1>2, <1>6, <1>7 DEF Types, Slots, Views
<1>10. Stages'
  BY <1>0, <1>1, <1>2, <1>7 DEF Stages, WriteSteps
<1>11. Filled'
  <2>1. \A i \in 0..(size - 1) : i < size - 1 => data[(head + (i + 1)) % capacity] \in Values
    <3>1. \A j \in 0..(size - 1) : data[(head + j) % capacity] \in Values
      BY <1>0, <1>4 DEF Filled
    <3> QED BY <1>1, <1>5, <3>1
  <2> QED BY <1>1, <1>4, <1>8, <2>1 DEF Filled
<1>12. Fifo!PushOverOldest(v)
  <2>1. /\ Contents = [i \in 0..(size - 1) |-> data[(head + i) % capacity]]
        /\ Contents' = [i \in 0..(size - 1) |-> data'[(EffHead' + i) % capacity]]
    BY <1>1, <1>4 DEF Contents, View
  <2>2. \A i \in 0..(size - 1) : i < size - 1 => Contents[i + 1] = data[(head + (i + 1)) % capacity]
    BY <1>0, <2>1 DEF Types
  <2>3. Contents' = [i \in 0..(size - 1) |-> IF i < size - 1 THEN Contents[i + 1] ELSE v]
    BY <1>8, <2>1, <2>2
  <2> QED BY <1>1, <1>4, <2>3 DEF Fifo!PushOverOldest
<1> QED BY <1>2, <1>9, <1>10, <1>11, <1>12 DEF RingInv

(* Push advances head, which the queue has seen already.                   *)
LEMMA AdvanceHeadKeeps ==
  ASSUME RingInv, NEW g \in Goroutines, AdvanceHead(g)
  PROVE  RingInv' /\ UNCHANGED Fifo!fifoVars
<1>0. Types /\ Exclusive /\ Stages /\ Filled /\ Snapshots
  BY DEF RingInv
<1>1. /\ Go(g, "advance", "unlock")
      /\ head' = (head + 1) % capacity
      /\ UNCHANGED <<capacity, data, size, lock, writer, readers, arg, copied, answer>>
  BY DEF AdvanceHead, lock
<1>2. /\ pc[g] = "advance"
      /\ pc' \in [Goroutines -> Places]
      /\ \A h \in Goroutines : pc'[h] = IF h = g THEN "unlock" ELSE pc[h]
      /\ \A h \in Goroutines : h # g => pc[h] \notin WriteSteps
      /\ Exclusive' /\ Snapshots'
  BY <1>0, <1>1, WriterMoves DEF WriteSteps
<1>3. EffHead' = EffHead /\ EffSize' = EffSize
  BY <1>1, <1>2, WriterPlace, WriterPlaceAfter DEF WriteSteps
<1>4. head' \in Slots
  <2>1. capacity > 0
    BY <1>0, <1>2 DEF Stages
  <2>2. capacity \in Nat /\ head \in Slots /\ 1 \in 0..capacity
    BY <1>0, <2>1 DEF Types, Slots
  <2> QED BY <1>1, <2>1, <2>2, Wraps
<1>5. Types'
  <2>1. head' \in 0..capacity /\ head' < capacity
    BY <1>0, <1>4 DEF Slots, Types
  <2> QED BY <1>0, <1>1, <1>2, <2>1 DEF Types, Slots, Views
<1>6. Stages'
  BY <1>0, <1>1, <1>2 DEF Stages
<1>7. Filled' /\ Contents' = Contents
  BY <1>0, <1>1, <1>3 DEF Filled, Contents, View
<1> QED BY <1>1, <1>2, <1>3, <1>5, <1>6, <1>7 DEF RingInv, Fifo!fifoVars

(* Push writes behind the newest value; the queue grows here.              *)
LEMMA PushWithRoomKeeps ==
  ASSUME RingInv, NEW g \in Goroutines, PushWithRoom(g)
  PROVE  RingInv' /\ \E v \in Values : Fifo!Push(v)
<1>0. Types /\ Exclusive /\ Stages /\ Filled /\ Snapshots
  BY DEF RingInv
<1>1. /\ size < capacity
      /\ Go(g, "push", "grow")
      /\ data' = [data EXCEPT ![(head + size) % capacity] = arg[g]]
      /\ arg' = [arg EXCEPT ![g] = None]
      /\ UNCHANGED <<capacity, head, size, lock, writer, readers, copied, answer>>
  BY DEF PushWithRoom, lock
<1>2. /\ pc[g] = "push"
      /\ pc' \in [Goroutines -> Places]
      /\ \A h \in Goroutines : pc'[h] = IF h = g THEN "grow" ELSE pc[h]
      /\ \A h \in Goroutines : h # g => pc[h] \notin WriteSteps
      /\ Exclusive' /\ Snapshots'
  BY <1>0, <1>1, WriterMoves DEF WriteSteps
<1>3. PICK v \in Values : v = arg[g]
  BY <1>0, <1>2 DEF Stages
<1>4. EffHead = head /\ EffSize = size /\ EffHead' = head /\ EffSize' = size + 1
  BY <1>1, <1>2, WriterPlace, WriterPlaceAfter DEF WriteSteps
<1>5. /\ capacity \in Nat /\ capacity > 0 /\ head \in Slots /\ size \in 0..capacity
      /\ data \in [Slots -> Values \cup {Zero}]
  BY <1>0, <1>1 DEF Types, Slots
<1>6. /\ data' \in [Slots -> Values \cup {Zero}]
      /\ \A k \in Slots : data'[k] = IF k = Slot(head, size) THEN v ELSE data[k]
  <2>1. (head + size) % capacity = Slot(head, size) /\ Slot(head, size) \in Slots
    BY <1>5, Wraps
  <2> QED BY <1>1, <1>3, <1>5, <2>1
<1>7. /\ arg' \in [Goroutines -> Values \cup {None}]
      /\ \A h \in Goroutines : arg'[h] = IF h = g THEN None ELSE arg[h]
  BY <1>0, <1>1 DEF Types
<1>8. \A i \in 0..size :
        data'[(head + i) % capacity] = IF i < size THEN data[(head + i) % capacity] ELSE v
  <2> SUFFICES ASSUME NEW i \in 0..size
               PROVE  data'[(head + i) % capacity] =
                        IF i < size THEN data[(head + i) % capacity] ELSE v
    OBVIOUS
  <2>1. (head + i) % capacity = Slot(head, i) /\ Slot(head, i) \in Slots
    BY <1>1, <1>5, Wraps
  <2>2. Slot(head, i) = Slot(head, size) <=> i = size
    BY <1>1, <1>5 DEF Slot, Slots
  <2> QED BY <1>5, <1>6, <2>1, <2>2
<1>9. Types'
  BY <1>0, <1>1, <1>2, <1>6, <1>7 DEF Types, Slots, Views
<1>10. Stages'
  BY <1>0, <1>1, <1>2, <1>7 DEF Stages, WriteSteps
<1>11. Filled'
  <2>1. \A i \in 0..(size - 1) : data[(head + i) % capacity] \in Values
    BY <1>0, <1>4 DEF Filled
  <2>2. \A i \in 0..size : data'[(head + i) % capacity] \in Values
    BY <1>5, <1>8, <2>1
  <2>3. EffSize' - 1 = size
    BY <1>4, <1>5
  <2> QED BY <1>1, <1>4, <2>2, <2>3 DEF Filled
<1>12. Fifo!Push(v)
  <2>1. /\ Contents = [i \in 0..(size - 1) |-> data[(head + i) % capacity]]
        /\ Contents' = [i \in 0..size |-> data'[(head + i) % capacity]]
    <3>1. EffSize' - 1 = size
      BY <1>4, <1>5
    <3> QED BY <1>1, <1>4, <3>1 DEF Contents, View
  <2>2. Contents' = [i \in 0..size |-> IF i < size THEN Contents[i] ELSE v]
    BY <1>5, <1>8, <2>1
  <2> QED BY <1>1, <1>4, <2>2 DEF Fifo!Push
<1> QED BY <1>2, <1>9, <1>10, <1>11, <1>12 DEF RingInv

(* Push counts the value, which the queue has seen already.                *)
LEMMA GrowKeeps ==
  ASSUME RingInv, NEW g \in Goroutines, Grow(g)
  PROVE  RingInv' /\ UNCHANGED Fifo!fifoVars
<1>0. Types /\ Exclusive /\ Stages /\ Filled /\ Snapshots
  BY DEF RingInv
<1>1. /\ Go(g, "grow", "unlock")
      /\ size' = size + 1
      /\ UNCHANGED <<capacity, data, head, lock, writer, readers, arg, copied, answer>>
  BY DEF Grow, lock
<1>2. /\ pc[g] = "grow"
      /\ pc' \in [Goroutines -> Places]
      /\ \A h \in Goroutines : pc'[h] = IF h = g THEN "unlock" ELSE pc[h]
      /\ \A h \in Goroutines : h # g => pc[h] \notin WriteSteps
      /\ Exclusive' /\ Snapshots'
  BY <1>0, <1>1, WriterMoves DEF WriteSteps
<1>3. EffHead' = EffHead /\ EffSize' = EffSize
  BY <1>1, <1>2, WriterPlace, WriterPlaceAfter DEF WriteSteps
<1>4. Types'
  <2>1. size \in 0..capacity /\ capacity \in Nat
    BY <1>0 DEF Types
  <2>2. size < capacity
    BY <1>0, <1>2 DEF Stages
  <2>3. size' \in 0..capacity
    BY <1>1, <2>1, <2>2
  <2> QED BY <1>0, <1>1, <1>2, <2>3 DEF Types, Slots, Views
<1>5. Stages'
  BY <1>0, <1>1, <1>2 DEF Stages, WriteSteps
<1>6. Filled' /\ Contents' = Contents
  BY <1>0, <1>1, <1>3 DEF Filled, Contents, View
<1> QED BY <1>1, <1>2, <1>3, <1>4, <1>5, <1>6 DEF RingInv, Fifo!fifoVars

(* Pop takes the oldest value and moves head; the queue shrinks here.      *)
LEMMA PopHeadKeeps ==
  ASSUME RingInv, NEW g \in Goroutines, PopHead(g)
  PROVE  RingInv' /\ Fifo!Pop(g)
<1>0. Types /\ Exclusive /\ Stages /\ Filled /\ Snapshots
  BY DEF RingInv
<1>1. /\ size > 0
      /\ Go(g, "pop", "shrink")
      /\ answer' = [answer EXCEPT ![g] = data[head]]
      /\ head' = (head + 1) % capacity
      /\ UNCHANGED <<capacity, data, size, lock, writer, readers, arg, copied>>
  BY DEF PopHead, lock
<1>2. /\ pc[g] = "pop"
      /\ pc' \in [Goroutines -> Places]
      /\ \A h \in Goroutines : pc'[h] = IF h = g THEN "shrink" ELSE pc[h]
      /\ \A h \in Goroutines : h # g => pc[h] \notin WriteSteps
      /\ Exclusive' /\ Snapshots'
  BY <1>0, <1>1, WriterMoves DEF WriteSteps
<1>3. EffHead = head /\ EffSize = size /\ EffHead' = head' /\ EffSize' = size - 1
  BY <1>1, <1>2, WriterPlace, WriterPlaceAfter DEF WriteSteps
<1>4. capacity \in Nat /\ capacity > 0 /\ head \in Slots /\ size \in 0..capacity /\ size > 0
  BY <1>0, <1>1 DEF Types, Slots
<1>5. head' = Slot(head, 1) /\ head' \in Slots
  BY <1>1, <1>4, Wraps
<1>6. \A i \in 0..(size - 2) : (head' + i) % capacity = (head + (i + 1)) % capacity
  <2> SUFFICES ASSUME NEW i \in 0..(size - 2)
               PROVE  (head' + i) % capacity = (head + (i + 1)) % capacity
    OBVIOUS
  <2>1. /\ (head' + i) % capacity = Slot(head', i)
        /\ (head + (i + 1)) % capacity = Slot(head, i + 1)
    BY <1>4, <1>5, Wraps
  <2> QED BY <1>4, <1>5, <2>1 DEF Slot, Slots
<1>7. Contents = [i \in 0..(size - 1) |-> data[(head + i) % capacity]]
  BY <1>3 DEF Contents, View
<1>8. data[head] = Contents[0] /\ data[head] \in Values
  <2>1. (head + 0) % capacity = head
    BY <1>4, Wraps DEF Slot, Slots
  <2>2. 0 \in 0..(size - 1)
    BY <1>4
  <2> QED BY <1>0, <1>3, <1>7, <2>1, <2>2 DEF Filled
<1>9. answer' \in [Goroutines -> Values \cup Views \cup {None}]
  BY <1>0, <1>1, <1>8 DEF Types
<1>10. Types'
  <2>1. head' \in 0..capacity /\ head' < capacity
    BY <1>4, <1>5 DEF Slots
  <2> QED BY <1>0, <1>1, <1>2, <1>9, <2>1 DEF Types, Slots, Views
<1>11. Stages'
  BY <1>0, <1>1, <1>2 DEF Stages, WriteSteps
<1>12. Filled'
  <2>1. \A i \in 0..(size - 2) : data[(head + (i + 1)) % capacity] \in Values
    BY <1>0, <1>3, <1>4 DEF Filled
  <2>2. EffSize' - 1 = size - 2
    BY <1>3, <1>4
  <2> QED BY <1>1, <1>3, <1>6, <2>1, <2>2 DEF Filled
<1>13. Fifo!Pop(g)
  <2>1. Contents' = [i \in 0..(size - 2) |-> data[(head' + i) % capacity]]
    <3>1. EffSize' - 1 = size - 2
      BY <1>3, <1>4
    <3> QED BY <1>1, <1>3, <3>1 DEF Contents, View
  <2>2. \A i \in 0..(size - 2) : Contents[i + 1] = data[(head + (i + 1)) % capacity]
    BY <1>4, <1>7
  <2>3. Contents' = [i \in 0..(size - 2) |-> Contents[i + 1]]
    BY <1>6, <2>1, <2>2
  <2> QED BY <1>1, <1>3, <1>8, <2>3 DEF Fifo!Pop
<1> QED BY <1>2, <1>10, <1>11, <1>12, <1>13 DEF RingInv

(* Pop counts the value out, which the queue has seen already.             *)
LEMMA ShrinkKeeps ==
  ASSUME RingInv, NEW g \in Goroutines, Shrink(g)
  PROVE  RingInv' /\ UNCHANGED Fifo!fifoVars
<1>0. Types /\ Exclusive /\ Stages /\ Filled /\ Snapshots
  BY DEF RingInv
<1>1. /\ Go(g, "shrink", "unlock")
      /\ size' = size - 1
      /\ UNCHANGED <<capacity, data, head, lock, writer, readers, arg, copied, answer>>
  BY DEF Shrink, lock
<1>2. /\ pc[g] = "shrink"
      /\ pc' \in [Goroutines -> Places]
      /\ \A h \in Goroutines : pc'[h] = IF h = g THEN "unlock" ELSE pc[h]
      /\ \A h \in Goroutines : h # g => pc[h] \notin WriteSteps
      /\ Exclusive' /\ Snapshots'
  BY <1>0, <1>1, WriterMoves DEF WriteSteps
<1>3. EffHead' = EffHead /\ EffSize' = EffSize
  BY <1>1, <1>2, WriterPlace, WriterPlaceAfter DEF WriteSteps
<1>4. Types'
  <2>1. size \in 0..capacity /\ capacity \in Nat
    BY <1>0 DEF Types
  <2>2. size > 0
    BY <1>0, <1>2 DEF Stages
  <2>3. size' \in 0..capacity
    BY <1>1, <2>1, <2>2
  <2> QED BY <1>0, <1>1, <1>2, <2>3 DEF Types, Slots, Views
<1>5. Stages'
  BY <1>0, <1>1, <1>2 DEF Stages, WriteSteps
<1>6. Filled' /\ Contents' = Contents
  BY <1>0, <1>1, <1>3 DEF Filled, Contents, View
<1> QED BY <1>1, <1>2, <1>3, <1>4, <1>5, <1>6 DEF RingInv, Fifo!fifoVars

(* Clear wipes the slots; the queue is empty from here on.                 *)
LEMMA ClearDataKeeps ==
  ASSUME RingInv, NEW g \in Goroutines, ClearData(g)
  PROVE  RingInv' /\ Fifo!Clear
<1>0. Types /\ Exclusive /\ Stages /\ Filled /\ Snapshots
  BY DEF RingInv
<1>1. /\ Go(g, "clear", "reset")
      /\ data' = [i \in Slots |-> Zero]
      /\ UNCHANGED <<capacity, head, size, lock, writer, readers, arg, copied, answer>>
  BY DEF ClearData, lock
<1>2. /\ pc[g] = "clear"
      /\ pc' \in [Goroutines -> Places]
      /\ \A h \in Goroutines : pc'[h] = IF h = g THEN "reset" ELSE pc[h]
      /\ \A h \in Goroutines : h # g => pc[h] \notin WriteSteps
      /\ Exclusive' /\ Snapshots'
  BY <1>0, <1>1, WriterMoves DEF WriteSteps
<1>3. EffSize' = 0
  BY <1>1, <1>2, WriterPlaceAfter DEF WriteSteps
<1>4. Types'
  <2>1. data' \in [Slots -> Values \cup {Zero}]
    BY <1>1
  <2> QED BY <1>0, <1>1, <1>2, <2>1 DEF Types, Slots, Views
<1>5. Stages'
  BY <1>0, <1>1, <1>2 DEF Stages, WriteSteps
<1>6. Filled'
  BY <1>3 DEF Filled
<1>7. Contents' = [i \in 0..-1 |-> None]
  <2>1. Contents' = [i \in 0..(0 - 1) |-> data'[(EffHead' + i) % capacity']]
    BY <1>3 DEF Contents, View
  <2>2. 0..(0 - 1) = {} /\ 0..-1 = {}
    OBVIOUS
  <2> QED BY <2>1, <2>2
<1> QED BY <1>1, <1>2, <1>3, <1>4, <1>5, <1>6, <1>7 DEF RingInv, Fifo!Clear

(* Clear resets head and size, which the queue has seen already.           *)
LEMMA ResetKeeps ==
  ASSUME RingInv, NEW g \in Goroutines, Reset(g)
  PROVE  RingInv' /\ UNCHANGED Fifo!fifoVars
<1>0. Types /\ Exclusive /\ Stages /\ Filled /\ Snapshots
  BY DEF RingInv
<1>1. /\ Go(g, "reset", "unlock")
      /\ head' = 0 /\ size' = 0
      /\ UNCHANGED <<capacity, data, lock, writer, readers, arg, copied, answer>>
  BY DEF Reset, lock
<1>2. /\ pc[g] = "reset"
      /\ pc' \in [Goroutines -> Places]
      /\ \A h \in Goroutines : pc'[h] = IF h = g THEN "unlock" ELSE pc[h]
      /\ \A h \in Goroutines : h # g => pc[h] \notin WriteSteps
      /\ Exclusive' /\ Snapshots'
  BY <1>0, <1>1, WriterMoves DEF WriteSteps
<1>3. EffSize = 0 /\ EffSize' = 0
  BY <1>1, <1>2, WriterPlace, WriterPlaceAfter DEF WriteSteps
<1>4. Types'
  BY <1>0, <1>1, <1>2 DEF Types, Slots, Views
<1>5. Stages'
  BY <1>0, <1>1, <1>2 DEF Stages, WriteSteps
<1>6. Filled'
  BY <1>3 DEF Filled
<1>7. Contents' = Contents
  <2>1. /\ Contents = [i \in 0..(0 - 1) |-> data[(EffHead + i) % capacity]]
        /\ Contents' = [i \in 0..(0 - 1) |-> data'[(EffHead' + i) % capacity']]
    BY <1>3 DEF Contents, View
  <2>2. 0..(0 - 1) = {}
    OBVIOUS
  <2> QED BY <2>1, <2>2
<1> QED BY <1>1, <1>2, <1>3, <1>4, <1>5, <1>6, <1>7 DEF RingInv, Fifo!fifoVars

-----------------------------------------------------------------------------
(* The theorems. *)

(* A new buffer is an empty queue, and satisfies the invariant.            *)
LEMMA InitRing == Init => RingInv /\ Fifo!Init
<1> SUFFICES ASSUME Init PROVE RingInv /\ Fifo!Init
  OBVIOUS
<1>1. /\ capacity \in Capacities /\ capacity \in Nat
      /\ data = [i \in Slots |-> Zero] /\ head = 0 /\ size = 0
      /\ writer = None /\ readers = {}
      /\ pc = [g \in Goroutines |-> "idle"] /\ arg = [g \in Goroutines |-> None]
      /\ copied = [g \in Goroutines |-> None] /\ answer = [g \in Goroutines |-> None]
  BY SyncRingAssumption DEF Init
<1>2. Types
  BY <1>1 DEF Types, Places
<1>3. Exclusive /\ Stages /\ Snapshots
  BY <1>1 DEF Exclusive, Stages, Snapshots, WriteSteps, ReadSteps, Waits
<1>4. EffSize = 0 /\ EffHead = 0
  BY <1>1, Rest DEF Between
<1>5. Filled
  BY <1>4 DEF Filled
<1>6. Contents = [i \in 0..-1 |-> None]
  <2>1. Contents = [i \in 0..(0 - 1) |-> data[(EffHead + i) % capacity]]
    BY <1>4 DEF Contents, View
  <2>2. 0..(0 - 1) = {} /\ 0..-1 = {}
    OBVIOUS
  <2> QED BY <2>1, <2>2
<1>7. Fifo!Init
  BY <1>1, <1>4, <1>6 DEF Fifo!Init
<1> QED BY <1>2, <1>3, <1>5, <1>7 DEF RingInv

(* Every step keeps the invariant, and is one operation of the queue at    *)
(* one instant, or none.                                                   *)
LEMMA StepRing ==
  ASSUME RingInv, [Next]_vars
  PROVE  RingInv' /\ [Fifo!Next]_(Fifo!fifoVars)
<1>1. ASSUME NEW g \in Goroutines, CallPush(g) \/ CallOther(g)
      PROVE  RingInv' /\ [Fifo!Next]_(Fifo!fifoVars)
  BY <1>1, CallPushKeeps, CallOtherKeeps
<1>2. ASSUME NEW g \in Goroutines, Locking(g)
      PROVE  RingInv' /\ [Fifo!Next]_(Fifo!fifoVars)
  BY <1>2, LockKeeps, RLockKeeps DEF Locking
<1>3. ASSUME NEW g \in Goroutines, Inside(g)
      PROVE  RingInv' /\ [Fifo!Next]_(Fifo!fifoVars)
  <2>1. CASE \/ ReadersLeft(g) \/ PushNothing(g) \/ AdvanceHead(g) \/ Grow(g) \/ Shrink(g)
             \/ Reset(g) \/ CopyFirst(g)
    BY <2>1, ReadersLeftKeeps, PushNothingKeeps, AdvanceHeadKeeps, GrowKeeps, ShrinkKeeps,
       ResetKeeps, CopyFirstKeeps
  <2>2. CASE Unlock(g) \/ RUnlock(g)
    BY <2>2, UnlockKeeps, RUnlockKeeps DEF Fifo!Next
  <2>3. CASE PushFull(g) \/ PushWithRoom(g)
    BY <2>3, PushFullKeeps, PushWithRoomKeeps DEF Fifo!Next
  <2>4. CASE PopEmpty(g) \/ PopHead(g) \/ ClearData(g)
    BY <2>4, PopEmptyKeeps, PopHeadKeeps, ClearDataKeeps DEF Fifo!Next
  <2>5. CASE CopySecond(g) \/ ReadAt(g)
    BY <2>5, CopySecondKeeps, ReadAtKeeps DEF Fifo!Next
  <2> QED BY <1>3, <2>1, <2>2, <2>3, <2>4, <2>5 DEF Inside
<1>4. CASE UNCHANGED vars
  <2>1. UNCHANGED <<capacity, data, head, size, ring, writer, readers, pc, arg, copied, answer>>
    BY <1>4 DEF vars, ring, lock
  <2>2. Types /\ Exclusive /\ Stages /\ Filled /\ Snapshots
    BY DEF RingInv
  <2>3. Types' /\ Exclusive' /\ Stages' /\ Snapshots'
    BY <2>1, <2>2 DEF Types, Slots, Views, Exclusive, Stages, Snapshots, FirstLen
  <2>4. Filled' /\ UNCHANGED Fifo!fifoVars
    BY <2>1, <2>2, QuietStep
  <2> QED BY <2>3, <2>4 DEF RingInv
<1> QED BY <1>1, <1>2, <1>3, <1>4 DEF Next

(* The invariant of the ring buffer and its lock holds in every behaviour. *)
THEOREM RingInvariance == Spec => []RingInv
BY InitRing, StepRing, PTL DEF Spec

(* Head and size stay within the buffer, and every answer is made of       *)
(* values that were pushed.                                                *)
THEOREM TypeCorrect == Spec => []TypeOK
<1>1. RingInv => TypeOK
  BY DEF RingInv, Types, TypeOK, Places
<1> QED BY RingInvariance, <1>1, PTL

(* Concurrent calls on a ring buffer of any capacity, by any number of     *)
(* goroutines, behave as a bounded queue on which each happens at one      *)
(* instant, though each is made of several assignments and the content     *)
(* wraps around the array.                                                 *)
THEOREM RingIsBoundedFifo == Spec => ImplementsBoundedFifo
<1>1. RingInv /\ [Next]_vars => [Fifo!Next]_(Fifo!fifoVars)
  BY StepRing
<1> QED BY InitRing, RingInvariance, <1>1, PTL DEF Spec, ImplementsBoundedFifo, Fifo!Spec

-----------------------------------------------------------------------------
(* Searches. *)

(* A non-empty set of natural numbers has a least element.                 *)
LEMMA Least ==
  ASSUME NEW S \in SUBSET Nat, S # {}
  PROVE  \E m \in S : \A x \in S : m <= x
<1>1. PICK m \in S : \A x \in S : ~ (<<x, m>> \in OpToRel(<, Nat))
  BY NatLessThanWellFounded, WFMin
<1>2. \A x \in S : ~ (x < m)
  BY <1>1, Zenon DEF OpToRel
<1> QED BY <1>2

(* Binary search: in a sorted slice every value has a place.               *)
LEMMA HasPlace ==
  ASSUME NEW s \in Seq(Values), IsSorted(s), NEW v \in Values
  PROVE  /\ Belongs(s, v) \in 0..Len(s)
         /\ \A j \in 1..Belongs(s, v) : Less(s[j], v)
         /\ \A j \in (Belongs(s, v) + 1)..Len(s) : ~ Less(s[j], v)
<1>0. Len(s) \in Nat /\ DOMAIN s = 1..Len(s) /\ \A j \in 1..Len(s) : s[j] \in Values
  OBVIOUS
<1>1. \E i \in 0..Len(s) :
        (\A j \in 1..i : Less(s[j], v)) /\ (\A j \in (i + 1)..Len(s) : ~ Less(s[j], v))
  <2> DEFINE Not == {j \in 1..Len(s) : ~ Less(s[j], v)}
  <2>1. CASE Not = {}
    <3>1. \A j \in 1..Len(s) : Less(s[j], v)
      BY <2>1
    <3>2. (Len(s) + 1)..Len(s) = {}
      BY <1>0
    <3> QED BY <1>0, <3>1, <3>2
  <2>2. CASE Not # {}
    <3>1. Not \in SUBSET Nat
      BY <1>0
    <3>2. PICK m \in Not : \A j \in Not : m <= j
      BY <2>2, <3>1, Least
    <3> HIDE DEF Not
    <3>3. m \in 1..Len(s) /\ ~ Less(s[m], v)
      BY <3>2 DEF Not
    <3>4. \A j \in 1..(m - 1) : Less(s[j], v)
      BY <1>0, <3>2, <3>3 DEF Not
    <3>5. ASSUME NEW j \in m..Len(s) PROVE ~ Less(s[j], v)
      <4>1. CASE j = m
        BY <3>3, <4>1
      <4>2. CASE j # m
        <5>1. ~ Less(s[j], s[m])
          BY <1>0, <3>3, <4>2 DEF IsSorted
        <5>2. s[j] \in Values /\ s[m] \in Values
          BY <1>0, <3>3
        <5> QED BY <3>3, <5>1, <5>2, LessAssumption
      <4> QED BY <4>1, <4>2
    <3>6. m - 1 \in 0..Len(s) /\ (m - 1) + 1 = m
      BY <1>0, <3>3
    <3> QED BY <3>4, <3>5, <3>6
  <2> QED BY <2>1, <2>2
<1> QED BY <1>1 DEF Belongs

(* Where it is, if it is there, no smaller index has it.                   *)
LEMMA Found ==
  ASSUME NEW s \in Seq(Values), IsSorted(s), NEW v \in Values
  PROVE  /\ Belongs(s, v) \in 0..Len(s)
         /\ IsIn(s, v) => Belongs(s, v) < Len(s) /\ s[Belongs(s, v) + 1] = v
         /\ IsIn(s, v) => \A j \in 1..Belongs(s, v) : s[j] # v
         /\ ~ IsIn(s, v) => \A j \in 1..Len(s) : s[j] # v
<1>0. Len(s) \in Nat /\ DOMAIN s = 1..Len(s) /\ \A j \in 1..Len(s) : s[j] \in Values
  OBVIOUS
<1>1. PICK b \in 0..Len(s) : b = Belongs(s, v)
  BY HasPlace
<1>2. /\ \A j \in 1..b : Less(s[j], v)
      /\ \A j \in (b + 1)..Len(s) : ~ Less(s[j], v)
  BY <1>1, HasPlace
<1>3. \A j \in 1..b : s[j] # v
  BY <1>2, LessAssumption
<1>4. ASSUME NEW j \in 1..Len(s), s[j] = v PROVE b < Len(s) /\ s[b + 1] = v
  <2>1. j > b /\ b < Len(s) /\ b + 1 \in 1..Len(s) /\ b + 1 \in (b + 1)..Len(s)
    BY <1>0, <1>3, <1>4
  <2>2. ~ Less(s[b + 1], v) /\ s[b + 1] \in Values
    BY <1>0, <1>2, <2>1
  <2>3. CASE j = b + 1
    BY <1>4, <2>1, <2>3
  <2>4. CASE j # b + 1
    <3>1. b + 1 < j
      BY <2>1, <2>4
    <3>2. ~ Less(v, s[b + 1])
      BY <1>0, <1>4, <2>1, <3>1 DEF IsSorted
    <3> QED BY <2>1, <2>2, <3>2, LessAssumption
  <2> QED BY <2>3, <2>4
<1> QED BY <1>1, <1>3, <1>4 DEF IsIn

(* Elements of two slices put together.                                    *)
LEMMA Both ==
  ASSUME NEW s \in Seq(Values), NEW t \in Seq(Values)
  PROVE  /\ s \o t \in Seq(Values) /\ Len(s \o t) = Len(s) + Len(t)
         /\ \A i \in 1..Len(s) : (s \o t)[i] = s[i]
         /\ \A i \in 1..Len(t) : (s \o t)[Len(s) + i] = t[i]
<1>1. /\ s \o t \in Seq(Values) /\ Len(s \o t) = Len(s) + Len(t)
      /\ \A i \in 1..(Len(s) + Len(t)) : (s \o t)[i] = IF i <= Len(s) THEN s[i] ELSE t[i - Len(s)]
  BY ConcatProperties
<1>2. Len(s) \in Nat /\ Len(t) \in Nat
  OBVIOUS
<1> QED BY <1>1, <1>2

(* FindRotated gives the oldest occurrence in the two parts.               *)
LEMMA FindsOldest ==
  ASSUME NEW s \in Seq(Values), NEW t \in Seq(Values), IsSorted(s), IsSorted(t), NEW v \in Values
  PROVE  /\ FindRotated(s, t, v) \in 0..(Len(s) + Len(t))
         /\ \A i \in 1..FindRotated(s, t, v) : (s \o t)[i] # v
         /\ FindRotated(s, t, v) < Len(s) + Len(t) => (s \o t)[FindRotated(s, t, v) + 1] = v
<1>0. /\ Len(s) \in Nat /\ Len(t) \in Nat
      /\ \A i \in 1..Len(s) : (s \o t)[i] = s[i]
      /\ \A i \in 1..Len(t) : (s \o t)[Len(s) + i] = t[i]
  BY Both
<1>1. CASE IsIn(s, v)
  <2>1. PICK b \in 0..Len(s) : b = Belongs(s, v)
    BY Found
  <2>2. FindRotated(s, t, v) = b
    BY <1>1, <2>1 DEF FindRotated
  <2>3. b < Len(s) /\ s[b + 1] = v /\ \A j \in 1..b : s[j] # v
    BY <1>1, <2>1, Found
  <2> QED BY <1>0, <2>2, <2>3
<1>2. CASE ~ IsIn(s, v) /\ IsIn(t, v)
  <2>1. PICK b \in 0..Len(t) : b = Belongs(t, v)
    BY Found
  <2>2. FindRotated(s, t, v) = Len(s) + b
    BY <1>2, <2>1 DEF FindRotated
  <2>3. /\ b < Len(t) /\ t[b + 1] = v /\ \A j \in 1..b : t[j] # v
        /\ \A j \in 1..Len(s) : s[j] # v
    BY <1>2, <2>1, Found
  <2>4. (s \o t)[Len(s) + (b + 1)] = v
    BY <1>0, <2>3
  <2>5. ASSUME NEW i \in 1..(Len(s) + b) PROVE (s \o t)[i] # v
    <3>1. CASE i <= Len(s)
      BY <1>0, <2>3, <3>1
    <3>2. CASE i > Len(s)
      <4>1. PICK j \in 1..b : i = Len(s) + j
        <5>1. i - Len(s) \in 1..b /\ i = Len(s) + (i - Len(s))
          BY <1>0, <3>2
        <5> QED BY <5>1
      <4> QED BY <1>0, <2>3, <4>1
    <3> QED BY <1>0, <3>1, <3>2
  <2> QED BY <1>0, <2>2, <2>3, <2>4, <2>5
<1>3. CASE ~ IsIn(s, v) /\ ~ IsIn(t, v)
  <2>1. FindRotated(s, t, v) = Len(s) + Len(t)
    BY <1>3 DEF FindRotated
  <2>2. (\A j \in 1..Len(s) : s[j] # v) /\ (\A j \in 1..Len(t) : t[j] # v)
    BY <1>3, Found
  <2>3. ASSUME NEW i \in 1..(Len(s) + Len(t)) PROVE (s \o t)[i] # v
    <3>1. CASE i <= Len(s)
      BY <1>0, <2>2, <3>1
    <3>2. CASE i > Len(s)
      <4>1. PICK j \in 1..Len(t) : i = Len(s) + j
        <5>1. i - Len(s) \in 1..Len(t) /\ i = Len(s) + (i - Len(s))
          BY <1>0, <3>2
        <5> QED BY <5>1
      <4> QED BY <1>0, <2>2, <4>1
    <3> QED BY <1>0, <3>1, <3>2
  <2> QED BY <1>0, <2>1, <2>3
<1> QED BY <1>1, <1>2, <1>3

(* Parts of a slice.                                                       *)
LEMMA Parts ==
  ASSUME NEW s \in Seq(Values), NEW n \in 0..Len(s)
  PROVE  /\ UpTo(s, n) \in Seq(Values) /\ Len(UpTo(s, n)) = n
         /\ \A i \in 1..n : UpTo(s, n)[i] = s[i]
         /\ From(s, n) \in Seq(Values) /\ Len(From(s, n)) = Len(s) - n
         /\ \A i \in 1..(Len(s) - n) : From(s, n)[i] = s[n + i]
<1>0. Len(s) \in Nat /\ \A i \in 1..Len(s) : s[i] \in Values
  OBVIOUS
<1>1. /\ SubSeq(s, 1, n) \in Seq(Values) /\ Len(SubSeq(s, 1, n)) = IF 1 <= n THEN n - 1 + 1 ELSE 0
      /\ \A i \in 1..(n - 1 + 1) : SubSeq(s, 1, n)[i] = s[1 + i - 1]
  BY <1>0, SubSeqProperties
<1>2. /\ SubSeq(s, n + 1, Len(s)) \in Seq(Values)
      /\ Len(SubSeq(s, n + 1, Len(s))) = IF n + 1 <= Len(s) THEN Len(s) - (n + 1) + 1 ELSE 0
      /\ \A i \in 1..(Len(s) - (n + 1) + 1) : SubSeq(s, n + 1, Len(s))[i] = s[(n + 1) + i - 1]
  BY <1>0, SubSeqProperties
<1>3. /\ UpTo(s, n) \in Seq(Values) /\ Len(UpTo(s, n)) = n
      /\ \A i \in 1..n : UpTo(s, n)[i] = s[i]
  BY <1>0, <1>1 DEF UpTo
<1>4. \A i \in 1..(Len(s) - n) : From(s, n)[i] = s[n + i]
  <2>1. ASSUME NEW i \in 1..(Len(s) - n) PROVE From(s, n)[i] = s[n + i]
    <3>1. i \in 1..(Len(s) - (n + 1) + 1) /\ (n + 1) + i - 1 = n + i
      BY <1>0
    <3> QED BY <1>2, <3>1 DEF From
  <2> QED BY <2>1
<1>5. From(s, n) \in Seq(Values) /\ Len(From(s, n)) = Len(s) - n
  BY <1>0, <1>2 DEF From
<1> QED BY <1>3, <1>4, <1>5

(* Two parts of which every element is the one of a slice are the slice.   *)
LEMMA Assembled ==
  ASSUME NEW s \in Seq(Values), NEW t \in Seq(Values), NEW u \in Seq(Values),
         Len(u) = Len(s) + Len(t),
         \A i \in 1..Len(s) : u[i] = s[i], \A i \in 1..Len(t) : u[Len(s) + i] = t[i]
  PROVE  u = s \o t
<1>1. PICK c : c = s \o t
  OBVIOUS
<1>2. /\ c \in Seq(Values) /\ Len(c) = Len(s) + Len(t)
      /\ \A i \in 1..(Len(s) + Len(t)) : c[i] = IF i <= Len(s) THEN s[i] ELSE t[i - Len(s)]
  BY <1>1, ConcatProperties
<1>3. Len(s) \in Nat /\ Len(t) \in Nat
  OBVIOUS
<1>4. ASSUME NEW i \in 1..Len(u) PROVE u[i] = c[i]
  <2>1. CASE i <= Len(s)
    BY <1>2, <1>3, <2>1
  <2>2. CASE i > Len(s)
    <3>1. i - Len(s) \in 1..Len(t) /\ i = Len(s) + (i - Len(s))
      BY <1>3, <2>2
    <3>2. u[i] = t[i - Len(s)]
      BY <3>1
    <3> QED BY <1>2, <1>3, <2>2, <3>2
  <2> QED BY <1>3, <2>1, <2>2
<1> QED BY <1>1, <1>2, <1>4, SeqEqual

(* What is before an element of the first part, and after it.              *)
LEMMA RestOfFirst ==
  ASSUME NEW s \in Seq(Values), NEW t \in Seq(Values), NEW n \in Nat, n < Len(s)
  PROVE  /\ Joined(Before(s, t, n)) = UpTo(s \o t, n)
         /\ Joined(After(s, t, n)) = From(s \o t, n + 1)
<1>1. PICK all : all = s \o t
  OBVIOUS
<1>2. /\ Len(s) \in Nat /\ Len(t) \in Nat /\ all \in Seq(Values) /\ Len(all) = Len(s) + Len(t)
      /\ \A i \in 1..Len(s) : all[i] = s[i]
      /\ \A i \in 1..Len(t) : all[Len(s) + i] = t[i]
  BY <1>1, Both
<1>3. /\ n \in 0..Len(s) /\ n + 1 \in 0..Len(s) /\ n \in 0..Len(all) /\ n + 1 \in 0..Len(all)
  BY <1>2
<1>4. PICK u, a \in Seq(Values) : u = UpTo(all, n) /\ a = UpTo(s, n)
  BY <1>2, <1>3, Parts
<1>5. Len(u) = n /\ Len(a) = n /\ \A i \in 1..n : u[i] = all[i] /\ a[i] = s[i]
  BY <1>2, <1>3, <1>4, Parts
<1>6. u = a
  <2>1. \A i \in 1..n : i \in 1..Len(s)
    BY <1>2, <1>3
  <2>2. \A i \in 1..n : u[i] = a[i]
    BY <1>2, <1>5, <2>1
  <2> QED BY <1>5, <2>2, SeqEqual
<1>7. Joined(Before(s, t, n)) = a
  BY <1>4, ConcatEmptySeq DEF Joined, Before
<1>8. PICK w, b \in Seq(Values) : w = From(all, n + 1) /\ b = From(s, n + 1)
  BY <1>2, <1>3, Parts
<1>9. /\ Len(w) = Len(all) - (n + 1) /\ Len(b) = Len(s) - (n + 1)
      /\ \A i \in 1..(Len(all) - (n + 1)) : w[i] = all[(n + 1) + i]
      /\ \A i \in 1..(Len(s) - (n + 1)) : b[i] = s[(n + 1) + i]
  BY <1>2, <1>3, <1>8, Parts
<1>10. w = b \o t
  <2>1. Len(w) = Len(b) + Len(t)
    BY <1>2, <1>9
  <2>2. ASSUME NEW i \in 1..Len(b) PROVE w[i] = b[i]
    <3>1. i \in 1..(Len(all) - (n + 1)) /\ (n + 1) + i \in 1..Len(s)
      BY <1>2, <1>3, <1>9
    <3> QED BY <1>2, <1>9, <3>1
  <2>3. ASSUME NEW i \in 1..Len(t) PROVE w[Len(b) + i] = t[i]
    <3>1. Len(b) + i \in 1..(Len(all) - (n + 1)) /\ (n + 1) + (Len(b) + i) = Len(s) + i
      BY <1>2, <1>3, <1>9
    <3> QED BY <1>2, <1>9, <3>1
  <2> QED BY <2>1, <2>2, <2>3, Assembled
<1>11. Joined(After(s, t, n)) = b \o t
  BY <1>8 DEF Joined, After
<1> QED BY <1>1, <1>4, <1>6, <1>7, <1>8, <1>10, <1>11

(* What is before an element of the second part, and after it.             *)
LEMMA RestOfSecond ==
  ASSUME NEW s \in Seq(Values), NEW t \in Seq(Values), NEW k \in Nat, k < Len(t)
  PROVE  /\ Joined(Before(s, t, Len(s) + k)) = UpTo(s \o t, Len(s) + k)
         /\ Joined(After(s, t, Len(s) + k)) = From(s \o t, Len(s) + k + 1)
<1>1. PICK all : all = s \o t
  OBVIOUS
<1>2. /\ Len(s) \in Nat /\ Len(t) \in Nat /\ all \in Seq(Values) /\ Len(all) = Len(s) + Len(t)
      /\ \A i \in 1..Len(s) : all[i] = s[i]
      /\ \A i \in 1..Len(t) : all[Len(s) + i] = t[i]
  BY <1>1, Both
<1>3. PICK n \in Nat : n = Len(s) + k
  BY <1>2
<1>4. /\ k \in 0..Len(t) /\ k + 1 \in 0..Len(t) /\ n \in 0..Len(all) /\ n + 1 \in 0..Len(all)
      /\ ~ (n < Len(s)) /\ n - Len(s) = k
  BY <1>2, <1>3
<1>5. PICK u, a \in Seq(Values) : u = UpTo(all, n) /\ a = UpTo(t, k)
  BY <1>2, <1>4, Parts
<1>6. /\ Len(u) = n /\ Len(a) = k
      /\ \A i \in 1..n : u[i] = all[i]
      /\ \A i \in 1..k : a[i] = t[i]
  BY <1>2, <1>4, <1>5, Parts
<1>7. u = s \o a
  <2>1. ASSUME NEW i \in 1..Len(s) PROVE u[i] = s[i]
    BY <1>2, <1>3, <1>6
  <2>2. ASSUME NEW i \in 1..Len(a) PROVE u[Len(s) + i] = a[i]
    <3>1. Len(s) + i \in 1..n /\ i \in 1..Len(t) /\ i \in 1..k
      BY <1>2, <1>3, <1>6
    <3> QED BY <1>2, <1>6, <3>1
  <2>3. Len(u) = Len(s) + Len(a)
    BY <1>3, <1>6
  <2> QED BY <2>1, <2>2, <2>3, Assembled
<1>8. Joined(Before(s, t, n)) = s \o a
  BY <1>4, <1>5 DEF Joined, Before
<1>9. PICK w, b \in Seq(Values) : w = From(all, n + 1) /\ b = From(t, k + 1)
  BY <1>2, <1>4, Parts
<1>10. /\ Len(w) = Len(all) - (n + 1) /\ Len(b) = Len(t) - (k + 1)
       /\ \A i \in 1..(Len(all) - (n + 1)) : w[i] = all[(n + 1) + i]
       /\ \A i \in 1..(Len(t) - (k + 1)) : b[i] = t[(k + 1) + i]
  BY <1>2, <1>4, <1>9, Parts
<1>11. w = b
  <2>1. Len(w) = Len(b)
    <3>1. Len(all) - (n + 1) = Len(t) - (k + 1)
      BY <1>2, <1>3
    <3> QED BY <1>10, <3>1
  <2>2. ASSUME NEW i \in 1..Len(w) PROVE w[i] = b[i]
    <3>1. /\ i \in 1..(Len(all) - (n + 1)) /\ i \in 1..(Len(t) - (k + 1))
          /\ (n + 1) + i = Len(s) + ((k + 1) + i) /\ (k + 1) + i \in 1..Len(t)
      BY <1>2, <1>3, <1>10
    <3> QED BY <1>2, <1>10, <3>1
  <2> QED BY <2>1, <2>2, SeqEqual
<1>12. Joined(After(s, t, n)) = b
  BY <1>4, <1>9, ConcatEmptySeq DEF Joined, After
<1> QED BY <1>1, <1>3, <1>5, <1>7, <1>8, <1>9, <1>11, <1>12

(* The segments of a buffer nobody is writing to.                          *)
LEMMA SegmentsHold ==
  ASSUME RingInv, writer = None
  PROVE  /\ FirstSegment \in Seq(Values) /\ SecondSegment \in Seq(Values)
         /\ Len(FirstSegment) = FirstLen /\ Len(SecondSegment) = size - FirstLen
         /\ \A i \in 1..FirstLen : FirstSegment[i] = data[head + i - 1]
         /\ \A i \in 1..(size - FirstLen) : SecondSegment[i] = data[i - 1]
<1>1. \A h \in Goroutines : pc[h] \notin WriteSteps
  BY NoneAssumption DEF RingInv, Exclusive
<1>2. EffHead = head /\ EffSize = size
  BY <1>1, Rest DEF Between, WriteSteps
<1>3. \A i \in 0..(size - 1) : data[(head + i) % capacity] \in Values
  BY <1>2 DEF RingInv, Filled
<1>4. /\ size \in Nat /\ head \in Nat /\ FirstLen \in 0..size
      /\ \A i \in 0..(size - 1) :
           (head + i) % capacity = IF i < FirstLen THEN head + i ELSE i - FirstLen
  <2>1. Types
    BY DEF RingInv
  <2>2. size \in Nat /\ head \in Nat
    BY <2>1 DEF Types
  <2> QED BY <2>1, <2>2, Segments
<1>5. ASSUME NEW i \in 1..FirstLen PROVE data[head + i - 1] \in Values
  <2>1. i - 1 \in 0..(size - 1) /\ i - 1 < FirstLen /\ head + (i - 1) = head + i - 1
    BY <1>4
  <2> QED BY <1>3, <1>4, <2>1
<1>6. ASSUME NEW i \in 1..(size - FirstLen) PROVE data[i - 1] \in Values
  <2>1. PICK j \in 0..(size - 1) : ~ (j < FirstLen) /\ j - FirstLen = i - 1
    <3>1. FirstLen + i - 1 \in 0..(size - 1) /\ ~ (FirstLen + i - 1 < FirstLen)
          /\ (FirstLen + i - 1) - FirstLen = i - 1
      BY <1>4
    <3> QED BY <3>1
  <2>2. (head + j) % capacity = i - 1
    BY <1>4, <2>1
  <2> QED BY <1>3, <2>2
<1>7. FirstSegment \in [1..FirstLen -> Values] /\ SecondSegment \in [1..(size - FirstLen) -> Values]
  BY <1>5, <1>6 DEF FirstSegment, SecondSegment
<1>8. PICK f \in [1..FirstLen -> Values] : f = FirstSegment
  BY <1>7
<1>9. PICK t \in [1..(size - FirstLen) -> Values] : t = SecondSegment
  BY <1>7
<1>10. f \in Seq(Values) /\ Len(f) = FirstLen
  BY <1>4
<1>11. t \in Seq(Values) /\ Len(t) = size - FirstLen
  <2>1. size - FirstLen \in Nat
    BY <1>4
  <2> QED BY <2>1
<1>12. \A i \in 1..FirstLen : FirstSegment[i] = data[head + i - 1]
  BY DEF FirstSegment
<1>13. \A i \in 1..(size - FirstLen) : SecondSegment[i] = data[i - 1]
  BY DEF SecondSegment
<1> QED BY <1>8, <1>9, <1>10, <1>11, <1>12, <1>13

(* The array of a full buffer is its two segments, the other way round.    *)
LEMMA ArrayIsSegments ==
  ASSUME RingInv, writer = None, size = capacity, size > 0
  PROVE  /\ FirstLen = capacity - head /\ Len(Array) = capacity
         /\ From(Array, head) = FirstSegment /\ UpTo(Array, head) = SecondSegment
<1>1. /\ capacity \in Nat /\ capacity > 0 /\ head \in 0..(capacity - 1)
      /\ FirstLen = capacity - head
  <2>1. Types
    BY DEF RingInv
  <2>2. capacity \in Nat /\ capacity > 0 /\ head \in 0..(capacity - 1)
    BY <2>1 DEF Types
  <2> QED BY <2>2 DEF FirstLen
<1>2. /\ FirstSegment \in Seq(Values) /\ SecondSegment \in Seq(Values)
      /\ Len(FirstSegment) = capacity - head /\ Len(SecondSegment) = head
      /\ \A i \in 1..(capacity - head) : FirstSegment[i] = data[head + i - 1]
      /\ \A i \in 1..head : SecondSegment[i] = data[i - 1]
  <2>1. size - FirstLen = head
    BY <1>1
  <2> QED BY <1>1, <2>1, SegmentsHold
<1>3. ASSUME NEW i \in 1..capacity PROVE data[i - 1] \in Values
  <2>1. CASE i <= head
    <3>1. i \in 1..head
      BY <1>1, <2>1
    <3>2. SecondSegment[i] \in Values
      BY <1>2, <3>1
    <3> QED BY <1>2, <3>1, <3>2
  <2>2. CASE i > head
    <3>1. PICK j \in 1..(capacity - head) : head + j - 1 = i - 1
      <4>1. i - head \in 1..(capacity - head) /\ head + (i - head) - 1 = i - 1
        BY <1>1, <2>2
      <4> QED BY <4>1
    <3>2. FirstSegment[j] \in Values
      BY <1>2
    <3> QED BY <1>2, <3>1, <3>2
  <2> QED BY <1>1, <2>1, <2>2
<1>4. /\ Array \in Seq(Values) /\ Len(Array) = capacity
      /\ \A i \in 1..capacity : Array[i] = data[i - 1]
  <2>1. Array \in [1..capacity -> Values]
    BY <1>3 DEF Array
  <2> QED BY <1>1, <2>1 DEF Array
<1>5. head \in 0..Len(Array)
  BY <1>1, <1>4
<1>6. PICK f, u \in Seq(Values) : f = From(Array, head) /\ u = UpTo(Array, head)
  BY <1>4, <1>5, Parts
<1>7. /\ Len(f) = capacity - head /\ Len(u) = head
      /\ \A i \in 1..(capacity - head) : f[i] = Array[head + i]
      /\ \A i \in 1..head : u[i] = Array[i]
  BY <1>4, <1>5, <1>6, Parts
<1>8. f = FirstSegment
  <2>1. ASSUME NEW i \in 1..(capacity - head) PROVE f[i] = FirstSegment[i]
    <3>1. head + i \in 1..capacity
      BY <1>1
    <3>2. Array[head + i] = data[head + i - 1]
      BY <1>1, <1>4, <3>1
    <3> QED BY <1>2, <1>7, <3>2
  <2> QED BY <1>2, <1>7, <2>1, SeqEqual
<1>9. u = SecondSegment
  <2>1. ASSUME NEW i \in 1..head PROVE u[i] = SecondSegment[i]
    <3>1. i \in 1..capacity
      BY <1>1
    <3>2. Array[i] = data[i - 1]
      BY <1>4, <3>1
    <3> QED BY <1>2, <1>7, <3>2
  <2> QED BY <1>2, <1>7, <2>1, SeqEqual
<1> QED BY <1>1, <1>4, <1>6, <1>8, <1>9

(* A search in a ring buffer of any capacity, wherever its content wraps   *)
(* around, finds the oldest occurrence of a value or says that there is    *)
(* none, what it gives as before and after is the rest of the content, and *)
(* the search by pivot in the array of a full buffer agrees with it.       *)
THEOREM SearchFindsOldestForAll == Spec => []SearchFindsOldest
<1>1. RingInv => SearchFindsOldest
  <2> SUFFICES ASSUME RingInv, writer = None, IsSorted(FirstSegment), IsSorted(SecondSegment),
                      NEW v \in Values
               PROVE  LET first == FirstSegment
                          second == SecondSegment
                          all == first \o second
                          n == FindRotated(first, second, v)
                          slot == (head + n) % capacity IN
                        /\ \A i \in 1..n : all[i] # v
                        /\ n < size =>
                             /\ all[n + 1] = v
                             /\ Joined(Before(first, second, n)) = UpTo(all, n)
                             /\ Joined(After(first, second, n)) = From(all, n + 1)
                        /\ size = capacity /\ size > 0 =>
                             /\ FindRotatedWithPivot(Array, head, v) = IF n = size THEN size ELSE slot
                             /\ n < size =>
                                  /\ BeforeWithPivot(Array, slot, head) = Before(first, second, n)
                                  /\ AfterWithPivot(Array, slot, head) = After(first, second, n)
    BY Zenon DEF SearchFindsOldest
  <2> DEFINE first == FirstSegment
             second == SecondSegment
             all == first \o second
             n == FindRotated(first, second, v)
             slot == (head + n) % capacity
  <2>1. /\ first = FirstSegment /\ second = SecondSegment /\ all = first \o second
        /\ n = FindRotated(first, second, v) /\ slot = (head + n) % capacity
        /\ IsSorted(first) /\ IsSorted(second)
    OBVIOUS
  <2> HIDE DEF first, second, all, n, slot
  <2>2. /\ first \in Seq(Values) /\ second \in Seq(Values)
        /\ Len(first) = FirstLen /\ Len(second) = size - FirstLen
    BY <2>1, SegmentsHold
  <2>3. /\ size \in Nat /\ head \in Nat /\ FirstLen \in 0..size
        /\ \A i \in 0..(size - 1) :
             (head + i) % capacity = IF i < FirstLen THEN head + i ELSE i - FirstLen
    <3>1. Types
      BY DEF RingInv
    <3>2. size \in Nat /\ head \in Nat
      BY <3>1 DEF Types
    <3> QED BY <3>1, <3>2, Segments
  <2>4. /\ n \in 0..size /\ \A i \in 1..n : all[i] # v
        /\ n < size => all[n + 1] = v
    <3>1. Len(first) + Len(second) = size
      BY <2>2, <2>3
    <3>2. /\ FindRotated(first, second, v) \in 0..(Len(first) + Len(second))
          /\ \A i \in 1..FindRotated(first, second, v) : (first \o second)[i] # v
          /\ FindRotated(first, second, v) < Len(first) + Len(second)
               => (first \o second)[FindRotated(first, second, v) + 1] = v
      <4>1. first \in Seq(Values) /\ second \in Seq(Values) /\ IsSorted(first) /\ IsSorted(second)
        BY <2>1, <2>2
      <4> QED BY <4>1, FindsOldest, Zenon
    <3> QED BY <2>1, <3>1, <3>2
  <2>5. ASSUME n < size
        PROVE  /\ Joined(Before(first, second, n)) = UpTo(all, n)
               /\ Joined(After(first, second, n)) = From(all, n + 1)
    <3>1. CASE n < FirstLen
      BY <2>1, <2>2, <2>4, <3>1, RestOfFirst
    <3>2. CASE n >= FirstLen
      <4>1. PICK k \in Nat : k < Len(second) /\ n = Len(first) + k
        <5>1. n - FirstLen \in Nat /\ n - FirstLen < Len(second) /\ n = Len(first) + (n - FirstLen)
          BY <2>2, <2>3, <2>4, <2>5, <3>2
        <5> QED BY <5>1
      <4> QED BY <2>1, <2>2, <4>1, RestOfSecond
    <3> QED BY <2>3, <2>4, <3>1, <3>2
  <2>6. ASSUME size = capacity, size > 0
        PROVE  /\ FindRotatedWithPivot(Array, head, v) = IF n = size THEN size ELSE slot
               /\ n < size =>
                    /\ BeforeWithPivot(Array, slot, head) = Before(first, second, n)
                    /\ AfterWithPivot(Array, slot, head) = After(first, second, n)
    <3>1. /\ FirstLen = size - head /\ Len(Array) = size
          /\ From(Array, head) = first /\ UpTo(Array, head) = second
      BY <2>6, <2>1, ArrayIsSegments
    <3>2. n < size => slot = IF n < size - head THEN head + n ELSE n - (size - head)
      <4>1. n < size => n \in 0..(size - 1)
        BY <2>3, <2>4
      <4> QED BY <2>1, <2>3, <3>1, <4>1
    <3>3. FindRotatedWithPivot(Array, head, v) =
            CASE n = size -> n
              [] n < size - head -> head + n
              [] OTHER -> n - (size - head)
      BY <2>1, <3>1 DEF FindRotatedWithPivot
    <3>4. FindRotatedWithPivot(Array, head, v) = IF n = size THEN size ELSE slot
      <4>1. CASE n = size
        <5>1. ~ (n < size - head) \/ head + n = n
          BY <2>3, <4>1
        <5> QED BY <3>3, <4>1, <5>1
      <4>2. CASE n # size
        BY <2>3, <2>4, <3>2, <3>3, <4>2
      <4> QED BY <4>1, <4>2
    <3>5. n < size => Logical(Array, slot, head) = n
      BY <2>3, <2>4, <3>1, <3>2 DEF Logical
    <3> QED BY <3>1, <3>4, <3>5 DEF BeforeWithPivot, AfterWithPivot
  <2> QED BY <2>4, <2>5, <2>6 DEF first, second, all, n, slot
<1> QED BY RingInvariance, <1>1, PTL
=============================================================================
