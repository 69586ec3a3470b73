------------------------------- MODULE RingSearch ------------------------------
(***************************************************************************)
(* The searches of fn/fn.go in a sorted sequence that was rotated: two     *)
(* sorted parts, as the segments of a ring buffer are, or one array with   *)
(* the position where it begins.  Indexes count from 0, as in the code: n  *)
(* is logical, from the oldest element, pos is a position in the array.    *)
(***************************************************************************)
EXTENDS SyncRing, Sequences

CONSTANT Less(_, _)                         \* the order that comp tells

(* comp orders the values consistently, as slices.BinarySearchFunc asks;   *)
(* values that it finds equal are one value here.                          *)
ASSUME LessAssumption ==
  \A a, b, c \in Values :
    /\ ~ Less(a, a)
    /\ Less(a, b) /\ Less(b, c) => Less(a, c)
    /\ a = b \/ Less(a, b) \/ Less(b, a)

From(s, n) == SubSeq(s, n + 1, Len(s))      \* s[n:]
UpTo(s, n) == SubSeq(s, 1, n)               \* s[:n]

(* slices.BinarySearchFunc: where v is, or belongs, in a sorted s.         *)
Belongs(s, v) == CHOOSE i \in 0..Len(s) :
  (\A j \in 1..i : Less(s[j], v)) /\ (\A j \in (i + 1)..Len(s) : ~ Less(s[j], v))
IsIn(s, v) == Belongs(s, v) < Len(s) /\ s[Belongs(s, v) + 1] = v

FindRotatedUnshifted(first, second, v) ==
  CASE IsIn(first, v) -> Belongs(first, v)
    [] ~ IsIn(first, v) /\ IsIn(second, v) -> Belongs(second, v)
    [] OTHER -> Len(first) + Len(second)

FindRotated(first, second, v) ==
  CASE IsIn(first, v) -> Belongs(first, v)
    [] ~ IsIn(first, v) /\ IsIn(second, v) -> Len(first) + Belongs(second, v)
    [] OTHER -> Len(first) + Len(second)

After(first, second, n) ==
  IF n < Len(first) THEN <<From(first, n + 1), second>>
  ELSE <<From(second, n - Len(first) + 1), <<>>>>

Before(first, second, n) ==
  IF n < Len(first) THEN <<UpTo(first, n), <<>>>>
  ELSE <<first, UpTo(second, n - Len(first))>>

FindRotatedWithPivot(s, pivot, v) ==
  LET n == FindRotated(From(s, pivot), UpTo(s, pivot), v) IN
  CASE n = Len(s) -> n
    [] n < Len(s) - pivot -> pivot + n
    [] OTHER -> n - (Len(s) - pivot)

Logical(s, pos, pivot) == IF pos < pivot THEN pos - pivot + Len(s) ELSE pos - pivot
AfterWithPivot(s, pos, pivot) == After(From(s, pivot), UpTo(s, pivot), Logical(s, pos, pivot))
BeforeWithPivot(s, pos, pivot) == Before(From(s, pivot), UpTo(s, pivot), Logical(s, pos, pivot))

-----------------------------------------------------------------------------
(* The segments of the buffer, and its array.                              *)
FirstSegment == [i \in 1..FirstLen |-> data[head + i - 1]]
SecondSegment == [i \in 1..(size - FirstLen) |-> data[i - 1]]
Array == [i \in 1..capacity |-> data[i - 1]]

IsSorted(s) == \A i, j \in DOMAIN s : i < j => ~ Less(s[j], s[i])
Joined(parts) == parts[1] \o parts[2]

(* A search in the segments of a ring buffer, wherever its content wraps    *)
(* around, finds the oldest occurrence of a value, and says so when there   *)
(* is none; what is before and what is after it is the rest of the content *)
(* in order.  In the array of a full buffer the search by pivot finds the  *)
(* slot of that occurrence, with the same parts around it.                 *)
SearchFindsOldest ==
  LET first == FirstSegment
      second == SecondSegment
      all == first \o second IN
  writer = None /\ IsSorted(first) /\ IsSorted(second) =>
    \A v \in Values :
      LET n == FindRotated(first, second, v)
          slot == (head + n) % capacity IN
      /\ \A i \in 1..n : all[i] # v
      /\ n < size =>
           /\ all[n + 1] = v
           /\ Joined(Before(first, second, n)) = UpTo(all, n)
           /\ Joined(After(first, second, n)) = From(all, n + 1)
      /\ size = capacity /\ size > 0 =>
           /\ FindRotatedWithPivot(Array, head, v) = IF n = size THEN size ELSE slot
           /\ n < size =>
                /\ BeforeWithPivot(Array, slot, head) = Before(first, second, n)
                /\ AfterWithPivot(Array, slot, head) = After(first, second, n)
=============================================================================
