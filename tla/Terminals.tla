------------------------------- MODULE Terminals -------------------------------
(***************************************************************************)
(* The operations of stream/stream.go that need the whole list: sorting,   *)
(* grouping, maps, minima, and the searches from either end, and the     *)
(* same of stream/seq.go where Seq has them too.  The list is what a run   *)
(* of LazySeq has collected; the key of an element is its first integer,   *)
(* and its value in a map the element.  An Option, or the result of a call *)
(* that may panic, is a set of at most one.                                *)
(***************************************************************************)
EXTENDS LazySeq

LOCAL INSTANCE TLC

Key(v) == v[1]
Keys(s) == {Key(v) : v \in ToSet(s)}

(* cmp.Compare of the keys, or of the keys in the other order. *)
Less(order, v, w) == IF order = "ascending" THEN Key(v) < Key(w) ELSE Key(w) < Key(v)

(* First, and Last, which scans backward. *)
Matches(s, n) == {i \in DOMAIN s : Fits(s[i], n)}
FirstMatch(s, n) == {s[i] : i \in {j \in Matches(s, n) : \A h \in Matches(s, n) : j <= h}}
LastMatch(s, n) == {s[i] : i \in {j \in Matches(s, n) : \A h \in Matches(s, n) : h <= j}}

(* Stream cuts its slice where Seq counts; a negative count panics.        *)
Take(s, n) == IF n < 0 THEN {} ELSE {IF n >= Len(s) THEN s ELSE SubSeq(s, 1, n)}
Skip(s, n) == IF n < 0 THEN {} ELSE {IF n >= Len(s) THEN <<>> ELSE SubSeq(s, n + 1, Len(s))}

(* slices.SortStableFunc, by insertion after what is not greater.          *)
InsertSorted(s, v, order) ==
  SelectSeq(s, LAMBDA w : ~ Less(order, v, w)) \o <<v>> \o SelectSeq(s, LAMBDA w : Less(order, v, w))
SortFunc(s, order) == FoldLeft(LAMBDA t, v : InsertSorted(t, v, order), <<>>, s)

(* SortByCached sorts pairs of a key and an element. *)
SortByCached(s, order) ==
  LET pairs == [i \in DOMAIN s |-> <<Key(s[i]), s[i]>>]
      sorted == SortFunc(pairs, order) IN
  [i \in DOMAIN s |-> sorted[i][2]]

(* Stream's minimum folds the tail from the head, Seq's folds an Option.   *)
LaterWins(best, v, order) == IF Less(order, best, v) THEN best ELSE v
Better(best, v, order) == IF Less(order, v, best) THEN v ELSE best
MinByCompare(s, order) ==
  IF s = <<>> THEN {} ELSE {FoldLeft(LAMBDA b, v : Better(b, v, order), Head(s), Tail(s))}
SeqMinByCompare(s, order) ==
  FoldLeft(LAMBDA best, v : IF \A b \in best : Less(order, v, b) THEN {v} ELSE best, {}, s)

GroupBy(s) ==
  FoldLeft(LAMBDA m, v :
             Key(v) :> Append(IF Key(v) \in DOMAIN m THEN m[Key(v)] ELSE <<>>, v) @@ m,
           <<>>, s)

ToMap(s) == FoldLeft(LAMBDA m, v : Key(v) :> v @@ m, <<>>, s)
Merge(policy, existing, incoming) == IF policy = "KeepFirst" THEN existing ELSE incoming
ToMapBy(s, policy) ==
  FoldLeft(LAMBDA m, v :
             Key(v) :> (IF Key(v) \in DOMAIN m THEN Merge(policy, m[Key(v)], v) ELSE v) @@ m,
           <<>>, s)

Partition(s, n) ==
  FoldLeft(LAMBDA parts, v : IF Fits(v, n) THEN <<Append(parts[1], v), parts[2]>>
                             ELSE <<parts[1], Append(parts[2], v)>>,
           <<<<>>, <<>>>>, s)

-----------------------------------------------------------------------------
OptionHead(s) == IF s = <<>> THEN {} ELSE {Head(s)}

(* The terminals agree with one another on any list: a stable sort keeps   *)
(* the elements of a group in their order, and sorts the same with cached  *)
(* keys; the minimum and the maximum are what a sort puts first, the       *)
(* earliest of equals; a map holds the first or the last of a group; Last  *)
(* is the First of the reversed list; and Take keeps what Skip drops, or   *)
(* both panic.                                                             *)
TerminalsAgree ==
  Over =>
    LET up == SortFunc(out, "ascending")
        down == SortFunc(out, "descending")
        groups == GroupBy(out)
        split == Partition(out, 1) IN
    /\ \A i, j \in DOMAIN out : i < j => Key(up[i]) <= Key(up[j]) /\ Key(down[i]) >= Key(down[j])
    /\ \A n \in -1..Len(out) + 1 :
         /\ n >= 0 => Take(out, n) = {Meaning("take", out, n)}
         /\ {kept \o left : kept \in Take(out, n), left \in Skip(out, n)}
              = IF n < 0 THEN {} ELSE {out}
    /\ DOMAIN groups = Keys(out)
    /\ \A k \in Keys(out) :
         LET group == SelectSeq(out, LAMBDA v : Key(v) = k) IN
         /\ groups[k] = group
         /\ SelectSeq(up, LAMBDA v : Key(v) = k) = group
         /\ SelectSeq(down, LAMBDA v : Key(v) = k) = group
         /\ ToMapBy(out, "KeepFirst")[k] = Head(group)
         /\ ToMapBy(out, "KeepLast")[k] = group[Len(group)]
    /\ SortByCached(out, "ascending") = up /\ SortByCached(out, "descending") = down
    /\ MinByCompare(out, "ascending") = OptionHead(up)
    /\ MinByCompare(out, "descending") = OptionHead(down)
    /\ SeqMinByCompare(out, "ascending") = OptionHead(up)
    /\ SeqMinByCompare(out, "descending") = OptionHead(down)
    /\ ToMap(out) = ToMapBy(out, "KeepLast")
    /\ split = <<Meaning("filter", out, 1), SelectSeq(out, LAMBDA v : ~ Fits(v, 1))>>
    /\ FirstMatch(out, 1) = OptionHead(split[1])
    /\ LastMatch(out, 1) = FirstMatch(Reverse(out), 1)
=============================================================================
