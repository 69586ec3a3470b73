--------------------------------- MODULE Rows ---------------------------------
(***************************************************************************)
(* What a multi-index table promises: a set of rows, no two with the same  *)
(* primary key or the same unique key, that an operation changes as a      *)
(* whole or not at all.                                                    *)
(***************************************************************************)
CONSTANTS
  Records,        \* the identities of rows: pointers
  Fields          \* what a row may hold, with its keys as .pk and .uk

VARIABLE rows     \* the rows in the table, each with what it holds

Conflict(a, b) == a.pk = b.pk \/ a.uk = b.uk
Admits(v, f) == \A w \in DOMAIN rows : w # v => ~ Conflict(rows[w], f)

Without(S) == [w \in DOMAIN rows \ S |-> rows[w]]
With(v, f) == [w \in DOMAIN rows \cup {v} |-> IF w = v THEN f ELSE rows[w]]

Init == DOMAIN rows = {}

Insert(v, f) == v \notin DOMAIN rows /\ Admits(v, f) /\ rows' = With(v, f)
Update(v, f) == v \in DOMAIN rows /\ Admits(v, f) /\ rows' = With(v, f)
Delete(v) == v \in DOMAIN rows /\ rows' = Without({v})
Clear == rows' = Without(DOMAIN rows)

Next ==
  \/ Clear
  \/ \E v \in Records : Delete(v) \/ \E f \in Fields : Insert(v, f) \/ Update(v, f)

Spec == Init /\ [][Next]_rows
=============================================================================
