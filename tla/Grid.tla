--------------------------------- MODULE Grid ----------------------------------
(***************************************************************************)
(* ds.Grid: a flat map of cells, and for every row the list of its columns *)
(* and for every column the list of its rows.  Row and Col range over a    *)
(* list while the loop body may change the grid under them.                *)
(*                                                                         *)
(* A line is a row or a column: rowCols and colRows are one map here, from *)
(* the lines that have an entry to what they list.                         *)
(***************************************************************************)
EXTENDS Slices

CONSTANTS
  Rows, Cols,
  CellValues,
  Nil,            \* the nil of a pointer, slice or interface V, may be among them
  MaxListed,      \* bound on the length of a list
  NoLine

VARIABLES
  cells,          \* the main storage
  listed,         \* rowCols and colRows
  walk,           \* the range over a line that is going on
  nilled          \* coordinates that have held nil since they were last absent

vars == <<cells, listed, walk, nilled>>

Lines == ({"row"} \X Rows) \cup ({"col"} \X Cols)
Coords == Rows \X Cols

(* The coordinate where line l meets x of the other kind, and back.        *)
Cell(l, x) == IF l[1] = "row" THEN <<l[2], x>> ELSE <<x, l[2]>>
Through(k) == {<<"row", k[1]>>, <<"col", k[2]>>}
Across(l, k) == IF l[1] = "row" THEN k[2] ELSE k[1]

NoWalk == [line |-> NoLine, list |-> <<>>, next |-> 1, got |-> <<>>, stayed |-> {}, but |-> {}]

Init ==
  /\ cells = <<>>
  /\ listed = <<>>
  /\ walk = NoWalk
  /\ nilled = {}

-----------------------------------------------------------------------------
(* adt.FromMap as a set of at most one value: a nil value counts as none.  *)
FromMap(k) == IF k \in DOMAIN cells /\ cells[k] # Nil THEN {cells[k]} ELSE {}
IsSome(option) == option # {}

ListOf(l) == IF l \in DOMAIN listed THEN listed[l] ELSE <<>>
Without(s, x) == Filtered(s, (Rows \cup Cols) \ {x})

InsertIn(lines, k) ==
  [l \in DOMAIN listed \cup lines |->
     IF l \in lines THEN Append(ListOf(l), Across(l, k)) ELSE listed[l]]
InsertRowOnly(k) == InsertIn({<<"row", k[1]>>}, k)
Insert(k) == InsertIn(Through(k), k)

(* A list left empty loses its entry. *)
Delete(k) ==
  LET left(l) == Without(ListOf(l), Across(l, k)) IN
  [l \in {m \in DOMAIN listed : m \in Through(k) => left(m) # <<>>} |->
     IF l \in Through(k) THEN left(l) ELSE listed[l]]

(* What a range over line l goes through after k was removed.  Filter       *)
(* copies, so the range goes on over the list as it was; had it filtered   *)
(* in place, the rest of the list would have moved up under the range.     *)
RangedInPlace(l, list, k) ==
  IF l \in Through(k) /\ list = ListOf(l)
  THEN LET left == Without(list, Across(l, k)) IN
       left \o SubSeq(list, Len(left) + 1, Len(list))
  ELSE list
Ranged(l, list, k) == list

Put(k, v) ==
  /\ \A l \in Through(k) : Len(ListOf(l)) < MaxListed
  /\ listed' = IF IsSome(FromMap(k)) THEN listed ELSE Insert(k)
  /\ cells' = [j \in DOMAIN cells \cup {k} |-> IF j = k THEN v ELSE cells[j]]
  /\ nilled' = IF v = Nil THEN nilled \cup {k} ELSE nilled
  /\ UNCHANGED walk

Remove(k) ==
  /\ IsSome(FromMap(k))
  /\ listed' = Delete(k)
  /\ cells' = [j \in DOMAIN cells \ {k} |-> cells[j]]
  /\ nilled' = nilled \ {k}
  /\ walk' = [walk EXCEPT !.list = Ranged(walk.line, @, k), !.stayed = @ \ {k}]

Clear ==
  /\ cells' = <<>> /\ listed' = <<>> /\ nilled' = {}
  /\ walk' = [walk EXCEPT !.stayed = {}]

(* Row and Col: the list is that of the start, the cells are those of now. *)
StartWalk(l) ==
  /\ walk.line = NoLine
  /\ l \in DOMAIN listed
  /\ walk' = [NoWalk EXCEPT !.line = l, !.list = listed[l],
                            !.stayed = {k \in DOMAIN cells : l \in Through(k)},
                            !.but = nilled]
  /\ UNCHANGED <<cells, listed, nilled>>

WalkNext ==
  /\ walk.line # NoLine /\ walk.next <= Len(walk.list)
  /\ LET x == walk.list[walk.next] IN
     walk' = [walk EXCEPT !.next = @ + 1,
                          !.got = IF Cell(walk.line, x) \in DOMAIN cells THEN Append(@, x) ELSE @]
  /\ UNCHANGED <<cells, listed, nilled>>

(* The list is through, or the loop body breaks. *)
EndWalk ==
  /\ walk.line # NoLine
  /\ walk' = NoWalk
  /\ UNCHANGED <<cells, listed, nilled>>

Next ==
  \/ \E k \in Coords : Remove(k) \/ \E v \in CellValues : Put(k, v)
  \/ \E l \in Lines : StartWalk(l)
  \/ Clear \/ WalkNext \/ EndWalk

Spec == Init /\ [][Next]_vars

-----------------------------------------------------------------------------
(* Properties. *)

Held(l) == {x \in Rows \cup Cols : Cell(l, x) \in DOMAIN cells}
OnceEach(l, s, but) ==
  \A i, j \in DOMAIN s : s[i] = s[j] => i = j \/ Cell(l, s[i]) \in but

(* The three maps are one grid: a row or column lists the cells it has,    *)
(* each once, and has an entry, which is what ContainsRow and RowKeys look *)
(* at, when it has a cell.  Put takes a cell that holds nil for a new one  *)
(* and lists it again: such a cell alone may be listed several times.      *)
IndexesAgree ==
  /\ DOMAIN listed = {l \in Lines : Held(l) # {}}
  /\ \A l \in Lines : Items(ListOf(l)) = Held(l) /\ OnceEach(l, ListOf(l), nilled)

(* A range over a row or a column whose loop body puts, removes and clears *)
(* cells goes on: it yields no cell twice, and when it comes to its end it *)
(* has yielded every cell that was there all the time.  The exception, as  *)
(* above, is a cell that held nil when the range began.                    *)
WalkIsFaithful ==
  walk.line # NoLine =>
    /\ OnceEach(walk.line, walk.got, walk.but)
    /\ walk.next > Len(walk.list) =>
         \A k \in walk.stayed : Across(walk.line, k) \in Items(walk.got)
=============================================================================
