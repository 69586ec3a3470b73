----------------------------- MODULE MCCollections -----------------------------
(***************************************************************************)
(* The collections of ds, one of them at a time: a table of three records  *)
(* that compete for three primary keys, three unique keys and two groups;  *)
(* a grid of two rows and two columns, whose cells may hold nil; and a     *)
(* graph of three nodes and three edges, either list.                      *)
(***************************************************************************)
EXTENDS Table

CONSTANTS
  Rows, Cols, CellValues, MaxListed, Nil, NoLine,     \* the grid's
  MaxNodes, MaxEdges,                                 \* the graph's
  v1, v2, v3

MCRecords == {v1, v2, v3}
MCPKs == {"p", "q", "r"}
MCUKs == {"x", "y", "z"}
MCGroups == {"a", "b"}
MCRows == {"r1", "r2"}
MCCols == {"c1", "c2"}
MCCellValues == {"v", Nil}

VARIABLES
  inUse,
  cells, listed, walk, nilled,
  bidirectional, out, in, edges, born

gridVars == <<cells, listed, walk, nilled>>
graphVars == <<bidirectional, out, in, edges, born>>

TheGrid == INSTANCE Grid
TheGraph == INSTANCE Graph

ASSUME GridAssumption == NoLine \notin TheGrid!Lines

MCInit ==
  /\ inUse \in {"table", "grid", "graph"}
  /\ Init
  /\ TheGrid!Init
  /\ TheGraph!Init
  /\ inUse # "table" => val = [v \in Records |-> [pk |-> "p", uk |-> "x", group |-> "a"]]
  /\ inUse # "graph" => ~ bidirectional

MCNext ==
  \/ inUse = "table" /\ Next /\ UNCHANGED <<inUse, gridVars, graphVars>>
  \/ inUse = "grid" /\ TheGrid!Next /\ UNCHANGED <<inUse, vars, graphVars>>
  \/ inUse = "graph" /\ TheGraph!Next /\ UNCHANGED <<inUse, vars, gridVars>>

MCSpec == MCInit /\ [][MCNext]_<<inUse, vars, gridVars, graphVars>>

(* The grid's and the graph's own properties. *)
GridIndexesAgree == TheGrid!IndexesAgree
GridWalkIsFaithful == TheGrid!WalkIsFaithful
GraphEdgesIndexed == TheGraph!EdgesIndexed
=============================================================================
