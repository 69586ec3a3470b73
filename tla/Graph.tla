--------------------------------- MODULE Graph ---------------------------------
(***************************************************************************)
(* ds.AdjList and ds.IncidenceList: nodes and edges are appended to two    *)
(* slices, and each node keeps the ids of its edges, an AdjList of those   *)
(* that leave it and of those that enter it, an IncidenceList only of      *)
(* those that leave it.  Ids are positions, counted from 1 here; nothing   *)
(* is ever removed.                                                        *)
(*                                                                         *)
(* AddEdge appends the edge before it looks at the endpoints: when one     *)
(* does not exist it panics half way, and a caller that recovers goes on   *)
(* with what is left.                                                      *)
(***************************************************************************)
EXTENDS Slices

CONSTANTS
  MaxNodes, MaxEdges      \* bounds on the size of the graph

VARIABLES
  bidirectional,          \* an AdjList rather than an IncidenceList
  out, in,                \* the outEdges and inEdges of every node
  edges,                  \* the endpoints of every edge
  born                    \* how many nodes there were when an edge was added

vars == <<bidirectional, out, in, edges, born>>

Nodes == DOMAIN out
EndPoints == 0..MaxNodes
NextEdge == Len(edges) + 1

Init ==
  /\ bidirectional \in BOOLEAN
  /\ out = <<>> /\ in = <<>>
  /\ edges = <<>> /\ born = <<>>

AddNode ==
  /\ Len(out) < MaxNodes
  /\ out' = Append(out, <<>>)
  /\ in' = Append(in, <<>>)
  /\ UNCHANGED <<bidirectional, edges, born>>

Link(lists, v) == [lists EXCEPT ![v] = Append(@, NextEdge)]

NewEdge(src, dst) ==
  /\ Len(edges) < MaxEdges
  /\ edges' = Append(edges, [src |-> src, dst |-> dst])
  /\ born' = Append(born, Len(out))
  /\ UNCHANGED bidirectional

AddEdge(src, dst) ==
  /\ src \in Nodes
  /\ bidirectional => dst \in Nodes
  /\ NewEdge(src, dst)
  /\ out' = Link(out, src)
  /\ in' = IF bidirectional THEN Link(in, dst) ELSE in

(* nodes[src] panics: no node knows the edge. *)
PanicAtSrc(src, dst) ==
  /\ src \notin Nodes
  /\ NewEdge(src, dst)
  /\ UNCHANGED <<out, in>>

(* The endpoints looked at in the other order. *)
PanicBeforeSrc(src, dst) ==
  /\ bidirectional /\ src \in Nodes /\ dst \notin Nodes
  /\ NewEdge(src, dst)
  /\ UNCHANGED <<out, in>>

(* nodes[dst] panics: its source knows the edge. *)
PanicAtDst(src, dst) ==
  /\ bidirectional /\ src \in Nodes /\ dst \notin Nodes
  /\ NewEdge(src, dst)
  /\ out' = Link(out, src)
  /\ UNCHANGED in

(* The caller makes another graph. *)
NewList ==
  /\ edges # <<>>
  /\ bidirectional' \in BOOLEAN
  /\ out' = <<>> /\ in' = <<>>
  /\ edges' = <<>> /\ born' = <<>>

Next ==
  \/ AddNode \/ NewList
  \/ \E src, dst \in EndPoints :
       AddEdge(src, dst) \/ PanicAtSrc(src, dst) \/ PanicAtDst(src, dst)

Spec == Init /\ [][Next]_vars

-----------------------------------------------------------------------------
(* OutEdges and InEdges, as the code reads them: nothing for an id that is  *)
(* not a node.                                                             *)
OutEdges(v) == IF v \in Nodes THEN out[v] ELSE <<>>
InEdges(v) == IF v \in Nodes THEN in[v] ELSE <<>>

-----------------------------------------------------------------------------
(* Properties. *)

EdgesIn(S) == Filtered([e \in DOMAIN edges |-> e], S)
HadSrc(e) == edges[e].src \in 1..born[e]
HadDst(e) == edges[e].dst \in 1..born[e]

(* The edges of a node are those added with it as an endpoint, in the      *)
(* order they were added: the lists of a node, Src, Dst and Edges never    *)
(* disagree on an edge whose AddEdge returned.  An edge whose AddEdge      *)
(* panicked stays among Edges, and leaves its source if that existed; it   *)
(* is not found from the missing node, also when a later node has its id.  *)
EdgesIndexed ==
  \A v \in EndPoints :
    /\ OutEdges(v) = EdgesIn({e \in DOMAIN edges : edges[e].src = v /\ HadSrc(e)})
    /\ InEdges(v) = IF ~ bidirectional THEN <<>>
         ELSE EdgesIn({e \in DOMAIN edges : edges[e].dst = v /\ HadSrc(e) /\ HadDst(e)})
=============================================================================
