------------------------------- MODULE MCChains -------------------------------
(***************************************************************************)
(* Every chain of two stages over finite sources, and a few chains over    *)
(* unbounded ones.                                                         *)
(***************************************************************************)
EXTENDS Chains

S(op, n) == [op |-> op, n |-> n]
Finite(items) == [items |-> items, back |-> 0]
Unbounded(items, back) == [items |-> items, back |-> back]

MCOther == <<<<7>>, <<8>>>>

MCStages ==
  {S("filter", 1), S("map", 0), S("flatMap", 2), S("take", 0), S("take", 2), S("skip", 1),
   S("zip", 0), S("mapMulti", 2), S("takeWhile", 1), S("dropWhile", 1), S("enumerate", 0),
   S("distinct", 0), S("scan", 0), S("fold", 0), S("windowFixed", 2),
   S("windowSliding", 2), S("mapWhile", 1), S("scanWhile", 1)}

MCSources == {Finite(<<>>), Finite(<<<<1>>, <<2>>, <<1>>>>), Finite(<<<<1>>, <<1>>, <<1>>, <<2>>>>)}

(* 1, 2, 2, 2, ... and 1, 2, 1, 2, ... *)
OnesAndTwos == {Unbounded(<<<<1>>, <<2>>>>, 2), Unbounded(<<<<1>>, <<2>>>>, 1)}

Pairs ==
  [chain : {<<a, b>> : a \in MCStages, b \in MCStages}, source : MCSources, want : {0, 1, 2}]

(* Stops that travel through several stages, some of which emit more than  *)
(* one element at a time or when they finish.                              *)
Passing == {S("mapMulti", 2), S("flatMap", 2), S("take", 2), S("distinct", 0), S("windowFixed", 2)}

Triples ==
  [chain : {<<a, b, c>> : a \in Passing, b \in Passing, c \in Passing},
   source : {Finite(<<<<1>>, <<2>>, <<1>>>>)}, want : {0, 1, 3}]

(* An unbounded source that the take or the consumer stops, while no more  *)
(* elements come through the filter or the distinct.                       *)
Endless ==
  [chain : {<<S("filter", 1), S("take", 1)>>}, source : OnesAndTwos, want : {0}]
    \cup
  [chain : {<<S("filter", 1), S("flatMap", 2), S("take", 3)>>,
            <<S("filter", 1), S("map", 0)>>, <<S("distinct", 0), S("dropWhile", 0)>>,
            <<S("filter", 1), S("takeWhile", 1)>>},
   source : OnesAndTwos, want : {1}]

MCPrograms == Pairs \cup Triples \cup Endless
=============================================================================
