-------------------------------- MODULE MCPipe --------------------------------
(***************************************************************************)
(* Small pipelines of up to three items, one for each way stages are       *)
(* put together.                                                           *)
(***************************************************************************)
EXTENDS Pipe

W(kind, in, outs, n) == [kind |-> kind, in |-> in, outs |-> outs, n |-> n, bound |-> TRUE]
Unbound(worker) == [worker EXCEPT !.bound = FALSE]
Network(workers, cap, ordered, copies) ==
  [workers |-> workers, cap |-> cap, ordered |-> ordered, copies |-> copies]
Unbuffered(k) == [c \in 1..k |-> 0]

(* From(items).Map(f).Buffer(1).Collect() *)
MapBuffer == Network(
  <<W("source", 0, <<1>>, 3), W("pass", 1, <<2>>, 0), W("pass", 2, <<3>>, 0),
    W("collect", 3, <<>>, 0)>>,
  <<0, 0, 1>>, TRUE, 1)

(* OrderedN(Enumerate(From(items)).Parallel(2, f), n).Collect() *)
Reordered(n) == Network(
  <<W("source", 0, <<1>>, 3), W("enumerate", 1, <<2>>, 0), W("pass", 2, <<3>>, 0),
    W("pass", 2, <<3>>, 0), W("ordered", 3, <<4>>, n), W("collect", 4, <<>>, 0)>>,
  Unbuffered(4), TRUE, 1)

(* From(items).Parallel(2, f).Collect() *)
Parallel == Network(
  <<W("source", 0, <<1>>, 3), W("pass", 1, <<2>>, 0), W("pass", 1, <<2>>, 0),
    W("collect", 2, <<>>, 0)>>,
  Unbuffered(2), FALSE, 1)

(* Window(From(items), 2).Collect() *)
Windowed == Network(
  <<W("source", 0, <<1>>, 3), W("window", 1, <<2>>, 2), W("collect", 2, <<>>, 0)>>,
  Unbuffered(2), TRUE, 1)

(* Fork(2), each branch collected on a goroutine of its own *)
Forked == Network(
  <<W("source", 0, <<1>>, 2), W("pass", 1, <<2, 3>>, 0), W("collect", 2, <<>>, 0),
    W("collect", 3, <<>>, 0)>>,
  Unbuffered(3), TRUE, 1)

(* Merge(From(items).Fork(2)...).Collect() *)
ForkedAndMerged == Network(
  <<W("source", 0, <<1>>, 2), W("pass", 1, <<2, 3>>, 0), W("pass", 2, <<4>>, 0),
    W("pass", 3, <<4>>, 0), W("collect", 4, <<>>, 0)>>,
  Unbuffered(4), FALSE, 2)

(* From(items).WithContext(ctx).Map(f).Collect() *)
LateContext == Network(
  <<Unbound(W("source", 0, <<1>>, 2)), W("pass", 1, <<2>>, 0), W("collect", 2, <<>>, 0)>>,
  Unbuffered(2), TRUE, 1)

(* From(items).RateLimit(ctx, lim).Map(f).Collect() *)
Limited == Network(
  <<Unbound(W("source", 0, <<1>>, 2)), W("limit", 1, <<2>>, 0), W("pass", 2, <<3>>, 0),
    W("collect", 3, <<>>, 0)>>,
  Unbuffered(3), TRUE, 1)

(* Window(From(nothing), 2).Await() *)
Empty == Network(
  <<W("source", 0, <<1>>, 0), W("window", 1, <<2>>, 2), W("await", 2, <<>>, 0)>>,
  Unbuffered(2), TRUE, 1)

(* Go(f).Await() *)
GoAwait == Network(
  <<Unbound(W("source", 0, <<1>>, 1)), W("await", 1, <<>>, 0)>>, <<1>>, TRUE, 1)

MCNets ==
  {MapBuffer, Reordered(0), Reordered(1), Parallel, Windowed, Forked, ForkedAndMerged,
   LateContext, Limited, Empty, GoAwait}

(* The networks that the theorems about faithful delivery are about.       *)
ASSUME RoutesAssumption == \A p \in MCNets \ {ForkedAndMerged} : OneRoute(p) /\ Arranged(p)
=============================================================================
