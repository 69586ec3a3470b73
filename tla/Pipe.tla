--------------------------------- MODULE Pipe ---------------------------------
(***************************************************************************)
(* The channel pipelines of async/pipe.go.  A pipeline is a network of the *)
(* goroutines its stages start, joined by channels: unbuffered ones, on    *)
(* which a sender and a receiver meet, and those of Go and Buffer, which   *)
(* hold a few items.  Every goroutine ranges over its input and selects    *)
(* between each of its sends and the end of its context; a channel is      *)
(* closed when all goroutines that send on it have returned.               *)
(*                                                                         *)
(* A network says for each goroutine its kind, its input, the channels it  *)
(* sends on, whether its context is the one that may be cancelled (Bound)  *)
(* or context.Background, and n, the parameter of its stage:               *)
(*   source     FromContext, FromIterContext, Go: n items                  *)
(*   pass       Map, Buffer, a worker of Parallel or Merge, and the pump   *)
(*              of Fork, which sends to each channel in turn               *)
(*   limit      RateLimit                                                  *)
(*   enumerate  Enumerate                                                  *)
(*   ordered    OrderedN with maxPending n, and Ordered with n = 0         *)
(*   window     Window of size n                                           *)
(*   collect    Collect, Each, Reduce                                      *)
(*   await      Await                                                      *)
(***************************************************************************)
EXTENDS Integers, Sequences, FiniteSets

CONSTANTS
  MaxItems,       \* the most items a source has
  Nets            \* the networks to consider

Kinds == {"source", "pass", "limit", "enumerate", "ordered", "window", "collect", "await"}

(* What the constructors build: one source; a stage reads a pipe that was  *)
(* there before, which is in = 0 for the source, and makes the channels it *)
(* sends on; a Fork has branches, and a Window has a size.                  *)
IsNetwork(p) ==
  /\ p.cap \in Seq(Nat)
  /\ p.workers \in Seq([kind : Kinds, in : 0..Len(p.cap), outs : Seq(DOMAIN p.cap),
                        n : Nat, bound : BOOLEAN])
  /\ \E s \in DOMAIN p.workers :
       \A w \in DOMAIN p.workers : p.workers[w].kind = "source" <=> w = s
  /\ \A w \in DOMAIN p.workers :
       LET g == p.workers[w] IN
       /\ g.kind = "source" <=> g.in = 0
       /\ g.kind = "source" => g.n <= MaxItems
       /\ g.kind = "window" => g.n > 0
       /\ g.kind \in {"collect", "await"} <=> g.outs = <<>>
       /\ g.kind = "pass" \/ Len(g.outs) <= 1
       /\ \A i, j \in DOMAIN g.outs : g.outs[i] = g.outs[j] => i = j
       /\ \A i \in DOMAIN g.outs : g.in < g.outs[i]
  /\ \A c \in DOMAIN p.cap :
       \E w \in DOMAIN p.workers : \E i \in DOMAIN p.workers[w].outs : p.workers[w].outs[i] = c

ASSUME NetsAssumption == MaxItems \in Nat /\ \A p \in Nets : IsNetwork(p)

(* One stage reads each channel, of one goroutine unless it is Parallel,   *)
(* and one stage sends on it: no Merge brings branches together.           *)
OneRoute(p) ==
  /\ p.copies = 1
  /\ \A v, w \in DOMAIN p.workers :
       v # w /\ p.workers[v].in = p.workers[w].in =>
         p.workers[v].kind = "pass" /\ p.workers[w].kind = "pass"
           /\ p.workers[v].outs = p.workers[w].outs
  /\ \A v, w \in DOMAIN p.workers :
       \A i \in DOMAIN p.workers[v].outs, j \in DOMAIN p.workers[w].outs :
         p.workers[v].outs[i] = p.workers[w].outs[j] => p.workers[v].in = p.workers[w].in

(* The channels O carry the source's order, Z its items before any batch,  *)
(* and X items with the Index that Enumerate gave them, called before a    *)
(* stage scrambles their order, as its documentation asks.                 *)
IsArranged(p, O, Z, X) ==
  /\ \A w \in DOMAIN p.workers :
       LET g == p.workers[w]
           alone == \A v \in DOMAIN p.workers : p.workers[v].in = g.in => v = w IN
       /\ p.ordered /\ g.kind \in {"collect", "await"} => g.in \in O
       /\ g.kind = "ordered" => g.in \in X
       /\ \A i \in DOMAIN g.outs :
            /\ g.outs[i] \in O => g.kind \in {"source", "ordered"} \/ (g.in \in O /\ alone)
            /\ g.outs[i] \in Z => g.kind = "source" \/ (g.kind \in {"pass", "limit"} /\ g.in \in Z)
            /\ g.outs[i] \in X => \/ (g.kind = "enumerate" /\ g.in \in Z)
                                 \/ (g.kind \in {"pass", "limit"} /\ g.in \in X)
  /\ Z \subseteq O

Arranged(p) == \E O, Z, X \in SUBSET DOMAIN p.cap : IsArranged(p, O, Z, X)

VARIABLES
  net,            \* the network
  ctxDone,        \* its context has ended
  buf,            \* what each channel holds
  closed,         \* the channels that are closed
  st              \* the state of each goroutine

vars == <<net, ctxDone, buf, closed, st>>

Workers == DOMAIN net.workers
Channels == DOMAIN net.cap
Kind(w) == net.workers[w].kind
In(w) == net.workers[w].in
Outs(w) == net.workers[w].outs
N(w) == net.workers[w].n
Bound(w) == net.workers[w].bound

(* An item carries the positions, in the source, of what it was made from, *)
(* and its Index once it has one.                                          *)
NoIndex == -1
Item(k) == [index |-> NoIndex, from |-> <<k>>]

(* Where a goroutine is: receiving, sending, sending what remains before it *)
(* returns, returned, or returned because maxPending was exceeded or the   *)
(* limiter refused.                                                        *)
Ended(w) == st[w].at \in {"done", "cut"}
Sending(w) == st[w].at \in {"send", "last"}
Writers(c) == {w \in Workers : \E i \in DOMAIN Outs(w) : Outs(w)[i] = c}

Positions == UNION {[1..k -> 1..MaxItems] : k \in 0..(2 * MaxItems)}
Items == [index : (NoIndex)..(MaxItems - 1), from : Positions]

TypeOK ==
  /\ net \in Nets
  /\ ctxDone \in BOOLEAN
  /\ \A c \in Channels :
       Len(buf[c]) <= net.cap[c] /\ \A i \in DOMAIN buf[c] : buf[c][i] \in Items
  /\ closed \subseteq Channels
  /\ \A w \in Workers :
       /\ st[w].at \in {"recv", "send", "last", "done", "cut"}
       /\ Sending(w) <=> st[w].todo # <<>>
       /\ \A i \in DOMAIN st[w].todo :
            st[w].todo[i].to \in Channels /\ st[w].todo[i].item \in Items
       /\ st[w].next \in 0..MaxItems
       /\ st[w].pending \subseteq Items
       /\ st[w].kept \in Positions

(* What goroutine w has still to send: item x to each of its channels.     *)
ToAll(w, x) == [i \in DOMAIN Outs(w) |-> [to |-> Outs(w)[i], item |-> x]]

Init ==
  /\ net \in Nets
  /\ ctxDone = FALSE
  /\ buf = [c \in Channels |-> <<>>]
  /\ closed = {}
  /\ st = [w \in Workers |->
       [at |-> IF Kind(w) # "source" THEN "recv" ELSE IF N(w) > 0 THEN "last" ELSE "done",
        todo |-> IF Kind(w) = "source"
                 THEN [k \in 1..N(w) |-> [to |-> Outs(w)[1], item |-> Item(k)]] ELSE <<>>,
        next |-> 0, pending |-> {}, kept |-> <<>>]]

-----------------------------------------------------------------------------
(* What a goroutine does with an item it received, by kind. *)

Send(s, msgs) == [s EXCEPT !.at = "send", !.todo = msgs]

PassItem(w, x) == Send(st[w], ToAll(w, x))

IndexItem(w, x) ==
  [Send(st[w], ToAll(w, [x EXCEPT !.index = st[w].next])) EXCEPT !.next = @ + 1]

(* pending[item.Index] = item.Value; stop when there are more than         *)
(* maxPending, else emit as far as there is no gap.                        *)
Run(p, i, k) == \A j \in i..(i + k - 1) : \E y \in p : y.index = j
At(p, i) == CHOOSE y \in p : y.index = i

OrderItem(w, x) ==
  LET p == st[w].pending \cup {x}
      i == st[w].next
      k == CHOOSE n \in 0..Cardinality(p) : Run(p, i, n) /\ ~ Run(p, i, n + 1)
      run == [j \in 1..k |-> [to |-> Outs(w)[1],
                              item |-> [At(p, i + j - 1) EXCEPT !.index = NoIndex]]]
      s == [st[w] EXCEPT !.pending = {y \in p : y.index >= i + k}, !.next = i + k]
  IN IF N(w) > 0 /\ Cardinality(p) > N(w) THEN [st[w] EXCEPT !.at = "cut", !.pending = p]
     ELSE IF k = 0 THEN s ELSE Send(s, run)

Batch(k) == [index |-> NoIndex, from |-> k]

BatchItem(w, x) ==
  LET k == st[w].kept \o x.from IN
  IF Len(k) = N(w) THEN [Send(st[w], ToAll(w, Batch(k))) EXCEPT !.kept = <<>>]
                   ELSE [st[w] EXCEPT !.kept = k]

KeepItem(w, x) == [st[w] EXCEPT !.kept = @ \o x.from]

Received(w, x) ==
  CASE Kind(w) \in {"pass", "limit"} -> PassItem(w, x)
    [] Kind(w) = "enumerate" -> IndexItem(w, x)
    [] Kind(w) = "ordered" -> OrderItem(w, x)
    [] Kind(w) = "window" -> BatchItem(w, x)
    [] Kind(w) = "collect" -> KeepItem(w, x)
    [] Kind(w) = "await" -> [KeepItem(w, x) EXCEPT !.at = "done"]

(* ... once it has sent the first thing it has to send ... *)
SentFirst(w) ==
  LET rest == Tail(st[w].todo)
      after == IF rest # <<>> THEN st[w].at ELSE IF st[w].at = "send" THEN "recv" ELSE "done"
  IN [st[w] EXCEPT !.todo = rest, !.at = after]

(* ... and when its input is closed: Window emits its trailing batch.      *)
DropTrailing(w) == [st[w] EXCEPT !.at = "done"]

InputEnded(w) ==
  IF Kind(w) = "window" /\ st[w].kept # <<>>
  THEN [st[w] EXCEPT !.at = "last", !.todo = ToAll(w, Batch(st[w].kept)), !.kept = <<>>]
  ELSE [st[w] EXCEPT !.at = "done"]

-----------------------------------------------------------------------------
(* Steps. *)

(* w and r meet on an unbuffered channel. *)
Meet(w, r) ==
  /\ Sending(w) /\ st[r].at = "recv"
  /\ Head(st[w].todo).to = In(r) /\ net.cap[In(r)] = 0
  /\ st' = [st EXCEPT ![w] = SentFirst(w), ![r] = Received(r, Head(st[w].todo).item)]
  /\ UNCHANGED <<net, ctxDone, buf, closed>>

Put(w) ==
  /\ Sending(w)
  /\ LET c == Head(st[w].todo).to IN
       /\ Len(buf[c]) < net.cap[c]
       /\ buf' = [buf EXCEPT ![c] = Append(@, Head(st[w].todo).item)]
  /\ st' = [st EXCEPT ![w] = SentFirst(w)]
  /\ UNCHANGED <<net, ctxDone, closed>>

Take(r) ==
  /\ st[r].at = "recv"
  /\ buf[In(r)] # <<>>
  /\ buf' = [buf EXCEPT ![In(r)] = Tail(@)]
  /\ st' = [st EXCEPT ![r] = Received(r, Head(buf[In(r)]))]
  /\ UNCHANGED <<net, ctxDone, closed>>

(* The end of range over a closed channel. *)
SeeClosed(r) ==
  /\ st[r].at = "recv"
  /\ In(r) \in closed /\ buf[In(r)] = <<>>
  /\ st' = [st EXCEPT ![r] = InputEnded(r)]
  /\ UNCHANGED <<net, ctxDone, buf, closed>>

(* case <-ctx.Done(): only where the goroutine sends. *)
SeeCtxDoneButInPass(w) ==
  /\ Kind(w) # "pass"
  /\ Sending(w) /\ Bound(w) /\ ctxDone
  /\ st' = [st EXCEPT ![w] = [@ EXCEPT !.at = "done", !.todo = <<>>]]
  /\ UNCHANGED <<net, ctxDone, buf, closed>>

SeeCtxDone(w) ==
  /\ Sending(w) /\ Bound(w) /\ ctxDone
  /\ st' = [st EXCEPT ![w] = [@ EXCEPT !.at = "done", !.todo = <<>>]]
  /\ UNCHANGED <<net, ctxDone, buf, closed>>

(* lim.Wait returns an error instead of the item's turn: the context is    *)
(* done or will be by then, or the limiter never admits anything.          *)
LimiterRefuses(w) ==
  /\ Kind(w) = "limit" /\ Sending(w)
  /\ st' = [st EXCEPT ![w] = [@ EXCEPT !.at = "cut", !.todo = <<>>]]
  /\ UNCHANGED <<net, ctxDone, buf, closed>>

(* The deferred close, or that of the goroutine that waits for the group.  *)
CloseSingle(c) ==
  /\ c \notin closed
  /\ \E w \in Workers : Writers(c) = {w} /\ Ended(w)
  /\ closed' = closed \cup {c}
  /\ UNCHANGED <<net, ctxDone, buf, st>>

Close(c) ==
  /\ c \notin closed
  /\ \A w \in Writers(c) : Ended(w)
  /\ closed' = closed \cup {c}
  /\ UNCHANGED <<net, ctxDone, buf, st>>

Cancel ==
  /\ ~ ctxDone
  /\ ctxDone' = TRUE
  /\ UNCHANGED <<net, buf, closed, st>>

Step ==
  \/ \E w, r \in Workers : Meet(w, r)
  \/ \E w \in Workers : Put(w) \/ Take(w) \/ SeeClosed(w)
  \/ \E c \in Channels : Close(c)

Next == Step \/ Cancel \/ \E w \in Workers : SeeCtxDone(w) \/ LimiterRefuses(w)
Spec == Init /\ [][Next]_vars

(* The terminal drains the pipeline and every goroutine is scheduled.  A   *)
(* finite network stops after finitely many steps, so it is enough that    *)
(* some goroutine that can run does, and that one whose context has ended  *)
(* returns even when it could also send.                                   *)
Fairness == WF_vars(Step) /\ WF_vars(\E w \in Workers : SeeCtxDone(w))
FairSpec == Spec /\ Fairness

-----------------------------------------------------------------------------
(* Properties. *)

Terminals == {w \in Workers : Kind(w) \in {"collect", "await"}}
Cut == \E w \in Workers : st[w].at = "cut"
Times(w, k) == Cardinality({i \in DOMAIN st[w].kept : st[w].kept[i] = k})
Source == CHOOSE w \in Workers : Kind(w) = "source"

(* No item is duplicated, invented or, short of a cancellation or of the   *)
(* limits of OrderedN and RateLimit, lost; and a network that keeps order,  *)
(* by Ordered or because one goroutine handles each stage, delivers a      *)
(* prefix of what the source gave, whatever is cancelled when.             *)
FaithfulDelivery ==
  \A w \in Terminals :
    /\ \A k \in 1..MaxItems : Times(w, k) <= net.copies
    /\ net.ordered => \A i \in DOMAIN st[w].kept : st[w].kept[i] = i
    /\ Kind(w) = "collect" /\ Ended(w) /\ ~ ctxDone /\ ~ Cut =>
         \A k \in 1..N(Source) : Times(w, k) = net.copies

(* A drained pipeline ends: every terminal returns, cut short or not, and   *)
(* unless it is cut short or cancelled every goroutine returns with it.     *)
DrainedEnds ==
  /\ <>(\A w \in Terminals : Ended(w))
  /\ <>(ctxDone \/ Cut \/ \A w \in Workers : Ended(w))

(* After a cancellation every goroutine returns, except one that was built *)
(* with another context, wants to send, and whose readers are all gone.    *)
Stranded(w) ==
  ~ Bound(w) /\ Sending(w) /\ \A r \in Workers : In(r) = Head(st[w].todo).to => Ended(r)

CancelEnds == ctxDone ~> \A w \in Workers : Ended(w) \/ Stranded(w)

(* "cancelling the context unblocks and exits all goroutines in the        *)
(* pipeline"                                                               *)
CancellingEndsAll == ctxDone ~> \A w \in Workers : Ended(w)

(* "if more than maxPending items are waiting for a missing predecessor,   *)
(* the pipeline stops": OrderedN stops only with that many items that are  *)
(* not the next one.                                                       *)
StopsForMissing ==
  \A w \in Workers :
    Kind(w) = "ordered" /\ st[w].at = "cut" =>
      Cardinality({y \in st[w].pending : y.index > st[w].next}) > N(w)
=============================================================================
