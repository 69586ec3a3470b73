------------------------------ MODULE StreamProofs ------------------------------
(***************************************************************************)
(* Proofs about the two kinds of pipelines.                                *)
(*                                                                         *)
(* The channel pipelines of async/pipe.go: FaithfulDelivery of Pipe.tla,   *)
(* for networks of any stages, capacities and lengths in which one route   *)
(* leads to each terminal (OneRoute) and whose Ordered stages are called   *)
(* as their documentation asks (Arranged), from PipeInv.  PipeInv says     *)
(* what the channels have carried and the goroutines have taken so far;    *)
(* the state does not record either, and so it says that there are         *)
(* positions p, g, put and took with which its parts hold: Shape, Ends,    *)
(* Order and Flow.                                                         *)
(*                                                                         *)
(* The lazy sequences of stream/seq.go: YieldsWhileWanted of Yield.tla,    *)
(* for chains of any length and any stages, over finite and unbounded      *)
(* sources, from SeqInv.  The instance Seqs is LazySeq with the variables  *)
(* here, and its assumption on the programs is a hypothesis.               *)
(***************************************************************************)
EXTENDS Pipe, Yield, FiniteSetTheorems, WellFoundedInduction, TLAPS

CONSTANTS
  Programs,       \* the chains of LazySeq
  Other           \* the elements of ZipSeq's second sequence

VARIABLES
  prog, pos, locals, out  \* those of LazySeq, with those of Yield

Seqs == INSTANCE LazySeq WITH st <- locals

-----------------------------------------------------------------------------
(* The invariants of a pipeline, as operators of the network n, what its   *)
(* channels hold, the states of its goroutines, the closed channels and    *)
(* whether the context has ended.                                          *)

Thing == [index : Int, from : Seq(Nat)]
States(n) ==
  [at : {"recv", "send", "last", "done", "cut"}, todo : Seq([to : DOMAIN n.cap, item : Thing]),
   next : Nat, pending : SUBSET Thing, kept : Seq(Nat)]
HasEnded(r) == r.at \in {"done", "cut"}

(* What a goroutine holds fits its kind and where it is.                   *)
WorkerShape(n, w, r) ==
  LET g == n.workers[w] IN
  /\ r \in States(n) /\ IsFiniteSet(r.pending)
  /\ r.at \in {"send", "last"} <=> r.todo # <<>>
  /\ \A i \in DOMAIN r.todo : \E j \in DOMAIN g.outs : g.outs[j] = r.todo[i].to
  /\ g.kind = "source" => r.at \in {"last", "done"}
  /\ r.at = "last" => g.kind \in {"source", "window"}
  /\ r.kept # <<>> => \/ g.kind \in {"collect", "await"}
                      \/ (g.kind = "window" /\ r.at = "recv")

Shape(n, b, s, cl, cd) ==
  /\ n \in Nets /\ cd \in BOOLEAN /\ cl \subseteq DOMAIN n.cap
  /\ b \in [DOMAIN n.cap -> Seq(Thing)] /\ \A c \in DOMAIN n.cap : Len(b[c]) <= n.cap[c]
  /\ DOMAIN s = DOMAIN n.workers /\ \A w \in DOMAIN n.workers : WorkerShape(n, w, s[w])

(* A closed channel stays as it is but for what is taken from it, and a    *)
(* goroutine that has seen the end of its input, and not of its context,   *)
(* has taken all of it.                                                    *)
Ends(n, b, s, cl, cd) ==
  /\ \A c \in cl : \A w \in DOMAIN n.workers :
       (\E i \in DOMAIN n.workers[w].outs : n.workers[w].outs[i] = c) => HasEnded(s[w])
  /\ \A w \in DOMAIN n.workers :
       n.workers[w].kind \notin {"source", "await"} /\ s[w].at \in {"last", "done"} /\ ~ cd =>
         n.workers[w].in \in cl /\ b[n.workers[w].in] = <<>>

-----------------------------------------------------------------------------
(* Order.  The channel c has carried positions up to p[c], and positions   *)
(* up to g[c] have been taken from it.                                     *)

Span(lo, hi) == [j \in 1..(hi - lo) |-> lo + j]

Cuts(cut, q, n, lo, hi) ==
  /\ cut[0] = lo /\ cut[n] = hi
  /\ \A i, j \in 0..n : i < j => cut[i] < cut[j]
  /\ \A i \in 1..n : q[i].from = Span(cut[i - 1], cut[i])
Carries(q, lo, hi) == \E cut \in [Nat -> Nat] : Cuts(cut, q, Len(q), lo, hi)

(* An item on a channel of Z is one of the source's, and one on a channel  *)
(* of X bears its place in the source.                                     *)
Fit(Z, X, c, x) ==
  /\ c \in Z => \E k \in Nat : x.from = <<k>>
  /\ c \in X => x.index \in Nat /\ x.from = <<x.index + 1>>

ChannelOrder(O, Z, X, p, g, c, q) ==
  /\ c \in O => g[c] <= p[c] /\ Carries(q, g[c], p[c])
  /\ \A i \in DOMAIN q : Fit(Z, X, c, q[i])

(* What w will send follows what it has sent, and its batch follows that.  *)
SendsInOrder(n, O, p, g, w, r) ==
  LET outs == n.workers[w].outs
      in == n.workers[w].in IN
  /\ \A i, j \in DOMAIN r.todo : r.todo[i].to = r.todo[j].to => i = j
  /\ \A i \in DOMAIN r.todo :
       r.todo[i].to \in O =>
         p[r.todo[i].to] < g[in] /\ r.todo[i].item.from = Span(p[r.todo[i].to], g[in])
  /\ \A j \in DOMAIN outs :
       outs[j] \in O /\ (\A i \in DOMAIN r.todo : r.todo[i].to # outs[j]) =>
         p[outs[j]] <= g[in] /\ r.kept = Span(p[outs[j]], g[in])

(* A source and Ordered have consecutive single items to send.             *)
CountsOn(n, O, p, w, r) ==
  LET c == n.workers[w].outs[1] IN
  c \in O => \A i \in DOMAIN r.todo : r.todo[i].item.from = <<p[c] + i>>

WorkerOrder(n, O, Z, X, p, g, w, r) ==
  LET kind == n.workers[w].kind
      in == n.workers[w].in IN
  /\ \A i \in DOMAIN r.todo : Fit(Z, X, r.todo[i].to, r.todo[i].item)
  /\ kind \in {"source", "ordered"} => CountsOn(n, O, p, w, r)
  /\ kind \in {"pass", "limit", "enumerate", "window"} /\ ~ HasEnded(r) =>
       SendsInOrder(n, O, p, g, w, r)
  /\ kind = "enumerate" /\ in \in Z => r.next = g[in]
  /\ kind = "ordered" =>
       /\ ~ HasEnded(r) /\ n.workers[w].outs[1] \in O => r.next = p[n.workers[w].outs[1]] + Len(r.todo)
       /\ \A y \in r.pending : y.index \in Nat /\ y.from = <<y.index + 1>>
  /\ kind \in {"collect", "await"} /\ in \in O => r.kept = Span(0, g[in])

InOrder(n, O, Z, X, p, g, b, s) ==
  /\ IsArranged(n, O, Z, X)
  /\ p \in [DOMAIN n.cap -> Nat] /\ g \in [DOMAIN n.cap -> Nat]
  /\ \A c \in DOMAIN n.cap : ChannelOrder(O, Z, X, p, g, c, b[c])
  /\ \A w \in DOMAIN n.workers : WorkerOrder(n, O, Z, X, p, g, w, s[w])

Order(n, b, s) ==
  \E O, Z, X \in SUBSET DOMAIN n.cap :
    \E p, g \in [DOMAIN n.cap -> Nat] : InOrder(n, O, Z, X, p, g, b, s)

-----------------------------------------------------------------------------
(* Flow.  The channel c has carried the positions put[c], and goroutine w  *)
(* has taken the positions took[w].                                        *)

Pos(x) == {x.from[j] : j \in DOMAIN x.from}
OneToOne(f) == \A i, j \in DOMAIN f : f[i] = f[j] => i = j
Sends(n, w, c) == \E j \in DOMAIN n.workers[w].outs : n.workers[w].outs[j] = c

ChannelFlow(n, put, took, c, q) ==
  /\ \A i \in DOMAIN q :
       /\ OneToOne(q[i].from) /\ Pos(q[i]) \subseteq put[c]
       /\ \A r \in DOMAIN n.workers : n.workers[r].in = c => Pos(q[i]) \cap took[r] = {}
  /\ \A i, j \in DOMAIN q : i # j => Pos(q[i]) \cap Pos(q[j]) = {}
  /\ \A r \in DOMAIN n.workers : n.workers[r].in = c => took[r] \subseteq put[c]
  /\ \A r, v \in DOMAIN n.workers :
       n.workers[r].in = c /\ n.workers[v].in = c /\ r # v => took[r] \cap took[v] = {}
  /\ \A k \in put[c] :
       /\ \/ \E i \in DOMAIN q : k \in Pos(q[i])
          \/ \E r \in DOMAIN n.workers : n.workers[r].in = c /\ k \in took[r]
       /\ \E w \in DOMAIN n.workers : Sends(n, w, c) /\ k \in took[w]

(* What a goroutine that has taken T will send is new to its channel, and  *)
(* so is what it batches.                                                  *)
TodoFlow(put, T, m) ==
  /\ \A i \in DOMAIN m :
       /\ OneToOne(m[i].item.from) /\ Pos(m[i].item) \subseteq T
       /\ Pos(m[i].item) \cap put[m[i].to] = {}
  /\ \A i, j \in DOMAIN m :
       i # j /\ m[i].to = m[j].to => Pos(m[i].item) \cap Pos(m[j].item) = {}

KeptFlow(outs, put, T, k) ==
  /\ OneToOne(k)
  /\ \A i \in DOMAIN k : k[i] \in T /\ \A j \in DOMAIN outs : k[i] \notin put[outs[j]]

(* Ordered has emitted, or is about to, the positions before next, and     *)
(* what is pending lies beyond a gap.                                      *)
Beyond(i, T, P) == (\A y \in P : y.index > i) /\ T = 1..i \cup {y.index + 1 : y \in P}
OrderedFlow(outs, put, T, r) ==
  /\ r.at # "cut" => Beyond(r.next, T, r.pending)
  /\ ~ HasEnded(r) => /\ put[outs[1]] = 1..(r.next - Len(r.todo))
                      /\ Len(r.todo) <= r.next
                      /\ \A i \in DOMAIN r.todo :
                           r.todo[i].item.from = <<r.next - Len(r.todo) + i>>

(* Any other goroutine has sent, will send, or batches all it has taken.   *)
Coming(put, m, c, k) ==
  k \in put[c] \/ \E i \in DOMAIN m : m[i].to = c /\ k \in Pos(m[i].item)
AllFlows(outs, put, T, r) ==
  \A j \in DOMAIN outs : \A k \in T :
    Coming(put, r.todo, outs[j], k) \/ \E i \in DOMAIN r.kept : r.kept[i] = k

KeepsAll(T, k) == \A y \in T : \E i \in DOMAIN k : k[i] = y

DoneFlow(kind, outs, put, T, r) ==
  \A j \in DOMAIN outs :
    IF kind = "ordered" THEN put[outs[j]] = 1..r.next ELSE T \subseteq put[outs[j]]

StateFlow(g, put, T, cd, r) ==
  /\ TodoFlow(put, T, r.todo)
  /\ KeptFlow(g.outs, put, T, r.kept)
  /\ g.kind = "source" => T = 1..g.n
  /\ g.kind \in {"collect", "await"} => KeepsAll(T, r.kept)
  /\ g.kind = "ordered" => OrderedFlow(g.outs, put, T, r)
  /\ g.kind # "ordered" /\ ~ HasEnded(r) => AllFlows(g.outs, put, T, r)
  /\ r.at = "done" /\ ~ cd => DoneFlow(g.kind, g.outs, put, T, r)

WorkerFlow(n, put, took, cd, w, r) == StateFlow(n.workers[w], put, took[w], cd, r)

(* Unless it was cut short, a closed channel has carried everything.       *)
Full(n, put, s, cl, cd) ==
  ~ cd /\ (\A w \in DOMAIN n.workers : s[w].at # "cut") =>
    \A c \in cl : \A w \in DOMAIN n.workers :
      n.workers[w].kind = "source" => 1..n.workers[w].n \subseteq put[c]

Flows(n, put, took, b, s, cl, cd) ==
  /\ put \in [DOMAIN n.cap -> SUBSET Nat] /\ took \in [DOMAIN n.workers -> SUBSET Nat]
  /\ \A c \in DOMAIN n.cap : ChannelFlow(n, put, took, c, b[c])
  /\ \A w \in DOMAIN n.workers : WorkerFlow(n, put, took, cd, w, s[w])
  /\ Full(n, put, s, cl, cd)

Flow(n, b, s, cl, cd) ==
  \E put \in [DOMAIN n.cap -> SUBSET Nat] : \E took \in [DOMAIN n.workers -> SUBSET Nat] :
    Flows(n, put, took, b, s, cl, cd)

(* Order and Flow in the networks that the theorem is about.               *)
PipeInv ==
  /\ Shape(net, buf, st, closed, ctxDone) /\ Ends(net, buf, st, closed, ctxDone)
  /\ OneRoute(net) /\ Arranged(net) => Order(net, buf, st) /\ Flow(net, buf, st, closed, ctxDone)

-----------------------------------------------------------------------------
(* Spans of positions. *)

(* Two sequences are equal when their items are.                           *)
LEMMA Equal ==
  ASSUME NEW T, NEW f \in Seq(T), NEW h \in Seq(T), Len(f) = Len(h),
         \A i \in 1..Len(h) : f[i] = h[i]
  PROVE  f = h
OBVIOUS

(* f holds the positions after lo, up to hi.                               *)
Spans(f, lo, hi) == hi = lo + Len(f) /\ \A i \in 1..Len(f) : f[i] = lo + i

(* Adjacent spans make one.                                                *)
LEMMA Joins ==
  ASSUME NEW f \in Seq(Nat), NEW h \in Seq(Nat), NEW j \in Seq(Nat),
         NEW lo \in Nat, NEW mid \in Nat, NEW hi \in Nat,
         Spans(f, lo, mid), Spans(h, mid, hi), Spans(j, lo, hi)
  PROVE  f \o h = j
<1>0. /\ mid = lo + Len(f) /\ Len(j) = Len(f) + Len(h)
      /\ \A i \in 1..Len(f) : f[i] = lo + i
      /\ \A i \in 1..Len(h) : h[i] = mid + i
      /\ \A i \in 1..Len(j) : j[i] = lo + i
  BY DEF Spans
<1>1. Len(f) \in Nat /\ Len(h) \in Nat /\ Len(j) \in Nat
  OBVIOUS
<1>2. f \o h \in Seq(Nat)
  OBVIOUS
<1>3. Len(f \o h) = Len(f) + Len(h)
  OBVIOUS
<1>4. \A i \in 1..Len(f) : (f \o h)[i] = f[i]
  OBVIOUS
<1>5. \A i \in 1..Len(h) : (f \o h)[Len(f) + i] = h[i]
  OBVIOUS
<1>6. ASSUME NEW i \in 1..Len(j) PROVE (f \o h)[i] = j[i]
  <2>1. CASE i <= Len(f)
    BY <2>1, <1>0, <1>4
  <2>2. CASE i > Len(f)
    <3>1. PICK k \in 1..Len(h) : i = Len(f) + k
      <4>1. i - Len(f) \in 1..Len(h) /\ i = Len(f) + (i - Len(f))
        BY <1>0, <2>2
      <4> QED BY <4>1, Zenon
    <3> QED BY <3>1, <1>0, <1>5
  <2>3. i <= Len(f) \/ i > Len(f)
    BY <1>1
  <2> QED BY <2>1, <2>2, <2>3, Zenon
<1>7. Len(f \o h) = Len(j)
  BY <1>0, <1>3, Zenon
<1> QED BY <1>2, <1>7, <1>6, Equal, Zenon

(* A span is one.                                                          *)
LEMMA SpanLen ==
  ASSUME NEW lo \in Nat, NEW hi \in Nat, lo <= hi
  PROVE  Span(lo, hi) \in Seq(Nat) /\ Spans(Span(lo, hi), lo, hi)
BY DEF Span, Spans

(* Adjacent spans make one.                                                *)
LEMMA SpansJoin ==
  ASSUME NEW lo \in Nat, NEW mid \in Nat, NEW hi \in Nat, lo <= mid, mid <= hi
  PROVE  Span(lo, mid) \o Span(mid, hi) = Span(lo, hi)
<1>1. lo <= hi
  OBVIOUS
<1>2. Span(lo, mid) \in Seq(Nat) /\ Spans(Span(lo, mid), lo, mid)
  BY SpanLen, Zenon
<1>3. Span(mid, hi) \in Seq(Nat) /\ Spans(Span(mid, hi), mid, hi)
  BY SpanLen, Zenon
<1>4. Span(lo, hi) \in Seq(Nat) /\ Spans(Span(lo, hi), lo, hi)
  BY <1>1, SpanLen, Zenon
<1> QED BY <1>2, <1>3, <1>4, Joins, Zenon

(* A span of one position is that position, and an empty one is empty.     *)
LEMMA SpanOfOne ==
  ASSUME NEW lo \in Nat, NEW hi \in Nat, lo <= hi, NEW k \in Nat, Span(lo, hi) = <<k>>
  PROVE  k = hi /\ hi = lo + 1
<1>1. Spans(<<k>>, lo, hi)
  BY SpanLen, Zenon
<1>2. hi = lo + Len(<<k>>) /\ \A j \in 1..Len(<<k>>) : <<k>>[j] = lo + j
  BY <1>1 DEF Spans
<1> QED BY <1>2

(* No positions lie between a place and itself.                            *)
LEMMA SpanOfNone ==
  ASSUME NEW lo \in Nat
  PROVE  Span(lo, lo) = <<>>
<1>0. lo <= lo
  OBVIOUS
<1>1. Span(lo, lo) \in Seq(Nat) /\ lo = lo + Len(Span(lo, lo))
  BY <1>0, SpanLen, Zenon DEF Spans
<1>2. Len(Span(lo, lo)) = 0
  BY <1>1
<1> QED BY <1>1, <1>2

(* A single position is a span.                                            *)
LEMMA OneIsSpan ==
  ASSUME NEW lo \in Nat
  PROVE  <<lo + 1>> = Span(lo, lo + 1)
<1>1. <<lo + 1>> \in Seq(Nat) /\ Spans(<<lo + 1>>, lo, lo + 1)
  BY DEF Spans
<1>2. Span(lo, lo + 1) \in Seq(Nat) /\ Spans(Span(lo, lo + 1), lo, lo + 1)
  BY SpanLen
<1>3. Len(<<lo + 1>>) = Len(Span(lo, lo + 1))
  BY <1>1, <1>2 DEF Spans
<1>4. \A i \in 1..Len(Span(lo, lo + 1)) : <<lo + 1>>[i] = Span(lo, lo + 1)[i]
  BY <1>1, <1>2, <1>3 DEF Spans
<1> QED BY <1>1, <1>2, <1>3, <1>4, Equal, Zenon

(* A sequence that is appended to, and one whose head is taken.            *)
LEMMA AppendIs ==
  ASSUME NEW T, NEW q \in Seq(T), NEW x \in T
  PROVE  /\ Append(q, x) \in Seq(T) /\ Len(Append(q, x)) = Len(q) + 1
         /\ Append(q, x)[Len(q) + 1] = x
         /\ \A i \in 1..Len(q) : Append(q, x)[i] = q[i]
OBVIOUS

(* What is left of a sequence once its head is taken.                      *)
LEMMA TailIs ==
  ASSUME NEW T, NEW q \in Seq(T), q # <<>>
  PROVE  /\ Tail(q) \in Seq(T) /\ Len(q) = Len(Tail(q)) + 1
         /\ Head(q) = q[1] /\ Head(q) \in T
         /\ \A i \in 1..Len(Tail(q)) : Tail(q)[i] = q[i + 1]
OBVIOUS

(* An element of a sequence, and the only one of a short one.              *)
LEMMA ElementOf ==
  ASSUME NEW T, NEW q \in Seq(T), NEW i \in DOMAIN q
  PROVE  q[i] \in T
OBVIOUS

(* A sequence of at most one element, and not empty, has the index 1       *)
(* only.                                                                   *)
LEMMA OnlyOne ==
  ASSUME NEW T, NEW q \in Seq(T), q # <<>>, Len(q) <= 1
  PROVE  1 \in DOMAIN q /\ DOMAIN q = {1} /\ q[1] \in T
<1>1. Len(q) \in Nat /\ Len(q) # 0
  OBVIOUS
<1>2. DOMAIN q = 1..Len(q)
  OBVIOUS
<1>3. \A i \in 1..Len(q) : i = 1
  BY <1>1
<1>4. 1 \in 1..Len(q)
  BY <1>1
<1>5. DOMAIN q = {1}
  BY <1>2, <1>3, <1>4, Zenon
<1> QED BY <1>5, ElementOf, Zenon

(* A sequence is indexed from 1 to its length.                             *)
LEMMA Indices ==
  ASSUME NEW T, NEW q \in Seq(T)
  PROVE  \E n \in Nat : DOMAIN q = 1..n /\ Len(q) = n
OBVIOUS

(* A sequence given by its items.                                          *)
LEMMA Listed ==
  ASSUME NEW T, NEW n \in Nat, NEW q \in [1..n -> T]
  PROVE  q \in Seq(T) /\ Len(q) = n /\ DOMAIN q = 1..n
OBVIOUS

(* An empty channel carries nothing.                                       *)
LEMMA CarriesNothing ==
  ASSUME NEW lo \in Nat
  PROVE  Carries(<<>>, lo, lo)
<1> DEFINE cut == [i \in Nat |-> lo]
<1>1. cut \in [Nat -> Nat] /\ Cuts(cut, <<>>, 0, lo, lo)
  BY DEF Cuts
<1>2. Len(<<>>) = 0
  OBVIOUS
<1> HIDE DEF cut
<1>3. Cuts(cut, <<>>, Len(<<>>), lo, lo)
  BY <1>1, <1>2, Zenon
<1> QED BY <1>1, <1>3, Zenon DEF Carries

(* An item that follows what a channel carries can be put on it.           *)
LEMMA CutsAppend ==
  ASSUME NEW q, NEW a, NEW x, NEW n \in Nat, NEW cut \in [Nat -> Nat],
         NEW lo \in Nat, NEW mid \in Nat, NEW hi \in Nat,
         Cuts(cut, q, n, lo, mid), mid < hi, x.from = Span(mid, hi),
         a[n + 1] = x, \A i \in 1..n : a[i] = q[i]
  PROVE  lo <= hi /\ \E new \in [Nat -> Nat] : Cuts(new, a, n + 1, lo, hi)
<1> DEFINE new == [i \in Nat |-> IF i = n + 1 THEN hi ELSE cut[i]]
<1>1. /\ cut[0] = lo /\ cut[n] = mid
      /\ \A i, j \in 0..n : i < j => cut[i] < cut[j]
      /\ \A i \in 1..n : q[i].from = Span(cut[i - 1], cut[i])
  BY DEF Cuts
<1>2. lo <= mid
  BY <1>1
<1>3. new \in [Nat -> Nat] /\ new[0] = lo /\ new[n + 1] = hi
  BY <1>1
<1>4. \A i, j \in 0..(n + 1) : i < j => new[i] < new[j]
  <2>1. \A j \in 0..n : new[j] = cut[j] /\ cut[j] \in Nat /\ (j < n => cut[j] < cut[n])
    BY <1>1
  <2>2. ASSUME NEW j \in 0..n PROVE new[j] < new[n + 1]
    <3>1. new[j] = cut[j] /\ cut[j] \in Nat /\ (j < n => cut[j] < mid) /\ (j = n => cut[j] = mid)
      BY <1>1, <2>1
    <3>2. j < n \/ j = n
      OBVIOUS
    <3> QED BY <1>3, <3>1, <3>2
  <2> QED BY <1>1, <1>3, <2>1, <2>2
<1>5. ASSUME NEW i \in 1..(n + 1) PROVE a[i].from = Span(new[i - 1], new[i])
  <2>1. CASE i = n + 1
    <3>1. new[i] = hi /\ new[i - 1] = mid /\ a[i] = x
      BY <1>1, <2>1
    <3> QED BY <3>1
  <2>2. CASE i # n + 1
    <3>1. i \in 1..n /\ new[i] = cut[i] /\ new[i - 1] = cut[i - 1]
      BY <2>2
    <3> HIDE DEF new
    <3>2. q[i].from = Span(cut[i - 1], cut[i]) /\ a[i] = q[i]
      BY <1>1, <3>1
    <3> QED BY <3>1, <3>2
  <2> QED BY <2>1, <2>2
<1> HIDE DEF new
<1>6. Cuts(new, a, n + 1, lo, hi)
  BY <1>3, <1>4, <1>5 DEF Cuts
<1> QED BY <1>2, <1>3, <1>6

(* So a channel that carries positions up to mid, and is given those up    *)
(* to hi, carries them all.                                                *)
LEMMA CarriesAppend ==
  ASSUME NEW q \in Seq(Thing), NEW x \in Thing,
         NEW lo \in Nat, NEW mid \in Nat, NEW hi \in Nat,
         Carries(q, lo, mid), mid < hi, x.from = Span(mid, hi)
  PROVE  lo <= hi /\ Carries(Append(q, x), lo, hi)
<1>1. PICK cut \in [Nat -> Nat] : Cuts(cut, q, Len(q), lo, mid)
  BY DEF Carries
<1> DEFINE a == Append(q, x)
           n == Len(q)
<1>2. a \in Seq(Thing) /\ Len(a) = n + 1 /\ a[n + 1] = x /\ \A i \in 1..n : a[i] = q[i]
  BY ONLY AppendIs, q \in Seq(Thing), x \in Thing
<1>3. n \in Nat
  OBVIOUS
<1>4. Cuts(cut, q, n, lo, mid)
  BY <1>1
<1> HIDE DEF a, n
<1>5. lo <= hi /\ \E new \in [Nat -> Nat] : Cuts(new, a, n + 1, lo, hi)
  <2>1. a[n + 1] = x /\ \A i \in 1..n : a[i] = q[i]
    BY <1>2
  <2> QED BY <1>3, <1>4, <2>1, CutsAppend
<1>6. Carries(a, lo, hi)
  BY <1>2, <1>5 DEF Carries
<1> QED BY <1>5, <1>6 DEF a

(* What is taken from a channel comes first, and what is left follows it.  *)
LEMMA CutsTail ==
  ASSUME NEW q, NEW a, NEW n \in Nat, NEW cut \in [Nat -> Nat],
         NEW lo \in Nat, NEW hi \in Nat,
         Cuts(cut, q, n + 1, lo, hi), \A i \in 1..n : a[i] = q[i + 1]
  PROVE  \E mid \in Nat :
           /\ lo < mid /\ mid <= hi /\ q[1].from = Span(lo, mid)
           /\ \E new \in [Nat -> Nat] : Cuts(new, a, n, mid, hi)
<1> DEFINE new == [i \in Nat |-> cut[i + 1]]
<1>1. /\ cut[0] = lo /\ cut[n + 1] = hi
      /\ \A i, j \in 0..(n + 1) : i < j => cut[i] < cut[j]
      /\ \A i \in 1..(n + 1) : q[i].from = Span(cut[i - 1], cut[i])
  BY DEF Cuts
<1>3. cut[1] \in Nat /\ lo < cut[1] /\ cut[1] <= hi
  BY <1>1
<1>4. new \in [Nat -> Nat] /\ new[0] = cut[1] /\ new[n] = hi
  BY <1>1
<1>5. \A i, j \in 0..n : i < j => new[i] < new[j]
  BY <1>1
<1>6. ASSUME NEW i \in 1..n PROVE a[i].from = Span(new[i - 1], new[i])
  <2>1. i + 1 \in 1..(n + 1) /\ new[i] = cut[i + 1] /\ new[i - 1] = cut[(i + 1) - 1]
    OBVIOUS
  <2> HIDE DEF new
  <2>2. q[i + 1].from = Span(cut[(i + 1) - 1], cut[i + 1])
    BY <1>1, <2>1
  <2> QED BY <2>1, <2>2
<1>7. q[1].from = Span(lo, cut[1])
  <2>1. q[1].from = Span(cut[1 - 1], cut[1])
    BY <1>1
  <2> QED BY <1>1, <2>1
<1> HIDE DEF new
<1>8. Cuts(new, a, n, cut[1], hi)
  BY <1>4, <1>5, <1>6 DEF Cuts
<1> QED BY <1>3, <1>4, <1>7, <1>8

(* So the item that is taken from a channel starts where the channel did,  *)
(* and the rest goes on from there.                                        *)
LEMMA CarriesTail ==
  ASSUME NEW q \in Seq(Thing), q # <<>>, NEW lo \in Nat, NEW hi \in Nat, Carries(q, lo, hi)
  PROVE  \E mid \in Nat :
           /\ lo < mid /\ mid <= hi
           /\ Head(q).from = Span(lo, mid) /\ Carries(Tail(q), mid, hi)
<1>1. PICK cut \in [Nat -> Nat] : Cuts(cut, q, Len(q), lo, hi)
  BY DEF Carries
<1> DEFINE a == Tail(q)
           n == Len(a)
<1>2. a \in Seq(Thing) /\ Len(q) = n + 1 /\ \A i \in 1..n : a[i] = q[i + 1]
  BY ONLY TailIs, q \in Seq(Thing), q # <<>>
<1>3. n \in Nat /\ Head(q) = q[1]
  BY <1>2
<1>4. Cuts(cut, q, n + 1, lo, hi)
  BY <1>1, <1>2
<1>5. Len(a) = n
  OBVIOUS
<1> HIDE DEF a, n
<1>6. PICK mid \in Nat :
         /\ lo < mid /\ mid <= hi /\ q[1].from = Span(lo, mid)
         /\ \E new \in [Nat -> Nat] : Cuts(new, a, n, mid, hi)
  <2>1. \A i \in 1..n : a[i] = q[i + 1]
    BY <1>2
  <2> QED BY <1>3, <1>4, <2>1, CutsTail
<1>7. Carries(a, mid, hi)
  BY <1>5, <1>6, Zenon DEF Carries
<1> QED BY <1>3, <1>6, <1>7 DEF a

-----------------------------------------------------------------------------
(* The shape of what goroutines hold. *)

(* What IsNetwork says of each goroutine.                                  *)
Stage(n, w) ==
  LET g == n.workers[w] IN
  /\ g.kind \in Kinds /\ g.n \in Nat /\ g.outs \in Seq(DOMAIN n.cap)
  /\ g.in \in Nat
  /\ g.kind = "source" <=> g.in = 0
  /\ g.kind # "source" => g.in \in DOMAIN n.cap
  /\ g.kind = "window" => g.n > 0
  /\ g.kind \in {"collect", "await"} <=> g.outs = <<>>
  /\ g.kind = "pass" \/ Len(g.outs) <= 1
  /\ \A i, j \in DOMAIN g.outs : g.outs[i] = g.outs[j] => i = j
  /\ \A i \in DOMAIN g.outs : g.in < g.outs[i] /\ g.outs[i] \in DOMAIN n.cap

(* Every goroutine of a network is one that a constructor starts.          *)
LEMMA Stages ==
  ASSUME NEW n \in Nets, NEW w \in DOMAIN n.workers
  PROVE  Stage(n, w)
<1>1. IsNetwork(n)
  BY NetsAssumption
<1>2. n.workers[w] \in [kind : Kinds, in : 0..Len(n.cap), outs : Seq(DOMAIN n.cap),
                        n : Nat, bound : BOOLEAN] /\ n.cap \in Seq(Nat)
  <2>1. /\ n.workers \in Seq([kind : Kinds, in : 0..Len(n.cap), outs : Seq(DOMAIN n.cap),
                              n : Nat, bound : BOOLEAN])
        /\ n.cap \in Seq(Nat)
    BY <1>1, Zenon DEF IsNetwork
  <2> QED BY <2>1, ElementOf, Zenon
<1>3. /\ n.workers[w].kind \in Kinds /\ n.workers[w].n \in Nat
      /\ n.workers[w].outs \in Seq(DOMAIN n.cap) /\ n.workers[w].in \in 0..Len(n.cap)
      /\ DOMAIN n.cap = 1..Len(n.cap) /\ Len(n.cap) \in Nat
  BY <1>2
<1>4. \A i \in DOMAIN n.workers[w].outs : n.workers[w].outs[i] \in DOMAIN n.cap
  BY <1>3
<1>5. LET g == n.workers[w] IN
       /\ g.kind = "source" <=> g.in = 0
       /\ g.kind = "window" => g.n > 0
       /\ g.kind \in {"collect", "await"} <=> g.outs = <<>>
       /\ g.kind = "pass" \/ Len(g.outs) <= 1
       /\ \A i, j \in DOMAIN g.outs : g.outs[i] = g.outs[j] => i = j
       /\ \A i \in DOMAIN g.outs : g.in < g.outs[i]
  BY <1>1, Zenon DEF IsNetwork
<1>6. n.workers[w].in \in Nat /\ (n.workers[w].in # 0 => n.workers[w].in \in DOMAIN n.cap)
  BY <1>3
<1> QED BY <1>3, <1>4, <1>5, <1>6, Zenon DEF Stage

(* An item that gets another Index.                                        *)
LEMMA Reindexed ==
  ASSUME NEW x \in Thing, NEW k \in Int
  PROVE  /\ [x EXCEPT !.index = k] \in Thing /\ [x EXCEPT !.index = k].from = x.from
         /\ [x EXCEPT !.index = k].index = k
BY DEF Thing

(* Of the natural numbers with a property there is a least.                *)
LEMMA Least ==
  ASSUME NEW S \in SUBSET Nat, NEW a \in S
  PROVE  \E k \in S : \A j \in S : k <= j
<1>1. IsWellFoundedOn(OpToRel(<, Nat), Nat)
  BY NatLessThanWellFounded
<1>2. PICK k \in S : \A j \in S : ~ (<<j, k>> \in OpToRel(<, Nat))
  BY <1>1, WFMin
<1>3. \A j \in S : ~ (j < k)
  BY <1>2 DEF OpToRel
<1> QED BY <1>3

(* There is a longest run from i in a finite set.                          *)
LEMMA Runs ==
  ASSUME NEW P \in SUBSET Thing, IsFiniteSet(P), NEW i \in Nat
  PROVE  LET k == CHOOSE n \in 0..Cardinality(P) : Run(P, i, n) /\ ~ Run(P, i, n + 1)
         IN k \in 0..Cardinality(P) /\ Run(P, i, k) /\ ~ Run(P, i, k + 1)
<1>1. Cardinality(P) \in Nat
  BY FS_CardinalityType
<1>2. ASSUME NEW k \in Nat, Run(P, i, k) PROVE k <= Cardinality(P)
  <2> DEFINE ix == {y.index : y \in P}
  <2>1. IsFiniteSet(ix) /\ Cardinality(ix) <= Cardinality(P)
    <3> DEFINE f == [y \in P |-> y.index]
    <3>1. f \in Surjection(P, ix)
      BY DEF Surjection
    <3> QED BY <3>1, FS_Surjection
  <2>2. i..(i + k - 1) \subseteq ix
    BY <1>2 DEF Run
  <2>3. Cardinality(i..(i + k - 1)) = k
    BY FS_Interval
  <2>4. Cardinality(i..(i + k - 1)) <= Cardinality(ix)
    BY <2>1, <2>2, FS_Subset
  <2>5. Cardinality(ix) \in Nat
    BY <2>1, FS_CardinalityType
  <2> QED BY <1>1, <2>1, <2>3, <2>4, <2>5
<1> DEFINE Fails == {k \in Nat : ~ Run(P, i, k)}
<1>3. Cardinality(P) + 1 \in Fails
  BY <1>1, <1>2
<1>4. PICK m \in Fails : \A j \in Fails : m <= j
  <2>1. Fails \in SUBSET Nat
    OBVIOUS
  <2> HIDE DEF Fails
  <2> QED BY <1>3, <2>1, Least, Zenon
<1>5. Run(P, i, 0)
  BY DEF Run
<1>6. m \in Nat /\ m > 0 /\ ~ Run(P, i, m)
  BY <1>4, <1>5
<1>7. m - 1 \in Nat /\ Run(P, i, m - 1) /\ ~ Run(P, i, (m - 1) + 1)
  BY <1>4, <1>6
<1>8. m - 1 \in 0..Cardinality(P)
  BY <1>1, <1>2, <1>7
<1> HIDE DEF Fails
<1> QED BY <1>7, <1>8

(* The state of a goroutine by its fields, and what changes some of them.  *)
IsState(n, t, a, m, i, P, k) ==
  t \in States(n) /\ t.at = a /\ t.todo = m /\ t.next = i /\ t.pending = P /\ t.kept = k
Msgs(n) == Seq([to : DOMAIN n.cap, item : Thing])

(* A goroutine with messages to send and a new count.                      *)
LEMMA NextSet ==
  ASSUME NEW n, NEW r \in States(n), NEW m \in Msgs(n), NEW j \in Nat
  PROVE  IsState(n, [Send(r, m) EXCEPT !.next = j], "send", m, j, r.pending, r.kept)
BY DEF IsState, Send, States, Msgs

(* A goroutine with messages to send.                                      *)
LEMMA SetSend ==
  ASSUME NEW n, NEW r \in States(n), NEW m \in Msgs(n)
  PROVE  IsState(n, Send(r, m), "send", m, r.next, r.pending, r.kept)
BY DEF IsState, Send, States, Msgs

(* A goroutine with messages to send and a new batch.                      *)
LEMMA SetSendKept ==
  ASSUME NEW n, NEW r \in States(n), NEW m \in Msgs(n), NEW k \in Seq(Nat)
  PROVE  IsState(n, [Send(r, m) EXCEPT !.kept = k], "send", m, r.next, r.pending, k)
BY DEF IsState, Send, States, Msgs

(* A goroutine with a new batch.                                           *)
LEMMA SetKept ==
  ASSUME NEW n, NEW r \in States(n), NEW k \in Seq(Nat)
  PROVE  IsState(n, [r EXCEPT !.kept = k], r.at, r.todo, r.next, r.pending, k)
BY DEF IsState, Send, States, Msgs

(* A goroutine with a new batch that goes elsewhere.                       *)
LEMMA SetKeptEnded ==
  ASSUME NEW n, NEW r \in States(n), NEW a \in {"recv", "send", "last", "done", "cut"},
         NEW k \in Seq(Nat)
  PROVE  IsState(n, [[r EXCEPT !.kept = k] EXCEPT !.at = a], a, r.todo, r.next, r.pending, k)
BY DEF IsState, Send, States, Msgs

(* A goroutine with other pending items that goes elsewhere.               *)
LEMMA SetPending ==
  ASSUME NEW n, NEW r \in States(n), NEW a \in {"recv", "send", "last", "done", "cut"},
         NEW P \in SUBSET Thing
  PROVE  IsState(n, [r EXCEPT !.at = a, !.pending = P], a, r.todo, r.next, P, r.kept)
BY DEF IsState, Send, States, Msgs

(* A goroutine with other pending items and a new count.                   *)
LEMMA SetNext ==
  ASSUME NEW n, NEW r \in States(n), NEW P \in SUBSET Thing, NEW i \in Nat
  PROVE  IsState(n, [r EXCEPT !.pending = P, !.next = i], r.at, r.todo, i, P, r.kept)
BY DEF IsState, Send, States, Msgs

(* A goroutine with other pending items, a new count and messages to       *)
(* send.                                                                   *)
LEMMA SetSendNext ==
  ASSUME NEW n, NEW r \in States(n), NEW m \in Msgs(n), NEW P \in SUBSET Thing, NEW i \in Nat
  PROVE  IsState(n, Send([r EXCEPT !.pending = P, !.next = i], m), "send", m, i, P, r.kept)
BY DEF IsState, Send, States, Msgs

(* A goroutine that has sent some of its messages.                         *)
LEMMA SetSent ==
  ASSUME NEW n, NEW r \in States(n), NEW m \in Msgs(n),
         NEW a \in {"recv", "send", "last", "done", "cut"}
  PROVE  IsState(n, [r EXCEPT !.todo = m, !.at = a], a, m, r.next, r.pending, r.kept)
BY DEF IsState, Send, States, Msgs

(* A goroutine that goes elsewhere with other messages.                    *)
LEMMA SetTodo ==
  ASSUME NEW n, NEW r \in States(n), NEW m \in Msgs(n),
         NEW a \in {"recv", "send", "last", "done", "cut"}
  PROVE  IsState(n, [r EXCEPT !.at = a, !.todo = m], a, m, r.next, r.pending, r.kept)
BY DEF IsState, Send, States, Msgs

(* A goroutine that goes elsewhere with its last messages and a new        *)
(* batch.                                                                  *)
LEMMA SetLast ==
  ASSUME NEW n, NEW r \in States(n), NEW m \in Msgs(n),
         NEW a \in {"recv", "send", "last", "done", "cut"}, NEW k \in Seq(Nat)
  PROVE  IsState(n, [r EXCEPT !.at = a, !.todo = m, !.kept = k], a, m, r.next, r.pending, k)
BY DEF IsState, Send, States, Msgs

(* A goroutine that goes elsewhere.                                        *)
LEMMA SetAt ==
  ASSUME NEW n, NEW r \in States(n), NEW a \in {"recv", "send", "last", "done", "cut"}
  PROVE  IsState(n, [r EXCEPT !.at = a], a, r.todo, r.next, r.pending, r.kept)
BY DEF IsState, Send, States, Msgs

(* A goroutine with messages to send that counts one more.                 *)
LEMMA SetSendIndex ==
  ASSUME NEW n, NEW r \in States(n), NEW m \in Msgs(n)
  PROVE  IsState(n, [Send(r, m) EXCEPT !.next = @ + 1], "send", m, r.next + 1, r.pending, r.kept)
<1>1. IsState(n, [Send(r, m) EXCEPT !.next = r.next + 1], "send", m, r.next + 1, r.pending, r.kept)
  <2>1. r.next + 1 \in Nat
    BY DEF States
  <2> QED BY <2>1, NextSet
<1>2. Send(r, m).next = r.next
  BY DEF Send, States
<1> QED BY <1>1, <1>2

(* The fields of a state, by their types.                                  *)
LEMMA StateTypes ==
  ASSUME NEW n, NEW r \in States(n)
  PROVE  /\ r.at \in {"recv", "send", "last", "done", "cut"} /\ r.todo \in Msgs(n)
         /\ r.next \in Nat /\ r.pending \in SUBSET Thing /\ r.kept \in Seq(Nat)
         /\ IsState(n, r, r.at, r.todo, r.next, r.pending, r.kept)
BY DEF States, Msgs, IsState

(* What Ordered does with an item: it gives up, or emits the run of k.     *)
RunOf(w, x, k) ==
  [j \in 1..k |-> [to |-> Outs(w)[1],
                   item |-> [At(st[w].pending \cup {x}, st[w].next + j - 1) EXCEPT !.index = NoIndex]]]

RunFits(w, x, k) ==
  /\ RunOf(w, x, k) \in Msgs(net) /\ Len(RunOf(w, x, k)) = k
  /\ k > 0 => RunOf(w, x, k) # <<>>
  /\ 1 \in DOMAIN Outs(w) /\ DOMAIN Outs(w) = {1}
  /\ \A i \in DOMAIN RunOf(w, x, k) : RunOf(w, x, k)[i].to = Outs(w)[1]
  /\ \A i \in 1..k : \E y \in st[w].pending \cup {x} :
       y.index = st[w].next + i - 1 /\ RunOf(w, x, k)[i].item = [y EXCEPT !.index = NoIndex]

OrderedTakes(w, x, k) ==
  LET P == st[w].pending \cup {x}
      r == st[w]
      late == {y \in P : y.index >= r.next + k} IN
  /\ Run(P, r.next, k) /\ ~ Run(P, r.next, k + 1)
  /\ RunFits(w, x, k)
  /\ \/ IsState(net, Received(w, x), "cut", r.todo, r.next, P, r.kept)
     \/ k = 0 /\ IsState(net, Received(w, x), r.at, r.todo, r.next + k, late, r.kept)
     \/ k > 0 /\ IsState(net, Received(w, x), "send", RunOf(w, x, k), r.next + k, late, r.kept)

(* The items of a run are pending, each at its place, and all go to the    *)
(* one channel of Ordered.                                                 *)
LEMMA RunIs ==
  ASSUME net \in Nets, NEW w \in Workers, Kind(w) = "ordered", st[w] \in States(net),
         NEW x \in Thing, NEW k \in Nat, Run(st[w].pending \cup {x}, st[w].next, k)
  PROVE  RunFits(w, x, k)
<1> DEFINE P == st[w].pending \cup {x}
           r == st[w]
<1>1. Stage(net, w) /\ P \in SUBSET Thing /\ r.next \in Nat
  BY Stages DEF Workers, States
<1>2. Outs(w) \in Seq(Channels) /\ Outs(w) # <<>> /\ Len(Outs(w)) <= 1
  BY <1>1 DEF Stage, Outs, Kind, Channels
<1> HIDE DEF P
<1>3. Run(P, r.next, k)
  BY DEF P
<1>4. ASSUME NEW i \in 1..k
      PROVE  At(P, r.next + i - 1) \in P /\ At(P, r.next + i - 1).index = r.next + i - 1
  <2>1. r.next + i - 1 \in r.next..(r.next + k - 1)
    BY <1>1
  <2>2. \E y \in P : y.index = r.next + i - 1
    BY <1>3, <2>1, Zenon DEF Run
  <2> QED BY <2>2, Zenon DEF At
<1>5. RunOf(w, x, k) =
        [j \in 1..k |-> [to |-> Outs(w)[1], item |-> [At(P, r.next + j - 1) EXCEPT !.index = NoIndex]]]
  BY DEF RunOf, P
<1>6. 1 \in DOMAIN Outs(w) /\ DOMAIN Outs(w) = {1} /\ Outs(w)[1] \in Channels
  BY <1>2, OnlyOne, Zenon
<1>7. ASSUME NEW i \in 1..k
      PROVE  /\ RunOf(w, x, k)[i] \in [to : Channels, item : Thing]
             /\ RunOf(w, x, k)[i].to = Outs(w)[1]
             /\ RunOf(w, x, k)[i].item = [At(P, r.next + i - 1) EXCEPT !.index = NoIndex]
  <2>1. RunOf(w, x, k)[i] = [to |-> Outs(w)[1], item |-> [At(P, r.next + i - 1) EXCEPT !.index = NoIndex]]
    BY <1>5
  <2>2. [At(P, r.next + i - 1) EXCEPT !.index = NoIndex] \in Thing
    <3>1. NoIndex \in Int
      BY DEF NoIndex
    <3>2. At(P, r.next + i - 1) \in Thing
      BY <1>1, <1>4
    <3> QED BY <3>1, <3>2, Reindexed, Zenon
  <2> HIDE DEF Thing, Channels
  <2> QED BY <1>6, <2>1, <2>2
<1>8. RunOf(w, x, k) \in Msgs(net) /\ Len(RunOf(w, x, k)) = k /\ DOMAIN RunOf(w, x, k) = 1..k
  <2>1. RunOf(w, x, k) \in [1..k -> [to : Channels, item : Thing]]
    BY <1>5, <1>7
  <2> DEFINE M == [to : Channels, item : Thing]
  <2> HIDE DEF M
  <2>2. RunOf(w, x, k) \in Seq(M) /\ Len(RunOf(w, x, k)) = k /\ DOMAIN RunOf(w, x, k) = 1..k
    <3>1. RunOf(w, x, k) \in [1..k -> M]
      BY <2>1 DEF M
    <3> QED BY <3>1, Listed
  <2>3. Msgs(net) = Seq(M)
    BY DEF Msgs, Channels, M
  <2> QED BY <2>2, <2>3
<1>9. k > 0 => 1 \in DOMAIN RunOf(w, x, k)
  BY <1>8
<1>10. \A i \in 1..k : \E y \in P :
          y.index = r.next + i - 1 /\ RunOf(w, x, k)[i].item = [y EXCEPT !.index = NoIndex]
  BY <1>4, <1>7, Zenon
<1>11. \A i \in DOMAIN RunOf(w, x, k) : RunOf(w, x, k)[i].to = Outs(w)[1]
  BY <1>7, <1>8, Zenon
<1>12. k > 0 => RunOf(w, x, k) # <<>>
  BY <1>9
<1> QED BY <1>6, <1>8, <1>10, <1>11, <1>12, Zenon DEF P, RunFits

(* Whatever Ordered holds, it emits a longest run or stops for what is     *)
(* pending.                                                                *)
LEMMA OrderedIs ==
  ASSUME net \in Nets, NEW w \in Workers, Kind(w) = "ordered", st[w] \in States(net),
         IsFiniteSet(st[w].pending), NEW x \in Thing
  PROVE  \E k \in Nat : OrderedTakes(w, x, k)
<1> DEFINE P == st[w].pending \cup {x}
           i == st[w].next
           k == CHOOSE n \in 0..Cardinality(P) : Run(P, i, n) /\ ~ Run(P, i, n + 1)
           late == {y \in P : y.index >= i + k}
           s == [st[w] EXCEPT !.pending = late, !.next = i + k]
           r == st[w]
<1>1. P \in SUBSET Thing /\ IsFiniteSet(P) /\ i \in Nat
  BY FS_AddElement DEF States
<1>2. k \in 0..Cardinality(P) /\ Run(P, i, k) /\ ~ Run(P, i, k + 1)
  BY <1>1, Runs
<1>3. k \in Nat
  BY <1>1, <1>2, FS_CardinalityType
<1>4. Received(w, x) = IF N(w) > 0 /\ Cardinality(P) > N(w)
                       THEN [st[w] EXCEPT !.at = "cut", !.pending = P]
                       ELSE IF k = 0 THEN s ELSE Send(s, RunOf(w, x, k))
  BY DEF Received, OrderItem, RunOf
<1>5. \/ Received(w, x) = [st[w] EXCEPT !.at = "cut", !.pending = P]
      \/ k = 0 /\ Received(w, x) = s
      \/ k # 0 /\ Received(w, x) = Send(s, RunOf(w, x, k))
  BY <1>4, Zenon
<1> HIDE DEF k
<1>6. (k # 0 => k > 0) /\ i + k \in Nat /\ late \in SUBSET Thing
  BY <1>1, <1>3
<1>7. RunFits(w, x, k)
  BY <1>2, <1>3, RunIs
<1>a. RunOf(w, x, k) \in Msgs(net)
  BY <1>7 DEF RunFits
<1> HIDE DEF late, P
<1>8. /\ IsState(net, [r EXCEPT !.at = "cut", !.pending = P], "cut", r.todo, r.next, P, r.kept)
      /\ IsState(net, s, r.at, r.todo, i + k, late, r.kept)
      /\ IsState(net, Send(s, RunOf(w, x, k)), "send", RunOf(w, x, k), i + k, late, r.kept)
  <2>1. r.kept \in Seq(Nat) /\ "cut" \in {"recv", "send", "last", "done", "cut"}
    BY StateTypes
  <2>2. r \in States(net) /\ P \in SUBSET Thing /\ i + k \in Nat /\ late \in SUBSET Thing
        /\ RunOf(w, x, k) \in Msgs(net)
    BY <1>1, <1>6, <1>a
  <2>3. IsState(net, [r EXCEPT !.at = "cut", !.pending = P], "cut", r.todo, r.next, P, r.kept)
    BY <2>1, <2>2, SetPending
  <2>4. IsState(net, s, r.at, r.todo, i + k, late, r.kept)
    BY <2>2, SetNext
  <2>5. IsState(net, Send(s, RunOf(w, x, k)), "send", RunOf(w, x, k), i + k, late, r.kept)
    BY <2>2, SetSendNext
  <2> QED BY <2>3, <2>4, <2>5
<1>9. OrderedTakes(w, x, k)
  BY <1>2, <1>5, <1>6, <1>7, <1>8, Zenon DEF OrderedTakes, late, P
<1> QED BY <1>3, <1>9

(* An item for each channel of a goroutine.                                *)
LEMMA ToAllIs ==
  ASSUME net \in Nets, NEW w \in Workers, NEW x \in Thing, Kind(w) \notin {"collect", "await"}
  PROVE  /\ ToAll(w, x) \in Msgs(net) /\ ToAll(w, x) # <<>>
         /\ DOMAIN ToAll(w, x) = DOMAIN Outs(w) /\ Outs(w) \in Seq(Channels)
         /\ \A i \in DOMAIN Outs(w) : ToAll(w, x)[i].to = Outs(w)[i] /\ ToAll(w, x)[i].item = x
<1>1. Stage(net, w)
  BY Stages DEF Workers
<1>2. Outs(w) \in Seq(Channels) /\ Outs(w) # <<>>
  BY <1>1 DEF Stage, Kind, Outs, Channels
<1>3. ToAll(w, x) = [i \in DOMAIN Outs(w) |-> [to |-> Outs(w)[i], item |-> x]]
  BY DEF ToAll
<1> HIDE DEF Channels, Outs, ToAll, Thing
<1>4. \A i \in DOMAIN Outs(w) : Outs(w)[i] \in Channels
  BY <1>2
<1>5. ToAll(w, x) \in Msgs(net)
  <2>1. ASSUME NEW i \in DOMAIN Outs(w) PROVE ToAll(w, x)[i] \in [to : Channels, item : Thing]
    BY <1>3, <1>4
  <2>2. PICK n \in Nat : DOMAIN Outs(w) = 1..n
    BY <1>2, Indices, Zenon
  <2>3. ToAll(w, x) \in [1..n -> [to : Channels, item : Thing]]
    BY <1>3, <2>1, <2>2
  <2> DEFINE M == [to : Channels, item : Thing]
  <2> HIDE DEF M
  <2>4. ToAll(w, x) \in Seq(M)
    <3>1. ToAll(w, x) \in [1..n -> M]
      BY <2>3 DEF M
    <3> QED BY <3>1, Listed
  <2>5. Msgs(net) = Seq(M)
    BY DEF Msgs, Channels, M
  <2> QED BY <2>4, <2>5
<1>6. 1 \in DOMAIN ToAll(w, x)
  BY <1>2, <1>3
<1>7. ASSUME NEW i \in DOMAIN Outs(w)
      PROVE  ToAll(w, x)[i].to = Outs(w)[i] /\ ToAll(w, x)[i].item = x
  BY <1>3
<1> QED BY <1>2, <1>3, <1>5, <1>6, <1>7

(* What a goroutine does with an item, by kind.                            *)
ReceivedIs(w, x) ==
  LET r == st[w]
      t == Received(w, x)
      k == r.kept \o x.from IN
  /\ Kind(w) \in {"pass", "limit"} =>
       IsState(net, t, "send", ToAll(w, x), r.next, r.pending, r.kept)
  /\ Kind(w) = "enumerate" =>
       IsState(net, t, "send", ToAll(w, [x EXCEPT !.index = r.next]), r.next + 1, r.pending, r.kept)
  /\ Kind(w) = "window" =>
       \/ /\ Len(k) = N(w) /\ k # <<>>
          /\ IsState(net, t, "send", ToAll(w, Batch(k)), r.next, r.pending, <<>>)
       \/ Len(k) # N(w) /\ IsState(net, t, r.at, r.todo, r.next, r.pending, k)
  /\ Kind(w) = "collect" => IsState(net, t, r.at, r.todo, r.next, r.pending, k)
  /\ Kind(w) = "await" => IsState(net, t, "done", r.todo, r.next, r.pending, k)
  /\ Kind(w) = "ordered" => \E i \in Nat : OrderedTakes(w, x, i)

(* Received does what each kind of stage does with an item.                *)
LEMMA Receives ==
  ASSUME net \in Nets, NEW w \in Workers, st[w] \in States(net), IsFiniteSet(st[w].pending),
         NEW x \in Thing
  PROVE  ReceivedIs(w, x)
<1> DEFINE r == st[w]
           t == Received(w, x)
           k == r.kept \o x.from
<1>1. /\ r.next \in Nat /\ r.pending \in SUBSET Thing /\ r.kept \in Seq(Nat) /\ r.todo \in Msgs(net)
      /\ "send" \in {"recv", "send", "last", "done", "cut"}
      /\ "done" \in {"recv", "send", "last", "done", "cut"}
      /\ r.at \in {"recv", "send", "last", "done", "cut"}
  BY StateTypes
<1>2. k \in Seq(Nat) /\ <<>> \in Seq(Nat)
  BY <1>1 DEF Thing
<1>3. ASSUME Kind(w) \in {"pass", "limit"}
      PROVE  IsState(net, t, "send", ToAll(w, x), r.next, r.pending, r.kept)
  <2>1. t = Send(r, ToAll(w, x))
    BY <1>3 DEF Received, PassItem
  <2>2. ToAll(w, x) \in Msgs(net)
    BY <1>3, ToAllIs
  <2> QED BY <2>1, <2>2, SetSend
<1>4. ASSUME Kind(w) = "enumerate"
      PROVE  IsState(net, t, "send", ToAll(w, [x EXCEPT !.index = r.next]), r.next + 1, r.pending, r.kept)
  <2> DEFINE y == [x EXCEPT !.index = r.next]
  <2>1. t = [Send(r, ToAll(w, y)) EXCEPT !.next = @ + 1]
    BY <1>4 DEF Received, IndexItem
  <2>2. y \in Thing
    BY <1>1, Reindexed
  <2> HIDE DEF y
  <2>3. ToAll(w, y) \in Msgs(net)
    BY <1>4, <2>2, ToAllIs
  <2>4. IsState(net, t, "send", ToAll(w, y), r.next + 1, r.pending, r.kept)
    BY <2>1, <2>3, SetSendIndex
  <2> QED BY <2>4 DEF y
<1>5. ASSUME Kind(w) = "window"
      PROVE  \/ /\ Len(k) = N(w) /\ k # <<>>
                /\ IsState(net, t, "send", ToAll(w, Batch(k)), r.next, r.pending, <<>>)
             \/ Len(k) # N(w) /\ IsState(net, t, r.at, r.todo, r.next, r.pending, k)
  <2>1. t = IF Len(k) = N(w) THEN [Send(r, ToAll(w, Batch(k))) EXCEPT !.kept = <<>>]
                             ELSE [r EXCEPT !.kept = k]
    BY <1>5 DEF Received, BatchItem
  <2>2. Batch(k) \in Thing
    BY <1>2 DEF Batch, NoIndex, Thing
  <2>3. ToAll(w, Batch(k)) \in Msgs(net)
    BY <1>5, <2>2, ToAllIs
  <2>4. Len(k) = N(w) => k # <<>>
    <3>1. N(w) > 0
      BY <1>5, Stages DEF Stage, Kind, N, Workers
    <3>2. Len(<<>>) = 0
      OBVIOUS
    <3> HIDE DEF k
    <3> QED BY <3>1, <3>2
  <2> HIDE DEF k
  <2>5. IsState(net, [r EXCEPT !.kept = k], r.at, r.todo, r.next, r.pending, k)
    BY <1>2, SetKept
  <2>6. IsState(net, [Send(r, ToAll(w, Batch(k))) EXCEPT !.kept = <<>>],
                "send", ToAll(w, Batch(k)), r.next, r.pending, <<>>)
    BY <1>2, <2>3, SetSendKept
  <2> QED BY <2>1, <2>4, <2>5, <2>6, Zenon
<1>6. ASSUME Kind(w) = "collect" PROVE IsState(net, t, r.at, r.todo, r.next, r.pending, k)
  <2>1. t = [r EXCEPT !.kept = k]
    BY <1>6 DEF Received, KeepItem
  <2> HIDE DEF k
  <2> QED BY <1>2, <2>1, SetKept
<1>7. ASSUME Kind(w) = "await" PROVE IsState(net, t, "done", r.todo, r.next, r.pending, k)
  <2>1. t = [[r EXCEPT !.kept = k] EXCEPT !.at = "done"]
    BY <1>7 DEF Received, KeepItem
  <2> HIDE DEF k
  <2>2. r \in States(net) /\ "done" \in {"recv", "send", "last", "done", "cut"} /\ k \in Seq(Nat)
    BY <1>1, <1>2
  <2>3. IsState(net, [[r EXCEPT !.kept = k] EXCEPT !.at = "done"],
                "done", r.todo, r.next, r.pending, k)
    BY <2>2, SetKeptEnded, Zenon
  <2> QED BY <2>1, <2>3
<1>8. Kind(w) = "ordered" => \E i \in Nat : OrderedTakes(w, x, i)
  BY OrderedIs
<1> QED BY <1>3, <1>4, <1>5, <1>6, <1>7, <1>8, Zenon DEF ReceivedIs

(* A goroutine that sends its first item, sees the end of its input, or    *)
(* gives up what it has to send.                                           *)
SentIs(w) ==
  LET r == st[w] IN
  IsState(net, SentFirst(w),
          IF Tail(r.todo) # <<>> THEN r.at ELSE IF r.at = "send" THEN "recv" ELSE "done",
          Tail(r.todo), r.next, r.pending, r.kept)

(* SentFirst leaves the rest to send, or goes back to receive, or          *)
(* returns.                                                                *)
LEMMA Sent ==
  ASSUME NEW w \in Workers, st[w] \in States(net), st[w].todo # <<>>
  PROVE  SentIs(w)
<1> DEFINE r == st[w]
           rest == Tail(r.todo)
           a == IF rest # <<>> THEN r.at ELSE IF r.at = "send" THEN "recv" ELSE "done"
<1>1. r.at \in {"recv", "send", "last", "done", "cut"} /\ r.todo \in Msgs(net)
  BY StateTypes
<1>2. a \in {"recv", "send", "last", "done", "cut"}
  BY <1>1
<1>3. rest \in Msgs(net)
  BY <1>1 DEF Msgs
<1>4. SentFirst(w) = [r EXCEPT !.todo = rest, !.at = a]
  BY DEF SentFirst
<1> HIDE DEF rest, a
<1>5. IsState(net, [r EXCEPT !.todo = rest, !.at = a], a, rest, r.next, r.pending, r.kept)
  BY <1>2, <1>3, SetSent, Zenon
<1>6. IsState(net, SentFirst(w), a, rest, r.next, r.pending, r.kept)
  BY <1>4, <1>5, Zenon
<1> QED BY <1>6 DEF SentIs, rest, a

EndedIs(w) ==
  LET r == st[w] IN
  IF Kind(w) = "window" /\ r.kept # <<>>
  THEN IsState(net, InputEnded(w), "last", ToAll(w, Batch(r.kept)), r.next, r.pending, <<>>)
  ELSE IsState(net, InputEnded(w), "done", r.todo, r.next, r.pending, r.kept)

(* At the end of its input a Window sends its batch, and any other         *)
(* goroutine returns.                                                      *)
LEMMA Ending ==
  ASSUME net \in Nets, NEW w \in Workers, st[w] \in States(net)
  PROVE  EndedIs(w)
<1> DEFINE r == st[w]
<1>1. /\ "last" \in {"recv", "send", "last", "done", "cut"}
      /\ "done" \in {"recv", "send", "last", "done", "cut"}
      /\ r.kept \in Seq(Nat) /\ <<>> \in Seq(Nat)
  BY StateTypes
<1>2. CASE Kind(w) = "window" /\ r.kept # <<>>
  <2>1. InputEnded(w) = [r EXCEPT !.at = "last", !.todo = ToAll(w, Batch(r.kept)), !.kept = <<>>]
    BY <1>2 DEF InputEnded
  <2>2. Batch(r.kept) \in Thing
    BY <1>1 DEF Batch, NoIndex, Thing
  <2>3. ToAll(w, Batch(r.kept)) \in Msgs(net)
    BY <1>2, <2>2, ToAllIs
  <2>4. IsState(net, [r EXCEPT !.at = "last", !.todo = ToAll(w, Batch(r.kept)), !.kept = <<>>],
                "last", ToAll(w, Batch(r.kept)), r.next, r.pending, <<>>)
    BY <1>1, <2>3, SetLast, Zenon
  <2> QED BY <1>2, <2>1, <2>4, Zenon DEF EndedIs
<1>3. CASE ~ (Kind(w) = "window" /\ r.kept # <<>>)
  <2>1. InputEnded(w) = [r EXCEPT !.at = "done"]
    BY <1>3 DEF InputEnded
  <2>2. IsState(net, [r EXCEPT !.at = "done"], "done", r.todo, r.next, r.pending, r.kept)
    BY <1>1, SetAt, Zenon
  <2> QED BY <1>3, <2>1, <2>2, Zenon DEF EndedIs
<1> QED BY <1>2, <1>3, Zenon

(* A goroutine that gives up has nothing to send.                          *)
LEMMA GivenUp ==
  ASSUME NEW n, NEW r \in States(n), NEW a \in {"done", "cut"}
  PROVE  IsState(n, [r EXCEPT !.at = a, !.todo = <<>>], a, <<>>, r.next, r.pending, r.kept)
<1>1. a \in {"recv", "send", "last", "done", "cut"}
  OBVIOUS
<1>2. <<>> \in Msgs(n)
  BY DEF Msgs
<1> QED BY <1>1, <1>2, SetTodo, Zenon

(* Each of them keeps the shape of what it holds.                          *)
LEMMA ShapeOf ==
  ASSUME NEW n, NEW w, NEW t, NEW a, NEW m, NEW i, NEW P, NEW k,
         IsState(n, t, a, m, i, P, k), IsFiniteSet(P),
         a \in {"send", "last"} <=> m # <<>>,
         \A j \in DOMAIN m : \E l \in DOMAIN n.workers[w].outs : n.workers[w].outs[l] = m[j].to,
         n.workers[w].kind = "source" => a \in {"last", "done"},
         a = "last" => n.workers[w].kind \in {"source", "window"},
         k # <<>> => \/ n.workers[w].kind \in {"collect", "await"}
                     \/ (n.workers[w].kind = "window" /\ a = "recv")
  PROVE  WorkerShape(n, w, t)
BY DEF IsState, WorkerShape

(* A goroutine that sends keeps its shape.                                 *)
LEMMA SentShape ==
  ASSUME NEW w \in Workers, WorkerShape(net, w, st[w]), Sending(w)
  PROVE  WorkerShape(net, w, SentFirst(w))
<1> DEFINE r == st[w]
           rest == Tail(r.todo)
           a == IF rest # <<>> THEN r.at ELSE IF r.at = "send" THEN "recv" ELSE "done"
<1>1. r \in States(net) /\ r.todo # <<>> /\ r.at \in {"send", "last"} /\ IsFiniteSet(r.pending)
  BY DEF WorkerShape, Sending
<1>2. IsState(net, SentFirst(w), a, rest, r.next, r.pending, r.kept)
  BY <1>1, Sent DEF SentIs
<1>3. r.todo \in Msgs(net)
  BY <1>1, StateTypes
<1>4. \A j \in DOMAIN rest : j + 1 \in DOMAIN r.todo /\ rest[j] = r.todo[j + 1]
  BY <1>1, <1>3 DEF Msgs
<1>5. \A j \in DOMAIN rest : \E l \in DOMAIN net.workers[w].outs : net.workers[w].outs[l] = rest[j].to
  BY <1>4 DEF WorkerShape
<1>6. /\ a \in {"send", "last"} <=> rest # <<>>
      /\ net.workers[w].kind = "source" => a \in {"last", "done"}
      /\ a = "last" => net.workers[w].kind \in {"source", "window"}
      /\ r.kept # <<>> => \/ net.workers[w].kind \in {"collect", "await"}
                          \/ (net.workers[w].kind = "window" /\ a = "recv")
  BY <1>1 DEF WorkerShape
<1> HIDE DEF rest, a
<1> QED BY <1>1, <1>2, <1>5, <1>6, ShapeOf, Zenon

(* A goroutine that receives keeps its shape.                              *)
LEMMA ReceivedShape ==
  ASSUME net \in Nets, NEW w \in Workers, WorkerShape(net, w, st[w]), st[w].at = "recv",
         NEW x \in Thing
  PROVE  WorkerShape(net, w, Received(w, x))
<1> DEFINE r == st[w]
           t == Received(w, x)
           k == r.kept \o x.from
<1>1. Stage(net, w) /\ Kind(w) = net.workers[w].kind /\ Outs(w) = net.workers[w].outs
      /\ Kind(w) \in Kinds
  BY Stages DEF Workers, Stage, Kind, Outs
<1>2. r \in States(net) /\ IsFiniteSet(r.pending) /\ r.todo = <<>>
      /\ (r.kept # <<>> => Kind(w) \in {"collect", "await", "window"}) /\ Kind(w) # "source"
  BY <1>1 DEF WorkerShape
<1>3. ReceivedIs(w, x)
  BY <1>2, Receives
<1>4. ASSUME NEW y \in Thing, Kind(w) \notin {"collect", "await"}
      PROVE  ToAll(w, y) # <<>> /\ \A j \in DOMAIN ToAll(w, y) :
               \E l \in DOMAIN net.workers[w].outs : net.workers[w].outs[l] = ToAll(w, y)[j].to
  <2>1. /\ ToAll(w, y) # <<>> /\ DOMAIN ToAll(w, y) = DOMAIN Outs(w)
        /\ \A i \in DOMAIN Outs(w) : ToAll(w, y)[i].to = Outs(w)[i]
    BY <1>4, ToAllIs
  <2> QED BY <1>1, <2>1
<1>5. CASE Kind(w) \in {"pass", "limit"}
  BY <1>1, <1>2, <1>3, <1>4, <1>5, ShapeOf DEF ReceivedIs
<1>6. CASE Kind(w) = "enumerate"
  <2> DEFINE y == [x EXCEPT !.index = r.next]
  <2>1. y \in Thing
    BY <1>2, StateTypes, Reindexed
  <2>2. IsState(net, t, "send", ToAll(w, y), r.next + 1, r.pending, r.kept)
    BY <1>3, <1>6 DEF ReceivedIs
  <2> HIDE DEF y
  <2>3. ToAll(w, y) # <<>> /\ \A j \in DOMAIN ToAll(w, y) :
          \E l \in DOMAIN net.workers[w].outs : net.workers[w].outs[l] = ToAll(w, y)[j].to
    BY <1>4, <1>6, <2>1
  <2> QED BY <1>1, <1>2, <1>6, <2>2, <2>3 DEF IsState, WorkerShape
<1>7. CASE Kind(w) = "window"
  <2>1. Batch(k) \in Thing
    BY <1>2, StateTypes DEF Batch, NoIndex, Thing
  <2>2. \/ IsState(net, t, "send", ToAll(w, Batch(k)), r.next, r.pending, <<>>)
        \/ IsState(net, t, r.at, r.todo, r.next, r.pending, k)
    BY <1>3, <1>7 DEF ReceivedIs
  <2> HIDE DEF k
  <2>3. CASE IsState(net, t, "send", ToAll(w, Batch(k)), r.next, r.pending, <<>>)
    BY <1>1, <1>2, <1>4, <1>7, <2>1, <2>3, ShapeOf
  <2>4. CASE IsState(net, t, r.at, r.todo, r.next, r.pending, k)
    BY <1>1, <1>2, <1>7, <2>4 DEF IsState, WorkerShape
  <2> QED BY <2>2, <2>3, <2>4, Zenon
<1>8. CASE Kind(w) \in {"collect", "await"}
  <2>1. IsState(net, t, "recv", r.todo, r.next, r.pending, k)
        \/ IsState(net, t, "done", r.todo, r.next, r.pending, k)
    BY <1>3, <1>8 DEF ReceivedIs
  <2> HIDE DEF k
  <2> QED BY <1>1, <1>2, <1>8, <2>1, ShapeOf
<1>9. CASE Kind(w) = "ordered"
  <2>1. PICK i \in Nat : OrderedTakes(w, x, i)
    BY <1>3, <1>9 DEF ReceivedIs
  <2> DEFINE P == r.pending \cup {x}
             late == {y \in P : y.index >= r.next + i}
  <2>2. IsFiniteSet(P) /\ IsFiniteSet(late)
    <3>1. IsFiniteSet(P)
      BY <1>2, FS_AddElement
    <3>2. late \in SUBSET P
      OBVIOUS
    <3> QED BY <3>1, <3>2, FS_Subset
  <2>3. /\ i > 0 => RunOf(w, x, i) # <<>>
        /\ \A j \in DOMAIN RunOf(w, x, i) :
             \E l \in DOMAIN net.workers[w].outs : net.workers[w].outs[l] = RunOf(w, x, i)[j].to
    BY <1>1, <2>1 DEF OrderedTakes, RunFits
  <2>4. \/ IsState(net, t, "cut", r.todo, r.next, P, r.kept)
        \/ i = 0 /\ IsState(net, t, r.at, r.todo, r.next + i, late, r.kept)
        \/ i > 0 /\ IsState(net, t, "send", RunOf(w, x, i), r.next + i, late, r.kept)
    BY <2>1 DEF OrderedTakes
  <2> HIDE DEF P, late
  <2>5. r.kept = <<>>
    BY <1>2, <1>9
  <2>6. CASE IsState(net, t, "cut", r.todo, r.next, P, r.kept)
    BY <1>1, <1>2, <1>9, <2>2, <2>5, <2>6 DEF IsState, WorkerShape
  <2>7. CASE IsState(net, t, r.at, r.todo, r.next + i, late, r.kept)
    BY <1>1, <1>2, <1>9, <2>2, <2>5, <2>7 DEF IsState, WorkerShape
  <2>8. CASE i > 0 /\ IsState(net, t, "send", RunOf(w, x, i), r.next + i, late, r.kept)
    BY <1>1, <1>2, <1>9, <2>2, <2>3, <2>5, <2>8 DEF IsState, WorkerShape
  <2> QED BY <2>4, <2>6, <2>7, <2>8, Zenon
<1> QED BY <1>1, <1>2, <1>5, <1>6, <1>7, <1>8, <1>9 DEF Kinds

(* A goroutine that sees the end of its input keeps its shape.             *)
LEMMA EndingShape ==
  ASSUME net \in Nets, NEW w \in Workers, WorkerShape(net, w, st[w]), st[w].at = "recv"
  PROVE  WorkerShape(net, w, InputEnded(w))
<1> DEFINE r == st[w]
<1>1. r \in States(net) /\ IsFiniteSet(r.pending) /\ r.todo = <<>> /\ Kind(w) # "source"
      /\ (r.kept # <<>> => Kind(w) \in {"collect", "await", "window"})
      /\ Kind(w) = net.workers[w].kind /\ Outs(w) = net.workers[w].outs
  BY DEF WorkerShape, Kind, Outs
<1>2. EndedIs(w)
  BY <1>1, Ending
<1>3. CASE Kind(w) = "window" /\ r.kept # <<>>
  <2>1. Batch(r.kept) \in Thing
    BY <1>1, StateTypes DEF Batch, NoIndex, Thing
  <2>2. /\ ToAll(w, Batch(r.kept)) # <<>> /\ DOMAIN ToAll(w, Batch(r.kept)) = DOMAIN Outs(w)
        /\ \A i \in DOMAIN Outs(w) : ToAll(w, Batch(r.kept))[i].to = Outs(w)[i]
    BY <1>3, <2>1, ToAllIs
  <2>3. \A j \in DOMAIN ToAll(w, Batch(r.kept)) :
          \E l \in DOMAIN net.workers[w].outs : net.workers[w].outs[l] = ToAll(w, Batch(r.kept))[j].to
    BY <1>1, <2>2, Zenon
  <2>4. IsState(net, InputEnded(w), "last", ToAll(w, Batch(r.kept)), r.next, r.pending, <<>>)
    BY <1>2, <1>3 DEF EndedIs
  <2> QED BY <1>1, <1>3, <2>2, <2>3, <2>4 DEF IsState, WorkerShape
<1>4. CASE ~ (Kind(w) = "window" /\ r.kept # <<>>)
  <2>1. IsState(net, InputEnded(w), "done", r.todo, r.next, r.pending, r.kept)
    BY <1>2, <1>4 DEF EndedIs
  <2> QED BY <1>1, <1>4, <2>1, ShapeOf
<1> QED BY <1>3, <1>4, Zenon

(* A goroutine that gives up keeps its shape.                              *)
LEMMA GivenUpShape ==
  ASSUME NEW w \in Workers, WorkerShape(net, w, st[w]), Sending(w), NEW a \in {"done", "cut"},
         a = "cut" => Kind(w) = "limit"
  PROVE  WorkerShape(net, w, [st[w] EXCEPT !.at = a, !.todo = <<>>])
<1> DEFINE r == st[w]
           t == [r EXCEPT !.at = a, !.todo = <<>>]
<1>1. /\ r \in States(net) /\ IsFiniteSet(r.pending) /\ Kind(w) = net.workers[w].kind
      /\ r.at \in {"send", "last"}
      /\ r.kept # <<>> => Kind(w) \in {"collect", "await"}
  BY DEF WorkerShape, Kind, Sending
<1>2. IsState(net, t, a, <<>>, r.next, r.pending, r.kept)
  BY <1>1, GivenUp
<1> HIDE DEF t
<1>3. WorkerShape(net, w, t)
  BY <1>1, <1>2, ShapeOf
<1> QED BY <1>3 DEF t

-----------------------------------------------------------------------------
(* Order: what one goroutine does keeps its own part. *)

(* An empty span ends where it starts.                                     *)
LEMMA SpanIsEmpty ==
  ASSUME NEW lo \in Nat, NEW hi \in Nat, lo <= hi, Span(lo, hi) = <<>>
  PROVE  lo = hi
<1>1. Spans(<<>>, lo, hi)
  BY SpanLen, Zenon
<1>2. hi = lo + Len(<<>>)
  BY <1>1 DEF Spans
<1> QED BY <1>2

(* One goroutine sends on a channel that keeps order.                      *)
LEMMA OneWriter ==
  ASSUME NEW n \in Nets, OneRoute(n), NEW O, NEW Z, NEW X, IsArranged(n, O, Z, X),
         NEW v \in DOMAIN n.workers, NEW w \in DOMAIN n.workers, NEW c \in O,
         Sends(n, v, c), Sends(n, w, c)
  PROVE  v = w
<1>1. n.workers[v].in = n.workers[w].in
  BY DEF OneRoute, Sends
<1>2. \/ n.workers[w].kind \in {"source", "ordered"}
      \/ \A u \in DOMAIN n.workers : n.workers[u].in = n.workers[w].in => u = w
  BY DEF IsArranged, Sends
<1>3. CASE n.workers[w].kind = "source"
  <2>1. Stage(n, v) /\ Stage(n, w)
    BY Stages
  <2>2. n.workers[v].kind = "source"
    BY <1>1, <1>3, <2>1 DEF Stage
  <2>3. IsNetwork(n)
    BY NetsAssumption
  <2>4. PICK s \in DOMAIN n.workers :
          \A u \in DOMAIN n.workers : n.workers[u].kind = "source" <=> u = s
    BY <2>3, Zenon DEF IsNetwork
  <2> QED BY <1>3, <2>2, <2>4
<1>4. CASE n.workers[w].kind = "ordered"
  BY <1>1, <1>4 DEF OneRoute
<1>5. CASE \A u \in DOMAIN n.workers : n.workers[u].in = n.workers[w].in => u = w
  BY <1>1, <1>5
<1> QED BY <1>2, <1>3, <1>4, <1>5

(* Goroutines that share a channel leave what they send out of order.      *)
LEMMA Shared ==
  ASSUME NEW n \in Nets, OneRoute(n), NEW O, NEW Z, NEW X, IsArranged(n, O, Z, X),
         NEW v \in DOMAIN n.workers, NEW w \in DOMAIN n.workers, v # w,
         n.workers[v].in = n.workers[w].in
  PROVE  /\ n.workers[v].kind = "pass" /\ n.workers[v].outs = n.workers[w].outs
         /\ \A j \in DOMAIN n.workers[v].outs : n.workers[v].outs[j] \notin O
<1>1. n.workers[v].kind = "pass" /\ n.workers[v].outs = n.workers[w].outs
  BY DEF OneRoute
<1>2. ASSUME NEW j \in DOMAIN n.workers[v].outs PROVE n.workers[v].outs[j] \notin O
  BY <1>1 DEF IsArranged
<1> QED BY <1>1, <1>2

(* What a goroutine has sent and taken is in order whatever others do.     *)
LEMMA OrderFrame ==
  ASSUME NEW n, NEW w, Stage(n, w), NEW O, NEW Z, NEW X, IsArranged(n, O, Z, X),
         w \in DOMAIN n.workers,
         NEW p, NEW g, NEW p2, NEW g2, NEW r, WorkerShape(n, w, r),
         WorkerOrder(n, O, Z, X, p, g, w, r),
         \A j \in DOMAIN n.workers[w].outs :
           n.workers[w].outs[j] \in O => p2[n.workers[w].outs[j]] = p[n.workers[w].outs[j]],
         n.workers[w].in \in O => g2[n.workers[w].in] = g[n.workers[w].in]
  PROVE  WorkerOrder(n, O, Z, X, p2, g2, w, r)
<1> DEFINE kind == n.workers[w].kind
           in == n.workers[w].in
           outs == n.workers[w].outs
<1>1. \A i \in DOMAIN r.todo : r.todo[i].to \in O => p2[r.todo[i].to] = p[r.todo[i].to]
  BY DEF WorkerShape
<1>2. kind \in {"source", "ordered"} => CountsOn(n, O, p2, w, r)
  <2>1. SUFFICES ASSUME kind \in {"source", "ordered"}, outs[1] \in O, NEW i \in DOMAIN r.todo
                 PROVE  r.todo[i].item.from = <<p2[outs[1]] + i>>
    BY DEF CountsOn
  <2>2. 1 \in DOMAIN outs
    BY <2>1, OnlyOne DEF Stage
  <2> QED BY <2>1, <2>2 DEF WorkerOrder, CountsOn
<1>3. kind \in {"pass", "limit", "enumerate", "window"} /\ ~ HasEnded(r) =>
       SendsInOrder(n, O, p2, g2, w, r)
  <2>1. SUFFICES ASSUME kind \in {"pass", "limit", "enumerate", "window"}, ~ HasEnded(r)
                 PROVE  SendsInOrder(n, O, p2, g2, w, r)
    OBVIOUS
  <2>2. SendsInOrder(n, O, p, g, w, r)
    BY <2>1 DEF WorkerOrder
  <2>3. \A j \in DOMAIN outs : outs[j] \in O => in \in O
    BY <2>1 DEF IsArranged
  <2>4. \A i \in DOMAIN r.todo : r.todo[i].to \in O => in \in O
    BY <2>3 DEF WorkerShape
  <2> QED BY <1>1, <2>2, <2>3, <2>4 DEF SendsInOrder
<1>4. kind = "enumerate" /\ in \in Z => r.next = g2[in]
  BY DEF WorkerOrder, IsArranged
<1>5. kind = "ordered" =>
       /\ ~ HasEnded(r) /\ outs[1] \in O => r.next = p2[outs[1]] + Len(r.todo)
       /\ \A y \in r.pending : y.index \in Nat /\ y.from = <<y.index + 1>>
  <2>1. kind = "ordered" => 1 \in DOMAIN outs
    BY OnlyOne DEF Stage
  <2> QED BY <2>1 DEF WorkerOrder
<1>6. kind \in {"collect", "await"} /\ in \in O => r.kept = Span(0, g2[in])
  BY DEF WorkerOrder
<1>7. \A i \in DOMAIN r.todo : Fit(Z, X, r.todo[i].to, r.todo[i].item)
  BY DEF WorkerOrder
<1> QED BY <1>2, <1>3, <1>4, <1>5, <1>6, <1>7 DEF WorkerOrder

(* What goes on, or comes off, a channel that keeps order comes next.       *)
Follows(O, g, g2, c, x) ==
  /\ \A d \in Channels : d # c => g2[d] = g[d]
  /\ c \notin O => g2[c] = g[c]
  /\ c \in O => g[c] < g2[c] /\ x.from = Span(g[c], g2[c])

(* An item goes on its channel in order, and what is left to send follows. *)
LEMMA SentOrder ==
  ASSUME net \in Nets, NEW w \in Workers, WorkerShape(net, w, st[w]), Sending(w),
         NEW O \in SUBSET Channels, NEW Z, NEW X, IsArranged(net, O, Z, X),
         NEW p \in [Channels -> Nat], NEW g \in [Channels -> Nat],
         WorkerOrder(net, O, Z, X, p, g, w, st[w]),
         NEW c, NEW x, c = Head(st[w].todo).to, x = Head(st[w].todo).item
  PROVE  /\ Fit(Z, X, c, x)
         /\ \E p2 \in [Channels -> Nat] :
              Follows(O, p, p2, c, x) /\ WorkerOrder(net, O, Z, X, p2, g, w, SentFirst(w))
<1> DEFINE r == st[w]
           t == SentFirst(w)
           rest == Tail(r.todo)
           outs == net.workers[w].outs
           in == net.workers[w].in
           kind == net.workers[w].kind
<1>1. /\ Stage(net, w) /\ r \in States(net) /\ r.todo # <<>> /\ r.todo \in Msgs(net)
      /\ r.at \in {"send", "last"}
  BY Stages, StateTypes DEF Workers, WorkerShape, Sending
<1>2. /\ t \in States(net) /\ t.todo = rest /\ t.next = r.next /\ t.pending = r.pending
      /\ t.kept = r.kept
      /\ t.at = IF rest # <<>> THEN r.at ELSE IF r.at = "send" THEN "recv" ELSE "done"
  BY <1>1, Sent DEF SentIs, IsState
<1>3. /\ rest \in Msgs(net) /\ Len(r.todo) = Len(rest) + 1 /\ 1 \in DOMAIN r.todo
      /\ c = r.todo[1].to /\ x = r.todo[1].item
      /\ \A i \in DOMAIN rest : i + 1 \in DOMAIN r.todo /\ rest[i] = r.todo[i + 1] /\ i \in Nat /\ i > 0
  BY <1>1 DEF Msgs
<1>4. kind \in Kinds /\ kind \notin {"collect", "await"}
  BY <1>1, <1>3 DEF Stage, WorkerShape
<1>5. PICK j \in DOMAIN outs : outs[j] = c
  BY <1>3 DEF WorkerShape
<1>6. c \in Channels
  BY <1>1, <1>5 DEF Stage, Channels
<1>7. Fit(Z, X, c, x)
  BY <1>3 DEF WorkerOrder
<1>8. /\ \A i \in DOMAIN rest : Fit(Z, X, rest[i].to, rest[i].item)
      /\ kind = "enumerate" /\ in \in Z => r.next = g[in]
      /\ kind = "ordered" => \A y \in r.pending : y.index \in Nat /\ y.from = <<y.index + 1>>
  BY <1>3 DEF WorkerOrder
<1> HIDE DEF rest, t, outs, in, kind
<1>9. CASE kind \in {"source", "ordered"}
  <2> DEFINE p2 == [p EXCEPT ![c] = IF c \in O THEN p[c] + 1 ELSE p[c]]
  <2>1. outs[1] = c
    BY <1>1, <1>5, <1>9, OnlyOne DEF Stage, outs, kind
  <2>2. CountsOn(net, O, p, w, r)
    BY <1>9 DEF WorkerOrder, kind
  <2>3. p2 \in [Channels -> Nat] /\ (\A d \in Channels : d # c => p2[d] = p[d])
        /\ p2[c] = (IF c \in O THEN p[c] + 1 ELSE p[c]) /\ p[c] \in Nat
    BY <1>6
  <2> HIDE DEF p2
  <2>4. c \in O => p[c] < p2[c] /\ x.from = Span(p[c], p2[c])
    <3>1. c \in O => x.from = <<p[c] + 1>>
      BY <1>3, <2>1, <2>2 DEF CountsOn, outs
    <3>2. <<p[c] + 1>> = Span(p[c], p[c] + 1)
      BY <2>3, OneIsSpan
    <3>3. c \in O => p2[c] = p[c] + 1
      BY <2>3
    <3>4. c \in O => x.from = Span(p[c], p2[c])
      BY <3>1, <3>2, <3>3
    <3> QED BY <2>3, <3>3, <3>4
  <2>5. CountsOn(net, O, p2, w, t)
    <3>1. ASSUME c \in O, NEW i \in DOMAIN rest PROVE rest[i].item.from = <<p2[c] + i>>
      <4>1. rest[i] = r.todo[i + 1] /\ i + 1 \in DOMAIN r.todo /\ i \in Nat
        BY <1>3
      <4>2. r.todo[i + 1].item.from = <<p[c] + (i + 1)>>
        BY <2>1, <2>2, <3>1, <4>1 DEF CountsOn, outs
      <4>3. p[c] + (i + 1) = p2[c] + i
        BY <2>3, <3>1, <4>1
      <4> QED BY <4>1, <4>2, <4>3
    <3> QED BY <1>2, <2>1, <3>1 DEF CountsOn, outs
  <2>6. kind = "ordered" /\ ~ HasEnded(t) /\ c \in O => t.next = p2[c] + Len(t.todo)
    <3>1. kind = "ordered" /\ c \in O => r.next = p[c] + Len(r.todo)
      BY <1>1, <2>1 DEF WorkerOrder, kind, outs, HasEnded
    <3>2. Len(rest) \in Nat
      BY <1>3 DEF Msgs
    <3>3. Len(r.todo) = Len(rest) + 1
      BY <1>3
    <3>4. SUFFICES ASSUME kind = "ordered", c \in O PROVE r.next = p2[c] + Len(rest)
      BY <1>2
    <3>5. r.next = p[c] + (Len(rest) + 1)
      BY <3>1, <3>3, <3>4, Zenon
    <3>6. PICK m \in Nat : m = Len(rest)
      BY <3>2
    <3>7. r.next = p[c] + (m + 1)
      BY <3>5, <3>6, Zenon
    <3>8. r.next = p2[c] + m
      BY <2>3, <3>4, <3>7
    <3> QED BY <3>6, <3>8, Zenon
  <2>7. WorkerOrder(net, O, Z, X, p2, g, w, t)
    BY <1>2, <1>4, <1>8, <1>9, <2>1, <2>5, <2>6 DEF WorkerOrder, kind, outs, in
  <2> QED BY <1>7, <2>3, <2>4, <2>7 DEF t, Follows
<1>10. CASE kind \in {"pass", "limit", "enumerate", "window"}
  <2> DEFINE p2 == [p EXCEPT ![c] = IF c \in O THEN g[in] ELSE p[c]]
  <2>1. SendsInOrder(net, O, p, g, w, r)
    BY <1>1, <1>10 DEF WorkerOrder, kind, HasEnded
  <2>2. c \in O => p[c] < g[in] /\ x.from = Span(p[c], g[in])
    BY <1>3, <2>1 DEF SendsInOrder, in
  <2>3. g[in] \in Nat
    BY <1>1, <1>10 DEF Stage, in, kind, Channels
  <2>4. p2 \in [Channels -> Nat] /\ (\A d \in Channels : d # c => p2[d] = p[d])
        /\ p2[c] = (IF c \in O THEN g[in] ELSE p[c])
    BY <1>6, <2>3
  <2> HIDE DEF p2
  <2>5. \A i \in DOMAIN rest : rest[i].to # c
    <3>1. \A i, k \in DOMAIN r.todo : r.todo[i].to = r.todo[k].to => i = k
      BY <2>1 DEF SendsInOrder
    <3>2. ASSUME NEW i \in DOMAIN rest PROVE rest[i].to # c
      <4>1. rest[i] = r.todo[i + 1] /\ i + 1 \in DOMAIN r.todo /\ i + 1 # 1
        BY <1>3
      <4> QED BY <1>3, <3>1, <4>1
    <3> QED BY <3>2
  <2>6. r.kept = <<>>
    BY <1>1, <1>10 DEF WorkerShape, kind
  <2>7. SendsInOrder(net, O, p2, g, w, t)
    <3>1. \A i, k \in DOMAIN rest : rest[i].to = rest[k].to => i = k
      <4>1. ASSUME NEW i \in DOMAIN rest, NEW k \in DOMAIN rest, rest[i].to = rest[k].to PROVE i = k
        <5>1. rest[i] = r.todo[i + 1] /\ i + 1 \in DOMAIN r.todo /\ i \in Nat
          BY <1>3
        <5>2. rest[k] = r.todo[k + 1] /\ k + 1 \in DOMAIN r.todo /\ k \in Nat
          BY <1>3
        <5>3. i + 1 = k + 1
          BY <2>1, <4>1, <5>1, <5>2 DEF SendsInOrder
        <5> QED BY <5>1, <5>2, <5>3
      <4> QED BY <4>1
    <3>2. ASSUME NEW i \in DOMAIN rest, rest[i].to \in O
          PROVE  p2[rest[i].to] < g[in] /\ rest[i].item.from = Span(p2[rest[i].to], g[in])
      <4>1. rest[i] = r.todo[i + 1] /\ i + 1 \in DOMAIN r.todo
        BY <1>3
      <4>2. rest[i].to \in Channels
        BY <3>2
      <4>3. p2[rest[i].to] = p[rest[i].to]
        BY <2>4, <2>5, <4>2
      <4> QED BY <2>1, <3>2, <4>1, <4>3 DEF SendsInOrder, in
    <3>3. ASSUME NEW k \in DOMAIN outs, outs[k] \in O, \A i \in DOMAIN rest : rest[i].to # outs[k]
          PROVE  p2[outs[k]] <= g[in] /\ r.kept = Span(p2[outs[k]], g[in])
      <4>1. CASE outs[k] = c
        BY <2>3, <2>4, <2>6, <3>3, <4>1, SpanOfNone
      <4>2. CASE outs[k] # c
        <5>1. \A i \in DOMAIN r.todo : r.todo[i].to # outs[k]
          <6>1. ASSUME NEW i \in DOMAIN r.todo PROVE r.todo[i].to # outs[k]
            <7>1. i = 1 \/ (i - 1 \in DOMAIN rest /\ (i - 1) + 1 = i)
              BY <1>1, <1>3 DEF Msgs
            <7> QED BY <1>3, <3>3, <4>2, <7>1
          <6> QED BY <6>1
        <5>2. p2[outs[k]] = p[outs[k]]
          BY <2>4, <3>3, <4>2
        <5> QED BY <2>1, <3>3, <5>1, <5>2 DEF SendsInOrder, in, outs
      <4> QED BY <4>1, <4>2
    <3> QED BY <1>2, <3>1, <3>2, <3>3 DEF SendsInOrder, in, outs
  <2>8. WorkerOrder(net, O, Z, X, p2, g, w, t)
    BY <1>2, <1>8, <1>10, <2>7 DEF WorkerOrder, kind, in
  <2> QED BY <1>7, <2>2, <2>4, <2>8 DEF t, Follows
<1> QED BY <1>4, <1>9, <1>10 DEF Kinds

(* A single item is the one after what was taken.                          *)
LEMMA NextOne ==
  ASSUME NEW O, NEW g \in [Channels -> Nat], NEW g2 \in [Channels -> Nat], NEW c \in Channels,
         c \in O, NEW x, Follows(O, g, g2, c, x), NEW k \in Nat, x.from = <<k>>
  PROVE  k = g[c] + 1 /\ g2[c] = g[c] + 1
<1>1. g[c] \in Nat /\ g2[c] \in Nat /\ g[c] <= g2[c] /\ Span(g[c], g2[c]) = <<k>>
  BY DEF Follows
<1>2. k = g2[c] /\ g2[c] = g[c] + 1
  BY <1>1, SpanOfOne, Zenon
<1> QED BY <1>2

(* A goroutine that takes what follows what it has taken sends what        *)
(* follows what it has sent.                                               *)
LEMMA ReceivedOrder ==
  ASSUME net \in Nets, NEW w \in Workers, WorkerShape(net, w, st[w]), st[w].at = "recv",
         NEW O \in SUBSET Channels, NEW Z, NEW X, IsArranged(net, O, Z, X),
         NEW p \in [Channels -> Nat], NEW g \in [Channels -> Nat], NEW g2 \in [Channels -> Nat],
         WorkerOrder(net, O, Z, X, p, g, w, st[w]),
         NEW x \in Thing, Fit(Z, X, In(w), x), Follows(O, g, g2, In(w), x)
  PROVE  WorkerOrder(net, O, Z, X, p, g2, w, Received(w, x))
<1> DEFINE r == st[w]
           t == Received(w, x)
           outs == Outs(w)
           in == In(w)
           kind == Kind(w)
           k == r.kept \o x.from
<1>1. /\ Stage(net, w) /\ r \in States(net) /\ r.todo = <<>> /\ IsFiniteSet(r.pending)
      /\ r.next \in Nat /\ kind \in Kinds /\ kind # "source" /\ in \in Channels
      /\ kind = net.workers[w].kind /\ in = net.workers[w].in /\ outs = net.workers[w].outs
      /\ w \in DOMAIN net.workers
  BY Stages, StateTypes DEF Workers, WorkerShape, Stage, Kind, In, Outs, Channels
<1>2. ReceivedIs(w, x)
  BY <1>1, Receives
<1>3. /\ g[in] \in Nat /\ g2[in] \in Nat
      /\ in \in O => g[in] < g2[in] /\ x.from = Span(g[in], g2[in])
  BY <1>1 DEF Follows
<1>4. \A j \in DOMAIN outs : outs[j] \in Channels /\ p[outs[j]] \in Nat
  BY <1>1 DEF Stage, Channels
<1>5. kind \in {"pass", "limit", "enumerate", "window"} =>
        \A j \in DOMAIN outs : outs[j] \in O =>
          in \in O /\ p[outs[j]] <= g[in] /\ r.kept = Span(p[outs[j]], g[in])
  <2>1. kind \in {"pass", "limit", "enumerate", "window"} => SendsInOrder(net, O, p, g, w, r)
    BY <1>1 DEF WorkerOrder, HasEnded
  <2>2. \A j \in DOMAIN outs : outs[j] \in O => kind \in {"source", "ordered"} \/ in \in O
    BY <1>1, Zenon DEF IsArranged
  <2>3. ASSUME kind \in {"pass", "limit", "enumerate", "window"}, NEW j \in DOMAIN outs, outs[j] \in O
        PROVE  in \in O /\ p[outs[j]] <= g[in] /\ r.kept = Span(p[outs[j]], g[in])
    <3>1. in \in O /\ SendsInOrder(net, O, p, g, w, r)
      BY <2>1, <2>2, <2>3
    <3> QED BY <1>1, <2>3, <3>1 DEF SendsInOrder
  <2> QED BY <2>3
<1>6. ASSUME NEW y \in Thing, kind \in {"pass", "limit", "enumerate", "window"}, t.kept = <<>>,
             t.todo = ToAll(w, y),
             \A j \in DOMAIN outs : outs[j] \in O =>
               p[outs[j]] < g2[in] /\ y.from = Span(p[outs[j]], g2[in])
      PROVE  SendsInOrder(net, O, p, g2, w, t)
  <2>1. /\ DOMAIN t.todo = DOMAIN outs
        /\ \A j \in DOMAIN outs : t.todo[j].to = outs[j] /\ t.todo[j].item = y
    <3>1. Kind(w) \notin {"collect", "await"}
      BY <1>6
    <3> QED BY <1>6, <3>1, ToAllIs
  <2>2. \A i, j \in DOMAIN outs : outs[i] = outs[j] => i = j
    BY <1>1 DEF Stage
  <2> QED BY <1>1, <1>6, <2>1, <2>2 DEF SendsInOrder
<1>7. ASSUME NEW y \in Thing, kind \notin {"collect", "await"}, t.todo = ToAll(w, y),
             \A j \in DOMAIN outs : Fit(Z, X, outs[j], y)
      PROVE  \A i \in DOMAIN t.todo : Fit(Z, X, t.todo[i].to, t.todo[i].item)
  <2>1. /\ DOMAIN t.todo = DOMAIN outs
        /\ \A j \in DOMAIN outs : t.todo[j].to = outs[j] /\ t.todo[j].item = y
    BY <1>7, ToAllIs
  <2> QED BY <1>7, <2>1
<1>a. /\ kind = "ordered" => in \in X
      /\ Z \subseteq O
      /\ \A j \in DOMAIN outs :
           /\ outs[j] \in Z => kind = "source" \/ (kind \in {"pass", "limit"} /\ in \in Z)
           /\ outs[j] \in X => \/ (kind = "enumerate" /\ in \in Z)
                               \/ (kind \in {"pass", "limit"} /\ in \in X)
  BY <1>1, Zenon DEF IsArranged
<1>b. SUFFICES WorkerOrder(net, O, Z, X, p, g2, w, t)
  OBVIOUS
<1> HIDE DEF t, outs, in, kind, k
<1>8. CASE kind \in {"pass", "limit"}
  <2>1. IsState(net, t, "send", ToAll(w, x), r.next, r.pending, r.kept)
    BY <1>2, <1>8 DEF ReceivedIs, kind, t
  <2>2. t.todo = ToAll(w, x) /\ t.kept = r.kept /\ r.kept = <<>>
    BY <1>1, <1>8, <2>1 DEF IsState, WorkerShape
  <2>3. \A j \in DOMAIN outs : outs[j] \in O => p[outs[j]] < g2[in] /\ x.from = Span(p[outs[j]], g2[in])
    <3>1. ASSUME NEW j \in DOMAIN outs, outs[j] \in O
          PROVE  p[outs[j]] < g2[in] /\ x.from = Span(p[outs[j]], g2[in])
      <4>1. in \in O /\ p[outs[j]] <= g[in] /\ Span(p[outs[j]], g[in]) = <<>> /\ p[outs[j]] \in Nat
        BY <1>4, <1>5, <1>8, <2>2, <3>1
      <4>2. p[outs[j]] = g[in]
        BY <1>3, <4>1, SpanIsEmpty
      <4> QED BY <1>3, <4>1, <4>2
    <3> QED BY <3>1
  <2>4. \A j \in DOMAIN outs : Fit(Z, X, outs[j], x)
    BY <1>1, <1>8, <1>a DEF Fit, in
  <2>5. SendsInOrder(net, O, p, g2, w, t)
    BY <1>6, <1>8, <2>2, <2>3
  <2>6. \A i \in DOMAIN t.todo : Fit(Z, X, t.todo[i].to, t.todo[i].item)
    BY <1>7, <1>8, <2>2, <2>4
  <2>7. WorkerOrder(net, O, Z, X, p, g2, w, t)
    BY <1>1, <1>8, <2>5, <2>6 DEF WorkerOrder
  <2> QED BY <2>7
<1>9. CASE kind = "enumerate"
  <2> DEFINE y == [x EXCEPT !.index = r.next]
  <2>1. y \in Thing /\ y.from = x.from /\ y.index = r.next
    BY <1>1, Reindexed
  <2>2. IsState(net, t, "send", ToAll(w, y), r.next + 1, r.pending, r.kept)
    BY <1>2, <1>9 DEF ReceivedIs, kind, t
  <2> HIDE DEF y
  <2>3. t.todo = ToAll(w, y) /\ t.kept = r.kept /\ r.kept = <<>> /\ t.next = r.next + 1
    BY <1>1, <1>9, <2>2 DEF IsState, WorkerShape
  <2>4. \A j \in DOMAIN outs : outs[j] \in O => p[outs[j]] < g2[in] /\ y.from = Span(p[outs[j]], g2[in])
    <3>1. ASSUME NEW j \in DOMAIN outs, outs[j] \in O
          PROVE  p[outs[j]] < g2[in] /\ y.from = Span(p[outs[j]], g2[in])
      <4>1. in \in O /\ p[outs[j]] <= g[in] /\ Span(p[outs[j]], g[in]) = <<>> /\ p[outs[j]] \in Nat
        BY <1>4, <1>5, <1>9, <2>3, <3>1
      <4>2. p[outs[j]] = g[in]
        BY <1>3, <4>1, SpanIsEmpty
      <4> QED BY <1>3, <2>1, <4>1, <4>2
    <3> QED BY <3>1
  <2>5. in \in Z => r.next = g[in] /\ g2[in] = g[in] + 1 /\ x.from = <<r.next + 1>>
    <3>1. SUFFICES ASSUME in \in Z PROVE r.next = g[in] /\ g2[in] = g[in] + 1 /\ x.from = <<r.next + 1>>
      OBVIOUS
    <3>2. r.next = g[in] /\ in \in O
      BY <1>1, <1>9, <1>a, <3>1 DEF WorkerOrder
    <3>3. PICK i \in Nat : x.from = <<i>>
      BY <3>1 DEF Fit, in
    <3>4. i = g[in] + 1 /\ g2[in] = g[in] + 1
      BY <1>1, <3>2, <3>3, NextOne DEF in
    <3> QED BY <3>2, <3>3, <3>4
  <2>6. \A j \in DOMAIN outs : Fit(Z, X, outs[j], y)
    <3>1. \A j \in DOMAIN outs : outs[j] \notin Z /\ (outs[j] \in X => in \in Z)
      BY <1>9, <1>a
    <3> QED BY <1>1, <2>1, <2>5, <3>1 DEF Fit
  <2>7. SendsInOrder(net, O, p, g2, w, t)
    BY <1>6, <1>9, <2>1, <2>3, <2>4
  <2>8. \A i \in DOMAIN t.todo : Fit(Z, X, t.todo[i].to, t.todo[i].item)
    BY <1>7, <1>9, <2>1, <2>3, <2>6
  <2>9. WorkerOrder(net, O, Z, X, p, g2, w, t)
    BY <1>1, <1>9, <2>3, <2>5, <2>7, <2>8 DEF WorkerOrder
  <2> QED BY <2>9
<1>10. CASE kind = "window"
  <2>1. k \in Seq(Nat) /\ Batch(k) \in Thing /\ Batch(k).from = k
    BY <1>1, StateTypes DEF Batch, NoIndex, Thing, k
  <2>2. \A j \in DOMAIN outs : outs[j] \in O => p[outs[j]] < g2[in] /\ k = Span(p[outs[j]], g2[in])
    <3>1. ASSUME NEW j \in DOMAIN outs, outs[j] \in O
          PROVE  p[outs[j]] < g2[in] /\ k = Span(p[outs[j]], g2[in])
      <4>1. in \in O /\ p[outs[j]] <= g[in] /\ r.kept = Span(p[outs[j]], g[in]) /\ p[outs[j]] \in Nat
        BY <1>4, <1>5, <1>10, <3>1
      <4>2. g[in] < g2[in] /\ x.from = Span(g[in], g2[in])
        BY <1>3, <4>1
      <4>3. Span(p[outs[j]], g[in]) \o Span(g[in], g2[in]) = Span(p[outs[j]], g2[in])
        <5>1. g[in] <= g2[in]
          BY <1>3, <4>2
        <5> QED BY <1>3, <4>1, <5>1, SpansJoin
      <4> QED BY <1>3, <4>1, <4>2, <4>3 DEF k
    <3> QED BY <3>1
  <2>3. \A j \in DOMAIN outs : outs[j] \notin Z /\ outs[j] \notin X
    BY <1>10, <1>a
  <2>4. \/ IsState(net, t, "send", ToAll(w, Batch(k)), r.next, r.pending, <<>>)
        \/ IsState(net, t, r.at, r.todo, r.next, r.pending, k)
    BY <1>2, <1>10 DEF ReceivedIs, kind, t, k
  <2>5. CASE IsState(net, t, "send", ToAll(w, Batch(k)), r.next, r.pending, <<>>)
    <3>1. t.todo = ToAll(w, Batch(k)) /\ t.kept = <<>>
      BY <2>5 DEF IsState
    <3>2. SendsInOrder(net, O, p, g2, w, t)
      BY <1>6, <1>10, <2>1, <2>2, <3>1
    <3>3. \A i \in DOMAIN t.todo : Fit(Z, X, t.todo[i].to, t.todo[i].item)
      BY <1>7, <1>10, <2>1, <2>3, <3>1 DEF Fit
    <3> QED BY <1>1, <1>10, <3>2, <3>3 DEF WorkerOrder
  <2>6. CASE IsState(net, t, r.at, r.todo, r.next, r.pending, k)
    <3>1. t.todo = <<>> /\ t.kept = k
      BY <1>1, <2>6 DEF IsState
    <3>2. SendsInOrder(net, O, p, g2, w, t)
      <4>1. \A j \in DOMAIN outs : outs[j] \in O => p[outs[j]] <= g2[in] /\ k = Span(p[outs[j]], g2[in])
        BY <1>3, <1>4, <2>2
      <4> QED BY <1>1, <3>1, <4>1 DEF SendsInOrder
    <3>3. \A i \in DOMAIN t.todo : Fit(Z, X, t.todo[i].to, t.todo[i].item)
      BY <3>1
    <3> QED BY <1>1, <1>10, <3>2, <3>3 DEF WorkerOrder
  <2> QED BY <2>4, <2>5, <2>6
<1>11. CASE kind \in {"collect", "await"}
  <2>1. IsState(net, t, "recv", r.todo, r.next, r.pending, k)
        \/ IsState(net, t, "done", r.todo, r.next, r.pending, k)
    BY <1>2, <1>11 DEF ReceivedIs, kind, t, k
  <2>2. t.todo = <<>> /\ t.kept = k
    BY <1>1, <2>1 DEF IsState
  <2>3. in \in O => k = Span(0, g2[in])
    <3>1. SUFFICES ASSUME in \in O PROVE k = Span(0, g2[in])
      OBVIOUS
    <3>2. r.kept = Span(0, g[in])
      BY <1>1, <1>11, <3>1 DEF WorkerOrder
    <3>3. Span(0, g[in]) \o Span(g[in], g2[in]) = Span(0, g2[in])
      <4>1. g[in] <= g2[in] /\ 0 <= g[in] /\ 0 \in Nat
        BY <1>3, <3>1
      <4> QED BY <1>3, <4>1, SpansJoin
    <3> QED BY <1>3, <3>1, <3>2, <3>3 DEF k
  <2>4. \A i \in DOMAIN t.todo : Fit(Z, X, t.todo[i].to, t.todo[i].item)
    BY <2>2
  <2>5. WorkerOrder(net, O, Z, X, p, g2, w, t)
    BY <1>1, <1>11, <2>2, <2>3, <2>4 DEF WorkerOrder
  <2> QED BY <2>5
<1>12. CASE kind = "ordered"
  <2>1. PICK i \in Nat : OrderedTakes(w, x, i)
    BY <1>2, <1>12 DEF ReceivedIs, kind
  <2> DEFINE P == r.pending \cup {x}
             late == {y \in P : y.index >= r.next + i}
             run == RunOf(w, x, i)
  <2>2. \A y \in P : y.index \in Nat /\ y.from = <<y.index + 1>>
    <3>1. x.index \in Nat /\ x.from = <<x.index + 1>>
      BY <1>12, <1>a DEF Fit, in
    <3> QED BY <1>1, <1>12, <3>1 DEF WorkerOrder
  <2>3. \/ IsState(net, t, "cut", r.todo, r.next, P, r.kept)
        \/ i = 0 /\ IsState(net, t, r.at, r.todo, r.next + i, late, r.kept)
        \/ i > 0 /\ IsState(net, t, "send", run, r.next + i, late, r.kept)
    BY <2>1 DEF OrderedTakes, t
  <2>4. late \subseteq P
    OBVIOUS
  <2>5. /\ run \in Msgs(net) /\ Len(run) = i /\ 1 \in DOMAIN outs
        /\ \A j \in DOMAIN run : run[j].to = outs[1]
        /\ \A j \in 1..i : \E y \in P :
             y.index = r.next + j - 1 /\ run[j].item = [y EXCEPT !.index = NoIndex]
    BY <2>1 DEF OrderedTakes, RunFits, outs
  <2>6. outs[1] \notin Z /\ outs[1] \notin X /\ outs[1] \in Channels
    BY <1>4, <1>12, <1>a, <2>5
  <2>7. outs[1] \in O => r.next = p[outs[1]]
    <3>1. outs[1] \in O => r.next = p[outs[1]] + Len(r.todo)
      BY <1>1, <1>12 DEF WorkerOrder, HasEnded
    <3>2. Len(r.todo) = 0
      BY <1>1
    <3> QED BY <1>4, <2>5, <3>1, <3>2
  <2>8. DOMAIN run = 1..i
    BY <2>5 DEF Msgs
  <2>9. \A j \in 1..i : run[j].item.from = <<r.next + j>>
    <3>1. ASSUME NEW j \in 1..i PROVE run[j].item.from = <<r.next + j>>
      <4>1. PICK y \in P : y.index = r.next + j - 1 /\ run[j].item = [y EXCEPT !.index = NoIndex]
        BY <2>5
      <4>2. y \in Thing /\ NoIndex \in Int
        BY <1>1, StateTypes DEF NoIndex
      <4>3. run[j].item.from = y.from
        BY <4>1, <4>2, Reindexed
      <4>4. y.from = <<y.index + 1>>
        BY <2>2
      <4>5. y.index + 1 = r.next + j
        BY <1>1, <4>1
      <4> QED BY <4>3, <4>4, <4>5
    <3> QED BY <3>1
  <2> HIDE DEF P, late, run
  <2>10. CASE IsState(net, t, "cut", r.todo, r.next, P, r.kept)
    <3>1. t.todo = <<>> /\ t.pending = P /\ HasEnded(t)
      BY <1>1, <2>10 DEF IsState, HasEnded
    <3> QED BY <1>1, <1>12, <2>2, <3>1 DEF WorkerOrder, CountsOn
  <2>11. CASE i = 0 /\ IsState(net, t, r.at, r.todo, r.next + i, late, r.kept)
    <3>1. t.todo = <<>> /\ t.pending = late /\ t.next = r.next
      BY <1>1, <2>11 DEF IsState
    <3>2. outs[1] \in O => t.next = p[outs[1]] + Len(t.todo)
      BY <1>4, <2>5, <2>7, <3>1
    <3> QED BY <1>1, <1>12, <2>2, <2>4, <3>1, <3>2 DEF WorkerOrder, CountsOn
  <2>12. CASE IsState(net, t, "send", run, r.next + i, late, r.kept)
    <3>1. t.todo = run /\ t.pending = late /\ t.next = r.next + i
      BY <2>12 DEF IsState
    <3>2. outs[1] \in O => t.next = p[outs[1]] + Len(t.todo)
      BY <2>5, <2>7, <3>1
    <3>3. CountsOn(net, O, p, w, t)
      BY <1>1, <2>7, <2>8, <2>9, <3>1 DEF CountsOn
    <3>4. \A j \in DOMAIN t.todo : Fit(Z, X, t.todo[j].to, t.todo[j].item)
      BY <2>5, <2>6, <3>1 DEF Fit
    <3> QED BY <1>1, <1>12, <2>2, <2>4, <3>1, <3>2, <3>3, <3>4 DEF WorkerOrder
  <2> QED BY <2>3, <2>10, <2>11, <2>12
<1> QED BY <1>1, <1>8, <1>9, <1>10, <1>11, <1>12 DEF Kinds

(* A Window sends its trailing batch in order.                             *)
LEMMA EndingOrder ==
  ASSUME net \in Nets, NEW w \in Workers, WorkerShape(net, w, st[w]), st[w].at = "recv",
         NEW O \in SUBSET Channels, NEW Z, NEW X, IsArranged(net, O, Z, X),
         NEW p \in [Channels -> Nat], NEW g \in [Channels -> Nat],
         WorkerOrder(net, O, Z, X, p, g, w, st[w])
  PROVE  WorkerOrder(net, O, Z, X, p, g, w, InputEnded(w))
<1> DEFINE r == st[w]
           t == InputEnded(w)
           outs == Outs(w)
           in == In(w)
           kind == Kind(w)
<1>1. /\ Stage(net, w) /\ r \in States(net) /\ r.todo = <<>> /\ r.kept \in Seq(Nat)
      /\ r.next \in Nat /\ kind \in Kinds /\ kind # "source" /\ in \in Channels
      /\ kind = net.workers[w].kind /\ in = net.workers[w].in /\ outs = net.workers[w].outs
      /\ w \in DOMAIN net.workers
  BY Stages, StateTypes DEF Workers, WorkerShape, Stage, Kind, In, Outs, Channels
<1>2. EndedIs(w)
  BY <1>1, Ending
<1>3. /\ \A j \in DOMAIN outs : outs[j] \in Channels /\ p[outs[j]] \in Nat
      /\ g[in] \in Nat
  BY <1>1 DEF Stage, Channels
<1>a. SUFFICES WorkerOrder(net, O, Z, X, p, g, w, t)
  OBVIOUS
<1>4. CASE kind = "window" /\ r.kept # <<>>
  <2>1. IsState(net, t, "last", ToAll(w, Batch(r.kept)), r.next, r.pending, <<>>)
    BY <1>2, <1>4 DEF EndedIs
  <2>2. Batch(r.kept) \in Thing /\ Batch(r.kept).from = r.kept
    BY <1>1 DEF Batch, NoIndex, Thing
  <2>3. /\ DOMAIN ToAll(w, Batch(r.kept)) = DOMAIN outs
        /\ \A j \in DOMAIN outs : /\ ToAll(w, Batch(r.kept))[j].to = outs[j]
                                  /\ ToAll(w, Batch(r.kept))[j].item = Batch(r.kept)
    BY <1>4, <2>2, ToAllIs
  <2> HIDE DEF t, outs, in, kind
  <2>4. t.todo = ToAll(w, Batch(r.kept)) /\ t.kept = <<>> /\ t.at = "last"
    BY <2>1 DEF IsState
  <2>5. \A j \in DOMAIN outs : outs[j] \notin Z /\ outs[j] \notin X
    <3>1. \A j \in DOMAIN outs :
           /\ outs[j] \in Z => kind = "source" \/ kind \in {"pass", "limit"}
           /\ outs[j] \in X => kind = "enumerate" \/ kind \in {"pass", "limit"}
      BY <1>1, Zenon DEF IsArranged
    <3> QED BY <1>4, <3>1
  <2>6. \A i \in DOMAIN t.todo : Fit(Z, X, t.todo[i].to, t.todo[i].item)
    BY <2>3, <2>4, <2>5 DEF Fit
  <2>7. ASSUME NEW j \in DOMAIN outs, outs[j] \in O
        PROVE  p[outs[j]] < g[in] /\ r.kept = Span(p[outs[j]], g[in])
    <3>1. SendsInOrder(net, O, p, g, w, r)
      BY <1>1, <1>4 DEF WorkerOrder, HasEnded
    <3>2. p[outs[j]] <= g[in] /\ r.kept = Span(p[outs[j]], g[in])
      BY <1>1, <2>7, <3>1 DEF SendsInOrder
    <3>3. p[outs[j]] # g[in]
      BY <1>3, <1>4, <3>2, SpanOfNone
    <3> QED BY <1>3, <3>2, <3>3
  <2>8. \A i, j \in DOMAIN outs : outs[i] = outs[j] => i = j
    BY <1>1 DEF Stage
  <2>9. SendsInOrder(net, O, p, g, w, t)
    BY <1>1, <2>2, <2>3, <2>4, <2>7, <2>8 DEF SendsInOrder
  <2> QED BY <1>1, <1>4, <2>6, <2>9 DEF WorkerOrder
<1>5. CASE ~ (kind = "window" /\ r.kept # <<>>)
  <2>1. IsState(net, t, "done", r.todo, r.next, r.pending, r.kept)
    BY <1>2, <1>5 DEF EndedIs
  <2> HIDE DEF t, outs, in, kind
  <2>2. t.todo = <<>> /\ t.kept = r.kept /\ t.at = "done" /\ t.next = r.next /\ t.pending = r.pending
    BY <1>1, <2>1 DEF IsState
  <2>3. HasEnded(t)
    BY <2>2 DEF HasEnded
  <2> QED BY <2>2, <2>3 DEF WorkerOrder, CountsOn
<1> QED BY <1>4, <1>5, Zenon

(* A goroutine that gives up has nothing left to send out of order.        *)
LEMMA GivenUpOrder ==
  ASSUME NEW w, NEW r \in States(net), NEW O, NEW Z, NEW X, NEW p, NEW g,
         WorkerOrder(net, O, Z, X, p, g, w, r), NEW a \in {"done", "cut"}
  PROVE  WorkerOrder(net, O, Z, X, p, g, w, [r EXCEPT !.at = a, !.todo = <<>>])
<1> DEFINE t == [r EXCEPT !.at = a, !.todo = <<>>]
<1>1. IsState(net, t, a, <<>>, r.next, r.pending, r.kept)
  BY GivenUp
<1> HIDE DEF t
<1>2. t.todo = <<>> /\ t.kept = r.kept /\ HasEnded(t) /\ t.next = r.next /\ t.pending = r.pending
  BY <1>1 DEF IsState, HasEnded
<1>3. WorkerOrder(net, O, Z, X, p, g, w, t)
  BY <1>2 DEF WorkerOrder, CountsOn
<1> QED BY <1>3 DEF t

-----------------------------------------------------------------------------
(* Order: the steps keep it. *)

(* What holds of all goroutines and channels, whatever is on its way.      *)
Held(n, b, s) ==
  /\ n \in Nets /\ b \in [DOMAIN n.cap -> Seq(Thing)]
  /\ DOMAIN s = DOMAIN n.workers /\ \A w \in DOMAIN n.workers : WorkerShape(n, w, s[w])

(* The goroutine w puts the first item it has to send on its channel.      *)
Puts(w, b2, s2) ==
  LET c == Head(st[w].todo).to IN
  /\ Sending(w)
  /\ b2 = [buf EXCEPT ![c] = Append(@, Head(st[w].todo).item)]
  /\ s2 = [st EXCEPT ![w] = SentFirst(w)]

(* What a goroutine sends first is an item, for one of its channels.       *)
LEMMA FirstMsg ==
  ASSUME net \in Nets, NEW w \in Workers, WorkerShape(net, w, st[w]), Sending(w)
  PROVE  /\ Head(st[w].todo).to \in Channels /\ Head(st[w].todo).item \in Thing
         /\ Sends(net, w, Head(st[w].todo).to)
         /\ st[w].todo # <<>> /\ Head(st[w].todo) = st[w].todo[1] /\ 1 \in DOMAIN st[w].todo
<1>1. st[w].todo \in Msgs(net) /\ st[w].todo # <<>>
  BY StateTypes DEF WorkerShape, Sending
<1>2. Head(st[w].todo) = st[w].todo[1] /\ 1 \in DOMAIN st[w].todo
      /\ st[w].todo[1] \in [to : DOMAIN net.cap, item : Thing]
  <2> DEFINE M == [to : DOMAIN net.cap, item : Thing]
  <2>1. st[w].todo \in Seq(M)
    BY <1>1 DEF Msgs
  <2> HIDE DEF M
  <2>2. Head(st[w].todo) = st[w].todo[1] /\ 1 \in DOMAIN st[w].todo
    BY <1>1, <2>1
  <2>3. st[w].todo[1] \in M
    BY <2>1, <2>2, ElementOf, Zenon
  <2> QED BY <2>2, <2>3 DEF M
<1>3. Sends(net, w, Head(st[w].todo).to)
  BY <1>2 DEF WorkerShape, Sends
<1> QED BY <1>1, <1>2, <1>3 DEF Channels

(* A put keeps the shape of goroutines and channels.                       *)
LEMMA PutHeld ==
  ASSUME Held(net, buf, st), NEW w \in Workers, NEW b2, NEW s2, Puts(w, b2, s2)
  PROVE  Held(net, b2, s2)
<1> DEFINE c == Head(st[w].todo).to
           x == Head(st[w].todo).item
<1>1. net \in Nets /\ w \in DOMAIN net.workers /\ WorkerShape(net, w, st[w]) /\ Sending(w)
  BY DEF Held, Workers, Puts
<1>2. c \in DOMAIN net.cap /\ x \in Thing
  BY <1>1, FirstMsg DEF Channels
<1>3. WorkerShape(net, w, SentFirst(w))
  BY <1>1, SentShape
<1> HIDE DEF c, x
<1>4. b2 = [buf EXCEPT ![c] = Append(buf[c], x)] /\ s2 = [st EXCEPT ![w] = SentFirst(w)]
  BY DEF Puts, c, x
<1>5. Append(buf[c], x) \in Seq(Thing)
  <2>1. buf[c] \in Seq(Thing)
    BY <1>2 DEF Held
  <2> QED BY <1>2, <2>1, AppendIs
<1>6. b2 \in [DOMAIN net.cap -> Seq(Thing)]
  BY <1>4, <1>5 DEF Held
<1>7. DOMAIN s2 = DOMAIN net.workers /\ \A v \in DOMAIN net.workers : WorkerShape(net, v, s2[v])
  BY <1>1, <1>3, <1>4 DEF Held
<1> QED BY <1>1, <1>6, <1>7 DEF Held

(* A put keeps the order: its channel has one writer, or does not keep     *)
(* order.                                                                  *)
LEMMA PutOrder ==
  ASSUME Held(net, buf, st), OneRoute(net), NEW O \in SUBSET Channels, NEW Z, NEW X,
         NEW p, NEW g, InOrder(net, O, Z, X, p, g, buf, st),
         NEW w \in Workers, NEW b2, NEW s2, Puts(w, b2, s2)
  PROVE  \E p2 : InOrder(net, O, Z, X, p2, g, b2, s2)
<1> DEFINE c == Head(st[w].todo).to
           x == Head(st[w].todo).item
<1>1. net \in Nets /\ w \in DOMAIN net.workers /\ WorkerShape(net, w, st[w]) /\ Sending(w)
  BY DEF Held, Workers, Puts
<1>2. c \in Channels /\ x \in Thing /\ Sends(net, w, c)
  BY <1>1, FirstMsg
<1>3. /\ IsArranged(net, O, Z, X) /\ p \in [Channels -> Nat] /\ g \in [Channels -> Nat]
      /\ \A d \in Channels : ChannelOrder(O, Z, X, p, g, d, buf[d])
      /\ \A v \in DOMAIN net.workers : WorkerOrder(net, O, Z, X, p, g, v, st[v])
  BY DEF InOrder, Channels
<1>4. Fit(Z, X, c, x) /\ \E p2 \in [Channels -> Nat] :
        Follows(O, p, p2, c, x) /\ WorkerOrder(net, O, Z, X, p2, g, w, SentFirst(w))
  <2>1. WorkerOrder(net, O, Z, X, p, g, w, st[w])
    BY <1>1, <1>3
  <2> HIDE DEF c, x
  <2>2. c = Head(st[w].todo).to /\ x = Head(st[w].todo).item
    BY DEF c, x
  <2> QED BY <1>1, <1>3, <2>1, <2>2, SentOrder, Zenon
<1> HIDE DEF c, x
<1>5. PICK p2 \in [Channels -> Nat] :
        /\ \A d \in Channels : d # c => p2[d] = p[d]
        /\ c \notin O => p2[c] = p[c]
        /\ c \in O => p[c] < p2[c] /\ x.from = Span(p[c], p2[c])
        /\ WorkerOrder(net, O, Z, X, p2, g, w, SentFirst(w))
  BY <1>4 DEF Follows
<1>6. /\ b2 = [buf EXCEPT ![c] = Append(buf[c], x)] /\ s2 = [st EXCEPT ![w] = SentFirst(w)]
      /\ buf \in [Channels -> Seq(Thing)] /\ DOMAIN st = DOMAIN net.workers
  BY DEF Puts, c, x, Held, Channels
<1>7. ASSUME NEW d \in Channels PROVE ChannelOrder(O, Z, X, p2, g, d, b2[d])
  <2>1. CASE d # c
    <3>1. b2[d] = buf[d] /\ p2[d] = p[d]
      BY <1>5, <1>6, <2>1
    <3> QED BY <1>3, <3>1 DEF ChannelOrder
  <2>2. CASE d = c
    <3> DEFINE q == buf[c]
    <3>1. b2[c] = Append(q, x) /\ q \in Seq(Thing)
      BY <1>2, <1>6
    <3>2. ChannelOrder(O, Z, X, p, g, c, q)
      BY <1>2, <1>3
    <3> HIDE DEF q
    <3>3. \A i \in DOMAIN Append(q, x) : Fit(Z, X, c, Append(q, x)[i])
      <4>1. \A i \in DOMAIN q : Fit(Z, X, c, q[i])
        BY <3>2 DEF ChannelOrder
      <4>2. \A i \in DOMAIN Append(q, x) : Append(q, x)[i] = x \/ \E j \in DOMAIN q : Append(q, x)[i] = q[j]
        BY <1>2, <3>1
      <4> QED BY <1>4, <4>1, <4>2
    <3>4. c \in O => g[c] <= p2[c] /\ Carries(Append(q, x), g[c], p2[c])
      <4>1. SUFFICES ASSUME c \in O PROVE g[c] <= p2[c] /\ Carries(Append(q, x), g[c], p2[c])
        OBVIOUS
      <4>2. Carries(q, g[c], p[c]) /\ p[c] < p2[c] /\ x.from = Span(p[c], p2[c])
        BY <1>5, <3>2, <4>1 DEF ChannelOrder
      <4>3. g[c] \in Nat /\ p[c] \in Nat /\ p2[c] \in Nat
        BY <1>2, <1>3
      <4> QED BY <1>2, <3>1, <4>2, <4>3, CarriesAppend
    <3> QED BY <2>2, <3>1, <3>3, <3>4 DEF ChannelOrder
  <2> QED BY <2>1, <2>2
<1>8. ASSUME NEW v \in DOMAIN net.workers PROVE WorkerOrder(net, O, Z, X, p2, g, v, s2[v])
  <2>1. CASE v = w
    BY <1>5, <1>6, <2>1
  <2>2. CASE v # w
    <3>1. s2[v] = st[v] /\ WorkerShape(net, v, st[v]) /\ Stage(net, v)
      BY <1>1, <1>6, <2>2, Stages DEF Held
    <3>2. ASSUME NEW j \in DOMAIN net.workers[v].outs, net.workers[v].outs[j] \in O
          PROVE  p2[net.workers[v].outs[j]] = p[net.workers[v].outs[j]]
      <4>1. net.workers[v].outs[j] # c
        <5>1. Sends(net, v, net.workers[v].outs[j])
          BY DEF Sends
        <5> QED BY <1>1, <1>2, <1>3, <2>2, <3>2, <5>1, OneWriter
      <4> QED BY <1>5, <3>2, <4>1
    <3> QED BY <1>3, <3>1, <3>2, OrderFrame
  <2> QED BY <2>1, <2>2
<1> QED BY <1>3, <1>5, <1>7, <1>8 DEF InOrder, Channels

(* The goroutine w takes the first item of its channel.                    *)
Takes(w, b, s, b2, s2) ==
  /\ st[w].at = "recv" /\ s[w] = st[w]
  /\ b[In(w)] # <<>>
  /\ b2 = [b EXCEPT ![In(w)] = Tail(@)]
  /\ s2 = [s EXCEPT ![w] = Received(w, Head(b[In(w)]))]

(* A goroutine that receives has an input.                                 *)
LEMMA Input ==
  ASSUME net \in Nets, NEW w \in Workers, WorkerShape(net, w, st[w]), st[w].at = "recv"
  PROVE  In(w) \in Channels /\ Kind(w) # "source" /\ In(w) = net.workers[w].in
BY Stages DEF Workers, WorkerShape, Stage, Kind, In, Channels

(* A take keeps the shape of goroutines and channels.                      *)
LEMMA TakeHeld ==
  ASSUME NEW b, NEW s, Held(net, b, s), NEW w \in Workers, NEW b2, NEW s2, Takes(w, b, s, b2, s2)
  PROVE  Held(net, b2, s2)
<1> DEFINE c == In(w)
           x == Head(b[In(w)])
<1>1. net \in Nets /\ w \in DOMAIN net.workers /\ WorkerShape(net, w, st[w]) /\ st[w].at = "recv"
  BY DEF Held, Workers, Takes
<1>2. c \in DOMAIN net.cap
  BY <1>1, Input DEF Channels
<1>3. Tail(b[c]) \in Seq(Thing) /\ x \in Thing
  <2>1. b[c] \in Seq(Thing) /\ b[c] # <<>>
    BY <1>2 DEF Held, Takes
  <2> QED BY <2>1, TailIs
<1>4. WorkerShape(net, w, Received(w, x))
  BY <1>1, <1>3, ReceivedShape
<1> HIDE DEF c, x
<1>5. b2 = [b EXCEPT ![c] = Tail(b[c])] /\ s2 = [s EXCEPT ![w] = Received(w, x)]
  BY DEF Takes, c, x
<1>6. b2 \in [DOMAIN net.cap -> Seq(Thing)]
  BY <1>3, <1>5 DEF Held
<1>7. DOMAIN s2 = DOMAIN net.workers /\ \A v \in DOMAIN net.workers : WorkerShape(net, v, s2[v])
  BY <1>1, <1>4, <1>5 DEF Held
<1> QED BY <1>1, <1>6, <1>7 DEF Held

(* A take keeps the order: its channel has one reader, or the reader does  *)
(* not keep order.                                                         *)
LEMMA TakeOrder ==
  ASSUME NEW b, NEW s, Held(net, b, s), OneRoute(net), NEW O \in SUBSET Channels, NEW Z, NEW X,
         NEW p, NEW g, InOrder(net, O, Z, X, p, g, b, s),
         NEW w \in Workers, NEW b2, NEW s2, Takes(w, b, s, b2, s2)
  PROVE  \E g2 : InOrder(net, O, Z, X, p, g2, b2, s2)
<1> DEFINE c == In(w)
           x == Head(b[In(w)])
           q == b[c]
<1>1. net \in Nets /\ w \in DOMAIN net.workers /\ WorkerShape(net, w, st[w]) /\ st[w].at = "recv"
  BY DEF Held, Workers, Takes
<1>2. c \in Channels /\ c = net.workers[w].in
  BY <1>1, Input
<1>3. /\ IsArranged(net, O, Z, X) /\ p \in [Channels -> Nat] /\ g \in [Channels -> Nat]
      /\ \A d \in Channels : ChannelOrder(O, Z, X, p, g, d, b[d])
      /\ \A v \in DOMAIN net.workers : WorkerOrder(net, O, Z, X, p, g, v, s[v])
  BY DEF InOrder, Channels
<1>4. q \in Seq(Thing) /\ q # <<>>
  BY <1>2 DEF Held, Takes, Channels
<1>5. Tail(q) \in Seq(Thing) /\ x \in Thing /\ x = q[1] /\ 1 \in DOMAIN q
  BY <1>4
<1>6. ChannelOrder(O, Z, X, p, g, c, q)
  BY <1>2, <1>3
<1>7. Fit(Z, X, c, x)
  BY <1>5, <1>6 DEF ChannelOrder
<1>8. PICK g2 \in [Channels -> Nat] : /\ Follows(O, g, g2, c, x)
                                      /\ c \in O => g2[c] <= p[c] /\ Carries(Tail(q), g2[c], p[c])
  <2>1. CASE c \in O
    <3>1. g[c] \in Nat /\ p[c] \in Nat /\ Carries(q, g[c], p[c])
      BY <1>2, <1>3, <1>6, <2>1 DEF ChannelOrder
    <3>2. PICK mid \in Nat : /\ g[c] < mid /\ mid <= p[c]
                             /\ x.from = Span(g[c], mid) /\ Carries(Tail(q), mid, p[c])
      BY <1>4, <3>1, CarriesTail
    <3> DEFINE h == [g EXCEPT ![c] = mid]
    <3>3. h \in [Channels -> Nat] /\ h[c] = mid /\ \A d \in Channels : d # c => h[d] = g[d]
      BY <1>2, <1>3
    <3> HIDE DEF h
    <3> QED BY <2>1, <3>2, <3>3 DEF Follows
  <2>2. CASE c \notin O
    BY <1>3, <2>2 DEF Follows
  <2> QED BY <2>1, <2>2
<1>9. WorkerOrder(net, O, Z, X, p, g2, w, Received(w, x))
  <2>1. WorkerOrder(net, O, Z, X, p, g, w, st[w])
    BY <1>1, <1>3 DEF Takes
  <2> QED BY <1>1, <1>3, <1>5, <1>7, <1>8, <2>1, ReceivedOrder
<1> HIDE DEF c, x, q
<1>10. /\ b2 = [b EXCEPT ![c] = Tail(q)] /\ s2 = [s EXCEPT ![w] = Received(w, x)]
       /\ b \in [Channels -> Seq(Thing)] /\ DOMAIN s = DOMAIN net.workers
  BY DEF Takes, c, x, q, Held, Channels
<1>11. ASSUME NEW d \in Channels PROVE ChannelOrder(O, Z, X, p, g2, d, b2[d])
  <2>1. CASE d # c
    <3>1. b2[d] = b[d] /\ g2[d] = g[d]
      BY <1>8, <1>10, <2>1 DEF Follows
    <3> QED BY <1>3, <3>1 DEF ChannelOrder
  <2>2. CASE d = c
    <3>1. b2[c] = Tail(q)
      BY <1>2, <1>10
    <3>2. \A i \in DOMAIN Tail(q) : Fit(Z, X, c, Tail(q)[i])
      <4>1. \A i \in DOMAIN q : Fit(Z, X, c, q[i])
        BY <1>6 DEF ChannelOrder
      <4>2. \A i \in DOMAIN Tail(q) : \E j \in DOMAIN q : Tail(q)[i] = q[j]
        BY <1>4
      <4> QED BY <4>1, <4>2
    <3> QED BY <1>8, <2>2, <3>1, <3>2 DEF ChannelOrder
  <2> QED BY <2>1, <2>2
<1>12. ASSUME NEW v \in DOMAIN net.workers PROVE WorkerOrder(net, O, Z, X, p, g2, v, s2[v])
  <2>1. CASE v = w
    BY <1>9, <1>10, <2>1
  <2>2. CASE v # w
    <3>1. s2[v] = s[v] /\ WorkerShape(net, v, s[v]) /\ Stage(net, v)
      BY <1>1, <1>10, <2>2, Stages DEF Held
    <3>2. CASE net.workers[v].in # c
      <4>1. net.workers[v].in \in O => g2[net.workers[v].in] = g[net.workers[v].in]
        BY <1>8, <3>2 DEF Follows
      <4> QED BY <1>3, <3>1, <4>1, OrderFrame
    <3>3. CASE net.workers[v].in = c
      <4>1. /\ net.workers[v].kind = "pass"
            /\ \A j \in DOMAIN net.workers[v].outs : net.workers[v].outs[j] \notin O
        BY <1>1, <1>2, <1>3, <2>2, <3>3, Shared
      <4>2. \A i \in DOMAIN s[v].todo : s[v].todo[i].to \notin O
        BY <3>1, <4>1 DEF WorkerShape
      <4>3. SendsInOrder(net, O, p, g, v, s[v]) => SendsInOrder(net, O, p, g2, v, s[v])
        BY <4>1, <4>2 DEF SendsInOrder
      <4>4. WorkerOrder(net, O, Z, X, p, g, v, s[v])
        BY <1>3
      <4> QED BY <3>1, <4>1, <4>3, <4>4 DEF WorkerOrder
    <3> QED BY <3>2, <3>3
  <2> QED BY <2>1, <2>2
<1> QED BY <1>3, <1>8, <1>11, <1>12 DEF InOrder, Channels

-----------------------------------------------------------------------------
(* Each step in terms of these. *)

ShapeNow == Shape(net, buf, st, closed, ctxDone)

(* The shape of the state, by its parts.                                   *)
LEMMA HeldNow ==
  ASSUME ShapeNow
  PROVE  /\ Held(net, buf, st) /\ net \in Nets /\ buf \in [Channels -> Seq(Thing)]
         /\ DOMAIN st = Workers /\ \A w \in Workers : WorkerShape(net, w, st[w])
BY DEF ShapeNow, Shape, Held, Channels, Workers

(* Put puts an item on a channel and leaves the rest.                      *)
LEMMA PutIs ==
  ASSUME NEW w \in Workers, Put(w)
  PROVE  Puts(w, buf', st') /\ UNCHANGED <<net, ctxDone, closed>>
BY DEF Put, Puts

(* Take takes an item from a channel and leaves the rest.                  *)
LEMMA TakeIs ==
  ASSUME NEW w \in Workers, Take(w)
  PROVE  Takes(w, buf, st, buf', st') /\ UNCHANGED <<net, ctxDone, closed>>
BY DEF Take, Takes

(* To meet is to put an item on an empty channel and to take it at once.   *)
LEMMA MeetIs ==
  ASSUME ShapeNow, NEW w \in Workers, NEW r \in Workers, Meet(w, r)
  PROVE  \E b, s : Puts(w, b, s) /\ Takes(r, b, s, buf', st')
<1> DEFINE c == In(r)
           x == Head(st[w].todo).item
           b == [buf EXCEPT ![c] = Append(@, x)]
           s == [st EXCEPT ![w] = SentFirst(w)]
<1>1. /\ Sending(w) /\ st[r].at = "recv" /\ Head(st[w].todo).to = c /\ net.cap[c] = 0
      /\ st' = [st EXCEPT ![w] = SentFirst(w), ![r] = Received(r, x)] /\ buf' = buf
  BY DEF Meet
<1>2. WorkerShape(net, w, st[w]) /\ net \in Nets /\ DOMAIN st = Workers
      /\ buf \in [Channels -> Seq(Thing)]
  BY HeldNow
<1>3. c \in Channels /\ x \in Thing
  BY <1>1, <1>2, FirstMsg
<1>4. buf[c] = <<>>
  <2>1. buf[c] \in Seq(Thing)
    BY <1>2, <1>3
  <2>2. Len(buf[c]) <= 0
    BY <1>1, <1>3 DEF ShapeNow, Shape, Channels
  <2> QED BY <2>1, <2>2
<1>5. w # r
  BY <1>1 DEF Sending
<1>6. Append(<<>>, x) = <<x>> /\ Tail(<<x>>) = <<>> /\ Head(<<x>>) = x /\ <<x>> # <<>>
  BY <1>3
<1>7. b[c] = <<x>>
  BY <1>2, <1>3, <1>4, <1>6
<1>8. Puts(w, b, s)
  BY <1>1 DEF Puts
<1>9. [b EXCEPT ![c] = Tail(@)] = buf
  <2>1. [b EXCEPT ![c] = Tail(@)] = [b EXCEPT ![c] = buf[c]]
    BY <1>4, <1>6, <1>7
  <2> QED BY <1>2, <1>3, <2>1
<1>10. s[r] = st[r] /\ st' = [s EXCEPT ![r] = Received(r, x)]
  BY <1>1, <1>2, <1>5
<1> HIDE DEF b, s
<1>11. Takes(r, b, s, buf', st')
  BY <1>1, <1>6, <1>7, <1>9, <1>10 DEF Takes
<1> QED BY <1>8, <1>11

(* A step of w alone: it sees the end of its input or gives up sending.    *)
Leaves(w, t) ==
  \/ SeeClosed(w) /\ t = InputEnded(w)
  \/ SeeCtxDone(w) /\ t = [st[w] EXCEPT !.at = "done", !.todo = <<>>]
  \/ LimiterRefuses(w) /\ t = [st[w] EXCEPT !.at = "cut", !.todo = <<>>]

(* The steps of a goroutine alone.                                         *)
LEMMA LeavesIs ==
  ASSUME NEW w \in Workers, SeeClosed(w) \/ SeeCtxDone(w) \/ LimiterRefuses(w)
  PROVE  /\ \E t : Leaves(w, t) /\ st' = [st EXCEPT ![w] = t]
         /\ UNCHANGED <<net, ctxDone, buf, closed>>
<1>1. CASE SeeClosed(w)
  BY <1>1 DEF Leaves, SeeClosed
<1>2. CASE SeeCtxDone(w)
  <2>1. st' = [st EXCEPT ![w] = [st[w] EXCEPT !.at = "done", !.todo = <<>>]]
    BY <1>2 DEF SeeCtxDone
  <2>2. Leaves(w, [st[w] EXCEPT !.at = "done", !.todo = <<>>])
    BY <1>2, Zenon DEF Leaves
  <2>3. UNCHANGED <<net, ctxDone, buf, closed>>
    BY <1>2 DEF SeeCtxDone
  <2> QED BY <2>1, <2>2, <2>3, Zenon
<1>3. CASE LimiterRefuses(w)
  <2>1. st' = [st EXCEPT ![w] = [st[w] EXCEPT !.at = "cut", !.todo = <<>>]]
    BY <1>3 DEF LimiterRefuses
  <2>2. Leaves(w, [st[w] EXCEPT !.at = "cut", !.todo = <<>>])
    BY <1>3, Zenon DEF Leaves
  <2>3. UNCHANGED <<net, ctxDone, buf, closed>>
    BY <1>3 DEF LimiterRefuses
  <2> QED BY <2>1, <2>2, <2>3, Zenon
<1> QED BY <1>1, <1>2, <1>3, Zenon

(* A goroutine that leaves keeps its shape.                                *)
LEMMA LeavesShape ==
  ASSUME ShapeNow, NEW w \in Workers, NEW t, Leaves(w, t)
  PROVE  WorkerShape(net, w, t)
<1>1. net \in Nets /\ WorkerShape(net, w, st[w])
  BY HeldNow
<1>2. CASE SeeClosed(w) /\ t = InputEnded(w)
  BY <1>1, <1>2, EndingShape DEF SeeClosed
<1>3. CASE SeeCtxDone(w) /\ t = [st[w] EXCEPT !.at = "done", !.todo = <<>>]
  BY <1>1, <1>3, GivenUpShape DEF SeeCtxDone
<1>4. CASE LimiterRefuses(w) /\ t = [st[w] EXCEPT !.at = "cut", !.todo = <<>>]
  BY <1>1, <1>4, GivenUpShape DEF LimiterRefuses
<1> QED BY <1>2, <1>3, <1>4, Zenon DEF Leaves

(* Every step keeps the shape.                                             *)
LEMMA Steps ==
  ASSUME [Next]_vars
  PROVE  \/ \E w, r \in Workers : Meet(w, r)
         \/ \E w \in Workers : Put(w)
         \/ \E w \in Workers : Take(w)
         \/ \E w \in Workers : SeeClosed(w) \/ SeeCtxDone(w) \/ LimiterRefuses(w)
         \/ \E c \in Channels : Close(c)
         \/ Cancel
         \/ UNCHANGED vars
BY Zenon DEF Next, Step

(* A channel that holds no more than its capacity leaves all within        *)
(* theirs.                                                                 *)
LEMMA CapKept ==
  ASSUME NEW n, n.cap \in Seq(Nat), NEW b \in [DOMAIN n.cap -> Seq(Thing)],
         \A d \in DOMAIN n.cap : Len(b[d]) <= n.cap[d],
         NEW c \in DOMAIN n.cap, NEW q \in Seq(Thing), Len(q) <= n.cap[c]
  PROVE  \A d \in DOMAIN n.cap : Len([b EXCEPT ![c] = q][d]) <= n.cap[d]
<1>1. ASSUME NEW d \in DOMAIN n.cap PROVE Len([b EXCEPT ![c] = q][d]) <= n.cap[d]
  <2>1. CASE d = c
    <3>1. [b EXCEPT ![c] = q][d] = q
      BY <2>1
    <3> QED BY <2>1, <3>1
  <2>2. CASE d # c
    <3>1. [b EXCEPT ![c] = q][d] = b[d]
      BY <2>2
    <3> QED BY <3>1
  <2> QED BY <2>1, <2>2
<1> QED BY <1>1

(* The shape of the next state, by its parts.                              *)
LEMMA ShapeFrom ==
  ASSUME ShapeNow, net' = net, ctxDone' \in BOOLEAN, closed' \subseteq Channels,
         Held(net, buf', st'), \A d \in DOMAIN net.cap : Len(buf'[d]) <= net.cap[d]
  PROVE  ShapeNow'
BY DEF ShapeNow, Shape, Held, Channels

(* Every step keeps the shape.                                             *)
LEMMA ShapeStep ==
  ASSUME ShapeNow, [Next]_vars
  PROVE  ShapeNow'
<1>0. /\ Held(net, buf, st) /\ net \in Nets /\ buf \in [Channels -> Seq(Thing)]
      /\ DOMAIN st = Workers /\ \A w \in Workers : WorkerShape(net, w, st[w])
  BY HeldNow
<1>1. ctxDone \in BOOLEAN /\ closed \subseteq Channels /\ net.cap \in Seq(Nat)
      /\ \A d \in DOMAIN net.cap : Len(buf[d]) <= net.cap[d]
  BY <1>0, NetsAssumption DEF ShapeNow, Shape, Channels, IsNetwork
<1>2. CASE \E w, r \in Workers : Meet(w, r)
  <2>1. PICK w \in Workers, r \in Workers : Meet(w, r)
    BY <1>2
  <2>2. PICK b, s : Puts(w, b, s) /\ Takes(r, b, s, buf', st')
    BY <2>1, MeetIs
  <2>3. Held(net, buf', st')
    BY <1>0, <2>2, PutHeld, TakeHeld
  <2>4. UNCHANGED <<net, ctxDone, buf, closed>>
    BY <2>1 DEF Meet
  <2> QED BY <1>1, <2>3, <2>4, ShapeFrom
<1>3. CASE \E w \in Workers : Put(w)
  <2>1. PICK w \in Workers : Put(w)
    BY <1>3
  <2>2. Puts(w, buf', st') /\ UNCHANGED <<net, ctxDone, closed>>
    BY <2>1, PutIs
  <2>3. Held(net, buf', st')
    BY <1>0, <2>2, PutHeld
  <2> DEFINE c == Head(st[w].todo).to
             x == Head(st[w].todo).item
  <2>4. c \in Channels /\ x \in Thing
    BY <1>0, <2>1, FirstMsg DEF Put
  <2>5. Len(buf[c]) < net.cap[c] /\ buf' = [buf EXCEPT ![c] = Append(buf[c], x)]
    BY <2>1 DEF Put
  <2> HIDE DEF c, x
  <2>6. Append(buf[c], x) \in Seq(Thing) /\ Len(Append(buf[c], x)) = Len(buf[c]) + 1
        /\ buf[c] \in Seq(Thing)
    BY <1>0, <2>4, AppendIs
  <2>7. Len(Append(buf[c], x)) <= net.cap[c]
    <3>1. Len(buf[c]) \in Nat /\ net.cap[c] \in Nat
      BY <1>1, <2>4, <2>6, ElementOf DEF Channels
    <3> QED BY <2>5, <2>6, <3>1
  <2>8. \A d \in DOMAIN net.cap : Len(buf'[d]) <= net.cap[d]
    BY <1>0, <1>1, <2>4, <2>5, <2>6, <2>7, CapKept DEF Channels
  <2> QED BY <1>1, <2>2, <2>3, <2>8, ShapeFrom
<1>4. CASE \E w \in Workers : Take(w)
  <2>1. PICK w \in Workers : Take(w)
    BY <1>4
  <2>2. Takes(w, buf, st, buf', st') /\ UNCHANGED <<net, ctxDone, closed>>
    BY <2>1, TakeIs
  <2>3. Held(net, buf', st')
    BY <1>0, <2>2, TakeHeld
  <2> DEFINE c == In(w)
  <2>4. c \in Channels
    BY <1>0, <2>1, Input DEF Take
  <2>5. buf[c] # <<>> /\ buf' = [buf EXCEPT ![c] = Tail(buf[c])]
    BY <2>1 DEF Take
  <2> HIDE DEF c
  <2>6. Tail(buf[c]) \in Seq(Thing) /\ Len(buf[c]) = Len(Tail(buf[c])) + 1
        /\ buf[c] \in Seq(Thing)
    BY <1>0, <2>4, <2>5, TailIs
  <2>7. Len(Tail(buf[c])) <= net.cap[c]
    <3>1. Len(buf[c]) \in Nat /\ Len(Tail(buf[c])) \in Nat /\ net.cap[c] \in Nat
          /\ Len(buf[c]) <= net.cap[c]
      BY <1>1, <2>4, <2>6, ElementOf DEF Channels
    <3> QED BY <2>6, <3>1
  <2>8. \A d \in DOMAIN net.cap : Len(buf'[d]) <= net.cap[d]
    BY <1>0, <1>1, <2>4, <2>5, <2>6, <2>7, CapKept DEF Channels
  <2> QED BY <1>1, <2>2, <2>3, <2>8, ShapeFrom
<1>5. CASE \E w \in Workers : SeeClosed(w) \/ SeeCtxDone(w) \/ LimiterRefuses(w)
  <2>1. PICK w \in Workers : SeeClosed(w) \/ SeeCtxDone(w) \/ LimiterRefuses(w)
    BY <1>5
  <2>2. PICK t : Leaves(w, t) /\ st' = [st EXCEPT ![w] = t]
    BY <2>1, LeavesIs, Zenon
  <2>3. UNCHANGED <<net, ctxDone, buf, closed>>
    BY <2>1, LeavesIs, Zenon
  <2>4. WorkerShape(net, w, t)
    BY <2>2, LeavesShape
  <2>5. Held(net, buf', st')
    BY <1>0, <2>2, <2>3, <2>4 DEF Held, Workers
  <2> QED BY <1>1, <2>3, <2>5, ShapeFrom
<1>6. CASE \E c \in Channels : Close(c)
  <2>1. PICK c \in Channels : Close(c)
    BY <1>6
  <2>2. closed' = closed \cup {c} /\ UNCHANGED <<net, ctxDone, buf, st>>
    BY <2>1 DEF Close
  <2>3. closed' \subseteq Channels /\ ctxDone' \in BOOLEAN /\ net' = net
    BY <1>1, <2>2
  <2>4. Held(net, buf', st') /\ \A d \in DOMAIN net.cap : Len(buf'[d]) <= net.cap[d]
    BY <1>0, <1>1, <2>2, Zenon
  <2> QED BY <2>3, <2>4, ShapeFrom
<1>7. CASE Cancel
  <2>1. ctxDone' = TRUE /\ UNCHANGED <<net, buf, closed, st>>
    BY <1>7 DEF Cancel
  <2>2. closed' \subseteq Channels /\ ctxDone' \in BOOLEAN /\ net' = net
    BY <1>1, <2>1
  <2>3. Held(net, buf', st') /\ \A d \in DOMAIN net.cap : Len(buf'[d]) <= net.cap[d]
    BY <1>0, <1>1, <2>1, Zenon
  <2> QED BY <2>2, <2>3, ShapeFrom
<1>8. CASE UNCHANGED vars
  BY <1>8 DEF vars, ShapeNow
<1> QED BY Steps, <1>2, <1>3, <1>4, <1>5, <1>6, <1>7, <1>8, Zenon

-----------------------------------------------------------------------------
(* Order is kept by every step, and holds at the start. *)

(* A step of one goroutine that keeps its own order keeps the order.       *)
LEMMA StopOrder ==
  ASSUME Held(net, buf, st), NEW O, NEW Z, NEW X, NEW p, NEW g,
         InOrder(net, O, Z, X, p, g, buf, st), NEW w \in Workers, NEW t,
         WorkerOrder(net, O, Z, X, p, g, w, t)
  PROVE  InOrder(net, O, Z, X, p, g, buf, [st EXCEPT ![w] = t])
<1> DEFINE s == [st EXCEPT ![w] = t]
<1>1. \A v \in DOMAIN net.workers : s[v] = st[v] \/ (v = w /\ s[v] = t)
  BY DEF Held
<1> HIDE DEF s
<1>2. \A v \in DOMAIN net.workers : WorkerOrder(net, O, Z, X, p, g, v, s[v])
  BY <1>1 DEF InOrder
<1>3. InOrder(net, O, Z, X, p, g, buf, s)
  BY <1>2 DEF InOrder
<1> QED BY <1>3 DEF s

(* A goroutine that leaves has nothing to send out of order.               *)
LEMMA LeavesOrder ==
  ASSUME ShapeNow, NEW O \in SUBSET Channels, NEW Z, NEW X,
         NEW p, NEW g, InOrder(net, O, Z, X, p, g, buf, st),
         NEW w \in Workers, NEW t, Leaves(w, t)
  PROVE  WorkerOrder(net, O, Z, X, p, g, w, t)
<1>1. net \in Nets /\ WorkerShape(net, w, st[w]) /\ st[w] \in States(net)
  BY HeldNow DEF WorkerShape
<1>2. /\ WorkerOrder(net, O, Z, X, p, g, w, st[w]) /\ IsArranged(net, O, Z, X)
      /\ p \in [Channels -> Nat] /\ g \in [Channels -> Nat]
  BY DEF InOrder, Channels, Workers
<1>3. CASE SeeClosed(w) /\ t = InputEnded(w)
  <2>1. st[w].at = "recv"
    BY <1>3 DEF SeeClosed
  <2>2. WorkerOrder(net, O, Z, X, p, g, w, InputEnded(w))
    BY <1>1, <1>2, <2>1, EndingOrder
  <2> QED BY <1>3, <2>2
<1>4. CASE SeeCtxDone(w) /\ t = [st[w] EXCEPT !.at = "done", !.todo = <<>>]
  BY <1>1, <1>2, <1>4, GivenUpOrder
<1>5. CASE LimiterRefuses(w) /\ t = [st[w] EXCEPT !.at = "cut", !.todo = <<>>]
  BY <1>1, <1>2, <1>5, GivenUpOrder
<1> QED BY <1>3, <1>4, <1>5, Zenon DEF Leaves

(* The order holds for some positions of the channels.                     *)
LEMMA OrderIs ==
  ASSUME NEW n, NEW b, NEW s, NEW O \in SUBSET DOMAIN n.cap, NEW Z \in SUBSET DOMAIN n.cap,
         NEW X \in SUBSET DOMAIN n.cap, NEW p, NEW g, InOrder(n, O, Z, X, p, g, b, s)
  PROVE  Order(n, b, s)
BY DEF Order, InOrder

(* Every step of a network with one route keeps the order.                 *)
LEMMA OrderStep ==
  ASSUME ShapeNow, OneRoute(net), Order(net, buf, st), [Next]_vars
  PROVE  Order(net', buf', st')
<1>0. Held(net, buf, st) /\ net \in Nets
  BY HeldNow
<1>1. PICK O, Z, X \in SUBSET DOMAIN net.cap :
        \E p, g \in [DOMAIN net.cap -> Nat] : InOrder(net, O, Z, X, p, g, buf, st)
  BY DEF Order
<1>2. PICK p, g \in [DOMAIN net.cap -> Nat] : InOrder(net, O, Z, X, p, g, buf, st)
  BY <1>1
<1>3. O \in SUBSET Channels
  BY DEF Channels
<1>4. CASE \E w, r \in Workers : Meet(w, r)
  <2>1. PICK w \in Workers, r \in Workers : Meet(w, r)
    BY <1>4
  <2>2. PICK b, s : Puts(w, b, s) /\ Takes(r, b, s, buf', st')
    BY <2>1, MeetIs
  <2>3. PICK p2 : InOrder(net, O, Z, X, p2, g, b, s)
    BY <1>0, <1>2, <1>3, <2>2, PutOrder
  <2>4. Held(net, b, s)
    BY <1>0, <2>2, PutHeld
  <2>5. PICK g2 : InOrder(net, O, Z, X, p2, g2, buf', st')
    BY <1>0, <1>3, <2>2, <2>3, <2>4, TakeOrder
  <2>6. net' = net
    BY <2>1 DEF Meet
  <2> QED BY <2>5, <2>6, OrderIs
<1>5. CASE \E w \in Workers : Put(w)
  <2>1. PICK w \in Workers : Put(w)
    BY <1>5
  <2>2. Puts(w, buf', st') /\ net' = net
    BY <2>1, PutIs
  <2>3. PICK p2 : InOrder(net, O, Z, X, p2, g, buf', st')
    BY <1>0, <1>2, <1>3, <2>2, PutOrder
  <2> QED BY <2>2, <2>3, OrderIs
<1>6. CASE \E w \in Workers : Take(w)
  <2>1. PICK w \in Workers : Take(w)
    BY <1>6
  <2>2. Takes(w, buf, st, buf', st') /\ net' = net
    BY <2>1, TakeIs
  <2>3. PICK g2 : InOrder(net, O, Z, X, p, g2, buf', st')
    BY <1>0, <1>2, <1>3, <2>2, TakeOrder
  <2> QED BY <2>2, <2>3, OrderIs
<1>7. CASE \E w \in Workers : SeeClosed(w) \/ SeeCtxDone(w) \/ LimiterRefuses(w)
  <2>1. PICK w \in Workers : SeeClosed(w) \/ SeeCtxDone(w) \/ LimiterRefuses(w)
    BY <1>7
  <2>2. PICK t : Leaves(w, t) /\ st' = [st EXCEPT ![w] = t]
    BY <2>1, LeavesIs, Zenon
  <2>3. UNCHANGED <<net, ctxDone, buf, closed>>
    BY <2>1, LeavesIs, Zenon
  <2>4. WorkerOrder(net, O, Z, X, p, g, w, t)
    BY <1>2, <1>3, <2>2, LeavesOrder
  <2>5. InOrder(net, O, Z, X, p, g, buf', st')
    BY <1>0, <1>2, <2>2, <2>3, <2>4, StopOrder
  <2> QED BY <2>3, <2>5, OrderIs
<1>8. CASE \E c \in Channels : Close(c)
  BY <1>8 DEF Close
<1>9. CASE Cancel
  BY <1>9 DEF Cancel
<1>10. CASE UNCHANGED vars
  BY <1>10 DEF vars
<1> QED BY Steps, <1>4, <1>5, <1>6, <1>7, <1>8, <1>9, <1>10, Zenon

(* The start of a goroutine: a source has all its items to send.           *)
StartsAs(w, r) ==
  /\ r.next = 0 /\ r.pending = {} /\ r.kept = <<>> /\ r.next \in Nat
  /\ IF Kind(w) = "source"
     THEN /\ r.at = (IF N(w) > 0 THEN "last" ELSE "done")
          /\ DOMAIN r.todo = 1..N(w) /\ Len(r.todo) = N(w)
          /\ \A k \in 1..N(w) : r.todo[k].to = Outs(w)[1] /\ r.todo[k].item = Item(k)
     ELSE r.at = "recv" /\ r.todo = <<>>

(* At the start a source has its items to send, and every other goroutine  *)
(* receives.                                                               *)
LEMMA Starts ==
  ASSUME Init, NEW w \in Workers
  PROVE  WorkerShape(net, w, st[w]) /\ StartsAs(w, st[w])
<1> DEFINE r == st[w]
<1>1. /\ Stage(net, w) /\ Kind(w) = net.workers[w].kind /\ Outs(w) = net.workers[w].outs
      /\ N(w) \in Nat
  BY Stages DEF Init, Workers, Stage, Kind, Outs, N
<1>2. r = [at |-> IF Kind(w) # "source" THEN "recv" ELSE IF N(w) > 0 THEN "last" ELSE "done",
           todo |-> IF Kind(w) = "source"
                    THEN [k \in 1..N(w) |-> [to |-> Outs(w)[1], item |-> Item(k)]] ELSE <<>>,
           next |-> 0, pending |-> {}, kept |-> <<>>]
  BY DEF Init
<1> HIDE DEF r
<1>3. r.next = 0 /\ r.pending = {} /\ r.kept = <<>> /\ r.next \in Nat
  BY <1>2
<1>4. CASE Kind(w) = "source"
  <2>1. Outs(w) # <<>> /\ Len(Outs(w)) <= 1 /\ Outs(w) \in Seq(Channels)
    BY <1>1, <1>4 DEF Stage, Channels
  <2>2. 1 \in DOMAIN Outs(w) /\ Outs(w)[1] \in Channels
    BY <2>1, OnlyOne, Zenon
  <2> DEFINE M == [to : DOMAIN net.cap, item : Thing]
  <2>3. r.todo = [k \in 1..N(w) |-> [to |-> Outs(w)[1], item |-> Item(k)]]
        /\ r.at = (IF N(w) > 0 THEN "last" ELSE "done")
    BY <1>2, <1>4
  <2>4. ASSUME NEW k \in 1..N(w)
        PROVE  /\ r.todo[k] \in M /\ r.todo[k].to = Outs(w)[1] /\ r.todo[k].item = Item(k)
    <3>1. k \in Nat
      BY <1>1
    <3>2. Item(k) \in Thing
      BY <3>1 DEF Item, NoIndex, Thing
    <3> HIDE DEF Thing
    <3> QED BY <2>2, <2>3, <3>2 DEF Channels
  <2>5. r.todo \in [1..N(w) -> M]
    BY <2>3, <2>4
  <2> HIDE DEF M
  <2>6. r.todo \in Seq(M) /\ Len(r.todo) = N(w) /\ DOMAIN r.todo = 1..N(w)
    BY <1>1, <2>5, Listed
  <2>7. r.todo \in Msgs(net)
    BY <2>6 DEF Msgs, M
  <2>8. r.at \in {"send", "last"} <=> r.todo # <<>>
    <3>1. N(w) > 0 => 1 \in DOMAIN r.todo
      BY <1>1, <2>6
    <3>2. N(w) > 0 => r.todo # <<>>
      BY <3>1
    <3>3. ~ (N(w) > 0) => DOMAIN r.todo = {}
      BY <1>1, <2>6
    <3>4. r.todo = <<>> \/ 1 \in DOMAIN r.todo
      BY <2>6
    <3>5. ~ (N(w) > 0) => r.todo = <<>>
      BY <3>3, <3>4, Zenon
    <3> QED BY <2>3, <3>2, <3>5
  <2>9. IsState(net, r, r.at, r.todo, r.next, r.pending, r.kept)
    <3>1. r.at \in {"recv", "send", "last", "done", "cut"} /\ r.kept \in Seq(Nat)
          /\ r.pending \in SUBSET Thing
      BY <1>3, <2>3
    <3>2. r = [at |-> r.at, todo |-> r.todo, next |-> r.next, pending |-> r.pending, kept |-> r.kept]
      BY <1>2
    <3>3. r \in States(net)
      BY <1>3, <2>7, <3>1, <3>2 DEF States, Msgs
    <3> QED BY <3>3 DEF IsState
  <2>10. IsFiniteSet(r.pending)
    BY <1>3, FS_EmptySet
  <2>11. \A j \in DOMAIN r.todo : \E l \in DOMAIN net.workers[w].outs : net.workers[w].outs[l] = r.todo[j].to
    BY <1>1, <2>2, <2>4, <2>6
  <2>12. WorkerShape(net, w, r)
    BY <1>1, <1>3, <1>4, <2>3, <2>8, <2>9, <2>10, <2>11 DEF WorkerShape, IsState
  <2>13. StartsAs(w, r)
    BY <1>3, <1>4, <2>3, <2>4, <2>6 DEF StartsAs
  <2> QED BY <2>12, <2>13 DEF r
<1>5. CASE Kind(w) # "source"
  <2>1. r.at = "recv" /\ r.todo = <<>>
    BY <1>2, <1>5
  <2>2. r \in States(net)
    <3>1. r = [at |-> "recv", todo |-> <<>>, next |-> 0, pending |-> {}, kept |-> <<>>]
      BY <1>2, <1>5
    <3>2. <<>> \in Msgs(net) /\ <<>> \in Seq(Nat) /\ {} \in SUBSET Thing
      BY DEF Msgs
    <3> QED BY <3>1, <3>2 DEF States, Msgs
  <2>3. IsFiniteSet(r.pending)
    BY <1>3, FS_EmptySet
  <2>4. WorkerShape(net, w, r)
    BY <1>1, <1>3, <1>5, <2>1, <2>2, <2>3 DEF WorkerShape
  <2>5. StartsAs(w, r)
    BY <1>3, <1>5, <2>1 DEF StartsAs
  <2> QED BY <2>4, <2>5 DEF r
<1> QED BY <1>4, <1>5, Zenon

(* The shape holds at the start.                                           *)
LEMMA ShapeInit == Init => ShapeNow
<1> SUFFICES ASSUME Init PROVE ShapeNow
  OBVIOUS
<1>1. net \in Nets /\ ctxDone \in BOOLEAN /\ closed \subseteq Channels
  BY DEF Init
<1>2. buf \in [Channels -> Seq(Thing)] /\ \A c \in Channels : Len(buf[c]) <= net.cap[c]
  <2>1. buf = [c \in Channels |-> <<>>]
    BY DEF Init
  <2>2. net.cap \in Seq(Nat)
    BY <1>1, NetsAssumption DEF IsNetwork
  <2>3. \A c \in Channels : net.cap[c] \in Nat
    BY <2>2, ElementOf DEF Channels
  <2> QED BY <2>1, <2>3
<1>3. DOMAIN st = Workers
  BY DEF Init
<1>4. \A w \in Workers : WorkerShape(net, w, st[w])
  BY Starts
<1> QED BY <1>1, <1>2, <1>3, <1>4 DEF ShapeNow, Shape, Channels, Workers

(* The order holds at the start of a network that is arranged for it.      *)
LEMMA OrderInit ==
  ASSUME Init, Arranged(net)
  PROVE  Order(net, buf, st)
<1>1. PICK O, Z, X \in SUBSET Channels : IsArranged(net, O, Z, X)
  BY DEF Arranged, Channels
<1> DEFINE p == [c \in Channels |-> 0]
<1>2. p \in [Channels -> Nat] /\ \A c \in Channels : p[c] = 0
  OBVIOUS
<1> HIDE DEF p
<1>3. ASSUME NEW c \in Channels PROVE ChannelOrder(O, Z, X, p, p, c, buf[c])
  <2>1. buf[c] = <<>>
    BY DEF Init
  <2>2. Carries(<<>>, 0, 0)
    BY CarriesNothing
  <2> QED BY <1>2, <2>1, <2>2 DEF ChannelOrder
<1>4. ASSUME NEW w \in Workers PROVE WorkerOrder(net, O, Z, X, p, p, w, st[w])
  <2> DEFINE r == st[w]
  <2>1. /\ StartsAs(w, r) /\ Stage(net, w) /\ Kind(w) = net.workers[w].kind
        /\ Outs(w) = net.workers[w].outs /\ N(w) = net.workers[w].n /\ w \in DOMAIN net.workers
    BY Starts, Stages DEF Init, Workers, Kind, Outs, N
  <2> HIDE DEF r
  <2>2. CASE Kind(w) = "source"
    <3>1. /\ DOMAIN r.todo = 1..N(w)
          /\ \A k \in 1..N(w) : r.todo[k].to = Outs(w)[1] /\ r.todo[k].item = Item(k)
      BY <2>1, <2>2 DEF StartsAs
    <3>2. 1 \in DOMAIN Outs(w) /\ Outs(w)[1] \in Channels
      <4>1. Outs(w) # <<>> /\ Len(Outs(w)) <= 1 /\ Outs(w) \in Seq(Channels)
        BY <2>1, <2>2 DEF Stage, Channels
      <4> QED BY <4>1, OnlyOne, Zenon
    <3>3. Outs(w)[1] \notin X
      BY <1>1, <2>1, <2>2, <3>2 DEF IsArranged
    <3>4. \A k \in 1..N(w) : r.todo[k].item.from = <<k>> /\ k \in Nat
      <4>1. N(w) \in Nat
        BY <2>1 DEF Stage
      <4>2. ASSUME NEW k \in 1..N(w) PROVE r.todo[k].item.from = <<k>> /\ k \in Nat
        <5>1. r.todo[k].item = Item(k)
          BY <3>1
        <5>2. Item(k).from = <<k>>
          BY Zenon DEF Item
        <5> QED BY <4>1, <5>1, <5>2
      <4> QED BY <4>2
    <3>5. \A i \in DOMAIN r.todo : Fit(Z, X, r.todo[i].to, r.todo[i].item)
      BY <3>1, <3>3, <3>4 DEF Fit
    <3>6. \A i \in DOMAIN r.todo : r.todo[i].item.from = <<p[Outs(w)[1]] + i>>
      BY <1>2, <3>1, <3>2, <3>4
    <3>7. CountsOn(net, O, p, w, r)
      BY <2>1, <3>6 DEF CountsOn
    <3> QED BY <2>1, <2>2, <3>5, <3>7 DEF WorkerOrder, r
  <2>3. CASE Kind(w) # "source"
    <3>1. r.next = 0 /\ r.pending = {} /\ r.kept = <<>> /\ r.todo = <<>>
      BY <2>1, <2>3 DEF StartsAs
    <3>2. net.workers[w].in \in Channels /\ p[net.workers[w].in] = 0
      BY <1>2, <2>1, <2>3 DEF Stage, Channels
    <3>3. \A j \in DOMAIN Outs(w) : Outs(w)[j] \in Channels /\ p[Outs(w)[j]] = 0
      BY <1>2, <2>1 DEF Stage, Channels
    <3>4. Span(0, 0) = <<>>
      BY SpanOfNone
    <3>5. SendsInOrder(net, O, p, p, w, r)
      BY <2>1, <3>1, <3>2, <3>3, <3>4 DEF SendsInOrder
    <3>6. CountsOn(net, O, p, w, r)
      BY <3>1 DEF CountsOn
    <3>7. Kind(w) = "ordered" => p[Outs(w)[1]] = 0 /\ Len(r.todo) = 0
      <4>1. Kind(w) = "ordered" => 1 \in DOMAIN Outs(w)
        BY <2>1, OnlyOne DEF Stage
      <4> QED BY <3>1, <3>3, <4>1
    <3>8. Kind(w) = "ordered" => r.next = p[Outs(w)[1]] + Len(r.todo)
      BY <3>1, <3>7
    <3> QED BY <2>1, <3>1, <3>2, <3>4, <3>5, <3>6, <3>8 DEF WorkerOrder, r
  <2> QED BY <2>2, <2>3, Zenon
<1>5. InOrder(net, O, Z, X, p, p, buf, st)
  BY <1>1, <1>2, <1>3, <1>4 DEF InOrder, Channels, Workers
<1> QED BY <1>5, OrderIs DEF Channels

-----------------------------------------------------------------------------
(* What is closed has ended, and stays as it is. *)

EndsNow == Ends(net, buf, st, closed, ctxDone)

(* Only a goroutine that was sending what remained returns by sending.     *)
LEMMA SentAt ==
  ASSUME NEW w \in Workers, WorkerShape(net, w, st[w]), Sending(w),
         SentFirst(w).at \in {"last", "done"}
  PROVE  st[w].at = "last"
<1>1. st[w] \in States(net) /\ st[w].todo # <<>> /\ st[w].at \in {"send", "last"}
  BY DEF WorkerShape, Sending
<1>2. SentFirst(w).at = IF Tail(st[w].todo) # <<>> THEN st[w].at
                        ELSE IF st[w].at = "send" THEN "recv" ELSE "done"
  BY <1>1, Sent DEF SentIs, IsState
<1> QED BY <1>1, <1>2

(* Only Await returns by receiving.                                        *)
LEMMA ReceivedAt ==
  ASSUME net \in Nets, NEW w \in Workers, WorkerShape(net, w, st[w]), st[w].at = "recv",
         NEW x \in Thing, Received(w, x).at \in {"last", "done"}
  PROVE  Kind(w) = "await"
<1>1. ReceivedIs(w, x)
  BY Receives DEF WorkerShape
<1>2. Kind(w) \in Kinds /\ Kind(w) # "source"
  BY Input, Stages DEF Workers, Stage, Kind
<1>3. Kind(w) = "ordered" => \E i \in Nat : OrderedTakes(w, x, i)
  BY <1>1 DEF ReceivedIs
<1>4. Kind(w) = "ordered" => Received(w, x).at \notin {"last", "done"}
  BY <1>3 DEF OrderedTakes, IsState
<1>5. Kind(w) = "window" => Received(w, x).at \notin {"last", "done"}
  BY <1>1, Zenon DEF ReceivedIs, IsState
<1>6. Kind(w) \in {"pass", "limit"} => Received(w, x).at = "send"
  BY <1>1, Zenon DEF ReceivedIs, IsState
<1>7. Kind(w) = "enumerate" => Received(w, x).at = "send"
  BY <1>1, Zenon DEF ReceivedIs, IsState
<1>8. Kind(w) = "collect" => Received(w, x).at = "recv"
  BY <1>1, Zenon DEF ReceivedIs, IsState
<1> QED BY <1>2, <1>4, <1>5, <1>6, <1>7, <1>8 DEF Kinds

(* Nothing is put on a closed channel.                                     *)
LEMMA PutEnds ==
  ASSUME Held(net, buf, st), NEW cl, NEW cd, Ends(net, buf, st, cl, cd),
         NEW w \in Workers, NEW b2, NEW s2, Puts(w, b2, s2)
  PROVE  Ends(net, b2, s2, cl, cd)
<1> DEFINE c == Head(st[w].todo).to
           x == Head(st[w].todo).item
<1>1. net \in Nets /\ w \in DOMAIN net.workers /\ WorkerShape(net, w, st[w]) /\ Sending(w)
  BY DEF Held, Workers, Puts
<1>2. c \in Channels /\ x \in Thing /\ Sends(net, w, c)
  BY <1>1, FirstMsg
<1>3. \A d \in cl : ~ Sends(net, w, d)
  <2>1. ~ HasEnded(st[w])
    BY <1>1 DEF HasEnded, Sending
  <2> QED BY <1>1, <2>1 DEF Ends, Sends
<1>4. c \notin cl
  BY <1>2, <1>3
<1>5. SentFirst(w).at \in {"last", "done"} => st[w].at = "last"
  BY <1>1, SentAt
<1>6. /\ \A v \in DOMAIN net.workers : v # w => s2[v] = st[v]
      /\ s2[w] = SentFirst(w) /\ \A d \in Channels : d # c => b2[d] = buf[d]
  BY <1>1 DEF Puts, Held, Channels
<1> HIDE DEF c, x
<1>7. ASSUME NEW d \in cl, NEW v \in DOMAIN net.workers, Sends(net, v, d)
      PROVE  HasEnded(s2[v])
  <2>1. v # w
    BY <1>3, <1>7
  <2> QED BY <1>6, <1>7, <2>1 DEF Ends, Sends
<1>8. ASSUME NEW v \in DOMAIN net.workers, net.workers[v].kind \notin {"source", "await"},
             s2[v].at \in {"last", "done"}, ~ cd
      PROVE  net.workers[v].in \in cl /\ b2[net.workers[v].in] = <<>>
  <2>1. st[v].at \in {"last", "done"}
    BY <1>5, <1>6, <1>8
  <2>2. net.workers[v].in \in cl /\ buf[net.workers[v].in] = <<>>
    BY <1>8, <2>1 DEF Ends
  <2>3. net.workers[v].in \in Channels
    BY <1>1, <1>8, Stages DEF Stage, Channels
  <2> QED BY <1>4, <1>6, <2>2, <2>3
<1> QED BY <1>7, <1>8 DEF Ends, Sends

(* A goroutine that takes has not seen the end of its input, but for       *)
(* Await.                                                                  *)
LEMMA TakeEnds ==
  ASSUME NEW b, NEW s, Held(net, b, s), NEW cl, NEW cd, Ends(net, b, s, cl, cd),
         NEW w \in Workers, NEW b2, NEW s2, Takes(w, b, s, b2, s2)
  PROVE  Ends(net, b2, s2, cl, cd)
<1> DEFINE c == In(w)
           x == Head(b[In(w)])
<1>1. net \in Nets /\ w \in DOMAIN net.workers /\ WorkerShape(net, w, st[w]) /\ st[w].at = "recv"
  BY DEF Held, Workers, Takes
<1>2. c \in Channels /\ c = net.workers[w].in
  BY <1>1, Input
<1>3. x \in Thing /\ b[c] # <<>>
  <2>1. b[c] \in Seq(Thing) /\ b[c] # <<>>
    BY <1>2 DEF Held, Takes, Channels
  <2> QED BY <2>1, TailIs
<1>4. \A d \in cl : ~ Sends(net, w, d)
  <2>1. ~ HasEnded(s[w])
    BY <1>1 DEF HasEnded, Takes
  <2> QED BY <1>1, <2>1 DEF Ends, Sends
<1>5. Received(w, x).at \in {"last", "done"} => net.workers[w].kind = "await"
  BY <1>1, <1>3, ReceivedAt DEF Kind
<1>6. /\ \A v \in DOMAIN net.workers : v # w => s2[v] = s[v]
      /\ s2[w] = Received(w, x) /\ \A d \in Channels : d # c => b2[d] = b[d]
  BY <1>1 DEF Takes, Held, Channels
<1> HIDE DEF c, x
<1>7. ASSUME NEW d \in cl, NEW v \in DOMAIN net.workers, Sends(net, v, d)
      PROVE  HasEnded(s2[v])
  <2>1. v # w
    BY <1>4, <1>7
  <2> QED BY <1>6, <1>7, <2>1 DEF Ends, Sends
<1>8. ASSUME NEW v \in DOMAIN net.workers, net.workers[v].kind \notin {"source", "await"},
             s2[v].at \in {"last", "done"}, ~ cd
      PROVE  net.workers[v].in \in cl /\ b2[net.workers[v].in] = <<>>
  <2>1. v # w
    BY <1>5, <1>6, <1>8
  <2>2. net.workers[v].in \in cl /\ b[net.workers[v].in] = <<>>
    BY <1>6, <1>8, <2>1 DEF Ends
  <2>3. net.workers[v].in \in Channels
    BY <1>1, <1>8, Stages DEF Stage, Channels
  <2> QED BY <1>3, <1>6, <2>2, <2>3
<1> QED BY <1>7, <1>8 DEF Ends, Sends

(* A goroutine that returns has seen the end of its input, or of its       *)
(* context.                                                                *)
LEMMA LeaveEnds ==
  ASSUME ShapeNow, EndsNow, NEW w \in Workers, NEW t, Leaves(w, t)
  PROVE  Ends(net, buf, [st EXCEPT ![w] = t], closed, ctxDone)
<1> DEFINE s == [st EXCEPT ![w] = t]
<1>1. net \in Nets /\ WorkerShape(net, w, st[w]) /\ DOMAIN st = Workers /\ st[w] \in States(net)
  BY HeldNow DEF WorkerShape
<1>2. (\A v \in Workers : v # w => s[v] = st[v]) /\ s[w] = t
  BY <1>1
<1>3. \A d \in closed : ~ Sends(net, w, d)
  <2>1. ~ HasEnded(st[w])
    BY DEF HasEnded, Leaves, SeeClosed, SeeCtxDone, LimiterRefuses, Sending
  <2> QED BY <2>1 DEF EndsNow, Ends, Sends, Workers
<1>4. t.at \in {"last", "done"} /\ ~ ctxDone => In(w) \in closed /\ buf[In(w)] = <<>>
  <2>1. LimiterRefuses(w) /\ t = [st[w] EXCEPT !.at = "cut", !.todo = <<>>] => t.at = "cut"
    BY <1>1, GivenUp DEF IsState
  <2> QED BY <2>1 DEF Leaves, SeeClosed, SeeCtxDone
<1> HIDE DEF s
<1>5. ASSUME NEW d \in closed, NEW v \in Workers, Sends(net, v, d)
      PROVE  HasEnded(s[v])
  <2>1. v # w
    BY <1>3, <1>5
  <2> QED BY <1>2, <1>5, <2>1 DEF EndsNow, Ends, Sends, Workers
<1>6. ASSUME NEW v \in Workers, net.workers[v].kind \notin {"source", "await"},
             s[v].at \in {"last", "done"}, ~ ctxDone
      PROVE  net.workers[v].in \in closed /\ buf[net.workers[v].in] = <<>>
  <2>1. CASE v = w
    BY <1>2, <1>4, <1>6, <2>1 DEF In
  <2>2. CASE v # w
    BY <1>2, <1>6, <2>2 DEF EndsNow, Ends, Workers
  <2> QED BY <2>1, <2>2
<1>7. Ends(net, buf, s, closed, ctxDone)
  BY <1>5, <1>6 DEF Ends, Sends, Workers
<1> QED BY <1>7 DEF s

(* Every step keeps it: a channel is closed once, when all its writers     *)
(* have returned.                                                          *)
LEMMA EndsStep ==
  ASSUME ShapeNow, EndsNow, [Next]_vars
  PROVE  EndsNow'
<1>0. Held(net, buf, st) /\ net \in Nets
  BY HeldNow
<1>1. Ends(net, buf, st, closed, ctxDone)
  BY DEF EndsNow
<1>a. SUFFICES Ends(net', buf', st', closed', ctxDone')
  BY DEF EndsNow
<1>2. CASE \E w, r \in Workers : Meet(w, r)
  <2>1. PICK w \in Workers, r \in Workers : Meet(w, r)
    BY <1>2
  <2>2. PICK b, s : Puts(w, b, s) /\ Takes(r, b, s, buf', st')
    BY <2>1, MeetIs
  <2>3. Ends(net, b, s, closed, ctxDone) /\ Held(net, b, s)
    BY <1>0, <1>1, <2>2, PutEnds, PutHeld
  <2>4. Ends(net, buf', st', closed, ctxDone)
    BY <2>2, <2>3, TakeEnds
  <2>5. UNCHANGED <<net, ctxDone, closed>>
    BY <2>1 DEF Meet
  <2> QED BY <2>4, <2>5
<1>3. CASE \E w \in Workers : Put(w)
  <2>1. PICK w \in Workers : Put(w)
    BY <1>3
  <2>2. Puts(w, buf', st') /\ UNCHANGED <<net, ctxDone, closed>>
    BY <2>1, PutIs
  <2>3. Ends(net, buf', st', closed, ctxDone)
    BY <1>0, <1>1, <2>2, PutEnds
  <2> QED BY <2>2, <2>3
<1>4. CASE \E w \in Workers : Take(w)
  <2>1. PICK w \in Workers : Take(w)
    BY <1>4
  <2>2. Takes(w, buf, st, buf', st') /\ UNCHANGED <<net, ctxDone, closed>>
    BY <2>1, TakeIs
  <2>3. Ends(net, buf', st', closed, ctxDone)
    BY <1>0, <1>1, <2>2, TakeEnds
  <2> QED BY <2>2, <2>3
<1>5. CASE \E w \in Workers : SeeClosed(w) \/ SeeCtxDone(w) \/ LimiterRefuses(w)
  <2>1. PICK w \in Workers : SeeClosed(w) \/ SeeCtxDone(w) \/ LimiterRefuses(w)
    BY <1>5
  <2>2. PICK t : Leaves(w, t) /\ st' = [st EXCEPT ![w] = t]
    BY <2>1, LeavesIs, Zenon
  <2>3. UNCHANGED <<net, ctxDone, buf, closed>>
    BY <2>1, LeavesIs, Zenon
  <2>4. Ends(net, buf, [st EXCEPT ![w] = t], closed, ctxDone)
    BY <2>2, LeaveEnds
  <2> QED BY <2>2, <2>3, <2>4
<1>6. CASE \E c \in Channels : Close(c)
  <2>1. PICK c \in Channels : Close(c)
    BY <1>6
  <2>2. closed' = closed \cup {c} /\ UNCHANGED <<net, ctxDone, buf, st>>
        /\ \A w \in Writers(c) : Ended(w)
    BY <2>1 DEF Close
  <2>3. \A w \in DOMAIN net.workers : Sends(net, w, c) => HasEnded(st[w])
    BY <2>2 DEF Writers, Sends, Ended, HasEnded, Outs, Workers
  <2>4. Ends(net, buf, st, closed \cup {c}, ctxDone)
    BY <1>1, <2>3 DEF Ends, Sends
  <2> QED BY <2>2, <2>4
<1>7. CASE Cancel
  <2>1. ctxDone' = TRUE /\ UNCHANGED <<net, buf, closed, st>>
    BY <1>7 DEF Cancel
  <2>2. Ends(net, buf, st, closed, TRUE)
    BY <1>1 DEF Ends
  <2> QED BY <2>1, <2>2
<1>8. CASE UNCHANGED vars
  BY <1>1, <1>8 DEF vars
<1> QED BY Steps, <1>2, <1>3, <1>4, <1>5, <1>6, <1>7, <1>8, Zenon

(* Nothing is closed at the start.                                         *)
LEMMA EndsInit == Init => EndsNow
<1> SUFFICES ASSUME Init PROVE EndsNow
  OBVIOUS
<1>1. closed = {}
  BY DEF Init
<1>2. \A w \in Workers : Kind(w) # "source" => st[w].at = "recv"
  BY Starts DEF StartsAs
<1> QED BY <1>1, <1>2 DEF EndsNow, Ends, Workers, Kind

-----------------------------------------------------------------------------
(* Flow: what one goroutine does keeps its own part. *)

(* The positions of an item are natural numbers.                           *)
LEMMA PosIn ==
  ASSUME NEW x \in Thing
  PROVE  Pos(x) \in SUBSET Nat /\ x.from \in Seq(Nat)
BY DEF Pos, Thing

(* What two sequences hold together, and when it is one to one.            *)
LEMMA Joined ==
  ASSUME NEW f \in Seq(Nat), NEW h \in Seq(Nat)
  PROVE  /\ \A i \in DOMAIN (f \o h) : \/ \E j \in DOMAIN f : i = j /\ (f \o h)[i] = f[j]
                                       \/ \E j \in DOMAIN h : i = Len(f) + j /\ (f \o h)[i] = h[j]
         /\ \A j \in DOMAIN f : j \in DOMAIN (f \o h) /\ (f \o h)[j] = f[j]
         /\ \A j \in DOMAIN h : Len(f) + j \in DOMAIN (f \o h) /\ (f \o h)[Len(f) + j] = h[j]
<1>1. PICK n \in Nat : DOMAIN f = 1..n /\ Len(f) = n
  BY Indices, Zenon
<1>2. PICK m \in Nat : DOMAIN h = 1..m /\ Len(h) = m
  BY Indices, Zenon
<1>3. DOMAIN (f \o h) = 1..(n + m)
  BY <1>1, <1>2
<1>4. \A i \in 1..(n + m) : i \in 1..n \/ i - n \in 1..m
  OBVIOUS
<1>5. \A j \in 1..n : j \in 1..(n + m) /\ (f \o h)[j] = f[j]
  BY <1>1, <1>2
<1>6. \A j \in 1..m : n + j \in 1..(n + m) /\ (f \o h)[n + j] = h[j]
  BY <1>1, <1>2
<1>7. ASSUME NEW i \in 1..(n + m)
      PROVE  \/ \E j \in DOMAIN f : i = j /\ (f \o h)[i] = f[j]
             \/ \E j \in DOMAIN h : i = n + j /\ (f \o h)[i] = h[j]
  <2>1. CASE i \in 1..n
    BY <1>1, <1>5, <2>1
  <2>2. CASE i - n \in 1..m
    <3>1. i = n + (i - n)
      OBVIOUS
    <3>2. (f \o h)[i] = h[i - n]
      BY <1>6, <2>2, <3>1
    <3> QED BY <1>2, <2>2, <3>1, <3>2
  <2> QED BY <1>4, <2>1, <2>2
<1> QED BY <1>1, <1>2, <1>3, <1>5, <1>6, <1>7

(* Sequences without repetitions that share nothing join to one without    *)
(* repetitions.                                                            *)
LEMMA OneToOneJoin ==
  ASSUME NEW f \in Seq(Nat), NEW h \in Seq(Nat), OneToOne(f), OneToOne(h),
         \A i \in DOMAIN f : \A j \in DOMAIN h : f[i] # h[j]
  PROVE  OneToOne(f \o h)
<1> DEFINE a == f \o h
           n == Len(f)
<1>1. \A i \in DOMAIN a : \/ \E j \in DOMAIN f : i = j /\ a[i] = f[j]
                          \/ \E j \in DOMAIN h : i = n + j /\ a[i] = h[j]
  BY Joined
<1> HIDE DEF a, n
<1>2. ASSUME NEW i \in DOMAIN a, NEW k \in DOMAIN a, a[i] = a[k] PROVE i = k
  <2>1. CASE \E j \in DOMAIN f : i = j /\ a[i] = f[j]
    <3>1. PICK j \in DOMAIN f : i = j /\ a[i] = f[j]
      BY <2>1
    <3>2. \E l \in DOMAIN f : k = l /\ a[k] = f[l]
      BY <1>1, <1>2, <3>1
    <3> QED BY <1>2, <3>1, <3>2 DEF OneToOne
  <2>2. CASE \E j \in DOMAIN h : i = n + j /\ a[i] = h[j]
    <3>1. PICK j \in DOMAIN h : i = n + j /\ a[i] = h[j]
      BY <2>2
    <3>2. PICK l \in DOMAIN h : k = n + l /\ a[k] = h[l]
      BY <1>1, <1>2, <3>1
    <3>3. j = l
      BY <1>2, <3>1, <3>2 DEF OneToOne
    <3> QED BY <3>1, <3>2, <3>3
  <2> QED BY <1>1, <2>1, <2>2
<1> QED BY <1>2 DEF OneToOne, a

(* An item for each channel is new where it goes if it is new there.       *)
LEMMA ToAllFlow ==
  ASSUME net \in Nets, NEW w \in Workers, NEW y \in Thing, Kind(w) \notin {"collect", "await"},
         NEW put, NEW T, OneToOne(y.from), Pos(y) \subseteq T,
         \A j \in DOMAIN Outs(w) : Pos(y) \cap put[Outs(w)[j]] = {}
  PROVE  /\ TodoFlow(put, T, ToAll(w, y))
         /\ \A j \in DOMAIN Outs(w) : \A k \in Pos(y) : \E i \in DOMAIN ToAll(w, y) :
              ToAll(w, y)[i].to = Outs(w)[j] /\ k \in Pos(ToAll(w, y)[i].item)
<1> DEFINE m == ToAll(w, y)
<1>1. /\ DOMAIN m = DOMAIN Outs(w)
      /\ \A i \in DOMAIN Outs(w) : m[i].to = Outs(w)[i] /\ m[i].item = y
  BY ToAllIs
<1>2. \A i, j \in DOMAIN Outs(w) : Outs(w)[i] = Outs(w)[j] => i = j
  BY Stages DEF Workers, Stage, Outs
<1> HIDE DEF m
<1>3. TodoFlow(put, T, m)
  BY <1>1, <1>2 DEF TodoFlow
<1>4. \A j \in DOMAIN Outs(w) : \A k \in Pos(y) : \E i \in DOMAIN m :
        m[i].to = Outs(w)[j] /\ k \in Pos(m[i].item)
  BY <1>1
<1> QED BY <1>3, <1>4 DEF m

(* A channel carries x too.                                                *)
Adds(put, put2, c, x) ==
  put2[c] = put[c] \cup Pos(x) /\ \A d \in Channels : d # c => put2[d] = put[d]

(* What w sends first is new to its channel, and what remains stays so.    *)
LEMMA SentTodo ==
  ASSUME NEW m \in Msgs(net), m # <<>>, NEW put, NEW put2, NEW T, TodoFlow(put, T, m),
         Adds(put, put2, Head(m).to, Head(m).item)
  PROVE  TodoFlow(put2, T, Tail(m))
<1> DEFINE rest == Tail(m)
           c == Head(m).to
           x == Head(m).item
           M == [to : DOMAIN net.cap, item : Thing]
<1>1. m \in Seq(M)
  BY DEF Msgs
<1> HIDE DEF M
<1>2. /\ 1 \in DOMAIN m /\ Head(m) = m[1]
      /\ \A i \in DOMAIN rest : i + 1 \in DOMAIN m /\ rest[i] = m[i + 1] /\ i \in Nat /\ i + 1 # 1
  BY <1>1
<1> HIDE DEF rest
<1>3. \A i \in DOMAIN m : m[i].to \in Channels
  <2>1. \A i \in DOMAIN m : m[i] \in M
    BY <1>1, ElementOf, Zenon
  <2> QED BY <2>1 DEF M, Channels
<1>4. ASSUME NEW i \in DOMAIN m, i # 1 PROVE Pos(m[i].item) \cap put2[m[i].to] = {}
  <2>1. m[i].to = c => Pos(m[i].item) \cap Pos(x) = {}
    BY <1>2, <1>4 DEF TodoFlow
  <2>2. Pos(m[i].item) \cap put[m[i].to] = {}
    BY DEF TodoFlow
  <2>3. m[i].to = c => put2[m[i].to] = put[m[i].to] \cup Pos(x)
    BY DEF Adds
  <2>4. m[i].to # c => put2[m[i].to] = put[m[i].to]
    BY <1>3 DEF Adds
  <2> HIDE DEF c, x
  <2> QED BY <2>1, <2>2, <2>3, <2>4
<1>5. ASSUME NEW i \in DOMAIN rest
      PROVE  /\ OneToOne(rest[i].item.from) /\ Pos(rest[i].item) \subseteq T
             /\ Pos(rest[i].item) \cap put2[rest[i].to] = {}
  <2>1. i + 1 \in DOMAIN m /\ rest[i] = m[i + 1] /\ i + 1 # 1
    BY <1>2
  <2> QED BY <1>4, <2>1 DEF TodoFlow
<1>6. ASSUME NEW i \in DOMAIN rest, NEW j \in DOMAIN rest, i # j, rest[i].to = rest[j].to
      PROVE  Pos(rest[i].item) \cap Pos(rest[j].item) = {}
  <2>1. /\ i + 1 \in DOMAIN m /\ rest[i] = m[i + 1] /\ i \in Nat
        /\ j + 1 \in DOMAIN m /\ rest[j] = m[j + 1] /\ j \in Nat
    BY <1>2
  <2>2. i + 1 # j + 1
    BY <1>6, <2>1
  <2> QED BY <1>6, <2>1, <2>2 DEF TodoFlow
<1>7. TodoFlow(put2, T, rest)
  BY <1>5, <1>6 DEF TodoFlow
<1> QED BY <1>7 DEF rest

(* What is still to come on a channel is still to come, or there, once     *)
(* the first item is sent.                                                 *)
LEMMA SentKeeps ==
  ASSUME NEW m, NEW M, m \in Seq(M), m # <<>>, NEW put, NEW put2,
         NEW c \in Channels, Adds(put, put2, m[1].to, m[1].item), NEW k,
         Coming(put, m, c, k)
  PROVE  Coming(put2, Tail(m), c, k)
<1>1. put[c] \subseteq put2[c]
  BY DEF Adds
<1>2. CASE k \in put[c]
  BY <1>1, <1>2 DEF Coming
<1>3. CASE \E i \in DOMAIN m : m[i].to = c /\ k \in Pos(m[i].item)
  <2>1. PICK i \in DOMAIN m : m[i].to = c /\ k \in Pos(m[i].item)
    BY <1>3
  <2>2. CASE i = 1
    BY <2>1, <2>2 DEF Adds, Coming
  <2>3. CASE i # 1
    <3>1. i - 1 \in DOMAIN Tail(m) /\ Tail(m)[i - 1] = m[i]
      BY <2>3
    <3> QED BY <2>1, <3>1 DEF Coming
  <2> QED BY <2>2, <2>3
<1> QED BY <1>2, <1>3 DEF Coming

(* A goroutine that sends its first item keeps its part of the flow.       *)
LEMMA SentFlow ==
  ASSUME net \in Nets, NEW w \in Workers, WorkerShape(net, w, st[w]), Sending(w),
         NEW put, NEW put2, NEW T, NEW cd, StateFlow(net.workers[w], put, T, cd, st[w]),
         Adds(put, put2, Head(st[w].todo).to, Head(st[w].todo).item)
  PROVE  StateFlow(net.workers[w], put2, T, cd, SentFirst(w))
<1> DEFINE r == st[w]
           t == SentFirst(w)
           rest == Tail(r.todo)
           outs == net.workers[w].outs
           kind == net.workers[w].kind
           c == Head(r.todo).to
           x == Head(r.todo).item
           M == [to : DOMAIN net.cap, item : Thing]
<1>1. /\ Stage(net, w) /\ r \in States(net) /\ r.todo # <<>> /\ r.todo \in Msgs(net)
      /\ r.at \in {"send", "last"} /\ r.next \in Nat
  BY Stages, StateTypes DEF Workers, WorkerShape, Sending
<1>2. /\ t \in States(net) /\ t.todo = rest /\ t.next = r.next /\ t.pending = r.pending
      /\ t.kept = r.kept
      /\ t.at = IF rest # <<>> THEN r.at ELSE IF r.at = "send" THEN "recv" ELSE "done"
  BY <1>1, Sent DEF SentIs, IsState
<1>3. r.todo \in Seq(M) /\ Head(r.todo) = r.todo[1] /\ 1 \in DOMAIN r.todo
  BY <1>1, FirstMsg DEF Msgs
<1> HIDE DEF M
<1>4. PICK j \in DOMAIN outs : outs[j] = c
  BY <1>3 DEF WorkerShape
<1>5. kind \in Kinds /\ kind \notin {"collect", "await"} /\ r.kept = <<>>
  BY <1>1, <1>4 DEF Stage, WorkerShape
<1>6. \A i \in DOMAIN outs : outs[i] \in Channels
  BY <1>1 DEF Stage, Channels
<1> HIDE DEF t
<1>7. TodoFlow(put2, T, t.todo)
  BY <1>1, <1>2, SentTodo DEF StateFlow
<1>8. KeptFlow(outs, put2, T, t.kept)
  BY <1>2, <1>5 DEF KeptFlow, OneToOne
<1>9. kind = "source" => T = 1..net.workers[w].n
  BY DEF StateFlow
<1>10. kind = "ordered" => OrderedFlow(outs, put2, T, t)
  <2>1. SUFFICES ASSUME kind = "ordered" PROVE OrderedFlow(outs, put2, T, t)
    OBVIOUS
  <2>2. OrderedFlow(outs, put, T, r) /\ outs[1] = c /\ c \in Channels
    <3>1. outs # <<>> /\ Len(outs) <= 1 /\ outs \in Seq(Channels)
      BY <1>1, <2>1 DEF Stage, Channels
    <3>2. DOMAIN outs = {1}
      BY <3>1, OnlyOne, Zenon
    <3> QED BY <1>4, <1>6, <2>1, <3>2 DEF StateFlow
  <2>3. PICK m \in Nat : m = Len(rest) /\ DOMAIN rest = 1..m /\ Len(r.todo) = m + 1
                         /\ DOMAIN r.todo = 1..(m + 1) /\ \A i \in 1..m : rest[i] = r.todo[i + 1]
    <3>1. rest \in Seq(M) /\ Len(r.todo) = Len(rest) + 1 /\ \A i \in 1..Len(rest) : rest[i] = r.todo[i + 1]
      BY <1>1, <1>3, TailIs
    <3>2. PICK m \in Nat : DOMAIN rest = 1..m /\ Len(rest) = m
      BY <3>1, Indices, Zenon
    <3>3. PICK l \in Nat : DOMAIN r.todo = 1..l /\ Len(r.todo) = l
      BY <1>3, Indices, Zenon
    <3>4. l = m + 1
      BY <3>1, <3>2, <3>3, Zenon
    <3>5. \A i \in 1..m : rest[i] = r.todo[i + 1]
      BY <3>1, <3>2, Zenon
    <3> QED BY <3>2, <3>3, <3>4, <3>5, Zenon
  <2>4. /\ put[c] = 1..(r.next - (m + 1)) /\ m + 1 <= r.next
        /\ \A i \in 1..(m + 1) : r.todo[i].item.from = <<r.next - (m + 1) + i>>
    <3>1. /\ put[c] = 1..(r.next - Len(r.todo)) /\ Len(r.todo) <= r.next
          /\ \A i \in DOMAIN r.todo : r.todo[i].item.from = <<r.next - Len(r.todo) + i>>
      BY <1>1, <2>2 DEF OrderedFlow, HasEnded
    <3> HIDE DEF c, r, outs
    <3>2. put[c] = 1..(r.next - (m + 1))
      BY <2>3, <3>1, Zenon
    <3>3. m + 1 <= r.next
      BY <2>3, <3>1, Zenon
    <3>4. \A i \in 1..(m + 1) : r.todo[i].item.from = <<r.next - (m + 1) + i>>
      BY <2>3, <3>1, Zenon
    <3> QED BY <3>2, <3>3, <3>4
  <2>5. PICK n \in Nat : n = r.next - (m + 1)
    BY <1>1, <2>4
  <2>6. x.from = <<n + 1>> /\ put[c] = 1..n /\ r.next = n + m + 1
    <3>1. 1 \in 1..(m + 1)
      OBVIOUS
    <3>2. r.todo[1].item.from = <<r.next - (m + 1) + 1>>
      BY <2>4, <3>1
    <3>3. r.next - (m + 1) = n /\ r.next = n + m + 1
      BY <1>1, <2>5
    <3>4. r.todo[1] = Head(r.todo)
      BY <1>3
    <3> QED BY <2>4, <3>2, <3>3, <3>4, Zenon
  <2>7. Pos(x) = {n + 1}
    BY <2>6 DEF Pos
  <2>8. put2[c] = 1..(n + 1)
    <3>1. put2[c] = put[c] \cup Pos(x)
      BY DEF Adds
    <3>2. put2[c] = (1..n) \cup {n + 1}
      BY <2>6, <2>7, <3>1, Zenon
    <3> HIDE DEF c
    <3> QED BY <3>2
  <2>9. put2[outs[1]] = 1..(t.next - Len(t.todo)) /\ Len(t.todo) <= t.next
    <3>1. t.next - m = n + 1 /\ m <= t.next
      BY <1>2, <2>6
    <3>2. Len(t.todo) = m
      BY <1>2, <2>3, Zenon
    <3> HIDE DEF outs, c
    <3> QED BY <2>2, <2>8, <3>1, <3>2, Zenon
  <2>10. ASSUME NEW i \in DOMAIN t.todo
         PROVE  t.todo[i].item.from = <<t.next - Len(t.todo) + i>>
    <3>0. DOMAIN t.todo = 1..m
      BY <1>2, <2>3, Zenon
    <3>1. i \in 1..m /\ i + 1 \in 1..(m + 1)
      BY <3>0
    <3>2. t.todo[i] = r.todo[i + 1] /\ r.todo[i + 1].item.from = <<r.next - (m + 1) + (i + 1)>>
      BY <1>2, <2>3, <2>4, <3>1, Zenon
    <3>3. r.next - (m + 1) + (i + 1) = t.next - m + i
      <4>1. t.next = r.next /\ r.next \in Nat
        BY <1>1, <1>2
      <4> HIDE DEF r
      <4> QED BY <3>1, <4>1
    <3>4. Len(t.todo) = m
      BY <1>2, <2>3, Zenon
    <3> QED BY <3>2, <3>3, <3>4, Zenon
  <2>11. t.at # "cut" => Beyond(t.next, T, t.pending)
    BY <1>1, <1>2, <2>2 DEF OrderedFlow
  <2> QED BY <2>9, <2>10, <2>11 DEF OrderedFlow
<1>11. kind # "ordered" => AllFlows(outs, put2, T, t)
  <2>1. SUFFICES ASSUME kind # "ordered", NEW i \in DOMAIN outs, NEW k \in T
                 PROVE  Coming(put2, rest, outs[i], k)
    BY <1>2 DEF AllFlows
  <2>2. AllFlows(outs, put, T, r)
    BY <1>1, <2>1 DEF StateFlow, HasEnded
  <2>3. Coming(put, r.todo, outs[i], k)
    BY <1>5, <2>2 DEF AllFlows
  <2>4. Adds(put, put2, r.todo[1].to, r.todo[1].item)
    BY <1>3
  <2>5. outs[i] \in Channels
    BY <1>6
  <2> HIDE DEF r, outs, rest
  <2>6. rest = Tail(r.todo)
    BY DEF rest
  <2> QED BY <1>1, <1>3, <2>3, <2>4, <2>5, <2>6, SentKeeps, Zenon
<1>12. t.at = "done" => DoneFlow(kind, outs, put2, T, t)
  <2>1. SUFFICES ASSUME t.at = "done" PROVE DoneFlow(kind, outs, put2, T, t)
    OBVIOUS
  <2>2. rest = <<>> /\ r.at = "last"
    BY <1>1, <1>2, <2>1
  <2>3. kind # "ordered"
    BY <2>2 DEF WorkerShape
  <2>4. AllFlows(outs, put2, T, t) /\ t.todo = <<>> /\ t.kept = <<>>
    BY <1>2, <1>5, <1>11, <2>2, <2>3
  <2> QED BY <2>3, <2>4 DEF AllFlows, Coming, DoneFlow
<1>13. StateFlow(net.workers[w], put2, T, cd, t)
  BY <1>5, <1>7, <1>8, <1>9, <1>10, <1>11, <1>12, Zenon DEF StateFlow
<1> QED BY <1>13 DEF t

(* A longest run ends at a gap.                                            *)
LEMMA GapAfter ==
  ASSUME NEW P, NEW i \in Nat, NEW k \in Nat, Run(P, i, k), ~ Run(P, i, k + 1)
  PROVE  \A y \in P : y.index # i + k
<1>1. PICK j \in i..(i + (k + 1) - 1) : ~ \E y \in P : y.index = j
  BY DEF Run
<1>2. j \notin i..(i + k - 1)
  BY <1>1 DEF Run
<1>3. j = i + k
  BY <1>1, <1>2
<1> QED BY <1>1, <1>3

(* Ordered takes a new item: what it has taken is what it has emitted, or  *)
(* is about to, and what is pending.                                       *)
Indexed(y) == y.index \in Nat /\ y.from = <<y.index + 1>>

Longest(P, i, k) == Run(P, i, k) /\ ~ Run(P, i, k + 1)
LateIn(P, n) == {y \in P : y.index >= n}
Takes1(T, x) == T \cup {x.index + 1}

(* Once a longest run is emitted, what is left pending lies beyond a gap   *)
(* again.                                                                  *)
LEMMA RunMoves ==
  ASSUME NEW i \in Nat, NEW k \in Nat, NEW Q, NEW x, NEW T,
         \A y \in Q \cup {x} : Indexed(y), Beyond(i, T, Q), x.index + 1 \notin T,
         Longest(Q \cup {x}, i, k)
  PROVE  /\ Beyond(i + k, Takes1(T, x), LateIn(Q \cup {x}, i + k))
         /\ \A j \in 1..k : i + j \in Takes1(T, x)
<1> DEFINE P == Q \cup {x}
           late == {y \in P : y.index >= i + k}
<1>0. /\ \A y \in P : Indexed(y)
      /\ \A y \in Q : y.index > i
      /\ T = 1..i \cup {y.index + 1 : y \in Q}
      /\ Run(P, i, k) /\ ~ Run(P, i, k + 1)
  BY DEF Beyond, Longest
<1>1. \A y \in P : y.index \in Nat /\ y.index # i + k
  BY <1>0, GapAfter DEF Indexed
<1>2. x.index >= i
  <2>1. x.index \in Nat /\ x.index + 1 \notin 1..i
    BY <1>0, <1>1
  <2> QED BY <2>1
<1>3. \A y \in late : y.index > i + k
  BY <1>1
<1>4. \A j \in 1..k : i + j \in T \cup {x.index + 1}
  <2>1. ASSUME NEW j \in 1..k PROVE i + j \in T \cup {x.index + 1}
    <3>1. i + j - 1 \in i..(i + k - 1)
      OBVIOUS
    <3>2. PICK y \in P : y.index = i + j - 1
      BY <1>0, <3>1, Zenon DEF Run
    <3>3. i + j = y.index + 1
      BY <3>2
    <3>4. y = x \/ y \in Q
      OBVIOUS
    <3> QED BY <1>0, <3>3, <3>4
  <2> QED BY <2>1
<1>5. 1..(i + k) \subseteq T \cup {x.index + 1}
  <2>1. ASSUME NEW n \in 1..(i + k) PROVE n \in T \cup {x.index + 1}
    <3>1. CASE n <= i
      BY <1>0, <3>1
    <3>2. CASE n > i
      <4>1. n - i \in 1..k /\ i + (n - i) = n
        BY <3>2
      <4>2. i + (n - i) \in T \cup {x.index + 1}
        BY <1>4, <4>1, Zenon
      <4> QED BY <4>1, <4>2, Zenon
    <3> QED BY <3>1, <3>2
  <2> QED BY <2>1
<1>6. \A y \in late : y.index + 1 \in T \cup {x.index + 1}
  BY <1>0, <1>1
<1>7. ASSUME NEW n \in T \cup {x.index + 1}
      PROVE  n \in 1..(i + k) \cup {y.index + 1 : y \in late}
  <2>1. CASE n \in 1..i
    BY <1>0, <2>1
  <2>2. CASE \E y \in P : n = y.index + 1
    <3>1. PICK y \in P : n = y.index + 1
      BY <2>2
    <3>2. CASE y.index >= i + k
      BY <3>1, <3>2
    <3>3. CASE ~ (y.index >= i + k)
      <4>1. y.index \in Nat
        BY <1>1
      <4>2. n \in 1..(i + k)
        BY <3>1, <3>3, <4>1
      <4> QED BY <4>2
    <3> QED BY <3>2, <3>3
  <2>3. n \in 1..i \/ \E y \in P : n = y.index + 1
    BY <1>0
  <2> QED BY <2>1, <2>2, <2>3
<1>8. T \cup {x.index + 1} = 1..(i + k) \cup {y.index + 1 : y \in late}
  BY <1>5, <1>6, <1>7
<1> QED BY <1>3, <1>4, <1>8 DEF Beyond, LateIn, Takes1

(* Ordered keeps its part of the flow with every item.                     *)
LEMMA OrderedFlows ==
  ASSUME net \in Nets, NEW w \in Workers, WorkerShape(net, w, st[w]), st[w].at = "recv",
         NEW x \in Thing, NEW k \in Nat, OrderedTakes(w, x, k),
         \A y \in st[w].pending \cup {x} : Indexed(y),
         NEW put, NEW T, OrderedFlow(Outs(w), put, T, st[w]), x.index + 1 \notin T
  PROVE  /\ OrderedFlow(Outs(w), put, T \cup {x.index + 1}, Received(w, x))
         /\ TodoFlow(put, T \cup {x.index + 1}, Received(w, x).todo)
         /\ Received(w, x).at # "done"
<1> DEFINE r == st[w]
           t == Received(w, x)
           outs == Outs(w)
           i == r.next
           P == r.pending \cup {x}
           late == {y \in P : y.index >= i + k}
           T2 == T \cup {x.index + 1}
           m == RunOf(w, x, k)
<1>1. r \in States(net) /\ r.todo = <<>> /\ i \in Nat /\ P \in SUBSET Thing
  BY StateTypes DEF WorkerShape
<1>2. Beyond(i, T, r.pending)
  BY DEF OrderedFlow
<1>3. put[outs[1]] = 1..i
  <2>1. put[outs[1]] = 1..(i - Len(<<>>))
    BY <1>1 DEF OrderedFlow, HasEnded
  <2>2. i - Len(<<>>) = i
    BY <1>1
  <2> QED BY <2>1, <2>2
<1>4. Longest(P, i, k)
  BY DEF OrderedTakes, Longest
<1>5. \/ IsState(net, t, "cut", r.todo, i, P, r.kept)
      \/ k = 0 /\ IsState(net, t, r.at, r.todo, i + k, late, r.kept)
      \/ k > 0 /\ IsState(net, t, "send", m, i + k, late, r.kept)
  BY DEF OrderedTakes
<1>6. Beyond(i + k, T2, late) /\ \A j \in 1..k : i + j \in T2
  <2>1. \A y \in P : Indexed(y)
    OBVIOUS
  <2>2. late = LateIn(P, i + k) /\ T2 = Takes1(T, x) /\ x.index + 1 \notin T
    BY DEF LateIn, Takes1
  <2>3. P = r.pending \cup {x}
    OBVIOUS
  <2> HIDE DEF r, P, late, T2
  <2> QED BY <1>1, <1>2, <1>4, <2>1, <2>2, <2>3, RunMoves
<1>7. /\ m \in Msgs(net) /\ Len(m) = k
      /\ \A l \in DOMAIN m : m[l].to = outs[1]
      /\ \A l \in 1..k : \E y \in P : y.index = i + l - 1 /\ m[l].item = [y EXCEPT !.index = NoIndex]
  BY DEF OrderedTakes, RunFits
<1>8. DOMAIN m = 1..k
  <2>1. PICK n \in Nat : DOMAIN m = 1..n /\ Len(m) = n
    BY <1>7, Indices, Zenon DEF Msgs
  <2> QED BY <1>7, <2>1, Zenon
<1>9. ASSUME NEW l \in 1..k PROVE m[l].item.from = <<i + l>>
  <2>1. PICK y \in P : y.index = i + l - 1 /\ m[l].item = [y EXCEPT !.index = NoIndex]
    BY <1>7
  <2>2. y \in Thing /\ y.from = <<y.index + 1>> /\ NoIndex \in Int
    BY <1>1 DEF Indexed, NoIndex
  <2>3. [y EXCEPT !.index = NoIndex].from = y.from
    BY <2>2, Reindexed
  <2>4. y.index + 1 = i + l
    BY <1>1, <2>1
  <2> QED BY <2>1, <2>2, <2>3, <2>4, Zenon
<1> HIDE DEF t, P, late, m, T2, r, outs, i
<1>10. CASE IsState(net, t, "cut", r.todo, i, P, r.kept)
  <2>1. t.at = "cut" /\ t.todo = <<>>
    BY <1>1, <1>10 DEF IsState
  <2> QED BY <2>1 DEF OrderedFlow, TodoFlow, HasEnded, t
<1>11. CASE k = 0 /\ IsState(net, t, r.at, r.todo, i + k, late, r.kept)
  <2>1. t.at = "recv" /\ t.todo = <<>> /\ t.next = i + k /\ t.pending = late /\ i + k = i
    BY <1>1, <1>11 DEF IsState, r
  <2>2. Len(<<>>) = 0 /\ i - 0 = i
    BY <1>1
  <2>3. put[outs[1]] = 1..(t.next - Len(t.todo)) /\ Len(t.todo) <= t.next
    BY <1>1, <1>3, <2>1, <2>2
  <2>4. OrderedFlow(outs, put, T2, t)
    BY <1>6, <2>1, <2>3 DEF OrderedFlow
  <2>5. TodoFlow(put, T2, t.todo)
    BY <2>1 DEF TodoFlow
  <2> QED BY <2>1, <2>4, <2>5 DEF t, T2, outs
<1>12. CASE k > 0 /\ IsState(net, t, "send", m, i + k, late, r.kept)
  <2>1. t.at = "send" /\ t.todo = m /\ t.next = i + k /\ t.pending = late
    BY <1>12 DEF IsState
  <2>2. i + k - k = i /\ k <= i + k
    BY <1>1
  <2>3. t.next - Len(t.todo) = i /\ Len(t.todo) <= t.next
    <3>1. Len(t.todo) = k
      BY <1>7, <2>1, Zenon
    <3>2. t.next - k = i /\ k <= t.next
      <4>1. t.next = i + k
        BY <2>1
      <4>0. i \in Nat /\ k \in Nat
        BY <1>1
      <4>2. t.next - k = i
        BY <4>0, <4>1
      <4>3. k <= t.next
        BY <2>2, <4>1, Zenon
      <4> QED BY <4>2, <4>3
    <3> QED BY <3>1, <3>2, Zenon
  <2>4. \A l \in DOMAIN m : m[l].item.from = <<t.next - Len(t.todo) + l>>
    BY <1>8, <1>9, <2>3
  <2>5. put[outs[1]] = 1..(t.next - Len(t.todo))
    BY <1>3, <2>3, Zenon
  <2>6. OrderedFlow(outs, put, T2, t)
    <3>1. Beyond(t.next, T2, t.pending)
      BY <1>6, <2>1
    <3>3. \A l \in DOMAIN t.todo : t.todo[l].item.from = <<t.next - Len(t.todo) + l>>
      BY <2>1, <2>4, Zenon
    <3> QED BY <2>3, <2>5, <3>1, <3>3, Zenon DEF OrderedFlow
  <2>7. ASSUME NEW l \in 1..k PROVE Pos(m[l].item) = {i + l} /\ OneToOne(m[l].item.from)
    BY <1>9 DEF Pos, OneToOne
  <2>8. TodoFlow(put, T2, m)
    <3>1. ASSUME NEW l \in DOMAIN m
          PROVE  /\ OneToOne(m[l].item.from) /\ Pos(m[l].item) \subseteq T2
                 /\ Pos(m[l].item) \cap put[m[l].to] = {}
      <4>1. l \in 1..k
        BY <1>8
      <4>2. Pos(m[l].item) = {i + l} /\ OneToOne(m[l].item.from) /\ i + l \in T2
        BY <1>6, <2>7, <4>1
      <4>3. m[l].to = outs[1]
        BY <1>7
      <4>4. i + l \notin 1..i
        BY <1>1, <4>1
      <4> QED BY <1>3, <4>2, <4>3, <4>4
    <3>2. ASSUME NEW l \in DOMAIN m, NEW n \in DOMAIN m, l # n
          PROVE  Pos(m[l].item) \cap Pos(m[n].item) = {}
      <4>1. l \in 1..k /\ n \in 1..k
        BY <1>8
      <4>2. Pos(m[l].item) = {i + l} /\ Pos(m[n].item) = {i + n}
        BY <2>7, <4>1
      <4>3. i + l # i + n
        BY <1>1, <3>2, <4>1
      <4> QED BY <4>2, <4>3
    <3> QED BY <3>1, <3>2 DEF TodoFlow
  <2> QED BY <2>1, <2>6, <2>8 DEF t, T2, outs
<1> QED BY <1>5, <1>10, <1>11, <1>12, Zenon

(* The item x is new to a goroutine that has taken T, and to its channels. *)
NewTo(outs, put, T, x) ==
  /\ OneToOne(x.from) /\ Pos(x) \cap T = {}
  /\ \A j \in DOMAIN outs : Pos(x) \cap put[outs[j]] = {}
With(T, x) == T \cup Pos(x)

(* The batch of a goroutine grows by what it takes.                        *)
Grown(f, x, a) ==
  /\ \A k \in Pos(x) : \E i \in DOMAIN a : a[i] = k
  /\ \A j \in DOMAIN f : \E i \in DOMAIN a : a[i] = f[j]

(* A new item makes a batch grow without repetitions.                      *)
LEMMA KeptGrows ==
  ASSUME NEW f \in Seq(Nat), NEW x \in Thing, NEW outs, NEW put, NEW T,
         KeptFlow(outs, put, T, f), NewTo(outs, put, T, x)
  PROVE  /\ KeptFlow(outs, put, With(T, x), f \o x.from)
         /\ Grown(f, x, f \o x.from)
<1> DEFINE h == x.from
           a == f \o h
           n == Len(f)
<1>1. h \in Seq(Nat) /\ \A j \in DOMAIN h : h[j] \in Pos(x)
  BY PosIn DEF Pos
<1>2. /\ \A i \in DOMAIN a : \/ \E j \in DOMAIN f : i = j /\ a[i] = f[j]
                             \/ \E j \in DOMAIN h : i = n + j /\ a[i] = h[j]
      /\ \A j \in DOMAIN f : j \in DOMAIN a /\ a[j] = f[j]
      /\ \A j \in DOMAIN h : n + j \in DOMAIN a /\ a[n + j] = h[j]
  BY <1>1, Joined
<1>3. OneToOne(a)
  <2>1. \A i \in DOMAIN f : \A j \in DOMAIN h : f[i] # h[j]
    BY <1>1 DEF KeptFlow, NewTo
  <2> QED BY <1>1, <2>1, OneToOneJoin DEF KeptFlow, NewTo
<1> HIDE DEF a, n
<1>4. \A i \in DOMAIN a : a[i] \in T \cup Pos(x) /\ \A j \in DOMAIN outs : a[i] \notin put[outs[j]]
  <2>1. \A i \in DOMAIN f : f[i] \in T \cup Pos(x) /\ \A j \in DOMAIN outs : f[i] \notin put[outs[j]]
    BY DEF KeptFlow
  <2>2. \A i \in DOMAIN h : h[i] \in T \cup Pos(x) /\ \A j \in DOMAIN outs : h[i] \notin put[outs[j]]
    BY <1>1 DEF NewTo
  <2> HIDE DEF h
  <2> QED BY <1>2, <2>1, <2>2
<1>5. \A k \in Pos(x) : \E i \in DOMAIN a : a[i] = k
  BY <1>2 DEF Pos
<1>6. \A j \in DOMAIN f : \E i \in DOMAIN a : a[i] = f[j]
  BY <1>2
<1>7. KeptFlow(outs, put, T \cup Pos(x), a)
  BY <1>3, <1>4 DEF KeptFlow
<1> QED BY <1>5, <1>6, <1>7 DEF a, With, Grown

(* A batch that is sent is new to where it goes.                           *)
LEMMA BatchFlow ==
  ASSUME net \in Nets, NEW w \in Workers, Kind(w) \notin {"collect", "await"},
         NEW k \in Seq(Nat), NEW put, NEW T, KeptFlow(Outs(w), put, T, k)
  PROVE  /\ Batch(k) \in Thing /\ TodoFlow(put, T, ToAll(w, Batch(k)))
         /\ \A j \in DOMAIN Outs(w) : \A i \in DOMAIN k :
              Coming(put, ToAll(w, Batch(k)), Outs(w)[j], k[i])
<1> DEFINE y == Batch(k)
<1>1. y \in Thing /\ y.from = k
  BY DEF Batch, NoIndex, Thing
<1> HIDE DEF y
<1>2. OneToOne(y.from) /\ Pos(y) \subseteq T /\ \A i \in DOMAIN k : k[i] \in Pos(y)
  BY <1>1 DEF KeptFlow, Pos
<1>3. \A j \in DOMAIN Outs(w) : Pos(y) \cap put[Outs(w)[j]] = {}
  BY <1>1 DEF KeptFlow, Pos
<1>4. /\ TodoFlow(put, T, ToAll(w, y))
      /\ \A j \in DOMAIN Outs(w) : \A l \in Pos(y) : \E i \in DOMAIN ToAll(w, y) :
           ToAll(w, y)[i].to = Outs(w)[j] /\ l \in Pos(ToAll(w, y)[i].item)
  BY <1>1, <1>2, <1>3, ToAllFlow
<1>5. \A j \in DOMAIN Outs(w) : \A i \in DOMAIN k : Coming(put, ToAll(w, y), Outs(w)[j], k[i])
  BY <1>2, <1>4 DEF Coming
<1> QED BY <1>1, <1>4, <1>5 DEF y

(* The part of a goroutine that is neither a source nor Ordered.           *)
LEMMA FlowOf ==
  ASSUME NEW g, NEW put, NEW T, NEW cd, NEW t, g.kind # "ordered", g.kind # "source",
         TodoFlow(put, T, t.todo), KeptFlow(g.outs, put, T, t.kept),
         g.kind \in {"collect", "await"} => KeepsAll(T, t.kept),
         AllFlows(g.outs, put, T, t), t.at = "done" => DoneFlow(g.kind, g.outs, put, T, t)
  PROVE  StateFlow(g, put, T, cd, t)
BY DEF StateFlow

(* A goroutine with nothing to send, or in its batch, repeats nothing.     *)
LEMMA NothingKept ==
  ASSUME NEW outs, NEW put, NEW T
  PROVE  KeptFlow(outs, put, T, <<>>) /\ TodoFlow(put, T, <<>>)
BY DEF KeptFlow, OneToOne, TodoFlow

(* A goroutine that takes an item that is new to it keeps its part of the  *)
(* flow.                                                                   *)
LEMMA ReceivedFlow ==
  ASSUME net \in Nets, NEW w \in Workers, WorkerShape(net, w, st[w]), st[w].at = "recv",
         NEW x \in Thing,
         Kind(w) = "ordered" => \A y \in st[w].pending \cup {x} : Indexed(y),
         NEW put, NEW T, NEW cd, StateFlow(net.workers[w], put, T, cd, st[w]),
         NewTo(Outs(w), put, T, x)
  PROVE  StateFlow(net.workers[w], put, With(T, x), cd, Received(w, x))
<1> DEFINE r == st[w]
           t == Received(w, x)
           outs == Outs(w)
           kind == Kind(w)
           k == r.kept \o x.from
           T2 == With(T, x)
<1>1. /\ Stage(net, w) /\ r \in States(net) /\ r.todo = <<>> /\ IsFiniteSet(r.pending)
      /\ r.next \in Nat /\ r.kept \in Seq(Nat) /\ x.from \in Seq(Nat) /\ kind \in Kinds
      /\ kind # "source" /\ kind = net.workers[w].kind /\ outs = net.workers[w].outs
      /\ kind \notin {"collect", "await", "window"} => r.kept = <<>>
  BY Stages, StateTypes, PosIn DEF Workers, WorkerShape, Stage, Kind, Outs
<1>2. ReceivedIs(w, x)
  BY <1>1, Receives
<1>a. T2 = T \cup Pos(x)
  BY DEF With
<1>b. /\ OneToOne(x.from) /\ Pos(x) \cap T = {}
      /\ \A j \in DOMAIN outs : Pos(x) \cap put[outs[j]] = {}
  BY DEF NewTo
<1>3. /\ KeptFlow(outs, put, T2, k)
      /\ \A i \in Pos(x) : \E j \in DOMAIN k : k[j] = i
      /\ \A j \in DOMAIN r.kept : \E i \in DOMAIN k : k[i] = r.kept[j]
  <2>1. KeptFlow(outs, put, T, r.kept)
    BY <1>1 DEF StateFlow
  <2>2. KeptFlow(outs, put, T2, k) /\ Grown(r.kept, x, k)
    BY <1>1, <2>1, KeptGrows, Zenon
  <2> QED BY <2>2 DEF Grown
<1>4. kind # "ordered" =>
        \A j \in DOMAIN outs : \A i \in T : i \in put[outs[j]] \/ \E l \in DOMAIN r.kept : r.kept[l] = i
  <2>1. kind # "ordered" => AllFlows(outs, put, T, r)
    BY <1>1 DEF StateFlow, HasEnded
  <2> QED BY <1>1, <2>1 DEF AllFlows, Coming
<1>5. ASSUME NEW y \in Thing, y.from = x.from, kind \in {"pass", "limit", "enumerate"},
             t.todo = ToAll(w, y), t.kept = r.kept, t.at = "send"
      PROVE  StateFlow(net.workers[w], put, T2, cd, t)
  <2>1. OneToOne(y.from) /\ Pos(y) = Pos(x)
    BY <1>5, <1>b DEF Pos
  <2> HIDE DEF t
  <2>2. /\ TodoFlow(put, T2, t.todo)
        /\ \A j \in DOMAIN outs : \A l \in Pos(x) : \E i \in DOMAIN t.todo :
             t.todo[i].to = outs[j] /\ l \in Pos(t.todo[i].item)
    <3>1. Kind(w) \notin {"collect", "await"}
      BY <1>5
    <3>2. Pos(y) \subseteq T2 /\ \A j \in DOMAIN Outs(w) : Pos(y) \cap put[Outs(w)[j]] = {}
      BY <1>a, <1>b, <2>1
    <3>3. /\ TodoFlow(put, T2, ToAll(w, y))
          /\ \A j \in DOMAIN Outs(w) : \A l \in Pos(y) : \E i \in DOMAIN ToAll(w, y) :
               ToAll(w, y)[i].to = Outs(w)[j] /\ l \in Pos(ToAll(w, y)[i].item)
      BY <2>1, <3>1, <3>2, ToAllFlow
    <3> QED BY <1>5, <2>1, <3>3
  <2>3. t.kept = <<>>
    BY <1>1, <1>5
  <2>4. AllFlows(outs, put, T2, t)
    <3>1. \A j \in DOMAIN outs : \A i \in T : i \in put[outs[j]]
      BY <1>1, <1>4, <1>5
    <3> QED BY <1>a, <2>2, <3>1 DEF AllFlows, Coming
  <2>5. KeptFlow(outs, put, T2, t.kept)
    BY <2>3, NothingKept
  <2> QED BY <1>1, <1>5, <2>2, <2>4, <2>5, FlowOf
<1>6. CASE kind \in {"pass", "limit"}
  <2>1. IsState(net, t, "send", ToAll(w, x), r.next, r.pending, r.kept)
    BY <1>2, <1>6 DEF ReceivedIs
  <2>2. t.todo = ToAll(w, x) /\ t.kept = r.kept /\ t.at = "send"
    BY <2>1 DEF IsState
  <2> QED BY <1>5, <1>6, <2>2
<1>7. CASE kind = "enumerate"
  <2> DEFINE y == [x EXCEPT !.index = r.next]
  <2>1. y \in Thing /\ y.from = x.from
    BY <1>1, Reindexed
  <2>2. IsState(net, t, "send", ToAll(w, y), r.next + 1, r.pending, r.kept)
    BY <1>2, <1>7 DEF ReceivedIs
  <2> HIDE DEF y
  <2>3. t.todo = ToAll(w, y) /\ t.kept = r.kept /\ t.at = "send"
    BY <2>2 DEF IsState
  <2> QED BY <1>5, <1>7, <2>1, <2>3
<1>8. CASE kind = "window"
  <2>1. \/ IsState(net, t, "send", ToAll(w, Batch(k)), r.next, r.pending, <<>>)
        \/ IsState(net, t, r.at, r.todo, r.next, r.pending, k)
    BY <1>2, <1>8 DEF ReceivedIs
  <2>2. k \in Seq(Nat)
    BY <1>1
  <2> HIDE DEF k, t, T2
  <2>3. \A j \in DOMAIN outs : \A i \in T2 : i \in put[outs[j]] \/ \E l \in DOMAIN k : k[l] = i
    <3>1. \A j \in DOMAIN outs : \A i \in T :
            i \in put[outs[j]] \/ \E l \in DOMAIN k : k[l] = i
      <4>1. ASSUME NEW j \in DOMAIN outs, NEW i \in T, i \notin put[outs[j]]
            PROVE  \E l \in DOMAIN k : k[l] = i
        <5>1. PICK l \in DOMAIN r.kept : r.kept[l] = i
          BY <1>4, <1>8, <4>1
        <5> QED BY <1>3, <5>1
      <4> QED BY <4>1
    <3> QED BY <1>3, <1>a, <3>1
  <2>4. CASE IsState(net, t, "send", ToAll(w, Batch(k)), r.next, r.pending, <<>>)
    <3>1. t.todo = ToAll(w, Batch(k)) /\ t.kept = <<>> /\ t.at = "send"
      BY <2>4 DEF IsState
    <3>2. /\ TodoFlow(put, T2, ToAll(w, Batch(k)))
          /\ \A j \in DOMAIN outs : \A i \in DOMAIN k : Coming(put, ToAll(w, Batch(k)), outs[j], k[i])
      BY <1>3, <1>8, <2>2, BatchFlow
    <3>3. AllFlows(outs, put, T2, t)
      <4>1. ASSUME NEW j \in DOMAIN outs, NEW i \in T2 PROVE Coming(put, t.todo, outs[j], i)
        <5>1. CASE i \in put[outs[j]]
          BY <5>1 DEF Coming
        <5>2. CASE \E l \in DOMAIN k : k[l] = i
          BY <3>1, <3>2, <5>2
        <5> QED BY <2>3, <5>1, <5>2
      <4> QED BY <4>1 DEF AllFlows
    <3>4. KeptFlow(outs, put, T2, t.kept)
      BY <3>1, NothingKept
    <3>5. StateFlow(net.workers[w], put, T2, cd, t)
      BY <1>1, <1>8, <3>1, <3>2, <3>3, <3>4, FlowOf
    <3> QED BY <3>5 DEF T2, t
  <2>5. CASE IsState(net, t, r.at, r.todo, r.next, r.pending, k)
    <3>1. t.todo = <<>> /\ t.kept = k /\ t.at = "recv"
      BY <1>1, <2>5 DEF IsState
    <3>2. AllFlows(outs, put, T2, t)
      BY <2>3, <3>1 DEF AllFlows, Coming
    <3>3. TodoFlow(put, T2, t.todo) /\ KeptFlow(outs, put, T2, t.kept)
      BY <1>3, <3>1, NothingKept
    <3>4. StateFlow(net.workers[w], put, T2, cd, t)
      BY <1>1, <1>8, <3>1, <3>2, <3>3, FlowOf
    <3> QED BY <3>4 DEF T2, t
  <2> QED BY <2>1, <2>4, <2>5, Zenon
<1>9. CASE kind \in {"collect", "await"}
  <2>1. \/ IsState(net, t, r.at, r.todo, r.next, r.pending, k)
        \/ IsState(net, t, "done", r.todo, r.next, r.pending, k)
    BY <1>2, <1>9 DEF ReceivedIs
  <2>2. outs = <<>>
    BY <1>1, <1>9 DEF Stage
  <2> HIDE DEF k, t, T2
  <2>3. t.todo = <<>> /\ t.kept = k
    BY <1>1, <2>1 DEF IsState
  <2>4. KeepsAll(T2, k)
    <3>1. KeepsAll(T, r.kept)
      BY <1>1, <1>9 DEF StateFlow
    <3> QED BY <1>3, <1>a, <3>1 DEF KeepsAll
  <2>5. AllFlows(outs, put, T2, t) /\ DoneFlow(kind, outs, put, T2, t)
    BY <2>2 DEF AllFlows, DoneFlow
  <2>6. TodoFlow(put, T2, t.todo) /\ KeptFlow(outs, put, T2, t.kept)
    BY <1>3, <2>3, NothingKept
  <2>7. StateFlow(net.workers[w], put, T2, cd, t)
    BY <1>1, <1>9, <2>3, <2>4, <2>5, <2>6, FlowOf
  <2> QED BY <2>7 DEF T2, t
<1>10. CASE kind = "ordered"
  <2>1. PICK i \in Nat : OrderedTakes(w, x, i)
    BY <1>2, <1>10 DEF ReceivedIs
  <2>2. Indexed(x) /\ Pos(x) = {x.index + 1}
    BY <1>10 DEF Indexed, Pos
  <2>3. x.index + 1 \notin T /\ T2 = T \cup {x.index + 1}
    BY <1>a, <1>b, <2>2
  <2>4. OrderedFlow(outs, put, T, r)
    BY <1>1, <1>10 DEF StateFlow
  <2>5. OrderedFlow(outs, put, T2, t) /\ TodoFlow(put, T2, t.todo) /\ t.at # "done"
    BY <1>10, <2>1, <2>3, <2>4, OrderedFlows
  <2>6. t.kept = r.kept
    BY <2>1, Zenon DEF OrderedTakes, IsState
  <2>7. KeptFlow(outs, put, T2, t.kept)
    BY <1>1, <1>10, <2>6, NothingKept
  <2> HIDE DEF t, T2
  <2>8. StateFlow(net.workers[w], put, T2, cd, t)
    BY <1>1, <1>10, <2>5, <2>7 DEF StateFlow
  <2> QED BY <2>8 DEF T2, t
<1> QED BY <1>1, <1>6, <1>7, <1>8, <1>9, <1>10 DEF Kinds

(* A goroutine that sees the end of its input keeps its part of the flow.  *)
LEMMA EndingFlow ==
  ASSUME net \in Nets, NEW w \in Workers, WorkerShape(net, w, st[w]), st[w].at = "recv",
         NEW put, NEW T, NEW cd, StateFlow(net.workers[w], put, T, cd, st[w])
  PROVE  StateFlow(net.workers[w], put, T, cd, InputEnded(w))
<1> DEFINE r == st[w]
           t == InputEnded(w)
           outs == Outs(w)
           kind == Kind(w)
<1>1. /\ Stage(net, w) /\ r \in States(net) /\ r.todo = <<>> /\ r.kept \in Seq(Nat)
      /\ r.next \in Nat /\ kind \in Kinds /\ kind # "source"
      /\ kind = net.workers[w].kind /\ outs = net.workers[w].outs
      /\ kind \notin {"collect", "await", "window"} => r.kept = <<>>
  BY Stages, StateTypes DEF Workers, WorkerShape, Stage, Kind, Outs
<1>2. EndedIs(w)
  BY <1>1, Ending
<1>3. /\ KeptFlow(outs, put, T, r.kept)
      /\ kind \in {"collect", "await"} => KeepsAll(T, r.kept)
      /\ kind = "ordered" => OrderedFlow(outs, put, T, r)
      /\ kind # "ordered" => AllFlows(outs, put, T, r)
  BY <1>1 DEF StateFlow, HasEnded
<1>4. kind # "ordered" =>
        \A j \in DOMAIN outs : \A i \in T : i \in put[outs[j]] \/ \E l \in DOMAIN r.kept : r.kept[l] = i
  BY <1>1, <1>3 DEF AllFlows, Coming
<1>a. SUFFICES StateFlow(net.workers[w], put, T, cd, t)
  OBVIOUS
<1>5. CASE kind = "window" /\ r.kept # <<>>
  <2>1. IsState(net, t, "last", ToAll(w, Batch(r.kept)), r.next, r.pending, <<>>)
    BY <1>2, <1>5 DEF EndedIs
  <2> HIDE DEF t
  <2>2. t.todo = ToAll(w, Batch(r.kept)) /\ t.kept = <<>> /\ t.at = "last"
    BY <2>1 DEF IsState
  <2>3. /\ TodoFlow(put, T, t.todo)
        /\ \A j \in DOMAIN outs : \A i \in DOMAIN r.kept : Coming(put, t.todo, outs[j], r.kept[i])
    BY <1>1, <1>3, <1>5, <2>2, BatchFlow
  <2>4. AllFlows(outs, put, T, t)
    <3>1. ASSUME NEW j \in DOMAIN outs, NEW i \in T PROVE Coming(put, t.todo, outs[j], i)
      <4>1. CASE i \in put[outs[j]]
        BY <4>1 DEF Coming
      <4>2. CASE \E l \in DOMAIN r.kept : r.kept[l] = i
        BY <2>3, <4>2
      <4> QED BY <1>4, <1>5, <4>1, <4>2
    <3> QED BY <3>1 DEF AllFlows
  <2>5. KeptFlow(outs, put, T, t.kept)
    BY <2>2, NothingKept
  <2> QED BY <1>1, <1>5, <2>2, <2>3, <2>4, <2>5, FlowOf
<1>6. CASE ~ (kind = "window" /\ r.kept # <<>>)
  <2>1. IsState(net, t, "done", r.todo, r.next, r.pending, r.kept)
    BY <1>2, <1>6 DEF EndedIs
  <2> HIDE DEF t
  <2>2. /\ t.todo = <<>> /\ t.kept = r.kept /\ t.at = "done" /\ t.next = r.next
        /\ t.pending = r.pending
    BY <1>1, <2>1 DEF IsState
  <2>3. TodoFlow(put, T, t.todo) /\ KeptFlow(outs, put, T, t.kept)
    BY <1>3, <2>2, NothingKept
  <2>4. CASE kind = "ordered"
    <3>1. OrderedFlow(outs, put, T, r)
      BY <1>3, <2>4
    <3>2. Beyond(t.next, T, t.pending)
      BY <2>2, <3>1 DEF OrderedFlow
    <3>3. OrderedFlow(outs, put, T, t)
      BY <2>2, <3>2 DEF OrderedFlow, HasEnded
    <3>4. put[outs[1]] = 1..t.next
      <4>1. put[outs[1]] = 1..(r.next - Len(<<>>))
        BY <1>1, <3>1 DEF OrderedFlow, HasEnded
      <4>2. r.next - Len(<<>>) = r.next
        BY <1>1
      <4> QED BY <2>2, <4>1, <4>2
    <3>5. DOMAIN outs = {1}
      BY <1>1, <2>4, OnlyOne DEF Stage
    <3>6. DoneFlow(kind, outs, put, T, t)
      BY <2>4, <3>4, <3>5 DEF DoneFlow
    <3> QED BY <1>1, <2>3, <2>4, <3>3, <3>6 DEF StateFlow
  <2>5. CASE kind \in {"collect", "await"}
    <3>1. outs = <<>>
      BY <1>1, <2>5 DEF Stage
    <3>2. AllFlows(outs, put, T, t) /\ DoneFlow(kind, outs, put, T, t)
      BY <3>1 DEF AllFlows, DoneFlow
    <3>3. KeepsAll(T, t.kept)
      BY <1>3, <2>2, <2>5
    <3> QED BY <1>1, <2>3, <2>5, <3>2, <3>3, FlowOf
  <2>6. CASE kind \notin {"ordered", "collect", "await"}
    <3>1. \A j \in DOMAIN outs : T \subseteq put[outs[j]]
      BY <1>1, <1>4, <1>6, <2>6
    <3>2. AllFlows(outs, put, T, t) /\ DoneFlow(kind, outs, put, T, t)
      BY <2>6, <3>1 DEF AllFlows, Coming, DoneFlow
    <3> QED BY <1>1, <2>3, <2>6, <3>2, FlowOf
  <2> QED BY <2>4, <2>5, <2>6
<1> QED BY <1>5, <1>6, Zenon

(* A goroutine that gives up, after a cancellation or for its limiter,     *)
(* promises no more.                                                       *)
LEMMA GivenUpFlow ==
  ASSUME NEW w \in Workers, WorkerShape(net, w, st[w]), Sending(w),
         NEW put, NEW T, NEW cd, StateFlow(net.workers[w], put, T, cd, st[w]), NEW a,
         \/ a = "done" /\ cd
         \/ a = "cut"
  PROVE  StateFlow(net.workers[w], put, T, cd, [st[w] EXCEPT !.at = a, !.todo = <<>>])
<1> DEFINE t == [st[w] EXCEPT !.at = a, !.todo = <<>>]
           r == st[w]
           g == net.workers[w]
<1>1. r \in States(net) /\ r.at # "cut"
  BY DEF WorkerShape, Sending
<1>2. IsState(net, t, a, <<>>, r.next, r.pending, r.kept)
  BY <1>1, GivenUp
<1> HIDE DEF t
<1>3. /\ t.todo = <<>> /\ t.kept = r.kept /\ t.at = a /\ t.next = r.next
      /\ t.pending = r.pending /\ HasEnded(t)
  BY <1>2 DEF IsState, HasEnded
<1>4. g.kind = "ordered" => OrderedFlow(g.outs, put, T, t)
  BY <1>1, <1>3 DEF StateFlow, OrderedFlow
<1>5. TodoFlow(put, T, t.todo)
  BY <1>3, NothingKept
<1>6. StateFlow(g, put, T, cd, t)
  BY <1>3, <1>4, <1>5 DEF StateFlow
<1> QED BY <1>6 DEF t

(* A goroutine that leaves keeps its part of the flow.                     *)
LEMMA LeavesFlow ==
  ASSUME ShapeNow, NEW w \in Workers, NEW t, Leaves(w, t), NEW put, NEW T,
         StateFlow(net.workers[w], put, T, ctxDone, st[w])
  PROVE  StateFlow(net.workers[w], put, T, ctxDone, t)
<1>1. net \in Nets /\ WorkerShape(net, w, st[w])
  BY HeldNow
<1>2. CASE SeeClosed(w) /\ t = InputEnded(w)
  BY <1>1, <1>2, EndingFlow DEF SeeClosed
<1>3. CASE SeeCtxDone(w) /\ t = [st[w] EXCEPT !.at = "done", !.todo = <<>>]
  <2>1. Sending(w) /\ ctxDone
    BY <1>3 DEF SeeCtxDone
  <2> QED BY <1>1, <1>3, <2>1, GivenUpFlow
<1>4. CASE LimiterRefuses(w) /\ t = [st[w] EXCEPT !.at = "cut", !.todo = <<>>]
  <2>1. Sending(w)
    BY <1>4 DEF LimiterRefuses
  <2> QED BY <1>1, <1>4, <2>1, GivenUpFlow
<1> QED BY <1>2, <1>3, <1>4, Zenon DEF Leaves

(* What others put on their channels leaves a goroutine's part as it is.   *)
LEMMA FlowFrame ==
  ASSUME NEW n, NEW w, Stage(n, w), NEW r, WorkerShape(n, w, r),
         NEW put, NEW put2, NEW T, NEW cd, StateFlow(n.workers[w], put, T, cd, r),
         \A j \in DOMAIN n.workers[w].outs :
           LET d == n.workers[w].outs[j] IN
           /\ put[d] \subseteq put2[d] /\ T \cap put2[d] = T \cap put[d]
           /\ n.workers[w].kind = "ordered" => put2[d] = put[d]
  PROVE  StateFlow(n.workers[w], put2, T, cd, r)
<1> DEFINE outs == n.workers[w].outs
           kind == n.workers[w].kind
<1>1. /\ \A j \in DOMAIN outs : /\ put[outs[j]] \subseteq put2[outs[j]]
                                /\ \A i \in T : i \in put2[outs[j]] => i \in put[outs[j]]
                                /\ kind = "ordered" => put2[outs[j]] = put[outs[j]]
      /\ \A i \in DOMAIN r.todo : \E j \in DOMAIN outs : outs[j] = r.todo[i].to
  <2>1. \A i \in DOMAIN r.todo : \E j \in DOMAIN outs : outs[j] = r.todo[i].to
    BY DEF WorkerShape
  <2> QED BY <2>1
<1> HIDE DEF outs, kind
<1>2. TodoFlow(put2, T, r.todo)
  <2>1. TodoFlow(put, T, r.todo)
    BY DEF StateFlow
  <2>2. ASSUME NEW i \in DOMAIN r.todo PROVE Pos(r.todo[i].item) \cap put2[r.todo[i].to] = {}
    <3>1. PICK j \in DOMAIN outs : outs[j] = r.todo[i].to
      BY <1>1
    <3>2. /\ Pos(r.todo[i].item) \subseteq T
          /\ Pos(r.todo[i].item) \cap put[outs[j]] = {}
      BY <2>1, <3>1 DEF TodoFlow
    <3>3. Pos(r.todo[i].item) \cap put2[outs[j]] = {}
      BY <1>1, <3>2
    <3> QED BY <3>1, <3>3
  <2> QED BY <2>1, <2>2 DEF TodoFlow
<1>3. KeptFlow(outs, put2, T, r.kept)
  <2>1. KeptFlow(outs, put, T, r.kept)
    BY DEF StateFlow, outs
  <2> QED BY <1>1, <2>1 DEF KeptFlow
<1>4. kind = "ordered" => OrderedFlow(outs, put2, T, r)
  <2>1. SUFFICES ASSUME kind = "ordered" PROVE OrderedFlow(outs, put2, T, r)
    OBVIOUS
  <2>2. OrderedFlow(outs, put, T, r)
    BY <2>1 DEF StateFlow, outs, kind
  <2>3. 1 \in DOMAIN outs
    BY <2>1, OnlyOne DEF Stage, outs, kind
  <2>4. put2[outs[1]] = put[outs[1]]
    BY <1>1, <2>1, <2>3
  <2> QED BY <2>2, <2>4, Zenon DEF OrderedFlow
<1>5. AllFlows(outs, put, T, r) => AllFlows(outs, put2, T, r)
  BY <1>1 DEF AllFlows, Coming
<1>6. DoneFlow(kind, outs, put, T, r) => DoneFlow(kind, outs, put2, T, r)
  <2>1. SUFFICES ASSUME DoneFlow(kind, outs, put, T, r), NEW j \in DOMAIN outs
                 PROVE  IF kind = "ordered" THEN put2[outs[j]] = 1..r.next ELSE T \subseteq put2[outs[j]]
    BY DEF DoneFlow
  <2>2. CASE kind = "ordered"
    BY <1>1, <2>1, <2>2 DEF DoneFlow
  <2>3. CASE kind # "ordered"
    BY <1>1, <2>1, <2>3 DEF DoneFlow
  <2> QED BY <2>2, <2>3
<1> QED BY <1>2, <1>3, <1>4, <1>5, <1>6 DEF StateFlow, outs, kind

-----------------------------------------------------------------------------
(* Flow: the steps keep it. *)

(* Items of a channel that one is appended to, or whose head is taken.     *)
LEMMA AppendItems ==
  ASSUME NEW q \in Seq(Thing), NEW x \in Thing
  PROVE  \E n : /\ n \notin DOMAIN q /\ Append(q, x)[n] = x /\ n \in DOMAIN Append(q, x)
                /\ \A i \in DOMAIN Append(q, x) : i = n \/ (i \in DOMAIN q /\ Append(q, x)[i] = q[i])
                /\ \A i \in DOMAIN q : i \in DOMAIN Append(q, x) /\ Append(q, x)[i] = q[i]
<1>1. PICK n \in Nat : DOMAIN q = 1..n /\ Len(q) = n
  BY Indices, Zenon
<1>2. /\ Append(q, x) \in Seq(Thing) /\ Len(Append(q, x)) = Len(q) + 1
      /\ Append(q, x)[Len(q) + 1] = x
      /\ \A i \in 1..Len(q) : Append(q, x)[i] = q[i]
  BY AppendIs
<1>3. PICK m \in Nat : DOMAIN Append(q, x) = 1..m /\ Len(Append(q, x)) = m
  BY <1>2, Indices, Zenon
<1>4. m = n + 1 /\ Append(q, x)[n + 1] = x /\ \A i \in 1..n : Append(q, x)[i] = q[i]
  BY <1>1, <1>2, <1>3, Zenon
<1>5. /\ n + 1 \notin DOMAIN q /\ Append(q, x)[n + 1] = x /\ n + 1 \in DOMAIN Append(q, x)
      /\ \A i \in DOMAIN Append(q, x) :
           i = n + 1 \/ (i \in DOMAIN q /\ Append(q, x)[i] = q[i])
      /\ \A i \in DOMAIN q : i \in DOMAIN Append(q, x) /\ Append(q, x)[i] = q[i]
  <2> DEFINE a == Append(q, x)
  <2>1. DOMAIN q = 1..n /\ DOMAIN a = 1..m /\ m = n + 1 /\ a[n + 1] = x
        /\ \A i \in 1..n : a[i] = q[i]
    BY <1>1, <1>3, <1>4
  <2> HIDE DEF a
  <2>2. /\ n + 1 \notin DOMAIN q /\ a[n + 1] = x /\ n + 1 \in DOMAIN a
        /\ \A i \in DOMAIN a : i = n + 1 \/ (i \in DOMAIN q /\ a[i] = q[i])
        /\ \A i \in DOMAIN q : i \in DOMAIN a /\ a[i] = q[i]
    BY <2>1
  <2> QED BY <2>2 DEF a
<1> QED BY <1>5

(* What is left once the head is taken is what came after it.              *)
LEMMA TailItems ==
  ASSUME NEW q \in Seq(Thing), q # <<>>
  PROVE  /\ 1 \in DOMAIN q /\ Head(q) = q[1]
         /\ \A i \in DOMAIN Tail(q) : i + 1 \in DOMAIN q /\ Tail(q)[i] = q[i + 1] /\ i \in Nat /\ i + 1 # 1
         /\ \A i \in DOMAIN q : i # 1 => i - 1 \in DOMAIN Tail(q) /\ Tail(q)[i - 1] = q[i]
OBVIOUS

(* The item x, new to the channel c, is put there by one of its writers.   *)
Arrives(n, put, put2, took, c, x) ==
  /\ OneToOne(x.from) /\ Pos(x) \cap put[c] = {} /\ put2[c] = put[c] \cup Pos(x)
  /\ \E w \in DOMAIN n.workers : Sends(n, w, c) /\ Pos(x) \subseteq took[w]

(* A channel that is given a new item keeps its part of the flow.          *)
LEMMA ChannelPut ==
  ASSUME NEW n, NEW put, NEW put2, NEW took, NEW c, NEW q \in Seq(Thing), NEW x \in Thing,
         ChannelFlow(n, put, took, c, q), Arrives(n, put, put2, took, c, x)
  PROVE  ChannelFlow(n, put2, took, c, Append(q, x))
<1> DEFINE a == Append(q, x)
<1>0. /\ OneToOne(x.from) /\ Pos(x) \cap put[c] = {} /\ put2[c] = put[c] \cup Pos(x)
      /\ \E w \in DOMAIN n.workers : Sends(n, w, c) /\ Pos(x) \subseteq took[w]
  BY DEF Arrives
<1>1. PICK l : /\ l \notin DOMAIN q /\ a[l] = x /\ l \in DOMAIN a
               /\ \A i \in DOMAIN a : i = l \/ (i \in DOMAIN q /\ a[i] = q[i])
               /\ \A i \in DOMAIN q : i \in DOMAIN a /\ a[i] = q[i]
  BY AppendItems
<1> HIDE DEF a
<1>2. \A r \in DOMAIN n.workers : n.workers[r].in = c => took[r] \subseteq put[c] /\ Pos(x) \cap took[r] = {}
  BY <1>0 DEF ChannelFlow
<1>3. \A i \in DOMAIN q : Pos(q[i]) \subseteq put[c] /\ Pos(x) \cap Pos(q[i]) = {}
  BY <1>0 DEF ChannelFlow
<1>4. ASSUME NEW i \in DOMAIN a
      PROVE  /\ OneToOne(a[i].from) /\ Pos(a[i]) \subseteq put2[c]
             /\ \A r \in DOMAIN n.workers : n.workers[r].in = c => Pos(a[i]) \cap took[r] = {}
  <2>1. CASE i = l
    BY <1>0, <1>1, <1>2, <2>1
  <2>2. CASE i # l
    <3>1. i \in DOMAIN q /\ a[i] = q[i]
      BY <1>1, <2>2
    <3> QED BY <1>0, <1>3, <3>1 DEF ChannelFlow
  <2> QED BY <2>1, <2>2
<1>5. ASSUME NEW i \in DOMAIN a, NEW j \in DOMAIN a, i # j PROVE Pos(a[i]) \cap Pos(a[j]) = {}
  <2>1. CASE i = l
    BY <1>1, <1>3, <1>5, <2>1
  <2>2. CASE j = l
    BY <1>1, <1>3, <1>5, <2>2
  <2>3. CASE i # l /\ j # l
    <3>1. i \in DOMAIN q /\ a[i] = q[i] /\ j \in DOMAIN q /\ a[j] = q[j]
      BY <1>1, <2>3
    <3> QED BY <1>5, <3>1 DEF ChannelFlow
  <2> QED BY <2>1, <2>2, <2>3
<1>6. ASSUME NEW k \in put2[c]
      PROVE  /\ \/ \E i \in DOMAIN a : k \in Pos(a[i])
                \/ \E r \in DOMAIN n.workers : n.workers[r].in = c /\ k \in took[r]
             /\ \E w \in DOMAIN n.workers : Sends(n, w, c) /\ k \in took[w]
  <2>1. CASE k \in Pos(x)
    BY <1>0, <1>1, <2>1
  <2>2. CASE k \in put[c]
    <3>1. /\ \/ \E i \in DOMAIN q : k \in Pos(q[i])
             \/ \E r \in DOMAIN n.workers : n.workers[r].in = c /\ k \in took[r]
          /\ \E w \in DOMAIN n.workers : Sends(n, w, c) /\ k \in took[w]
      BY <2>2 DEF ChannelFlow
    <3> QED BY <1>1, <3>1
  <2> QED BY <1>0, <2>1, <2>2
<1>7. \A r, v \in DOMAIN n.workers :
        n.workers[r].in = c /\ n.workers[v].in = c /\ r # v => took[r] \cap took[v] = {}
  BY DEF ChannelFlow
<1>8. \A r \in DOMAIN n.workers : n.workers[r].in = c => took[r] \subseteq put2[c]
  BY <1>0, <1>2
<1>9. ChannelFlow(n, put2, took, c, a)
  BY <1>4, <1>5, <1>6, <1>7, <1>8 DEF ChannelFlow
<1> QED BY <1>9 DEF a

(* A channel whose head one reader takes keeps its part of the flow.       *)
LEMMA ChannelTake ==
  ASSUME NEW n, NEW put, NEW took, NEW took2, NEW c, NEW q \in Seq(Thing), q # <<>>,
         ChannelFlow(n, put, took, c, q), NEW w \in DOMAIN n.workers, n.workers[w].in = c,
         took2[w] = took[w] \cup Pos(Head(q)),
         \A v \in DOMAIN n.workers : v # w => took2[v] = took[v]
  PROVE  ChannelFlow(n, put, took2, c, Tail(q))
<1> DEFINE a == Tail(q)
           x == Head(q)
<1>1. /\ 1 \in DOMAIN q /\ x = q[1]
      /\ \A i \in DOMAIN a : i + 1 \in DOMAIN q /\ a[i] = q[i + 1] /\ i \in Nat /\ i + 1 # 1
      /\ \A i \in DOMAIN q : i # 1 => i - 1 \in DOMAIN a /\ a[i - 1] = q[i]
  BY TailItems
<1> HIDE DEF a, x
<1>0. took2[w] = took[w] \cup Pos(x)
  BY DEF x
<1>2. /\ Pos(x) \subseteq put[c]
      /\ \A r \in DOMAIN n.workers : n.workers[r].in = c => Pos(x) \cap took[r] = {}
  BY <1>1 DEF ChannelFlow
<1>3. \A i \in DOMAIN q : i # 1 => Pos(q[i]) \cap Pos(x) = {}
  BY <1>1 DEF ChannelFlow
<1>4. ASSUME NEW i \in DOMAIN a
      PROVE  /\ OneToOne(a[i].from) /\ Pos(a[i]) \subseteq put[c]
             /\ \A r \in DOMAIN n.workers : n.workers[r].in = c => Pos(a[i]) \cap took2[r] = {}
  <2>1. i + 1 \in DOMAIN q /\ a[i] = q[i + 1] /\ i + 1 # 1
    BY <1>1
  <2>2. /\ OneToOne(a[i].from) /\ Pos(a[i]) \subseteq put[c]
        /\ \A r \in DOMAIN n.workers : n.workers[r].in = c => Pos(a[i]) \cap took[r] = {}
        /\ Pos(a[i]) \cap Pos(x) = {}
    BY <1>3, <2>1 DEF ChannelFlow
  <2>3. ASSUME NEW r \in DOMAIN n.workers, n.workers[r].in = c PROVE Pos(a[i]) \cap took2[r] = {}
    <3>1. CASE r = w
      BY <1>0, <2>2, <3>1
    <3>2. CASE r # w
      BY <2>2, <2>3, <3>2
    <3> QED BY <3>1, <3>2
  <2> QED BY <2>2, <2>3
<1>5. ASSUME NEW i \in DOMAIN a, NEW j \in DOMAIN a, i # j PROVE Pos(a[i]) \cap Pos(a[j]) = {}
  <2>1. /\ i + 1 \in DOMAIN q /\ a[i] = q[i + 1] /\ i \in Nat
        /\ j + 1 \in DOMAIN q /\ a[j] = q[j + 1] /\ j \in Nat
    BY <1>1
  <2>2. i + 1 # j + 1
    BY <1>5, <2>1
  <2> QED BY <2>1, <2>2 DEF ChannelFlow
<1>6. ASSUME NEW k \in put[c]
      PROVE  /\ \/ \E i \in DOMAIN a : k \in Pos(a[i])
                \/ \E r \in DOMAIN n.workers : n.workers[r].in = c /\ k \in took2[r]
             /\ \E v \in DOMAIN n.workers : Sends(n, v, c) /\ k \in took2[v]
  <2>1. \A r \in DOMAIN n.workers : took[r] \subseteq took2[r]
    BY <1>0
  <2>2. /\ \/ \E i \in DOMAIN q : k \in Pos(q[i])
           \/ \E r \in DOMAIN n.workers : n.workers[r].in = c /\ k \in took[r]
        /\ \E v \in DOMAIN n.workers : Sends(n, v, c) /\ k \in took[v]
    BY DEF ChannelFlow
  <2>3. ASSUME NEW i \in DOMAIN q, k \in Pos(q[i])
        PROVE  \/ \E j \in DOMAIN a : k \in Pos(a[j])
               \/ \E r \in DOMAIN n.workers : n.workers[r].in = c /\ k \in took2[r]
    <3>1. CASE i = 1
      BY <1>0, <1>1, <2>3, <3>1
    <3>2. CASE i # 1
      <4>1. i - 1 \in DOMAIN a /\ a[i - 1] = q[i]
        BY <1>1, <3>2
      <4> QED BY <2>3, <4>1
    <3> QED BY <3>1, <3>2
  <2> QED BY <2>1, <2>2, <2>3
<1>7. ASSUME NEW r \in DOMAIN n.workers, NEW v \in DOMAIN n.workers,
             n.workers[r].in = c, n.workers[v].in = c, r # v
      PROVE  took2[r] \cap took2[v] = {}
  <2>1. took[r] \cap took[v] = {} /\ Pos(x) \cap took[r] = {} /\ Pos(x) \cap took[v] = {}
    BY <1>2, <1>7 DEF ChannelFlow
  <2> QED BY <1>0, <1>7, <2>1
<1>8. \A r \in DOMAIN n.workers : n.workers[r].in = c => took2[r] \subseteq put[c]
  BY <1>0, <1>2 DEF ChannelFlow
<1>9. ChannelFlow(n, put, took2, c, a)
  BY <1>4, <1>5, <1>6, <1>7, <1>8 DEF ChannelFlow
<1> QED BY <1>9 DEF a

(* Channels that are not concerned.                                        *)
LEMMA ChannelFrame ==
  ASSUME NEW n, NEW put, NEW put2, NEW took, NEW took2, NEW d, NEW q,
         ChannelFlow(n, put, took, d, q), put2[d] = put[d],
         \A v \in DOMAIN n.workers : /\ took[v] \subseteq took2[v]
                                     /\ n.workers[v].in = d => took2[v] = took[v]
  PROVE  ChannelFlow(n, put2, took2, d, q)
<1>1. \A r \in DOMAIN n.workers : n.workers[r].in = d => took2[r] = took[r]
  OBVIOUS
<1>2. /\ \A i \in DOMAIN q :
           /\ OneToOne(q[i].from) /\ Pos(q[i]) \subseteq put2[d]
           /\ \A r \in DOMAIN n.workers : n.workers[r].in = d => Pos(q[i]) \cap took2[r] = {}
      /\ \A i, j \in DOMAIN q : i # j => Pos(q[i]) \cap Pos(q[j]) = {}
      /\ \A r \in DOMAIN n.workers : n.workers[r].in = d => took2[r] \subseteq put2[d]
  BY <1>1 DEF ChannelFlow
<1>3. \A r, v \in DOMAIN n.workers :
        n.workers[r].in = d /\ n.workers[v].in = d /\ r # v => took2[r] \cap took2[v] = {}
  BY <1>1 DEF ChannelFlow
<1>4. ASSUME NEW k \in put2[d]
      PROVE  /\ \/ \E i \in DOMAIN q : k \in Pos(q[i])
                \/ \E r \in DOMAIN n.workers : n.workers[r].in = d /\ k \in took2[r]
             /\ \E v \in DOMAIN n.workers : Sends(n, v, d) /\ k \in took2[v]
  <2>1. /\ \/ \E i \in DOMAIN q : k \in Pos(q[i])
           \/ \E r \in DOMAIN n.workers : n.workers[r].in = d /\ k \in took[r]
        /\ \E v \in DOMAIN n.workers : Sends(n, v, d) /\ k \in took[v]
    BY DEF ChannelFlow
  <2> QED BY <2>1
<1> QED BY <1>2, <1>3, <1>4 DEF ChannelFlow

(* Two goroutines that send on the same channel read the same one, and     *)
(* take different items from it.                                           *)
LEMMA WritersApart ==
  ASSUME NEW n \in Nets, OneRoute(n), NEW put, NEW took, NEW b,
         \A c \in DOMAIN n.cap : ChannelFlow(n, put, took, c, b[c]),
         NEW v \in DOMAIN n.workers, NEW w \in DOMAIN n.workers, v # w,
         NEW d, Sends(n, v, d), Sends(n, w, d)
  PROVE  took[v] \cap took[w] = {} /\ n.workers[v].kind = "pass" /\ n.workers[v].in = n.workers[w].in
         /\ n.workers[w].in \in DOMAIN n.cap
<1>1. n.workers[v].in = n.workers[w].in
  BY DEF OneRoute, Sends
<1>2. n.workers[v].kind = "pass" /\ n.workers[w].kind = "pass"
  BY <1>1 DEF OneRoute
<1>3. n.workers[w].in \in DOMAIN n.cap
  BY <1>2, Stages DEF Stage
<1>4. ChannelFlow(n, put, took, n.workers[w].in, b[n.workers[w].in])
  BY <1>3
<1>5. took[v] \cap took[w] = {}
  BY <1>1, <1>4 DEF ChannelFlow
<1> QED BY <1>1, <1>2, <1>3, <1>5

(* The flow of a network, by its parts.                                    *)
LEMMA FlowsAre ==
  ASSUME Held(net, buf, st), NEW put, NEW took, NEW b, NEW s, NEW cl, NEW cd
  PROVE  Flows(net, put, took, b, s, cl, cd) <=>
           /\ put \in [Channels -> SUBSET Nat] /\ took \in [Workers -> SUBSET Nat]
           /\ \A c \in Channels : ChannelFlow(net, put, took, c, b[c])
           /\ \A w \in Workers : StateFlow(net.workers[w], put, took[w], cd, s[w])
           /\ Full(net, put, s, cl, cd)
BY DEF Flows, Channels, Workers, WorkerFlow

(* A put keeps the flow.                                                   *)
LEMMA PutFlow ==
  ASSUME Held(net, buf, st), OneRoute(net), NEW put, NEW took, NEW cl, NEW cd,
         Flows(net, put, took, buf, st, cl, cd),
         NEW w \in Workers, NEW b2, NEW s2, Puts(w, b2, s2)
  PROVE  \E put2 : Flows(net, put2, took, b2, s2, cl, cd)
<1> DEFINE c == Head(st[w].todo).to
           x == Head(st[w].todo).item
           put2 == [put EXCEPT ![c] = put[c] \cup Pos(x)]
<1>1. /\ net \in Nets /\ w \in DOMAIN net.workers /\ WorkerShape(net, w, st[w]) /\ Sending(w)
      /\ DOMAIN st = Workers /\ buf \in [Channels -> Seq(Thing)]
  BY DEF Held, Workers, Puts, Channels
<1>2. /\ c \in Channels /\ x \in Thing /\ Sends(net, w, c)
      /\ Head(st[w].todo) = st[w].todo[1] /\ 1 \in DOMAIN st[w].todo
  BY <1>1, FirstMsg
<1>3. /\ put \in [Channels -> SUBSET Nat] /\ took \in [Workers -> SUBSET Nat]
      /\ \A d \in Channels : ChannelFlow(net, put, took, d, buf[d])
      /\ \A v \in Workers : StateFlow(net.workers[v], put, took[v], cd, st[v])
      /\ Full(net, put, st, cl, cd)
  BY FlowsAre
<1>4. OneToOne(x.from) /\ Pos(x) \subseteq took[w] /\ Pos(x) \cap put[c] = {}
  <2>1. TodoFlow(put, took[w], st[w].todo)
    BY <1>3 DEF StateFlow
  <2> QED BY <1>2, <2>1 DEF TodoFlow
<1>5. /\ b2 = [buf EXCEPT ![c] = Append(buf[c], x)] /\ s2 = [st EXCEPT ![w] = SentFirst(w)]
  BY DEF Puts
<1>6. put2 \in [Channels -> SUBSET Nat]
  BY <1>2, <1>3, PosIn
<1>7. put2[c] = put[c] \cup Pos(x) /\ \A d \in Channels : d # c => put2[d] = put[d]
  BY <1>2, <1>3
<1> HIDE DEF put2
<1>8. Adds(put, put2, c, x)
  BY <1>7 DEF Adds
<1>9. ASSUME NEW d \in Channels PROVE ChannelFlow(net, put2, took, d, b2[d])
  <2>1. CASE d = c
    <3>1. b2[d] = Append(buf[d], x) /\ buf[d] \in Seq(Thing)
      BY <1>1, <1>5, <2>1
    <3>2. ChannelFlow(net, put, took, d, buf[d])
      BY <1>3
    <3>3. Sends(net, w, d) /\ w \in DOMAIN net.workers /\ x \in Thing
      BY <1>1, <1>2, <2>1
    <3>4. OneToOne(x.from) /\ Pos(x) \subseteq took[w] /\ Pos(x) \cap put[d] = {}
          /\ put2[d] = put[d] \cup Pos(x)
      BY <1>4, <1>7, <2>1
    <3> HIDE DEF c, x
    <3>5. Arrives(net, put, put2, took, d, x)
      BY <3>3, <3>4 DEF Arrives
    <3>6. ChannelFlow(net, put2, took, d, Append(buf[d], x))
      BY <3>1, <3>2, <3>3, <3>5, ChannelPut, Zenon
    <3> QED BY <3>1, <3>6
  <2>2. CASE d # c
    <3>1. b2[d] = buf[d] /\ put2[d] = put[d]
      BY <1>1, <1>5, <1>7, <2>2
    <3>2. ChannelFlow(net, put, took, d, buf[d])
      BY <1>3
    <3> QED BY <3>1, <3>2, ChannelFrame
  <2> QED BY <2>1, <2>2
<1>10. ASSUME NEW v \in Workers PROVE StateFlow(net.workers[v], put2, took[v], cd, s2[v])
  <2>1. CASE v = w
    <3>1. StateFlow(net.workers[w], put2, took[w], cd, SentFirst(w))
      BY <1>1, <1>3, <1>8, SentFlow
    <3> QED BY <1>1, <1>5, <2>1, <3>1
  <2>2. CASE v # w
    <3>1. s2[v] = st[v] /\ WorkerShape(net, v, st[v]) /\ Stage(net, v) /\ v \in DOMAIN net.workers
      BY <1>1, <1>5, <2>2, Stages DEF Held, Workers
    <3>2. ASSUME NEW j \in DOMAIN net.workers[v].outs
          PROVE  LET d == net.workers[v].outs[j] IN
                 /\ put[d] \subseteq put2[d] /\ took[v] \cap put2[d] = took[v] \cap put[d]
                 /\ net.workers[v].kind = "ordered" => put2[d] = put[d]
      <4> DEFINE d == net.workers[v].outs[j]
      <4>1. d \in Channels /\ Sends(net, v, d)
        BY <3>1 DEF Stage, Channels, Sends
      <4>2. CASE d # c
        BY <1>7, <4>1, <4>2
      <4>3. CASE d = c
        <5>1. took[v] \cap took[w] = {} /\ net.workers[v].kind = "pass"
          BY <1>1, <1>2, <1>3, <2>2, <3>1, <4>1, <4>3, WritersApart DEF Channels
        <5>2. put2[d] = put[d] \cup Pos(x) /\ Pos(x) \subseteq took[w]
          BY <1>4, <1>7, <4>3
        <5> QED BY <5>1, <5>2
      <4> QED BY <4>2, <4>3
    <3>3. StateFlow(net.workers[v], put, took[v], cd, st[v])
      BY <1>3
    <3>4. StateFlow(net.workers[v], put2, took[v], cd, st[v])
      BY <3>1, <3>2, <3>3, FlowFrame
    <3> QED BY <3>1, <3>4
  <2> QED BY <2>1, <2>2
<1>11. Full(net, put2, s2, cl, cd)
  <2>1. \A v \in DOMAIN net.workers : st[v].at = "cut" => s2[v].at = "cut"
    <3>1. st[w].at # "cut"
      BY <1>1 DEF Sending
    <3> QED BY <1>1, <1>5, <3>1 DEF Workers
  <2>2. \A d \in Channels : put[d] \subseteq put2[d]
    BY <1>7
  <2>3. ASSUME NEW d \in cl, NEW v \in DOMAIN net.workers, net.workers[v].kind = "source",
               ~ cd, \A r \in DOMAIN net.workers : s2[r].at # "cut"
        PROVE  1..net.workers[v].n \subseteq put2[d]
    <3>1. 1..net.workers[v].n \subseteq put[d]
      BY <1>3, <2>1, <2>3 DEF Full
    <3>2. CASE d \in Channels
      BY <2>2, <3>1, <3>2
    <3>3. CASE d \notin Channels
      <4>1. put2[d] = put[d]
        BY <1>2, <1>3, <3>3 DEF put2
      <4> QED BY <3>1, <4>1
    <3> QED BY <3>2, <3>3
  <2> QED BY <2>3 DEF Full
<1>12. Flows(net, put2, took, b2, s2, cl, cd)
  BY <1>3, <1>6, <1>9, <1>10, <1>11, FlowsAre
<1> QED BY <1>12

(* A take keeps the flow.                                                  *)
LEMMA TakeFlow ==
  ASSUME Held(net, buf, st), NEW b, NEW s, Held(net, b, s), OneRoute(net),
         NEW put, NEW took, NEW cl, NEW cd, Flows(net, put, took, b, s, cl, cd),
         NEW w \in Workers, NEW b2, NEW s2, Takes(w, b, s, b2, s2),
         Kind(w) = "ordered" => \A y \in st[w].pending \cup {Head(b[In(w)])} : Indexed(y)
  PROVE  \E took2 : Flows(net, put, took2, b2, s2, cl, cd)
<1> DEFINE c == In(w)
           q == b[c]
           x == Head(q)
           took2 == [took EXCEPT ![w] = took[w] \cup Pos(x)]
<1>1. /\ net \in Nets /\ w \in DOMAIN net.workers /\ WorkerShape(net, w, st[w])
      /\ st[w].at = "recv" /\ DOMAIN s = Workers /\ b \in [Channels -> Seq(Thing)]
  BY DEF Held, Workers, Takes, Channels
<1>2. c \in Channels /\ c = net.workers[w].in /\ Kind(w) # "source" /\ Stage(net, w)
  BY <1>1, Input, Stages
<1>3. /\ put \in [Channels -> SUBSET Nat] /\ took \in [Workers -> SUBSET Nat]
      /\ \A d \in Channels : ChannelFlow(net, put, took, d, b[d])
      /\ \A v \in Workers : StateFlow(net.workers[v], put, took[v], cd, s[v])
      /\ Full(net, put, s, cl, cd)
  BY FlowsAre
<1>4. q \in Seq(Thing) /\ q # <<>> /\ 1 \in DOMAIN q /\ x = q[1] /\ x \in Thing
  <2>1. q \in Seq(Thing) /\ q # <<>>
    BY <1>1, <1>2 DEF Takes
  <2> QED BY <2>1, TailItems, ElementOf
<1>5. ChannelFlow(net, put, took, c, q)
  BY <1>2, <1>3
<1>6. /\ OneToOne(x.from)
      /\ \A r \in DOMAIN net.workers : net.workers[r].in = c => Pos(x) \cap took[r] = {}
  BY <1>4, <1>5 DEF ChannelFlow
<1> HIDE DEF x, q, c
<1>7. NewTo(Outs(w), put, took[w], x)
  <2>1. Pos(x) \cap took[w] = {}
    BY <1>1, <1>2, <1>6
  <2>2. ASSUME NEW j \in DOMAIN Outs(w) PROVE Pos(x) \cap put[Outs(w)[j]] = {}
    <3> DEFINE d == Outs(w)[j]
    <3>1. d \in Channels /\ Sends(net, w, d)
      BY <1>2 DEF Stage, Outs, Channels, Sends
    <3>2. ASSUME NEW k \in put[d] PROVE k \notin Pos(x)
      <4>1. PICK v \in DOMAIN net.workers : Sends(net, v, d) /\ k \in took[v]
        <5>1. ChannelFlow(net, put, took, d, b[d])
          BY <1>3, <3>1
        <5> HIDE DEF d
        <5> QED BY <3>2, <5>1 DEF ChannelFlow
      <4>2. net.workers[v].in = c
        <5>1. CASE v = w
          BY <1>2, <5>1
        <5>2. CASE v # w
          <6>1. Sends(net, v, d) /\ Sends(net, w, d)
            BY <3>1, <4>1
          <6> HIDE DEF d
          <6>2. net.workers[v].in = net.workers[w].in
            BY <1>1, <6>1 DEF OneRoute, Sends
          <6> QED BY <1>2, <6>2
        <5> QED BY <5>1, <5>2
      <4> QED BY <1>6, <4>1, <4>2
    <3> QED BY <3>2
  <2> QED BY <1>6, <2>1, <2>2 DEF NewTo
<1>8. /\ b2 = [b EXCEPT ![c] = Tail(q)] /\ s2 = [s EXCEPT ![w] = Received(w, x)] /\ s[w] = st[w]
  BY DEF Takes, c, q, x
<1>9. took2 \in [Workers -> SUBSET Nat]
  <2>1. Pos(x) \in SUBSET Nat
    BY <1>4, PosIn
  <2> QED BY <1>3, <2>1
<1>10. took2[w] = took[w] \cup Pos(x) /\ \A v \in Workers : v # w => took2[v] = took[v]
  BY <1>3
<1> HIDE DEF took2
<1>11. ASSUME NEW d \in Channels PROVE ChannelFlow(net, put, took2, d, b2[d])
  <2>1. CASE d = c
    <3>1. b2[d] = Tail(q)
      BY <1>1, <1>8, <2>1
    <3>2. took2[w] = took[w] \cup Pos(Head(q)) /\ \A v \in DOMAIN net.workers : v # w => took2[v] = took[v]
      BY <1>10 DEF x, Workers
    <3>3. net.workers[w].in = c
      BY <1>2
    <3>4. ChannelFlow(net, put, took2, c, Tail(q))
      BY <1>1, <1>4, <1>5, <3>2, <3>3, ChannelTake
    <3> QED BY <2>1, <3>1, <3>4
  <2>2. CASE d # c
    <3>1. b2[d] = b[d]
      BY <1>1, <1>8, <2>2
    <3>2. ChannelFlow(net, put, took, d, b[d])
      BY <1>3
    <3>3. \A v \in DOMAIN net.workers : /\ took[v] \subseteq took2[v]
                                        /\ net.workers[v].in = d => took2[v] = took[v]
      BY <1>2, <1>10, <2>2 DEF Workers
    <3> QED BY <3>1, <3>2, <3>3, ChannelFrame
  <2> QED BY <2>1, <2>2
<1>12. ASSUME NEW v \in Workers PROVE StateFlow(net.workers[v], put, took2[v], cd, s2[v])
  <2>1. CASE v = w
    <3>1. StateFlow(net.workers[w], put, took[w], cd, st[w])
      BY <1>3, <1>8
    <3>2. Kind(w) = "ordered" => \A y \in st[w].pending \cup {x} : Indexed(y)
      BY DEF x, q, c
    <3>3. StateFlow(net.workers[w], put, With(took[w], x), cd, Received(w, x))
      BY <1>1, <1>4, <1>7, <3>1, <3>2, ReceivedFlow
    <3>4. took2[w] = With(took[w], x) /\ s2[w] = Received(w, x)
      BY <1>1, <1>8, <1>10 DEF With
    <3> QED BY <2>1, <3>3, <3>4
  <2>2. CASE v # w
    <3>1. s2[v] = s[v] /\ took2[v] = took[v]
      BY <1>1, <1>8, <1>10, <2>2
    <3> QED BY <1>3, <3>1
  <2> QED BY <2>1, <2>2
<1>13. Full(net, put, s2, cl, cd)
  <2>1. \A v \in DOMAIN net.workers : s[v].at = "cut" => s2[v].at = "cut"
    BY <1>1, <1>8 DEF Workers
  <2> QED BY <1>3, <2>1 DEF Full
<1>14. Flows(net, put, took2, b2, s2, cl, cd)
  BY <1>3, <1>9, <1>11, <1>12, <1>13, FlowsAre
<1> QED BY <1>14

-----------------------------------------------------------------------------
(* Flow is kept by every step, and holds at the start. *)

(* What Ordered receives, and what waits there, bears its place in the     *)
(* source.                                                                 *)
LEMMA IndexedAt ==
  ASSUME Held(net, buf, st), NEW O \in SUBSET Channels, NEW Z, NEW X, NEW p, NEW g, NEW b, NEW s,
         InOrder(net, O, Z, X, p, g, b, s), NEW w \in Workers, Kind(w) = "ordered",
         Held(net, b, s), s[w] = st[w], b[In(w)] # <<>>
  PROVE  \A y \in st[w].pending \cup {Head(b[In(w)])} : Indexed(y)
<1> DEFINE c == In(w)
<1>1. net \in Nets /\ w \in DOMAIN net.workers /\ net.workers[w].kind = "ordered"
      /\ c = net.workers[w].in /\ net.workers[w].kind # "source"
  BY DEF Held, Workers, Kind, In
<1>2. c \in Channels
  BY <1>1, Stages DEF Stage, Channels
<1>3. IsArranged(net, O, Z, X)
  BY DEF InOrder
<1>4. c \in X
  BY <1>1, <1>3, Zenon DEF IsArranged
<1>5. b[c] \in Seq(Thing) /\ b[c] # <<>>
  BY <1>2 DEF Held, Channels
<1> HIDE DEF c
<1>6. Head(b[c]) = b[c][1] /\ 1 \in DOMAIN b[c]
  BY <1>5, TailItems
<1>7. ChannelOrder(O, Z, X, p, g, c, b[c])
  BY <1>2 DEF InOrder, Channels
<1>8. Fit(Z, X, c, Head(b[c]))
  BY <1>6, <1>7 DEF ChannelOrder
<1>9. Indexed(Head(b[c]))
  BY <1>4, <1>8 DEF Fit, Indexed
<1>10. WorkerOrder(net, O, Z, X, p, g, w, s[w])
  BY <1>1 DEF InOrder
<1>11. \A y \in st[w].pending : Indexed(y)
  BY <1>1, <1>10 DEF WorkerOrder, Indexed
<1> QED BY <1>9, <1>11 DEF c

(* A goroutine that leaves has sent what it took, or was told to give up.  *)
LEMMA LeaveFlow ==
  ASSUME ShapeNow, NEW put, NEW took, Flows(net, put, took, buf, st, closed, ctxDone),
         NEW w \in Workers, NEW t, Leaves(w, t)
  PROVE  Flows(net, put, took, buf, [st EXCEPT ![w] = t], closed, ctxDone)
<1> DEFINE s == [st EXCEPT ![w] = t]
<1>1. Held(net, buf, st) /\ DOMAIN st = Workers
  BY HeldNow
<1>2. /\ put \in [Channels -> SUBSET Nat] /\ took \in [Workers -> SUBSET Nat]
      /\ \A c \in Channels : ChannelFlow(net, put, took, c, buf[c])
      /\ \A v \in Workers : StateFlow(net.workers[v], put, took[v], ctxDone, st[v])
      /\ Full(net, put, st, closed, ctxDone)
  BY <1>1, FlowsAre
<1>3. (\A v \in Workers : v # w => s[v] = st[v]) /\ s[w] = t
  BY <1>1
<1> HIDE DEF s
<1>4. StateFlow(net.workers[w], put, took[w], ctxDone, t)
  BY <1>2, LeavesFlow
<1>5. \A v \in Workers : StateFlow(net.workers[v], put, took[v], ctxDone, s[v])
  BY <1>2, <1>3, <1>4
<1>6. st[w].at # "cut"
  BY DEF Leaves, SeeClosed, SeeCtxDone, LimiterRefuses, Sending
<1>7. \A v \in DOMAIN net.workers : st[v].at = "cut" => s[v].at = "cut"
  BY <1>3, <1>6 DEF Workers
<1>8. Full(net, put, s, closed, ctxDone)
  BY <1>2, <1>7 DEF Full
<1>9. Flows(net, put, took, buf, s, closed, ctxDone)
  BY <1>1, <1>2, <1>5, <1>8, FlowsAre
<1> QED BY <1>9 DEF s

(* A cancellation asks for no more.                                        *)
LEMMA CancelFlow ==
  ASSUME ShapeNow, NEW put, NEW took, Flows(net, put, took, buf, st, closed, ctxDone)
  PROVE  Flows(net, put, took, buf, st, closed, TRUE)
<1>1. Held(net, buf, st)
  BY HeldNow
<1>2. /\ put \in [Channels -> SUBSET Nat] /\ took \in [Workers -> SUBSET Nat]
      /\ \A c \in Channels : ChannelFlow(net, put, took, c, buf[c])
      /\ \A v \in Workers : StateFlow(net.workers[v], put, took[v], ctxDone, st[v])
  BY <1>1, FlowsAre
<1>3. \A v \in Workers : StateFlow(net.workers[v], put, took[v], TRUE, st[v])
  BY <1>2 DEF StateFlow
<1>4. Full(net, put, st, closed, TRUE)
  BY DEF Full
<1> QED BY <1>1, <1>2, <1>3, <1>4, FlowsAre

(* An Ordered that has emitted up to i, and holds what lies beyond a gap,  *)
(* has taken no more than it emitted if it took all.                       *)
LEMMA NoGap ==
  ASSUME NEW i \in Nat, NEW total \in Nat, NEW P \in SUBSET Thing,
         NEW T, Beyond(i, T, P), 1..total \subseteq T
  PROVE  total <= i
<1> SUFFICES ASSUME ~ (total <= i) PROVE FALSE
  OBVIOUS
<1>1. i + 1 \in T /\ i + 1 \notin 1..i
  OBVIOUS
<1>2. PICK y \in P : i + 1 = y.index + 1
  BY <1>1 DEF Beyond
<1>3. y.index \in Int
  BY DEF Thing
<1>4. y.index > i
  BY DEF Beyond
<1> QED BY <1>2, <1>3, <1>4

(* Some goroutine sends on each channel, and there is one source.          *)
LEMMA Wired ==
  ASSUME NEW n \in Nets
  PROVE  /\ \A c \in DOMAIN n.cap : \E w \in DOMAIN n.workers : Sends(n, w, c)
         /\ \E s \in DOMAIN n.workers :
              \A w \in DOMAIN n.workers : n.workers[w].kind = "source" <=> w = s
<1>1. IsNetwork(n)
  BY NetsAssumption
<1>2. \A c \in DOMAIN n.cap :
        \E w \in DOMAIN n.workers : \E i \in DOMAIN n.workers[w].outs : n.workers[w].outs[i] = c
  BY <1>1, Zenon DEF IsNetwork
<1>3. \E s \in DOMAIN n.workers :
        \A w \in DOMAIN n.workers : n.workers[w].kind = "source" <=> w = s
  BY <1>1, Zenon DEF IsNetwork
<1> QED BY <1>2, <1>3, Zenon DEF Sends

(* A channel whose writers have all returned has carried everything.       *)
LEMMA CloseFull ==
  ASSUME ShapeNow, EndsNow, OneRoute(net),
         NEW put, NEW took, Flows(net, put, took, buf, st, closed, ctxDone),
         NEW c \in Channels, \A w \in Workers : Sends(net, w, c) => HasEnded(st[w])
  PROVE  Full(net, put, st, closed \cup {c}, ctxDone)
<1>1. Held(net, buf, st) /\ net \in Nets /\ DOMAIN st = Workers
      /\ \A w \in Workers : WorkerShape(net, w, st[w])
  BY HeldNow
<1>2. /\ put \in [Channels -> SUBSET Nat] /\ took \in [Workers -> SUBSET Nat]
      /\ \A d \in Channels : ChannelFlow(net, put, took, d, buf[d])
      /\ \A v \in Workers : StateFlow(net.workers[v], put, took[v], ctxDone, st[v])
      /\ Full(net, put, st, closed, ctxDone)
  BY <1>1, FlowsAre
<1>3. SUFFICES ASSUME ~ ctxDone, \A v \in Workers : st[v].at # "cut",
                      NEW u \in Workers, net.workers[u].kind = "source"
               PROVE  1..net.workers[u].n \subseteq put[c]
  BY <1>2 DEF Full, Workers
<1> DEFINE total == net.workers[u].n
<1>4. PICK v \in Workers : Sends(net, v, c)
  BY <1>1, Wired DEF Workers, Channels
<1>5. ASSUME NEW r \in Workers, Sends(net, r, c)
      PROVE  st[r].at = "done" /\ DoneFlow(net.workers[r].kind, net.workers[r].outs, put, took[r], st[r])
  <2>1. st[r].at = "done"
    BY <1>3, <1>5 DEF HasEnded
  <2> QED BY <1>2, <1>3, <2>1 DEF StateFlow
<1>6. ASSUME NEW r \in Workers, Sends(net, r, c), net.workers[r].kind # "ordered"
      PROVE  took[r] \subseteq put[c]
  BY <1>5, <1>6 DEF DoneFlow, Sends
<1>7. total \in Nat /\ Stage(net, v) /\ st[v] \in States(net)
  BY <1>1, Stages DEF Workers, Stage, WorkerShape
<1>8. CASE net.workers[v].kind = "source"
  <2>1. u = v
    BY <1>1, <1>3, <1>8, Wired DEF Workers
  <2>2. took[v] = 1..total
    BY <1>2, <1>8, <2>1 DEF StateFlow
  <2> QED BY <1>4, <1>6, <1>8, <2>2
<1>9. CASE net.workers[v].kind # "source"
  <2> DEFINE d == net.workers[v].in
  <2>1. d \in Channels
    BY <1>7, <1>9 DEF Stage, Channels
  <2>2. net.workers[v].kind \notin {"await", "collect"}
    BY <1>4, <1>7 DEF Stage, Sends
  <2>3. d \in closed /\ buf[d] = <<>>
    BY <1>3, <1>4, <1>5, <1>9, <2>2 DEF EndsNow, Ends, Workers
  <2>4. 1..total \subseteq put[d]
    BY <1>2, <1>3, <2>3 DEF Full, Workers
  <2>5. ASSUME NEW k \in 1..total PROVE \E r \in Workers : net.workers[r].in = d /\ k \in took[r]
    <3>1. ChannelFlow(net, put, took, d, <<>>)
      BY <1>2, <2>1, <2>3
    <3>2. k \in put[d]
      BY <2>4
    <3> HIDE DEF d
    <3> QED BY <3>1, <3>2 DEF ChannelFlow, Workers
  <2>6. ASSUME NEW k \in 1..total, net.workers[v].kind # "ordered" PROVE k \in put[c]
    <3>1. PICK r \in Workers : net.workers[r].in = d /\ k \in took[r]
      BY <2>5
    <3>2. CASE r = v
      BY <1>4, <1>6, <2>6, <3>1, <3>2
    <3>3. CASE r # v
      <4>1. net.workers[r].kind = "pass" /\ net.workers[r].outs = net.workers[v].outs
        BY <3>1, <3>3 DEF OneRoute, Workers
      <4>2. Sends(net, r, c) /\ net.workers[r].kind # "ordered"
        BY <1>4, <4>1 DEF Sends
      <4> QED BY <1>6, <3>1, <4>2
    <3> QED BY <3>2, <3>3
  <2>7. ASSUME net.workers[v].kind = "ordered" PROVE 1..total \subseteq put[c]
    <3>1. \A k \in 1..total : k \in took[v]
      <4>1. \A r \in Workers : net.workers[r].in = d => r = v
        BY <2>7 DEF OneRoute, Workers
      <4> QED BY <2>5, <4>1
    <3>2. put[c] = 1..st[v].next
      BY <1>4, <1>5, <2>7 DEF DoneFlow, Sends
    <3>3. OrderedFlow(net.workers[v].outs, put, took[v], st[v])
      BY <1>2, <2>7 DEF StateFlow
    <3>4. Beyond(st[v].next, took[v], st[v].pending)
      BY <1>3, <3>3 DEF OrderedFlow
    <3>5. st[v].next \in Nat /\ st[v].pending \in SUBSET Thing
      BY <1>7 DEF States
    <3>6. 1..total \subseteq took[v]
      BY <3>1
    <3> HIDE DEF total
    <3>7. total <= st[v].next
      BY <1>7, <3>4, <3>5, <3>6, NoGap
    <3> QED BY <1>7, <3>2, <3>5, <3>7 DEF total
  <2> QED BY <2>6, <2>7
<1> QED BY <1>8, <1>9

(* The flow holds for some positions put and taken.                        *)
LEMMA FlowIs ==
  ASSUME Held(net, buf, st), NEW put, NEW took, NEW b, NEW s, NEW cl, NEW cd,
         Flows(net, put, took, b, s, cl, cd)
  PROVE  Flow(net, b, s, cl, cd)
<1>1. put \in [DOMAIN net.cap -> SUBSET Nat] /\ took \in [DOMAIN net.workers -> SUBSET Nat]
  BY DEF Flows
<1> QED BY <1>1, Zenon DEF Flow

(* Every step of a network with one route keeps the flow.                  *)
LEMMA FlowStep ==
  ASSUME ShapeNow, EndsNow, OneRoute(net), Order(net, buf, st),
         Flow(net, buf, st, closed, ctxDone), [Next]_vars
  PROVE  Flow(net', buf', st', closed', ctxDone')
<1>0. Held(net, buf, st) /\ net \in Nets
  BY HeldNow
<1>1. PICK O, Z, X \in SUBSET DOMAIN net.cap :
        \E p, g \in [DOMAIN net.cap -> Nat] : InOrder(net, O, Z, X, p, g, buf, st)
  BY DEF Order
<1>2. PICK p, g \in [DOMAIN net.cap -> Nat] : InOrder(net, O, Z, X, p, g, buf, st)
  BY <1>1
<1>3. O \in SUBSET Channels
  BY DEF Channels
<1>4. PICK put \in [DOMAIN net.cap -> SUBSET Nat], took \in [DOMAIN net.workers -> SUBSET Nat] :
        Flows(net, put, took, buf, st, closed, ctxDone)
  BY DEF Flow
<1>5. CASE \E w, r \in Workers : Meet(w, r)
  <2>1. PICK w \in Workers, r \in Workers : Meet(w, r)
    BY <1>5
  <2>2. PICK b, s : Puts(w, b, s) /\ Takes(r, b, s, buf', st')
    BY <2>1, MeetIs
  <2>3. PICK p2 : InOrder(net, O, Z, X, p2, g, b, s)
    BY <1>0, <1>2, <1>3, <2>2, PutOrder
  <2>4. Held(net, b, s)
    BY <1>0, <2>2, PutHeld
  <2>5. PICK put2 : Flows(net, put2, took, b, s, closed, ctxDone)
    BY <1>0, <1>4, <2>2, PutFlow
  <2>6. s[r] = st[r] /\ b[In(r)] # <<>>
    BY <2>2 DEF Takes
  <2>7. Kind(r) = "ordered" => \A y \in st[r].pending \cup {Head(b[In(r)])} : Indexed(y)
    BY <1>0, <1>3, <2>3, <2>4, <2>6, IndexedAt
  <2>8. PICK took2 : Flows(net, put2, took2, buf', st', closed, ctxDone)
    BY <1>0, <2>2, <2>4, <2>5, <2>7, TakeFlow
  <2>9. UNCHANGED <<net, ctxDone, closed>>
    BY <2>1 DEF Meet
  <2> QED BY <1>0, <2>8, <2>9, FlowIs
<1>6. CASE \E w \in Workers : Put(w)
  <2>1. PICK w \in Workers : Put(w)
    BY <1>6
  <2>2. Puts(w, buf', st') /\ UNCHANGED <<net, ctxDone, closed>>
    BY <2>1, PutIs
  <2>3. PICK put2 : Flows(net, put2, took, buf', st', closed, ctxDone)
    BY <1>0, <1>4, <2>2, PutFlow
  <2> QED BY <1>0, <2>2, <2>3, FlowIs
<1>7. CASE \E w \in Workers : Take(w)
  <2>1. PICK w \in Workers : Take(w)
    BY <1>7
  <2>2. Takes(w, buf, st, buf', st') /\ UNCHANGED <<net, ctxDone, closed>>
    BY <2>1, TakeIs
  <2>3. Kind(w) = "ordered" => \A y \in st[w].pending \cup {Head(buf[In(w)])} : Indexed(y)
    BY <1>0, <1>2, <1>3, <2>2, IndexedAt DEF Takes
  <2>4. PICK took2 : Flows(net, put, took2, buf', st', closed, ctxDone)
    BY <1>0, <1>4, <2>2, <2>3, TakeFlow
  <2> QED BY <1>0, <2>2, <2>4, FlowIs
<1>8. CASE \E w \in Workers : SeeClosed(w) \/ SeeCtxDone(w) \/ LimiterRefuses(w)
  <2>1. PICK w \in Workers : SeeClosed(w) \/ SeeCtxDone(w) \/ LimiterRefuses(w)
    BY <1>8
  <2>2. PICK t : Leaves(w, t) /\ st' = [st EXCEPT ![w] = t]
    BY <2>1, LeavesIs, Zenon
  <2>3. UNCHANGED <<net, ctxDone, buf, closed>>
    BY <2>1, LeavesIs, Zenon
  <2>4. Flows(net, put, took, buf, [st EXCEPT ![w] = t], closed, ctxDone)
    BY <1>4, <2>2, LeaveFlow
  <2> QED BY <1>0, <2>2, <2>3, <2>4, FlowIs
<1>9. CASE \E c \in Channels : Close(c)
  <2>1. PICK c \in Channels : Close(c)
    BY <1>9
  <2>2. closed' = closed \cup {c} /\ UNCHANGED <<net, ctxDone, buf, st>>
        /\ \A w \in Writers(c) : Ended(w)
    BY <2>1 DEF Close
  <2>3. \A w \in Workers : Sends(net, w, c) => HasEnded(st[w])
    BY <2>2 DEF Writers, Sends, Ended, HasEnded, Outs, Workers
  <2>4. Full(net, put, st, closed \cup {c}, ctxDone)
    BY <1>4, <2>3, CloseFull
  <2>5. Flows(net, put, took, buf, st, closed \cup {c}, ctxDone)
    BY <1>4, <2>4 DEF Flows
  <2> QED BY <1>0, <2>2, <2>5, FlowIs
<1>10. CASE Cancel
  <2>1. ctxDone' = TRUE /\ UNCHANGED <<net, buf, closed, st>>
    BY <1>10 DEF Cancel
  <2>2. Flows(net, put, took, buf, st, closed, TRUE)
    BY <1>4, CancelFlow
  <2> QED BY <1>0, <2>1, <2>2, FlowIs
<1>11. CASE UNCHANGED vars
  BY <1>11 DEF vars
<1> QED BY Steps, <1>5, <1>6, <1>7, <1>8, <1>9, <1>10, <1>11, Zenon

(* At the start nothing has been put, and a source has all it is going to  *)
(* send.                                                                   *)
LEMMA FlowInit ==
  ASSUME Init
  PROVE  Flow(net, buf, st, closed, ctxDone)
<1> DEFINE put == [c \in Channels |-> {}]
           took == [w \in Workers |-> IF Kind(w) = "source" THEN 1..N(w) ELSE {}]
<1>1. ShapeNow /\ Held(net, buf, st) /\ net \in Nets
  BY ShapeInit, HeldNow
<1>2. \A w \in Workers : Stage(net, w) /\ N(w) \in Nat /\ N(w) = net.workers[w].n
  BY <1>1, Stages DEF Workers, Stage, N
<1>3. put \in [Channels -> SUBSET Nat] /\ took \in [Workers -> SUBSET Nat]
  BY <1>2
<1>4. \A c \in Channels : put[c] = {}
  OBVIOUS
<1>5. \A w \in Workers : took[w] = IF Kind(w) = "source" THEN 1..N(w) ELSE {}
  OBVIOUS
<1> HIDE DEF put, took
<1>6. ASSUME NEW c \in Channels PROVE ChannelFlow(net, put, took, c, buf[c])
  <2>1. buf[c] = <<>>
    BY DEF Init
  <2>2. \A r \in DOMAIN net.workers : net.workers[r].in = c => took[r] = {}
    <3>1. ASSUME NEW r \in Workers, net.workers[r].in = c PROVE Kind(r) # "source"
      <4>1. net.cap \in Seq(Nat)
        BY <1>1, NetsAssumption, Zenon DEF IsNetwork
      <4>2. c # 0
        BY <4>1 DEF Channels
      <4> QED BY <1>2, <3>1, <4>2 DEF Stage, Kind
    <3> QED BY <1>5, <3>1 DEF Workers
  <2> QED BY <1>4, <2>1, <2>2 DEF ChannelFlow
<1>7. ASSUME NEW w \in Workers
      PROVE  StateFlow(net.workers[w], put, took[w], ctxDone, st[w])
  <2> DEFINE r == st[w]
             T == took[w]
             outs == net.workers[w].outs
             kind == net.workers[w].kind
  <2>1. /\ StartsAs(w, r) /\ Stage(net, w) /\ Kind(w) = kind /\ Outs(w) = outs
        /\ r.kept = <<>> /\ r.next = 0 /\ r.pending = {}
    BY <1>2, Starts DEF StartsAs, Kind, Outs
  <2>2. \A j \in DOMAIN outs : outs[j] \in Channels /\ put[outs[j]] = {}
    BY <1>4, <2>1 DEF Stage, Channels
  <2> HIDE DEF r, T, outs, kind
  <2>3. KeptFlow(outs, put, T, r.kept)
    BY <2>1, NothingKept
  <2>4. CASE kind = "source"
    <3>1. /\ DOMAIN r.todo = 1..N(w) /\ r.at = (IF N(w) > 0 THEN "last" ELSE "done")
          /\ \A k \in 1..N(w) : r.todo[k].to = Outs(w)[1] /\ r.todo[k].item = Item(k)
      BY <2>1, <2>4 DEF StartsAs
    <3>2. T = 1..N(w)
      BY <1>5, <2>1, <2>4 DEF T
    <3>3. DOMAIN outs = {1}
      <4>1. outs # <<>> /\ Len(outs) <= 1 /\ outs \in Seq(Channels)
        BY <2>1, <2>4 DEF Stage, Channels, outs, kind
      <4> QED BY <4>1, OnlyOne, Zenon
    <3>4. ASSUME NEW k \in 1..N(w)
          PROVE  r.todo[k].to = outs[1] /\ OneToOne(r.todo[k].item.from) /\ Pos(r.todo[k].item) = {k}
      <4>1. r.todo[k].item.from = <<k>>
        <5>1. Item(k).from = <<k>>
          BY Zenon DEF Item
        <5> QED BY <3>1, <5>1
      <4>2. OneToOne(<<k>>)
        BY DEF OneToOne
      <4>3. Pos(r.todo[k].item) = {k}
        BY <4>1 DEF Pos
      <4> QED BY <2>1, <3>1, <4>1, <4>2, <4>3
    <3>5. TodoFlow(put, T, r.todo)
      <4>1. put[outs[1]] = {}
        BY <2>2, <3>3
      <4>2. ASSUME NEW i \in DOMAIN r.todo
            PROVE  /\ OneToOne(r.todo[i].item.from) /\ Pos(r.todo[i].item) = {i} /\ i \in T
                   /\ put[r.todo[i].to] = {}
        BY <3>1, <3>2, <3>4, <4>1
      <4> DEFINE m == r.todo
      <4>3. \A i \in DOMAIN m : /\ OneToOne(m[i].item.from) /\ Pos(m[i].item) \subseteq T
                                /\ Pos(m[i].item) \cap put[m[i].to] = {}
        BY <4>2
      <4>4. \A i, j \in DOMAIN m : i # j => Pos(m[i].item) \cap Pos(m[j].item) = {}
        <5>1. \A i \in DOMAIN m : Pos(m[i].item) = {i}
          BY <4>2
        <5> QED BY <5>1
      <4> HIDE DEF m
      <4>5. TodoFlow(put, T, m)
        BY <4>3, <4>4, Zenon DEF TodoFlow
      <4> QED BY <4>5 DEF m
    <3>6. AllFlows(outs, put, T, r)
      BY <3>1, <3>2, <3>3, <3>4 DEF AllFlows, Coming
    <3>7. r.at = "done" => T = {}
      BY <1>2, <3>1, <3>2
    <3>8. r.at = "done" => DoneFlow(kind, outs, put, T, r)
      BY <2>4, <3>7 DEF DoneFlow
    <3>9. T = 1..net.workers[w].n
      BY <1>2, <3>2
    <3> QED BY <2>3, <2>4, <3>5, <3>6, <3>8, <3>9 DEF StateFlow, r, T, outs, kind
  <2>5. CASE kind # "source"
    <3>1. r.todo = <<>> /\ r.at = "recv" /\ T = {}
      BY <1>5, <2>1, <2>5 DEF StartsAs, T
    <3>2. TodoFlow(put, T, r.todo)
      BY <3>1, NothingKept
    <3>3. kind = "ordered" => OrderedFlow(outs, put, T, r)
      <4>1. kind = "ordered" => 1 \in DOMAIN outs
        BY <2>1, OnlyOne DEF Stage, outs, kind
      <4>2. kind = "ordered" => put[outs[1]] = {}
        BY <2>2, <4>1
      <4>3. Beyond(0, {}, {})
        BY DEF Beyond
      <4>4. Len(r.todo) = 0
        BY <3>1
      <4>5. {} = 1..(0 - 0) /\ 0 <= 0
        OBVIOUS
      <4> SUFFICES ASSUME kind = "ordered" PROVE OrderedFlow(outs, put, T, r)
        OBVIOUS
      <4>6. put[outs[1]] = 1..(r.next - Len(r.todo)) /\ Len(r.todo) <= r.next
        BY <2>1, <4>2, <4>4, <4>5
      <4>7. Beyond(r.next, T, r.pending)
        BY <2>1, <3>1, <4>3, Zenon
      <4>8. DOMAIN r.todo = {}
        BY <3>1
      <4> QED BY <4>6, <4>7, <4>8, Zenon DEF OrderedFlow
    <3>4. KeepsAll(T, r.kept) /\ AllFlows(outs, put, T, r)
      BY <3>1 DEF KeepsAll, AllFlows
    <3> QED BY <2>3, <2>5, <3>1, <3>2, <3>3, <3>4 DEF StateFlow, r, T, outs, kind
  <2> QED BY <2>4, <2>5
<1>8. Full(net, put, st, closed, ctxDone)
  BY DEF Full, Init
<1>9. Flows(net, put, took, buf, st, closed, ctxDone)
  BY <1>1, <1>3, <1>6, <1>7, <1>8, FlowsAre
<1> QED BY <1>1, <1>9, FlowIs

-----------------------------------------------------------------------------
(* The invariant, and what it says of what a terminal gets. *)

(* A sequence without repetitions holds a value once, or not at all.       *)
LEMMA TimesOf ==
  ASSUME NEW f, OneToOne(f), NEW k
  PROVE  LET S == {i \in DOMAIN f : f[i] = k} IN
         /\ Cardinality(S) <= 1
         /\ (\E i \in DOMAIN f : f[i] = k) => Cardinality(S) = 1
<1> DEFINE S == {i \in DOMAIN f : f[i] = k}
<1>1. CASE \E i \in DOMAIN f : f[i] = k
  <2>1. PICK i \in DOMAIN f : f[i] = k
    BY <1>1
  <2>2. S = {i}
    BY <2>1 DEF OneToOne
  <2>3. Cardinality(S) = 1
    BY <2>2, FS_Singleton
  <2> QED BY <2>3
<1>2. CASE ~ \E i \in DOMAIN f : f[i] = k
  <2>1. S = {}
    BY <1>2
  <2>2. Cardinality(S) = 0
    BY <2>1, FS_EmptySet
  <2> QED BY <1>2, <2>2
<1> QED BY <1>1, <1>2

(* A terminal that saw the end of its input has all that the source gave.  *)
LEMMA AllArrives ==
  ASSUME ShapeNow, EndsNow, OneRoute(net),
         NEW put, NEW took, Flows(net, put, took, buf, st, closed, ctxDone),
         NEW w \in Workers, Kind(w) = "collect", Ended(w), ~ ctxDone, ~ Cut
  PROVE  \A k \in 1..N(Source) : \E i \in DOMAIN st[w].kept : st[w].kept[i] = k
<1>1. Held(net, buf, st) /\ net \in Nets /\ Stage(net, w) /\ net.workers[w].kind = "collect"
      /\ In(w) = net.workers[w].in
  BY HeldNow, Stages DEF Workers, Kind, In
<1>2. /\ \A d \in Channels : ChannelFlow(net, put, took, d, buf[d])
      /\ \A v \in Workers : StateFlow(net.workers[v], put, took[v], ctxDone, st[v])
      /\ Full(net, put, st, closed, ctxDone)
  BY <1>1, FlowsAre
<1>3. st[w].at = "done"
  BY DEF Ended, Cut
<1>4. In(w) \in closed /\ buf[In(w)] = <<>> /\ In(w) \in Channels
  <2>1. In(w) \in closed /\ buf[In(w)] = <<>>
    BY <1>1, <1>3 DEF EndsNow, Ends, Workers
  <2> QED BY <1>1, <2>1 DEF Stage, Channels
<1>5. Source \in Workers /\ Kind(Source) = "source"
  <2>1. \E u \in Workers : Kind(u) = "source"
    BY <1>1, Wired DEF Workers, Kind
  <2> QED BY <2>1 DEF Source
<1>6. 1..N(Source) \subseteq put[In(w)]
  BY <1>2, <1>4, <1>5 DEF Full, Cut, Workers, Kind, N
<1>7. ASSUME NEW k \in 1..N(Source) PROVE k \in took[w]
  <2>1. ChannelFlow(net, put, took, In(w), <<>>) /\ k \in put[In(w)]
    BY <1>2, <1>4, <1>6
  <2>2. PICK r \in Workers : net.workers[r].in = In(w) /\ k \in took[r]
    BY <2>1 DEF ChannelFlow, Workers
  <2>3. r = w
    BY <1>1, <2>2 DEF OneRoute, Workers
  <2> QED BY <2>2, <2>3
<1>8. KeepsAll(took[w], st[w].kept)
  BY <1>1, <1>2 DEF StateFlow
<1> QED BY <1>7, <1>8 DEF KeepsAll

(* What the terminals got is what FaithfulDelivery asks.                   *)
LEMMA Delivers ==
  ASSUME ShapeNow, EndsNow, OneRoute(net), Order(net, buf, st),
         Flow(net, buf, st, closed, ctxDone)
  PROVE  FaithfulDelivery
<1>1. PICK put \in [DOMAIN net.cap -> SUBSET Nat], took \in [DOMAIN net.workers -> SUBSET Nat] :
        Flows(net, put, took, buf, st, closed, ctxDone)
  BY DEF Flow
<1>2. PICK O, Z, X \in SUBSET DOMAIN net.cap :
        \E p, g \in [DOMAIN net.cap -> Nat] : InOrder(net, O, Z, X, p, g, buf, st)
  BY DEF Order
<1>3. PICK p, g \in [DOMAIN net.cap -> Nat] : InOrder(net, O, Z, X, p, g, buf, st)
  BY <1>2
<1>4. net.copies = 1
  BY DEF OneRoute
<1>5. ASSUME NEW w \in Terminals
      PROVE  /\ \A k \in 1..MaxItems : Times(w, k) <= net.copies
             /\ net.ordered => \A i \in DOMAIN st[w].kept : st[w].kept[i] = i
             /\ Kind(w) = "collect" /\ Ended(w) /\ ~ ctxDone /\ ~ Cut =>
                  \A k \in 1..N(Source) : Times(w, k) = net.copies
  <2>1. w \in Workers /\ w \in DOMAIN net.workers /\ Kind(w) = net.workers[w].kind
        /\ net.workers[w].kind \in {"collect", "await"} /\ net \in Nets
    BY HeldNow DEF Terminals, Workers, Kind
  <2>2. OneToOne(st[w].kept)
    <3>1. WorkerFlow(net, put, took, ctxDone, w, st[w])
      BY <1>1, <2>1 DEF Flows
    <3> QED BY <3>1 DEF WorkerFlow, StateFlow, KeptFlow
  <2>3. \A k : Times(w, k) <= 1 /\ ((\E i \in DOMAIN st[w].kept : st[w].kept[i] = k) => Times(w, k) = 1)
    BY <2>2, TimesOf DEF Times
  <2>4. ASSUME net.ordered, NEW i \in DOMAIN st[w].kept PROVE st[w].kept[i] = i
    <3> DEFINE c == net.workers[w].in
    <3>1. IsArranged(net, O, Z, X)
      BY <1>3 DEF InOrder
    <3>2. c \in O
      BY <2>1, <2>4, <3>1, Zenon DEF IsArranged
    <3>3. WorkerOrder(net, O, Z, X, p, g, w, st[w])
      BY <1>3, <2>1 DEF InOrder
    <3>4. st[w].kept = Span(0, g[c]) /\ g[c] \in Nat
      BY <1>2, <2>1, <3>2, <3>3 DEF WorkerOrder
    <3> QED BY <2>4, <3>4 DEF Span
  <2>5. ASSUME Kind(w) = "collect", Ended(w), ~ ctxDone, ~ Cut, NEW k \in 1..N(Source)
        PROVE  Times(w, k) = 1
    BY <1>1, <2>1, <2>3, <2>5, AllArrives
  <2> QED BY <1>4, <2>3, <2>4, <2>5
<1> QED BY <1>5 DEF FaithfulDelivery

(* PipeInv holds at every step.                                            *)
THEOREM PipeInvariance == Spec => []PipeInv
<1>1. Init => PipeInv
  BY ShapeInit, EndsInit, OrderInit, FlowInit DEF PipeInv, ShapeNow, EndsNow
<1>2. PipeInv /\ [Next]_vars => PipeInv'
  <2> SUFFICES ASSUME PipeInv, [Next]_vars PROVE PipeInv'
    OBVIOUS
  <2>1. ShapeNow /\ EndsNow /\ net' = net
    <3>1. net' = net
      BY DEF Next, Step, Meet, Put, Take, SeeClosed, Close, Cancel, SeeCtxDone, LimiterRefuses, vars
    <3> QED BY <3>1 DEF PipeInv, ShapeNow, EndsNow
  <2>2. ShapeNow' /\ EndsNow'
    BY <2>1, ShapeStep, EndsStep
  <2>3. OneRoute(net) /\ Arranged(net) => Order(net', buf', st') /\ Flow(net', buf', st', closed', ctxDone')
    BY <2>1, OrderStep, FlowStep DEF PipeInv
  <2> QED BY <2>1, <2>2, <2>3 DEF PipeInv, ShapeNow, EndsNow
<1> QED BY <1>1, <1>2, PTL DEF Spec

(* In a network with one route to each terminal, whose Ordered stages are  *)
(* called as documented, every terminal gets each item at most once, in    *)
(* order if the network keeps order, and all of them unless it was         *)
(* cancelled or cut short (the collectors of async/pipe.go).               *)
THEOREM DeliversFaithfully ==
  Spec => [](OneRoute(net) /\ Arranged(net) => FaithfulDelivery)
<1>1. PipeInv => (OneRoute(net) /\ Arranged(net) => FaithfulDelivery)
  BY Delivers DEF PipeInv, ShapeNow, EndsNow
<1> QED BY <1>1, PipeInvariance, PTL

(* In any network, merged ones included, no goroutine has something left   *)
(* to send on a channel that is closed, which would panic: the close of    *)
(* async/pipe.go comes after the last of the channel's senders.            *)
THEOREM NoSendOnClosed ==
  Spec => [](\A w \in Workers : \A i \in DOMAIN st[w].todo : st[w].todo[i].to \notin closed)
<1>1. ASSUME PipeInv, NEW w \in Workers, NEW i \in DOMAIN st[w].todo
      PROVE  st[w].todo[i].to \notin closed
  <2>1. WorkerShape(net, w, st[w]) /\ st[w] \in States(net)
    BY <1>1, HeldNow DEF PipeInv, ShapeNow, WorkerShape
  <2>2. st[w].todo # <<>>
    BY <1>1
  <2>3. ~ HasEnded(st[w])
    BY <2>1, <2>2 DEF WorkerShape, HasEnded
  <2>4. Sends(net, w, st[w].todo[i].to)
    BY <1>1, <2>1 DEF WorkerShape, Sends
  <2> QED BY <1>1, <2>3, <2>4 DEF PipeInv, Ends, Sends, Workers
<1>2. PipeInv =>
        \A w \in Workers : \A i \in DOMAIN st[w].todo : st[w].todo[i].to \notin closed
  BY <1>1
<1> QED BY <1>2, PipeInvariance, PTL

-----------------------------------------------------------------------------
(* The invariant of the lazy sequences. *)

Fields == {"acc", "todo", "cont", "stopped", "last"}

(* Where control may be; no stage has been refused when a run begins.      *)
Control ==
  /\ prog \in Programs /\ Len(Seqs!chain) \in Nat
  /\ DOMAIN locals = Seqs!Stages /\ \A k \in Seqs!Stages : DOMAIN locals[k] = Fields
  /\ at \in 0..Seqs!Consumer /\ refused \subseteq Seqs!Stages
  /\ doing = "begin" => at <= Len(Seqs!chain) /\ refused = {}
  /\ doing = "emit" => at \in Seqs!Stages
  /\ doing = "resume" => at <= Len(Seqs!chain)
  /\ doing \in {"body", "ended"} => at >= 1

(* A stage whose loop has ended has nobody below it that still runs: its   *)
(* own body and its end are behind it.                                     *)
Finished ==
  \A k \in Seqs!Stages :
    locals[k].last => at > k \/ (at = k /\ doing \in {"begin", "emit", "resume"})

(* A stage that was refused has nothing to emit.  A Gatherer's body then   *)
(* does nothing; an engine's body is not called again: it is about to      *)
(* break off the loop, or has done so, and so the stage below it has been  *)
(* refused, or is about to see that it is, or the source has ended.        *)
Silenced ==
  \A k \in refused :
    /\ locals[k].todo = <<>>
    /\ Seqs!Op(k) \in Seqs!Gathers => locals[k].stopped
    /\ Seqs!Op(k) \notin Seqs!Gathers =>
         \/ locals[k].last \/ k - 1 \in refused
         \/ at = k /\ doing = "emit" /\ ~ locals[k].cont
         \/ at = k - 1 /\ doing = "resume" /\ ~ answer
         \/ at = k /\ doing = "ended"

SeqInv == Control /\ Finished /\ Silenced /\ YieldsWhileWanted
-----------------------------------------------------------------------------
(* The steps of a range over a sequence. *)

(* A chain has a length.                                                   *)
LEMMA ChainHasLength ==
  ASSUME Control
  PROVE  /\ Len(Seqs!chain) \in Nat /\ Seqs!Stages = 1..Len(Seqs!chain)
         /\ Seqs!Consumer = Len(Seqs!chain) + 1
         /\ at \in Int
BY DEF Control, Seqs!Stages, Seqs!Consumer

(* What a stage's own variables are after a step of that stage.            *)
LEMMA OneStage ==
  ASSUME Control, at \in Seqs!Stages, NEW s, DOMAIN s = Fields, locals' = [locals EXCEPT ![at] = s]
  PROVE  /\ DOMAIN locals' = Seqs!Stages /\ \A k \in Seqs!Stages : DOMAIN locals'[k] = Fields
         /\ locals'[at] = s
         /\ \A k \in Seqs!Stages : k # at => locals'[k] = locals[k]
BY DEF Control

(* The program stays, and with it the chain.                               *)
LEMMA SameChain ==
  ASSUME UNCHANGED prog
  PROVE  /\ Seqs!chain' = Seqs!chain /\ Seqs!source' = Seqs!source
         /\ Seqs!Stages' = Seqs!Stages /\ Seqs!Consumer' = Seqs!Consumer
        
/\ \A k : Seqs!Op(k)' = Seqs!Op(k)
BY DEF Seqs!chain, Seqs!source, Seqs!Stages, Seqs!Consumer, Seqs!Op

(* A new call of a stage's function.                                       *)
LEMMA BeginKeeps ==
  ASSUME SeqInv, Seqs!Begin
  PROVE  SeqInv'
<1>1. /\ doing = "begin" /\ at \in Seqs!Stages /\ refused' = refused /\ refused = {}
      /\ locals' = [locals EXCEPT ![at] = Seqs!Fresh(Seqs!Op(at))] /\ prog' = prog
      /\ \/ at' = at + 1 /\ doing' = "ended"
         \/ at' = at - 1 /\ doing' = "begin"
  BY DEF Seqs!Begin, Seqs!Call, SeqInv, Control
<1>2. /\ Len(Seqs!chain) \in Nat /\ Seqs!Stages = 1..Len(Seqs!chain)
      /\ Seqs!Consumer = Len(Seqs!chain) + 1
      /\ at \in Int
  BY ChainHasLength DEF SeqInv
<1>3. /\ Seqs!chain' = Seqs!chain /\ Seqs!Stages' = Seqs!Stages /\ Seqs!Consumer' = Seqs!Consumer
  BY <1>1, SameChain
<1>4. DOMAIN Seqs!Fresh(Seqs!Op(at)) = Fields /\ ~ Seqs!Fresh(Seqs!Op(at)).last
  BY DEF Seqs!Fresh, Fields
<1>5. /\ DOMAIN locals' = Seqs!Stages /\ \A k \in Seqs!Stages : DOMAIN locals'[k] = Fields
      /\ locals'[at] = Seqs!Fresh(Seqs!Op(at))
      /\ \A k \in Seqs!Stages : k # at => locals'[k] = locals[k]
  BY <1>1, <1>4, OneStage DEF SeqInv
<1>6. Control'
  BY <1>1, <1>2, <1>3, <1>5 DEF SeqInv, Control
<1>7. Finished'
  <2>1. ASSUME NEW k \in Seqs!Stages, locals'[k].last
        PROVE  at' > k \/ (at' = k /\ doing' \in {"begin", "emit", "resume"})
    <3>1. k # at /\ locals[k].last
      BY <1>4, <1>5, <2>1
    <3>2. at > k
      BY <3>1 DEF SeqInv, Finished
    <3> QED BY <1>1, <1>2, <3>2
  <2> QED BY <1>3, <2>1 DEF Finished
<1>8. Silenced' /\ YieldsWhileWanted'
  BY <1>1 DEF Silenced, YieldsWhileWanted
<1> QED BY <1>6, <1>7, <1>8 DEF SeqInv

(* The source yields to the first stage's body.                            *)
LEMMA PullKeeps ==
  ASSUME SeqInv, Seqs!Pull
  PROVE  SeqInv'
<1>1. /\ UNCHANGED <<prog, locals, refused>>
      /\ at = 0 /\ (doing = "begin" \/ (doing = "resume" /\ answer)) /\ answer' = answer
      /\ at' = 1 /\ doing' = "body"
  BY DEF Seqs!Pull, Seqs!GoesOn, Seqs!Call
<1>2. /\ Len(Seqs!chain) \in Nat /\ Seqs!Stages = 1..Len(Seqs!chain)
      /\ Seqs!Consumer = Len(Seqs!chain) + 1
      /\ at \in Int
  BY ChainHasLength DEF SeqInv
<1>3. /\ Seqs!chain' = Seqs!chain /\ Seqs!Stages' = Seqs!Stages /\ Seqs!Consumer' = Seqs!Consumer
      /\ \A k : Seqs!Op(k)' = Seqs!Op(k)
  BY <1>1, SameChain
<1>4. Control'
  BY <1>1, <1>2, <1>3 DEF SeqInv, Control
<1>5. Finished'
  BY <1>1, <1>2, <1>3 DEF SeqInv, Finished
<1>6. Silenced'
  BY <1>1, <1>2, <1>3 DEF SeqInv, Control, Silenced
<1>7. YieldsWhileWanted'
  BY <1>1, <1>2, <1>3 DEF SeqInv, Control, Silenced, YieldsWhileWanted
<1> QED BY <1>4, <1>5, <1>6, <1>7 DEF SeqInv

(* The source returns to the first stage.                                  *)
LEMMA SourceEndsKeeps ==
  ASSUME SeqInv, Seqs!SourceEnds
  PROVE  SeqInv'
<1>1. /\ UNCHANGED <<prog, locals, refused>>
      /\ at = 0 /\ answer' = answer /\ at' = 1 /\ doing' = "ended"
  BY DEF Seqs!SourceEnds, Seqs!Call
<1>2. /\ Len(Seqs!chain) \in Nat /\ Seqs!Stages = 1..Len(Seqs!chain)
      /\ Seqs!Consumer = Len(Seqs!chain) + 1
      /\ at \in Int
  BY ChainHasLength DEF SeqInv
<1>3. /\ Seqs!chain' = Seqs!chain /\ Seqs!Stages' = Seqs!Stages /\ Seqs!Consumer' = Seqs!Consumer
      /\ \A k : Seqs!Op(k)' = Seqs!Op(k)
  BY <1>1, SameChain
<1>4. Control'
  BY <1>1, <1>2, <1>3 DEF SeqInv, Control
<1>5. Finished'
  BY <1>1, <1>2, <1>3 DEF SeqInv, Finished
<1>6. Silenced'
  BY <1>1, <1>2, <1>3 DEF SeqInv, Control, Silenced
<1>7. YieldsWhileWanted'
  BY <1>1, <1>2, <1>3 DEF SeqInv, Control, Silenced, YieldsWhileWanted
<1> QED BY <1>4, <1>5, <1>6, <1>7 DEF SeqInv

(* A stage goes on with what it has to emit.                               *)
LEMMA YieldTrueKeeps ==
  ASSUME SeqInv, Seqs!YieldTrue
  PROVE  SeqInv'
<1>1. /\ UNCHANGED <<prog, locals, refused>>
      /\ at \in Seqs!Stages /\ doing = "resume" /\ answer /\ answer' = answer
      /\ at' = at /\ doing' = "emit"
  BY DEF Seqs!YieldTrue, Seqs!Call
<1>2. /\ Len(Seqs!chain) \in Nat /\ Seqs!Stages = 1..Len(Seqs!chain)
      /\ Seqs!Consumer = Len(Seqs!chain) + 1
      /\ at \in Int
  BY ChainHasLength DEF SeqInv
<1>3. /\ Seqs!chain' = Seqs!chain /\ Seqs!Stages' = Seqs!Stages /\ Seqs!Consumer' = Seqs!Consumer
      /\ \A k : Seqs!Op(k)' = Seqs!Op(k)
  BY <1>1, SameChain
<1>4. Control'
  BY <1>1, <1>2, <1>3 DEF SeqInv, Control
<1>5. Finished'
  BY <1>1, <1>2, <1>3 DEF SeqInv, Finished
<1>6. Silenced'
  BY <1>1, <1>2, <1>3 DEF SeqInv, Control, Silenced
<1>7. YieldsWhileWanted'
  BY <1>1, <1>2, <1>3 DEF SeqInv, Control, Silenced, YieldsWhileWanted
<1> QED BY <1>4, <1>5, <1>6, <1>7 DEF SeqInv

(* A stage's body returns to the stage below whether its loop goes on.     *)
LEMMA BodyReturnsKeeps ==
  ASSUME SeqInv, Seqs!BodyReturns
  PROVE  SeqInv'
<1>1. /\ UNCHANGED <<prog, locals, refused>>
      /\ doing = "emit" /\ ~ locals[at].last /\ answer' = locals[at].cont
      /\ at' = at - 1 /\ doing' = "resume"
  BY DEF Seqs!BodyReturns, Seqs!Call
<1>2. /\ Len(Seqs!chain) \in Nat /\ Seqs!Stages = 1..Len(Seqs!chain)
      /\ Seqs!Consumer = Len(Seqs!chain) + 1
      /\ at \in Int
  BY ChainHasLength DEF SeqInv
<1>3. /\ Seqs!chain' = Seqs!chain /\ Seqs!Stages' = Seqs!Stages /\ Seqs!Consumer' = Seqs!Consumer
      /\ \A k : Seqs!Op(k)' = Seqs!Op(k)
  BY <1>1, SameChain
<1>4. Control'
  BY <1>1, <1>2, <1>3 DEF SeqInv, Control
<1>5. Finished'
  BY <1>1, <1>2, <1>3 DEF SeqInv, Finished
<1>6. Silenced'
  BY <1>1, <1>2, <1>3 DEF SeqInv, Control, Silenced
<1>7. YieldsWhileWanted'
  BY <1>1, <1>2, <1>3 DEF SeqInv, Control, Silenced, YieldsWhileWanted
<1> QED BY <1>4, <1>5, <1>6, <1>7 DEF SeqInv

(* A stage's function returns to the loop above it.                        *)
LEMMA ReturnsKeeps ==
  ASSUME SeqInv, Seqs!Returns
  PROVE  SeqInv'
<1>1. /\ UNCHANGED <<prog, locals, refused>>
      /\ doing = "emit" /\ locals[at].last /\ answer' = answer
      /\ at' = at + 1 /\ doing' = "ended"
  BY DEF Seqs!Returns, Seqs!Call
<1>2. /\ Len(Seqs!chain) \in Nat /\ Seqs!Stages = 1..Len(Seqs!chain)
      /\ Seqs!Consumer = Len(Seqs!chain) + 1
      /\ at \in Int
  BY ChainHasLength DEF SeqInv
<1>3. /\ Seqs!chain' = Seqs!chain /\ Seqs!Stages' = Seqs!Stages /\ Seqs!Consumer' = Seqs!Consumer
      /\ \A k : Seqs!Op(k)' = Seqs!Op(k)
  BY <1>1, SameChain
<1>4. Control'
  BY <1>1, <1>2, <1>3 DEF SeqInv, Control
<1>5. Finished'
  BY <1>1, <1>2, <1>3 DEF SeqInv, Finished
<1>6. Silenced'
  BY <1>1, <1>2, <1>3 DEF SeqInv, Control, Silenced
<1>7. YieldsWhileWanted'
  BY <1>1, <1>2, <1>3 DEF SeqInv, Control, Silenced, YieldsWhileWanted
<1> QED BY <1>4, <1>5, <1>6, <1>7 DEF SeqInv

(* The consumer takes an element and says whether it wants more.           *)
LEMMA ConsumeKeeps ==
  ASSUME SeqInv, Seqs!Consume
  PROVE  SeqInv'
<1>1. /\ UNCHANGED <<prog, locals, refused>>
      /\ at = Seqs!Consumer /\ doing = "body" /\ at' = at - 1 /\ doing' = "resume"
  BY DEF Seqs!Consume, Seqs!Call
<1>2. /\ Len(Seqs!chain) \in Nat /\ Seqs!Stages = 1..Len(Seqs!chain)
      /\ Seqs!Consumer = Len(Seqs!chain) + 1
      /\ at \in Int
  BY ChainHasLength DEF SeqInv
<1>3. /\ Seqs!chain' = Seqs!chain /\ Seqs!Stages' = Seqs!Stages /\ Seqs!Consumer' = Seqs!Consumer
      /\ \A k : Seqs!Op(k)' = Seqs!Op(k)
  BY <1>1, SameChain
<1>4. Control'
  BY <1>1, <1>2, <1>3 DEF SeqInv, Control
<1>5. Finished'
  BY <1>1, <1>2, <1>3 DEF SeqInv, Finished
<1>6. Silenced'
  BY <1>1, <1>2, <1>3 DEF SeqInv, Control, Silenced
<1>7. YieldsWhileWanted'
  BY <1>1, <1>2, <1>3 DEF SeqInv, Control, Silenced, YieldsWhileWanted
<1> QED BY <1>4, <1>5, <1>6, <1>7 DEF SeqInv

(* An engine has nothing to flush when the sequence below it has ended.    *)
LEMMA EnginesFlushNothing ==
  \A v : \A op : op \notin Seqs!Gathers => Seqs!Flushed(v, op) = <<>>
BY DEF Seqs!Gathers, Seqs!Flushed, Seqs!Finish

(* A body is called: not that of an engine that was refused, nor that of a *)
(* Gatherer that has noted it.                                             *)
LEMMA BodyKeeps ==
  ASSUME SeqInv, Seqs!Body
  PROVE  SeqInv'
<1> DEFINE r == Seqs!Integrate(Seqs!Op(at), locals[at].acc, item, Seqs!Param(at))
<1> DEFINE s == [locals[at] EXCEPT !.acc = r.acc, !.todo = r.emits, !.cont = r.cont]
<1>1. /\ prog' = prog /\ at \in Seqs!Stages
      /\ UNCHANGED <<refused, answer>>
      /\ doing = "body" /\ ~ locals[at].stopped /\ at' = at /\ doing' = "emit"
      /\ locals' = [locals EXCEPT ![at] = s]
  BY DEF Seqs!Body, Seqs!Call, SeqInv, Control
<1>2. /\ Len(Seqs!chain) \in Nat /\ Seqs!Stages = 1..Len(Seqs!chain)
      /\ Seqs!Consumer = Len(Seqs!chain) + 1
      /\ at \in Int
  BY ChainHasLength DEF SeqInv
<1>3. /\ Seqs!chain' = Seqs!chain /\ Seqs!Stages' = Seqs!Stages /\ Seqs!Consumer' = Seqs!Consumer
      /\ \A k : Seqs!Op(k)' = Seqs!Op(k)
  BY <1>1, SameChain
<1>4. /\ DOMAIN s = Fields /\ s.last = locals[at].last
  BY <1>1 DEF SeqInv, Control, Fields
<1> HIDE DEF s
<1>5. /\ DOMAIN locals' = Seqs!Stages /\ \A k \in Seqs!Stages : DOMAIN locals'[k] = Fields
      /\ locals'[at] = s
      /\ \A k \in Seqs!Stages : k # at => locals'[k] = locals[k]
  BY <1>1, <1>4, OneStage DEF SeqInv
<1>6. Control'
  BY <1>1, <1>2, <1>3, <1>5 DEF SeqInv, Control
<1>7. Finished'
  BY <1>1, <1>2, <1>3, <1>4, <1>5 DEF SeqInv, Finished
<1>8. at \notin refused
  <2>1. ~ locals[at].last /\ at - 1 \notin refused
    BY <1>1, <1>2 DEF SeqInv, Finished, YieldsWhileWanted
  <2> QED BY <1>1, <1>2, <2>1 DEF SeqInv, Silenced
<1>9. Silenced'
  BY <1>1, <1>2, <1>3, <1>4, <1>5, <1>8 DEF SeqInv, Control, Silenced
<1>10. YieldsWhileWanted'
  BY <1>1, <1>2, <1>3 DEF SeqInv, Control, Silenced, YieldsWhileWanted
<1> QED BY <1>6, <1>7, <1>9, <1>10 DEF SeqInv

(* The body of a Gatherer that was refused.                                *)
LEMMA StoppedBodyKeeps ==
  ASSUME SeqInv, Seqs!StoppedBody
  PROVE  SeqInv'
<1> DEFINE s == [locals[at] EXCEPT !.cont = FALSE]
<1>1. /\ prog' = prog /\ at \in Seqs!Stages
      /\ UNCHANGED <<refused, answer>>
      /\ doing = "body" /\ at' = at /\ doing' = "emit"
      /\ locals' = [locals EXCEPT ![at] = s]
  BY DEF Seqs!StoppedBody, Seqs!Call, SeqInv, Control
<1>2. /\ Len(Seqs!chain) \in Nat /\ Seqs!Stages = 1..Len(Seqs!chain)
      /\ Seqs!Consumer = Len(Seqs!chain) + 1
      /\ at \in Int
  BY ChainHasLength DEF SeqInv
<1>3. /\ Seqs!chain' = Seqs!chain /\ Seqs!Stages' = Seqs!Stages /\ Seqs!Consumer' = Seqs!Consumer
      /\ \A k : Seqs!Op(k)' = Seqs!Op(k)
  BY <1>1, SameChain
<1>4. /\ DOMAIN s = Fields /\ s.last = locals[at].last /\ s.todo = locals[at].todo
      /\ s.stopped = locals[at].stopped /\ ~ s.cont
  BY <1>1 DEF SeqInv, Control, Fields
<1> HIDE DEF s
<1>5. /\ DOMAIN locals' = Seqs!Stages /\ \A k \in Seqs!Stages : DOMAIN locals'[k] = Fields
      /\ locals'[at] = s
      /\ \A k \in Seqs!Stages : k # at => locals'[k] = locals[k]
  BY <1>1, <1>4, OneStage DEF SeqInv
<1>6. Control'
  BY <1>1, <1>2, <1>3, <1>5 DEF SeqInv, Control
<1>7. Finished'
  BY <1>1, <1>2, <1>3, <1>4, <1>5 DEF SeqInv, Finished
<1>9. Silenced'
  BY <1>1, <1>2, <1>3, <1>4, <1>5 DEF SeqInv, Control, Silenced
<1>10. YieldsWhileWanted'
  BY <1>1, <1>2, <1>3 DEF SeqInv, Control, Silenced, YieldsWhileWanted
<1> QED BY <1>6, <1>7, <1>9, <1>10 DEF SeqInv

(* A stage emits to the one above it, which has not refused it.            *)
LEMMA EmitKeeps ==
  ASSUME SeqInv, Seqs!Emit
  PROVE  SeqInv'
<1> DEFINE s == [locals[at] EXCEPT !.todo = Tail(@)]
<1>1. /\ prog' = prog /\ at \in Seqs!Stages
      /\ UNCHANGED <<refused, answer>>
      /\ doing = "emit" /\ locals[at].todo # <<>> /\ at' = at + 1 /\ doing' = "body"
      /\ locals' = [locals EXCEPT ![at] = s]
  BY DEF Seqs!Emit, Seqs!Call, SeqInv, Control
<1>2. /\ Len(Seqs!chain) \in Nat /\ Seqs!Stages = 1..Len(Seqs!chain)
      /\ Seqs!Consumer = Len(Seqs!chain) + 1
      /\ at \in Int
  BY ChainHasLength DEF SeqInv
<1>3. /\ Seqs!chain' = Seqs!chain /\ Seqs!Stages' = Seqs!Stages /\ Seqs!Consumer' = Seqs!Consumer
      /\ \A k : Seqs!Op(k)' = Seqs!Op(k)
  BY <1>1, SameChain
<1>4. /\ DOMAIN s = Fields /\ s.last = locals[at].last /\ s.cont = locals[at].cont
      /\ s.stopped = locals[at].stopped
  BY <1>1 DEF SeqInv, Control, Fields
<1> HIDE DEF s
<1>5. /\ DOMAIN locals' = Seqs!Stages /\ \A k \in Seqs!Stages : DOMAIN locals'[k] = Fields
      /\ locals'[at] = s
      /\ \A k \in Seqs!Stages : k # at => locals'[k] = locals[k]
  BY <1>1, <1>4, OneStage DEF SeqInv
<1>6. Control'
  BY <1>1, <1>2, <1>3, <1>5 DEF SeqInv, Control
<1>7. Finished'
  BY <1>1, <1>2, <1>3, <1>4, <1>5 DEF SeqInv, Finished
<1>8. at \notin refused
  BY <1>1 DEF SeqInv, Silenced
<1>9. Silenced'
  BY <1>1, <1>2, <1>3, <1>4, <1>5, <1>8 DEF SeqInv, Control, Silenced
<1>10. YieldsWhileWanted'
  BY <1>1, <1>2, <1>8 DEF YieldsWhileWanted
<1> QED BY <1>6, <1>7, <1>9, <1>10 DEF SeqInv

(* A stage is refused, and drops what it has left to emit.                 *)
LEMMA YieldFalseKeeps ==
  ASSUME SeqInv, Seqs!YieldFalse
  PROVE  SeqInv'
<1> DEFINE s == Seqs!Refuse(locals[at], Seqs!Op(at))
<1>1. /\ prog' = prog /\ at \in Seqs!Stages
      /\ refused' = refused \cup {at}
      /\ doing = "resume" /\ at' = at /\ doing' = "emit"
      /\ locals' = [locals EXCEPT ![at] = s]
  BY DEF Seqs!YieldFalse, Seqs!Call, SeqInv, Control
<1>2. /\ Len(Seqs!chain) \in Nat /\ Seqs!Stages = 1..Len(Seqs!chain)
      /\ Seqs!Consumer = Len(Seqs!chain) + 1
      /\ at \in Int
  BY ChainHasLength DEF SeqInv
<1>3. /\ Seqs!chain' = Seqs!chain /\ Seqs!Stages' = Seqs!Stages /\ Seqs!Consumer' = Seqs!Consumer
      /\ \A k : Seqs!Op(k)' = Seqs!Op(k)
  BY <1>1, SameChain
<1>4. /\ DOMAIN s = Fields /\ s.last = locals[at].last /\ s.todo = <<>>
      /\ Seqs!Op(at) \in Seqs!Gathers => s.stopped
      /\ Seqs!Op(at) \notin Seqs!Gathers => ~ s.cont
  BY <1>1 DEF SeqInv, Control, Fields, Seqs!Refuse, Seqs!StopEmitting, Seqs!StopRanging
<1> HIDE DEF s
<1>5. /\ DOMAIN locals' = Seqs!Stages /\ \A k \in Seqs!Stages : DOMAIN locals'[k] = Fields
      /\ locals'[at] = s
      /\ \A k \in Seqs!Stages : k # at => locals'[k] = locals[k]
  BY <1>1, <1>4, OneStage DEF SeqInv
<1>6. Control'
  BY <1>1, <1>2, <1>3, <1>5 DEF SeqInv, Control
<1>7. Finished'
  BY <1>1, <1>2, <1>3, <1>4, <1>5 DEF SeqInv, Finished
<1>9. Silenced'
  BY <1>1, <1>2, <1>3, <1>4, <1>5 DEF SeqInv, Control, Silenced
<1>10. YieldsWhileWanted'
  BY <1>1, <1>2, <1>3 DEF SeqInv, Control, Silenced, YieldsWhileWanted
<1> QED BY <1>6, <1>7, <1>9, <1>10 DEF SeqInv

(* The loop over the sequence below has ended; a Gatherer that was not     *)
(* refused flushes.                                                        *)
LEMMA LoopEndsKeeps ==
  ASSUME SeqInv, Seqs!LoopEnds
  PROVE  SeqInv'
<1> DEFINE s == [locals[at] EXCEPT !.last = TRUE, !.todo = Seqs!Flushed(locals[at], Seqs!Op(at))]
<1>1. /\ prog' = prog /\ at \in Seqs!Stages
      /\ UNCHANGED <<refused, answer>>
      /\ doing = "ended" /\ at' = at /\ doing' = "emit"
      /\ locals' = [locals EXCEPT ![at] = s]
  BY DEF Seqs!LoopEnds, Seqs!Call, SeqInv, Control
<1>2. /\ Len(Seqs!chain) \in Nat /\ Seqs!Stages = 1..Len(Seqs!chain)
      /\ Seqs!Consumer = Len(Seqs!chain) + 1
      /\ at \in Int
  BY ChainHasLength DEF SeqInv
<1>3. /\ Seqs!chain' = Seqs!chain /\ Seqs!Stages' = Seqs!Stages /\ Seqs!Consumer' = Seqs!Consumer
      /\ \A k : Seqs!Op(k)' = Seqs!Op(k)
  BY <1>1, SameChain
<1>4. /\ DOMAIN s = Fields /\ s.last /\ s.stopped = locals[at].stopped
      /\ s.todo = Seqs!Flushed(locals[at], Seqs!Op(at))
  BY <1>1 DEF SeqInv, Control, Fields
<1> HIDE DEF s
<1>5. /\ DOMAIN locals' = Seqs!Stages /\ \A k \in Seqs!Stages : DOMAIN locals'[k] = Fields
      /\ locals'[at] = s
      /\ \A k \in Seqs!Stages : k # at => locals'[k] = locals[k]
  BY <1>1, <1>4, OneStage DEF SeqInv
<1>6. Control'
  BY <1>1, <1>2, <1>3, <1>5 DEF SeqInv, Control
<1>7. Finished'
  BY <1>1, <1>2, <1>3, <1>4, <1>5 DEF SeqInv, Finished
<1>8. at \in refused => s.todo = <<>>
  BY <1>4, EnginesFlushNothing DEF SeqInv, Silenced, Seqs!Flushed
<1>9. Silenced'
  BY <1>1, <1>2, <1>3, <1>4, <1>5, <1>8 DEF SeqInv, Control, Silenced
<1>10. YieldsWhileWanted'
  BY <1>1, <1>2, <1>3 DEF SeqInv, Control, Silenced, YieldsWhileWanted
<1> QED BY <1>6, <1>7, <1>9, <1>10 DEF SeqInv

(* The consumer ranges over the sequence again, and has refused nobody.    *)
LEMMA AgainKeeps ==
  ASSUME SeqInv, Seqs!Again
  PROVE  SeqInv'
<1>1. /\ UNCHANGED <<prog, locals>> /\ refused' = {} /\ at' = Len(Seqs!chain) /\ doing' = "begin"
      /\ at = Seqs!Consumer
  BY DEF Seqs!Again, Seqs!Over, Seqs!Call
<1>2. /\ Len(Seqs!chain) \in Nat /\ Seqs!Stages = 1..Len(Seqs!chain)
      /\ Seqs!Consumer = Len(Seqs!chain) + 1
      /\ at \in Int
  BY ChainHasLength DEF SeqInv
<1>3. /\ Seqs!chain' = Seqs!chain /\ Seqs!Stages' = Seqs!Stages /\ Seqs!Consumer' = Seqs!Consumer
      /\ \A k : Seqs!Op(k)' = Seqs!Op(k)
  BY <1>1, SameChain
<1>4. Control' /\ Finished'
  BY <1>1, <1>2, <1>3 DEF SeqInv, Control, Finished
<1>5. Silenced' /\ YieldsWhileWanted'
  BY <1>1 DEF Silenced, YieldsWhileWanted
<1> QED BY <1>4, <1>5 DEF SeqInv

-----------------------------------------------------------------------------
(* The theorem about the lazy sequences. *)

(* The invariant holds before the consumer ranges over the sequence.       *)
LEMMA InitSeq ==
  ASSUME Seqs!ProgramsAssumption, Seqs!Init
  PROVE  SeqInv
<1>1. Len(Seqs!chain) \in Nat
  BY DEF Seqs!ProgramsAssumption, Seqs!Init, Seqs!chain
<1>2. /\ prog \in Programs /\ refused = {} /\ at = Len(Seqs!chain) /\ doing = "begin"
      /\ locals = [k \in Seqs!Stages |-> Seqs!Fresh(Seqs!Op(k))]
  BY DEF Seqs!Init
<1>3. \A k \in Seqs!Stages : DOMAIN Seqs!Fresh(Seqs!Op(k)) = Fields /\ ~ Seqs!Fresh(Seqs!Op(k)).last
  BY DEF Seqs!Fresh, Fields
<1>4. Control /\ Finished
  BY <1>1, <1>2, <1>3 DEF Control, Finished, Seqs!Consumer
<1>5. Silenced /\ YieldsWhileWanted
  BY <1>2 DEF Silenced, YieldsWhileWanted
<1> QED BY <1>4, <1>5 DEF SeqInv

(* The invariant of the sequences holds in every run over them.            *)
THEOREM SeqInvariance ==
  ASSUME Seqs!ProgramsAssumption
  PROVE  Seqs!Spec => []SeqInv
<1>1. SeqInv /\ [Seqs!Next]_Seqs!vars => SeqInv'
  <2> SUFFICES ASSUME SeqInv, [Seqs!Next]_Seqs!vars PROVE SeqInv'
    OBVIOUS
  <2>1. CASE Seqs!Step
    BY <2>1, BeginKeeps, PullKeeps, SourceEndsKeeps, BodyKeeps, StoppedBodyKeeps, EmitKeeps,
       YieldTrueKeeps, YieldFalseKeeps, BodyReturnsKeeps, LoopEndsKeeps, ReturnsKeeps,
       ConsumeKeeps DEF Seqs!Step
  <2>2. CASE Seqs!Again
    BY <2>2, AgainKeeps
  <2>3. CASE UNCHANGED Seqs!vars
    <3>1. UNCHANGED <<prog, locals, at, doing, answer, refused>>
      BY <2>3 DEF Seqs!vars, Seqs!control
    <3>2. /\ Seqs!Stages' = Seqs!Stages /\ Seqs!Consumer' = Seqs!Consumer
          /\ Seqs!chain' = Seqs!chain /\ \A k : Seqs!Op(k)' = Seqs!Op(k)
      BY <3>1, SameChain
    <3> QED BY <3>1, <3>2 DEF SeqInv, Control, Finished, Silenced, YieldsWhileWanted
  <2> QED BY <2>1, <2>2, <2>3 DEF Seqs!Next
<1> QED BY InitSeq, <1>1, PTL DEF Seqs!Spec

(* In a chain of any stages no loop body is called again after it answered *)
(* false: not with the rest of what one element became, not with the next  *)
(* element, and not with what a Gatherer holds when it finishes (seq.go:   *)
(* gatherSeq, and the yields of the engines).                              *)
THEOREM YieldsWhileWantedForAll ==
  ASSUME Seqs!ProgramsAssumption
  PROVE  Seqs!Spec => []YieldsWhileWanted
<1>1. SeqInv => YieldsWhileWanted
  BY DEF SeqInv
<1> QED BY <1>1, SeqInvariance, PTL
=============================================================================
