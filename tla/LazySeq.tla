------------------------------- MODULE LazySeq -------------------------------
(***************************************************************************)
(* The lazy sequences of stream/seq.go, and the Gatherers of               *)
(* stream/stream.go that Seq and Stream share.  A Seq is a function that   *)
(* ranges over the Seq below it and yields to the loop body above it: an   *)
(* element travels up a chain of nested calls, from the source to the      *)
(* consumer, and the answer whether to go on travels back down.  A loop    *)
(* body that answered false must not be called again: Go's runtime panics. *)
(*                                                                         *)
(* Stages count from 1, above the source at 0 and below the consumer.      *)
(* Elements are sequences of integers, so that the functions given to the  *)
(* stages can be general ones: F marks its argument, an accumulator        *)
(* concatenates, a predicate compares the first integer with a bound.      *)
(***************************************************************************)
EXTENDS Yield, Chains, SequencesExt

VARIABLES
  prog,           \* the program
  pos,            \* the position of the source in its elements
  st,             \* the local variables of each stage
  out             \* what the consumer has received

vars == <<prog, pos, st, control, refused, out>>

chain == prog.chain
source == prog.source
Stages == 1..Len(chain)
Consumer == Len(chain) + 1
Op(k) == chain[k].op
Param(k) == chain[k].n

IsElement(v) == v # <<>> /\ v \in Seq(Int)

TypeOK ==
  /\ prog \in Programs
  /\ pos \in 0..Len(source.items)
  /\ \A k \in Stages :
       /\ Op(k) \in Gathers \cup Engines
       /\ \A i \in DOMAIN st[k].todo : IsElement(st[k].todo[i])
       /\ st[k].cont \in BOOLEAN /\ st[k].stopped \in BOOLEAN /\ st[k].last \in BOOLEAN
       /\ Op(k) \in Engines => ~ st[k].stopped
       /\ Op(k) = "take" => st[k].acc \in 0..Param(k)
       /\ Op(k) \in {"windowFixed", "windowSliding"} => Len(st[k].acc) <= Param(k)
  /\ at \in 0..Consumer
  /\ doing \in {"begin", "body", "emit", "resume", "ended"}
  /\ doing = "body" => IsElement(item)
  /\ answer \in BOOLEAN
  /\ refused \subseteq Stages
  /\ \A i \in DOMAIN out : IsElement(out[i])

-----------------------------------------------------------------------------
(* What a loop body does with an element: the stage's next state, what it  *)
(* yields in turn, and whether the loop goes on.                           *)

Goes(acc, emits) == [acc |-> acc, emits |-> emits, cont |-> TRUE]
Breaks(acc) == [acc |-> acc, emits |-> <<>>, cont |-> FALSE]

Fits(v, n) == v[1] <= n
F(v) == Append(v, 0)
Initial == <<0>>
Copies(v, n) == [i \in 1..n |-> v]

FilterSeq(acc, v, n) == Goes(acc, IF Fits(v, n) THEN <<v>> ELSE <<>>)
MapSeq(acc, v, n) == Goes(acc, <<F(v)>>)
FlatMapSeq(acc, v, n) == Goes(acc, Copies(v, n))
TakeSeqLate(acc, v, n) == [acc |-> acc + 1, emits |-> <<v>>, cont |-> acc < n]
TakeSeq(acc, v, n) == [acc |-> acc + 1, emits |-> <<v>>, cont |-> acc + 1 < n]
SkipSeq(acc, v, n) == IF acc < n THEN Goes(acc + 1, <<>>) ELSE Goes(acc, <<v>>)
ZipSeq(acc, v, n) ==
  IF acc < Len(Other) THEN Goes(acc + 1, <<v \o Other[acc + 1]>>) ELSE Breaks(acc)

MapMulti(acc, v, n) == Goes(acc, Copies(v, n))
TakeWhile(acc, v, n) == IF Fits(v, n) THEN Goes(acc, <<v>>) ELSE Breaks(acc)
DropWhile(dropping, v, n) ==
  IF dropping /\ Fits(v, n) THEN Goes(TRUE, <<>>) ELSE Goes(FALSE, <<v>>)
Enumerate(i, v, n) == Goes(i + 1, <<<<i>> \o v>>)
DistinctBy(seen, v, n) ==
  Goes(seen \cup {v[1]}, IF v[1] \in seen THEN <<>> ELSE <<v>>)
Scan(acc, v, n) == Goes(acc \o v, <<acc \o v>>)
Fold(acc, v, n) == Goes(acc \o v, <<>>)
WindowFixed(window, v, n) ==
  LET w == Append(window, v) IN
  IF Len(w) = n THEN Goes(<<>>, <<FlattenSeq(w)>>) ELSE Goes(w, <<>>)
WindowSliding(window, v, n) ==
  LET w == IF Len(window) = n THEN Append(Tail(window), v) ELSE Append(window, v) IN
  Goes(w, IF Len(w) = n THEN <<FlattenSeq(w)>> ELSE <<>>)
MapWhile(acc, v, n) == IF Fits(v, n) THEN Goes(acc, <<F(v)>>) ELSE Breaks(acc)
ScanWhile(acc, v, n) ==
  IF Fits(v, n) THEN Goes(acc \o v, <<acc \o v>>) ELSE Breaks(acc \o v)

Integrate(op, acc, v, n) ==
  CASE op = "filter" -> FilterSeq(acc, v, n)
    [] op = "map" -> MapSeq(acc, v, n)
    [] op = "flatMap" -> FlatMapSeq(acc, v, n)
    [] op = "take" -> TakeSeq(acc, v, n)
    [] op = "skip" -> SkipSeq(acc, v, n)
    [] op = "zip" -> ZipSeq(acc, v, n)
    [] op = "mapMulti" -> MapMulti(acc, v, n)
    [] op = "takeWhile" -> TakeWhile(acc, v, n)
    [] op = "dropWhile" -> DropWhile(acc, v, n)
    [] op = "enumerate" -> Enumerate(acc, v, n)
    [] op = "distinct" -> DistinctBy(acc, v, n)
    [] op = "scan" -> Scan(acc, v, n)
    [] op = "fold" -> Fold(acc, v, n)
    [] op = "windowFixed" -> WindowFixed(acc, v, n)
    [] op = "windowSliding" -> WindowSliding(acc, v, n)
    [] op = "mapWhile" -> MapWhile(acc, v, n)
    [] op = "scanWhile" -> ScanWhile(acc, v, n)

(* Gatherer.Init, and the counters of the engines. *)
InitOf(op) ==
  CASE op \in {"take", "skip", "zip", "enumerate"} -> 0
    [] op = "dropWhile" -> TRUE
    [] op = "distinct" -> {}
    [] op \in {"scan", "fold", "scanWhile"} -> Initial
    [] OTHER -> <<>>

(* Gatherer.Finish *)
Finish(op, acc) ==
  CASE op = "fold" -> <<acc>>
    [] op = "windowFixed" /\ acc # <<>> -> <<FlattenSeq(acc)>>
    [] OTHER -> <<>>

Fresh(op) ==
  [acc |-> InitOf(op), todo |-> <<>>, cont |-> TRUE, stopped |-> FALSE, last |-> FALSE]

Init ==
  /\ prog \in Programs
  /\ pos = 0
  /\ st = [k \in Stages |-> Fresh(Op(k))]
  /\ at = Len(chain) /\ doing = "begin"
  /\ item = <<>> /\ answer = TRUE
  /\ refused = {} /\ out = <<>>

-----------------------------------------------------------------------------
(* Control.  The consumer ranges over the topmost Seq, whose function      *)
(* ranges over the one below, down to the source.                          *)

Call(k, what) == at' = k /\ doing' = what

(* A call of stage at's function: new local variables.  Take of nothing    *)
(* returns before it ranges over anything.                                 *)
BeginStale ==
  /\ doing = "begin" /\ at \in Stages
  /\ IF Op(at) = "take" /\ Param(at) <= 0 THEN Call(at + 1, "ended") ELSE Call(at - 1, "begin")
  /\ UNCHANGED <<prog, pos, st, item, answer, refused, out>>

Begin ==
  /\ doing = "begin" /\ at \in Stages
  /\ st' = [st EXCEPT ![at] = Fresh(Op(at))]
  /\ IF Op(at) = "take" /\ Param(at) <= 0 THEN Call(at + 1, "ended") ELSE Call(at - 1, "begin")
  /\ UNCHANGED <<prog, pos, item, answer, refused, out>>

(* The source: its elements, and from position back again if that is not 0. *)
Following == IF pos < Len(source.items) THEN pos + 1 ELSE source.back
GoesOn == doing = "begin" \/ (doing = "resume" /\ answer)

Pull ==
  /\ at = 0 /\ GoesOn /\ Following > 0
  /\ pos' = Following
  /\ item' = source.items[pos']
  /\ Call(1, "body")
  /\ UNCHANGED <<prog, st, answer, refused, out>>

SourceEnds ==
  /\ at = 0 /\ ~ (GoesOn /\ Following > 0)
  /\ Call(1, "ended")
  /\ UNCHANGED <<prog, pos, st, item, answer, refused, out>>

(* The loop body of a stage: the integrator, unless its consumer stopped.  *)
Body ==
  /\ doing = "body" /\ at \in Stages /\ ~ st[at].stopped
  /\ LET r == Integrate(Op(at), st[at].acc, item, Param(at)) IN
     st' = [st EXCEPT ![at].acc = r.acc, ![at].todo = r.emits, ![at].cont = r.cont]
  /\ Call(at, "emit")
  /\ UNCHANGED <<prog, pos, item, answer, refused, out>>

StoppedBody ==
  /\ doing = "body" /\ at \in Stages /\ st[at].stopped
  /\ st' = [st EXCEPT ![at].cont = FALSE]
  /\ Call(at, "emit")
  /\ UNCHANGED <<prog, pos, item, answer, refused, out>>

Emit ==
  /\ doing = "emit" /\ st[at].todo # <<>>
  /\ item' = Head(st[at].todo)
  /\ st' = [st EXCEPT ![at].todo = Tail(@)]
  /\ Call(at + 1, "body")
  /\ UNCHANGED <<prog, pos, answer, refused, out>>

(* yield returned: an engine returns at the first false; a Gatherer goes   *)
(* on, and what it emits from then on is dropped.                          *)
YieldTrue ==
  /\ doing = "resume" /\ at \in Stages /\ answer
  /\ Call(at, "emit")
  /\ UNCHANGED <<prog, pos, st, item, answer, refused, out>>

StopEmitting(s) == [s EXCEPT !.stopped = TRUE, !.todo = <<>>]
NoteStop(s) == [s EXCEPT !.stopped = TRUE]

StopRanging(s) == [s EXCEPT !.cont = FALSE, !.todo = <<>>]
RangeOn(s) == [s EXCEPT !.todo = <<>>]

RefuseLoosely(s, op) == IF op \in Gathers THEN NoteStop(s) ELSE StopRanging(s)
RefuseLazily(s, op) == IF op \in Gathers THEN StopEmitting(s) ELSE RangeOn(s)
Refuse(s, op) == IF op \in Gathers THEN StopEmitting(s) ELSE StopRanging(s)

YieldFalse ==
  /\ doing = "resume" /\ at \in Stages /\ ~ answer
  /\ st' = [st EXCEPT ![at] = Refuse(@, Op(at))]
  /\ refused' = refused \cup {at}
  /\ Call(at, "emit")
  /\ UNCHANGED <<prog, pos, item, answer, out>>

BodyReturns ==
  /\ doing = "emit" /\ st[at].todo = <<>> /\ ~ st[at].last
  /\ answer' = st[at].cont
  /\ Call(at - 1, "resume")
  /\ UNCHANGED <<prog, pos, st, item, refused, out>>

(* The Seq below has ended: a Gatherer finishes, unless its consumer       *)
(* stopped, and the stage's function returns.                              *)
Flushed(s, op) == IF s.stopped THEN <<>> ELSE Finish(op, s.acc)

LoopEnds ==
  /\ doing = "ended" /\ at \in Stages
  /\ st' = [st EXCEPT ![at].last = TRUE, ![at].todo = Flushed(st[at], Op(at))]
  /\ Call(at, "emit")
  /\ UNCHANGED <<prog, pos, item, answer, refused, out>>

Returns ==
  /\ doing = "emit" /\ st[at].todo = <<>> /\ st[at].last
  /\ Call(at + 1, "ended")
  /\ UNCHANGED <<prog, pos, st, item, answer, refused, out>>

(* The consumer, a loop or a terminal such as First, AnyOf or Collect. *)
Satisfied == prog.want > 0 /\ Len(out) >= prog.want
Over == at = Consumer /\ doing = "ended"

Consume ==
  /\ doing = "body" /\ at = Consumer
  /\ out' = Append(out, item)
  /\ answer' = (prog.want = 0 \/ Len(out') < prog.want)
  /\ Call(at - 1, "resume")
  /\ UNCHANGED <<prog, pos, st, item, refused>>

Again ==
  /\ Over
  /\ pos' = 0 /\ refused' = {} /\ out' = <<>>
  /\ Call(Len(chain), "begin")
  /\ UNCHANGED <<prog, st, item, answer>>

Step ==
  \/ Begin \/ Pull \/ SourceEnds \/ Body \/ StoppedBody \/ Emit \/ YieldTrue \/ YieldFalse
  \/ BodyReturns \/ LoopEnds \/ Returns \/ Consume

Next == Step \/ Again

Spec == Init /\ [][Next]_vars

(* The one goroutine that ranges over the Seq runs. *)
FairSpec == Spec /\ WF_vars(Step)

-----------------------------------------------------------------------------
(* What each stage means, as a function from lists to lists. *)

Map(s, G(_)) == [i \in DOMAIN s |-> G(s[i])]
FirstMisfit(s, n) ==
  CHOOSE k \in 0..Len(s) : /\ \A i \in 1..k : Fits(s[i], n)
                           /\ k = Len(s) \/ ~ Fits(s[k + 1], n)
Slice(s, a, b) == SubSeq(s, a, IF b < Len(s) THEN b ELSE Len(s))
Sums(s) == [i \in DOMAIN s |-> Initial \o FlattenSeq(SubSeq(s, 1, i))]

Meaning(op, s, n) ==
  CASE op = "filter" -> SelectSeq(s, LAMBDA v : Fits(v, n))
    [] op = "map" -> Map(s, F)
    [] op \in {"flatMap", "mapMulti"} -> FlattenSeq(Map(s, LAMBDA v : Copies(v, n)))
    [] op = "take" -> Slice(s, 1, n)
    [] op = "skip" -> Slice(s, n + 1, Len(s))
    [] op = "zip" -> [i \in 1..Len(Slice(s, 1, Len(Other))) |-> s[i] \o Other[i]]
    [] op = "takeWhile" -> Slice(s, 1, FirstMisfit(s, n))
    [] op = "dropWhile" -> Slice(s, FirstMisfit(s, n) + 1, Len(s))
    [] op = "enumerate" -> [i \in DOMAIN s |-> <<i - 1>> \o s[i]]
    [] op = "distinct" ->
         [j \in 1..Cardinality({v[1] : v \in ToSet(s)}) |->
            s[CHOOSE i \in DOMAIN s :
                /\ \A h \in 1..(i - 1) : s[h][1] # s[i][1]
                /\ Cardinality({s[h][1] : h \in 1..i}) = j]]
    [] op = "scan" -> Sums(s)
    [] op = "fold" -> <<Initial \o FlattenSeq(s)>>
    [] op = "windowFixed" ->
         [i \in 1..((Len(s) + n - 1) \div n) |-> FlattenSeq(Slice(s, (i - 1) * n + 1, i * n))]
    [] op = "windowSliding" ->
         [i \in 1..(Len(s) - n + 1) |-> FlattenSeq(SubSeq(s, i, i + n - 1))]
    [] op = "mapWhile" -> Map(Slice(s, 1, FirstMisfit(s, n)), F)
    [] op = "scanWhile" -> Sums(Slice(s, 1, FirstMisfit(s, n)))

(* The list a chain makes of the list s. *)
Result(s) ==
  FoldLeft(LAMBDA list, stage : Meaning(stage.op, list, stage.n), s, chain)

-----------------------------------------------------------------------------
(* Properties, besides YieldsWhileWanted of Yield. *)

(* The consumer receives what the composed list functions make of the      *)
(* source's elements, in order, as far as it wants: in the first run over  *)
(* the Seq and in every later one.                                         *)
GivesResult ==
  source.back = 0 =>
    /\ IsPrefix(out, Result(source.items))
    /\ Over => \/ out = Result(source.items)
               \/ Satisfied /\ Len(out) = prog.want

Gathered(k) == \E j \in 1..(k - 1) : Op(j) \in Gathers

(* Short-circuiting: when the consumer has what it wants, the last element *)
(* pulled from the source was needed for it, unless a Gatherer in the      *)
(* chain pulls on.                                                         *)
PullsWhatIsNeeded ==
  source.back = 0 /\ Satisfied /\ ~ Gathered(Consumer) =>
    Len(Result(SubSeq(source.items, 1, pos - 1))) < prog.want

(* Ranging over a Seq ends: with its source; and over an unbounded source  *)
(* when the consumer is satisfied or a Take has taken its elements, unless *)
(* a Gatherer below pulls on.                                              *)
Ended(k) ==
  IF k = Consumer THEN Satisfied
  ELSE k \in Stages /\ Op(k) = "take" /\ doing # "begin" /\ st[k].acc >= Param(k)

Longest == 3

RunEnds ==
  /\ source.back = 0 ~> Over
  /\ \A k \in 1..(Longest + 1) : (k <= Consumer /\ Ended(k) /\ ~ Gathered(k)) ~> Over

(* The documentation of Seq: it "short-circuits", "stops pulling           *)
(* immediately on first match", "safe over arbitrary sources including     *)
(* unbounded ones".                                                        *)
ShortCircuits == Satisfied ~> Over
=============================================================================
