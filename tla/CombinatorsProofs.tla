--------------------------- MODULE CombinatorsProofs ---------------------------
(***************************************************************************)
(* Proofs about the combinators, for any number of sources and any of them *)
(* under the caller's context: TypeOK, ValuesFromSources and               *)
(* RejectedForCause of Combinators.tla, from CombinatorsInv.               *)
(***************************************************************************)
EXTENDS Combinators, TLAPS

(* Results and errors of different origin differ.                          *)
LEMMA ResultsDiffer ==
  /\ \A i : OK(i) # NoResult /\ OK(i).ok
  /\ \A e : Err(e) # NoResult /\ ~ Err(e).ok /\ Err(e).err = e
  /\ \A f : OKOf(f) # NoResult /\ OKOf(f).ok /\ OKOf(f).val = f
  /\ ~ NoResult.ok
<1>1. DOMAIN NoResult = {"ok"} /\ ~ NoResult.ok
  BY DEF NoResult
<1>2. ASSUME NEW i PROVE OK(i) # NoResult /\ OK(i).ok
  BY <1>1 DEF OK
<1>3. ASSUME NEW e PROVE Err(e) # NoResult /\ ~ Err(e).ok /\ Err(e).err = e
  <2>1. DOMAIN Err(e) = {"ok", "err"}
    BY DEF Err
  <2>2. "err" # "ok"
    OBVIOUS
  <2>3. Err(e) # NoResult
    BY <1>1, <2>1, <2>2
  <2> QED BY <2>3 DEF Err
<1>4. ASSUME NEW f PROVE OKOf(f) # NoResult /\ OKOf(f).ok /\ OKOf(f).val = f
  BY <1>1 DEF OKOf
<1> QED BY <1>1, <1>2, <1>3, <1>4

(* The errors of a combinator differ, and none is the mark of a live       *)
(* context.                                                                *)
LEMMA ErrorsDiffer ==
  /\ CallerErr # Live /\ UserErr # Live /\ Canceled # Live /\ EmptySources # Live
  /\ AllFailed # Live /\ AllFailed # CallerErr /\ AllFailed # UserErr /\ AllFailed # EmptySources
  /\ \A i : Failed(i) # Live /\ Failed(i) # AllFailed
  /\ Live \notin Errors
  /\ CallerErr \in Errors /\ UserErr \in Errors /\ Canceled \in Errors
  /\ EmptySources \in Errors /\ AllFailed \in Errors /\ \A i \in 1..N : Failed(i) \in Errors
BY DEF CallerErr, UserErr, Canceled, EmptySources, AllFailed, Failed, Live, Errors

(* What a source may hold and what its group is cancelled with then.       *)
LEMMA CauseOfResult ==
  /\ \A r \in SourceResults : CauseOf(r) \in Errors
  /\ \A r \in SourceResults : r # NoResult
  /\ \A e \in Errors : Err(e) \in SourceResults
  /\ \A i \in 1..N : OK(i) \in SourceResults
BY ResultsDiffer, ErrorsDiffer DEF SourceResults, CauseOf

(* The order in which a goroutine decides, stops the group and sweeps.     *)
LEMMA StopsInOrder ==
  /\ StopSteps[1] = "decide"
  /\ StepAfter("decide") = IF kind = "Zip" THEN "sweep" ELSE "stop"
  /\ StepAfter("stop") = IF kind = "Zip" THEN "done" ELSE "sweep"
  /\ StepAfter("sweep") = IF kind = "Zip" THEN "stop" ELSE "done"
<1>1. 1..3 = {1, 2, 3}
  OBVIOUS
<1>2. CASE kind = "Zip"
  <2>1. StopSteps = <<"decide", "sweep", "stop", "done">>
    BY <1>2 DEF StopSteps
  <2>2. /\ (CHOOSE j \in 1..3 : StopSteps[j] = "decide") = 1
        /\ (CHOOSE j \in 1..3 : StopSteps[j] = "sweep") = 2
        /\ (CHOOSE j \in 1..3 : StopSteps[j] = "stop") = 3
    BY <1>1, <2>1
  <2> QED BY <1>2, <2>1, <2>2 DEF StepAfter
<1>3. CASE kind # "Zip"
  <2>1. StopSteps = <<"decide", "stop", "sweep", "done">>
    BY <1>3 DEF StopSteps
  <2>2. /\ (CHOOSE j \in 1..3 : StopSteps[j] = "decide") = 1
        /\ (CHOOSE j \in 1..3 : StopSteps[j] = "stop") = 2
        /\ (CHOOSE j \in 1..3 : StopSteps[j] = "sweep") = 3
    BY <1>1, <2>1
  <2> QED BY <1>3, <2>1, <2>2 DEF StepAfter
<1> QED BY <1>2, <1>3

-----------------------------------------------------------------------------
(* The invariant. *)

Values == UNION {[S -> SourceResults] : S \in SUBSET Sources}

Types ==
  /\ kind \in Kinds /\ n \in 0..N
  /\ src \in [Sources -> SourceResults \cup {NoResult}]
  /\ ended \subseteq Sources \cap Bound
  /\ cause \in [{"caller", "group", "combined"} -> Errors \cup {Live}]
  /\ decided \in BOOLEAN
  /\ pc \in [Sources -> {"await", "policy", "decide", "stop", "sweep", "done"}]
  /\ res \in [Sources -> SourceResults \cup {NoResult}]
  /\ out \in [Sources -> SourceResults \cup {NoResult}]
  /\ main \in {"wait", "done"} /\ watch \in {"wait", "sweep", "done"}
  /\ fut = NoResult \/ (\E e \in Errors : fut = Err(e)) \/ (\E f \in Values : fut = OKOf(f))

(* A sweep goes through the sources once, from the first.                  *)
Sweeps ==
  /\ sweep \in [0..n -> 1..(n + 1)]
  /\ \A i \in Sources :
       /\ pc[i] \in {"await", "policy", "decide"} => sweep[i] = 1
       /\ pc[i] = "stop" /\ kind # "Zip" => sweep[i] = 1
       /\ pc[i] = "sweep" => sweep[i] \in Sources
  /\ watch # "done" => n > 0
  /\ watch = "wait" => sweep[0] = 1
  /\ watch = "sweep" => sweep[0] \in Sources

(* Until the combined future is settled, no context ends but with the      *)
(* caller's; when it is settled, its own has ended.                        *)
CallerGone == cause["caller"] = CallerErr
Causes ==
  /\ cause["caller"] # Live => CallerGone
  /\ fut = NoResult =>
       \A c \in {"group", "combined"} : cause[c] # Live => cause[c] = CallerErr /\ CallerGone
  /\ fut # NoResult => cause["combined"] # Live
  /\ watch # "wait" => cause["combined"] # Live
  /\ ended # {} => CallerGone

(* A goroutine that stops the group has decided, on a result that its      *)
(* policy does not store; one that did not decide has stored.              *)
Decisions ==
  /\ decided => fut # NoResult
  /\ \A i \in Sources :
       /\ pc[i] \in {"stop", "sweep"} => decided
       /\ pc[i] \in {"decide", "stop", "sweep"} => ~ Stores(res[i])
       /\ pc[i] # "await" => res[i] # NoResult
       /\ pc[i] = "done" => decided \/ (Stores(res[i]) /\ out[i] = res[i])

(* What a goroutine holds is its source's result, or the group's cause.    *)
Held ==
  \A i \in Sources :
    /\ res[i].ok => res[i] = src[i]
    /\ res[i] # NoResult =>
         res[i] = src[i] \/ (cause["group"] # Live /\ res[i] = Err(cause["group"]))

(* No source is made to pay for a decision not yet taken.                  *)
Spared ==
  \A i \in Sources :
    /\ fut = NoResult /\ src[i] # NoResult =>
         \/ src[i] \in {OK(i), Err(Failed(i))}
         \/ src[i] = Err(CallerErr) /\ CallerGone
    /\ src[i] # NoResult /\ src[i] \notin {OK(i), Err(Failed(i))} =>
         cause["combined"] # Live \/ i \in ended

Value(f) ==
  /\ kind \in {"AllOf", "Zip", "AllSettled"} => DOMAIN f = Sources
  /\ \A i \in DOMAIN f :
       \/ src[i] # NoResult /\ f[i] = src[i] /\ (src[i].ok \/ kind = "AllSettled")
       \/ kind = "AllSettled" /\ CallerGone /\ f[i] = Err(CallerErr)

Reason(e) ==
  \/ n = 0
  \/ e = AllFailed /\ kind = "AnyOf"
  \/ e = UserErr
  \/ e = CallerErr /\ CallerGone
  \/ \E i \in Sources : e = Failed(i) /\ src[i] = Err(e) /\ kind # "AnyOf"

AllFail == \A i \in Sources : src[i] # NoResult /\ ~ src[i].ok

(* The combined future's result is as the properties say.                  *)
Outcome ==
  /\ \A f : fut = OKOf(f) => Value(f)
  /\ \A e : fut = Err(e) => Reason(e)
  /\ fut = Err(AllFailed) => CallerGone \/ AllFail

CombinatorsInv ==
  Types /\ Sweeps /\ Causes /\ Decisions /\ Held /\ Spared /\ Outcome

-----------------------------------------------------------------------------
(* What no step takes back: results of sources and causes of contexts.     *)
Steady ==
  /\ UNCHANGED <<kind, n>>
  /\ \A i \in Sources : src[i] # NoResult => src'[i] = src[i]
  /\ \A c \in {"caller", "group", "combined"} : cause[c] # Live => cause'[c] = cause[c]

(* A reason for the combined result stays one.                             *)
LEMMA ReasonsStay ==
  ASSUME Types, Steady
  PROVE  /\ Sources' = Sources /\ Values' = Values
         /\ CallerGone => CallerGone'
         /\ \A f \in Values : Value(f) => Value(f)'
         /\ \A e : Reason(e) => Reason(e)'
<1>1. Sources' = Sources /\ Values' = Values
  BY DEF Steady, Sources, Values
<1>2. CallerGone => CallerGone'
  BY ErrorsDiffer DEF Steady, CallerGone
<1>3. ASSUME NEW f \in Values, Value(f) PROVE Value(f)'
  <2>1. \A i \in DOMAIN f : i \in Sources /\ f[i] # NoResult
    BY CauseOfResult DEF Values
  <2>2. \A i \in DOMAIN f :
          \/ src'[i] # NoResult /\ f[i] = src'[i] /\ (src'[i].ok \/ kind = "AllSettled")
          \/ kind = "AllSettled" /\ CallerGone' /\ f[i] = Err(CallerErr)
    BY <1>2, <1>3, <2>1 DEF Value, Steady
  <2>3. kind' = kind
    BY DEF Steady
  <2> QED BY <1>1, <1>3, <2>2, <2>3 DEF Value
<1>4. ASSUME NEW e, Reason(e) PROVE Reason(e)'
  <2>1. kind' = kind /\ n' = n
    BY DEF Steady
  <2>2. \A i \in Sources : src[i] = Err(e) => src'[i] = Err(e)
    BY ResultsDiffer DEF Steady
  <2>3. CASE \E i \in Sources : e = Failed(i) /\ src[i] = Err(e) /\ kind # "AnyOf"
    <3>1. \E i \in Sources : e = Failed(i) /\ src'[i] = Err(e) /\ kind' # "AnyOf"
      BY <2>1, <2>2, <2>3
    <3> QED BY <1>1, <3>1 DEF Reason
  <2>4. CASE ~ \E i \in Sources : e = Failed(i) /\ src[i] = Err(e) /\ kind # "AnyOf"
    BY <1>2, <1>4, <2>1, <2>4 DEF Reason
  <2> QED BY <2>3, <2>4
<1> QED BY <1>1, <1>2, <1>3, <1>4

(* A step that does not settle the combined future leaves its outcome.     *)
LEMMA OutcomeStays ==
  ASSUME Types, Outcome, Steady, UNCHANGED fut
  PROVE  Outcome'
<1>1. ASSUME NEW f, fut = OKOf(f) PROVE Value(f)'
  <2>1. f \in Values
    BY <1>1, ResultsDiffer DEF Types
  <2> QED BY <1>1, <2>1, ReasonsStay DEF Outcome
<1>2. ASSUME NEW e, fut = Err(e) PROVE Reason(e)'
  BY <1>2, ReasonsStay DEF Outcome
<1>3. Sources' = Sources /\ (CallerGone => CallerGone')
  BY ReasonsStay
<1>4. AllFail => AllFail'
  BY <1>3 DEF AllFail, Steady
<1> QED BY <1>1, <1>2, <1>3, <1>4 DEF Outcome

(* Nothing but the result of a source, i, that had none, or nothing.       *)
LEMMA SourceSettles ==
  ASSUME Types, NEW i \in Sources, NEW r \in SourceResults, SettleSource(i, r)
  PROVE  /\ src' \in [Sources -> SourceResults \cup {NoResult}]
         /\ \A j \in Sources : src'[j] = IF j = i /\ src[i] = NoResult THEN r ELSE src[j]
         /\ \A j \in Sources : src[j] # NoResult => src'[j] = src[j]
<1>1. src \in [Sources -> SourceResults \cup {NoResult}]
  BY DEF Types
<1>2. src' = IF src[i] # NoResult THEN src ELSE [src EXCEPT ![i] = r]
  BY DEF SettleSource, Settled
<1> QED BY <1>1, <1>2

(* The combined future's result, if it had none, and its context's cause.  *)
LEMMA CombinedSettles ==
  ASSUME Types, Causes, NEW r, CauseOf(r) \in Errors, r # NoResult, SettleCombined(r)
  PROVE  /\ fut' = IF fut = NoResult THEN r ELSE fut
         /\ cause' \in [{"caller", "group", "combined"} -> Errors \cup {Live}]
         /\ cause'["caller"] = cause["caller"] /\ cause'["group"] = cause["group"]
         /\ cause'["combined"] # Live
         /\ cause["combined"] # Live => cause'["combined"] = cause["combined"]
<1>1. cause \in [{"caller", "group", "combined"} -> Errors \cup {Live}]
  BY DEF Types
<1>2. CASE fut # NoResult
  BY <1>1, <1>2 DEF SettleCombined, Causes
<1>3. CASE fut = NoResult /\ cause["combined"] # Live
  BY <1>1, <1>3 DEF SettleCombined, Done
<1>4. CASE fut = NoResult /\ cause["combined"] = Live
  <2>1. fut' = r /\ cause' = [cause EXCEPT !["combined"] = CauseOf(r)]
    BY <1>4 DEF SettleCombined, Done
  <2>2. CauseOf(r) # Live
    BY ErrorsDiffer
  <2> QED BY <1>1, <1>4, <2>1, <2>2
<1> QED BY <1>2, <1>3, <1>4

(* What the goroutines hold stays explained while they wait.               *)
LEMMA HeldStays ==
  ASSUME Types, Held, Steady, UNCHANGED res
  PROVE  Held'
<1>1. Sources' = Sources
  BY ReasonsStay
<1>2. ASSUME NEW i \in Sources
      PROVE  /\ res[i].ok => res[i] = src'[i]
             /\ res[i] # NoResult =>
                  \/ res[i] = src'[i]
                  \/ cause'["group"] # Live /\ res[i] = Err(cause'["group"])
  <2>1. CASE res[i] = NoResult
    BY <2>1, ResultsDiffer
  <2>2. CASE res[i] # NoResult /\ res[i] = src[i]
    BY <2>2 DEF Steady
  <2>3. CASE res[i] # NoResult /\ res[i] # src[i]
    BY <2>3 DEF Held, Steady
  <2> QED BY <2>1, <2>2, <2>3
<1> QED BY <1>1, <1>2 DEF Held

(* Nothing about the decisions changes while the goroutines wait.          *)
LEMMA DecisionsStay ==
  ASSUME Decisions, UNCHANGED <<kind, n, pc, res, out, decided>>, fut # NoResult => fut' # NoResult
  PROVE  Decisions'
<1>1. Sources' = Sources
  BY DEF Sources
<1>2. \A i \in Sources : Stores(res[i])' <=> Stores(res[i])
  BY DEF Stores
<1> QED BY <1>1, <1>2 DEF Decisions

(* There are at most N sources.                                            *)
LEMMA SourcesBounded == ASSUME Types PROVE Sources \subseteq 1..N
BY CombinatorsAssumption DEF Types, Sources

-----------------------------------------------------------------------------
(* The steps. *)

(* A producer settles a source that had no result; nobody holds it yet.    *)
LEMMA ProduceKeeps ==
  ASSUME CombinatorsInv, NEW i \in Sources, Produce(i)
  PROVE  CombinatorsInv'
<1>0. Types /\ Sweeps /\ Causes /\ Decisions /\ Held /\ Spared /\ Outcome
  BY DEF CombinatorsInv
<1>1. PICK r \in {OK(i), Err(Failed(i))} :
        /\ SettleSource(i, r) /\ src[i] = NoResult
        /\ UNCHANGED <<kind, n, ended, cause, fut, decided, pc, res, out, sweep, main, watch>>
  BY DEF Produce, Settled
<1>2. r \in SourceResults
  BY <1>0, SourcesBounded, CauseOfResult, ErrorsDiffer
<1>3. /\ src' \in [Sources -> SourceResults \cup {NoResult}]
      /\ \A j \in Sources : src'[j] = IF j = i THEN r ELSE src[j]
      /\ \A j \in Sources : src[j] # NoResult => src'[j] = src[j]
  BY <1>0, <1>1, <1>2, SourceSettles
<1>4. Steady
  BY <1>1, <1>3 DEF Steady
<1>5. Sources' = Sources /\ Values' = Values
  BY <1>0, <1>4, ReasonsStay
<1>6. Types'
  BY <1>0, <1>1, <1>3, <1>5 DEF Types
<1>7. Sweeps' /\ Causes'
  BY <1>0, <1>1, <1>5 DEF Sweeps, Causes, CallerGone
<1>8. Decisions' /\ Held' /\ Outcome'
  BY <1>0, <1>1, <1>4, DecisionsStay, HeldStays, OutcomeStays
<1>9. Spared'
  BY <1>0, <1>1, <1>3, <1>5 DEF Spared, CallerGone
<1> QED BY <1>6, <1>7, <1>8, <1>9 DEF CombinatorsInv

(* The caller's context ends.                                              *)
LEMMA CallerCancelsKeeps ==
  ASSUME CombinatorsInv, CallerCancels
  PROVE  CombinatorsInv'
<1>0. Types /\ Sweeps /\ Causes /\ Decisions /\ Held /\ Spared /\ Outcome
  BY DEF CombinatorsInv
<1>1. /\ cause["caller"] = Live
      /\ cause' = [cause EXCEPT !["caller"] = CallerErr]
      /\ UNCHANGED <<kind, n, src, ended, fut, decided, pc, res, out, sweep, main, watch>>
  BY DEF CallerCancels, Done
<1>2. cause' \in [{"caller", "group", "combined"} -> Errors \cup {Live}]
  BY <1>0, <1>1, ErrorsDiffer DEF Types
<1>3. /\ cause'["caller"] = CallerErr
      /\ cause'["group"] = cause["group"] /\ cause'["combined"] = cause["combined"]
  BY <1>0, <1>1 DEF Types
<1>4. Steady
  BY <1>1, <1>3 DEF Steady
<1>5. Sources' = Sources /\ Values' = Values
  BY <1>0, <1>4, ReasonsStay
<1>6. Types'
  BY <1>0, <1>1, <1>2, <1>5 DEF Types
<1>7. Sweeps'
  BY <1>0, <1>1, <1>5 DEF Sweeps
<1>8. Causes'
  BY <1>0, <1>1, <1>3 DEF Causes, CallerGone
<1>9. Decisions' /\ Held' /\ Outcome'
  BY <1>0, <1>1, <1>4, DecisionsStay, HeldStays, OutcomeStays
<1>10. Spared'
  BY <1>0, <1>1, <1>3, <1>5 DEF Spared, CallerGone
<1> QED BY <1>6, <1>7, <1>8, <1>9, <1>10 DEF CombinatorsInv

(* The caller's cause reaches the group's or the combined future's         *)
(* context.                                                                *)
LEMMA PropagateKeeps ==
  ASSUME CombinatorsInv, NEW c \in {"group", "combined"}, Propagate(c)
  PROVE  CombinatorsInv'
<1>0. Types /\ Sweeps /\ Causes /\ Decisions /\ Held /\ Spared /\ Outcome
  BY DEF CombinatorsInv
<1>1. PICK p \in {"caller", "group"} :
        /\ p # c /\ p = Parent(c) /\ cause[p] # Live /\ cause[c] = Live
        /\ cause' = [cause EXCEPT ![c] = cause[p]]
        /\ UNCHANGED <<kind, n, src, ended, fut, decided, pc, res, out, sweep, main, watch>>
  BY DEF Propagate, Done, Parent
<1>2. cause' \in [{"caller", "group", "combined"} -> Errors \cup {Live}]
  BY <1>0, <1>1 DEF Types
<1>3. \A d \in {"caller", "group", "combined"} : cause'[d] = IF d = c THEN cause[p] ELSE cause[d]
  BY <1>0, <1>1 DEF Types
<1>4. Steady
  BY <1>1, <1>3 DEF Steady
<1>5. Sources' = Sources /\ Values' = Values
  BY <1>0, <1>4, ReasonsStay
<1>6. Types'
  BY <1>0, <1>1, <1>2, <1>5 DEF Types
<1>7. Sweeps'
  BY <1>0, <1>1, <1>5 DEF Sweeps
<1>8. Causes'
  BY <1>0, <1>1, <1>3 DEF Causes, CallerGone
<1>9. Decisions' /\ Held' /\ Outcome'
  BY <1>0, <1>1, <1>4, DecisionsStay, HeldStays, OutcomeStays
<1>10. Spared'
  <2>1. cause["combined"] # Live => cause'["combined"] # Live
    BY <1>1, <1>3
  <2>2. CallerGone' <=> CallerGone
    BY <1>1, <1>3 DEF CallerGone
  <2> QED BY <1>0, <1>1, <1>5, <2>1, <2>2 DEF Spared
<1> QED BY <1>6, <1>7, <1>8, <1>9, <1>10 DEF CombinatorsInv

(* The caller's cause reaches the context of a source below it.            *)
LEMMA PropagateToSourceKeeps ==
  ASSUME CombinatorsInv, NEW i \in Sources, PropagateToSource(i)
  PROVE  CombinatorsInv'
<1>0. Types /\ Sweeps /\ Causes /\ Decisions /\ Held /\ Spared /\ Outcome
  BY DEF CombinatorsInv
<1>1. /\ i \in Bound /\ cause["caller"] # Live
      /\ ended' = ended \cup {i}
      /\ UNCHANGED <<kind, n, src, cause, fut, decided, pc, res, out, sweep, main, watch>>
  BY DEF PropagateToSource, Done
<1>2. Steady
  BY <1>1 DEF Steady
<1>3. Sources' = Sources /\ Values' = Values
  BY <1>0, <1>2, ReasonsStay
<1>4. Types'
  BY <1>0, <1>1, <1>3 DEF Types
<1>5. Sweeps' /\ Causes'
  BY <1>0, <1>1, <1>3 DEF Sweeps, Causes, CallerGone
<1>6. Decisions' /\ Held' /\ Outcome'
  BY <1>0, <1>1, <1>2, DecisionsStay, HeldStays, OutcomeStays
<1>7. Spared'
  BY <1>0, <1>1, <1>3 DEF Spared, CallerGone
<1> QED BY <1>4, <1>5, <1>6, <1>7 DEF CombinatorsInv

(* A goroutine takes its source's result, or the cause it ended with.      *)
LEMMA TakeSourceKeeps ==
  ASSUME CombinatorsInv, NEW i \in Sources, TakeSource(i)
  PROVE  CombinatorsInv'
<1>0. Types /\ Sweeps /\ Causes /\ Decisions /\ Held /\ Spared /\ Outcome
  BY DEF CombinatorsInv
<1>1. /\ pc[i] = "await"
      /\ src[i] # NoResult \/ i \in ended
      /\ SettleSource(i, Err(CallerErr))
      /\ res' = [res EXCEPT ![i] = src'[i]]
      /\ pc' = [pc EXCEPT ![i] = "policy"]
      /\ UNCHANGED <<kind, n, ended, cause, fut, decided, out, sweep, main, watch>>
  BY DEF TakeSource, Settled
<1>2. Err(CallerErr) \in SourceResults /\ Err(CallerErr) # NoResult
  BY CauseOfResult, ErrorsDiffer, ResultsDiffer
<1>3. /\ src' \in [Sources -> SourceResults \cup {NoResult}]
      /\ \A j \in Sources :
           src'[j] = IF j = i /\ src[i] = NoResult THEN Err(CallerErr) ELSE src[j]
      /\ \A j \in Sources : src[j] # NoResult => src'[j] = src[j]
  BY <1>0, <1>1, <1>2, SourceSettles
<1>4. Steady
  BY <1>1, <1>3 DEF Steady
<1>5. Sources' = Sources /\ Values' = Values
  BY <1>0, <1>4, ReasonsStay
<1>6. /\ res' \in [Sources -> SourceResults \cup {NoResult}]
      /\ \A j \in Sources : res'[j] = IF j = i THEN src'[i] ELSE res[j]
      /\ src'[i] # NoResult
  BY <1>0, <1>1, <1>2, <1>3 DEF Types
<1>7. /\ pc' \in [Sources -> {"await", "policy", "decide", "stop", "sweep", "done"}]
      /\ \A j \in Sources : pc'[j] = IF j = i THEN "policy" ELSE pc[j]
  BY <1>0, <1>1 DEF Types
<1>8. Types'
  BY <1>0, <1>1, <1>3, <1>5, <1>6, <1>7 DEF Types
<1>9. Sweeps' /\ Causes'
  <2>1. Sweeps'
    BY <1>0, <1>1, <1>5, <1>7 DEF Sweeps
  <2>2. Causes'
    BY <1>0, <1>1 DEF Causes, CallerGone
  <2> QED BY <2>1, <2>2
<1>10. Decisions'
  <2>1. \A j \in Sources : j # i => (Stores(res[j])' <=> Stores(res[j]))
    BY <1>1, <1>6 DEF Stores
  <2> QED BY <1>0, <1>1, <1>5, <1>6, <1>7, <2>1 DEF Decisions
<1>11. Held'
  <2> SUFFICES ASSUME NEW j \in Sources
               PROVE  /\ res'[j].ok => res'[j] = src'[j]
                      /\ res'[j] # NoResult =>
                           res'[j] = src'[j] \/ (cause["group"] # Live /\ res'[j] = Err(cause["group"]))
    BY <1>1, <1>5 DEF Held
  <2>1. CASE j = i
    BY <1>6, <2>1
  <2>2. CASE j # i
    BY <1>0, <1>3, <1>6, <2>2 DEF Held
  <2> QED BY <2>1, <2>2
<1>12. Spared'
  BY <1>0, <1>1, <1>3, <1>5 DEF Spared, Causes, CallerGone
<1>13. Outcome'
  BY <1>0, <1>1, <1>4, <1>6, <1>7, OutcomeStays
<1> QED BY <1>8, <1>9, <1>10, <1>11, <1>12, <1>13 DEF CombinatorsInv

(* A goroutine that waits takes the group's cause in place of a result.    *)
LEMMA TakeGroupKeeps ==
  ASSUME CombinatorsInv, NEW i \in Sources, TakeGroup(i)
  PROVE  CombinatorsInv'
<1>0. Types /\ Sweeps /\ Causes /\ Decisions /\ Held /\ Spared /\ Outcome
  BY DEF CombinatorsInv
<1>1. /\ pc[i] = "await" /\ cause["group"] # Live
      /\ res' = [res EXCEPT ![i] = Err(cause["group"])]
      /\ pc' = [pc EXCEPT ![i] = "policy"]
      /\ UNCHANGED <<kind, n, src, ended, cause, fut, decided, out, sweep, main, watch>>
  BY DEF TakeGroup, Done
<1>2. /\ Err(cause["group"]) \in SourceResults
      /\ Err(cause["group"]) # NoResult /\ ~ Err(cause["group"]).ok
  BY <1>0, <1>1, CauseOfResult, ResultsDiffer DEF Types
<1>3. Steady
  BY <1>1 DEF Steady
<1>4. Sources' = Sources /\ Values' = Values
  BY <1>0, <1>3, ReasonsStay
<1>5. /\ res' \in [Sources -> SourceResults \cup {NoResult}]
      /\ \A j \in Sources : res'[j] = IF j = i THEN Err(cause["group"]) ELSE res[j]
  BY <1>0, <1>1, <1>2 DEF Types
<1>6. /\ pc' \in [Sources -> {"await", "policy", "decide", "stop", "sweep", "done"}]
      /\ \A j \in Sources : pc'[j] = IF j = i THEN "policy" ELSE pc[j]
  BY <1>0, <1>1 DEF Types
<1>7. Types'
  BY <1>0, <1>1, <1>4, <1>5, <1>6 DEF Types
<1>8. Sweeps'
  BY <1>0, <1>1, <1>4, <1>6 DEF Sweeps
<1>9. Causes' /\ Spared'
  BY <1>0, <1>1, <1>4 DEF Causes, Spared, CallerGone
<1>10. Decisions'
  <2>1. \A j \in Sources : j # i => (Stores(res[j])' <=> Stores(res[j]))
    BY <1>1, <1>5 DEF Stores
  <2> QED BY <1>0, <1>1, <1>2, <1>4, <1>5, <1>6, <2>1 DEF Decisions
<1>11. Held'
  BY <1>0, <1>1, <1>2, <1>4, <1>5 DEF Held
<1>12. Outcome'
  BY <1>0, <1>1, <1>3, <1>5, <1>6, OutcomeStays
<1> QED BY <1>7, <1>8, <1>9, <1>10, <1>11, <1>12 DEF CombinatorsInv

(* A goroutine stores the result it took, or goes on to decide.            *)
LEMMA PolicyKeeps ==
  ASSUME CombinatorsInv, NEW i \in Sources, Policy(i)
  PROVE  CombinatorsInv'
<1>0. Types /\ Sweeps /\ Causes /\ Decisions /\ Held /\ Spared /\ Outcome
  BY DEF CombinatorsInv
<1>1. /\ pc[i] = "policy"
      /\ UNCHANGED <<kind, n, src, ended, cause, fut, decided, res, sweep, main, watch>>
  BY DEF Policy
<1>2. /\ out' \in [Sources -> SourceResults \cup {NoResult}]
      /\ \A j \in Sources : j # i => out'[j] = out[j]
      /\ Stores(res[i]) => out'[i] = res[i]
  BY <1>0 DEF Policy, Types
<1>3. /\ pc' \in [Sources -> {"await", "policy", "decide", "stop", "sweep", "done"}]
      /\ \A j \in Sources : j # i => pc'[j] = pc[j]
      /\ pc'[i] = IF Stores(res[i]) THEN "done" ELSE "decide"
  BY <1>0, StopsInOrder DEF Policy, Types
<1>4. Steady
  BY <1>1 DEF Steady
<1>5. Sources' = Sources /\ Values' = Values
  BY <1>0, <1>4, ReasonsStay
<1>6. Types'
  BY <1>0, <1>1, <1>2, <1>3, <1>5 DEF Types
<1>7. Sweeps'
  BY <1>0, <1>1, <1>3, <1>5 DEF Sweeps
<1>8. Causes' /\ Spared'
  BY <1>0, <1>1, <1>5 DEF Causes, Spared, CallerGone
<1>9. Decisions'
  <2>1. \A j \in Sources : Stores(res[j])' <=> Stores(res[j])
    BY <1>1 DEF Stores
  <2> QED BY <1>0, <1>1, <1>2, <1>3, <1>5, <2>1 DEF Decisions
<1>10. Held' /\ Outcome'
  BY <1>0, <1>1, <1>3, <1>4, HeldStays, OutcomeStays
<1> QED BY <1>6, <1>7, <1>8, <1>9, <1>10 DEF CombinatorsInv

(* A goroutine that decided cancels the group.                             *)
LEMMA StopGroupKeeps ==
  ASSUME CombinatorsInv, NEW i \in Sources, StopGroup(i)
  PROVE  CombinatorsInv'
<1>0. Types /\ Sweeps /\ Causes /\ Decisions /\ Held /\ Spared /\ Outcome
  BY DEF CombinatorsInv
<1>1. /\ pc[i] = "stop"
      /\ cause' = IF cause["group"] # Live THEN cause
                  ELSE [cause EXCEPT !["group"] = CauseOf(res[i])]
      /\ pc' = [pc EXCEPT ![i] = StepAfter("stop")]
      /\ UNCHANGED <<kind, n, src, ended, fut, decided, res, out, sweep, main, watch>>
  BY DEF StopGroup, Done
<1>2. decided /\ fut # NoResult /\ CauseOf(res[i]) \in Errors
  BY <1>0, <1>1, CauseOfResult DEF Decisions, Types
<1>3. /\ cause' \in [{"caller", "group", "combined"} -> Errors \cup {Live}]
      /\ cause["group"] # Live => cause'["group"] = cause["group"]
      /\ cause'["caller"] = cause["caller"] /\ cause'["combined"] = cause["combined"]
  BY <1>0, <1>1, <1>2 DEF Types
<1>4. /\ pc' \in [Sources -> {"await", "policy", "decide", "stop", "sweep", "done"}]
      /\ \A j \in Sources : j # i => pc'[j] = pc[j]
      /\ pc'[i] = IF kind = "Zip" THEN "done" ELSE "sweep"
  BY <1>0, <1>1, StopsInOrder DEF Types
<1>5. Steady
  BY <1>1, <1>3 DEF Steady
<1>6. Sources' = Sources /\ Values' = Values
  BY <1>0, <1>5, ReasonsStay
<1>7. Types'
  BY <1>0, <1>1, <1>3, <1>4, <1>6 DEF Types
<1>8. Sweeps'
  <2>1. 1 \in Sources
    BY <1>0 DEF Types, Sources
  <2> QED BY <1>0, <1>1, <1>4, <1>6, <2>1 DEF Sweeps
<1>9. Causes' /\ Spared'
  <2>1. Causes'
    BY <1>0, <1>1, <1>2, <1>3 DEF Causes, CallerGone
  <2>2. Spared'
    BY <1>0, <1>1, <1>2, <1>3, <1>6 DEF Spared
  <2> QED BY <2>1, <2>2
<1>10. Decisions'
  <2>1. \A j \in Sources : Stores(res[j])' <=> Stores(res[j])
    BY <1>1 DEF Stores
  <2> QED BY <1>0, <1>1, <1>2, <1>4, <1>6, <2>1 DEF Decisions
<1>11. Held' /\ Outcome'
  BY <1>0, <1>1, <1>4, <1>5, HeldStays, OutcomeStays
<1> QED BY <1>7, <1>8, <1>9, <1>10, <1>11 DEF CombinatorsInv

(* A goroutine that decided cancels one source of its sweep.               *)
LEMMA CancelOneKeeps ==
  ASSUME CombinatorsInv, NEW i \in Sources, CancelOne(i)
  PROVE  CombinatorsInv'
<1>0. Types /\ Sweeps /\ Causes /\ Decisions /\ Held /\ Spared /\ Outcome
  BY DEF CombinatorsInv
<1>1. /\ pc[i] = "sweep"
      /\ SettleSource(sweep[i], Err(CauseOf(res[i])))
      /\ sweep' = [sweep EXCEPT ![i] = sweep[i] + 1]
      /\ pc' = IF sweep[i] = n THEN [pc EXCEPT ![i] = StepAfter("sweep")] ELSE pc
      /\ UNCHANGED <<kind, n, ended, cause, fut, decided, res, out, main, watch>>
  BY DEF CancelOne
<1>2. /\ decided /\ fut # NoResult /\ cause["combined"] # Live
      /\ sweep[i] \in Sources /\ Err(CauseOf(res[i])) \in SourceResults
  BY <1>0, <1>1, CauseOfResult DEF Decisions, Causes, Sweeps, Types
<1>3. /\ src' \in [Sources -> SourceResults \cup {NoResult}]
      /\ \A j \in Sources : src[j] # NoResult => src'[j] = src[j]
  BY <1>0, <1>1, <1>2, SourceSettles
<1>4. /\ pc' \in [Sources -> {"await", "policy", "decide", "stop", "sweep", "done"}]
      /\ \A j \in Sources : j # i => pc'[j] = pc[j]
      /\ pc'[i] = IF sweep[i] # n THEN "sweep" ELSE IF kind = "Zip" THEN "stop" ELSE "done"
  BY <1>0, <1>1, StopsInOrder DEF Types
<1>5. Steady
  BY <1>1, <1>3 DEF Steady
<1>6. Sources' = Sources /\ Values' = Values
  BY <1>0, <1>5, ReasonsStay
<1>7. Types'
  BY <1>0, <1>1, <1>3, <1>4, <1>6 DEF Types
<1>8. Sweeps'
  <2>1. n \in Nat /\ i \in 0..n /\ i # 0 /\ sweep[i] + 1 \in 1..(n + 1)
    BY <1>0, <1>2, CombinatorsAssumption DEF Types, Sources
  <2>2. /\ sweep' \in [0..n -> 1..(n + 1)]
        /\ \A j \in 0..n : sweep'[j] = IF j = i THEN sweep[i] + 1 ELSE sweep[j]
    BY <1>0, <1>1, <2>1 DEF Sweeps
  <2>3. sweep[i] # n => sweep[i] + 1 \in Sources
    BY <1>2, <2>1 DEF Sources
  <2>4. \A j \in Sources : j \in 0..n
    BY <2>1 DEF Sources
  <2>5. 0 \in 0..n
    BY <2>1
  <2>6. ASSUME NEW j \in Sources
        PROVE  /\ pc'[j] \in {"await", "policy", "decide"} => sweep'[j] = 1
               /\ pc'[j] = "stop" /\ kind # "Zip" => sweep'[j] = 1
               /\ pc'[j] = "sweep" => sweep'[j] \in Sources
    <3>1. CASE j = i
      BY <1>4, <2>2, <2>3, <2>4, <3>1
    <3>2. CASE j # i
      BY <1>0, <1>4, <2>2, <2>4, <3>2 DEF Sweeps
    <3> QED BY <3>1, <3>2
  <2>7. sweep'[0] = sweep[0]
    BY <2>1, <2>2, <2>5
  <2> QED BY <1>0, <1>1, <1>6, <2>2, <2>6, <2>7 DEF Sweeps
<1>9. Causes' /\ Spared'
  <2>1. Causes'
    BY <1>0, <1>1 DEF Causes, CallerGone
  <2>2. Spared'
    BY <1>1, <1>2, <1>6 DEF Spared
  <2> QED BY <2>1, <2>2
<1>10. Decisions'
  <2>1. \A j \in Sources : Stores(res[j])' <=> Stores(res[j])
    BY <1>1 DEF Stores
  <2> QED BY <1>0, <1>1, <1>2, <1>4, <1>6, <2>1 DEF Decisions
<1>11. Held' /\ Outcome'
  BY <1>0, <1>1, <1>4, <1>5, HeldStays, OutcomeStays
<1> QED BY <1>7, <1>8, <1>9, <1>10, <1>11 DEF CombinatorsInv

(* A step that settles the combined future.                                *)
LEMMA CombinedStep ==
  ASSUME Types, Causes, Held, Spared, NEW r, CauseOf(r) \in Errors, r # NoResult,
         SettleCombined(r), UNCHANGED <<kind, n, src, ended, res, watch>>
  PROVE  /\ Steady /\ Sources' = Sources /\ Values' = Values
         /\ fut' = IF fut = NoResult THEN r ELSE fut
         /\ cause' \in [{"caller", "group", "combined"} -> Errors \cup {Live}]
         /\ cause'["caller"] = cause["caller"] /\ cause'["group"] = cause["group"]
         /\ Causes' /\ Held' /\ Spared'
<1>1. /\ fut' = IF fut = NoResult THEN r ELSE fut
      /\ cause' \in [{"caller", "group", "combined"} -> Errors \cup {Live}]
      /\ cause'["caller"] = cause["caller"] /\ cause'["group"] = cause["group"]
      /\ cause'["combined"] # Live
      /\ cause["combined"] # Live => cause'["combined"] = cause["combined"]
  BY CombinedSettles
<1>2. Steady
  BY <1>1 DEF Steady
<1>3. Sources' = Sources /\ Values' = Values
  BY <1>2, ReasonsStay
<1>4. fut' # NoResult
  BY <1>1
<1>5. Causes'
  BY <1>1, <1>4 DEF Causes, CallerGone
<1>6. Held'
  BY <1>2, HeldStays
<1>7. Spared'
  BY <1>1, <1>3, <1>4 DEF Spared
<1> QED BY <1>1, <1>2, <1>3, <1>5, <1>6, <1>7

(* What a goroutine that decides hands to the combined future has a reason. *)
LEMMA DecidedForCause ==
  ASSUME CombinatorsInv, NEW i \in Sources, ~ Stores(res[i]), ~ res[i].ok, res[i] # NoResult,
         fut = NoResult
  PROVE  \E e \in Errors : res[i] = Err(e) /\ Reason(e) /\ e # AllFailed
<1>0. Types /\ Causes /\ Held /\ Spared /\ i \in 1..N
  BY SourcesBounded DEF CombinatorsInv
<1>1. kind # "AnyOf"
  BY DEF Stores
<1>2. CASE res[i] = src[i]
  <2>1. src[i] \in {OK(i), Err(Failed(i))} \/ (src[i] = Err(CallerErr) /\ CallerGone)
    BY <1>0, <1>2 DEF Spared
  <2>2. CASE src[i] = OK(i)
    BY <1>2, <2>2, ResultsDiffer
  <2>3. CASE src[i] = Err(Failed(i))
    <3>1. Failed(i) \in Errors /\ Failed(i) # AllFailed
      BY <1>0, ErrorsDiffer
    <3>2. Reason(Failed(i))
      BY <1>1, <2>3 DEF Reason
    <3> QED BY <1>2, <2>3, <3>1, <3>2
  <2>4. CASE src[i] = Err(CallerErr) /\ CallerGone
    BY <1>2, <2>4, ErrorsDiffer DEF Reason
  <2> QED BY <2>1, <2>2, <2>3, <2>4
<1>3. CASE res[i] # src[i]
  <2>1. res[i] = Err(CallerErr) /\ CallerGone
    BY <1>0, <1>3 DEF Held, Causes
  <2> QED BY <2>1, ErrorsDiffer DEF Reason
<1> QED BY <1>2, <1>3

(* Settling the combined future with an error that has a reason.           *)
LEMMA RejectionKeepsOutcome ==
  ASSUME Types, Steady, NEW e, Reason(e), e # AllFailed, fut' = Err(e)
  PROVE  Outcome'
<1>1. ASSUME NEW f, fut' = OKOf(f) PROVE FALSE
  BY <1>1, ResultsDiffer
<1>2. ASSUME NEW x, fut' = Err(x) PROVE x = e
  <2>1. Err(x).err = x /\ Err(e).err = e
    BY ResultsDiffer
  <2> QED BY <1>2, <2>1
<1>3. Reason(e)'
  BY ReasonsStay
<1>4. fut' # Err(AllFailed)
  BY <1>2
<1> QED BY <1>1, <1>2, <1>3, <1>4 DEF Outcome

(* Settling the combined future with values of its sources.                *)
LEMMA ResolutionKeepsOutcome ==
  ASSUME Types, Steady, NEW f \in Values, Value(f), fut' = OKOf(f)
  PROVE  Outcome'
<1>1. ASSUME NEW g, fut' = OKOf(g) PROVE g = f
  BY <1>1, ResultsDiffer
<1>2. ASSUME NEW e, fut' = Err(e) PROVE FALSE
  BY <1>2, ResultsDiffer
<1>3. Value(f)'
  BY ReasonsStay
<1> QED BY <1>1, <1>2, <1>3 DEF Outcome

(* The user cancels the combined future.                                   *)
LEMMA CancelKeeps ==
  ASSUME CombinatorsInv, Cancel
  PROVE  CombinatorsInv'
<1>0. Types /\ Sweeps /\ Causes /\ Decisions /\ Held /\ Spared /\ Outcome
  BY DEF CombinatorsInv
<1>1. /\ fut = NoResult /\ SettleCombined(Err(UserErr))
      /\ UNCHANGED <<kind, n, src, ended, decided, pc, res, out, sweep, main, watch>>
  BY DEF Cancel
<1>2. CauseOf(Err(UserErr)) \in Errors /\ Err(UserErr) # NoResult
  BY ResultsDiffer, ErrorsDiffer DEF CauseOf
<1>3. /\ Steady /\ Sources' = Sources /\ Values' = Values
      /\ fut' = Err(UserErr)
      /\ cause' \in [{"caller", "group", "combined"} -> Errors \cup {Live}]
      /\ Causes' /\ Held' /\ Spared'
  BY <1>0, <1>1, <1>2, CombinedStep
<1>4. Types'
  BY <1>0, <1>1, <1>3, ErrorsDiffer DEF Types
<1>5. Sweeps'
  BY <1>0, <1>1, <1>3 DEF Sweeps
<1>6. Decisions'
  BY <1>0, <1>1, <1>2, <1>3, DecisionsStay
<1>7. Outcome'
  <2>1. Reason(UserErr) /\ UserErr # AllFailed
    BY ErrorsDiffer DEF Reason
  <2> QED BY <1>0, <1>3, <2>1, RejectionKeepsOutcome
<1> QED BY <1>3, <1>4, <1>5, <1>6, <1>7 DEF CombinatorsInv

(* Whoever awaits the combined future writes down that its context ended.  *)
LEMMA AwaitKeeps ==
  ASSUME CombinatorsInv, Await
  PROVE  CombinatorsInv'
<1>0. Types /\ Sweeps /\ Causes /\ Decisions /\ Held /\ Spared /\ Outcome
  BY DEF CombinatorsInv
<1>1. /\ fut = NoResult /\ cause["combined"] # Live
      /\ SettleCombined(Err(cause["combined"]))
      /\ UNCHANGED <<kind, n, src, ended, decided, pc, res, out, sweep, main, watch>>
  BY DEF Await, Done
<1>2. /\ cause["combined"] = CallerErr /\ CallerGone
      /\ CauseOf(Err(CallerErr)) \in Errors /\ Err(CallerErr) # NoResult
  BY <1>0, <1>1, ResultsDiffer, ErrorsDiffer DEF CauseOf, Causes
<1>3. /\ Steady /\ Sources' = Sources /\ Values' = Values
      /\ fut' = Err(CallerErr)
      /\ cause' \in [{"caller", "group", "combined"} -> Errors \cup {Live}]
      /\ Causes' /\ Held' /\ Spared'
  BY <1>0, <1>1, <1>2, CombinedStep
<1>4. Types'
  BY <1>0, <1>1, <1>3, ErrorsDiffer DEF Types
<1>5. Sweeps'
  BY <1>0, <1>1, <1>3 DEF Sweeps
<1>6. Decisions'
  BY <1>0, <1>1, <1>2, <1>3, DecisionsStay
<1>7. Outcome'
  <2>1. Reason(CallerErr) /\ CallerErr # AllFailed
    BY <1>2, ErrorsDiffer DEF Reason
  <2> QED BY <1>0, <1>3, <2>1, RejectionKeepsOutcome
<1> QED BY <1>3, <1>4, <1>5, <1>6, <1>7 DEF CombinatorsInv

(* A goroutine decides, first or not, with what its policy gives for its   *)
(* result.                                                                 *)
LEMMA DecideKeeps ==
  ASSUME CombinatorsInv, NEW i \in Sources, Decide(i)
  PROVE  CombinatorsInv'
<1>0. Types /\ Sweeps /\ Causes /\ Decisions /\ Held /\ Spared /\ Outcome
  BY DEF CombinatorsInv
<1>1. PICK f : f = [j \in {i} |-> res[i]]
  OBVIOUS
<1>2. /\ pc[i] = "decide"
      /\ decided => UNCHANGED <<fut, cause>>
      /\ ~ decided /\ res[i].ok => SettleCombined(OKOf(f))
      /\ ~ decided /\ ~ res[i].ok => SettleCombined(res[i])
      /\ decided' = TRUE
      /\ pc' = [pc EXCEPT ![i] = StepAfter("decide")]
      /\ UNCHANGED <<kind, n, src, ended, res, out, sweep, main, watch>>
  BY <1>1 DEF Decide
<1>3. /\ ~ Stores(res[i]) /\ res[i] \in SourceResults /\ res[i] # NoResult
      /\ CauseOf(res[i]) \in Errors
  BY <1>0, <1>2, CauseOfResult DEF Decisions, Types
<1>4. /\ pc' \in [Sources -> {"await", "policy", "decide", "stop", "sweep", "done"}]
      /\ \A j \in Sources : j # i => pc'[j] = pc[j]
      /\ pc'[i] = IF kind = "Zip" THEN "sweep" ELSE "stop"
  BY <1>0, <1>2, StopsInOrder DEF Types
<1>5. /\ Steady /\ Sources' = Sources /\ Values' = Values
      /\ cause' \in [{"caller", "group", "combined"} -> Errors \cup {Live}]
      /\ fut' # NoResult /\ (fut # NoResult => fut' = fut)
      /\ fut = NoResult => fut' = IF res[i].ok THEN OKOf(f) ELSE res[i]
      /\ Causes' /\ Held' /\ Spared'
  <2>1. CASE decided
    <3>1. fut # NoResult
      BY <1>0, <2>1 DEF Decisions
    <3>2. Steady
      BY <1>2, <2>1 DEF Steady
    <3>3. Sources' = Sources /\ Values' = Values /\ Held'
      BY <1>0, <1>2, <3>2, ReasonsStay, HeldStays
    <3>4. Causes' /\ Spared'
      BY <1>0, <1>2, <2>1, <3>3 DEF Causes, Spared, CallerGone
    <3> QED BY <1>0, <1>2, <2>1, <3>1, <3>2, <3>3, <3>4 DEF Types
  <2>2. CASE ~ decided /\ res[i].ok
    <3>1. CauseOf(OKOf(f)) \in Errors /\ OKOf(f) # NoResult
      BY ResultsDiffer, ErrorsDiffer DEF CauseOf
    <3> QED BY <1>0, <1>2, <2>2, <3>1, CombinedStep
  <2>3. CASE ~ decided /\ ~ res[i].ok
    BY <1>0, <1>2, <1>3, <2>3, CombinedStep
  <2> QED BY <2>1, <2>2, <2>3
<1>6. ASSUME fut # NoResult PROVE Types' /\ Outcome'
  <2>1. UNCHANGED fut
    BY <1>5, <1>6
  <2>2. Types'
    BY <1>0, <1>2, <1>4, <1>5, <2>1 DEF Types
  <2>3. Outcome'
    BY <1>0, <1>2, <1>4, <1>5, <2>1, OutcomeStays
  <2> QED BY <2>2, <2>3
<1>7. ASSUME fut = NoResult, res[i].ok PROVE Types' /\ Outcome'
  <2>1. kind \in {"Race", "AnyOf"}
    BY <1>0, <1>3, <1>7, CombinatorsAssumption DEF Stores, Types
  <2>2. f \in Values
    <3>1. {i} \in SUBSET Sources /\ f \in [{i} -> SourceResults]
      BY <1>1, <1>3
    <3> QED BY <3>1 DEF Values
  <2>3. Value(f)
    <3>1. res[i] = src[i] /\ src[i] # NoResult
      BY <1>0, <1>3, <1>7 DEF Held
    <3>2. DOMAIN f = {i} /\ f[i] = res[i]
      BY <1>1
    <3> QED BY <1>7, <2>1, <3>1, <3>2 DEF Value
  <2>4. fut' = OKOf(f)
    BY <1>5, <1>7
  <2>5. Types'
    BY <1>0, <1>2, <1>4, <1>5, <2>2, <2>4 DEF Types
  <2>6. Outcome'
    BY <1>0, <1>5, <2>2, <2>3, <2>4, ResolutionKeepsOutcome
  <2> QED BY <2>5, <2>6
<1>8. ASSUME fut = NoResult, ~ res[i].ok PROVE Types' /\ Outcome'
  <2>1. PICK e \in Errors : res[i] = Err(e) /\ Reason(e) /\ e # AllFailed
    BY <1>3, <1>8, DecidedForCause
  <2>2. fut' = Err(e)
    BY <1>5, <1>8, <2>1
  <2>3. Types'
    BY <1>0, <1>2, <1>4, <1>5, <2>2 DEF Types
  <2>4. Outcome'
    BY <1>0, <1>5, <2>1, <2>2, RejectionKeepsOutcome
  <2> QED BY <2>3, <2>4
<1>9. Sweeps'
  <2>1. 1 \in Sources
    BY <1>0 DEF Types, Sources
  <2> QED BY <1>0, <1>2, <1>4, <1>5, <2>1 DEF Sweeps
<1>10. Decisions'
  <2>1. \A j \in Sources : Stores(res[j])' <=> Stores(res[j])
    BY <1>2 DEF Stores
  <2> QED BY <1>0, <1>2, <1>3, <1>4, <1>5, <2>1 DEF Decisions
<1> QED BY <1>5, <1>6, <1>7, <1>8, <1>9, <1>10 DEF CombinatorsInv

(* The last goroutine is done: the combined future gets what they stored.  *)
LEMMA MainKeeps ==
  ASSUME CombinatorsInv, Main
  PROVE  CombinatorsInv'
<1>0. Types /\ Sweeps /\ Causes /\ Decisions /\ Held /\ Spared /\ Outcome
  BY DEF CombinatorsInv
<1>1. /\ \A i \in Sources : pc[i] = "done"
      /\ kind = "Race" \/ decided => UNCHANGED <<fut, cause>>
      /\ kind # "Race" /\ ~ decided => SettleCombined(MainResult)
      /\ decided' = (decided \/ kind \notin {"Race", "AllSettled"})
      /\ main' = "done"
      /\ UNCHANGED <<kind, n, src, ended, pc, res, out, sweep, watch>>
  BY DEF Main, GroupDone
<1>2. CauseOf(MainResult) \in Errors /\ MainResult # NoResult
  BY ResultsDiffer, ErrorsDiffer DEF CauseOf, MainResult
<1>3. /\ Steady /\ Steady /\ Sources' = Sources /\ Values' = Values
      /\ cause' \in [{"caller", "group", "combined"} -> Errors \cup {Live}]
      /\ fut # NoResult => fut' = fut
      /\ kind = "Race" \/ decided => fut' = fut
      /\ kind # "Race" /\ ~ decided /\ fut = NoResult => fut' = MainResult
      /\ Causes' /\ Held' /\ Spared'
  <2>1. CASE kind = "Race" \/ decided
    <3>1. Steady
      BY <1>1, <2>1 DEF Steady
    <3>2. Sources' = Sources /\ Values' = Values /\ Held'
      BY <1>0, <1>1, <3>1, ReasonsStay, HeldStays
    <3>3. Causes' /\ Spared'
      BY <1>0, <1>1, <2>1, <3>2 DEF Causes, Spared, CallerGone
    <3> QED BY <1>0, <1>1, <2>1, <3>1, <3>2, <3>3 DEF Types
  <2>2. CASE kind # "Race" /\ ~ decided
    BY <1>0, <1>1, <1>2, <2>2, CombinedStep
  <2> QED BY <2>1, <2>2
<1>4. ASSUME fut' = fut PROVE Types' /\ Outcome'
  <2>1. Types'
    BY <1>0, <1>1, <1>3, <1>4 DEF Types
  <2>2. Outcome'
    BY <1>0, <1>1, <1>3, <1>4, OutcomeStays
  <2> QED BY <2>1, <2>2
<1>5. ASSUME fut' # fut PROVE Types' /\ Outcome'
  <2>1. fut = NoResult /\ kind # "Race" /\ ~ decided /\ fut' = MainResult
    BY <1>3, <1>5
  <2>2. \A i \in Sources : Stores(res[i]) /\ out[i] = res[i] /\ res[i] # NoResult
    BY <1>0, <1>1, <2>1 DEF Decisions
  <2>3. CASE kind = "AnyOf"
    <3>1. fut' = Err(AllFailed)
      BY <2>1, <2>3 DEF MainResult
    <3>2. Types'
      BY <1>0, <1>1, <1>3, <3>1, ErrorsDiffer DEF Types
    <3>3. CallerGone \/ AllFail
      <4>1. \A i \in Sources : ~ res[i].ok /\ res[i] # NoResult
        BY <2>2, <2>3 DEF Stores
      <4>2. cause["group"] # Live => CallerGone
        BY <1>0, <2>1 DEF Causes
      <4> QED BY <1>0, <4>1, <4>2 DEF Held, AllFail
    <3>4. \A f : fut' # OKOf(f)
      BY <3>1, ResultsDiffer
    <3>5. \A e : fut' = Err(e) => e = AllFailed
      BY <3>1, ResultsDiffer
    <3>6. Reason(AllFailed)'
      BY <1>1, <2>3 DEF Reason
    <3>7. CallerGone' \/ AllFail'
      <4>1. AllFail => AllFail'
        BY <1>1, <1>3 DEF AllFail
      <4> QED BY <1>0, <1>3, <3>3, <4>1, ReasonsStay
    <3> QED BY <3>2, <3>4, <3>5, <3>6, <3>7 DEF Outcome
  <2>4. CASE kind # "AnyOf"
    <3>1. fut' = OKOf(out) /\ kind \in {"AllOf", "AllSettled", "Zip"}
      BY <1>0, <2>1, <2>4, CombinatorsAssumption DEF MainResult, Types
    <3>2. out \in [Sources -> SourceResults]
      BY <1>0, <2>2 DEF Types
    <3>3. out \in Values
      BY <3>2 DEF Values
    <3>4. Value(out)
      <4>1. DOMAIN out = Sources
        BY <3>2
      <4>2. ASSUME NEW i \in Sources
            PROVE  \/ src[i] # NoResult /\ out[i] = src[i] /\ (src[i].ok \/ kind = "AllSettled")
                   \/ kind = "AllSettled" /\ CallerGone /\ out[i] = Err(CallerErr)
        <5>1. out[i] = res[i] /\ Stores(res[i]) /\ res[i] # NoResult
          BY <2>2
        <5>2. CASE res[i].ok
          BY <1>0, <5>1, <5>2 DEF Held
        <5>3. CASE ~ res[i].ok
          <6>1. kind = "AllSettled"
            BY <2>4, <5>1, <5>3 DEF Stores
          <6>2. cause["group"] # Live => cause["group"] = CallerErr /\ CallerGone
            BY <1>0, <2>1 DEF Causes
          <6> QED BY <1>0, <5>1, <6>1, <6>2 DEF Held
        <5> QED BY <5>2, <5>3
      <4> QED BY <4>1, <4>2 DEF Value
    <3>5. Types'
      BY <1>0, <1>1, <1>3, <3>1, <3>3 DEF Types
    <3>6. Outcome'
      BY <1>0, <1>3, <3>1, <3>3, <3>4, ResolutionKeepsOutcome
    <3> QED BY <3>5, <3>6
  <2> QED BY <2>3, <2>4
<1>6. Sweeps'
  BY <1>0, <1>1, <1>3 DEF Sweeps
<1>7. Decisions'
  <2>1. \A j \in Sources : Stores(res[j])' <=> Stores(res[j])
    BY <1>1 DEF Stores
  <2>2. decided' => fut' # NoResult
    BY <1>0, <1>1, <1>2, <1>3 DEF Decisions
  <2> QED BY <1>0, <1>1, <1>3, <2>1, <2>2 DEF Decisions
<1> QED BY <1>3, <1>4, <1>5, <1>6, <1>7 DEF CombinatorsInv

(* watchCancel sees the end of the combined future's context.              *)
LEMMA WatchWakesKeeps ==
  ASSUME CombinatorsInv, WatchWakes
  PROVE  CombinatorsInv'
<1>0. Types /\ Sweeps /\ Causes /\ Decisions /\ Held /\ Spared /\ Outcome
  BY DEF CombinatorsInv
<1>1. /\ watch = "wait" /\ cause["combined"] # Live /\ watch' = "sweep"
      /\ UNCHANGED <<kind, n, src, ended, cause, fut, decided, pc, res, out, sweep, main>>
  BY DEF WatchWakes, Done
<1>2. Steady
  BY <1>1 DEF Steady
<1>3. Sources' = Sources /\ Values' = Values
  BY <1>0, <1>2, ReasonsStay
<1>4. Types'
  BY <1>0, <1>1, <1>3 DEF Types
<1>5. Sweeps'
  <2>1. sweep[0] \in Sources
    BY <1>0, <1>1, CombinatorsAssumption DEF Sweeps, Sources, Types
  <2> QED BY <1>0, <1>1, <1>3, <2>1 DEF Sweeps
<1>6. Causes' /\ Spared'
  BY <1>0, <1>1, <1>3 DEF Causes, Spared, CallerGone
<1>7. Decisions' /\ Held' /\ Outcome'
  BY <1>0, <1>1, <1>2, DecisionsStay, HeldStays, OutcomeStays
<1> QED BY <1>4, <1>5, <1>6, <1>7 DEF CombinatorsInv

(* watchCancel cancels one source of its sweep.                            *)
LEMMA WatchCancelsOneKeeps ==
  ASSUME CombinatorsInv, WatchCancelsOne
  PROVE  CombinatorsInv'
<1>0. Types /\ Sweeps /\ Causes /\ Decisions /\ Held /\ Spared /\ Outcome
  BY DEF CombinatorsInv
<1>1. /\ watch = "sweep"
      /\ SettleSource(sweep[0], Err(cause["combined"]))
      /\ sweep' = [sweep EXCEPT ![0] = sweep[0] + 1]
      /\ watch' = IF sweep[0] = n THEN "done" ELSE watch
      /\ UNCHANGED <<kind, n, ended, cause, fut, decided, pc, res, out, main>>
  BY DEF WatchCancelsOne
<1>2. PICK s : s = sweep[0]
  OBVIOUS
<1>3. PICK r : r = Err(cause["combined"])
  OBVIOUS
<1>4. s \in Sources /\ cause["combined"] # Live /\ r \in SourceResults
  BY <1>0, <1>1, <1>2, <1>3, CauseOfResult DEF Sweeps, Causes, Types
<1>5. /\ src' \in [Sources -> SourceResults \cup {NoResult}]
      /\ \A j \in Sources : src'[j] = IF j = s /\ src[s] = NoResult THEN r ELSE src[j]
      /\ \A j \in Sources : src[j] # NoResult => src'[j] = src[j]
  BY <1>0, <1>1, <1>2, <1>3, <1>4, SourceSettles
<1>6. Steady
  BY <1>1, <1>5 DEF Steady
<1>7. Sources' = Sources /\ Values' = Values
  BY <1>0, <1>6, ReasonsStay
<1>8. Types'
  BY <1>0, <1>1, <1>5, <1>7 DEF Types
<1>9. Sweeps'
  <2>1. n \in Nat /\ 0 \in 0..n /\ s + 1 \in 1..(n + 1)
    BY <1>0, <1>4, CombinatorsAssumption DEF Types, Sources
  <2>2. /\ sweep' \in [0..n -> 1..(n + 1)]
        /\ \A j \in 0..n : sweep'[j] = IF j = 0 THEN s + 1 ELSE sweep[j]
    BY <1>0, <1>1, <1>2, <2>1 DEF Sweeps
  <2>3. s # n => s + 1 \in Sources
    BY <1>4, <2>1 DEF Sources
  <2>4. \A j \in Sources : sweep'[j] = sweep[j]
    BY <2>1, <2>2 DEF Sources
  <2>5. sweep'[0] = s + 1
    BY <2>1, <2>2
  <2> QED BY <1>0, <1>1, <1>2, <1>7, <2>2, <2>3, <2>4, <2>5 DEF Sweeps
<1>10. Causes'
  BY <1>0, <1>1 DEF Causes, CallerGone
<1>11. Spared'
  <2>1. fut = NoResult => r = Err(CallerErr) /\ CallerGone
    BY <1>0, <1>3, <1>4 DEF Causes
  <2> QED BY <1>0, <1>1, <1>4, <1>5, <1>7, <2>1 DEF Spared, CallerGone
<1>12. Decisions' /\ Held' /\ Outcome'
  BY <1>0, <1>1, <1>6, DecisionsStay, HeldStays, OutcomeStays
<1> QED BY <1>8, <1>9, <1>10, <1>11, <1>12 DEF CombinatorsInv

-----------------------------------------------------------------------------
(* The theorems. *)

(* What a combinator without sources answers at once is an outcome.        *)
LEMMA EmptyAnswer ==
  ASSUME n = 0
  PROVE  /\ (\E e \in Errors : EmptyResult = Err(e)) \/ (\E f \in Values : EmptyResult = OKOf(f))
         /\ \A f : EmptyResult = OKOf(f) => Value(f)
         /\ \A e : EmptyResult = Err(e) => e = EmptySources
         /\ EmptyResult # NoResult /\ CauseOf(EmptyResult) \in Errors
<1>1. Sources = {}
  BY DEF Sources
<1>2. CASE kind \in {"AllOf", "AllSettled"}
  <2>1. EmptyResult = OKOf(<< >>)
    BY <1>2 DEF EmptyResult
  <2>2. << >> \in [Sources -> SourceResults] /\ DOMAIN << >> = {}
    BY <1>1
  <2>3. << >> \in Values
    BY <2>2 DEF Values
  <2>4. \A f : EmptyResult = OKOf(f) => f = << >>
    BY <2>1, ResultsDiffer
  <2>5. Value(<< >>)
    BY <1>1, <2>2 DEF Value
  <2>6. \A e : EmptyResult # Err(e)
    BY <2>1, ResultsDiffer
  <2>7. EmptyResult # NoResult /\ CauseOf(EmptyResult) \in Errors
    BY <2>1, ResultsDiffer, ErrorsDiffer DEF CauseOf
  <2> QED BY <2>1, <2>3, <2>4, <2>5, <2>6, <2>7
<1>3. CASE kind \notin {"AllOf", "AllSettled"}
  <2>1. EmptyResult = Err(EmptySources)
    BY <1>3 DEF EmptyResult
  <2>2. \A f : EmptyResult # OKOf(f)
    BY <2>1, ResultsDiffer
  <2>3. \A e : EmptyResult = Err(e) => e = EmptySources
    BY <2>1, ResultsDiffer
  <2>4. EmptyResult # NoResult /\ CauseOf(EmptyResult) \in Errors
    BY <2>1, ResultsDiffer, ErrorsDiffer DEF CauseOf
  <2> QED BY <2>1, <2>2, <2>3, <2>4, ErrorsDiffer
<1> QED BY <1>2, <1>3

(* The invariant holds of a combinator that has just been called.          *)
LEMMA InitInv == Init => CombinatorsInv
<1> SUFFICES ASSUME Init PROVE CombinatorsInv
  OBVIOUS
<1>1. /\ kind \in Kinds /\ n \in 0..N /\ n \in Nat /\ decided = FALSE /\ ended = {}
      /\ fut = IF n = 0 THEN EmptyResult ELSE NoResult
      /\ main = (IF n = 0 THEN "done" ELSE "wait") /\ watch = main
  BY CombinatorsAssumption DEF Init
<1>2. /\ src = [i \in Sources |-> NoResult] /\ pc = [i \in Sources |-> "await"]
      /\ res = [i \in Sources |-> NoResult] /\ out = [i \in Sources |-> NoResult]
      /\ sweep = [g \in 0..n |-> 1]
  BY DEF Init
<1>3. /\ cause \in [{"caller", "group", "combined"} -> Errors \cup {Live}]
      /\ cause["caller"] = Live /\ cause["group"] = Live
      /\ IF n = 0 THEN cause["combined"] # Live ELSE cause["combined"] = Live
  <2>1. cause = [c \in {"caller", "group", "combined"} |->
                  IF n = 0 /\ c = "combined" THEN CauseOf(fut) ELSE Live]
    BY DEF Init
  <2>2. n = 0 => CauseOf(fut) \in Errors /\ CauseOf(fut) # Live
    BY <1>1, EmptyAnswer, ErrorsDiffer
  <2> QED BY <2>1, <2>2
<1>4. fut = NoResult <=> n # 0
  BY <1>1, EmptyAnswer
<1>5. Types
  <2>1. fut = NoResult \/ (\E e \in Errors : fut = Err(e)) \/ (\E f \in Values : fut = OKOf(f))
    BY <1>1, EmptyAnswer
  <2> QED BY <1>1, <1>2, <1>3, <2>1 DEF Types
<1>6. Sweeps
  <2>1. 0 \in 0..n /\ 1 \in 1..(n + 1) /\ \A i \in Sources : i \in 0..n
    BY <1>1 DEF Sources
  <2> QED BY <1>1, <1>2, <2>1 DEF Sweeps
<1>7. Causes
  BY <1>1, <1>3, <1>4 DEF Causes
<1>8. Decisions
  BY <1>1, <1>2 DEF Decisions
<1>9. Held /\ Spared
  BY <1>2, ResultsDiffer DEF Held, Spared
<1>10. Outcome
  <2>1. CASE n = 0
    <3>1. \A e : fut = Err(e) => Reason(e) /\ e # AllFailed
      BY <1>1, <2>1, EmptyAnswer, ErrorsDiffer DEF Reason
    <3> QED BY <1>1, <2>1, <3>1, EmptyAnswer DEF Outcome
  <2>2. CASE n # 0
    BY <1>4, <2>2, ResultsDiffer DEF Outcome
  <2> QED BY <2>1, <2>2
<1> QED BY <1>5, <1>6, <1>7, <1>8, <1>9, <1>10 DEF CombinatorsInv

(* Nothing changes in a stuttering step.                                   *)
LEMMA StutterKeeps ==
  ASSUME CombinatorsInv, UNCHANGED vars
  PROVE  CombinatorsInv'
<1>0. Types /\ Sweeps /\ Causes /\ Decisions /\ Held /\ Spared /\ Outcome
  BY DEF CombinatorsInv
<1>1. UNCHANGED <<kind, n, src, ended, cause, fut, decided, pc, res, out, sweep, main, watch>>
  BY DEF vars
<1>2. Steady
  BY <1>1 DEF Steady
<1>3. Sources' = Sources /\ Values' = Values
  BY <1>0, <1>2, ReasonsStay
<1>4. Types' /\ Sweeps'
  BY <1>0, <1>1, <1>3 DEF Types, Sweeps
<1>5. Causes' /\ Spared'
  BY <1>0, <1>1, <1>3 DEF Causes, Spared, CallerGone
<1>6. Decisions' /\ Held' /\ Outcome'
  BY <1>0, <1>1, <1>2, DecisionsStay, HeldStays, OutcomeStays
<1> QED BY <1>4, <1>5, <1>6 DEF CombinatorsInv

(* The invariant of the combinators holds in every behaviour.              *)
THEOREM Invariance == Spec => []CombinatorsInv
<1>1. CombinatorsInv /\ [Next]_vars => CombinatorsInv'
  <2> SUFFICES ASSUME CombinatorsInv, [Next]_vars PROVE CombinatorsInv'
    OBVIOUS
  <2>1. ASSUME NEW i \in Sources, Worker(i) PROVE CombinatorsInv'
    BY <2>1, TakeSourceKeeps, TakeGroupKeeps, PolicyKeeps, DecideKeeps, StopGroupKeeps,
       CancelOneKeeps DEF Worker
  <2>2. ASSUME NEW i \in Sources, Produce(i) PROVE CombinatorsInv'
    BY <2>2, ProduceKeeps
  <2>3. ASSUME NEW i \in Sources, PropagateToSource(i) PROVE CombinatorsInv'
    BY <2>3, PropagateToSourceKeeps
  <2>4. ASSUME NEW c \in {"group", "combined"}, Propagate(c) PROVE CombinatorsInv'
    BY <2>4, PropagateKeeps
  <2>5. CASE Main
    BY <2>5, MainKeeps
  <2>6. CASE WatchWakes \/ WatchCancelsOne
    BY <2>6, WatchWakesKeeps, WatchCancelsOneKeeps
  <2>7. CASE CallerCancels \/ Cancel \/ Await
    BY <2>7, CallerCancelsKeeps, CancelKeeps, AwaitKeeps
  <2>8. CASE UNCHANGED vars
    BY <2>8, StutterKeeps
  <2> QED BY <2>1, <2>2, <2>3, <2>4, <2>5, <2>6, <2>7, <2>8 DEF Next
<1> QED BY InitInv, <1>1, PTL DEF Spec

(* Every variable of the combinators keeps its type.                       *)
THEOREM TypeCorrect == Spec => []TypeOK
<1>1. CombinatorsInv => TypeOK
  <2> SUFFICES ASSUME CombinatorsInv PROVE TypeOK
    OBVIOUS
  <2>1. Types /\ Sweeps
    BY DEF CombinatorsInv
  <2>2. \/ fut \in {NoResult} \cup {Err(e) : e \in Errors}
        \/ fut.ok /\ fut.val \in UNION {[S -> SourceResults] : S \in SUBSET Sources}
    BY <2>1, ResultsDiffer DEF Types, Values
  <2> QED BY <2>1, <2>2 DEF Types, Sweeps, TypeOK
<1> QED BY Invariance, <1>1, PTL

(* What a combined future resolves with comes from its sources, and AnyOf  *)
(* gives up only when all sources failed; only the end of the caller's     *)
(* context makes exceptions, whichever of the sources, the consumer and the *)
(* group's own cancellation comes first (future.go, the policies of AllOf, *)
(* AllSettled, Race, AnyOf and Zip2).                                      *)
THEOREM ValuesFromSourcesForAll == Spec => []ValuesFromSources
<1>1. CombinatorsInv => ValuesFromSources
  <2> SUFFICES ASSUME CombinatorsInv PROVE ValuesFromSources
    OBVIOUS
  <2>1. Types /\ Outcome /\ (CallerGone => cause["caller"] # Live)
    BY ErrorsDiffer DEF CombinatorsInv, CallerGone
  <2>2. ASSUME fut.ok
        PROVE  /\ kind \in {"AllOf", "Zip", "AllSettled"} => DOMAIN fut.val = Sources
               /\ \A i \in DOMAIN fut.val :
                    \/ Settled(i) /\ fut.val[i] = src[i] /\ (src[i].ok \/ kind = "AllSettled")
                    \/ kind = "AllSettled" /\ Done("caller") /\ fut.val[i] = Err(CallerErr)
    <3>1. PICK f \in Values : fut = OKOf(f)
      BY <2>1, <2>2, ResultsDiffer DEF Types
    <3>2. fut.val = f /\ Value(f)
      BY <2>1, <3>1, ResultsDiffer DEF Outcome
    <3> QED BY <2>1, <3>2 DEF Value, Done, Settled
  <2>3. fut = Err(AllFailed) =>
          Done("caller") \/ \A i \in Sources : Settled(i) /\ ~ src[i].ok
    BY <2>1 DEF Outcome, AllFail, Done, Settled
  <2> QED BY <2>2, <2>3 DEF ValuesFromSources
<1> QED BY Invariance, <1>1, PTL

(* A combined future is rejected only for a failure of a source, for a     *)
(* cancellation from outside, or for all failures together; and no source  *)
(* is cancelled before the combined future is settled or cancelled.        *)
THEOREM RejectedForCauseForAll == Spec => []RejectedForCause
<1>1. CombinatorsInv => RejectedForCause
  <2> SUFFICES ASSUME CombinatorsInv PROVE RejectedForCause
    OBVIOUS
  <2>1. Types /\ Outcome /\ Spared /\ (CallerGone => cause["caller"] # Live)
    BY ErrorsDiffer DEF CombinatorsInv, CallerGone
  <2>2. ASSUME fut # NoResult, ~ fut.ok
        PROVE  \/ n = 0
               \/ fut = Err(AllFailed) /\ kind = "AnyOf"
               \/ fut = Err(UserErr)
               \/ fut = Err(CallerErr) /\ Done("caller")
               \/ \E i \in Sources : fut = Err(Failed(i)) /\ src[i] = fut /\ kind # "AnyOf"
    <3>1. PICK e \in Errors : fut = Err(e)
      BY <2>1, <2>2, ResultsDiffer DEF Types
    <3>2. Reason(e)
      BY <2>1, <3>1 DEF Outcome
    <3> QED BY <2>1, <3>1, <3>2 DEF Reason, Done
  <2>3. \A i \in Sources :
          Settled(i) /\ src[i] \notin {OK(i), Err(Failed(i))} => Done("combined") \/ i \in ended
    BY <2>1 DEF Spared, Settled, Done
  <2> QED BY <2>2, <2>3 DEF RejectedForCause
<1> QED BY Invariance, <1>1, PTL
=============================================================================
