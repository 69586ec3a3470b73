------------------------------- MODULE AdtProofs -------------------------------
(***************************************************************************)
(* Proofs about the shared values of adt: NamesRoundTrip of TypeNames,     *)
(* for any goroutines, types and names, from RegistryInv; and OncePerKey   *)
(* of OnceValues, for any goroutines and keys, from MemoInv.               *)
(***************************************************************************)
EXTENDS Memo, TypeNames, SequenceTheorems, FiniteSetTheorems, TLAPS

TheRegistry == INSTANCE Registry

(* A goroutine inside Register holds the name it has stored.               *)
Inside(g) == at[g].step \in {"type", "rollback"}
Holds(g, n) == Inside(g) /\ at[g].name = n
Stands(n, t) == n \in DOMAIN nameToType /\ nameToType[n] = t

RegistryTypes ==
  at \in [Registrars -> [step : {"out", "type", "rollback"},
                         type : Types \cup {NoName}, name : Names \cup {NoName}]]

(* Two goroutines never hold the same name, which stands for the holder's  *)
(* type and is given to no type yet; the one that rolls back has found its *)
(* type under another name.                                                *)
HeldNames ==
  /\ \A g, h \in Registrars : \A n : Holds(g, n) /\ Holds(h, n) => g = h
  /\ \A g \in Registrars : Inside(g) =>
       /\ Stands(at[g].name, at[g].type)
       /\ \A t \in DOMAIN typeToName : typeToName[t] # at[g].name
  /\ \A g \in Registrars : at[g].step = "rollback" => at[g].type \in DOMAIN typeToName

(* Both maps agree, but for the names that are held.                       *)
MapsAgree ==
  /\ \A t \in DOMAIN typeToName : Stands(typeToName[t], t)
  /\ \A n \in DOMAIN nameToType :
       \/ nameToType[n] \in DOMAIN typeToName /\ typeToName[nameToType[n]] = n
       \/ \E g \in Registrars : Holds(g, n)

(* What was boxed came from the one map, what was decoded from the other.  *)
AnysAgree ==
  /\ \A b \in boxed : b[1] \in DOMAIN typeToName /\ typeToName[b[1]] = b[2]
  /\ \A b \in decoded :
       \/ Stands(b[2], b[1])
       \/ b[1] \in DOMAIN typeToName /\ typeToName[b[1]] # b[2]

RegistryInv == RegistryTypes /\ HeldNames /\ MapsAgree /\ AnysAgree

-----------------------------------------------------------------------------
(* Nothing is registered at first.                                         *)
LEMMA RegistryInit == TheRegistry!Init => RegistryInv
<1> SUFFICES ASSUME TheRegistry!Init PROVE RegistryInv
  OBVIOUS
<1>1. DOMAIN nameToType = {} /\ DOMAIN typeToName = {} /\ boxed = {} /\ decoded = {}
  BY DEF TheRegistry!Init
<1>2. at = [g \in Registrars |-> [step |-> "out", type |-> NoName, name |-> NoName]]
  BY DEF TheRegistry!Init, TheRegistry!Out
<1> QED BY <1>1, <1>2 DEF RegistryInv, RegistryTypes, HeldNames, MapsAgree, AnysAgree, Inside, Holds

(* A free name is stored: it is held from then on.                         *)
LEMMA StoreNameInv ==
  ASSUME RegistryInv, NEW g \in Registrars, NEW t \in Types, NEW n \in Names,
         TheRegistry!StoreName(g, t, n)
  PROVE  RegistryInv'
<1>1. /\ UNCHANGED <<typeToName, boxed, decoded>>
      /\ at[g].step = "out"
      /\ n \notin DOMAIN nameToType
      /\ DOMAIN nameToType' = DOMAIN nameToType \cup {n}
      /\ nameToType'[n] = t
      /\ \A m \in DOMAIN nameToType : nameToType'[m] = nameToType[m]
      /\ at' = [at EXCEPT ![g] = [step |-> "type", type |-> t, name |-> n]]
  BY DEF TheRegistry!StoreName, TheRegistry!Put, TheRegistry!Out
<1>2. /\ at'[g].step = "type" /\ at'[g].type = t /\ at'[g].name = n
      /\ \A h \in Registrars \ {g} : at'[h] = at[h]
      /\ RegistryTypes'
  BY <1>1 DEF RegistryInv, RegistryTypes
<1>3. \A m, u : Stands(m, u) => Stands(m, u)'
  BY <1>1 DEF Stands
<1>4. \A h \in Registrars \ {g} : \A m : (Inside(h)' <=> Inside(h)) /\ (Holds(h, m)' <=> Holds(h, m))
  BY <1>2 DEF Inside, Holds
<1>5. \A h \in Registrars \ {g} : ~ Holds(h, n)
  BY <1>1 DEF RegistryInv, HeldNames, Holds, Stands
<1>6. /\ Inside(g)' /\ Stands(n, t)'
      /\ \A m : Holds(g, m)' <=> m = n
      /\ \A u \in DOMAIN typeToName : typeToName[u] # n
  BY <1>1, <1>2 DEF Inside, Holds, Stands, RegistryInv, MapsAgree
<1>7. HeldNames'
  BY <1>1, <1>2, <1>3, <1>4, <1>5, <1>6 DEF RegistryInv, HeldNames
<1>8. MapsAgree'
  BY <1>1, <1>2, <1>3, <1>4, <1>6 DEF RegistryInv, MapsAgree, Holds, Inside
<1>9. AnysAgree'
  BY <1>1, <1>3 DEF RegistryInv, AnysAgree
<1> QED BY <1>2, <1>7, <1>8, <1>9 DEF RegistryInv

(* A type that has no name yet is given the name held for it.              *)
LEMMA StoreTypeInv ==
  ASSUME RegistryInv, NEW g \in Registrars, TheRegistry!StoreType(g)
  PROVE  RegistryInv'
<1> DEFINE t == at[g].type
           n == at[g].name
<1>1. /\ UNCHANGED <<nameToType, boxed, decoded>>
      /\ at[g].step = "type"
      /\ t \notin DOMAIN typeToName
      /\ DOMAIN typeToName' = DOMAIN typeToName \cup {t}
      /\ typeToName'[t] = n
      /\ \A u \in DOMAIN typeToName : typeToName'[u] = typeToName[u]
      /\ at' = [at EXCEPT ![g] = [step |-> "out", type |-> NoName, name |-> NoName]]
  BY DEF TheRegistry!StoreType, TheRegistry!Put, TheRegistry!Out
<1>2. /\ at'[g].step = "out"
      /\ \A h \in Registrars \ {g} : at'[h] = at[h]
      /\ RegistryTypes'
  BY <1>1 DEF RegistryInv, RegistryTypes
<1>3. \A m, u : Stands(m, u)' <=> Stands(m, u)
  BY <1>1 DEF Stands
<1>4. \A h \in Registrars \ {g} : \A m : (Inside(h)' <=> Inside(h)) /\ (Holds(h, m)' <=> Holds(h, m))
  BY <1>2 DEF Inside, Holds
<1>5. Inside(g) /\ ~ Inside(g)' /\ Stands(n, t) /\ \A m : ~ Holds(g, m)' /\ (Holds(g, m) <=> m = n)
  BY <1>1, <1>2 DEF Inside, Holds, RegistryInv, HeldNames
<1>6. \A h \in Registrars \ {g} : Inside(h) => at[h].name # n
  BY <1>5 DEF RegistryInv, HeldNames, Holds
<1> HIDE DEF t, n
<1>7. HeldNames'
  BY <1>1, <1>2, <1>3, <1>4, <1>5, <1>6 DEF RegistryInv, HeldNames
<1>8. MapsAgree'
  <2>1. \A u \in DOMAIN typeToName' : Stands(typeToName'[u], u)
    BY <1>1, <1>5 DEF RegistryInv, MapsAgree
  <2>2. ASSUME NEW m \in DOMAIN nameToType
        PROVE  \/ nameToType[m] \in DOMAIN typeToName' /\ typeToName'[nameToType[m]] = m
               \/ \E h \in Registrars : Holds(h, m)'
    <3>1. CASE m = n
      BY <1>1, <1>5, <3>1 DEF Stands
    <3>2. CASE m # n
      BY <1>1, <1>4, <1>5, <3>2 DEF RegistryInv, MapsAgree
    <3> QED BY <3>1, <3>2
  <2> QED BY <1>1, <1>3, <2>1, <2>2 DEF MapsAgree
<1>9. AnysAgree'
  BY <1>1, <1>3 DEF RegistryInv, AnysAgree
<1> QED BY <1>2, <1>7, <1>8, <1>9 DEF RegistryInv

(* A type that has a name already sends Register back.                     *)
LEMMA TypeTakenInv ==
  ASSUME RegistryInv, NEW g \in Registrars, TheRegistry!TypeTaken(g)
  PROVE  RegistryInv'
<1>1. /\ UNCHANGED <<nameToType, typeToName, boxed, decoded>>
      /\ at[g].step = "type" /\ at[g].type \in DOMAIN typeToName
      /\ at' = [at EXCEPT ![g].step = "rollback"]
  BY DEF TheRegistry!TypeTaken
<1>2. /\ at'[g].step = "rollback" /\ at'[g].type = at[g].type /\ at'[g].name = at[g].name
      /\ \A h \in Registrars \ {g} : at'[h] = at[h]
      /\ RegistryTypes'
  BY <1>1 DEF RegistryInv, RegistryTypes
<1>3. \A h \in Registrars : \A m : (Inside(h)' <=> Inside(h)) /\ (Holds(h, m)' <=> Holds(h, m))
  BY <1>1, <1>2 DEF Inside, Holds
<1>4. HeldNames'
  BY <1>1, <1>2, <1>3 DEF RegistryInv, HeldNames, Stands
<1>5. MapsAgree' /\ AnysAgree'
  BY <1>1, <1>3 DEF RegistryInv, MapsAgree, AnysAgree, Stands
<1> QED BY <1>2, <1>4, <1>5 DEF RegistryInv

(* The held name is forgotten, which no type was given.                    *)
LEMMA RollbackInv ==
  ASSUME RegistryInv, NEW g \in Registrars, TheRegistry!Rollback(g)
  PROVE  RegistryInv'
<1> DEFINE n == at[g].name
<1>1. /\ UNCHANGED <<typeToName, boxed, decoded>>
      /\ at[g].step = "rollback"
      /\ DOMAIN nameToType' = DOMAIN nameToType \ {n}
      /\ \A m \in DOMAIN nameToType \ {n} : nameToType'[m] = nameToType[m]
      /\ at' = [at EXCEPT ![g] = [step |-> "out", type |-> NoName, name |-> NoName]]
  BY DEF TheRegistry!Rollback, TheRegistry!Forget, TheRegistry!Drop, TheRegistry!Out
<1>2. /\ at'[g].step = "out"
      /\ \A h \in Registrars \ {g} : at'[h] = at[h]
      /\ RegistryTypes'
  BY <1>1 DEF RegistryInv, RegistryTypes
<1>3. \A m, u : m # n => (Stands(m, u)' <=> Stands(m, u))
  BY <1>1 DEF Stands
<1>4. \A h \in Registrars \ {g} : \A m : (Inside(h)' <=> Inside(h)) /\ (Holds(h, m)' <=> Holds(h, m))
  BY <1>2 DEF Inside, Holds
<1>5. /\ Inside(g) /\ ~ Inside(g)' /\ Stands(n, at[g].type)
      /\ at[g].type \in DOMAIN typeToName
      /\ \A u \in DOMAIN typeToName : typeToName[u] # n
      /\ \A m : ~ Holds(g, m)' /\ (Holds(g, m) <=> m = n)
  BY <1>1, <1>2 DEF Inside, Holds, RegistryInv, HeldNames
<1>6. \A h \in Registrars \ {g} : Inside(h) => at[h].name # n
  BY <1>5 DEF RegistryInv, HeldNames, Holds
<1> HIDE DEF n
<1>7. HeldNames'
  BY <1>1, <1>2, <1>3, <1>4, <1>5, <1>6 DEF RegistryInv, HeldNames
<1>8. MapsAgree'
  BY <1>1, <1>3, <1>4, <1>5 DEF RegistryInv, MapsAgree
<1>9. AnysAgree'
  <2>1. ASSUME NEW b \in decoded
        PROVE  Stands(b[2], b[1])' \/ (b[1] \in DOMAIN typeToName /\ typeToName[b[1]] # b[2])
    <3>1. CASE b[2] = n /\ Stands(b[2], b[1])
      <4>1. b[1] = at[g].type
        BY <1>5, <3>1 DEF Stands
      <4> QED BY <1>5, <3>1, <4>1
    <3>2. CASE b[2] # n /\ Stands(b[2], b[1])
      BY <1>3, <3>2
    <3> QED BY <3>1, <3>2 DEF RegistryInv, AnysAgree
  <2> QED BY <1>1, <2>1 DEF RegistryInv, AnysAgree
<1> QED BY <1>2, <1>7, <1>8, <1>9 DEF RegistryInv

(* Dyn and UnmarshalJSON read one map each.                                *)
LEMMA AnysInv ==
  ASSUME RegistryInv,
         \/ \E t \in Types : TheRegistry!Dyn(t)
         \/ \E n \in Names : TheRegistry!UnmarshalJSON(n)
  PROVE  RegistryInv'
<1>1. UNCHANGED <<nameToType, typeToName, at>>
  BY DEF TheRegistry!Dyn, TheRegistry!UnmarshalJSON
<1>2. AnysAgree'
  <2>1. ASSUME NEW t \in Types, TheRegistry!Dyn(t) PROVE AnysAgree'
    BY <2>1 DEF TheRegistry!Dyn, RegistryInv, AnysAgree, Stands
  <2>2. ASSUME NEW n \in Names, TheRegistry!UnmarshalJSON(n) PROVE AnysAgree'
    BY <2>2 DEF TheRegistry!UnmarshalJSON, RegistryInv, AnysAgree, Stands
  <2> QED BY <2>1, <2>2
<1> QED BY <1>1, <1>2
        DEF RegistryInv, RegistryTypes, HeldNames, MapsAgree, Inside, Holds, Stands

(* What Dyn boxes is decoded to its type, however Registers race, and one  *)
(* that fails leaves no name behind (dynamic.go: Register).                *)
THEOREM NamesRoundTripForAll == TheRegistry!Spec => []NamesRoundTrip
<1>1. RegistryInv /\ [TheRegistry!Next]_(TheRegistry!vars) => RegistryInv'
  <2> SUFFICES ASSUME RegistryInv, [TheRegistry!Next]_(TheRegistry!vars) PROVE RegistryInv'
    OBVIOUS
  <2>1. CASE UNCHANGED TheRegistry!vars
    BY <2>1 DEF TheRegistry!vars, RegistryInv, RegistryTypes, HeldNames, MapsAgree, AnysAgree,
                Inside, Holds, Stands
  <2>2. ASSUME NEW g \in Registrars,
               \/ TheRegistry!StoreType(g) \/ TheRegistry!TypeTaken(g) \/ TheRegistry!Rollback(g)
               \/ \E t \in Types, n \in Names : TheRegistry!StoreName(g, t, n)
        PROVE  RegistryInv'
    BY <2>2, StoreNameInv, StoreTypeInv, TypeTakenInv, RollbackInv
  <2>3. CASE \/ \E t \in Types : TheRegistry!Dyn(t)
             \/ \E n \in Names : TheRegistry!UnmarshalJSON(n)
    BY <2>3, AnysInv
  <2> QED BY <2>1, <2>2, <2>3 DEF TheRegistry!Next, TheRegistry!NameTaken
<1>2. RegistryInv => NamesRoundTrip
  BY DEF RegistryInv, MapsAgree, AnysAgree, HeldNames, Holds, Inside, Stands,
         NamesRoundTrip, Decodes
<1> QED BY <1>1, <1>2, RegistryInit, PTL DEF TheRegistry!Spec

-----------------------------------------------------------------------------
(* Memoised calls and Lazy values. *)

Frames == [getter : Getters, computing : BOOLEAN, asked : Nat]

MemoTypes ==
  /\ DOMAIN cache \subseteq Keys /\ cache \in [DOMAIN cache -> Getters]
  /\ outcome \in [Getters -> Nat \cup {Panic, NoOutcome}]
  /\ running \subseteq Getters
  /\ stack \in [Callers -> Seq(Frames)]
  /\ evals \in [Keys -> Nat]
  /\ answers \in [Keys -> SUBSET (Nat \cup {Panic})]

(* The getter kept for its key; a key that has been given a value; the     *)
(* first n keys that a computation of k asks for have.                     *)
Kept(m) == m[2] \in DOMAIN cache /\ cache[m[2]] = m
HasValue(k) == k \in DOMAIN cache /\ outcome[cache[k]] \in Nat
AskedValues(k, n) == \A i \in 1..n : HasValue(Asks[k][i])

(* Only the getters that are kept compute, each once; callers are given    *)
(* what the getter of their key has computed, and a value is only computed *)
(* from values.                                                            *)
GetterFacts ==
  /\ LazyKeys \subseteq DOMAIN cache
  /\ \A k \in DOMAIN cache : cache[k][2] = k
  /\ \A m \in running : Kept(m)
  /\ \A m \in Getters : outcome[m] # NoOutcome => m \in running
  /\ \A m \in Getters : outcome[m] \in Nat => AskedValues(m[2], Len(Asks[m[2]]))
  /\ \A k \in Keys : evals[k] = IF k \in DOMAIN cache /\ cache[k] \in running THEN 1 ELSE 0
  /\ \A k \in Keys : \A a \in answers[k] : k \in DOMAIN cache /\ a = outcome[cache[k]]

(* A frame computes while its getter has no outcome, and counts the values *)
(* it was given; the frame above it in the stack is the call it waits for. *)
FrameOK(f) ==
  /\ Kept(f.getter)
  /\ f.computing => f.getter \in running /\ outcome[f.getter] = NoOutcome
  /\ f.asked <= Len(Asks[f.getter[2]])
  /\ AskedValues(f.getter[2], f.asked)

AskedBy(f, below) ==
  /\ below.computing /\ below.asked < Len(Asks[below.getter[2]])
  /\ f.getter[2] = Asks[below.getter[2]][below.asked + 1]

StackFacts ==
  \A g \in Callers : \A i \in 1..Len(stack[g]) :
    /\ FrameOK(stack[g][i])
    /\ i > 1 => AskedBy(stack[g][i - 1], stack[g][i])

(* No two frames compute for the same getter.                              *)
Computes(g, i, m) == i \in 1..Len(stack[g]) /\ stack[g][i].computing /\ stack[g][i].getter = m

OneComputes ==
  \A g, h \in Callers : \A i, j \in Nat : \A m \in Getters :
    Computes(g, i, m) /\ Computes(h, j, m) => g = h /\ i = j

MemoInv == MemoTypes /\ GetterFacts /\ StackFacts /\ OneComputes

-----------------------------------------------------------------------------
(* At first the getters of the Lazy values are there, and nobody calls.    *)
LEMMA MemoInit == Init => MemoInv
<1> SUFFICES ASSUME Init PROVE MemoInv
  OBVIOUS
<1>1. cache = [k \in LazyKeys |-> <<Deferred, k>>] /\ LazyKeys \subseteq Keys
  BY LazyAssumption DEF Init
<1>2. /\ outcome = [m \in Getters |-> NoOutcome] /\ running = {}
      /\ stack = [g \in Callers |-> <<>>]
      /\ evals = [k \in Keys |-> 0] /\ answers = [k \in Keys |-> {}]
  BY DEF Init
<1>3. \A g \in Callers : Len(stack[g]) = 0
  BY <1>2
<1>4. MemoTypes
  BY <1>1, <1>2 DEF MemoTypes, Getters
<1>5. GetterFacts
  BY <1>1, <1>2, OutcomeAssumption DEF GetterFacts
<1>6. StackFacts /\ OneComputes
  BY <1>3 DEF StackFacts, OneComputes, Computes
<1> QED BY <1>4, <1>5, <1>6 DEF MemoInv

(* What a step leaves as it was: the getter of a key, an outcome.          *)
Grows ==
  /\ \A k \in DOMAIN cache : k \in DOMAIN cache' /\ cache'[k] = cache[k]
  /\ running \subseteq running'
  /\ \A m \in Getters : outcome[m] # NoOutcome => outcome'[m] = outcome[m]

(* Then the values a computation has been given stay, ...                  *)
LEMMA ValuesStay ==
  ASSUME MemoInv, Grows
  PROVE  /\ \A m : Kept(m) => Kept(m)'
         /\ \A k : HasValue(k) => HasValue(k)'
         /\ \A k, n : AskedValues(k, n) => AskedValues(k, n)'
<1>1. \A m : Kept(m) => Kept(m)'
  BY DEF Grows, Kept
<1>2. \A k : HasValue(k) => HasValue(k)'
  BY OutcomeAssumption DEF Grows, HasValue, MemoInv, MemoTypes
<1>3. \A k, n : AskedValues(k, n) => AskedValues(k, n)'
  BY <1>2 DEF AskedValues
<1> QED BY <1>1, <1>2, <1>3

(* ... and a frame stays as it should be, unless its getter has just been  *)
(* given an outcome.                                                       *)
LEMMA FrameStays ==
  ASSUME MemoInv, Grows, NEW f, FrameOK(f),
         f.computing => outcome'[f.getter] = outcome[f.getter]
  PROVE  FrameOK(f)'
BY ValuesStay DEF FrameOK, Grows

(* The stacks of the other goroutines stay as they should be.              *)
LEMMA OtherStacks ==
  ASSUME MemoInv, Grows, NEW g \in Callers,
         \A h \in Callers \ {g} : stack'[h] = stack[h],
         \A h \in Callers \ {g} : \A i \in 1..Len(stack[h]) :
           stack[h][i].computing =>
             outcome'[stack[h][i].getter] = outcome[stack[h][i].getter],
         \A i \in 1..Len(stack'[g]) :
           /\ FrameOK(stack[g][i])'
           /\ i > 1 => AskedBy(stack'[g][i - 1], stack'[g][i])
  PROVE  StackFacts'
<1>1. ASSUME NEW h \in Callers \ {g}, NEW i \in 1..Len(stack[h])
      PROVE  /\ FrameOK(stack[h][i])'
             /\ i > 1 => AskedBy(stack'[h][i - 1], stack'[h][i])
  <2>1. PICK f : f = stack[h][i]
    OBVIOUS
  <2>2. FrameOK(f) /\ (f.computing => outcome'[f.getter] = outcome[f.getter])
    BY <2>1 DEF MemoInv, StackFacts
  <2>3. FrameOK(f)'
    BY <2>2, FrameStays
  <2>4. stack'[h][i] = f
    BY <2>1
  <2>5. FrameOK(stack[h][i])'
    BY <2>3, <2>4 DEF FrameOK
  <2> QED BY <2>5 DEF MemoInv, StackFacts
<1> QED BY <1>1 DEF StackFacts

(* No second frame computes when the frames of one stack move by d.        *)
LEMMA OneStays ==
  ASSUME MemoInv, NEW g \in Callers, NEW d \in {-1, 0, 1},
         \A h \in Callers \ {g} : \A i \in Nat : \A m \in Getters :
           Computes(h, i, m)' => Computes(h, i, m),
         \A i \in Nat : \A m \in Getters :
           Computes(g, i, m)' => i + d \in Nat /\ Computes(g, i + d, m)
  PROVE  OneComputes'
<1>1. ASSUME NEW h \in Callers, NEW e \in Callers, NEW i \in Nat, NEW j \in Nat,
             NEW m \in Getters, Computes(h, i, m)', Computes(e, j, m)'
      PROVE  h = e /\ i = j
  <2>1. CASE h = g /\ e = g
    <3>1. i + d = j + d
      BY <1>1, <2>1 DEF MemoInv, OneComputes
    <3> QED BY <2>1, <3>1
  <2>2. CASE h = g /\ e # g
    BY <1>1, <2>2 DEF MemoInv, OneComputes
  <2>3. CASE h # g /\ e = g
    BY <1>1, <2>3 DEF MemoInv, OneComputes
  <2>4. CASE h # g /\ e # g
    BY <1>1, <2>4 DEF MemoInv, OneComputes
  <2> QED BY <2>1, <2>2, <2>3, <2>4
<1> QED BY <1>1 DEF OneComputes

(* The stack of a goroutine that has called, or not yet.                   *)
LEMMA StackTypes ==
  ASSUME MemoInv, NEW g \in Callers
  PROVE  /\ stack[g] \in Seq(Frames) /\ Len(stack[g]) \in Nat
         /\ \A i \in 1..Len(stack[g]) : stack[g][i] \in Frames
         /\ stack[g] # <<>> => /\ Len(stack[g]) > 0
                               /\ Top(g) = stack[g][1] /\ stack[g][1] \in Frames
                               /\ FrameOK(stack[g][1])
<1>1. stack[g] \in Seq(Frames)
  BY DEF MemoInv, MemoTypes
<1>2. Len(stack[g]) \in Nat /\ \A i \in 1..Len(stack[g]) : stack[g][i] \in Frames
  BY <1>1, LenProperties, ElementOfSeq
<1>3. stack[g] # <<>> => Len(stack[g]) > 0
  BY <1>1, EmptySeq
<1>4. stack[g] # <<>> => Top(g) = stack[g][1]
  BY <1>1 DEF Top
<1> QED BY <1>1, <1>2, <1>3, <1>4 DEF MemoInv, StackFacts

(* A getter is a pair with its key.                                        *)
LEMMA GetterKey == \A m \in Getters : m[2] \in Keys
BY DEF Getters

(* A call comes to the getter of its key, kept from then on.               *)
LEMMA EnterInv ==
  ASSUME MemoInv, NEW g \in Callers, NEW k \in Keys, Enter(g, k),
         stack[g] # <<>> =>
           /\ stack[g][1].computing
           /\ stack[g][1].asked < Len(Asks[stack[g][1].getter[2]])
           /\ k = Asks[stack[g][1].getter[2]][stack[g][1].asked + 1]
  PROVE  MemoInv'
<1> DEFINE getter == LoadOrStore(g, k)
           f == [getter |-> getter, computing |-> FALSE, asked |-> 0]
<1>1. /\ UNCHANGED <<outcome, running, evals, answers>>
      /\ cache' = [j \in DOMAIN cache \cup {k} |-> IF j = k THEN getter ELSE cache[j]]
      /\ stack' = [stack EXCEPT ![g] = <<f>> \o stack[g]]
  BY DEF Enter
<1>2. getter \in Getters /\ getter[2] = k /\ (k \in DOMAIN cache => cache[k] = getter)
  BY DEF LoadOrStore, MemoInv, MemoTypes, GetterFacts, Getters
<1>3. f \in Frames /\ <<f>> \in Seq(Frames) /\ Len(<<f>>) = 1 /\ <<f>>[1] = f
  BY <1>2 DEF Frames
<1> HIDE DEF getter
<1>4. /\ <<f>> \o stack[g] \in Seq(Frames)
      /\ Len(<<f>> \o stack[g]) = Len(stack[g]) + 1
      /\ (<<f>> \o stack[g])[1] = f
      /\ \A i \in 2..(Len(stack[g]) + 1) : (<<f>> \o stack[g])[i] = stack[g][i - 1]
  BY <1>3, StackTypes, ConcatProperties
<1>5. /\ stack' \in [Callers -> Seq(Frames)]
      /\ \A h \in Callers \ {g} : stack'[h] = stack[h]
      /\ Len(stack'[g]) = Len(stack[g]) + 1
      /\ stack'[g][1] = f
      /\ \A i \in 2..(Len(stack[g]) + 1) : stack'[g][i] = stack[g][i - 1]
  BY <1>1, <1>4 DEF MemoInv, MemoTypes
<1>6. Grows
  BY <1>1, <1>2 DEF Grows
<1>7. MemoTypes'
  BY <1>1, <1>2, <1>5 DEF MemoInv, MemoTypes
<1>8. GetterFacts'
  <2>1. /\ LazyKeys \subseteq DOMAIN cache'
        /\ \A j \in DOMAIN cache' : cache'[j][2] = j
        /\ \A m \in running' : Kept(m)'
        /\ \A m \in Getters : outcome'[m] # NoOutcome => m \in running'
    BY <1>1, <1>2, <1>6, ValuesStay DEF MemoInv, GetterFacts
  <2>2. \A m \in Getters : outcome'[m] \in Nat => AskedValues(m[2], Len(Asks[m[2]]))'
    BY <1>1, <1>6, ValuesStay DEF MemoInv, GetterFacts
  <2>3. \A j \in Keys : evals'[j] = IF j \in DOMAIN cache' /\ cache'[j] \in running' THEN 1 ELSE 0
    <3>1. k \notin DOMAIN cache => getter \notin running
      BY <1>2 DEF MemoInv, GetterFacts, Kept
    <3> QED BY <1>1, <1>2, <3>1 DEF MemoInv, GetterFacts
  <2>4. \A j \in Keys : \A a \in answers'[j] : j \in DOMAIN cache' /\ a = outcome'[cache'[j]]
    BY <1>1, <1>6 DEF MemoInv, GetterFacts, Grows
  <2> QED BY <2>1, <2>2, <2>3, <2>4 DEF GetterFacts
<1>9. StackFacts'
  <2>1. FrameOK(stack[g][1])'
    <3>1. stack'[g][1].getter = getter /\ stack'[g][1].computing = FALSE
      BY <1>5
    <3>2. getter[2] \in DOMAIN cache' /\ cache'[getter[2]] = getter
      BY <1>1, <1>2
    <3>3. stack'[g][1].asked = 0 /\ Len(Asks[k]) \in Nat
      BY <1>5, AsksAssumption
    <3> QED BY <1>2, <3>1, <3>2, <3>3 DEF FrameOK, Kept, AskedValues
  <2>2. ASSUME NEW i \in 2..(Len(stack[g]) + 1)
        PROVE  FrameOK(stack[g][i])' /\ AskedBy(stack'[g][i - 1], stack'[g][i])
    <3>1. PICK e : e = stack[g][i - 1]
      OBVIOUS
    <3>2. FrameOK(e)'
      <4>1. i - 1 \in 1..Len(stack[g])
        BY StackTypes
      <4>2. FrameOK(e)
        BY <3>1, <4>1 DEF MemoInv, StackFacts
      <4> QED BY <1>1, <1>6, <4>2, FrameStays
    <3>3. stack'[g][i] = e
      BY <1>5, <3>1
    <3>4. FrameOK(stack[g][i])'
      BY <3>2, <3>3 DEF FrameOK
    <3>5. CASE i = 2
      BY <1>2, <1>5, <3>4, <3>5, StackTypes, EmptySeq DEF AskedBy
    <3>6. CASE i > 2
      <4>1. i - 1 \in 1..Len(stack[g]) /\ i - 1 > 1 /\ i - 1 \in 2..(Len(stack[g]) + 1)
        BY <3>6, StackTypes
      <4>2. AskedBy(stack[g][i - 2], stack[g][i - 1])
        BY <4>1 DEF MemoInv, StackFacts
      <4> QED BY <1>5, <3>4, <4>1, <4>2
    <3> QED BY <3>5, <3>6
  <2>3. \A i \in 1..Len(stack'[g]) :
          FrameOK(stack[g][i])' /\ (i > 1 => AskedBy(stack'[g][i - 1], stack'[g][i]))
    <3>1. \A i \in 1..Len(stack'[g]) : i = 1 \/ i \in 2..(Len(stack[g]) + 1)
      BY <1>5, StackTypes
    <3>2. \A i \in 1..Len(stack'[g]) : i = 1 => ~ (i > 1)
      OBVIOUS
    <3> QED BY <2>1, <2>2, <3>1, <3>2
  <2> QED BY <1>1, <1>5, <1>6, <2>3, OtherStacks
<1>10. OneComputes'
  <2>1. ASSUME NEW h \in Callers \ {g}, NEW i \in Nat, NEW m \in Getters, Computes(h, i, m)'
        PROVE  Computes(h, i, m)
    BY <1>5, <2>1 DEF Computes
  <2>2. ASSUME NEW i \in Nat, NEW m \in Getters, Computes(g, i, m)'
        PROVE  i - 1 \in Nat /\ Computes(g, i - 1, m)
    <3>1. i \in 1..(Len(stack[g]) + 1) /\ stack'[g][i].computing /\ stack'[g][i].getter = m
      BY <1>5, <2>2 DEF Computes
    <3>2. i # 1
      BY <1>5, <3>1
    <3>3. i \in 2..(Len(stack[g]) + 1) /\ i - 1 \in 1..Len(stack[g])
      BY <3>1, <3>2, StackTypes
    <3> QED BY <1>5, <3>1, <3>3 DEF Computes
  <2> QED BY <2>1, <2>2, OneStays
<1> QED BY <1>7, <1>8, <1>9, <1>10 DEF MemoInv

(* A step that changes the top frame of one stack, but for its getter, and *)
(* gives no outcome to another frame that computes.                        *)
LEMMA TopChanges ==
  ASSUME MemoInv, Grows, NEW g \in Callers, stack[g] # <<>>, NEW f \in Frames,
         stack' = [stack EXCEPT ![g] = [stack[g] EXCEPT ![1] = f]],
         f.getter = stack[g][1].getter, FrameOK(f)',
         \A m \in Getters : outcome'[m] # outcome[m] =>
           stack[g][1].computing /\ m = stack[g][1].getter,
         f.computing => \A h \in Callers : \A i \in Nat : ~ Computes(h, i, f.getter)
  PROVE  stack' \in [Callers -> Seq(Frames)] /\ StackFacts' /\ OneComputes'
<1>1. /\ stack[g] \in Seq(Frames) /\ Len(stack[g]) \in Nat /\ Len(stack[g]) > 0
      /\ 1 \in 1..Len(stack[g])
  BY StackTypes
<1>2. /\ stack'[g] \in Seq(Frames) /\ Len(stack'[g]) = Len(stack[g])
      /\ stack'[g][1] = f
      /\ \A i \in 2..Len(stack[g]) : stack'[g][i] = stack[g][i]
  <2>1. stack'[g] = [stack[g] EXCEPT ![1] = f]
    BY DEF MemoInv, MemoTypes
  <2> QED BY <1>1, <2>1, ExceptSeq
<1>3. \A h \in Callers \ {g} : stack'[h] = stack[h]
  BY DEF MemoInv, MemoTypes
<1>4. stack' \in [Callers -> Seq(Frames)]
  BY <1>2 DEF MemoInv, MemoTypes
<1>5. ASSUME NEW h \in Callers, NEW i \in 1..Len(stack[h]), stack[h][i].computing,
             ~ (h = g /\ i = 1)
      PROVE  outcome'[stack[h][i].getter] = outcome[stack[h][i].getter]
  <2>1. stack[h][i].getter \in Getters /\ stack[g][1].getter \in Getters
    BY <1>1, StackTypes DEF Frames
  <2>2. SUFFICES ASSUME stack[g][1].computing, stack[h][i].getter = stack[g][1].getter
                 PROVE  FALSE
    BY <2>1
  <2>3. /\ Computes(h, i, stack[g][1].getter) /\ Computes(g, 1, stack[g][1].getter)
        /\ i \in Nat
    BY <1>1, <1>5, <2>2, StackTypes DEF Computes
  <2> QED BY <1>5, <2>1, <2>3 DEF MemoInv, OneComputes
<1>6. ASSUME NEW i \in 1..Len(stack'[g])
      PROVE  FrameOK(stack[g][i])' /\ (i > 1 => AskedBy(stack'[g][i - 1], stack'[g][i]))
  <2>1. CASE i = 1
    BY <1>2, <2>1 DEF FrameOK
  <2>2. CASE i > 1
    <3>1. i \in 1..Len(stack[g]) /\ i \in 2..Len(stack[g]) /\ i - 1 \in 1..Len(stack[g])
      BY <1>1, <1>2, <2>2
    <3>2. PICK e : e = stack[g][i]
      OBVIOUS
    <3>3. FrameOK(e) /\ AskedBy(stack[g][i - 1], e)
      BY <2>2, <3>1, <3>2 DEF MemoInv, StackFacts
    <3>4. e.computing => outcome'[e.getter] = outcome[e.getter]
      BY <1>5, <2>2, <3>1, <3>2
    <3>5. FrameOK(e)' /\ stack'[g][i] = e
      BY <1>2, <3>1, <3>2, <3>3, <3>4, FrameStays
    <3>6. FrameOK(stack[g][i])'
      BY <3>5 DEF FrameOK
    <3>7. stack'[g][i - 1].getter = stack[g][i - 1].getter
      BY <1>2, <2>2, <3>1
    <3> QED BY <3>3, <3>5, <3>6, <3>7 DEF AskedBy
  <2> QED BY <1>1, <1>2, <2>1, <2>2
<1>7. StackFacts'
  BY <1>3, <1>5, <1>6, OtherStacks
<1>8. OneComputes'
  <2>1. CASE f.computing
    <3>1. ASSUME NEW h \in Callers, NEW i \in Nat, NEW m \in Getters, Computes(h, i, m)',
                 ~ (h = g /\ i = 1)
          PROVE  Computes(h, i, m) /\ m # f.getter
      <4>1. Computes(h, i, m)
        BY <1>1, <1>2, <1>3, <3>1 DEF Computes
      <4> QED BY <2>1, <4>1
    <3>2. \A m : Computes(g, 1, m)' => m = f.getter
      BY <1>2 DEF Computes
    <3> QED BY <3>1, <3>2 DEF MemoInv, OneComputes
  <2>2. CASE ~ f.computing
    <3>1. \A h \in Callers : \A i \in Nat : \A m \in Getters :
            Computes(h, i, m)' => Computes(h, i, m)
      BY <1>1, <1>2, <1>3, <2>2 DEF Computes
    <3> QED BY <3>1 DEF MemoInv, OneComputes
  <2> QED BY <2>1, <2>2
<1> QED BY <1>4, <1>7, <1>8

(* sync.OnceValue lets one caller of a getter compute.                     *)
LEMMA ComputeInv == ASSUME MemoInv, NEW g \in Callers, Compute(g) PROVE MemoInv'
<1>a. PICK top : top = stack[g][1]
  OBVIOUS
<1>b. PICK m, f : m = top.getter /\ f = [top EXCEPT !.computing = TRUE]
  OBVIOUS
<1>1. /\ UNCHANGED <<cache, outcome, answers>>
      /\ stack[g] # <<>> /\ Top(g).getter \notin running
      /\ running' = running \cup {Top(g).getter}
      /\ evals' = [evals EXCEPT ![Top(g).getter[2]] = evals[Top(g).getter[2]] + 1]
      /\ stack' = [stack EXCEPT ![g] = [stack[g] EXCEPT ![1] = [stack[g][1] EXCEPT !.computing = TRUE]]]
  BY DEF Compute, Idle
<1>2. Top(g) = top /\ top \in Frames /\ FrameOK(top) /\ m \in Getters /\ m[2] \in Keys
  BY <1>a, <1>b, <1>1, StackTypes, GetterKey DEF Frames
<1>3. f \in Frames /\ f.getter = m /\ f.asked = top.asked /\ f.computing = TRUE
  BY <1>2, <1>b DEF Frames
<1>4. Grows
  BY <1>1 DEF Grows
<1>5. outcome[m] = NoOutcome /\ m \notin running /\ running' = running \cup {m}
  BY <1>1, <1>2, <1>b DEF MemoInv, GetterFacts
<1>6. FrameOK(f)'
  <2>1. Kept(m)' /\ AskedValues(m[2], top.asked)' /\ top.asked <= Len(Asks[m[2]])
    BY <1>2, <1>4, <1>b, ValuesStay DEF FrameOK
  <2> QED BY <1>1, <1>3, <1>5, <2>1 DEF FrameOK
<1>7. \A h \in Callers : \A i \in Nat : ~ Computes(h, i, f.getter)
  BY <1>3, <1>5 DEF Computes, MemoInv, StackFacts, FrameOK
<1>8. /\ stack' \in [Callers -> Seq(Frames)]
      /\ StackFacts' /\ OneComputes'
  <2>1. stack' = [stack EXCEPT ![g] = [stack[g] EXCEPT ![1] = f]]
    BY <1>1, <1>a, <1>b
  <2>2. f.getter = stack[g][1].getter
    BY <1>3, <1>a, <1>b
  <2> QED BY <1>1, <1>3, <1>4, <1>6, <1>7, <2>1, <2>2, TopChanges
<1>9. evals' = [evals EXCEPT ![m[2]] = evals[m[2]] + 1]
  BY <1>1, <1>2, <1>b
<1>10. MemoTypes'
  BY <1>1, <1>2, <1>5, <1>8, <1>9 DEF MemoInv, MemoTypes
<1>11. GetterFacts'
  <2>1. Kept(m) /\ m[2] \in DOMAIN cache /\ cache[m[2]] = m
    BY <1>2, <1>b DEF FrameOK, Kept
  <2>2. \A k \in running' : Kept(k)'
    BY <1>4, <1>5, <2>1, ValuesStay DEF MemoInv, GetterFacts
  <2>3. \A k \in Keys : evals'[k] = IF k \in DOMAIN cache' /\ cache'[k] \in running' THEN 1 ELSE 0
    <3>1. ASSUME NEW k \in Keys, k # m[2]
          PROVE  /\ evals'[k] = evals[k]
                 /\ k \in DOMAIN cache => (cache[k] \in running' <=> cache[k] \in running)
      BY <1>5, <1>9, <3>1 DEF MemoInv, MemoTypes, GetterFacts
    <3>2. evals[m[2]] = 0 /\ evals'[m[2]] = 1
      BY <1>2, <1>5, <1>9, <2>1 DEF MemoInv, MemoTypes, GetterFacts
    <3>3. cache' = cache /\ m \in running'
      BY <1>1, <1>5
    <3> QED BY <2>1, <3>1, <3>2, <3>3 DEF MemoInv, GetterFacts
  <2>4. \A k \in Getters : outcome'[k] \in Nat => AskedValues(k[2], Len(Asks[k[2]]))'
    BY <1>1, <1>4, ValuesStay DEF MemoInv, GetterFacts
  <2>5. /\ LazyKeys \subseteq DOMAIN cache'
        /\ \A k \in DOMAIN cache' : cache'[k][2] = k
        /\ \A k \in Getters : outcome'[k] # NoOutcome => k \in running'
        /\ \A k \in Keys : \A a \in answers'[k] : k \in DOMAIN cache' /\ a = outcome'[cache'[k]]
    BY <1>1, <1>5 DEF MemoInv, GetterFacts
  <2> QED BY <2>2, <2>3, <2>4, <2>5 DEF GetterFacts
<1> QED BY <1>8, <1>10, <1>11 DEF MemoInv

(* A getter is given its outcome: nobody had been given any.               *)
LEMMA OutcomeFacts ==
  ASSUME MemoInv, NEW m \in Getters, m \in running, outcome[m] = NoOutcome,
         NEW o \in Nat \cup {Panic}, outcome' = [outcome EXCEPT ![m] = o],
         o \in Nat => AskedValues(m[2], Len(Asks[m[2]])),
         UNCHANGED <<cache, running, evals>>,
         \A k \in Keys : \A a \in answers'[k] :
           a \in answers[k] \/ (k \in DOMAIN cache /\ cache[k] # m /\ a = outcome[cache[k]])
  PROVE  Grows /\ GetterFacts'
<1>1. /\ outcome'[m] = o /\ \A k \in Getters \ {m} : outcome'[k] = outcome[k]
      /\ o # NoOutcome
  BY OutcomeAssumption DEF MemoInv, MemoTypes
<1>2. Grows
  BY <1>1 DEF Grows
<1>3. \A k \in Keys : \A a \in answers'[k] : k \in DOMAIN cache' /\ a = outcome'[cache'[k]]
  <2>1. ASSUME NEW k \in Keys, NEW a \in answers[k]
        PROVE  k \in DOMAIN cache /\ a = outcome[cache[k]] /\ cache[k] # m /\ cache[k] \in Getters
    <3>1. a # NoOutcome
      BY OutcomeAssumption DEF MemoInv, MemoTypes
    <3> QED BY <3>1 DEF MemoInv, MemoTypes, GetterFacts
  <2> QED BY <1>1, <2>1 DEF MemoInv, MemoTypes
<1>4. \A k \in Getters : outcome'[k] \in Nat => AskedValues(k[2], Len(Asks[k[2]]))'
  BY <1>1, <1>2, ValuesStay DEF MemoInv, GetterFacts
<1>5. /\ \A k \in running' : Kept(k)'
      /\ \A k \in Getters : outcome'[k] # NoOutcome => k \in running'
  BY <1>1, <1>2, ValuesStay DEF MemoInv, GetterFacts
<1> QED BY <1>2, <1>3, <1>4, <1>5 DEF MemoInv, GetterFacts

(* The computation ends, with a value or a panic.                          *)
LEMMA FinishInv == ASSUME MemoInv, NEW g \in Callers, Finish(g) PROVE MemoInv'
<1>a. PICK top : top = stack[g][1]
  OBVIOUS
<1>b. PICK m, f : m = top.getter /\ f = [top EXCEPT !.computing = FALSE]
  OBVIOUS
<1>1. /\ UNCHANGED <<cache, running, evals, answers>>
      /\ stack[g] # <<>> /\ Top(g).computing /\ ~ Asking(Top(g))
      /\ stack' = [stack EXCEPT ![g] = [stack[g] EXCEPT ![1] = [stack[g][1] EXCEPT !.computing = FALSE]]]
  BY DEF Finish, Computed, Idle
<1>2. Top(g) = top /\ top \in Frames /\ FrameOK(top) /\ m \in Getters /\ m[2] \in Keys
  BY <1>a, <1>b, <1>1, StackTypes, GetterKey DEF Frames
<1>3. PICK o \in Nat \cup {Panic} : outcome' = [outcome EXCEPT ![m] = o]
  BY <1>2, <1>b DEF Finish, Computed, MemoInv, MemoTypes
<1>4. f \in Frames /\ f.getter = m /\ f.asked = top.asked /\ f.computing = FALSE
  BY <1>2, <1>b DEF Frames
<1>5. /\ m \in running /\ outcome[m] = NoOutcome
      /\ AskedValues(m[2], top.asked) /\ top.asked <= Len(Asks[m[2]])
  BY <1>1, <1>2, <1>b DEF FrameOK
<1>6. AskedValues(m[2], Len(Asks[m[2]]))
  <2>1. ~ (top.asked < Len(Asks[m[2]])) /\ top.asked \in Nat /\ Len(Asks[m[2]]) \in Nat
    BY <1>1, <1>2, <1>b, AsksAssumption, LenProperties DEF Asking, Frames
  <2>2. top.asked = Len(Asks[m[2]])
    BY <1>5, <2>1
  <2> QED BY <1>5, <2>2
<1>7. top.computing
  BY <1>1, <1>2
<1>8. Grows /\ GetterFacts'
  BY <1>1, <1>2, <1>3, <1>5, <1>6, OutcomeFacts
<1>9. FrameOK(f)'
  BY <1>1, <1>2, <1>4, <1>5, <1>8, <1>b, ValuesStay DEF FrameOK
<1>10. /\ stack' \in [Callers -> Seq(Frames)]
       /\ StackFacts' /\ OneComputes'
  <2>1. stack' = [stack EXCEPT ![g] = [stack[g] EXCEPT ![1] = f]]
    BY <1>1, <1>a, <1>b
  <2>2. f.getter = stack[g][1].getter
    BY <1>4, <1>a, <1>b
  <2>3. \A k \in Getters : outcome'[k] # outcome[k] => stack[g][1].computing /\ k = stack[g][1].getter
    BY <1>2, <1>3, <1>7, <1>a, <1>b DEF MemoInv, MemoTypes
  <2> QED BY <1>1, <1>4, <1>8, <1>9, <2>1, <2>2, <2>3, TopChanges
<1>11. MemoTypes'
  BY <1>1, <1>2, <1>3, <1>10 DEF MemoInv, MemoTypes
<1> QED BY <1>8, <1>10, <1>11 DEF MemoInv

(* The stack of a goroutine whose innermost call returns to another.       *)
LEMMA Popped ==
  ASSUME NEW s \in Seq(Frames), s # <<>>, Tail(s) # <<>>, NEW r \in Frames
  PROVE  /\ Len(s) \in Nat /\ Len(s) > 1 /\ Head(Tail(s)) = s[2]
         /\ <<r>> \o Tail(Tail(s)) \in Seq(Frames)
         /\ Len(<<r>> \o Tail(Tail(s))) = Len(s) - 1
         /\ (<<r>> \o Tail(Tail(s)))[1] = r
         /\ \A i \in 2..(Len(s) - 1) : (<<r>> \o Tail(Tail(s)))[i] = s[i + 1]
<1> DEFINE t == Tail(s)
           u == Tail(t)
<1>1. /\ t \in Seq(Frames) /\ Len(s) \in Nat /\ Len(t) \in Nat /\ Len(t) = Len(s) - 1
      /\ \A i \in 1..Len(t) : t[i] = s[i + 1]
  BY HeadTailProperties, LenProperties
<1>2. /\ u \in Seq(Frames) /\ Len(u) \in Nat /\ Len(u) = Len(t) - 1
      /\ \A i \in 1..Len(u) : u[i] = t[i + 1]
  BY <1>1, HeadTailProperties, LenProperties
<1>3. Head(t) = t[1] /\ Len(t) > 0
  BY <1>1, <1>2
<1>4. <<r>> \in Seq(Frames) /\ Len(<<r>>) = 1 /\ <<r>>[1] = r
  OBVIOUS
<1> HIDE DEF t, u
<1>5. /\ <<r>> \o u \in Seq(Frames)
      /\ Len(<<r>> \o u) = 1 + Len(u)
      /\ \A i \in 1..(1 + Len(u)) : (<<r>> \o u)[i] = IF i <= 1 THEN <<r>>[i] ELSE u[i - 1]
  BY <1>2, <1>4, ConcatProperties
<1>6. (<<r>> \o u)[1] = r
  BY <1>2, <1>4, <1>5
<1>7. ASSUME NEW i \in 2..(Len(s) - 1) PROVE (<<r>> \o u)[i] = s[i + 1]
  <2>1. i \in 1..(1 + Len(u)) /\ ~ (i <= 1) /\ i - 1 \in 1..Len(u) /\ i \in 1..Len(t)
    BY <1>1, <1>2
  <2>2. (<<r>> \o u)[i] = u[i - 1] /\ u[i - 1] = t[(i - 1) + 1] /\ t[i] = s[i + 1] /\ (i - 1) + 1 = i
    BY <1>1, <1>2, <1>5, <2>1
  <2> QED BY <2>2
<1>8. t[1] = s[2] /\ Len(s) > 1
  BY <1>1, <1>3
<1> QED BY <1>1, <1>2, <1>3, <1>5, <1>6, <1>7, <1>8 DEF t, u

(* The outcome of a getter is handed on: to the computation that asked, or *)
(* to the goroutine.                                                       *)
LEMMA ReturnInv == ASSUME MemoInv, NEW g \in Callers, Return(g) PROVE MemoInv'
<1>a. PICK top : top = stack[g][1]
  OBVIOUS
<1>b. PICK m, s, o : m = top.getter /\ s = stack[g] /\ o = outcome[m]
  OBVIOUS
<1>1. /\ UNCHANGED <<cache, running, evals>>
      /\ stack[g] # <<>> /\ Top(g) = top /\ top \in Frames /\ FrameOK(top)
      /\ ~ top.computing
      /\ o # NoOutcome
      /\ answers' = [answers EXCEPT ![m[2]] = answers[m[2]] \cup {o}]
      /\ IF Tail(s) = <<>> THEN stack' = [stack EXCEPT ![g] = <<>>] /\ UNCHANGED outcome
         ELSE /\ stack' = [stack EXCEPT ![g] = <<Resume(Head(Tail(s)), o)>> \o Tail(Tail(s))]
              /\ outcome' = EndBy(Head(Tail(s)).getter, o)
  BY <1>a, <1>b, StackTypes DEF Return, Idle
<1>2. /\ m \in Getters /\ m[2] \in Keys /\ m[2] \in DOMAIN cache /\ cache[m[2]] = m
      /\ o \in Nat \cup {Panic}
      /\ s \in Seq(Frames) /\ s # <<>> /\ Len(s) \in Nat
  BY <1>1, <1>b, StackTypes, GetterKey DEF MemoInv, MemoTypes, Frames, FrameOK, Kept
<1>3. \A h \in Callers \ {g} : stack'[h] = stack[h]
  BY <1>1 DEF MemoInv, MemoTypes
<1>4. /\ answers' \in [Keys -> SUBSET (Nat \cup {Panic})]
      /\ \A k \in Keys : \A a \in answers'[k] : a \in answers[k] \/ (k = m[2] /\ a = o)
  BY <1>1, <1>2 DEF MemoInv, MemoTypes
<1>5. ASSUME UNCHANGED outcome
      PROVE  Grows /\ GetterFacts'
  <2>1. Grows
    BY <1>1, <1>5 DEF Grows
  <2>2. \A k \in Keys : \A a \in answers'[k] : k \in DOMAIN cache' /\ a = outcome'[cache'[k]]
    BY <1>1, <1>2, <1>4, <1>5, <1>b DEF MemoInv, GetterFacts
  <2>3. \A k \in Getters : outcome'[k] \in Nat => AskedValues(k[2], Len(Asks[k[2]]))'
    BY <1>5, <2>1, ValuesStay DEF MemoInv, GetterFacts
  <2>4. \A k \in running' : Kept(k)'
    BY <1>1, <2>1, ValuesStay DEF MemoInv, GetterFacts
  <2> QED BY <1>1, <1>5, <2>1, <2>2, <2>3, <2>4 DEF MemoInv, GetterFacts
<1>6. CASE Tail(s) = <<>>
  <2>1. stack'[g] = <<>> /\ Len(stack'[g]) = 0 /\ outcome' = outcome
    BY <1>1, <1>6 DEF MemoInv, MemoTypes
  <2>2. Grows /\ GetterFacts'
    BY <1>5, <2>1
  <2>3. StackFacts'
    BY <1>3, <2>1, <2>2, OtherStacks
  <2>4. OneComputes'
    <3>1. \A h \in Callers : \A i \in Nat : \A k \in Getters :
            Computes(h, i, k)' => Computes(h, i, k)
      BY <1>3, <2>1 DEF Computes
    <3> QED BY <3>1 DEF MemoInv, OneComputes
  <2>5. MemoTypes'
    <3>1. <<>> \in Seq(Frames)
      BY EmptySeq
    <3>2. stack' \in [Callers -> Seq(Frames)]
      BY <1>1, <1>6, <3>1 DEF MemoInv, MemoTypes
    <3> QED BY <1>1, <1>4, <2>1, <3>2 DEF MemoInv, MemoTypes
  <2> QED BY <2>2, <2>3, <2>4, <2>5 DEF MemoInv
<1>7. CASE Tail(s) # <<>>
  <2>a. PICK below, r : below = s[2] /\ r = Resume(below, o)
    OBVIOUS
  <2>1. Len(s) > 1 /\ Head(Tail(s)) = below /\ below \in Frames
    <3>1. Len(s) > 1 /\ Head(Tail(s)) = s[2]
      BY <1>1, <1>2, <1>7, Popped
    <3> QED BY <1>2, <2>a, <3>1, ElementOfSeq
  <2>2. FrameOK(below) /\ AskedBy(top, below)
    BY <1>2, <1>a, <1>b, <2>1, <2>a DEF MemoInv, StackFacts
  <2>3. /\ r \in Frames /\ r.getter = below.getter
        /\ o = Panic => r.computing = FALSE /\ r.asked = below.asked
        /\ o # Panic => r.computing = below.computing /\ r.asked = below.asked + 1
    <3>1. CASE o = Panic
      <4>1. r = [below EXCEPT !.computing = FALSE]
        BY <2>a, <3>1 DEF Resume
      <4> QED BY <2>1, <3>1, <4>1 DEF Frames
    <3>2. CASE o # Panic
      <4>1. r = [below EXCEPT !.asked = below.asked + 1]
        BY <2>a, <3>2 DEF Resume
      <4> QED BY <2>1, <3>2, <4>1 DEF Frames
    <3> QED BY <3>1, <3>2
  <2>4. /\ stack'[g] \in Seq(Frames) /\ Len(stack'[g]) = Len(s) - 1
        /\ stack'[g][1] = r
        /\ \A i \in 2..(Len(s) - 1) : stack'[g][i] = s[i + 1]
        /\ stack' \in [Callers -> Seq(Frames)]
    <3>1. stack' = [stack EXCEPT ![g] = <<r>> \o Tail(Tail(s))]
      BY <1>1, <1>7, <2>1, <2>a
    <3>2. stack'[g] = <<r>> \o Tail(Tail(s)) /\ <<r>> \o Tail(Tail(s)) \in Seq(Frames)
      BY <1>2, <1>7, <2>3, <3>1, Popped DEF MemoInv, MemoTypes
    <3> QED BY <1>2, <1>7, <2>3, <3>1, <3>2, Popped DEF MemoInv, MemoTypes
  <2>5. /\ below.getter \in Getters /\ below.getter \in running
        /\ outcome[below.getter] = NoOutcome /\ below.computing
    BY <2>1, <2>2 DEF FrameOK, AskedBy, Frames
  <2>6. /\ Grows /\ GetterFacts'
        /\ outcome' \in [Getters -> Nat \cup {Panic, NoOutcome}]
        /\ \A k \in Getters : outcome'[k] # outcome[k] => o = Panic /\ k = below.getter
    <3>1. CASE o = Panic
      <4>1. outcome' = [outcome EXCEPT ![below.getter] = Panic]
        BY <1>1, <1>7, <2>1, <3>1 DEF EndBy
      <4>2. m # below.getter
        BY <1>1, <1>b, <2>5
      <4>3. \A k \in Keys : \A a \in answers'[k] :
              a \in answers[k] \/ (k \in DOMAIN cache /\ cache[k] # below.getter /\ a = outcome[cache[k]])
        BY <1>2, <1>4, <1>b, <4>2
      <4>4. Panic \notin Nat
        BY OutcomeAssumption
      <4>5. Grows /\ GetterFacts'
        BY <1>1, <2>5, <4>1, <4>3, <4>4, OutcomeFacts
      <4> QED BY <2>5, <3>1, <4>1, <4>5 DEF MemoInv, MemoTypes
    <3>2. CASE o # Panic
      <4>1. outcome' = outcome
        BY <1>1, <1>7, <3>2 DEF EndBy
      <4> QED BY <1>5, <4>1 DEF MemoInv, MemoTypes
    <3> QED BY <3>1, <3>2
  <2>7. FrameOK(r)'
    <3>1. /\ Kept(below.getter)' /\ AskedValues(below.getter[2], below.asked)'
          /\ below.asked <= Len(Asks[below.getter[2]])
      BY <2>2, <2>6, ValuesStay DEF FrameOK
    <3>2. CASE o = Panic
      BY <2>3, <3>1, <3>2 DEF FrameOK
    <3>3. CASE o # Panic
      <4>1. o \in Nat /\ outcome' [below.getter] = NoOutcome
        BY <1>2, <2>5, <2>6, <3>3
      <4>2. /\ below.asked \in Nat /\ below.asked < Len(Asks[below.getter[2]])
            /\ m[2] = Asks[below.getter[2]][below.asked + 1]
            /\ Len(Asks[below.getter[2]]) \in Nat
        BY <1>b, <2>1, <2>2, GetterKey, AsksAssumption, LenProperties DEF AskedBy, Frames
      <4>3. HasValue(m[2])'
        <5>1. HasValue(m[2])
          BY <1>2, <1>b, <4>1 DEF HasValue
        <5> QED BY <2>6, <5>1, ValuesStay
      <4>4. AskedValues(below.getter[2], below.asked + 1)'
        <5>1. \A i \in 1..(below.asked + 1) : i \in 1..below.asked \/ i = below.asked + 1
          BY <4>2
        <5> QED BY <3>1, <4>2, <4>3, <5>1 DEF AskedValues
      <4> QED BY <1>1, <2>3, <2>5, <3>1, <3>3, <4>1, <4>2, <4>4 DEF FrameOK
    <3> QED BY <3>2, <3>3
  <2>8. ASSUME NEW h \in Callers, NEW i \in 1..Len(stack[h]), stack[h][i].computing,
               ~ (h = g /\ i = 2)
        PROVE  outcome'[stack[h][i].getter] = outcome[stack[h][i].getter]
    <3>1. stack[h][i].getter \in Getters
      BY StackTypes DEF Frames
    <3>2. SUFFICES ASSUME stack[h][i].getter = below.getter PROVE FALSE
      BY <2>6, <3>1
    <3>3. /\ Computes(h, i, below.getter) /\ Computes(g, 2, below.getter)
          /\ i \in Nat
      BY <1>2, <1>b, <2>1, <2>5, <2>8, <2>a, <3>2, StackTypes DEF Computes
    <3> QED BY <2>5, <2>8, <3>3 DEF MemoInv, OneComputes
  <2>9. ASSUME NEW i \in 1..Len(stack'[g])
        PROVE  FrameOK(stack[g][i])' /\ (i > 1 => AskedBy(stack'[g][i - 1], stack'[g][i]))
    <3>1. CASE i = 1
      BY <2>4, <2>7, <3>1 DEF FrameOK
    <3>2. CASE i > 1
      <4>1. i \in 2..(Len(s) - 1) /\ i + 1 \in 1..Len(s) /\ i + 1 > 1
        BY <1>2, <2>4, <3>2
      <4>2. PICK e : e = s[i + 1]
        OBVIOUS
      <4>3. FrameOK(e) /\ AskedBy(s[(i + 1) - 1], e) /\ (i + 1) - 1 = i
        BY <1>b, <4>1, <4>2 DEF MemoInv, StackFacts
      <4>4. e.computing => outcome'[e.getter] = outcome[e.getter]
        BY <1>b, <2>8, <4>1, <4>2
      <4>5. FrameOK(e)' /\ stack'[g][i] = e
        BY <2>4, <2>6, <4>1, <4>2, <4>3, <4>4, FrameStays
      <4>6. FrameOK(stack[g][i])'
        BY <4>5 DEF FrameOK
      <4>7. stack'[g][i - 1].getter = s[i].getter
        <5>1. CASE i = 2
          BY <2>3, <2>4, <2>a, <5>1
        <5>2. CASE i > 2
          <6>1. i - 1 \in 2..(Len(s) - 1) /\ (i - 1) + 1 = i
            BY <1>2, <4>1, <5>2
          <6> QED BY <2>4, <6>1
        <5> QED BY <3>2, <4>1, <5>1, <5>2
      <4> QED BY <4>3, <4>5, <4>6, <4>7 DEF AskedBy
    <3> QED BY <1>2, <2>4, <3>1, <3>2
  <2>10. StackFacts'
    BY <1>3, <2>6, <2>8, <2>9, OtherStacks
  <2>11. OneComputes'
    <3>1. ASSUME NEW h \in Callers \ {g}, NEW i \in Nat, NEW k \in Getters, Computes(h, i, k)'
          PROVE  Computes(h, i, k)
      BY <1>3, <3>1 DEF Computes
    <3>2. ASSUME NEW i \in Nat, NEW k \in Getters, Computes(g, i, k)'
          PROVE  i + 1 \in Nat /\ Computes(g, i + 1, k)
      <4>1. i \in 1..(Len(s) - 1) /\ stack'[g][i].computing /\ stack'[g][i].getter = k
        BY <2>4, <3>2 DEF Computes
      <4>2. CASE i = 1
        BY <1>2, <1>b, <2>1, <2>3, <2>4, <2>5, <2>a, <4>1, <4>2 DEF Computes
      <4>3. CASE i # 1
        <5>1. i \in 2..(Len(s) - 1) /\ i + 1 \in 1..Len(s)
          BY <1>2, <4>1, <4>3
        <5> QED BY <1>b, <2>4, <4>1, <5>1 DEF Computes
      <4> QED BY <4>2, <4>3
    <3> QED BY <3>1, <3>2, OneStays
  <2>12. MemoTypes'
    BY <1>1, <1>4, <2>4, <2>6 DEF MemoInv, MemoTypes
  <2> QED BY <2>6, <2>10, <2>11, <2>12 DEF MemoInv
<1> QED BY <1>6, <1>7

(* The invariant is inductive.                                             *)
LEMMA MemoNext == MemoInv /\ [Next]_vars => MemoInv'
<1> SUFFICES ASSUME MemoInv, [Next]_vars PROVE MemoInv'
  OBVIOUS
<1>1. CASE UNCHANGED vars
  <2>1. UNCHANGED <<cache, outcome, running, stack, evals, answers>>
    BY <1>1 DEF vars
  <2>2. MemoTypes' /\ GetterFacts' /\ OneComputes'
    BY <2>1 DEF MemoInv, MemoTypes, GetterFacts, OneComputes, Computes, Kept, AskedValues, HasValue
  <2>3. StackFacts'
    BY <2>1 DEF MemoInv, StackFacts, FrameOK, AskedBy, Kept, AskedValues, HasValue
  <2> QED BY <2>2, <2>3 DEF MemoInv
<1>2. ASSUME NEW g \in Callers, NEW k \in Keys, Call(g, k) PROVE MemoInv'
  BY <1>2, EnterInv DEF Call, Idle
<1>3. ASSUME NEW g \in Callers, Ask(g) PROVE MemoInv'
  <2>1. /\ stack[g] # <<>> /\ Top(g) = stack[g][1]
        /\ stack[g][1] \in Frames /\ stack[g][1].computing
        /\ stack[g][1].asked < Len(Asks[stack[g][1].getter[2]])
        /\ Enter(g, Asks[stack[g][1].getter[2]][stack[g][1].asked + 1])
    BY <1>3, StackTypes DEF Ask, Asking, Idle
  <2>2. PICK k, a : k = stack[g][1].getter[2] /\ a = stack[g][1].asked
    OBVIOUS
  <2>3. k \in Keys /\ Asks[k] \in Seq(Keys) /\ a \in Nat /\ a < Len(Asks[k])
    BY <2>1, <2>2, GetterKey, AsksAssumption DEF Frames
  <2>4. Asks[k][a + 1] \in Keys
    <3>1. Len(Asks[k]) \in Nat
      BY <2>3, LenProperties
    <3>2. a + 1 \in 1..Len(Asks[k])
      BY <2>3, <3>1
    <3> QED BY <2>3, <3>2, ElementOfSeq
  <2> QED BY <2>1, <2>2, <2>4, EnterInv
<1>4. ASSUME NEW g \in Callers, Compute(g) \/ Finish(g) \/ Return(g) PROVE MemoInv'
  BY <1>4, ComputeInv, FinishInv, ReturnInv
<1> QED BY <1>1, <1>2, <1>3, <1>4 DEF Next, Step

(* A function is called once per key and all are given the same outcome;   *)
(* a computation has a value only when all it asked for do (lazy.go:       *)
(* Memoize, Defer).                                                        *)
THEOREM OncePerKeyForAll == Spec => []OncePerKey
<1>1. MemoInv => OncePerKey
  <2> SUFFICES ASSUME MemoInv PROVE OncePerKey
    OBVIOUS
  <2>1. \A k \in Keys : evals[k] <= 1
    BY DEF MemoInv, GetterFacts
  <2>2. ASSUME NEW k \in Keys PROVE Cardinality(answers[k]) <= 1
    <3>1. CASE answers[k] = {}
      BY <3>1, FS_EmptySet
    <3>2. CASE answers[k] # {}
      <4>1. answers[k] = {outcome[cache[k]]}
        BY <3>2 DEF MemoInv, GetterFacts
      <4>2. Cardinality({outcome[cache[k]]}) = 1
        BY FS_Singleton
      <4> QED BY <4>1, <4>2
    <3> QED BY <3>1, <3>2
  <2>3. ASSUME NEW m \in Getters, outcome[m] \in Nat, NEW i \in DOMAIN Asks[m[2]]
        PROVE  answers[Asks[m[2]][i]] \subseteq Nat
    <3>1. Asks[m[2]] \in Seq(Keys)
      BY GetterKey, AsksAssumption
    <3>2. i \in 1..Len(Asks[m[2]]) /\ Asks[m[2]][i] \in Keys
      BY <3>1, LenProperties, ElementOfSeq
    <3>3. HasValue(Asks[m[2]][i])
      BY <2>3, <3>2 DEF MemoInv, GetterFacts, AskedValues
    <3> QED BY <3>2, <3>3 DEF MemoInv, GetterFacts, HasValue
  <2> QED BY <2>1, <2>2, <2>3 DEF OncePerKey
<1> QED BY <1>1, MemoInit, MemoNext, PTL DEF Spec
=============================================================================
