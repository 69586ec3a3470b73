--------------------------- MODULE CollectionsProofs ---------------------------
(***************************************************************************)
(* Proofs about the collections of ds, of any size, all of which rest on   *)
(* what Filter does to a slice: IndexesAgree and ImplementsRows of         *)
(* Table.tla from TableInv, IndexesAgree and WalkIsFaithful of Grid.tla    *)
(* from GridInv, EdgesIndexed of Graph.tla from GraphInv.                  *)
(***************************************************************************)
EXTENDS MCCollections, FiniteSetTheorems, SequenceTheorems, WellFoundedInduction, TLAPS

(* A non-empty set of natural numbers has a least element.                 *)
LEMMA Least ==
  ASSUME NEW S \in SUBSET Nat, S # {}
  PROVE  \E m \in S : \A x \in S : m <= x
<1>1. PICK m \in S : \A x \in S : ~ (<<x, m>> \in OpToRel(<, Nat))
  BY NatLessThanWellFounded, WFMin
<1>2. \A x \in S : ~ (x < m)
  BY <1>1, Zenon DEF OpToRel
<1> QED BY <1>2

-----------------------------------------------------------------------------
(* Filter of a slice. *)

(* What f would be, were it what is kept of s after n elements and fewer.  *)
KeptStep(s, S, f, n) ==
  IF n = 0 THEN <<>> ELSE f[n - 1] \o (IF s[n] \in S THEN <<s[n]>> ELSE <<>>)
IsKept(s, S, f, m) == f = [n \in 0..m |-> KeptStep(s, S, f, n)]

(* The recursion that defines what is kept has a solution.                 *)
LEMMA KeptExists ==
  ASSUME NEW s, NEW S, NEW m \in Nat
  PROVE  \E f : IsKept(s, S, f, m)
<1> SUFFICES ASSUME {n \in Nat : ~ \E f : IsKept(s, S, f, n)} # {} PROVE FALSE
  OBVIOUS
<1>1. PICK n \in Nat : /\ ~ \E f : IsKept(s, S, f, n)
                       /\ \A k \in Nat : (~ \E f : IsKept(s, S, f, k)) => n <= k
  BY Least
<1>2. CASE n = 0
  <2> DEFINE f == [k \in {0} |-> <<>>]
  <2>1. IsKept(s, S, f, 0)
    BY DEF IsKept, KeptStep
  <2> QED BY <1>1, <1>2, <2>1
<1>3. CASE n > 0
  <2>1. n - 1 \in Nat /\ ~ (n <= n - 1)
    BY <1>3
  <2>2. PICK f : IsKept(s, S, f, n - 1)
    BY <1>1, <2>1
  <2> DEFINE g == [k \in 0..n |-> IF k = n THEN KeptStep(s, S, f, n) ELSE f[k]]
  <2>3. ASSUME NEW k \in 0..n PROVE g[k] = KeptStep(s, S, g, k)
    <3>1. k = 0 \/ (k > 0 /\ k - 1 \in 0..(n - 1) /\ g[k - 1] = f[k - 1])
      BY <1>3
    <3>2. KeptStep(s, S, f, k) = KeptStep(s, S, g, k)
      BY <3>1 DEF KeptStep
    <3>3. k = n \/ k \in 0..(n - 1)
      OBVIOUS
    <3>4. k \in 0..(n - 1) => f[k] = KeptStep(s, S, f, k)
      BY <2>2 DEF IsKept
    <3> QED BY <3>2, <3>3, <3>4
  <2>4. IsKept(s, S, g, n)
    BY <2>3 DEF IsKept
  <2> QED BY <1>1, <2>4
<1> QED BY <1>2, <1>3

(* What is kept after n elements follows from what was before the last.    *)
LEMMA KeptEquation ==
  ASSUME NEW s, NEW S, Len(s) \in Nat, NEW n \in 0..Len(s)
  PROVE  Kept(s, S)[n] = KeptStep(s, S, Kept(s, S), n)
<1>1. PICK f : f = [k \in 0..Len(s) |-> KeptStep(s, S, f, k)]
  BY KeptExists DEF IsKept
<1>2. Kept(s, S) = [k \in 0..Len(s) |->
        IF k = 0 THEN <<>>
        ELSE Kept(s, S)[k - 1] \o (IF s[k] \in S THEN <<s[k]>> ELSE <<>>)]
  BY <1>1, Zenon DEF Kept, KeptStep
<1> QED BY <1>2 DEF KeptStep

(* No item of s but one of B occurs twice.                                 *)
DistinctBut(s, B) == \A i, j \in DOMAIN s : s[i] = s[j] => i = j \/ s[i] \in B
Distinct(s) == DistinctBut(s, {})

KeptWell(s, S, T, B, n) ==
  /\ Kept(s, S)[n] \in Seq(T)
  /\ Items(Kept(s, S)[n]) = {s[i] : i \in 1..n} \cap S
  /\ DistinctBut(s, B) => DistinctBut(Kept(s, S)[n], B)

(* Appending to a sequence adds one item, which occurs in it once if it    *)
(* was not there.                                                          *)
LEMMA AppendItems ==
  ASSUME NEW T, NEW s \in Seq(T), NEW x \in T
  PROVE  /\ s \o <<x>> = Append(s, x) /\ s \o <<x>> \in Seq(T)
         /\ Items(s \o <<x>>) = Items(s) \cup {x}
         /\ \A B : DistinctBut(s, B) /\ (x \notin Items(s) \/ x \in B) => DistinctBut(s \o <<x>>, B)
<1> DEFINE r == Append(s, x)
<1>1. s \o <<x>> = r /\ r \in Seq(T) /\ DOMAIN s = 1..Len(s) /\ DOMAIN r = 1..(Len(s) + 1)
  OBVIOUS
<1>2. \A i \in 1..Len(s) : r[i] = s[i] /\ i \in DOMAIN s
  OBVIOUS
<1>3. r[Len(s) + 1] = x /\ Len(s) \in Nat
  OBVIOUS
<1>4. \A i \in DOMAIN r : i \in 1..Len(s) \/ i = Len(s) + 1
  BY <1>1, <1>3
<1>0. r = Append(s, x)
  OBVIOUS
<1> HIDE DEF r
<1>5. Items(r) = Items(s) \cup {x}
  <2>1. \A i \in DOMAIN s : i \in DOMAIN r /\ r[i] = s[i]
    BY <1>1, <1>2, <1>3
  <2>2. Len(s) + 1 \in DOMAIN r
    BY <1>1, <1>3
  <2>3. ASSUME NEW i \in DOMAIN r PROVE r[i] \in Items(s) \cup {x}
    BY <1>1, <1>2, <1>3, <1>4 DEF Items
  <2>4. ASSUME NEW i \in DOMAIN s PROVE s[i] \in Items(r)
    BY <2>1 DEF Items
  <2>5. x \in Items(r)
    BY <2>2, <1>3 DEF Items
  <2>6. Items(r) \subseteq Items(s) \cup {x}
    BY <2>3 DEF Items
  <2>7. Items(s) \subseteq Items(r)
    BY <2>4, Zenon DEF Items
  <2> QED BY <2>5, <2>6, <2>7
<1>6. ASSUME NEW B, DistinctBut(s, B), x \notin Items(s) \/ x \in B
      PROVE  DistinctBut(r, B)
  <2> SUFFICES ASSUME NEW i \in DOMAIN r, NEW j \in DOMAIN r, r[i] = r[j]
               PROVE  i = j \/ r[i] \in B
    BY DEF DistinctBut
  <2>1. CASE i \in 1..Len(s) /\ j \in 1..Len(s)
    BY <2>1, <1>6, <1>2 DEF DistinctBut
  <2>2. CASE i = Len(s) + 1 /\ j = Len(s) + 1
    BY <2>2
  <2>3. CASE i \in 1..Len(s) /\ j = Len(s) + 1
    BY <2>3, <1>6, <1>2, <1>3 DEF Items
  <2>4. CASE i = Len(s) + 1 /\ j \in 1..Len(s)
    BY <2>4, <1>6, <1>2, <1>3 DEF Items
  <2> QED BY <2>1, <2>2, <2>3, <2>4, <1>4
<1>7. s \o <<x>> = r
  BY <1>1
<1>8. \A B : DistinctBut(s, B) /\ (x \notin Items(s) \/ x \in B) => DistinctBut(r, B)
  BY <1>6
<1> QED BY <1>0, <1>1, <1>5, <1>7, <1>8, Zenon

(* The last of AppendItems, for a given B.                                 *)
LEMMA AppendOnce ==
  ASSUME NEW T, NEW s \in Seq(T), NEW x \in T, NEW B,
         DistinctBut(s, B), x \notin Items(s) \/ x \in B
  PROVE  DistinctBut(Append(s, x), B)
BY AppendItems

(* What is kept after every step are items of the slice that are in S.     *)
LEMMA KeptSteps ==
  ASSUME NEW T, NEW s \in Seq(T), NEW S, NEW B
  PROVE  \A n \in 0..Len(s) : KeptWell(s, S, T, B, n)
<1> SUFFICES ASSUME {n \in 0..Len(s) : ~ KeptWell(s, S, T, B, n)} # {} PROVE FALSE
  OBVIOUS
<1> DEFINE Ill == {n \in 0..Len(s) : ~ KeptWell(s, S, T, B, n)}
<1>0. Ill \in SUBSET Nat /\ Ill # {}
  OBVIOUS
<1>1. PICK n \in Ill : \A k \in Ill : n <= k
  <2> HIDE DEF Ill
  <2> QED BY <1>0, Least
<1>2. n \in 0..Len(s) /\ ~ KeptWell(s, S, T, B, n) /\ Len(s) \in Nat /\ n \in Nat
  BY <1>1
<1>3. Kept(s, S)[n] = KeptStep(s, S, Kept(s, S), n)
  BY <1>2, KeptEquation
<1>4. CASE n = 0
  <2>1. Kept(s, S)[n] = <<>>
    BY <1>3, <1>4 DEF KeptStep
  <2>2. <<>> \in Seq(T) /\ DOMAIN (<<>>) = {} /\ 1..0 = {}
    OBVIOUS
  <2> QED BY <1>2, <1>4, <2>1, <2>2 DEF KeptWell, Items, DistinctBut
<1>5. CASE n > 0
  <2> PICK K : K = Kept(s, S)[n - 1]
    OBVIOUS
  <2>1. n - 1 \in 0..Len(s) /\ ~ (n <= n - 1)
    BY <1>2, <1>5
  <2>2. KeptWell(s, S, T, B, n - 1)
    BY <1>1, <2>1
  <2>3. n \in DOMAIN s /\ s[n] \in T /\ 1..n = 1..(n - 1) \cup {n} /\ n \notin 1..(n - 1)
    BY <1>2, <1>5
  <2>4. /\ K \in Seq(T)
        /\ Items(K) = {s[i] : i \in 1..(n - 1)} \cap S
        /\ DistinctBut(s, B) => DistinctBut(K, B)
    BY <2>2 DEF KeptWell
  <2>5. {s[i] : i \in 1..n} = {s[i] : i \in 1..(n - 1)} \cup {s[n]}
    BY <2>3
  <2>6. CASE s[n] \in S
    <3>1. Kept(s, S)[n] = K \o <<s[n]>>
      BY <1>3, <1>5, <2>6 DEF KeptStep
    <3>2. Kept(s, S)[n] \in Seq(T) /\ Items(Kept(s, S)[n]) = Items(K) \cup {s[n]}
      BY <3>1, <2>3, <2>4, AppendItems
    <3>3. ASSUME DistinctBut(s, B) PROVE s[n] \notin Items(K) \/ s[n] \in B
      <4>1. \A i \in 1..(n - 1) : i \in DOMAIN s /\ i # n
        BY <1>2, <2>3
      <4> QED BY <4>1, <3>3, <2>3, <2>4 DEF DistinctBut
    <3>4. DistinctBut(s, B) => DistinctBut(Kept(s, S)[n], B)
      BY <3>1, <3>3, <2>3, <2>4, AppendItems
    <3>5. Items(Kept(s, S)[n]) = {s[i] : i \in 1..n} \cap S
      BY <3>2, <2>4, <2>5, <2>6
    <3> QED BY <1>2, <3>2, <3>4, <3>5 DEF KeptWell
  <2>7. CASE s[n] \notin S
    <3>1. Kept(s, S)[n] = K
      BY <1>3, <1>5, <2>7, <2>4 DEF KeptStep
    <3>2. Items(K) = {s[i] : i \in 1..n} \cap S
      BY <2>4, <2>5, <2>7
    <3> QED BY <1>2, <3>1, <3>2, <2>4 DEF KeptWell
  <2> QED BY <2>6, <2>7
<1> QED BY <1>2, <1>4, <1>5

(* Filter keeps the items that are in S, and repeats none.                 *)
LEMMA FilterKeeps ==
  ASSUME NEW T, NEW s \in Seq(T), NEW S
  PROVE  /\ Filtered(s, S) \in Seq(T)
         /\ Items(Filtered(s, S)) = Items(s) \cap S
         /\ \A B : DistinctBut(s, B) => DistinctBut(Filtered(s, S), B)
<1>1. Len(s) \in 0..Len(s) /\ DOMAIN s = 1..Len(s)
  OBVIOUS
<1>2. \A B : KeptWell(s, S, T, B, Len(s))
  BY <1>1, KeptSteps
<1> QED BY <1>1, <1>2 DEF KeptWell, Filtered, Items

(* A slice without repetitions is as long as it has items.                 *)
LEMMA LenOfDistinct ==
  ASSUME NEW T, NEW s \in Seq(T), Distinct(s)
  PROVE  IsFiniteSet(Items(s)) /\ Cardinality(Items(s)) = Len(s)
<1> PICK n : n = Len(s)
  OBVIOUS
<1>1. n \in Nat /\ DOMAIN s = 1..n
  OBVIOUS
<1>2. IsFiniteSet(1..n) /\ Cardinality(1..n) = n
  <2>1. 1 \in Int /\ n \in Int
    BY <1>1
  <2>2. IsFiniteSet(1..n) /\ Cardinality(1..n) = IF 1 > n THEN 0 ELSE n - 1 + 1
    BY <2>1, FS_Interval, Zenon
  <2> QED BY <2>2, <1>1
<1>3. s \in Bijection(1..n, Items(s))
  <2>1. s = [i \in 1..n |-> s[i]]
    BY <1>1
  <2>2. s \in [1..n -> Items(s)]
    BY <2>1, <1>1 DEF Items
  <2>3. \A i, j \in 1..n : s[i] = s[j] => i = j
    BY <1>1 DEF Distinct, DistinctBut
  <2>4. \A x \in Items(s) : \E i \in 1..n : s[i] = x
    BY <1>1 DEF Items
  <2> QED BY <2>2, <2>3, <2>4 DEF Bijection, Injection, IsInjective, Surjection
<1>4. ExistsBijection(1..n, Items(s))
  BY <1>3 DEF ExistsBijection
<1> QED BY <1>2, <1>4, FS_Bijection

-----------------------------------------------------------------------------
(* Table.  Every index has the records that the main one has, under the    *)
(* keys they hold; the record that Update has taken out is in none, and    *)
(* what it was can be put back.                                            *)
MainInv ==
  /\ IsFiniteSet(DOMAIN main) /\ total = Cardinality(DOMAIN main)
  /\ \A k \in DOMAIN main : main[k] \in Records /\ val[main[k]].pk = k

UniqInv ==
  /\ \A k \in DOMAIN uniq : uniq[k] \in All /\ val[uniq[k]].uk = k
  /\ \A v \in All : val[v].uk \in DOMAIN uniq /\ uniq[val[v].uk] = v

Members(k) == {v \in All : val[v].group = k}

GroupInv ==
  \A k \in Groups :
    /\ Bucket(k) \in Seq(Records) /\ Distinct(Bucket(k))
    /\ Items(Bucket(k)) = Members(k)

IndexInv == val \in [Records -> Fields] /\ MainInv /\ UniqInv /\ GroupInv

UpdateInv ==
  updating # NoRecord =>
    updating \in Records \ All /\ old \in Fields /\ CanInsertAll(old)

TableInv == IndexInv /\ UpdateInv

(* A record in the table is found under the key it holds.                  *)
LEMMA InAll ==
  ASSUME MainInv, NEW v
  PROVE  v \in All <=> val[v].pk \in DOMAIN main /\ main[val[v].pk] = v
BY DEF MainInv, All

Empty ==
  /\ val \in [Records -> Fields]
  /\ main = <<>> /\ uniq = <<>> /\ group = <<>> /\ total = 0

(* The indexes of an empty table have nothing to disagree about.           *)
LEMMA EmptyIndexes == Empty => IndexInv /\ All = {}
<1> SUFFICES ASSUME Empty PROVE IndexInv /\ All = {}
  OBVIOUS
<1> USE DEF Empty
<1>1. DOMAIN main = {} /\ DOMAIN uniq = {} /\ DOMAIN group = {}
  OBVIOUS
<1>2. MainInv /\ All = {}
  BY <1>1, FS_EmptySet DEF MainInv, All
<1>3. UniqInv
  BY <1>1, <1>2 DEF UniqInv
<1>4. \A k : Bucket(k) = <<>> /\ Members(k) = {}
  BY <1>1, <1>2 DEF Bucket, Members
<1>5. <<>> \in Seq(Records) /\ DOMAIN (<<>>) = {}
  OBVIOUS
<1>6. GroupInv
  BY <1>4, <1>5 DEF GroupInv, Distinct, DistinctBut, Items
<1> QED BY <1>2, <1>3, <1>6 DEF IndexInv

(* A record that is not in the table may change.                           *)
LEMMA OutsideChanges ==
  ASSUME IndexInv, NEW v \in Records \ All, NEW f \in Fields,
         val' = [val EXCEPT ![v] = f], UNCHANGED indexes
  PROVE  IndexInv' /\ All' = All
<1>1. UNCHANGED <<main, uniq, group, total>>
  BY DEF indexes
<1>2. All' = All /\ val' \in [Records -> Fields]
  BY <1>1 DEF All, IndexInv
<1>3. All \subseteq Records /\ \A w \in All : val'[w] = val[w]
  BY DEF IndexInv, MainInv, All
<1>4. MainInv'
  BY <1>1, <1>3 DEF IndexInv, MainInv, All
<1>5. UniqInv'
  BY <1>1, <1>2, <1>3 DEF IndexInv, UniqInv
<1>6. \A k : Bucket(k)' = Bucket(k) /\ Members(k)' = Members(k)
  BY <1>1, <1>2, <1>3 DEF Bucket, Members
<1>7. GroupInv'
  BY <1>6 DEF IndexInv, GroupInv
<1> QED BY <1>2, <1>4, <1>5, <1>7 DEF IndexInv

(* A record put into every index under keys that are free.                 *)
LEMMA RecordEnters ==
  ASSUME IndexInv, NEW v \in Records \ All, NEW f \in Fields, CanInsertAll(f),
         val' = [val EXCEPT ![v] = f], InsertAll(v, f)
  PROVE  IndexInv' /\ All' = All \cup {v}
<1>1. /\ DOMAIN main' = DOMAIN main \cup {f.pk} /\ f.pk \notin DOMAIN main
      /\ main'[f.pk] = v /\ \A k \in DOMAIN main : main'[k] = main[k]
  BY DEF CanInsertAll, InsertAll, InsertUnique, Put
<1>2. /\ DOMAIN uniq' = DOMAIN uniq \cup {f.uk} /\ f.uk \notin DOMAIN uniq
      /\ uniq'[f.uk] = v /\ \A k \in DOMAIN uniq : uniq'[k] = uniq[k]
  BY DEF CanInsertAll, InsertAll, InsertUnique, Put
<1>3. All' = All \cup {v} /\ All \subseteq Records
  BY <1>1 DEF All, IndexInv, MainInv
<1>4. val' \in [Records -> Fields] /\ val'[v] = f /\ \A w \in All : val'[w] = val[w]
  BY <1>3 DEF IndexInv
<1>5. MainInv'
  <2>1. IsFiniteSet(DOMAIN main') /\ Cardinality(DOMAIN main') = Cardinality(DOMAIN main) + 1
    BY <1>1, FS_AddElement DEF IndexInv, MainInv
  <2>2. total' = Cardinality(DOMAIN main')
    BY <2>1 DEF InsertAll, IndexInv, MainInv
  <2>3. \A k \in DOMAIN main : main[k] \in All /\ main[k] \in Records /\ val[main[k]].pk = k
    BY DEF IndexInv, MainInv, All
  <2>4. \A k \in DOMAIN main' : main'[k] \in Records /\ val'[main'[k]].pk = k
    BY <1>1, <1>4, <2>3
  <2> QED BY <2>1, <2>2, <2>4 DEF MainInv
<1>6. UniqInv'
  <2>1. /\ \A k \in DOMAIN uniq : uniq[k] \in All /\ val[uniq[k]].uk = k
        /\ \A w \in All : val[w].uk \in DOMAIN uniq /\ uniq[val[w].uk] = w
    BY DEF IndexInv, UniqInv
  <2>2. \A k \in DOMAIN uniq' : uniq'[k] \in All' /\ val'[uniq'[k]].uk = k
    BY <1>2, <1>3, <1>4, <2>1
  <2>3. \A w \in All' : val'[w].uk \in DOMAIN uniq' /\ uniq'[val'[w].uk] = w
    BY <1>2, <1>3, <1>4, <2>1
  <2> QED BY <2>2, <2>3 DEF UniqInv
<1>7. GroupInv'
  <2> SUFFICES ASSUME NEW k \in Groups
               PROVE  /\ Bucket(k)' \in Seq(Records) /\ Distinct(Bucket(k)')
                      /\ Items(Bucket(k)') = Members(k)'
    BY DEF GroupInv
  <2>1. Bucket(k) \in Seq(Records) /\ Distinct(Bucket(k)) /\ Items(Bucket(k)) = Members(k)
    BY DEF IndexInv, GroupInv
  <2>2. group' = Put(group, f.group, Append(Bucket(f.group), v))
    BY DEF InsertAll, InsertGroup
  <2>3. Bucket(k)' = IF k = f.group THEN Append(Bucket(k), v) ELSE Bucket(k)
    BY <2>2 DEF Put, Bucket
  <2>4. Members(k)' = IF k = f.group THEN Members(k) \cup {v} ELSE Members(k)
    BY <1>3, <1>4 DEF Members
  <2>5. CASE k = f.group
    <3>1. Bucket(k)' = Bucket(k) \o <<v>>
      BY <2>1, <2>3, <2>5, AppendItems
    <3>2. v \notin Items(Bucket(k))
      BY <2>1 DEF Members
    <3>3. /\ Bucket(k) \o <<v>> \in Seq(Records)
          /\ Items(Bucket(k) \o <<v>>) = Items(Bucket(k)) \cup {v}
          /\ DistinctBut(Bucket(k) \o <<v>>, {})
      BY <2>1, <3>2, AppendItems DEF Distinct
    <3>4. Items(Bucket(k)') = Members(k)'
      BY <2>1, <2>4, <2>5, <3>1, <3>3
    <3> QED BY <3>1, <3>3, <3>4 DEF Distinct
  <2>6. CASE k # f.group
    BY <2>1, <2>3, <2>4, <2>6
  <2> QED BY <2>5, <2>6
<1> QED BY <1>3, <1>4, <1>5, <1>6, <1>7 DEF IndexInv

(* A record taken out of every index, by the keys it holds.                *)
LEMMA RecordLeaves ==
  ASSUME IndexInv, NEW v \in All, DeleteAll(v, val[v]), UNCHANGED val
  PROVE  /\ IndexInv' /\ All' = All \ {v}
         /\ v \in Records /\ val[v] \in Fields /\ CanInsertAll(val[v])'
<1> PICK f : f = val[v]
  OBVIOUS
<1>0. v \in Records /\ f \in Fields /\ All \subseteq Records /\ f.group \in Groups
  BY DEF IndexInv, MainInv, All, Fields
<1>1. /\ f.pk \in DOMAIN main /\ main[f.pk] = v /\ f.uk \in DOMAIN uniq /\ uniq[f.uk] = v
      /\ \A k \in DOMAIN main : main[k] = v => k = f.pk
      /\ \A k \in DOMAIN uniq : uniq[k] = v => k = f.uk
  BY InAll DEF IndexInv, MainInv, UniqInv
<1>2. /\ DOMAIN main' = DOMAIN main \ {f.pk} /\ \A k \in DOMAIN main' : main'[k] = main[k]
      /\ DOMAIN uniq' = DOMAIN uniq \ {f.uk} /\ \A k \in DOMAIN uniq' : uniq'[k] = uniq[k]
  BY <1>1 DEF DeleteAll, DeleteUnique, Drop
<1>3. All' = All \ {v}
  <2>1. \A k \in DOMAIN main : k \in DOMAIN main' <=> main[k] # v
    BY <1>1, <1>2
  <2> QED BY <1>2, <2>1 DEF All
<1>4. CanInsertAll(f)'
  BY <1>2 DEF CanInsertAll
<1>5. GroupInv' /\ Removed(f.group, v) = 1
  <2>1. \A k \in Groups :
          Bucket(k) \in Seq(Records) /\ Distinct(Bucket(k)) /\ Items(Bucket(k)) = Members(k)
    BY DEF IndexInv, GroupInv
  <2> PICK left : left = Others(f.group, v)
    OBVIOUS
  <2>2. /\ left \in Seq(Records) /\ Distinct(left)
        /\ Items(left) = Items(Bucket(f.group)) \ {v}
    <3>1. Items(Bucket(f.group)) \subseteq Records
      BY <1>0, <2>1 DEF Items
    <3>2. Items(left) = Items(Bucket(f.group)) \cap (Records \ {v})
      BY <1>0, <2>1, FilterKeeps DEF Others
    <3>3. left \in Seq(Records) /\ Distinct(left)
      BY <1>0, <2>1, FilterKeeps DEF Others, Distinct
    <3> QED BY <3>1, <3>2, <3>3
  <2>3. group' = IF left = <<>> THEN Drop(group, f.group) ELSE Put(group, f.group, left)
    BY DEF DeleteAll, DeleteGroup
  <2>4. \A k : Bucket(k)' = IF k = f.group THEN left ELSE Bucket(k)
    BY <2>3 DEF Drop, Put, Bucket
  <2>5. \A k : Members(k)' = IF k = f.group THEN Members(k) \ {v} ELSE Members(k)
    BY <1>3 DEF Members
  <2>6. ASSUME NEW k \in Groups
        PROVE  /\ Bucket(k)' \in Seq(Records) /\ Distinct(Bucket(k)')
               /\ Items(Bucket(k)') = Members(k)'
    BY <2>1, <2>2, <2>4, <2>5
  <2>7. v \in Items(Bucket(f.group))
    BY <1>0, <2>1 DEF Members
  <2>8. Len(Bucket(f.group)) = Cardinality(Items(Bucket(f.group)))
        /\ IsFiniteSet(Items(Bucket(f.group)))
    BY <1>0, <2>1, LenOfDistinct
  <2>9. Len(left) = Cardinality(Items(left))
    BY <2>2, LenOfDistinct
  <2>10. Cardinality(Items(left)) = Cardinality(Items(Bucket(f.group))) - 1
    BY <2>2, <2>7, <2>8, FS_RemoveElement
  <2>11. Len(Bucket(f.group)) \in Nat
    BY <1>0, <2>1
  <2>12. Removed(f.group, v) = 1
    BY <2>8, <2>9, <2>10, <2>11 DEF Removed
  <2> QED BY <2>6, <2>12 DEF GroupInv
<1>6. MainInv'
  <2>1. /\ IsFiniteSet(DOMAIN main')
        /\ Cardinality(DOMAIN main') = Cardinality(DOMAIN main) - 1
    BY <1>1, <1>2, FS_RemoveElement DEF IndexInv, MainInv
  <2>2. total' = total - 1
    BY <1>5 DEF DeleteAll
  <2> QED BY <1>2, <2>1, <2>2 DEF IndexInv, MainInv
<1>7. UniqInv'
  <2>1. /\ \A k \in DOMAIN uniq : uniq[k] \in All /\ val[uniq[k]].uk = k
        /\ \A w \in All : val[w].uk \in DOMAIN uniq /\ uniq[val[w].uk] = w
    BY DEF IndexInv, UniqInv
  <2>2. \A k \in DOMAIN uniq' : uniq'[k] \in All' /\ val[uniq'[k]].uk = k
    BY <1>1, <1>2, <1>3, <2>1
  <2>3. \A w \in All' : val[w].uk \in DOMAIN uniq' /\ uniq'[val[w].uk] = w
    BY <1>1, <1>2, <1>3, <2>1
  <2> QED BY <2>2, <2>3 DEF UniqInv
<1> QED BY <1>0, <1>3, <1>4, <1>5, <1>6, <1>7 DEF IndexInv

(* The table's invariant holds in every initial state. *)
LEMMA TableInit == Init => TableInv
BY EmptyIndexes DEF Init, TableInv, UpdateInv, Empty

(* Every call keeps it. *)
LEMMA TableNext ==
  ASSUME TableInv, [Next]_vars
  PROVE  TableInv'
<1> USE DEF TableInv
<1>1. ASSUME NEW v \in Records, Build(v) PROVE TableInv'
  <2>1. v \in Records \ All
    BY <1>1, InAll DEF Build, Contains, IndexInv
  <2>2. PICK f \in Fields : val' = [val EXCEPT ![v] = f]
    BY <1>1 DEF Build
  <2>3. updating = NoRecord /\ UNCHANGED indexes /\ updating' = updating
    BY <1>1 DEF Build, Idle
  <2>4. IndexInv'
    BY <2>1, <2>2, <2>3, OutsideChanges
  <2> QED BY <2>3, <2>4 DEF UpdateInv
<1>2. ASSUME NEW v \in Records, Insert(v) PROVE TableInv'
  <2>1. /\ updating' = NoRecord /\ CanInsertAll(val[v]) /\ InsertAll(v, val[v])
        /\ val' = val /\ val \in [Records -> Fields]
    BY <1>2 DEF Insert, Idle, IndexInv
  <2>2. v \in Records \ All
    BY <2>1, InAll DEF CanInsertAll, IndexInv
  <2>3. val' = [val EXCEPT ![v] = val[v]] /\ val[v] \in Fields
    BY <2>1
  <2>4. IndexInv'
    BY <2>1, <2>2, <2>3, RecordEnters
  <2> QED BY <2>1, <2>4 DEF UpdateInv
<1>3. ASSUME NEW v \in Records, Delete(v) PROVE TableInv'
  <2>1. updating' = NoRecord /\ Contains(v) /\ DeleteAll(v, val[v]) /\ UNCHANGED val
    BY <1>3 DEF Delete, Idle
  <2>2. v \in All
    BY <2>1, InAll DEF Contains, IndexInv
  <2>3. IndexInv'
    BY <2>1, <2>2, RecordLeaves
  <2> QED BY <2>1, <2>3 DEF UpdateInv
<1>4. ASSUME NEW v \in Records, UpdateBegins(v) PROVE TableInv'
  <2>1. /\ updating' = v /\ old' = val[v]
        /\ Contains(v) /\ DeleteAll(v, val[v]) /\ UNCHANGED val
    BY <1>4 DEF UpdateBegins
  <2>2. v \in All
    BY <2>1, InAll DEF Contains, IndexInv
  <2>3. /\ IndexInv' /\ All' = All \ {v}
        /\ v \in Records /\ val[v] \in Fields /\ CanInsertAll(val[v])'
    BY <2>1, <2>2, RecordLeaves
  <2>4. CanInsertAll(old)'
    BY <2>1, <2>3 DEF CanInsertAll
  <2> QED BY <2>1, <2>3, <2>4 DEF UpdateInv
<1>5. ASSUME NEW f \in Fields, UpdateAccepted(f) PROVE TableInv'
  <2>1. /\ updating # NoRecord /\ updating' = NoRecord /\ CanInsertAll(f)
        /\ InsertAll(updating, f) /\ val' = [val EXCEPT ![updating] = f]
    BY <1>5 DEF UpdateAccepted, Idle, Mutate
  <2>2. IndexInv'
    BY <2>1, RecordEnters DEF UpdateInv
  <2> QED BY <2>1, <2>2 DEF UpdateInv
<1>6. ASSUME NEW f \in Fields, UpdateRefused(f) PROVE TableInv'
  <2>1. /\ updating # NoRecord /\ updating' = NoRecord
        /\ InsertAll(updating, old) /\ val' = [val EXCEPT ![updating] = old]
    BY <1>6 DEF UpdateRefused, Idle, Mutate
  <2>2. IndexInv'
    BY <2>1, RecordEnters DEF UpdateInv
  <2> QED BY <2>1, <2>2 DEF UpdateInv
<1>7. ASSUME NEW f \in Fields, UpdatePanics(f) PROVE TableInv'
  <2>1. /\ updating # NoRecord /\ updating' = NoRecord
        /\ UNCHANGED indexes /\ val' = [val EXCEPT ![updating] = f]
    BY <1>7 DEF UpdatePanics, Idle, Mutate
  <2>2. IndexInv'
    BY <2>1, OutsideChanges DEF UpdateInv
  <2> QED BY <2>1, <2>2 DEF UpdateInv
<1>8. CASE Clear
  <2>1. /\ updating' = NoRecord /\ val' = val /\ val \in [Records -> Fields]
        /\ main' = <<>> /\ uniq' = <<>> /\ group' = <<>> /\ total' = 0
    BY <1>8 DEF Clear, Idle, IndexInv
  <2>2. Empty' => IndexInv'
    BY EmptyIndexes, PTL
  <2> QED BY <2>1, <2>2 DEF UpdateInv, Empty
<1>9. CASE UNCHANGED vars
  BY <1>9 DEF vars, indexes, IndexInv, MainInv, UniqInv, GroupInv, UpdateInv, All, Bucket,
              Members, CanInsertAll
<1> QED
  BY <1>1, <1>2, <1>3, <1>4, <1>5, <1>6, <1>7, <1>8, <1>9 DEF Next

(* The invariant says what lookups find.                                   *)
LEMMA TableInvAgrees == TableInv => IndexesAgree
<1> SUFFICES ASSUME IndexInv PROVE IndexesAgree
  BY DEF TableInv
<1>1. ASSUME NEW k \in PKs PROVE FindPK(k) = {v \in All : val[v].pk = k}
  BY DEF IndexInv, MainInv, All, FindPK, FindIn
<1>2. ASSUME NEW k \in UKs PROVE FindUK(k) = {v \in All : val[v].uk = k}
  BY DEF IndexInv, UniqInv, FindUK, FindIn
<1>3. ASSUME NEW k \in Groups
      PROVE  Items(FindGroup(k)) = Members(k) /\ Count(k) = Cardinality(Members(k))
  BY LenOfDistinct DEF IndexInv, GroupInv, FindGroup, Count
<1>4. Size = Cardinality(All)
  <2> DEFINE at == [k \in DOMAIN main |-> main[k]]
  <2>1. at \in [DOMAIN main -> All] /\ \A a, b \in DOMAIN main : at[a] = at[b] => a = b
    BY DEF All, IndexInv, MainInv
  <2>2. \A v \in All : \E k \in DOMAIN main : at[k] = v
    BY DEF All
  <2>3. at \in Bijection(DOMAIN main, All)
    <3> HIDE DEF at
    <3> QED BY <2>1, <2>2 DEF Bijection, Injection, IsInjective, Surjection
  <2>4. ExistsBijection(DOMAIN main, All)
    BY <2>3 DEF ExistsBijection
  <2>5. IsFiniteSet(DOMAIN main)
    BY DEF IndexInv, MainInv
  <2> QED BY <2>4, <2>5, FS_Bijection DEF Size
<1>5. total = Size
  BY DEF IndexInv, MainInv, Size
<1> QED BY <1>1, <1>2, <1>3, <1>4, <1>5 DEF IndexesAgree, Members

(* For any records, keys and groups, every lookup of every index finds the *)
(* records of the table that hold the key, each once, and the sizes agree, *)
(* between calls and while Update's function runs.                         *)
THEOREM IndexesAgreeForAll == Spec => []IndexesAgree
<1>1. Init => TableInv
  BY TableInit
<1>2. TableInv /\ [Next]_vars => TableInv'
  BY TableNext
<1>3. TableInv => IndexesAgree
  BY TableInvAgrees
<1> QED BY <1>1, <1>2, <1>3, PTL DEF Spec

-----------------------------------------------------------------------------
(* The refinement of Rows. *)

TheRows ==
  /\ All \subseteq Records
  /\ TableRows = [w \in DOMAIN TableRows |-> TableRows[w]]
  /\ updating = NoRecord => DOMAIN TableRows = All
  /\ updating # NoRecord =>
       DOMAIN TableRows = All \cup {updating} /\ TableRows[updating] = old
  /\ \A w \in All : TableRows[w] = val[w]

(* A row is a record of the table, or the one that is being updated.       *)
LEMMA RowsAre == TableInv => TheRows
<1> SUFFICES ASSUME TableInv PROVE TheRows
  OBVIOUS
<1>1. All \subseteq Records /\ NoRecord \notin All
  BY TableAssumption DEF TableInv, IndexInv, MainInv, All
<1>2. updating # NoRecord => updating \notin All
  BY DEF TableInv, UpdateInv
<1>3. DOMAIN TableRows = All \cup ({updating} \ {NoRecord})
  BY DEF TableRows
<1>4. TableRows = [w \in DOMAIN TableRows |-> TableRows[w]]
  BY DEF TableRows
<1>5. \A w \in All : TableRows[w] = val[w]
  BY <1>1, <1>2 DEF TableRows
<1>6. updating # NoRecord => TableRows[updating] = old
  BY DEF TableRows
<1> QED BY <1>1, <1>3, <1>4, <1>5, <1>6 DEF TheRows

(* A record whose keys are free conflicts with no row.                     *)
LEMMA FreeKeysAdmit ==
  ASSUME TableInv, NEW v \in Records \ All, NEW f \in Fields, CanInsertAll(f),
         updating = NoRecord \/ updating = v
  PROVE  Relation!Admits(v, f)
<1>1. TheRows
  BY RowsAre
<1>2. \A w \in DOMAIN TableRows : w # v => w \in All /\ TableRows[w] = val[w]
  BY <1>1 DEF TheRows
<1>3. \A w \in All : val[w].pk # f.pk /\ val[w].uk # f.uk
  BY InAll DEF CanInsertAll, TableInv, IndexInv, UniqInv
<1> QED BY <1>2, <1>3 DEF Relation!Admits, Relation!Conflict

(* Every step of the table is a step of the relation or changes no row.    *)
LEMMA RowsNext ==
  ASSUME TableInv, [Next]_vars
  PROVE  [Relation!Next]_TableRows
<1>1. TheRows
  BY RowsAre
<1>2. TableInv'
  BY TableNext
<1>3. TheRows'
  <2>1. TableInv' => TheRows'
    BY RowsAre, PTL
  <2> QED BY <1>2, <2>1
<1> PICK r : r = TableRows
  OBVIOUS
<1> PICK s : s = TableRows'
  OBVIOUS
<1>4. r = [w \in DOMAIN r |-> r[w]] /\ s = [w \in DOMAIN s |-> s[w]]
  BY <1>1, <1>3 DEF TheRows
<1>5. ASSUME NEW v \in Records, Build(v) PROVE [Relation!Next]_TableRows
  <2>1. PICK f \in Fields : val' = [val EXCEPT ![v] = f]
    BY <1>5 DEF Build
  <2>2. updating = NoRecord /\ UNCHANGED indexes /\ updating' = updating /\ v \in Records \ All
    BY <1>5, InAll DEF Build, Idle, Contains, TableInv, IndexInv
  <2>3. All' = All /\ \A w \in All : val'[w] = val[w]
    <3>1. All' = All
      BY <2>1, <2>2, OutsideChanges DEF TableInv
    <3>2. All \subseteq Records /\ val \in [Records -> Fields]
      BY <1>1 DEF TheRows, TableInv, IndexInv
    <3> QED BY <3>1, <3>2, <2>1, <2>2
  <2>4. DOMAIN r = DOMAIN s /\ \A w \in DOMAIN r : r[w] = s[w]
    BY <1>1, <1>3, <2>2, <2>3 DEF TheRows
  <2>5. r = s
    BY <1>4, <2>4
  <2> QED BY <2>5
<1>6. ASSUME NEW v \in Records, Insert(v) PROVE [Relation!Next]_TableRows
  <2>1. /\ updating = NoRecord /\ updating' = NoRecord /\ CanInsertAll(val[v])
        /\ InsertAll(v, val[v]) /\ val' = val /\ val \in [Records -> Fields]
    BY <1>6 DEF Insert, Idle, TableInv, IndexInv
  <2>2. v \in Records \ All /\ val' = [val EXCEPT ![v] = val[v]] /\ val[v] \in Fields
    BY <2>1, InAll DEF CanInsertAll, TableInv, IndexInv
  <2>3. All' = All \cup {v}
    BY <2>1, <2>2, RecordEnters DEF TableInv
  <2>4. Relation!Admits(v, val[v])
    BY <2>1, <2>2, FreeKeysAdmit
  <2>5. /\ DOMAIN s = DOMAIN r \cup {v} /\ v \notin DOMAIN r
        /\ \A w \in DOMAIN s : s[w] = IF w = v THEN val[v] ELSE r[w]
    BY <1>1, <1>3, <2>1, <2>2, <2>3 DEF TheRows
  <2>6. s = [w \in DOMAIN r \cup {v} |-> IF w = v THEN val[v] ELSE r[w]]
    BY <1>4, <2>5
  <2>7. Relation!Insert(v, val[v])
    BY <2>4, <2>5, <2>6 DEF Relation!Insert, Relation!With
  <2> QED BY <2>2, <2>7 DEF Relation!Next
<1>7. ASSUME NEW v \in Records, Delete(v) PROVE [Relation!Next]_TableRows
  <2>1. /\ updating = NoRecord /\ updating' = NoRecord
        /\ Contains(v) /\ DeleteAll(v, val[v]) /\ UNCHANGED val
    BY <1>7 DEF Delete, Idle
  <2>2. v \in All
    BY <2>1, InAll DEF Contains, TableInv, IndexInv
  <2>3. All' = All \ {v}
    BY <2>1, <2>2, RecordLeaves DEF TableInv
  <2>4. v \in DOMAIN r /\ DOMAIN s = DOMAIN r \ {v} /\ \A w \in DOMAIN s : s[w] = r[w]
    BY <1>1, <1>3, <2>1, <2>2, <2>3 DEF TheRows
  <2>5. s = [w \in DOMAIN r \ {v} |-> r[w]]
    BY <1>4, <2>4
  <2>6. Relation!Delete(v)
    BY <2>4, <2>5 DEF Relation!Delete, Relation!Without
  <2> QED BY <2>6 DEF Relation!Next
<1>8. ASSUME NEW v \in Records, UpdateBegins(v) PROVE [Relation!Next]_TableRows
  <2>1. /\ updating = NoRecord /\ updating' = v /\ old' = val[v]
        /\ Contains(v) /\ DeleteAll(v, val[v]) /\ UNCHANGED val
    BY <1>8 DEF UpdateBegins, Idle
  <2>2. v \in All /\ v # NoRecord
    BY <2>1, InAll, TableAssumption DEF Contains, TableInv, IndexInv
  <2>3. All' = All \ {v}
    BY <2>1, <2>2, RecordLeaves DEF TableInv
  <2>4. DOMAIN r = DOMAIN s /\ \A w \in DOMAIN r : r[w] = s[w]
    BY <1>1, <1>3, <2>1, <2>2, <2>3 DEF TheRows
  <2>5. r = s
    BY <1>4, <2>4
  <2> QED BY <2>5
<1>9. ASSUME NEW f \in Fields, UpdateAccepted(f) PROVE [Relation!Next]_TableRows
  <2>1. /\ updating # NoRecord /\ updating' = NoRecord /\ CanInsertAll(f)
        /\ InsertAll(updating, f) /\ val' = [val EXCEPT ![updating] = f]
        /\ updating \in Records \ All /\ val \in [Records -> Fields]
    BY <1>9 DEF UpdateAccepted, Idle, Mutate, TableInv, UpdateInv, IndexInv
  <2>2. All' = All \cup {updating}
    BY <2>1, RecordEnters DEF TableInv
  <2>3. Relation!Admits(updating, f)
    BY <2>1, FreeKeysAdmit
  <2>4. /\ updating \in DOMAIN r /\ DOMAIN s = DOMAIN r \cup {updating}
        /\ \A w \in DOMAIN s : s[w] = IF w = updating THEN f ELSE r[w]
    BY <1>1, <1>3, <2>1, <2>2 DEF TheRows
  <2>5. s = [w \in DOMAIN r \cup {updating} |-> IF w = updating THEN f ELSE r[w]]
    BY <1>4, <2>4
  <2>6. Relation!Update(updating, f)
    BY <2>3, <2>4, <2>5 DEF Relation!Update, Relation!With
  <2> QED BY <2>1, <2>6 DEF Relation!Next
<1>10. ASSUME NEW f \in Fields, UpdateRefused(f) PROVE [Relation!Next]_TableRows
  <2>1. /\ updating # NoRecord /\ updating' = NoRecord /\ CanInsertAll(old) /\ old \in Fields
        /\ InsertAll(updating, old) /\ val' = [val EXCEPT ![updating] = old]
        /\ updating \in Records \ All /\ val \in [Records -> Fields]
    BY <1>10 DEF UpdateRefused, Idle, Mutate, TableInv, UpdateInv, IndexInv
  <2>2. All' = All \cup {updating}
    BY <2>1, RecordEnters DEF TableInv
  <2>3. DOMAIN r = DOMAIN s /\ \A w \in DOMAIN r : r[w] = s[w]
    BY <1>1, <1>3, <2>1, <2>2 DEF TheRows
  <2>4. r = s
    BY <1>4, <2>3
  <2> QED BY <2>4
<1>11. ASSUME NEW f \in Fields, UpdatePanics(f) PROVE [Relation!Next]_TableRows
  <2>1. /\ updating # NoRecord /\ updating' = NoRecord
        /\ UNCHANGED indexes /\ val' = [val EXCEPT ![updating] = f]
        /\ updating \in Records \ All /\ val \in [Records -> Fields]
    BY <1>11 DEF UpdatePanics, Idle, Mutate, TableInv, UpdateInv, IndexInv
  <2>2. All' = All
    BY <2>1, OutsideChanges DEF TableInv
  <2>3. /\ updating \in DOMAIN r /\ DOMAIN s = DOMAIN r \ {updating}
        /\ \A w \in DOMAIN s : s[w] = r[w]
    BY <1>1, <1>3, <2>1, <2>2 DEF TheRows
  <2>4. s = [w \in DOMAIN r \ {updating} |-> r[w]]
    BY <1>4, <2>3
  <2>5. Relation!Delete(updating)
    BY <2>3, <2>4 DEF Relation!Delete, Relation!Without
  <2> QED BY <2>1, <2>5 DEF Relation!Next
<1>12. CASE Clear
  <2>1. updating = NoRecord /\ updating' = NoRecord /\ main' = <<>>
    BY <1>12 DEF Clear, Idle
  <2>2. All' = {}
    BY <2>1 DEF All
  <2>3. DOMAIN s = {}
    BY <1>3, <2>1, <2>2 DEF TheRows
  <2>4. s = [w \in DOMAIN r \ DOMAIN r |-> r[w]]
    BY <1>4, <2>3
  <2>5. Relation!Clear
    BY <2>4 DEF Relation!Clear, Relation!Without
  <2> QED BY <2>5 DEF Relation!Next
<1>13. CASE UNCHANGED vars
  <2>1. TableRows' = TableRows
    BY <1>13 DEF vars, indexes, TableRows, All
  <2> QED BY <2>1
<1> QED
  BY <1>5, <1>6, <1>7, <1>8, <1>9, <1>10, <1>11, <1>12, <1>13 DEF Next

(* For any records, keys and groups, the table implements a set of rows    *)
(* with unique keys that each call changes as a whole or not at all.       *)
THEOREM TableImplementsRows == Spec => ImplementsRows
<1>1. Init => TableInv
  BY TableInit
<1>2. Init => Relation!Init
  <2> SUFFICES ASSUME Init PROVE Relation!Init
    OBVIOUS
  <2>1. TheRows /\ updating = NoRecord /\ DOMAIN main = {}
    BY <1>1, RowsAre DEF Init
  <2>2. All = {}
    BY <2>1 DEF All
  <2> QED BY <2>1, <2>2 DEF TheRows, Relation!Init
<1>3. TableInv /\ [Next]_vars => TableInv'
  BY TableNext
<1>4. TableInv /\ [Next]_vars => [Relation!Next]_TableRows
  BY RowsNext
<1> QED BY <1>1, <1>2, <1>3, <1>4, PTL DEF Spec, ImplementsRows, Relation!Spec

-----------------------------------------------------------------------------
(* Grid. *)

Keys == Rows \cup Cols
Among(l, S) == {x \in Keys : TheGrid!Cell(l, x) \in S}

(* Every line lists the cells it has, those alone repeatedly that held nil. *)
ListsInv ==
  \A l \in TheGrid!Lines :
    /\ TheGrid!ListOf(l) \in Seq(Keys)
    /\ Items(TheGrid!ListOf(l)) = Among(l, DOMAIN cells)
    /\ DistinctBut(TheGrid!ListOf(l), Among(l, nilled))

CellsInv ==
  /\ DOMAIN cells \subseteq TheGrid!Coords
  /\ nilled \subseteq DOMAIN cells
  /\ \A k \in DOMAIN cells : cells[k] = Nil => k \in nilled
  /\ DOMAIN listed = {l \in TheGrid!Lines : Among(l, DOMAIN cells) # {}}
  /\ ListsInv

(* A range has yielded items it came by, among them the cells that stayed, *)
(* and has those of the others still before it.                            *)
Passed == {walk.list[i] : i \in 1..(walk.next - 1)}

WalkTypes ==
  walk \in [line : TheGrid!Lines \cup {NoLine}, list : Seq(Keys), next : Nat \ {0},
            got : Seq(Keys), stayed : SUBSET TheGrid!Coords, but : SUBSET TheGrid!Coords]

Awaited(l, k) ==
  /\ l \in TheGrid!Through(k)
  /\ TheGrid!Across(l, k) \in Items(walk.list)
  /\ TheGrid!Across(l, k) \in Passed => TheGrid!Across(l, k) \in Items(walk.got)

WalkInv ==
  walk.line # NoLine =>
    /\ DistinctBut(walk.list, Among(walk.line, walk.but))
    /\ DistinctBut(walk.got, Among(walk.line, walk.but))
    /\ walk.next <= Len(walk.list) + 1
    /\ Items(walk.got) \subseteq Passed
    /\ walk.stayed \subseteq DOMAIN cells
    /\ \A k \in walk.stayed : Awaited(walk.line, k)

GridInv == CellsInv /\ WalkTypes /\ WalkInv

(* A cell is where its row meets its column.                               *)
LEMMA Geometry ==
  /\ \A k \in TheGrid!Coords : TheGrid!Through(k) \subseteq TheGrid!Lines
  /\ \A k \in TheGrid!Coords : \A l \in TheGrid!Through(k) :
       TheGrid!Across(l, k) \in Keys /\ TheGrid!Cell(l, TheGrid!Across(l, k)) = k
  /\ \A l \in TheGrid!Lines : \A x : \A k \in TheGrid!Coords :
       TheGrid!Cell(l, x) = k => l \in TheGrid!Through(k) /\ x = TheGrid!Across(l, k)
<1> USE DEF TheGrid!Coords, TheGrid!Lines, TheGrid!Through, TheGrid!Across, TheGrid!Cell, Keys
<1>1. \A k \in TheGrid!Coords : TheGrid!Through(k) \subseteq TheGrid!Lines
  OBVIOUS
<1>2. \A k \in TheGrid!Coords : \A l \in TheGrid!Through(k) :
        TheGrid!Across(l, k) \in Keys /\ TheGrid!Cell(l, TheGrid!Across(l, k)) = k
  OBVIOUS
<1>3. ASSUME NEW l \in TheGrid!Lines, NEW x, NEW k \in TheGrid!Coords, TheGrid!Cell(l, x) = k
      PROVE  l \in TheGrid!Through(k) /\ x = TheGrid!Across(l, k)
  BY <1>3
<1> QED BY <1>1, <1>2, <1>3

(* Only the lines through a cell have it, each once.                       *)
LEMMA OneAmong ==
  ASSUME NEW k \in TheGrid!Coords, NEW l \in TheGrid!Lines, NEW x \in Keys
  PROVE  TheGrid!Cell(l, x) = k <=> l \in TheGrid!Through(k) /\ x = TheGrid!Across(l, k)
BY Geometry

(* A cell more or less in a set is one in the lines through it.            *)
LEMMA OneMoreCell ==
  ASSUME NEW S, NEW k \in TheGrid!Coords, NEW l \in TheGrid!Lines
  PROVE  Among(l, S \cup {k}) =
           IF l \in TheGrid!Through(k) THEN Among(l, S) \cup {TheGrid!Across(l, k)}
           ELSE Among(l, S)
<1>1. l \in TheGrid!Through(k) => TheGrid!Across(l, k) \in Keys
  BY Geometry
<1> QED BY <1>1, OneAmong DEF Among

(* The same of a cell less.                                                *)
LEMMA OneCellLess ==
  ASSUME NEW S, NEW k \in TheGrid!Coords, NEW l \in TheGrid!Lines
  PROVE  Among(l, S \ {k}) =
           IF l \in TheGrid!Through(k) THEN Among(l, S) \ {TheGrid!Across(l, k)}
           ELSE Among(l, S)
BY OneAmong DEF Among

(* Grid's filter is this one.                                              *)
LEMMA FilterOfGrid == \A s, S : TheGrid!Filtered(s, S) = Filtered(s, S)
BY Zenon DEF TheGrid!Filtered, TheGrid!Kept, Filtered, Kept

(* The empty slice is the one without items.                               *)
LEMMA EmptyItems == \A T : \A s \in Seq(T) : s = <<>> <=> Items(s) = {}
<1> TAKE T
<1> TAKE s \in Seq(T)
<1>1. s = <<>> => DOMAIN s = {}
  OBVIOUS
<1>2. s # <<>> => 1 \in DOMAIN s
  OBVIOUS
<1> QED BY <1>1, <1>2 DEF Items

(* The lists of a cell that is put: it is appended where it was not        *)
(* listed, and where it was but held nil.                                  *)
LEMMA PutCells ==
  ASSUME CellsInv, NEW k \in TheGrid!Coords, NEW v, TheGrid!Put(k, v)
  PROVE  CellsInv' /\ DOMAIN cells' = DOMAIN cells \cup {k} /\ UNCHANGED walk
<1>1. /\ cells' = [j \in DOMAIN cells \cup {k} |-> IF j = k THEN v ELSE cells[j]]
      /\ listed' = IF TheGrid!IsSome(TheGrid!FromMap(k)) THEN listed ELSE TheGrid!Insert(k)
      /\ nilled' = IF v = Nil THEN nilled \cup {k} ELSE nilled
      /\ UNCHANGED walk
  BY DEF TheGrid!Put
<1>2. DOMAIN cells' = DOMAIN cells \cup {k}
  BY <1>1
<1>3. TheGrid!IsSome(TheGrid!FromMap(k)) => k \in DOMAIN cells
  BY DEF TheGrid!IsSome, TheGrid!FromMap
<1>4. ~ TheGrid!IsSome(TheGrid!FromMap(k)) => k \notin DOMAIN cells \/ k \in nilled
  BY DEF TheGrid!IsSome, TheGrid!FromMap, CellsInv
<1>5. /\ DOMAIN cells' \subseteq TheGrid!Coords /\ nilled' \subseteq DOMAIN cells'
      /\ nilled \subseteq nilled' /\ nilled' \subseteq TheGrid!Coords
      /\ \A j \in DOMAIN cells' : cells'[j] = Nil => j \in nilled'
  BY <1>1, <1>2 DEF CellsInv
<1>6. \A l : Among(l, nilled) \subseteq Among(l, nilled')
  BY <1>5 DEF Among
<1>7. CASE TheGrid!IsSome(TheGrid!FromMap(k))
  <2>1. listed' = listed /\ DOMAIN cells' = DOMAIN cells
    BY <1>1, <1>2, <1>3, <1>7
  <2>2. \A l : /\ Among(l, DOMAIN cells') = Among(l, DOMAIN cells)
               /\ TheGrid!ListOf(l)' = TheGrid!ListOf(l)
    BY <2>1 DEF TheGrid!ListOf
  <2>3. DOMAIN listed' = {l \in TheGrid!Lines : Among(l, DOMAIN cells') # {}}
    BY <2>1, <2>2 DEF CellsInv
  <2>4. ASSUME NEW l \in TheGrid!Lines
        PROVE  /\ TheGrid!ListOf(l)' \in Seq(Keys)
               /\ Items(TheGrid!ListOf(l)') = Among(l, DOMAIN cells')
               /\ DistinctBut(TheGrid!ListOf(l)', Among(l, nilled'))
    <3>1. /\ TheGrid!ListOf(l) \in Seq(Keys)
          /\ Items(TheGrid!ListOf(l)) = Among(l, DOMAIN cells)
          /\ DistinctBut(TheGrid!ListOf(l), Among(l, nilled))
      BY DEF CellsInv, ListsInv
    <3>2. DistinctBut(TheGrid!ListOf(l), Among(l, nilled'))
      BY <1>6, <3>1 DEF DistinctBut
    <3> QED BY <2>2, <3>1, <3>2
  <2> QED BY <1>1, <1>2, <1>5, <2>3, <2>4 DEF CellsInv, ListsInv
<1>8. CASE ~ TheGrid!IsSome(TheGrid!FromMap(k))
  <2>1. listed' = [l \in DOMAIN listed \cup TheGrid!Through(k) |->
                     IF l \in TheGrid!Through(k)
                     THEN Append(TheGrid!ListOf(l), TheGrid!Across(l, k)) ELSE listed[l]]
    BY <1>1, <1>8 DEF TheGrid!Insert, TheGrid!InsertIn
  <2>2. \A l : TheGrid!ListOf(l)' =
               IF l \in TheGrid!Through(k) THEN Append(TheGrid!ListOf(l), TheGrid!Across(l, k))
               ELSE TheGrid!ListOf(l)
    BY <2>1 DEF TheGrid!ListOf
  <2>3. \A l \in TheGrid!Lines :
          Among(l, DOMAIN cells') =
            IF l \in TheGrid!Through(k) THEN Among(l, DOMAIN cells) \cup {TheGrid!Across(l, k)}
            ELSE Among(l, DOMAIN cells)
    <3>2. \A l \in TheGrid!Lines :
            Among(l, DOMAIN cells \cup {k}) =
              IF l \in TheGrid!Through(k) THEN Among(l, DOMAIN cells) \cup {TheGrid!Across(l, k)}
              ELSE Among(l, DOMAIN cells)
      BY OneMoreCell, Zenon
    <3> QED BY <1>2, <3>2
  <2>4. DOMAIN listed' = {l \in TheGrid!Lines : Among(l, DOMAIN cells') # {}}
    <3>1. DOMAIN listed' = DOMAIN listed \cup TheGrid!Through(k)
      BY <2>1
    <3>2. TheGrid!Through(k) \subseteq TheGrid!Lines
      BY Geometry
    <3>3. DOMAIN listed = {l \in TheGrid!Lines : Among(l, DOMAIN cells) # {}}
      BY DEF CellsInv
    <3> QED BY <2>3, <3>1, <3>2, <3>3
  <2>5. ASSUME NEW l \in TheGrid!Lines
        PROVE  /\ TheGrid!ListOf(l)' \in Seq(Keys)
               /\ Items(TheGrid!ListOf(l)') = Among(l, DOMAIN cells')
               /\ DistinctBut(TheGrid!ListOf(l)', Among(l, nilled'))
    <3> PICK s : s = TheGrid!ListOf(l)
      OBVIOUS
    <3> PICK x : x = TheGrid!Across(l, k)
      OBVIOUS
    <3>1. s \in Seq(Keys) /\ Items(s) = Among(l, DOMAIN cells) /\ DistinctBut(s, Among(l, nilled))
      BY DEF CellsInv, ListsInv
    <3>2. DistinctBut(s, Among(l, nilled'))
      BY <1>6, <3>1 DEF DistinctBut
    <3>3. CASE l \in TheGrid!Through(k)
      <4>1. x \in Keys /\ TheGrid!Cell(l, x) = k
        BY <3>3, Geometry
      <4>2. x \notin Items(s) \/ x \in Among(l, nilled')
        BY <1>4, <1>5, <1>8, <3>1, <4>1 DEF Among
      <4>3. /\ Append(s, x) \in Seq(Keys) /\ Items(Append(s, x)) = Items(s) \cup {x}
            /\ DistinctBut(Append(s, x), Among(l, nilled'))
        <5>1. /\ s \o <<x>> = Append(s, x) /\ s \o <<x>> \in Seq(Keys)
              /\ Items(s \o <<x>>) = Items(s) \cup {x}
          BY <3>1, <4>1, AppendItems
        <5>2. DistinctBut(s \o <<x>>, Among(l, nilled'))
          BY <3>1, <3>2, <4>1, <4>2, AppendItems, Zenon
        <5> QED BY <5>1, <5>2, Zenon
      <4>4. TheGrid!ListOf(l)' = Append(s, x)
        BY <2>2, <3>3
      <4>5. Among(l, DOMAIN cells') = Items(s) \cup {x}
        BY <2>3, <3>1, <3>3
      <4> QED BY <4>3, <4>4, <4>5, Zenon
    <3>4. CASE l \notin TheGrid!Through(k)
      BY <2>2, <2>3, <3>1, <3>2, <3>4
    <3> QED BY <3>3, <3>4
  <2> QED BY <1>1, <1>2, <1>5, <2>4, <2>5 DEF CellsInv, ListsInv
<1> QED BY <1>1, <1>2, <1>7, <1>8

(* A cell that is removed leaves the lists of its row and its column.      *)
LEMMA RemoveCells ==
  ASSUME CellsInv, NEW k \in TheGrid!Coords, TheGrid!Remove(k)
  PROVE  CellsInv' /\ DOMAIN cells' = DOMAIN cells \ {k}
<1> DEFINE Left(l) == TheGrid!Without(TheGrid!ListOf(l), TheGrid!Across(l, k))
<1>1. /\ k \in DOMAIN cells
      /\ cells' = [j \in DOMAIN cells \ {k} |-> cells[j]]
      /\ listed' = TheGrid!Delete(k)
      /\ nilled' = nilled \ {k}
  BY DEF TheGrid!Remove, TheGrid!IsSome, TheGrid!FromMap
<1>2. DOMAIN cells' = DOMAIN cells \ {k}
  BY <1>1
<1>3. listed' = [l \in {m \in DOMAIN listed : m \in TheGrid!Through(k) => Left(m) # <<>>} |->
                   IF l \in TheGrid!Through(k) THEN Left(l) ELSE listed[l]]
  BY <1>1 DEF TheGrid!Delete
<1>4. /\ DOMAIN cells' \subseteq TheGrid!Coords /\ nilled' \subseteq DOMAIN cells'
      /\ nilled \subseteq TheGrid!Coords /\ DOMAIN cells \subseteq TheGrid!Coords
      /\ \A j \in DOMAIN cells' : cells'[j] = Nil => j \in nilled'
  BY <1>1 DEF CellsInv
<1>5. ASSUME NEW l \in TheGrid!Lines
      PROVE  /\ Among(l, DOMAIN cells') =
                  IF l \in TheGrid!Through(k) THEN Among(l, DOMAIN cells) \ {TheGrid!Across(l, k)}
                  ELSE Among(l, DOMAIN cells)
             /\ Among(l, nilled') =
                  IF l \in TheGrid!Through(k) THEN Among(l, nilled) \ {TheGrid!Across(l, k)}
                  ELSE Among(l, nilled)
  <2>2. Among(l, DOMAIN cells \ {k}) =
          IF l \in TheGrid!Through(k) THEN Among(l, DOMAIN cells) \ {TheGrid!Across(l, k)}
          ELSE Among(l, DOMAIN cells)
    BY OneCellLess, Zenon
  <2>3. Among(l, nilled \ {k}) =
          IF l \in TheGrid!Through(k) THEN Among(l, nilled) \ {TheGrid!Across(l, k)}
          ELSE Among(l, nilled)
    BY OneCellLess, Zenon
  <2> QED BY <1>1, <1>2, <2>2, <2>3
<1>6. ASSUME NEW l \in TheGrid!Lines
      PROVE  /\ Left(l) \in Seq(Keys)
             /\ Items(Left(l)) = Among(l, DOMAIN cells) \ {TheGrid!Across(l, k)}
             /\ DistinctBut(Left(l), Among(l, nilled) \ {TheGrid!Across(l, k)})
  <2> PICK s : s = TheGrid!ListOf(l)
    OBVIOUS
  <2> PICK x : x = TheGrid!Across(l, k)
    OBVIOUS
  <2> PICK t : t = Filtered(s, Keys \ {x})
    OBVIOUS
  <2>1. s \in Seq(Keys) /\ Items(s) = Among(l, DOMAIN cells) /\ DistinctBut(s, Among(l, nilled))
    BY DEF CellsInv, ListsInv
  <2>2. t \in Seq(Keys) /\ Items(t) = Items(s) \cap (Keys \ {x}) /\ DistinctBut(t, Among(l, nilled))
    BY <2>1, FilterKeeps
  <2>3. Items(t) = Among(l, DOMAIN cells) \ {x}
    BY <2>1, <2>2 DEF Among
  <2>4. DistinctBut(t, Among(l, nilled) \ {x})
    <3>1. \A i \in DOMAIN t : t[i] # x
      BY <2>3 DEF Items
    <3> QED BY <2>2, <3>1 DEF DistinctBut
  <2>5. Left(l) = t
    BY FilterOfGrid DEF TheGrid!Without, Keys
  <2> QED BY <2>2, <2>3, <2>4, <2>5
<1> HIDE DEF Left
<1>7. DOMAIN listed = {l \in TheGrid!Lines : Among(l, DOMAIN cells) # {}}
  BY DEF CellsInv
<1>8. DOMAIN listed' = {l \in TheGrid!Lines : Among(l, DOMAIN cells') # {}}
  <2>1. \A l \in TheGrid!Lines : l \in TheGrid!Through(k) =>
          (Left(l) # <<>> <=> Among(l, DOMAIN cells') # {})
    BY <1>5, <1>6, EmptyItems
  <2>2. DOMAIN listed' = {m \in DOMAIN listed : m \in TheGrid!Through(k) => Left(m) # <<>>}
    BY <1>3
  <2> QED BY <1>5, <1>7, <2>1, <2>2
<1>9. ASSUME NEW l \in TheGrid!Lines
      PROVE  /\ TheGrid!ListOf(l)' \in Seq(Keys)
             /\ Items(TheGrid!ListOf(l)') = Among(l, DOMAIN cells')
             /\ DistinctBut(TheGrid!ListOf(l)', Among(l, nilled'))
  <2>1. CASE l \in TheGrid!Through(k)
    <3>1. TheGrid!ListOf(l)' = Left(l)
      <4>1. CASE l \in DOMAIN listed'
        BY <1>3, <2>1, <4>1 DEF TheGrid!ListOf
      <4>2. CASE l \notin DOMAIN listed'
        <5>1. TheGrid!ListOf(l)' = <<>>
          BY <4>2 DEF TheGrid!ListOf
        <5>2. Left(l) = <<>>
          BY <1>5, <1>6, <1>8, <2>1, <4>2, EmptyItems
        <5> QED BY <5>1, <5>2
      <4> QED BY <4>1, <4>2
    <3> QED BY <1>5, <1>6, <2>1, <3>1
  <2>2. CASE l \notin TheGrid!Through(k)
    <3>1. TheGrid!ListOf(l)' = TheGrid!ListOf(l)
      BY <1>3, <2>2 DEF TheGrid!ListOf
    <3> QED BY <1>5, <2>2, <3>1 DEF CellsInv, ListsInv
  <2> QED BY <2>1, <2>2
<1> QED BY <1>2, <1>4, <1>8, <1>9 DEF CellsInv, ListsInv

(* A range still under way has nothing to fear of a cell that is put, nor  *)
(* of one that is removed and so no longer stays.                          *)
LEMMA WalkGoesOn ==
  ASSUME WalkTypes, WalkInv, NEW S, walk' = [walk EXCEPT !.stayed = S],
         S \subseteq walk.stayed, S \subseteq DOMAIN cells'
  PROVE  WalkTypes' /\ WalkInv'
<1>1. WalkTypes'
  BY DEF WalkTypes
<1>2. /\ walk'.line = walk.line /\ walk'.list = walk.list /\ walk'.next = walk.next
      /\ walk'.got = walk.got /\ walk'.but = walk.but /\ walk'.stayed = S
  BY DEF WalkTypes
<1>3. Passed' = Passed /\ \A l, k : Awaited(l, k)' = Awaited(l, k)
  BY <1>2 DEF Passed, Awaited
<1>4. WalkInv'
  BY <1>2, <1>3 DEF WalkInv
<1> QED BY <1>1, <1>4

(* No range goes on.                                                       *)
LEMMA NoWalkGoesOn == walk = TheGrid!NoWalk => WalkTypes /\ WalkInv
<1> SUFFICES ASSUME walk = TheGrid!NoWalk PROVE WalkTypes /\ WalkInv
  OBVIOUS
<1>1. walk = [line |-> NoLine, list |-> <<>>, next |-> 1, got |-> <<>>, stayed |-> {}, but |-> {}]
  BY DEF TheGrid!NoWalk
<1>2. WalkTypes
  BY <1>1 DEF WalkTypes
<1>3. WalkInv
  BY <1>1 DEF WalkInv
<1> QED BY <1>2, <1>3

(* An empty grid.                                                          *)
LEMMA EmptyGrid == cells = <<>> /\ listed = <<>> /\ nilled = {} => CellsInv
<1> SUFFICES ASSUME cells = <<>>, listed = <<>>, nilled = {} PROVE CellsInv
  OBVIOUS
<1>1. DOMAIN cells = {} /\ DOMAIN listed = {}
  OBVIOUS
<1>2. \A l : Among(l, DOMAIN cells) = {} /\ TheGrid!ListOf(l) = <<>>
  BY <1>1 DEF Among, TheGrid!ListOf
<1>3. <<>> \in Seq(Keys) /\ DOMAIN (<<>>) = {}
  OBVIOUS
<1>4. ListsInv
  BY <1>2, <1>3 DEF ListsInv, DistinctBut, Items
<1> QED BY <1>1, <1>2, <1>4 DEF CellsInv

(* A range begins over the list of a line.                                 *)
LEMMA WalkStarts ==
  ASSUME CellsInv, NEW l \in TheGrid!Lines, TheGrid!StartWalk(l)
  PROVE  WalkTypes' /\ WalkInv'
<1> DEFINE S == {k \in DOMAIN cells : l \in TheGrid!Through(k)}
<1>1. /\ walk' = [line |-> l, list |-> listed[l], next |-> 1, got |-> <<>>,
                  stayed |-> S, but |-> nilled]
      /\ l \in DOMAIN listed /\ UNCHANGED <<cells, listed, nilled>>
  BY DEF TheGrid!StartWalk, TheGrid!NoWalk
<1>2. /\ listed[l] \in Seq(Keys)
      /\ Items(listed[l]) = Among(l, DOMAIN cells)
      /\ DistinctBut(listed[l], Among(l, nilled))
  BY <1>1 DEF CellsInv, ListsInv, TheGrid!ListOf
<1>3. S \subseteq DOMAIN cells /\ S \subseteq TheGrid!Coords /\ nilled \subseteq TheGrid!Coords
  BY DEF CellsInv
<1>4. <<>> \in Seq(Keys) /\ DOMAIN (<<>>) = {} /\ 1..(1 - 1) = {} /\ 1 \in Nat \ {0}
  OBVIOUS
<1>5. WalkTypes'
  BY <1>1, <1>2, <1>3, <1>4 DEF WalkTypes
<1>6. ASSUME NEW k \in S
      PROVE  l \in TheGrid!Through(k) /\ TheGrid!Across(l, k) \in Items(listed[l])
  BY <1>2, <1>3, OneAmong, Geometry DEF Among
<1>7. /\ walk'.line = l /\ walk'.list = listed[l] /\ walk'.next = 1
      /\ walk'.got = <<>> /\ walk'.but = nilled /\ walk'.stayed = S
  BY <1>1
<1>8. Passed' = {}
  BY <1>7 DEF Passed
<1>9. Items(<<>>) = {} /\ DistinctBut(<<>>, Among(l, nilled))
  BY <1>4 DEF Items, DistinctBut
<1>10. Len(listed[l]) \in Nat
  BY <1>2
<1> HIDE DEF S
<1>11. \A k \in S : Awaited(l, k)'
  BY <1>6, <1>7, <1>8 DEF Awaited
<1>12. DOMAIN cells' = DOMAIN cells
  BY <1>1
<1>13. WalkInv'
  BY <1>2, <1>3, <1>7, <1>8, <1>9, <1>10, <1>11, <1>12 DEF WalkInv
<1> QED BY <1>5, <1>13

(* The next item of the list is yielded if its cell is there.              *)
LEMMA WalkSteps ==
  ASSUME CellsInv, WalkTypes, WalkInv, TheGrid!WalkNext
  PROVE  WalkTypes' /\ WalkInv'
<1> PICK w : w = walk
  OBVIOUS
<1> PICK n : n = w.next
  OBVIOUS
<1> PICK x : x = w.list[n]
  OBVIOUS
<1> PICK B : B = Among(w.line, w.but)
  OBVIOUS
<1> PICK got : got = IF TheGrid!Cell(w.line, x) \in DOMAIN cells THEN Append(w.got, x) ELSE w.got
  OBVIOUS
<1>1. /\ w.line # NoLine /\ n <= Len(w.list)
      /\ walk' = [w EXCEPT !.next = n + 1, !.got = got]
      /\ UNCHANGED cells
  BY DEF TheGrid!WalkNext
<1>2. /\ w.line \in TheGrid!Lines /\ w.list \in Seq(Keys) /\ n \in Nat \ {0} /\ w.got \in Seq(Keys)
      /\ w.stayed \subseteq TheGrid!Coords /\ w.but \subseteq TheGrid!Coords
      /\ w \in [line : TheGrid!Lines \cup {NoLine}, list : Seq(Keys), next : Nat \ {0},
                got : Seq(Keys), stayed : SUBSET TheGrid!Coords, but : SUBSET TheGrid!Coords]
  BY <1>1 DEF WalkTypes
<1>3. n \in DOMAIN w.list /\ x \in Keys /\ n \in 1..Len(w.list) /\ 1..((n + 1) - 1) = 1..(n - 1) \cup {n}
  BY <1>1, <1>2
<1>4. /\ walk'.line = w.line /\ walk'.list = w.list /\ walk'.next = n + 1
      /\ walk'.got = got /\ walk'.but = w.but /\ walk'.stayed = w.stayed
  BY <1>1, <1>2
<1>5. Passed' = Passed \cup {x}
  BY <1>3, <1>4 DEF Passed
<1>6. /\ DistinctBut(w.list, B) /\ DistinctBut(w.got, B)
      /\ Items(w.got) \subseteq Passed /\ w.stayed \subseteq DOMAIN cells
  BY <1>1 DEF WalkInv
<1>7. x \notin Items(w.got) \/ x \in B
  <2>1. x \in Passed => x \in B
    <3> SUFFICES ASSUME NEW i \in 1..(n - 1), w.list[i] = x PROVE x \in B
      BY DEF Passed
    <3>1. i \in DOMAIN w.list /\ i # n
      BY <1>2, <1>3
    <3> QED BY <1>3, <1>6, <3>1 DEF DistinctBut
  <2> QED BY <1>6, <2>1
<1>8. /\ got \in Seq(Keys) /\ DistinctBut(got, B)
      /\ Items(w.got) \subseteq Items(got) /\ Items(got) \subseteq Items(w.got) \cup {x}
      /\ TheGrid!Cell(w.line, x) \in DOMAIN cells => x \in Items(got)
  <2>1. /\ w.got \o <<x>> = Append(w.got, x) /\ w.got \o <<x>> \in Seq(Keys)
        /\ Items(w.got \o <<x>>) = Items(w.got) \cup {x}
    BY <1>2, <1>3, AppendItems
  <2>2. DistinctBut(Append(w.got, x), B)
    BY <1>2, <1>3, <1>6, <1>7, AppendOnce
  <2>3. CASE TheGrid!Cell(w.line, x) \in DOMAIN cells
    BY <2>1, <2>2, <2>3
  <2>4. CASE TheGrid!Cell(w.line, x) \notin DOMAIN cells
    BY <2>4, <1>2, <1>6
  <2> QED BY <2>3, <2>4
<1>9. WalkTypes'
  <2>1. n + 1 \in Nat \ {0} /\ got \in Seq(Keys)
    BY <1>2, <1>8
  <2>2. walk' = [w EXCEPT !.next = n + 1, !.got = got]
    BY <1>1
  <2> QED BY <1>2, <2>1, <2>2 DEF WalkTypes
<1>10. ASSUME NEW k \in w.stayed PROVE Awaited(w.line, k)'
  <2> PICK y : y = TheGrid!Across(w.line, k)
    OBVIOUS
  <2>1. Awaited(w.line, k)
    BY <1>1 DEF WalkInv
  <2>2. /\ w.line \in TheGrid!Through(k) /\ y \in Items(w.list)
        /\ y \in Passed => y \in Items(w.got)
    BY <2>1 DEF Awaited
  <2>3. TheGrid!Cell(w.line, y) = k /\ k \in DOMAIN cells
    BY <1>2, <1>6, <2>2, Geometry
  <2>4. y \in Passed' => y \in Items(got)
    BY <1>5, <1>8, <2>2, <2>3
  <2> QED BY <1>4, <2>2, <2>4 DEF Awaited
<1>11. walk'.next <= Len(w.list) + 1
  BY <1>1, <1>2, <1>4
<1>12. Items(got) \subseteq Passed'
  BY <1>5, <1>6, <1>8
<1>13. DOMAIN cells' = DOMAIN cells
  BY <1>1
<1>14. WalkInv'
  BY <1>4, <1>5, <1>6, <1>8, <1>10, <1>11, <1>12, <1>13 DEF WalkInv
<1> QED BY <1>9, <1>14

(* Every step of the grid keeps its invariant.                             *)
LEMMA GridNext ==
  ASSUME GridInv, TheGrid!Next
  PROVE  GridInv'
<1> USE DEF GridInv
<1>1. ASSUME NEW k \in TheGrid!Coords, NEW v, TheGrid!Put(k, v) PROVE GridInv'
  <2>1. CellsInv' /\ DOMAIN cells' = DOMAIN cells \cup {k} /\ UNCHANGED walk
    BY <1>1, PutCells
  <2>2. Passed' = Passed /\ \A l, j : Awaited(l, j)' = Awaited(l, j)
    BY <2>1 DEF Passed, Awaited
  <2>3. WalkTypes' /\ WalkInv'
    BY <2>1, <2>2 DEF WalkTypes, WalkInv
  <2> QED BY <2>1, <2>3
<1>2. ASSUME NEW k \in TheGrid!Coords, TheGrid!Remove(k) PROVE GridInv'
  <2>1. CellsInv' /\ DOMAIN cells' = DOMAIN cells \ {k}
    BY <1>2, RemoveCells
  <2>2. walk' = [walk EXCEPT !.stayed = walk.stayed \ {k}]
    BY <1>2 DEF TheGrid!Remove, TheGrid!Ranged, WalkTypes
  <2>3. CASE walk.line # NoLine
    <3>1. walk.stayed \subseteq DOMAIN cells
      BY <2>3 DEF WalkInv
    <3>2. walk.stayed \ {k} \subseteq DOMAIN cells' /\ walk.stayed \ {k} \subseteq walk.stayed
      BY <2>1, <3>1
    <3> QED BY <2>1, <2>2, <3>2, WalkGoesOn
  <2>4. CASE walk.line = NoLine
    BY <2>1, <2>2, <2>4 DEF WalkTypes, WalkInv
  <2> QED BY <2>3, <2>4
<1>3. ASSUME NEW l \in TheGrid!Lines, TheGrid!StartWalk(l) PROVE GridInv'
  <2>1. WalkTypes' /\ WalkInv'
    BY <1>3, WalkStarts
  <2>2. UNCHANGED <<cells, listed, nilled>>
    BY <1>3 DEF TheGrid!StartWalk
  <2> QED BY <2>1, <2>2 DEF CellsInv, ListsInv, TheGrid!ListOf
<1>4. CASE TheGrid!Clear
  <2>1. /\ cells' = <<>> /\ listed' = <<>> /\ nilled' = {}
        /\ walk' = [walk EXCEPT !.stayed = {}]
    BY <1>4 DEF TheGrid!Clear
  <2>2. (cells = <<>> /\ listed = <<>> /\ nilled = {})' => CellsInv'
    BY EmptyGrid, PTL
  <2>3. WalkTypes' /\ WalkInv'
    BY <2>1, WalkGoesOn
  <2> QED BY <2>1, <2>2, <2>3
<1>5. CASE TheGrid!WalkNext
  <2>1. WalkTypes' /\ WalkInv'
    BY <1>5, WalkSteps
  <2>2. UNCHANGED <<cells, listed, nilled>>
    BY <1>5 DEF TheGrid!WalkNext
  <2> QED BY <2>1, <2>2 DEF CellsInv, ListsInv, TheGrid!ListOf
<1>6. CASE TheGrid!EndWalk
  <2>1. walk' = TheGrid!NoWalk /\ UNCHANGED <<cells, listed, nilled>>
    BY <1>6 DEF TheGrid!EndWalk
  <2>2. (walk = TheGrid!NoWalk)' => WalkTypes' /\ WalkInv'
    BY NoWalkGoesOn, PTL
  <2>3. TheGrid!NoWalk' = TheGrid!NoWalk
    BY DEF TheGrid!NoWalk
  <2> QED BY <2>1, <2>2, <2>3 DEF CellsInv, ListsInv, TheGrid!ListOf
<1> QED BY <1>1, <1>2, <1>3, <1>4, <1>5, <1>6 DEF TheGrid!Next

(* The invariant of the grid is one of the collections.                    *)
LEMMA GridInvariance == MCSpec => []GridInv
<1>1. MCInit => GridInv
  <2> SUFFICES ASSUME MCInit PROVE GridInv
    OBVIOUS
  <2>1. cells = <<>> /\ listed = <<>> /\ nilled = {} /\ walk = TheGrid!NoWalk
    BY DEF MCInit, TheGrid!Init
  <2> QED BY <2>1, EmptyGrid, NoWalkGoesOn DEF GridInv
<1>2. GridInv /\ [MCNext]_<<inUse, vars, gridVars, graphVars>> => GridInv'
  <2> SUFFICES ASSUME GridInv, [MCNext]_<<inUse, vars, gridVars, graphVars>> PROVE GridInv'
    OBVIOUS
  <2>1. TheGrid!Next \/ UNCHANGED gridVars
    BY DEF MCNext
  <2>2. CASE UNCHANGED gridVars
    BY <2>2 DEF gridVars, GridInv, CellsInv, ListsInv, TheGrid!ListOf, WalkTypes, WalkInv,
                Passed, Awaited
  <2> QED BY <2>1, <2>2, GridNext
<1> QED BY <1>1, <1>2, PTL DEF MCSpec

(* For any rows and columns: every row and every column lists the cells it *)
(* has, each once but for those that have held nil, and has an entry when  *)
(* it has a cell.                                                          *)
THEOREM GridIndexesAgreeForAll == MCSpec => []GridIndexesAgree
<1>1. GridInv => GridIndexesAgree
  <2> SUFFICES ASSUME CellsInv PROVE TheGrid!IndexesAgree
    BY DEF GridInv, GridIndexesAgree
  <2>1. \A l \in TheGrid!Lines :
          /\ Items(TheGrid!ListOf(l)) = Among(l, DOMAIN cells)
          /\ DistinctBut(TheGrid!ListOf(l), Among(l, nilled))
    BY DEF CellsInv, ListsInv
  <2>2. \A l : TheGrid!Held(l) = Among(l, DOMAIN cells)
    BY DEF TheGrid!Held, Among, Keys
  <2>3. \A s : TheGrid!Items(s) = Items(s)
    BY Zenon DEF TheGrid!Items, Items
  <2>4. \A l, s, S : DistinctBut(s, Among(l, S)) => TheGrid!OnceEach(l, s, S)
    BY DEF DistinctBut, Among, TheGrid!OnceEach
  <2>5. DOMAIN listed = {l \in TheGrid!Lines : Among(l, DOMAIN cells) # {}}
    BY DEF CellsInv
  <2> QED BY <2>1, <2>2, <2>3, <2>4, <2>5 DEF TheGrid!IndexesAgree
<1> QED BY <1>1, GridInvariance, PTL

(* For any rows and columns: a range over a line whose body changes the    *)
(* grid yields no cell twice, and at its end has yielded every cell that   *)
(* was there all the time.                                                 *)
THEOREM GridWalkIsFaithfulForAll == MCSpec => []GridWalkIsFaithful
<1>1. GridInv => GridWalkIsFaithful
  <2> SUFFICES ASSUME GridInv, walk.line # NoLine
               PROVE  /\ TheGrid!OnceEach(walk.line, walk.got, walk.but)
                      /\ walk.next > Len(walk.list) =>
                           \A k \in walk.stayed :
                             TheGrid!Across(walk.line, k) \in TheGrid!Items(walk.got)
    BY DEF GridWalkIsFaithful, TheGrid!WalkIsFaithful
  <2>1. TheGrid!OnceEach(walk.line, walk.got, walk.but)
    BY DEF GridInv, WalkInv, DistinctBut, Among, TheGrid!OnceEach
  <2>2. ASSUME walk.next > Len(walk.list), NEW k \in walk.stayed
        PROVE  TheGrid!Across(walk.line, k) \in Items(walk.got)
    <3>1. walk.next \in Nat /\ walk.list \in Seq(Keys) /\ walk.next <= Len(walk.list) + 1
      BY DEF GridInv, WalkTypes, WalkInv
    <3>2. walk.next - 1 = Len(walk.list) /\ DOMAIN walk.list = 1..Len(walk.list)
      BY <2>2, <3>1
    <3>3. Passed = Items(walk.list)
      BY <3>2 DEF Passed, Items
    <3> QED BY <2>2, <3>3 DEF GridInv, WalkInv, Awaited
  <2>3. \A s : TheGrid!Items(s) = Items(s)
    BY Zenon DEF TheGrid!Items, Items
  <2> QED BY <2>1, <2>2, <2>3
<1> QED BY <1>1, GridInvariance, PTL

-----------------------------------------------------------------------------
(* Graph. *)

Alike(s, S, R) == \A i \in 1..Len(s) : s[i] \in S <=> s[i] \in R

(* What is kept of a slice depends on the set's verdict on its items only, *)
(* and on one item more in the end.                                        *)
LEMMA KeptPrefix ==
  ASSUME NEW T, NEW s \in Seq(T), NEW x \in T, NEW S, NEW R, Alike(s, S, R)
  PROVE  \A n \in 0..Len(s) : Kept(Append(s, x), R)[n] = Kept(s, S)[n]
<1> PICK t : t = Append(s, x)
  OBVIOUS
<1> DEFINE Ill == {n \in 0..Len(s) : Kept(t, R)[n] # Kept(s, S)[n]}
<1>1. SUFFICES ASSUME Ill # {} PROVE FALSE
  OBVIOUS
<1>2. Ill \in SUBSET Nat
  OBVIOUS
<1>3. PICK n \in Ill : \A k \in Ill : n <= k
  <2> HIDE DEF Ill
  <2> QED BY <1>1, <1>2, Least
<1>4. n \in 0..Len(s) /\ Kept(t, R)[n] # Kept(s, S)[n] /\ Len(s) \in Nat /\ n \in Nat
  BY <1>3
<1>5. Len(t) \in Nat /\ n \in 0..Len(t) /\ \A i \in 1..Len(s) : t[i] = s[i]
  BY <1>4
<1>6. /\ Kept(s, S)[n] = KeptStep(s, S, Kept(s, S), n)
      /\ Kept(t, R)[n] = KeptStep(t, R, Kept(t, R), n)
  BY <1>4, <1>5, KeptEquation
<1>7. CASE n = 0
  BY <1>4, <1>6, <1>7 DEF KeptStep
<1>8. CASE n > 0
  <2>1. n - 1 \in 0..Len(s) /\ ~ (n <= n - 1) /\ n \in 1..Len(s)
    BY <1>4, <1>8
  <2>2. Kept(t, R)[n - 1] = Kept(s, S)[n - 1]
    BY <1>3, <2>1
  <2>3. t[n] = s[n] /\ (s[n] \in S <=> s[n] \in R)
    BY <1>5, <2>1 DEF Alike
  <2>4. KeptStep(s, S, Kept(s, S), n) = KeptStep(t, R, Kept(t, R), n)
    BY <1>8, <2>2, <2>3 DEF KeptStep
  <2> QED BY <1>4, <1>6, <2>4
<1> QED BY <1>4, <1>7, <1>8

(* Filter of a slice with one item more.                                   *)
LEMMA FilterOfAppend ==
  ASSUME NEW T, NEW s \in Seq(T), NEW x \in T, NEW S, NEW R, Alike(s, S, R)
  PROVE  /\ x \in R => Filtered(Append(s, x), R) = Append(Filtered(s, S), x)
         /\ x \notin R => Filtered(Append(s, x), R) = Filtered(s, S)
<1> PICK t : t = Append(s, x)
  OBVIOUS
<1> PICK n : n = Len(s) + 1
  OBVIOUS
<1>1. Len(t) = n /\ n \in 0..Len(t) /\ Len(t) \in Nat /\ t[n] = x /\ n # 0 /\ n - 1 = Len(s)
      /\ Len(s) \in 0..Len(s)
  OBVIOUS
<1>2. Kept(t, R)[n] = KeptStep(t, R, Kept(t, R), n)
  BY <1>1, KeptEquation
<1>3. Kept(t, R)[n - 1] = Kept(s, S)[n - 1]
  BY <1>1, KeptPrefix
<1>4. Filtered(t, R) = Filtered(s, S) \o (IF x \in R THEN <<x>> ELSE <<>>)
  BY <1>1, <1>2, <1>3 DEF KeptStep, Filtered
<1>5. Filtered(s, S) \in Seq(T)
  BY FilterKeeps
<1> QED BY <1>4, <1>5

(* Graph's filter is this one.                                             *)
LEMMA FilterOfGraph == \A s, S : TheGraph!Filtered(s, S) = Filtered(s, S)
BY Zenon DEF TheGraph!Filtered, TheGraph!Kept, Filtered, Kept

Ids == [e \in DOMAIN edges |-> e]
Leaving(v) == {e \in DOMAIN edges : edges[e].src = v /\ TheGraph!HadSrc(e)}
Entering(v) ==
  {e \in DOMAIN edges : edges[e].dst = v /\ TheGraph!HadSrc(e) /\ TheGraph!HadDst(e)}

GraphTypes ==
  /\ out \in Seq(Seq(Nat)) /\ in \in Seq(Seq(Nat)) /\ Len(in) = Len(out)
  /\ edges \in Seq([src : TheGraph!EndPoints, dst : TheGraph!EndPoints])
  /\ born \in Seq(Nat) /\ Len(born) = Len(edges)
  /\ \A e \in DOMAIN edges : born[e] <= Len(out)

(* Every node knows its edges, in their order.                             *)
GraphInv ==
  /\ GraphTypes
  /\ \A v \in DOMAIN out :
       /\ out[v] = Filtered(Ids, Leaving(v))
       /\ in[v] = IF bidirectional THEN Filtered(Ids, Entering(v)) ELSE <<>>

(* The ids of the edges are the positions in a slice.                      *)
LEMMA IdsAre ==
  ASSUME GraphTypes
  PROVE  Ids \in Seq(Nat) /\ Len(Ids) = Len(edges) /\ \A e \in 1..Len(edges) : Ids[e] = e
BY DEF GraphTypes, Ids

(* An edge that is added is the last in every order; it leaves its source  *)
(* and enters its destination if they exist.                               *)
LEMMA EdgeIsAdded ==
  ASSUME GraphTypes, NEW src \in TheGraph!EndPoints, NEW dst \in TheGraph!EndPoints,
         TheGraph!NewEdge(src, dst)
  PROVE  LET e == Len(edges) + 1
             hasSrc == src \in DOMAIN out
             hasDst == dst \in DOMAIN out IN
         /\ \A v : Filtered(Ids, Leaving(v))' =
                     IF v = src /\ hasSrc THEN Append(Filtered(Ids, Leaving(v)), e)
                     ELSE Filtered(Ids, Leaving(v))
         /\ \A v : Filtered(Ids, Entering(v))' =
                     IF v = dst /\ hasSrc /\ hasDst THEN Append(Filtered(Ids, Entering(v)), e)
                     ELSE Filtered(Ids, Entering(v))
         /\ edges' \in Seq([src : TheGraph!EndPoints, dst : TheGraph!EndPoints])
         /\ born' \in Seq(Nat) /\ Len(born') = Len(edges')
         /\ \A d \in DOMAIN edges' : born'[d] <= Len(out)
         /\ e \in Nat
<1> PICK e : e = Len(edges) + 1
  OBVIOUS
<1> PICK n : n = Len(out)
  OBVIOUS
<1>1. /\ edges' = Append(edges, [src |-> src, dst |-> dst])
      /\ born' = Append(born, n)
  BY DEF TheGraph!NewEdge
<1>2. /\ edges \in Seq([src : TheGraph!EndPoints, dst : TheGraph!EndPoints])
      /\ born \in Seq(Nat) /\ Len(born) = Len(edges) /\ n \in Nat /\ DOMAIN out = 1..n
      /\ DOMAIN edges = 1..Len(edges) /\ Len(edges) \in Nat
      /\ \A d \in DOMAIN edges : born[d] <= n
  BY DEF GraphTypes
<1>3. [src |-> src, dst |-> dst] \in [src : TheGraph!EndPoints, dst : TheGraph!EndPoints]
  OBVIOUS
<1>4. /\ edges' \in Seq([src : TheGraph!EndPoints, dst : TheGraph!EndPoints])
      /\ Len(edges') = Len(edges) + 1
  BY <1>1, <1>2, <1>3
<1>5. born' \in Seq(Nat) /\ Len(born') = Len(born) + 1
  BY <1>1, <1>2
<1>6. /\ DOMAIN edges' = DOMAIN edges \cup {e} /\ e \notin DOMAIN edges /\ e \in Nat
      /\ edges'[e].src = src /\ edges'[e].dst = dst /\ born'[e] = n
      /\ \A d \in DOMAIN edges : edges'[d] = edges[d] /\ born'[d] = born[d]
  <2>1. DOMAIN edges' = 1..(Len(edges) + 1)
    BY <1>4
  <2>2. edges'[e] = [src |-> src, dst |-> dst] /\ born'[e] = n
    BY <1>1, <1>2
  <2>3. \A d \in DOMAIN edges : edges'[d] = edges[d] /\ born'[d] = born[d]
    BY <1>1, <1>2
  <2> QED BY <1>2, <2>1, <2>2, <2>3
<1>7. \A d \in DOMAIN edges' : born'[d] <= n
  BY <1>2, <1>6
<1>8. \A v : /\ Leaving(v)' = Leaving(v) \cup (IF v = src /\ src \in 1..n THEN {e} ELSE {})
             /\ Entering(v)' = Entering(v) \cup
                  (IF v = dst /\ src \in 1..n /\ dst \in 1..n THEN {e} ELSE {})
  BY <1>6 DEF Leaving, Entering, TheGraph!HadSrc, TheGraph!HadDst
<1>9. Ids' = Append(Ids, e)
  <2>1. Ids \in Seq(Nat) /\ Len(Ids) = Len(edges) /\ \A d \in 1..Len(edges) : Ids[d] = d
    BY IdsAre
  <2>2. Ids' = [d \in 1..(Len(edges) + 1) |-> d]
    BY <1>2, <1>6 DEF Ids
  <2> QED BY <1>2, <2>1, <2>2
<1>10. Ids \in Seq(Nat) /\ \A i \in 1..Len(Ids) : Ids[i] # e /\ Ids[i] = i
  BY <1>2, <1>6, IdsAre
<1>11. ASSUME NEW v, NEW S, S = Leaving(v)
       PROVE  Filtered(Ids, Leaving(v))' =
                IF v = src /\ src \in 1..n THEN Append(Filtered(Ids, S), e) ELSE Filtered(Ids, S)
  <2> PICK R : R = Leaving(v)'
    OBVIOUS
  <2>1. R = S \cup (IF v = src /\ src \in 1..n THEN {e} ELSE {})
    BY <1>8, <1>11
  <2>2. e \notin S
    BY <1>6, <1>11 DEF Leaving
  <2>3. e \in R <=> v = src /\ src \in 1..n
    BY <2>1, <2>2
  <2>4. \A i \in 1..Len(Ids) : Ids[i] \in S <=> Ids[i] \in R
    BY <1>10, <2>1
  <2>5. Filtered(Append(Ids, e), R) = IF e \in R THEN Append(Filtered(Ids, S), e) ELSE Filtered(Ids, S)
    <3> PICK ids : ids = Ids
      OBVIOUS
    <3> PICK N : N = Nat
      OBVIOUS
    <3>1. ids \in Seq(N) /\ e \in N /\ Alike(ids, S, R)
      BY <1>6, <1>10, <2>4 DEF Alike
    <3>2. /\ e \in R => Filtered(Append(ids, e), R) = Append(Filtered(ids, S), e)
          /\ e \notin R => Filtered(Append(ids, e), R) = Filtered(ids, S)
      BY <3>1, FilterOfAppend
    <3> QED BY <3>2
  <2> QED BY <1>9, <2>3, <2>5
<1>12. ASSUME NEW v, NEW S, S = Entering(v)
       PROVE  Filtered(Ids, Entering(v))' =
                IF v = dst /\ src \in 1..n /\ dst \in 1..n THEN Append(Filtered(Ids, S), e)
                ELSE Filtered(Ids, S)
  <2> PICK R : R = Entering(v)'
    OBVIOUS
  <2>1. R = S \cup (IF v = dst /\ src \in 1..n /\ dst \in 1..n THEN {e} ELSE {})
    BY <1>8, <1>12
  <2>2. e \notin S
    BY <1>6, <1>12 DEF Entering
  <2>3. e \in R <=> v = dst /\ src \in 1..n /\ dst \in 1..n
    BY <2>1, <2>2
  <2>4. \A i \in 1..Len(Ids) : Ids[i] \in S <=> Ids[i] \in R
    BY <1>10, <2>1
  <2>5. Filtered(Append(Ids, e), R) = IF e \in R THEN Append(Filtered(Ids, S), e) ELSE Filtered(Ids, S)
    <3> PICK ids : ids = Ids
      OBVIOUS
    <3> PICK N : N = Nat
      OBVIOUS
    <3>1. ids \in Seq(N) /\ e \in N /\ Alike(ids, S, R)
      BY <1>6, <1>10, <2>4 DEF Alike
    <3>2. /\ e \in R => Filtered(Append(ids, e), R) = Append(Filtered(ids, S), e)
          /\ e \notin R => Filtered(Append(ids, e), R) = Filtered(ids, S)
      BY <3>1, FilterOfAppend
    <3> QED BY <3>2
  <2> QED BY <1>9, <2>3, <2>5
<1> QED BY <1>2, <1>4, <1>5, <1>6, <1>7, <1>11, <1>12

Known(v) ==
  /\ out[v] = Filtered(Ids, Leaving(v))
  /\ in[v] = IF bidirectional THEN Filtered(Ids, Entering(v)) ELSE <<>>

(* What a filter of the ids keeps are ids.                                 *)
LEMMA ListsAreIds ==
  ASSUME GraphTypes
  PROVE  \A S : Filtered(Ids, S) \in Seq(Nat)
<1> PICK ids : ids = Ids
  OBVIOUS
<1> PICK N : N = Nat
  OBVIOUS
<1>1. ids \in Seq(N)
  BY IdsAre
<1> QED BY <1>1, FilterKeeps

(* AddEdge, and AddEdge that panics at its destination or its source.      *)
LEMMA AddEdgeInv ==
  ASSUME GraphInv, bidirectional \in BOOLEAN,
         NEW src \in TheGraph!EndPoints, NEW dst \in TheGraph!EndPoints,
         \/ TheGraph!AddEdge(src, dst) \/ TheGraph!PanicAtSrc(src, dst)
         \/ TheGraph!PanicAtDst(src, dst)
  PROVE  GraphInv'
<1> PICK e : e = Len(edges) + 1
  OBVIOUS
<1>1. /\ TheGraph!NewEdge(src, dst) /\ bidirectional' = bidirectional
      /\ out' = IF src \in DOMAIN out THEN [out EXCEPT ![src] = Append(@, e)] ELSE out
      /\ \/ bidirectional /\ src \in DOMAIN out /\ dst \in DOMAIN out
            /\ in' = [in EXCEPT ![dst] = Append(@, e)]
         \/ ~ (bidirectional /\ src \in DOMAIN out /\ dst \in DOMAIN out) /\ in' = in
  BY DEF TheGraph!AddEdge, TheGraph!PanicAtSrc, TheGraph!PanicAtDst, TheGraph!NewEdge,
         TheGraph!Link, TheGraph!NextEdge, TheGraph!Nodes
<1>2. GraphTypes
  BY DEF GraphInv
<1>3. /\ \A v : Filtered(Ids, Leaving(v))' =
                  IF v = src /\ src \in DOMAIN out THEN Append(Filtered(Ids, Leaving(v)), e)
                  ELSE Filtered(Ids, Leaving(v))
      /\ \A v : Filtered(Ids, Entering(v))' =
                  IF v = dst /\ src \in DOMAIN out /\ dst \in DOMAIN out
                  THEN Append(Filtered(Ids, Entering(v)), e)
                  ELSE Filtered(Ids, Entering(v))
  BY <1>1, <1>2, EdgeIsAdded
<1>4. /\ edges' \in Seq([src : TheGraph!EndPoints, dst : TheGraph!EndPoints])
      /\ born' \in Seq(Nat) /\ Len(born') = Len(edges')
      /\ \A d \in DOMAIN edges' : born'[d] <= Len(out)
      /\ e \in Nat
  BY <1>1, <1>2, EdgeIsAdded
<1>5. /\ out \in Seq(Seq(Nat)) /\ in \in Seq(Seq(Nat)) /\ Len(in) = Len(out)
      /\ DOMAIN out = 1..Len(out) /\ DOMAIN in = 1..Len(in)
  BY <1>2 DEF GraphTypes
<1>6. /\ DOMAIN out' = DOMAIN out /\ out' \in Seq(Seq(Nat)) /\ Len(out') = Len(out)
      /\ \A v \in DOMAIN out :
           out'[v] = IF v = src THEN Append(out[v], e) ELSE out[v]
  <2>1. \A v \in DOMAIN out : Append(out[v], e) \in Seq(Nat)
    BY <1>4, <1>5
  <2>2. CASE src \in DOMAIN out
    BY <1>1, <1>5, <2>1, <2>2
  <2>3. CASE src \notin DOMAIN out
    BY <1>1, <1>5, <2>3
  <2> QED BY <2>2, <2>3
<1>7. /\ DOMAIN in' = DOMAIN in /\ in' \in Seq(Seq(Nat)) /\ Len(in') = Len(in)
      /\ \A v \in DOMAIN out :
           in'[v] = IF bidirectional /\ src \in DOMAIN out /\ v = dst
                    THEN Append(in[v], e) ELSE in[v]
  <2>1. \A v \in DOMAIN in : Append(in[v], e) \in Seq(Nat)
    BY <1>4, <1>5
  <2>2. CASE bidirectional /\ src \in DOMAIN out /\ dst \in DOMAIN out
    <3>1. in' = [in EXCEPT ![dst] = Append(in[dst], e)] /\ dst \in DOMAIN in
      BY <1>1, <1>5, <2>2
    <3>2. DOMAIN in' = DOMAIN in /\ in' \in Seq(Seq(Nat)) /\ Len(in') = Len(in)
      BY <1>5, <2>1, <3>1
    <3>3. \A v \in DOMAIN in : in'[v] = IF v = dst THEN Append(in[v], e) ELSE in[v]
      BY <3>1
    <3> QED BY <1>5, <2>2, <3>2, <3>3
  <2>3. CASE ~ (bidirectional /\ src \in DOMAIN out /\ dst \in DOMAIN out)
    BY <1>1, <1>5, <2>3
  <2> QED BY <2>2, <2>3
<1>8. GraphTypes'
  BY <1>4, <1>5, <1>6, <1>7 DEF GraphTypes
<1>9. ASSUME NEW v \in DOMAIN out PROVE Known(v)'
  <2>1. out[v] = Filtered(Ids, Leaving(v))
        /\ in[v] = IF bidirectional THEN Filtered(Ids, Entering(v)) ELSE <<>>
    BY DEF GraphInv
  <2>2. out'[v] = Filtered(Ids, Leaving(v))'
    BY <1>3, <1>6, <2>1
  <2>3. in'[v] = IF bidirectional THEN Filtered(Ids, Entering(v))' ELSE <<>>
    BY <1>3, <1>7, <2>1
  <2> QED BY <1>1, <2>2, <2>3 DEF Known
<1> QED BY <1>6, <1>8, <1>9 DEF GraphInv, Known

(* A filter that keeps no id of the edges keeps nothing.                   *)
LEMMA NothingFound ==
  ASSUME GraphTypes, NEW v, v \notin DOMAIN out
  PROVE  Filtered(Ids, Leaving(v)) = <<>> /\ Filtered(Ids, Entering(v)) = <<>>
<1> PICK ids : ids = Ids
  OBVIOUS
<1> PICK N : N = Nat
  OBVIOUS
<1>1. ids \in Seq(N)
  BY IdsAre
<1>2. Leaving(v) = {} /\ Entering(v) = {}
  <2>1. \A e \in DOMAIN edges : 1..born[e] \subseteq DOMAIN out
    <3>1. DOMAIN out = 1..Len(out) /\ Len(out) \in Nat /\ DOMAIN edges = DOMAIN born
      BY DEF GraphTypes
    <3>2. \A e \in DOMAIN edges : born[e] \in Nat /\ born[e] <= Len(out)
      BY <3>1 DEF GraphTypes
    <3> QED BY <3>1, <3>2
  <2> QED BY <2>1 DEF Leaving, Entering, TheGraph!HadSrc, TheGraph!HadDst
<1>3. Filtered(ids, {}) \in Seq(N) /\ Items(Filtered(ids, {})) = {}
  BY <1>1, FilterKeeps
<1> QED BY <1>2, <1>3, EmptyItems

(* AddNode. *)
LEMMA AddNodeInv ==
  ASSUME GraphInv, TheGraph!AddNode
  PROVE  GraphInv'
<1> PICK n : n = Len(out) + 1
  OBVIOUS
<1>1. /\ out' = Append(out, <<>>) /\ in' = Append(in, <<>>)
      /\ UNCHANGED <<bidirectional, edges, born>>
  BY DEF TheGraph!AddNode
<1>2. GraphTypes
  BY DEF GraphInv
<1>3. /\ out \in Seq(Seq(Nat)) /\ in \in Seq(Seq(Nat)) /\ Len(in) = Len(out) /\ <<>> \in Seq(Nat)
      /\ DOMAIN out = 1..Len(out) /\ n \notin DOMAIN out
  BY <1>2 DEF GraphTypes
<1>4. /\ out' \in Seq(Seq(Nat)) /\ in' \in Seq(Seq(Nat))
      /\ Len(out') = n /\ Len(in') = n /\ DOMAIN out' = DOMAIN out \cup {n}
      /\ out'[n] = <<>> /\ in'[n] = <<>>
      /\ \A v \in DOMAIN out : out'[v] = out[v] /\ in'[v] = in[v]
  <2>1. DOMAIN out' = 1..n /\ Len(out) \in Nat
    BY <1>1, <1>3
  <2>2. DOMAIN out' = DOMAIN out \cup {n}
    BY <1>3, <2>1
  <2> QED BY <1>1, <1>3, <2>2
<1>5. \A v : /\ Filtered(Ids, Leaving(v))' = Filtered(Ids, Leaving(v))
             /\ Filtered(Ids, Entering(v))' = Filtered(Ids, Entering(v))
  BY <1>1 DEF Ids, Leaving, Entering, TheGraph!HadSrc, TheGraph!HadDst
<1>6. GraphTypes'
  <2>1. \A e \in DOMAIN edges : born[e] \in Nat /\ born[e] <= Len(out)
    BY <1>2 DEF GraphTypes
  <2>2. Len(out) \in Nat
    BY <1>3
  <2> QED BY <1>1, <1>2, <1>4, <2>1, <2>2 DEF GraphTypes
<1>7. ASSUME NEW v \in DOMAIN out' PROVE Known(v)'
  <2>1. CASE v \in DOMAIN out
    BY <1>1, <1>4, <1>5, <2>1 DEF GraphInv, Known
  <2>2. CASE v = n
    <3>1. Filtered(Ids, Leaving(v)) = <<>> /\ Filtered(Ids, Entering(v)) = <<>>
      BY <1>2, <1>3, <2>2, NothingFound
    <3> QED BY <1>1, <1>4, <1>5, <2>2, <3>1 DEF Known
  <2> QED BY <1>4, <2>1, <2>2
<1> QED BY <1>6, <1>7 DEF GraphInv, Known

(* A graph without nodes and edges.                                        *)
LEMMA EmptyGraph == out = <<>> /\ in = <<>> /\ edges = <<>> /\ born = <<>> => GraphInv
<1> SUFFICES ASSUME out = <<>>, in = <<>>, edges = <<>>, born = <<>> PROVE GraphInv
  OBVIOUS
<1>1. DOMAIN out = {} /\ DOMAIN edges = {}
  OBVIOUS
<1>2. GraphTypes
  BY <1>1 DEF GraphTypes
<1> QED BY <1>1, <1>2 DEF GraphInv

(* For graphs of any size: the edges of a node are those added with it as  *)
(* an endpoint, in the order they were added, and those of an id that is   *)
(* not a node, or was none when the edge was added, are none.              *)
THEOREM GraphEdgesIndexedForAll == MCSpec => []GraphEdgesIndexed
<1> DEFINE Inv == GraphInv /\ bidirectional \in BOOLEAN
<1>1. MCInit => Inv
  <2> SUFFICES ASSUME MCInit PROVE Inv
    OBVIOUS
  <2>1. /\ bidirectional \in BOOLEAN
        /\ out = <<>> /\ in = <<>> /\ edges = <<>> /\ born = <<>>
    BY DEF MCInit, TheGraph!Init
  <2> QED BY <2>1, EmptyGraph
<1>2. Inv /\ [MCNext]_<<inUse, vars, gridVars, graphVars>> => Inv'
  <2> SUFFICES ASSUME Inv, [MCNext]_<<inUse, vars, gridVars, graphVars>> PROVE Inv'
    OBVIOUS
  <2>1. ASSUME NEW src \in TheGraph!EndPoints, NEW dst \in TheGraph!EndPoints,
               \/ TheGraph!AddEdge(src, dst) \/ TheGraph!PanicAtSrc(src, dst)
               \/ TheGraph!PanicAtDst(src, dst)
        PROVE  Inv'
    <3>1. GraphInv'
      BY <2>1, AddEdgeInv
    <3>2. bidirectional' = bidirectional
      BY <2>1 DEF TheGraph!AddEdge, TheGraph!PanicAtSrc, TheGraph!PanicAtDst, TheGraph!NewEdge
    <3> QED BY <3>1, <3>2
  <2>2. CASE TheGraph!AddNode
    BY <2>2, AddNodeInv DEF TheGraph!AddNode
  <2>3. CASE TheGraph!NewList
    <3>1. (out = <<>> /\ in = <<>> /\ edges = <<>> /\ born = <<>>)' => GraphInv'
      BY EmptyGraph, PTL
    <3> QED BY <2>3, <3>1 DEF TheGraph!NewList
  <2>4. CASE UNCHANGED graphVars
    <3>1. UNCHANGED <<bidirectional, out, in, edges, born>>
      BY <2>4 DEF graphVars
    <3>2. GraphTypes'
      BY <3>1 DEF GraphInv, GraphTypes
    <3>3. \A v : Leaving(v)' = Leaving(v) /\ Entering(v)' = Entering(v)
      BY <3>1 DEF Leaving, Entering, TheGraph!HadSrc, TheGraph!HadDst
    <3>4. Ids' = Ids
      BY <3>1 DEF Ids
    <3> QED BY <3>1, <3>2, <3>3, <3>4 DEF GraphInv
  <2>5. TheGraph!Next \/ UNCHANGED graphVars
    BY DEF MCNext
  <2> QED BY <2>1, <2>2, <2>3, <2>4, <2>5 DEF TheGraph!Next
<1>3. Inv => GraphEdgesIndexed
  <2> SUFFICES ASSUME GraphInv, NEW v
               PROVE  /\ TheGraph!OutEdges(v) = Filtered(Ids, Leaving(v))
                      /\ TheGraph!InEdges(v) =
                           IF bidirectional THEN Filtered(Ids, Entering(v)) ELSE <<>>
    BY FilterOfGraph DEF GraphEdgesIndexed, TheGraph!EdgesIndexed, TheGraph!EdgesIn,
                         Ids, Leaving, Entering
  <2>1. CASE v \in DOMAIN out
    BY <2>1 DEF GraphInv, TheGraph!OutEdges, TheGraph!InEdges, TheGraph!Nodes
  <2>2. CASE v \notin DOMAIN out
    BY <2>2, NothingFound DEF GraphInv, TheGraph!OutEdges, TheGraph!InEdges, TheGraph!Nodes
  <2> QED BY <2>1, <2>2
<1> HIDE DEF Inv
<1> QED BY <1>1, <1>2, <1>3, PTL DEF MCSpec
=============================================================================
