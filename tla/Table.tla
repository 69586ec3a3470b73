--------------------------------- MODULE Table ---------------------------------
(***************************************************************************)
(* ds.Table: records held by pointer in a main unique index, a secondary   *)
(* unique index and a secondary non-unique index, each a map from the key  *)
(* a record had when it was inserted.  Update takes the record out of all  *)
(* indexes, lets the caller's function mutate it, and puts it back, mutated *)
(* or restored; the function may panic in between.                         *)
(*                                                                         *)
(* Like the code, the model is of one goroutine.  Records in the table are *)
(* mutated by Update only, and Update's function does not call the table.  *)
(***************************************************************************)
EXTENDS Slices, FiniteSets

CONSTANTS
  Records,        \* pointers
  PKs, UKs,       \* the keys of the two unique indexes
  Groups,         \* the keys of the non-unique index
  NoRecord

ASSUME TableAssumption == NoRecord \notin Records

Fields == [pk : PKs, uk : UKs, group : Groups]

VARIABLES
  val,            \* what each record holds
  main, uniq,     \* the maps of the two uniqueStorages
  group,          \* the map of the nonUniqueStorage
  total,          \* its number of records
  updating, old   \* the record Update has taken out, and oldVal (or NoRecord)

indexes == <<main, uniq, group, total>>
vars == <<val, indexes, updating, old>>

Partial(K, S) == UNION {[D -> S] : D \in SUBSET K}
Buckets == UNION {[1..k -> Records] : k \in 1..Cardinality(Records)}

TypeOK ==
  /\ val \in [Records -> Fields]
  /\ main \in Partial(PKs, Records)
  /\ uniq \in Partial(UKs, Records)
  /\ group \in Partial(Groups, Buckets)
  /\ total \in 0..Cardinality(Records)
  /\ updating \in Records \cup {NoRecord}
  /\ old \in Fields \cup {NoRecord}

Init ==
  /\ val \in [Records -> Fields]
  /\ main = <<>> /\ uniq = <<>> /\ group = <<>>
  /\ total = 0
  /\ updating = NoRecord
  /\ old = NoRecord

-----------------------------------------------------------------------------
(* Maps and the operations of one index, on record v holding f. *)

Put(m, k, x) == [j \in DOMAIN m \cup {k} |-> IF j = k THEN x ELSE m[j]]
Drop(m, k) == [j \in DOMAIN m \ {k} |-> m[j]]

(* uniqueStorage: delete leaves the key to another record that took it.    *)
InsertUnique(m, k, v) == Put(m, k, v)
DeleteUnique(m, k, v) == IF k \in DOMAIN m /\ m[k] = v THEN Drop(m, k) ELSE m

(* nonUniqueStorage: a bucket left empty is removed. *)
Bucket(k) == IF k \in DOMAIN group THEN group[k] ELSE <<>>
Others(k, v) == Filtered(Bucket(k), Records \ {v})

InsertGroup(k, v) == Put(group, k, Append(Bucket(k), v))
DeleteGroup(k, v) == IF Others(k, v) = <<>> THEN Drop(group, k) ELSE Put(group, k, Others(k, v))
Removed(k, v) == Len(Bucket(k)) - Len(Others(k, v))

-----------------------------------------------------------------------------
(* The table. *)

Contains(v) == val[v].pk \in DOMAIN main /\ main[val[v].pk] = v

CanInsertMain(f) == f.pk \notin DOMAIN main
CanInsertAll(f) == f.pk \notin DOMAIN main /\ f.uk \notin DOMAIN uniq

InsertAllButGroup(v, f) ==
  /\ main' = InsertUnique(main, f.pk, v)
  /\ uniq' = InsertUnique(uniq, f.uk, v)
  /\ UNCHANGED <<group, total>>

InsertAll(v, f) ==
  /\ main' = InsertUnique(main, f.pk, v)
  /\ uniq' = InsertUnique(uniq, f.uk, v)
  /\ group' = InsertGroup(f.group, v)
  /\ total' = total + 1

DeleteAll(v, f) ==
  /\ main' = DeleteUnique(main, f.pk, v)
  /\ uniq' = DeleteUnique(uniq, f.uk, v)
  /\ group' = DeleteGroup(f.group, v)
  /\ total' = total - Removed(f.group, v)

Idle == updating = NoRecord

(* The caller fills in a record that is not in the table. *)
Build(v) ==
  /\ Idle /\ ~ Contains(v)
  /\ \E f \in Fields : val' = [val EXCEPT ![v] = f]
  /\ UNCHANGED <<indexes, updating, old>>

Insert(v) ==
  /\ Idle
  /\ CanInsertAll(val[v])
  /\ InsertAll(v, val[v])
  /\ UNCHANGED <<val, updating, old>>

Delete(v) ==
  /\ Idle
  /\ Contains(v)
  /\ DeleteAll(v, val[v])
  /\ UNCHANGED <<val, updating, old>>

Clear ==
  /\ Idle
  /\ main' = <<>> /\ uniq' = <<>> /\ group' = <<>> /\ total' = 0
  /\ UNCHANGED <<val, updating, old>>

UpdateBegins(v) ==
  /\ Idle /\ Contains(v)
  /\ DeleteAll(v, val[v])
  /\ updating' = v
  /\ old' = val[v]
  /\ UNCHANGED val

(* mutate(v) *)
Mutate(f) == val' = [val EXCEPT ![updating] = f]

UpdateAccepted(f) ==
  /\ ~ Idle
  /\ CanInsertAll(f)
  /\ Mutate(f) /\ InsertAll(updating, f)
  /\ updating' = NoRecord /\ old' = NoRecord

(* *v = oldVal *)
UpdateRefused(f) ==
  /\ ~ Idle
  /\ ~ CanInsertAll(f)
  /\ Mutate(old) /\ InsertAll(updating, old)
  /\ updating' = NoRecord /\ old' = NoRecord

(* mutate panics, half done, and the panic leaves Update. *)
UpdatePanics(f) ==
  /\ ~ Idle
  /\ Mutate(f)
  /\ updating' = NoRecord /\ old' = NoRecord
  /\ UNCHANGED indexes

Next ==
  \/ \E v \in Records : Build(v) \/ Insert(v) \/ Delete(v) \/ UpdateBegins(v)
  \/ \E f \in Fields : UpdateAccepted(f) \/ UpdateRefused(f) \/ UpdatePanics(f)
  \/ Clear

Spec == Init /\ [][Next]_vars

-----------------------------------------------------------------------------
(* Lookups: the views of the indexes, and the table's own. *)

FindIn(m, k) == IF k \in DOMAIN m THEN {m[k]} ELSE {}
FindPK(k) == FindIn(main, k)
FindUK(k) == FindIn(uniq, k)
FindGroup(k) == Bucket(k)
Count(k) == Len(FindGroup(k))
All == {main[k] : k \in DOMAIN main}
Size == Cardinality(DOMAIN main)

-----------------------------------------------------------------------------
(* Properties. *)

(* Between any two calls, and while Update's function runs, every lookup   *)
(* finds the records of the table, each once and under the key it holds    *)
(* now: what one index finds no other misses, and none finds a record that *)
(* is gone.                                                                *)
IndexesAgree ==
  /\ \A k \in PKs : FindPK(k) = {v \in All : val[v].pk = k}
  /\ \A k \in UKs : FindUK(k) = {v \in All : val[v].uk = k}
  /\ \A k \in Groups :
       LET members == {v \in All : val[v].group = k} IN
       /\ Items(FindGroup(k)) = members
       /\ Count(k) = Cardinality(members)
  /\ Size = Cardinality(All) /\ total = Size

(* The rows of the table; a record being updated still counts as it was.   *)
TableRows ==
  [v \in All \cup ({updating} \ {NoRecord}) |-> IF v = updating THEN old ELSE val[v]]

Relation == INSTANCE Rows WITH rows <- TableRows

(* Every call changes the set of rows as a whole or not at all, and no two  *)
(* rows ever share a unique key: an update that is refused leaves every row *)
(* as it was, one whose function panics loses its own row and no other.    *)
ImplementsRows == Relation!Spec
=============================================================================
