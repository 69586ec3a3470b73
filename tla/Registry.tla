-------------------------------- MODULE Registry -------------------------------
(***************************************************************************)
(* The type registry of adt/dynamic.go: two sync.Maps, from names to types *)
(* and back, which Register fills one after the other, while Dyn reads one *)
(* and UnmarshalJSON the other.  A Register that finds its type taken      *)
(* removes the name again, and panics.                                     *)
(***************************************************************************)
EXTENDS TypeNames

vars == <<nameToType, typeToName, at, boxed, decoded>>

Out == [step |-> "out", type |-> NoName, name |-> NoName]

Init ==
  /\ nameToType = <<>> /\ typeToName = <<>>
  /\ at = [g \in Registrars |-> Out]
  /\ boxed = {} /\ decoded = {}

Put(m, k, x) == [j \in DOMAIN m \cup {k} |-> IF j = k THEN x ELSE m[j]]
Drop(m, k) == [j \in DOMAIN m \ {k} |-> m[j]]

StoreName(g, t, n) ==
  /\ at[g] = Out
  /\ n \notin DOMAIN nameToType
  /\ nameToType' = Put(nameToType, n, t)
  /\ at' = [at EXCEPT ![g] = [step |-> "type", type |-> t, name |-> n]]
  /\ UNCHANGED <<typeToName, boxed, decoded>>

(* The name is taken: Register panics.  A program that goes on tries again. *)
NameTaken(g, t, n) ==
  /\ at[g] = Out
  /\ n \in DOMAIN nameToType
  /\ UNCHANGED vars

StoreType(g) ==
  /\ at[g].step = "type"
  /\ at[g].type \notin DOMAIN typeToName
  /\ typeToName' = Put(typeToName, at[g].type, at[g].name)
  /\ at' = [at EXCEPT ![g] = Out]
  /\ UNCHANGED <<nameToType, boxed, decoded>>

TypeTaken(g) ==
  /\ at[g].step = "type"
  /\ at[g].type \in DOMAIN typeToName
  /\ at' = [at EXCEPT ![g].step = "rollback"]
  /\ UNCHANGED <<nameToType, typeToName, boxed, decoded>>

Keep(m, n) == m
Forget(m, n) == Drop(m, n)

Rollback(g) ==
  /\ at[g].step = "rollback"
  /\ nameToType' = Forget(nameToType, at[g].name)
  /\ at' = [at EXCEPT ![g] = Out]
  /\ UNCHANGED <<typeToName, boxed, decoded>>

(* Dyn of a value of type t, and UnmarshalJSON of a document of type n.    *)
Dyn(t) ==
  /\ t \in DOMAIN typeToName
  /\ boxed' = boxed \cup {<<t, typeToName[t]>>}
  /\ UNCHANGED <<nameToType, typeToName, at, decoded>>

UnmarshalJSON(n) ==
  /\ n \in DOMAIN nameToType
  /\ decoded' = decoded \cup {<<nameToType[n], n>>}
  /\ UNCHANGED <<nameToType, typeToName, at, boxed>>

Next ==
  \/ \E g \in Registrars :
       \/ StoreType(g) \/ TypeTaken(g) \/ Rollback(g)
       \/ \E t \in Types, n \in Names : StoreName(g, t, n) \/ NameTaken(g, t, n)
  \/ \E t \in Types : Dyn(t)
  \/ \E n \in Names : UnmarshalJSON(n)

Spec == Init /\ [][Next]_vars
==============================================================================
