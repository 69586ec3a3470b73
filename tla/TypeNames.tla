------------------------------- MODULE TypeNames -------------------------------
(***************************************************************************)
(* The names of types, and what is promised of them: the state of          *)
(* Registry.tla and its property, apart from its actions, for the modules  *)
(* that put it next to others.                                             *)
(***************************************************************************)
CONSTANTS Registrars, Types, Names, NoName

VARIABLES
  nameToType, typeToName,
  at,             \* where each goroutine is in Register, for which type and name
  boxed,          \* the Anys that Dyn has made, as type and name
  decoded         \* those that UnmarshalJSON has made

-----------------------------------------------------------------------------
(* Properties. *)

Decodes(n, t) == n \in DOMAIN nameToType /\ nameToType[n] = t

(* What Dyn has boxed, and so MarshalJSON written, is decoded to the type  *)
(* it had, at once and ever after: a type is found under a name only when  *)
(* the name already stands for the type, and no later Register, though it  *)
(* fails half way, takes it away.  The same holds of what UnmarshalJSON    *)
(* made, unless it read a name that a failing Register was about to take   *)
(* back: then the type has another name.  A Register that fails leaves no  *)
(* name behind.                                                            *)
NamesRoundTrip ==
  /\ \A t \in DOMAIN typeToName : Decodes(typeToName[t], t)
  /\ \A b \in boxed : Decodes(b[2], b[1])
  /\ \A n \in DOMAIN nameToType :
       \/ nameToType[n] \in DOMAIN typeToName /\ typeToName[nameToType[n]] = n
       \/ \E g \in Registrars : at[g].name = n /\ at[g].type = nameToType[n]
  /\ \A b \in decoded :
       \/ Decodes(b[2], b[1])
       \/ b[1] \in DOMAIN typeToName /\ typeToName[b[1]] # b[2]
=============================================================================
