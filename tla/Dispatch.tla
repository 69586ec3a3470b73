-------------------------------- MODULE Dispatch -------------------------------
(***************************************************************************)
(* The handlers of a GoroutineContext: packaging a task appends the task's *)
(* OnCall handlers to those of the engine, and a goroutine for each Call   *)
(* offers the call to them in order.  An engine supplied to several tasks  *)
(* has the handlers of all of them.                                        *)
(*                                                                         *)
(* Nothing synchronises the list: SetHandlers reads it and writes it back, *)
(* while a call, or another SetHandlers, may read it.  A call that reads   *)
(* in between sees the list of before or of after, or a torn slice and     *)
(* panics.  "raced" notes that two of them have overlapped.                *)
(***************************************************************************)
EXTENDS Naturals, Sequences, FiniteSets

CONSTANTS
  Tasks,
  OnCall(_),      \* a task's handlers: the operation, the type they take, and whose they are
  Requests,       \* calls: the task, the operation and the type of the payload
  Nobody

VARIABLES
  handlers,       \* of the engine
  packaging,      \* the tasks whose SetHandlers is under way, and what it has read
  packaged,       \* the tasks that may run
  answer,         \* who has answered each call, or why nobody
  raced

vars == <<handlers, packaging, packaged, answer, raced>>

Init ==
  /\ handlers = <<>>
  /\ packaging = <<>>
  /\ packaged = {}
  /\ answer = [c \in Requests |-> Nobody]
  /\ raced = FALSE

Prepended(list, new) == new \o list
Appended(list, new) == list \o new

(* append reads the slice ... *)
SetHandlersReads(t) ==
  /\ t \notin packaged /\ t \notin DOMAIN packaging /\ OnCall(t) # <<>>
  /\ packaging' = [u \in DOMAIN packaging \cup {t} |-> IF u = t THEN handlers ELSE packaging[u]]
  /\ raced' = (raced \/ packaging # <<>>)
  /\ UNCHANGED <<handlers, packaged, answer>>

(* ... and its result is written back. *)
SetHandlersWrites(t) ==
  /\ t \in DOMAIN packaging
  /\ handlers' = Appended(packaging[t], OnCall(t))
  /\ packaging' = [u \in DOMAIN packaging \ {t} |-> packaging[u]]
  /\ packaged' = packaged \cup {t}
  /\ UNCHANGED <<answer, raced>>

PackageWithout(t) ==
  /\ t \notin packaged /\ OnCall(t) = <<>>
  /\ packaged' = packaged \cup {t}
  /\ UNCHANGED <<handlers, packaging, answer, raced>>

-----------------------------------------------------------------------------
(* slices.IndexFunc over the handlers: the first of the operation's name    *)
(* takes the call, and rejects it when the payload is not of its type.     *)
Takes(h, c) == h.op = c.op
First(list, c) == CHOOSE i \in DOMAIN list :
  Takes(list[i], c) /\ \A j \in 1..(i - 1) : ~ Takes(list[j], c)

Offer(list, c) ==
  CASE \A i \in DOMAIN list : ~ Takes(list[i], c) -> "no handler"
    [] OTHER -> IF list[First(list, c)].takes = c.payload THEN list[First(list, c)].owner
                ELSE "type mismatch"

Dispatch(c, list) ==
  /\ c.task \in packaged /\ answer[c] = Nobody
  /\ answer' = [answer EXCEPT ![c] = Offer(list, c)]
  /\ raced' = (raced \/ packaging # <<>>)
  /\ UNCHANGED <<handlers, packaging, packaged>>

Call(c) == Dispatch(c, handlers)

(* A call that reads while SetHandlers writes. *)
CallSeesMore(c) == \E t \in DOMAIN packaging : Dispatch(c, Appended(packaging[t], OnCall(t)))
CallTorn(c) ==
  /\ c.task \in packaged /\ answer[c] = Nobody /\ packaging # <<>>
  /\ answer' = [answer EXCEPT ![c] = "panic"]
  /\ raced' = TRUE
  /\ UNCHANGED <<handlers, packaging, packaged>>

Next ==
  \/ \E t \in Tasks : SetHandlersReads(t) \/ SetHandlersWrites(t) \/ PackageWithout(t)
  \/ \E c \in Requests : Call(c) \/ CallSeesMore(c) \/ CallTorn(c)

Spec == Init /\ [][Next]_vars

-----------------------------------------------------------------------------
(* As long as tasks are packaged one at a time, with no call under way,    *)
(* which handler answers an operation is settled by the first task that    *)
(* handles it and never changes: later tasks on the same engine are        *)
(* answered by that handler, also in the place of their own.  A task whose *)
(* OnCall names the operation is always answered by somebody.              *)
Owners(op) == {t \in packaged : \E i \in DOMAIN OnCall(t) : OnCall(t)[i].op = op}

FirstHandlerAnswers ==
  ~ raced =>
    \A c \in Requests : answer[c] # Nobody =>
      /\ answer[c] = Offer(handlers, c) \/ (answer[c] = "no handler" /\ c.task \notin Owners(c.op))
      /\ answer[c] \in Tasks => answer[c] \in Owners(c.op)
      /\ c.task \in Owners(c.op) => answer[c] # "no handler"
      /\ answer[c] # "panic"
=============================================================================
