-------------------------------- MODULE Chains --------------------------------
(***************************************************************************)
(* What the lazy sequences of stream are made of: the stages there are,    *)
(* Gatherers and those of Seq itself, and the chains of them to consider.  *)
(***************************************************************************)
EXTENDS Integers, Sequences

CONSTANTS
  Programs,       \* what to run: a chain of stages, a source, and how many
                  \* elements the consumer wants, 0 for all
  Other           \* the elements of ZipSeq's second sequence

Gathers ==
  {"mapMulti", "takeWhile", "dropWhile", "enumerate", "distinct", "scan", "fold",
   "windowFixed", "windowSliding", "mapWhile", "scanWhile"}
Engines == {"filter", "map", "flatMap", "take", "skip", "zip"}

(* A chain is made of the stages that there are.                          *)
ASSUME ProgramsAssumption ==
  \A p \in Programs : p.chain \in Seq([op : Gathers \cup Engines, n : Int])
=============================================================================
