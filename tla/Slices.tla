--------------------------------- MODULE Slices --------------------------------
(***************************************************************************)
(* Filter of stream/stream.go as the collections use it: the elements of a *)
(* slice that are in a set, in their order.  It is SelectSeq written as a  *)
(* recursive function, which the proofs can reason about.                  *)
(***************************************************************************)
EXTENDS Naturals, Sequences

(* What has been kept of s after n elements.                               *)
Kept(s, S) ==
  LET kept[n \in 0..Len(s)] ==
        IF n = 0 THEN <<>>
        ELSE kept[n - 1] \o (IF s[n] \in S THEN <<s[n]>> ELSE <<>>)
  IN kept

Filtered(s, S) == Kept(s, S)[Len(s)]

Items(s) == {s[i] : i \in DOMAIN s}
=============================================================================
