------------------------------ MODULE KeptItems ------------------------------
(* What filter() keeps of an array, in its order.  The test is a set, and the *)
(* definition a function over the places, so that what it computes can be     *)
(* proved for sequences of any length: the provers do not expand SelectSeq.   *)
EXTENDS Naturals, SequencesExt

(* The items of s that are in S.                                              *)
Only(s, S) ==
    LET kept[k \in 0 .. Len(s)] ==
            IF k = 0 THEN <<>>
            ELSE IF s[k] \in S THEN Append(kept[k - 1], s[k]) ELSE kept[k - 1]
    IN kept[Len(s)]

(* The items of s that are not x.                                             *)
Without(s, x) == Only(s, ToSet(s) \ {x})
=============================================================================
