---------------------------- MODULE SubSequences ----------------------------
(* The part of a sequence that lies in a set, for modules with proofs: a *)
(* recursive function, which can be unfolded, where SelectSeq is built   *)
(* into the provers.                                                     *)
EXTENDS Naturals, SequencesExt

\* The elements of s that are in S, in their order.
Only(s, S) ==
    LET upTo[k \in 0 .. Len(s)] ==
            IF k = 0 THEN <<>> ELSE IF s[k] \in S THEN Append(upTo[k - 1], s[k]) ELSE upTo[k - 1]
    IN  upTo[Len(s)]
=============================================================================
