---------------------------- MODULE MCServerFeed ----------------------------
(* Instances of ServerFeed for TLC.                                        *)
EXTENDS ServerFeed

CONSTANTS s1, s2

(* Question 1 is shared, 3 is out of the range of grade 3 and its topic    *)
(* has no weight; s2 has no topics at all.                                 *)
MCBank ==
  <<[specs |-> {s1, s2}, topic |-> 1, min |-> 1, peak |-> 3, max |-> 5, frequency |-> 3],
    [specs |-> {s1},     topic |-> 2, min |-> 3, peak |-> 4, max |-> 6, frequency |-> 5],
    [specs |-> {s1, s2}, topic |-> 3, min |-> 5, peak |-> 5, max |-> 6, frequency |-> 1]>>
MCWeights ==
  [s \in {s1, s2} |-> [t \in IF s = s1 THEN {1, 2} ELSE {} |-> [g \in {3, 5} |-> t + g - 2]]]
MCMoves == {-16, 16}
=============================================================================
