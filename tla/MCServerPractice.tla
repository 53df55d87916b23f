-------------------------- MODULE MCServerPractice --------------------------
(* Instances of ServerPractice for TLC.  Every question is of one section. *)
EXTENDS ServerPractice

CONSTANTS u1, u2, sp1, sp2, q1, q2, t1, a1, a2, a3, b1, b2, batch, retry, single, other

MCUserOf == [s \in Submissions |-> IF s \in {b1, b2} THEN u2 ELSE u1]
MCTopicOf == [q \in Questions |-> t1]
MCOneSpec == [s \in Submissions |-> sp1]

(* A batch with a refused item, its answers sent again one by one, and a   *)
(* batch of another user that meets the questions in reverse order.        *)
MCQuestionOf == [s \in Submissions |-> IF s \in {a1, b2} THEN q1 ELSE q2]
MCItems == [r \in Requests |->
  CASE r = batch -> <<a1, a3, a2>> [] r = retry -> <<a2>>
    [] r = single -> <<a1>>       [] r = other -> <<b1, b2>>]

(* A batch over two specializations, whose last item is also sent alone,   *)
(* by a person who has a rating in the second one already.                 *)
MCTwoSpecs == [s \in Submissions |-> IF s = a1 THEN sp1 ELSE sp2]
MCTwoQuestions == [s \in Submissions |-> IF s = a1 THEN q1 ELSE q2]
MCPair == [r \in Requests |->
  CASE r = other -> <<a3>> [] r = batch -> <<a1, a2>> [] r = single -> <<a2>>]
=============================================================================
