-------------------------- MODULE MCDevicePractice --------------------------
(* Instances of DevicePractice for TLC.                                    *)
EXTENDS DevicePractice

CONSTANTS feed, card, q1, q2, t1

MCBoth == {feed, card}
MCOneTopic == [q \in {q1, q2} |-> t1]
MCCardShowsFirst == [c \in {card} |-> q1]
MCNoCards == [c \in {} |-> q1]
=============================================================================
