---------------------------- MODULE MCStudyPlan -----------------------------
(* Instances of StudyPlan for TLC.                                         *)
EXTENDS StudyPlan

CONSTANTS s1, s2, q1, q2

MCSpecOf == [q \in Questions |-> s1]
=============================================================================
