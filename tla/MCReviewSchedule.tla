------------------------- MODULE MCReviewSchedule ---------------------------
(* Instances of ReviewSchedule for TLC.                                    *)
EXTENDS ReviewSchedule

(* The range of a SMALLINT column of PostgreSQL.                           *)
MCSmallInt == 2^15 - 1
=============================================================================
