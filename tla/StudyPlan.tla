----------------------------- MODULE StudyPlan ------------------------------
(***************************************************************************)
(* The plan before an interview, on the device: the planner                *)
(* (domain/planner.dart, a port of backend/app/services/planner.py), the   *)
(* plan service (data/local/plan_service.dart) and the tables StudyPlans   *)
(* and StudyPlanDays (data/local/app_database.dart).                       *)
(*                                                                         *)
(* Time is counted in half days, so that a review may fall due in the      *)
(* course of a day.  A topic is its rank in the order of priority the plan *)
(* was built from: 0 is the weakest and weightiest.  The days of a plan    *)
(* are stored, never recomputed; they are a function of the four numbers   *)
(* kept here.                                                              *)
(***************************************************************************)
EXTENDS Integers, Sequences, FiniteSets

CONSTANTS
  Specializations,
  Questions,
  specOf,        (* the specialization of a question                       *)
  Deadlines,     (* days from today to the interviews people enter         *)
  TopicCounts,   (* numbers of topics with a positive weight               *)
  Intervals,     (* days to the next review of an answered question        *)
  Capacity,      (* new questions a day                                    *)
  MaxPlanDays,   (* kMaxPlanDays                                           *)
  Short, Long,   (* calendar days of 23 and of 25 hours                    *)
  LastDay,       (* bound: days the clock runs                             *)
  MaxPlans,      (* bound: plans made                                      *)
  MaxAnswers     (* bound: answers in one day                              *)

ASSUME PlanAssumption ==
  /\ specOf \in [Questions -> Specializations]
  /\ Deadlines \in SUBSET Nat
  /\ TopicCounts \in SUBSET (Nat \ {0})
  /\ Intervals \in SUBSET (Nat \ {0})
  /\ Capacity \in Nat \ {0}
  /\ MaxPlanDays \in Nat
  /\ Short \in SUBSET Nat /\ Long \in SUBSET Nat
  /\ LastDay \in Nat /\ MaxPlans \in Nat /\ MaxAnswers \in Nat

TopicsPerDay == 3

-----------------------------------------------------------------------------
(* The planner.                                                            *)

(* Whole days between two midnights: Duration.inDays drops the remainder.  *)
Hours(from, to) ==
  24 * (to - from) + Cardinality(Long \cap (from..to - 1)) - Cardinality(Short \cap (from..to - 1))

DaysWithInterview(from, to) == to - from + 1
DaysBetween(from, to) == Hours(from, to) \div 24

PerDay(n) == IF TopicsPerDay < n THEN TopicsPerDay ELSE n

(* The topics in order of priority, over and over, until the slots are     *)
(* full; slot p goes to day p modulo the number of days.                   *)
DealtFromTheTop(n, studyDays, d) == 0..(PerDay(n) - 1)

DealtAscending(n, studyDays, d) ==
  {n - 1 - (p % n) : p \in {p \in 0..(studyDays * PerDay(n) - 1) : p % studyDays = d}}

Dealt(n, studyDays, d) ==
  {p % n : p \in {p \in 0..(studyDays * PerDay(n) - 1) : p % studyDays = d}}

(* What a day is short of, because a topic came to it twice, is made up    *)
(* with the first topics it lacks.                                         *)
NothingMadeUp(n, dealt) == {}

MadeUp(n, dealt) ==
  LET missing == (0..(n - 1)) \ dealt
  IN  {t \in missing : Cardinality(dealt) + Cardinality({u \in missing : u < t}) < PerDay(n)}

TopicsOf(n, studyDays, d) ==
  Dealt(n, studyDays, d) \cup MadeUp(n, Dealt(n, studyDays, d))

-----------------------------------------------------------------------------
VARIABLES
  now,     (* half days since the start                                    *)
  plans,   (* table StudyPlans, oldest first, with its days                *)
  dueAt,   (* table ReviewStates: when a question comes back, -1 if never  *)
  done     (* per specialization: answers given since midnight             *)

vars == <<now, plans, dueAt, done>>

Today    == now \div 2
Midnight == 2 * Today

Plans == [spec: Specializations, first: Nat, interview: Nat, length: Nat \ {0},
          topics: Nat \ {0}, active: BOOLEAN]

(* A plan has at least one day: the last one is split off unasked.         *)
TypeOK ==
  /\ now \in Nat
  /\ plans \in Seq(Plans)
  /\ dueAt \in [Questions -> Nat \cup {-1}]
  /\ done \in [Specializations -> Nat]

Init ==
  /\ now = 0
  /\ plans = <<>>
  /\ dueAt = [q \in Questions |-> -1]
  /\ done = [s \in Specializations |-> 0]

(* The previous plan of the specialization makes room, in the same         *)
(* transaction.                                                            *)
KeepActive(s) == plans

Deactivated(s) ==
  [i \in DOMAIN plans |-> IF plans[i].spec = s THEN [plans[i] EXCEPT !.active = FALSE]
                                               ELSE plans[i]]

(* planDays and buildPlan refuse a date that is not ahead, one too far     *)
(* ahead, and a plan without days.                                         *)
FitsInclusive(length) == length <= MaxPlanDays
Fits(length) == 0 < length /\ length <= MaxPlanDays

Create(s, interview, n) ==
  LET length == DaysBetween(Today, interview)
  IN  /\ Len(plans) < MaxPlans
      /\ Fits(length)
      /\ plans' = Append(Deactivated(s),
                         [spec |-> s, first |-> Today, interview |-> interview,
                          length |-> length, topics |-> n, active |-> TRUE])
      /\ UNCHANGED <<now, dueAt, done>>

Cancel(s) ==
  /\ plans' = Deactivated(s)
  /\ UNCHANGED <<now, dueAt, done>>

(* An answer of the training: the question comes back some days later.     *)
Answer(q, days) ==
  /\ done[specOf[q]] < MaxAnswers
  /\ done' = [done EXCEPT ![specOf[q]] = @ + 1]
  /\ dueAt' = [dueAt EXCEPT ![q] = now + 2 * days]
  /\ UNCHANGED <<now, plans>>

Tick ==
  /\ now < 2 * LastDay + 1
  /\ now' = now + 1
  /\ done' = IF now % 2 = 1 THEN [s \in Specializations |-> 0] ELSE done
  /\ UNCHANGED <<plans, dueAt>>

Wipe ==
  /\ plans' = <<>>
  /\ dueAt' = [q \in Questions |-> -1]
  /\ done' = [s \in Specializations |-> 0]
  /\ UNCHANGED now

Next ==
  \/ \E s \in Specializations :
       Cancel(s) \/ \E d \in Deadlines, n \in TopicCounts : Create(s, Today + d, n)
  \/ \E q \in Questions, days \in Intervals : Answer(q, days)
  \/ Tick
  \/ Wipe

Spec == Init /\ [][Next]_vars

-----------------------------------------------------------------------------
(* What the screens show of the plan.                                      *)

Active(s) == {i \in DOMAIN plans : plans[i].spec = s /\ plans[i].active}

StudyDays(p)     == p.length - 1
IsPlanned(p, d)  == d \in p.first..(p.first + p.length - 1)
ReviewOnly(p, d) == d = p.first + p.length - 1
IsFinished(p)    == p.interview <= Today \/ ~IsPlanned(p, Today)

(* Reviews that were due when the day began.                               *)
DueByNow(s) == {q \in Questions : specOf[q] = s /\ dueAt[q] \in 0..now}
DueToday(s) == {q \in Questions : specOf[q] = s /\ dueAt[q] \in 0..Midnight}

Target(p) ==
  IF IsFinished(p) THEN 0
  ELSE Cardinality(DueToday(p.spec)) + IF ReviewOnly(p, Today) THEN 0 ELSE Capacity

(* The bar of the day, as a fraction of two numbers.                       *)
Progress(p) ==
  LET shown == IF IsFinished(p) THEN 0 ELSE done[p.spec]
  IN  IF Target(p) = 0 THEN <<IF shown > 0 THEN 1 ELSE 0, 1>>
      ELSE <<IF shown > Target(p) THEN Target(p) ELSE shown, Target(p)>>

-----------------------------------------------------------------------------
(* Properties.                                                             *)

(* A specialization has one active plan at most: the screen of today and   *)
(* the progress are about the same one (app_database.dart:375-378).        *)
OneActivePlan == \A s \in Specializations : \A i, j \in Active(s) : i = j

(* Unless the clocks go forward on the way, the days of a plan run from the
   day it was made to the eve of the interview, and the eve is for repetition
   only (planner.dart:60, planner.dart:82-83).                              *)
PlannedToTheEve ==
  \A i \in DOMAIN plans :
    LET p == plans[i]
        way == p.first..(p.interview - 1)
    IN  Short \cap way = {} =>
          /\ \A d \in way : IsPlanned(p, d) /\ (ReviewOnly(p, d) <=> d = p.interview - 1)
          /\ ~IsPlanned(p, p.interview)

Covered(p) == UNION {TopicsOf(p.topics, StudyDays(p), d) : d \in 0..(StudyDays(p) - 1)}

(* The study days share the topics fairly: no day has fewer topics than    *)
(* another, although a topic is never twice on one day, and a topic of     *)
(* higher priority is studied on no fewer days than one of lower priority  *)
(* (planner.dart:82, planner.dart:144-148).                                *)
FairShares ==
  \A i \in DOMAIN plans :
    LET p == plans[i]
        days == 0..(StudyDays(p) - 1)
        topicsOn(d) == TopicsOf(p.topics, StudyDays(p), d)
        share(t) == Cardinality({d \in days : t \in topicsOn(d)})
    IN  /\ \A d \in days : Cardinality(topicsOn(d)) = PerDay(p.topics)
        /\ \A t \in 1..(p.topics - 1) : share(t - 1) >= share(t)

(* When there are as many slots as topics, every topic gets one            *)
(* (planner.dart:144-147, which does not say "when": with fewer slots some *)
(* topics have none).                                                      *)
CoverageWhenRoom ==
  \A i \in DOMAIN plans :
    LET p == plans[i]
    IN  StudyDays(p) * PerDay(p.topics) >= p.topics => Covered(p) = 0..(p.topics - 1)

(* Within a day, while the plan stays the same, the bar never goes back,   *)
(* whatever is answered and whatever falls due meanwhile.                  *)
BarStepsBack(p) ==
  Progress(p)'[1] * Progress(p)[2] < Progress(p)[1] * Progress(p)'[2]

ProgressNeverFalls ==
  [][\A i \in DOMAIN plans :
       plans' = plans /\ Today' = Today /\ plans[i].active => ~BarStepsBack(plans[i])]_vars
=============================================================================
