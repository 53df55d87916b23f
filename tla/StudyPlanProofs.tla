-------------------------- MODULE StudyPlanProofs ---------------------------
(* Proofs about StudyPlan, for every calendar, every number of topics and  *)
(* every length of a plan.                                                 *)
EXTENDS StudyPlan, FiniteSetTheorems, TLAPS

-----------------------------------------------------------------------------
(* The planner.                                                            *)

LEMMA PerDayType ==
  ASSUME NEW n \in Nat \ {0}
  PROVE  PerDay(n) \in Nat \ {0} /\ PerDay(n) <= n
  BY DEF PerDay, TopicsPerDay

(* With a slot for each, topic t is dealt to the day t falls on in the     *)
(* first round.                                                            *)
LEMMA SlotForEveryTopic ==
  ASSUME NEW n \in Nat \ {0}, NEW studyDays \in Nat,
         studyDays * PerDay(n) >= n, NEW t \in 0..(n - 1)
  PROVE  \E d \in 0..(studyDays - 1) : t \in TopicsOf(n, studyDays, d)
  <1> DEFINE slots == studyDays * PerDay(n)
             d == t % studyDays
  <1>1. PerDay(n) \in Nat \ {0}
    BY PerDayType
  <1>2. slots \in Nat /\ t \in 0..(slots - 1)
    BY <1>1
  <1>3. studyDays # 0
    BY <1>1
  <1>4. d \in 0..(studyDays - 1)
    BY <1>3
  <1>5. t % n = t
    OBVIOUS
  <1>6. t \in Dealt(n, studyDays, d)
    BY <1>2, <1>5 DEF Dealt
  <1>7. QED
    BY <1>4, <1>6 DEF TopicsOf

(* Nothing but topics is dealt.                                            *)
LEMMA OnlyTopics ==
  ASSUME NEW n \in Nat \ {0}, NEW studyDays \in Nat, NEW d \in Nat
  PROVE  TopicsOf(n, studyDays, d) \subseteq 0..(n - 1)
  <1>1. studyDays * PerDay(n) \in Nat
    BY PerDayType
  <1>2. \A p \in Nat : p % n \in 0..(n - 1)
    OBVIOUS
  <1>3. Dealt(n, studyDays, d) \subseteq 0..(n - 1)
    BY <1>1, <1>2 DEF Dealt
  <1>4. MadeUp(n, Dealt(n, studyDays, d)) \subseteq 0..(n - 1)
    BY DEF MadeUp
  <1>5. QED
    BY <1>3, <1>4 DEF TopicsOf

(* Two midnights are a whole number of hours apart.  An hour that is gone  *)
(* takes a day with it, an hour too many does not add one.                 *)
LEMMA HoursType ==
  ASSUME NEW from \in Nat, NEW to \in Nat
  PROVE  /\ Hours(from, to) \in Int /\ DaysBetween(from, to) \in Int
         /\ IsFiniteSet(Long) /\ Cardinality(Long) < 24 /\ Short \cap (from..to - 1) = {}
              => DaysBetween(from, to) = to - from
  <1> DEFINE long == Cardinality(Long \cap (from..to - 1))
             short == Cardinality(Short \cap (from..to - 1))
  <1>1. IsFiniteSet(from..to - 1)
    BY FS_Interval
  <1>2. long \in Nat /\ short \in Nat
    <2>1. IsFiniteSet(Long \cap (from..to - 1)) /\ IsFiniteSet(Short \cap (from..to - 1))
      BY <1>1, FS_Subset
    <2>2. QED
      BY <2>1, FS_CardinalityType
  <1>3. Hours(from, to) = 24 * (to - from) + long - short
    BY DEF Hours
  <1> HIDE DEF long, short
  <1>4. Hours(from, to) \in Int
    BY <1>2, <1>3
  <1>5. DaysBetween(from, to) \in Int
    BY <1>4 DEF DaysBetween
  <1>6. ASSUME IsFiniteSet(Long), Cardinality(Long) < 24, Short \cap (from..to - 1) = {}
        PROVE  DaysBetween(from, to) = to - from
    <2>1. short = 0
      BY <1>6, FS_EmptySet DEF short
    <2>2. long < 24
      <3>1. long <= Cardinality(Long)
        BY <1>6, FS_Subset DEF long
      <3>2. Cardinality(Long) \in Nat
        BY <1>6, FS_CardinalityType
      <3>3. QED
        BY <1>2, <1>6, <3>1, <3>2
    <2>3. Hours(from, to) = 24 * (to - from) + long
      BY <1>2, <1>3, <2>1
    <2>4. QED
      BY <1>2, <2>2, <2>3 DEF DaysBetween
  <1>7. QED
    BY <1>4, <1>5, <1>6

-----------------------------------------------------------------------------
(* The tables.                                                             *)

LEMMA TodayType ==
  ASSUME now \in Nat
  PROVE  Today \in Nat
  BY DEF Today

(* Switching a plan off leaves the rest of its row alone.                  *)
LEMMA SwitchedOff ==
  ASSUME NEW p \in Plans
  PROVE  LET off == [p EXCEPT !.active = FALSE]
         IN  /\ off \in Plans
             /\ off.spec = p.spec /\ off.first = p.first /\ off.interview = p.interview
             /\ off.length = p.length /\ off.topics = p.topics /\ off.active = FALSE
  BY DEF Plans

LEMMA DeactivatedType ==
  ASSUME TypeOK, NEW s \in Specializations
  PROVE  /\ Deactivated(s) \in Seq(Plans)
         /\ Len(Deactivated(s)) = Len(plans)
         /\ \A i \in 1..Len(plans) :
              /\ Deactivated(s)[i].spec = plans[i].spec
              /\ Deactivated(s)[i].first = plans[i].first
              /\ Deactivated(s)[i].interview = plans[i].interview
              /\ Deactivated(s)[i].length = plans[i].length
              /\ Deactivated(s)[i].topics = plans[i].topics
              /\ Deactivated(s)[i].active <=> plans[i].active /\ plans[i].spec # s
  <1>1. plans \in Seq(Plans) /\ DOMAIN plans = 1..Len(plans) /\ Len(plans) \in Nat
    BY DEF TypeOK
  <1> DEFINE off(i) == [plans[i] EXCEPT !.active = FALSE]
  <1>2. ASSUME NEW i \in 1..Len(plans)
        PROVE  /\ plans[i] \in Plans
               /\ off(i) \in Plans
               /\ off(i).spec = plans[i].spec /\ off(i).first = plans[i].first
               /\ off(i).interview = plans[i].interview
               /\ off(i).length = plans[i].length /\ off(i).topics = plans[i].topics
               /\ off(i).active = FALSE
    <2>1. plans[i] \in Plans
      BY <1>1
    <2>2. QED
      BY <2>1, SwitchedOff
  <1>3. Deactivated(s) = [i \in 1..Len(plans) |->
                            IF plans[i].spec = s THEN off(i) ELSE plans[i]]
    BY <1>1 DEF Deactivated
  <1> HIDE DEF off
  <1>4. Deactivated(s) \in Seq(Plans) /\ Len(Deactivated(s)) = Len(plans)
    <2>1. Deactivated(s) \in [1..Len(plans) -> Plans]
      BY <1>2, <1>3
    <2>2. QED
      BY <1>1, <2>1
  <1>5. QED
    BY <1>2, <1>3, <1>4

LEMMA StepTyped ==
  ASSUME PlanAssumption, TypeOK, [Next]_vars
  PROVE  TypeOK'
  <1>1. ASSUME NEW s \in Specializations, NEW d \in Deadlines, NEW n \in TopicCounts,
               Create(s, Today + d, n)
        PROVE  TypeOK'
    <2> DEFINE new == [spec |-> s, first |-> Today, interview |-> Today + d,
                       length |-> DaysBetween(Today, Today + d), topics |-> n,
                       active |-> TRUE]
    <2>1. Today \in Nat /\ Today + d \in Nat /\ n \in Nat \ {0}
      BY TodayType DEF TypeOK, PlanAssumption
    <2>2. DaysBetween(Today, Today + d) \in Nat \ {0}
      <3>1. DaysBetween(Today, Today + d) \in Int
        BY <2>1, HoursType
      <3>2. 0 < DaysBetween(Today, Today + d)
        BY <1>1 DEF Create, Fits
      <3>3. QED
        BY <3>1, <3>2
    <2>3. new \in Plans
      BY <2>1, <2>2 DEF Plans
    <2>4. plans' = Append(Deactivated(s), new)
      BY <1>1 DEF Create
    <2> HIDE DEF new
    <2>5. plans' \in Seq(Plans)
      BY <2>3, <2>4, DeactivatedType
    <2>6. QED
      BY <1>1, <2>5 DEF Create, TypeOK
  <1>2. ASSUME NEW s \in Specializations, Cancel(s) PROVE TypeOK'
    BY <1>2, DeactivatedType DEF Cancel, TypeOK
  <1>3. ASSUME NEW q \in Questions, NEW days \in Intervals, Answer(q, days) PROVE TypeOK'
    <2>1. now + 2 * days \in Nat
      BY DEF TypeOK, PlanAssumption
    <2>2. QED
      BY <1>3, <2>1 DEF Answer, TypeOK
  <1>4. CASE Tick
    BY <1>4 DEF Tick, TypeOK
  <1>5. CASE Wipe
    <2>1. <<>> \in Seq(Plans)
      OBVIOUS
    <2>2. QED
      BY <1>5, <2>1 DEF Wipe, TypeOK
  <1>6. CASE UNCHANGED vars
    BY <1>6 DEF vars, TypeOK
  <1>7. QED
    BY <1>1, <1>2, <1>3, <1>4, <1>5, <1>6 DEF Next

(* Every stored plan has a day at least and the type of its columns.       *)
THEOREM TypeCorrect == Spec => []TypeOK
  <1>1. Init => TypeOK
    BY DEF Init, TypeOK
  <1>2. PlanAssumption /\ TypeOK /\ [Next]_vars => TypeOK'
    BY StepTyped
  <1>3. QED
    BY <1>1, <1>2, PlanAssumption, PTL DEF Spec

(* When there are as many slots as topics every topic has one, for plans   *)
(* of every length over any number of topics.                              *)
THEOREM EveryTopicFits == Spec => []CoverageWhenRoom
  <1>1. TypeOK => CoverageWhenRoom
    <2> SUFFICES ASSUME TypeOK, NEW i \in DOMAIN plans,
                        StudyDays(plans[i]) * PerDay(plans[i].topics) >= plans[i].topics
                 PROVE  Covered(plans[i]) = 0..(plans[i].topics - 1)
      BY DEF CoverageWhenRoom
    <2> DEFINE p == plans[i]
    <2>1. p \in Plans
      BY DEF TypeOK
    <2>2. StudyDays(p) \in Nat /\ p.topics \in Nat \ {0}
      BY <2>1 DEF Plans, StudyDays
    <2> HIDE DEF p
    <2>3. Covered(p) \subseteq 0..(p.topics - 1)
      BY <2>2, OnlyTopics DEF Covered
    <2>4. \A t \in 0..(p.topics - 1) : t \in Covered(p)
      BY <2>2, SlotForEveryTopic DEF Covered, p
    <2>5. QED
      BY <2>3, <2>4 DEF p
  <1>2. QED
    BY <1>1, TypeCorrect, PTL

(* A specialization never has two active plans.                            *)
THEOREM OneAtATime == Spec => []OneActivePlan
  <1>1. Init => OneActivePlan
    BY DEF Init, OneActivePlan, Active
  <1>2. ASSUME PlanAssumption, TypeOK, OneActivePlan, [Next]_vars PROVE OneActivePlan'
    <2>1. ASSUME NEW s \in Specializations, NEW d \in Deadlines, NEW n \in TopicCounts,
                 Create(s, Today + d, n)
          PROVE  OneActivePlan'
      <3> DEFINE new == [spec |-> s, first |-> Today, interview |-> Today + d,
                         length |-> DaysBetween(Today, Today + d), topics |-> n,
                         active |-> TRUE]
      <3>1. plans' = Append(Deactivated(s), new)
        BY <2>1 DEF Create
      <3>2. new.spec = s
        OBVIOUS
      <3> HIDE DEF new
      <3>3. Len(plans) \in Nat
        BY <1>2 DEF TypeOK
      <3>4. /\ DOMAIN plans' = 1..(Len(plans) + 1)
            /\ plans'[Len(plans) + 1] = new
            /\ \A i \in 1..Len(plans) : plans'[i] = Deactivated(s)[i]
        BY <1>2, <3>1, <3>3, DeactivatedType
      <3>5. ASSUME NEW i \in 1..Len(plans)
            PROVE  /\ plans'[i].spec = plans[i].spec
                   /\ plans'[i].active => plans[i].active /\ plans[i].spec # s
        BY <1>2, <3>4, DeactivatedType
      <3>6. DOMAIN plans = 1..Len(plans)
        BY <1>2 DEF TypeOK
      <3>7. QED
        BY <1>2, <3>2, <3>3, <3>4, <3>5, <3>6 DEF OneActivePlan, Active
    <2>2. ASSUME NEW s \in Specializations, Cancel(s) PROVE OneActivePlan'
      <3>1. plans' = Deactivated(s)
        BY <2>2 DEF Cancel
      <3>2. DOMAIN plans' = 1..Len(plans) /\ DOMAIN plans = 1..Len(plans)
        BY <1>2, <3>1 DEF TypeOK, Deactivated
      <3>3. ASSUME NEW i \in 1..Len(plans)
            PROVE  plans'[i].spec = plans[i].spec /\ (plans'[i].active => plans[i].active)
        BY <1>2, <3>1, DeactivatedType
      <3>4. QED
        BY <1>2, <3>2, <3>3 DEF OneActivePlan, Active
    <2>3. CASE Wipe
      BY <2>3 DEF Wipe, OneActivePlan, Active
    <2>4. ASSUME UNCHANGED plans PROVE OneActivePlan'
      BY <1>2, <2>4 DEF OneActivePlan, Active
    <2>5. QED
      BY <1>2, <2>1, <2>2, <2>3, <2>4 DEF Next, Answer, Tick, vars
  <1>3. QED
    BY <1>1, <1>2, TypeCorrect, PlanAssumption, PTL DEF Spec

-----------------------------------------------------------------------------
(* Unless the clocks go forward on the way, a plan is as long as the way to *)
(* its interview.                                                          *)
Reaches(p) ==
  Short \cap (p.first..(p.interview - 1)) = {} => p.first + p.length = p.interview

WholeWay == \A i \in DOMAIN plans : Reaches(plans[i])

LEMMA StepKeepsWholeWay ==
  ASSUME PlanAssumption, IsFiniteSet(Long), Cardinality(Long) < 24, TypeOK, WholeWay, [Next]_vars
  PROVE  WholeWay'
  <1>1. ASSUME NEW s \in Specializations, NEW d \in Deadlines, NEW n \in TopicCounts,
               Create(s, Today + d, n)
        PROVE  WholeWay'
    <2> DEFINE new == [spec |-> s, first |-> Today, interview |-> Today + d,
                       length |-> DaysBetween(Today, Today + d), topics |-> n,
                       active |-> TRUE]
    <2>1. Today \in Nat /\ Today + d \in Nat /\ d \in Nat
      BY TodayType DEF TypeOK, PlanAssumption
    <2>2. Short \cap (Today..(Today + d - 1)) = {} => DaysBetween(Today, Today + d) = d
      BY <2>1, HoursType
    <2>3. Reaches(new)
      BY <2>1, <2>2 DEF Reaches
    <2>4. plans' = Append(Deactivated(s), new)
      BY <1>1 DEF Create
    <2> HIDE DEF new
    <2>5. Len(plans) \in Nat /\ DOMAIN plans = 1..Len(plans)
      BY DEF TypeOK
    <2>6. /\ DOMAIN plans' = 1..(Len(plans) + 1)
          /\ plans'[Len(plans) + 1] = new
          /\ \A i \in 1..Len(plans) : plans'[i] = Deactivated(s)[i]
      BY <2>4, <2>5, DeactivatedType
    <2>7. \A i \in 1..Len(plans) : Reaches(plans'[i])
      BY <2>5, <2>6, DeactivatedType DEF WholeWay, Reaches
    <2>8. QED
      BY <2>3, <2>5, <2>6, <2>7 DEF WholeWay
  <1>2. ASSUME NEW s \in Specializations, Cancel(s) PROVE WholeWay'
    <2>1. plans' = Deactivated(s) /\ DOMAIN plans' = 1..Len(plans) /\ DOMAIN plans = 1..Len(plans)
      BY <1>2 DEF Cancel, Deactivated, TypeOK
    <2>2. QED
      BY <2>1, DeactivatedType DEF WholeWay, Reaches
  <1>3. CASE Wipe
    BY <1>3 DEF Wipe, WholeWay
  <1>4. ASSUME UNCHANGED plans PROVE WholeWay'
    BY <1>4 DEF WholeWay
  <1>5. QED
    BY <1>1, <1>2, <1>3, <1>4 DEF Next, Answer, Tick, vars

(* Unless the clocks go forward on the way, a plan has a day for every day *)
(* from its making to the eve of the interview, and the eve is the one for *)
(* repetition; the clocks go back fewer than 24 times in its life.         *)
THEOREM EveryDayIsPlanned ==
  ASSUME IsFiniteSet(Long), Cardinality(Long) < 24
  PROVE  Spec => []PlannedToTheEve
  <1>1. Init => WholeWay
    BY DEF Init, WholeWay
  <1>2. PlanAssumption /\ TypeOK /\ WholeWay /\ [Next]_vars => WholeWay'
    BY StepKeepsWholeWay
  <1>3. TypeOK /\ WholeWay => PlannedToTheEve
    <2> SUFFICES ASSUME TypeOK, WholeWay, NEW i \in DOMAIN plans,
                        Short \cap (plans[i].first..(plans[i].interview - 1)) = {}
                 PROVE  /\ \A d \in plans[i].first..(plans[i].interview - 1) :
                             /\ IsPlanned(plans[i], d)
                             /\ ReviewOnly(plans[i], d) <=> d = plans[i].interview - 1
                        /\ ~IsPlanned(plans[i], plans[i].interview)
      BY DEF PlannedToTheEve
    <2>1. /\ plans[i].first \in Nat /\ plans[i].length \in Nat \ {0}
          /\ plans[i].interview \in Nat
      <3>1. plans[i] \in Plans
        BY DEF TypeOK
      <3>2. QED
        BY <3>1 DEF Plans
    <2>2. plans[i].first + plans[i].length = plans[i].interview
      BY DEF WholeWay, Reaches
    <2>3. QED
      BY <2>1, <2>2 DEF IsPlanned, ReviewOnly
  <1>4. QED
    BY <1>1, <1>2, <1>3, TypeCorrect, PlanAssumption, PTL DEF Spec

-----------------------------------------------------------------------------
(* The bar of the day.  An answer moves its question out of the reviews of  *)
(* the day, if it was there, so the target shrinks by one at most while    *)
(* what is done grows by one.                                              *)

LEMMA FractionsGrow ==
  ASSUME NEW s \in Nat, NEW t \in Nat \ {0}, NEW u \in Nat, u <= t
  PROVE  /\ u = 0 => (IF s > t THEN t ELSE s) <= t
         /\ u > 0 => (IF s > t THEN t ELSE s) * u <= (IF s + 1 > u THEN u ELSE s + 1) * t
  <1>1. CASE s + 1 > u
    <2>1. ASSUME NEW m \in Nat, m <= t
          PROVE  m * u <= u * t
      BY <2>1
    <2>2. QED
      BY <1>1, <2>1
  <1>2. CASE ~ (s + 1 > u)
    <2>1. s * u <= s * t
      OBVIOUS
    <2>2. s * t <= (s + 1) * t
      OBVIOUS
    <2>3. ~ (s > t) /\ s * u \in Nat /\ s * t \in Nat /\ (s + 1) * t \in Nat
      BY <1>2
    <2>4. QED
      BY <1>2, <2>1, <2>2, <2>3
  <1>3. QED
    BY <1>1, <1>2

LEMMA TargetType ==
  ASSUME PlanAssumption, IsFiniteSet(Questions), NEW p
  PROVE  Target(p) \in Nat
  <1>1. Cardinality(DueToday(p.spec)) \in Nat
    BY FS_Subset, FS_CardinalityType DEF DueToday
  <1>2. QED
    BY <1>1 DEF Target, PlanAssumption

LEMMA AnswerMovesBar ==
  ASSUME PlanAssumption, IsFiniteSet(Questions), TypeOK, NEW q \in Questions,
         NEW days \in Intervals, Answer(q, days), NEW p \in Plans
  PROVE  ~ BarStepsBack(p)
  <1>1. /\ now' = now /\ now \in Nat /\ days \in Nat \ {0} /\ specOf[q] \in Specializations
        /\ p.spec \in Specializations
        /\ done[p.spec] \in Nat
        /\ done'[p.spec] = IF p.spec = specOf[q] THEN done[p.spec] + 1 ELSE done[p.spec]
        /\ dueAt'[q] = now + 2 * days
        /\ \A x \in Questions \ {q} : dueAt'[x] = dueAt[x]
    BY DEF Answer, TypeOK, PlanAssumption, Plans
  <1>2. Midnight \in Nat /\ Midnight <= now /\ Midnight' = Midnight
        /\ (IsFinished(p)' <=> IsFinished(p)) /\ (ReviewOnly(p, Today)' <=> ReviewOnly(p, Today))
    BY <1>1 DEF Midnight, Today, IsFinished, ReviewOnly, IsPlanned
  <1>3. q \notin DueToday(p.spec)'
    BY <1>1, <1>2 DEF DueToday
  <1>4. /\ DueToday(p.spec)' \subseteq DueToday(p.spec)
        /\ p.spec # specOf[q] => DueToday(p.spec)' = DueToday(p.spec)
    BY <1>1, <1>2, <1>3 DEF DueToday
  <1>5. IsFiniteSet(DueToday(p.spec)) /\ IsFiniteSet(DueToday(p.spec)')
    BY FS_Subset DEF DueToday
  <1>6. /\ Cardinality(DueToday(p.spec)) \in Nat /\ Cardinality(DueToday(p.spec)') \in Nat
        /\ Cardinality(DueToday(p.spec)') <= Cardinality(DueToday(p.spec))
    BY <1>4, <1>5, FS_Subset, FS_CardinalityType
  <1> DEFINE shown == IF IsFinished(p) THEN 0 ELSE done[p.spec]
             t == Target(p)
             u == Target(p)'
             after == IF IsFinished(p) THEN 0 ELSE done'[p.spec]
  <1>7. t \in Nat /\ u \in Nat /\ u <= t
    BY <1>2, <1>6 DEF Target, PlanAssumption
  <1>8. /\ Progress(p) = IF t = 0 THEN <<IF shown > 0 THEN 1 ELSE 0, 1>>
                         ELSE <<IF shown > t THEN t ELSE shown, t>>
        /\ Progress(p)' = IF u = 0 THEN <<IF after > 0 THEN 1 ELSE 0, 1>>
                          ELSE <<IF after > u THEN u ELSE after, u>>
    BY <1>2 DEF Progress
  <1>9. CASE p.spec # specOf[q] \/ IsFinished(p)
    <2>1. u = t
      BY <1>2, <1>4, <1>9 DEF Target
    <2>2. after = shown
      BY <1>1, <1>9
    <2>3. Progress(p)' = Progress(p)
      BY <1>8, <2>1, <2>2
    <2>4. Progress(p)[1] \in Nat /\ Progress(p)[2] \in Nat
      BY <1>1, <1>7, <1>8
    <2>5. QED
      BY <2>3, <2>4 DEF BarStepsBack
  <1>10. CASE p.spec = specOf[q] /\ ~ IsFinished(p)
    <2>1. shown \in Nat /\ after = shown + 1
      BY <1>1, <1>10
    <2> HIDE DEF shown, after, t, u
    <2>2. CASE t = 0
      <3>1. u = 0 /\ Progress(p)' = <<1, 1>> /\ Progress(p)[1] \in {0, 1} /\ Progress(p)[2] = 1
        BY <1>7, <1>8, <2>1, <2>2
      <3>2. QED
        BY <3>1 DEF BarStepsBack
    <2>3. CASE t # 0 /\ u = 0
      <3>1. Progress(p)' = <<1, 1>> /\ Progress(p) = <<IF shown > t THEN t ELSE shown, t>>
        BY <1>8, <2>1, <2>3
      <3>2. (IF shown > t THEN t ELSE shown) <= t /\ (IF shown > t THEN t ELSE shown) \in Nat
        BY <1>7, <2>1
      <3>3. QED
        BY <1>7, <3>1, <3>2 DEF BarStepsBack
    <2>4. CASE t # 0 /\ u # 0
      <3>1. /\ Progress(p)' = <<IF shown + 1 > u THEN u ELSE shown + 1, u>>
            /\ Progress(p) = <<IF shown > t THEN t ELSE shown, t>>
        BY <1>8, <2>1, <2>4
      <3>2. (IF shown > t THEN t ELSE shown) * u <= (IF shown + 1 > u THEN u ELSE shown + 1) * t
        BY <1>7, <2>1, <2>4, FractionsGrow
      <3>3. /\ (IF shown > t THEN t ELSE shown) * u \in Nat
            /\ (IF shown + 1 > u THEN u ELSE shown + 1) * t \in Nat
        BY <1>7, <2>1
      <3>4. QED
        BY <3>1, <3>2, <3>3 DEF BarStepsBack
    <2>5. QED
      BY <2>2, <2>3, <2>4
  <1>11. QED
    BY <1>9, <1>10

(* Within a day the bar of a plan that stays the same never goes back, for  *)
(* any number of questions, plans, answers and intervals.                  *)
THEOREM BarOnlyAdvances ==
  ASSUME IsFiniteSet(Questions)
  PROVE  Spec => ProgressNeverFalls
  <1>1. TypeOK /\ [Next]_vars =>
          [\A i \in DOMAIN plans :
             plans' = plans /\ Today' = Today /\ plans[i].active => ~BarStepsBack(plans[i])]_vars
    <2> SUFFICES ASSUME TypeOK, [Next]_vars, NEW i \in DOMAIN plans, plans' = plans,
                        Today' = Today
                 PROVE  ~BarStepsBack(plans[i])
      OBVIOUS
    <2>1. plans[i] \in Plans /\ plans[i].spec \in Specializations /\ Len(plans) \in Nat
          /\ now \in Nat /\ done[plans[i].spec] \in Nat
      <3>1. plans \in Seq(Plans) /\ now \in Nat /\ done \in [Specializations -> Nat]
        BY DEF TypeOK
      <3>2. Len(plans) \in Nat /\ DOMAIN plans = 1..Len(plans)
        BY <3>1
      <3>3. plans[i] \in Plans
        BY <3>1, <3>2
      <3>4. plans[i].spec \in Specializations
        BY <3>3 DEF Plans
      <3>5. QED
        BY <3>1, <3>2, <3>3, <3>4
    <2>2. ASSUME UNCHANGED <<dueAt, done>> PROVE ~BarStepsBack(plans[i])
      <3>1. Progress(plans[i])' = Progress(plans[i])
        BY <2>2 DEF Progress, Target, IsFinished, IsPlanned, ReviewOnly, DueToday, Midnight
      <3>2. Progress(plans[i])[1] \in Nat /\ Progress(plans[i])[2] \in Nat
        BY <2>1, TargetType, PlanAssumption DEF Progress
      <3>3. QED
        BY <3>1, <3>2 DEF BarStepsBack
    <2>3. ASSUME NEW q \in Questions, NEW days \in Intervals, Answer(q, days)
          PROVE  ~BarStepsBack(plans[i])
      BY <2>1, <2>3, AnswerMovesBar, PlanAssumption
    <2>4. ASSUME NEW s \in Specializations, Cancel(s) PROVE ~BarStepsBack(plans[i])
      BY <2>2, <2>4 DEF Cancel
    <2>5. ASSUME NEW s \in Specializations, NEW d, NEW n, Create(s, Today + d, n)
          PROVE  ~BarStepsBack(plans[i])
      BY <2>2, <2>5 DEF Create
    <2>6. CASE Tick
      <3>1. now % 2 # 1
        BY <2>1, <2>6 DEF Tick, Today
      <3>2. QED
        BY <2>2, <2>6, <3>1 DEF Tick
    <2>7. CASE Wipe
      <3>1. plans = <<>>
        BY <2>7 DEF Wipe
      <3>2. QED
        BY <3>1
    <2>8. CASE UNCHANGED vars
      BY <2>2, <2>8 DEF vars
    <2>9. QED
      BY <2>3, <2>4, <2>5, <2>6, <2>7, <2>8 DEF Next
  <1>2. QED
    BY <1>1, TypeCorrect, PTL DEF Spec, ProgressNeverFalls

-----------------------------------------------------------------------------
(* Fair shares.  Dealing goes round, modulo the days and modulo the topics. *)

LEMMA ModIs ==
  ASSUME NEW n \in Nat \ {0}, NEW q \in Int, NEW r \in 0..(n - 1)
  PROVE  (n * q + r) % n = r
  OBVIOUS

LEMMA ModOf ==
  ASSUME NEW n \in Nat \ {0}, NEW a \in Int
  PROVE  /\ a % n \in 0..(n - 1) /\ a \div n \in Int
         /\ a = n * (a \div n) + (a % n)
  OBVIOUS

(* The number before has the remainder before.                             *)
LEMMA ModBefore ==
  ASSUME NEW n \in Nat \ {0}, NEW a \in Int, a % n # 0
  PROVE  (a - 1) % n = (a % n) - 1
  <1> DEFINE q == a \div n
             r == a % n
  <1>1. r \in 0..(n - 1) /\ q \in Int /\ a = n * q + r
    BY ModOf
  <1>2. r - 1 \in 0..(n - 1)
    BY <1>1
  <1> HIDE DEF q, r
  <1>3. a - 1 = n * q + (r - 1)
    BY <1>1
  <1>4. (n * q + (r - 1)) % n = r - 1
    BY <1>1, <1>2, ModIs
  <1> QED
    BY <1>3, <1>4 DEF r

(* What is added is the difference of the remainders.                      *)
LEMMA ModSum ==
  ASSUME NEW n \in Nat \ {0}, NEW a \in Int, NEW b \in Int
  PROVE  LET x == a % n
             y == (a + b) % n
         IN  b % n = IF x <= y THEN y - x ELSE n + y - x
  <1> DEFINE p == a \div n
             x == a % n
             q == (a + b) \div n
             y == (a + b) % n
  <1>1. x \in 0..(n - 1) /\ p \in Int /\ a = n * p + x
    BY ModOf
  <1>2. y \in 0..(n - 1) /\ q \in Int /\ a + b = n * q + y
    <2>1. a + b \in Int
      OBVIOUS
    <2> QED
      BY <2>1, ModOf
  <1> HIDE DEF p, x, q, y
  <1>3. CASE x <= y
    <2>1. y - x \in 0..(n - 1) /\ q - p \in Int
      BY <1>1, <1>2, <1>3
    <2>2. b = n * (q - p) + (y - x)
      BY <1>1, <1>2
    <2> QED
      BY <1>3, <2>1, <2>2, ModIs DEF x, y
  <1>4. CASE ~ x <= y
    <2>1. n + y - x \in 0..(n - 1) /\ q - p - 1 \in Int
      BY <1>1, <1>2, <1>4
    <2>2. b = n * (q - p - 1) + (n + y - x)
      BY <1>1, <1>2
    <2> QED
      BY <1>4, <2>1, <2>2, ModIs DEF x, y
  <1> QED
    BY <1>3, <1>4

(* With more topics than a day takes, a day is dealt the slots d, d plus   *)
(* the days, d plus twice the days.                                        *)
LEMMA DealtIs ==
  ASSUME NEW n \in Nat, n > 3, NEW days \in Nat, NEW d \in 0..(days - 1)
  PROVE  /\ PerDay(n) = 3
         /\ Dealt(n, days, d) = {d % n, (d + days) % n, (d + 2 * days) % n}
  <1>1. PerDay(n) = 3
    BY DEF PerDay, TopicsPerDay
  <1>2. days \in Nat \ {0}
    OBVIOUS
  <1> DEFINE P == {p \in 0..(days * 3 - 1) : p % days = d}
  <1>3. P = {d, d + days, d + 2 * days}
    <2>1. ASSUME NEW p \in P
          PROVE  p \in {d, d + days, d + 2 * days}
      <3> DEFINE q == p \div days
      <3>1. q \in Int /\ p = days * q + d /\ p \in 0..(days * 3 - 1)
        BY <1>2, ModOf
      <3> HIDE DEF q
      <3>2. q >= 0
        <4> SUFFICES ASSUME q <= -1 PROVE FALSE
          BY <3>1
        <4>1. days * (-1 - q) >= 0
          BY <1>2, <3>1
        <4>2. days * (-1 - q) = -days - days * q
          BY <3>1
        <4> QED
          BY <3>1, <4>1, <4>2
      <3>3. q <= 2
        <4> SUFFICES ASSUME q >= 3 PROVE FALSE
          BY <3>1
        <4>1. days * (q - 3) >= 0
          BY <1>2, <3>1
        <4>2. days * (q - 3) = days * q - 3 * days
          BY <3>1
        <4> QED
          BY <3>1, <4>1, <4>2
      <3>4. q = 0 \/ q = 1 \/ q = 2
        BY <3>1, <3>2, <3>3
      <3> QED
        BY <3>1, <3>4
    <2>2. ASSUME NEW q \in 0..2
          PROVE  days * q + d \in P
      <3>1. (days * q + d) % days = d
        BY <1>2, ModIs
      <3>2. days * q + d \in 0..(days * 3 - 1)
        <4>1. q = 0 \/ q = 1 \/ q = 2
          OBVIOUS
        <4> QED
          BY <4>1
      <3> QED
        BY <3>1, <3>2
    <2>3. d \in P
      BY <2>2, days * 0 + d = d, 0 \in 0..2
    <2>4. d + days \in P
      BY <2>2, days * 1 + d = d + days, 1 \in 0..2
    <2>5. d + 2 * days \in P
      BY <2>2, days * 2 + d = d + 2 * days, 2 \in 0..2
    <2> HIDE DEF P
    <2> QED
      BY <2>1, <2>3, <2>4, <2>5
  <1>4. Dealt(n, days, d) = {p % n : p \in P}
    BY <1>1 DEF Dealt
  <1> HIDE DEF P
  <1> QED
    BY <1>1, <1>3, <1>4

(* How many topics that makes depends on the number of days alone.         *)
LEMMA DealtCount ==
  ASSUME NEW n \in Nat, n > 3, NEW days \in Nat, NEW d \in 0..(days - 1)
  PROVE  LET dealt == Dealt(n, days, d)
         IN  /\ IsFiniteSet(dealt) /\ Cardinality(dealt) \in 1..3
             /\ days % n = 0 => dealt = {d % n}
             /\ days % n # 0 /\ (2 * days) % n = 0 => dealt = {d % n, (d + days) % n}
             /\ Cardinality(dealt) =
                  IF days % n = 0 THEN 1 ELSE IF (2 * days) % n = 0 THEN 2 ELSE 3
  <1> DEFINE x == d % n
             y == (d + days) % n
             z == (d + 2 * days) % n
             dealt == Dealt(n, days, d)
  <1>1. n \in Nat \ {0} /\ d \in Int /\ d + days \in Int /\ d + 2 * days \in Int /\ 2 * days \in Int /\ days \in Int
    OBVIOUS
  <1>2. x \in 0..(n - 1) /\ y \in 0..(n - 1) /\ z \in 0..(n - 1)
    BY <1>1, ModOf
  <1>3. days % n = IF x <= y THEN y - x ELSE n + y - x
    BY <1>1, ModSum
  <1>4. days % n = IF y <= z THEN z - y ELSE n + z - y
    <2> DEFINE c == d + days
               k == days
    <2>1. c \in Int /\ k \in Int /\ c + k = d + 2 * days
      OBVIOUS
    <2> HIDE DEF c, k
    <2>2. k % n = IF c % n <= (c + k) % n THEN ((c + k) % n) - (c % n)
                ELSE n + ((c + k) % n) - (c % n)
      <3>1. n \in Nat \ {0}
        OBVIOUS
      <3> QED
        BY <2>1, <3>1, ModSum
    <2>3. c % n = y /\ (c + k) % n = z /\ k = days
      BY <2>1 DEF c, k
    <2> HIDE DEF y, z
    <2> QED
      BY <2>2, <2>3
  <1>5. (2 * days) % n = IF x <= z THEN z - x ELSE n + z - x
    BY <1>1, ModSum
  <1>6. dealt = {x, y, z}
    BY DealtIs
  <1> DEFINE e == days % n
             f == (2 * days) % n
  <1> HIDE DEF x, y, z, dealt, e, f
  <1>7. /\ e = 0 <=> x = y
        /\ e = 0 <=> y = z
        /\ f = 0 <=> x = z
    BY <1>2, <1>3, <1>4, <1>5 DEF e, f
  <1>8. IsFiniteSet({x}) /\ Cardinality({x}) = 1
    BY FS_Singleton
  <1>9. IsFiniteSet({x} \cup {y}) /\ Cardinality({x} \cup {y}) = IF x = y THEN 1 ELSE 2
    BY <1>8, FS_AddElement
  <1>10. /\ IsFiniteSet(({x} \cup {y}) \cup {z})
         /\ Cardinality(({x} \cup {y}) \cup {z}) =
              IF z \in {x, y} THEN Cardinality({x} \cup {y}) ELSE Cardinality({x} \cup {y}) + 1
    BY <1>9, FS_AddElement
  <1>11. dealt = ({x} \cup {y}) \cup {z}
    BY <1>6
  <1>12. CASE e = 0
    <2>1. dealt = {x} \cup {y} /\ dealt = {x} /\ x = y
      BY <1>6, <1>7, <1>12
    <2> QED
      BY <1>8, <1>12, <2>1 DEF x, e, dealt
  <1>13. CASE e # 0 /\ f = 0
    <2>1. dealt = {x} \cup {y} /\ dealt = {x, y} /\ x # y
      BY <1>6, <1>7, <1>13
    <2> QED
      BY <1>9, <1>13, <2>1 DEF x, y, e, f, dealt
  <1>14. CASE e # 0 /\ f # 0
    <2>1. z \notin {x, y} /\ x # y
      BY <1>7, <1>14
    <2>2. Cardinality(dealt) = 3 /\ IsFiniteSet(dealt)
      BY <1>9, <1>10, <1>11, <2>1
    <2> QED
      BY <1>14, <2>2 DEF e, f, dealt
  <1> QED
    BY <1>12, <1>13, <1>14

(* Of the numbers of a finite set, m have fewer than m before them.        *)
LEMMA FirstOfNumbers ==
  ASSUME NEW S, IsFiniteSet(S), S \subseteq Int, NEW m \in Nat, m <= Cardinality(S)
  PROVE  LET first == {x \in S : Cardinality({y \in S : y < x}) < m}
         IN  IsFiniteSet(first) /\ Cardinality(first) = m
  <1> DEFINE Before(x) == {y \in S : y < x}
             place(x) == Cardinality(Before(x))
             n == Cardinality(S)
             first == {x \in S : place(x) < m}
             at == [x \in S |-> place(x)]
             in == [x \in first |-> place(x)]
  <1>1. n \in Nat
    BY FS_CardinalityType
  <1>2. ASSUME NEW x \in S
        PROVE  IsFiniteSet(Before(x)) /\ place(x) \in 0..(n - 1)
    <2>1. Before(x) \in SUBSET S /\ x \notin Before(x)
      OBVIOUS
    <2>2. Before(x) # S
      BY <2>1
    <2> HIDE DEF Before
    <2>3. IsFiniteSet(Before(x)) /\ place(x) <= n /\ place(x) # n
      BY <2>1, <2>2, FS_Subset
    <2>4. place(x) \in Nat
      BY <2>3, FS_CardinalityType
    <2> HIDE DEF place, n
    <2> QED
      BY <1>1, <2>3, <2>4
  <1>3. ASSUME NEW x \in S, NEW y \in S, y < x
        PROVE  place(y) < place(x)
    <2>1. Before(y) \in SUBSET Before(x) /\ y \in Before(x) /\ y \notin Before(y)
      <3>1. x \in Int /\ y \in Int /\ \A z \in S : z \in Int
        OBVIOUS
      <3>2. \A z \in S : z < y => z < x
        BY <1>3, <3>1
      <3>3. Before(y) \in SUBSET Before(x)
        BY <3>2
      <3>4. y < x /\ ~ y < y
        BY <1>3, <3>1
      <3> QED
        BY <3>3, <3>4
    <2>2. Before(y) # Before(x)
      BY <2>1
    <2>3. IsFiniteSet(Before(x)) /\ place(x) \in 0..(n - 1) /\ place(y) \in 0..(n - 1)
      BY <1>2
    <2> HIDE DEF Before, n
    <2>4. place(y) <= place(x) /\ place(y) # place(x)
      BY <2>1, <2>2, <2>3, FS_Subset
    <2> HIDE DEF place
    <2> QED
      BY <1>1, <2>3, <2>4
  <1>4. \A x, y \in S : place(x) = place(y) => x = y
    <2> SUFFICES ASSUME NEW x \in S, NEW y \in S, place(x) = place(y), x # y
                 PROVE  FALSE
      OBVIOUS
    <2>1. x < y \/ y < x
      OBVIOUS
    <2>2. place(x) \in Int /\ place(y) \in Int
      BY <1>1, <1>2
    <2> HIDE DEF place
    <2> QED
      BY <1>3, <2>1, <2>2
  <1> HIDE DEF place, n
  <1>5. at \in Injection(S, 0..(n - 1))
    <2>1. at \in [S -> 0..(n - 1)]
      BY <1>2
    <2> QED
      BY <1>4, <2>1 DEF Injection, IsInjective
  <1>6. IsFiniteSet(0..(n - 1)) /\ Cardinality(0..(n - 1)) = n
    BY <1>1, FS_Interval
  <1>7. IsFiniteSet(0..(m - 1)) /\ Cardinality(0..(m - 1)) = m
    BY FS_Interval
  <1>8. at \in Surjection(S, 0..(n - 1))
    <2> HIDE DEF at
    <2> QED
      BY <1>5, <1>6, FS_Injection DEF n
  <1>9. in \in [first -> 0..(m - 1)]
    <2> SUFFICES ASSUME NEW x \in S, place(x) < m
                 PROVE  place(x) \in 0..(m - 1)
      OBVIOUS
    <2>1. place(x) \in 0..(n - 1)
      BY <1>2
    <2> HIDE DEF Before
    <2> QED
      BY <1>1, <2>1
  <1>10. in \in Injection(first, 0..(m - 1))
    BY <1>4, <1>9 DEF Injection, IsInjective
  <1>11. in \in Surjection(first, 0..(m - 1))
    <2>1. ASSUME NEW i \in 0..(m - 1)
          PROVE  \E x \in first : in[x] = i
      <3>1. i \in 0..(n - 1)
        <4>1. m <= n
          BY DEF n
        <4> QED
          BY <1>1, <4>1
      <3>2. PICK x \in S : at[x] = i
        BY <1>8, <3>1 DEF Surjection
      <3>3. place(x) = i /\ i < m
        BY <3>2
      <3> QED
        BY <3>3
    <2> HIDE DEF first, in
    <2> QED
      BY <1>9, <2>1 DEF Surjection
  <1>12. IsFiniteSet(first) /\ Cardinality(first) = m
    <2> HIDE DEF first, in
    <2> QED
      BY <1>7, <1>10, <1>11, FS_Injection
  <1> QED
    BY <1>12 DEF first, place

(* No day has fewer topics than another.                                   *)
LEMMA DaysAreEqual ==
  ASSUME NEW n \in Nat \ {0}, NEW days \in Nat, NEW d \in 0..(days - 1)
  PROVE  /\ IsFiniteSet(TopicsOf(n, days, d))
         /\ Cardinality(TopicsOf(n, days, d)) = PerDay(n)
         /\ n <= 3 => TopicsOf(n, days, d) = 0..(n - 1)
  <1> DEFINE D == Dealt(n, days, d)
             c == Cardinality(D)
             T == 0..(n - 1)
             missing == T \ D
             M == MadeUp(n, D)
             per == PerDay(n)
  <1>1. per \in Nat /\ per <= n /\ (n <= 3 => per = n)
    BY DEF PerDay, TopicsPerDay
  <1>2. IsFiniteSet(T) /\ Cardinality(T) = n
    BY FS_Interval
  <1>3. D \in SUBSET T
    <2>1. days * PerDay(n) \in Nat
      BY PerDayType
    <2>2. \A p \in Nat : p % n \in 0..(n - 1)
      OBVIOUS
    <2> QED
      BY <2>1, <2>2 DEF Dealt
  <1> HIDE DEF D, T, per
  <1>4. IsFiniteSet(D) /\ c \in Nat /\ c <= n
    BY <1>2, <1>3, FS_Subset, FS_CardinalityType
  <1>5. c <= per
    <2>1. CASE n <= 3
      BY <1>1, <1>4, <2>1
    <2>2. CASE n > 3
      <3>1. c \in 1..3 /\ per = 3
        BY <2>2, DealtCount, DealtIs DEF D, per
      <3> QED
        BY <3>1
    <2> QED
      BY <2>1, <2>2
  <1>6. IsFiniteSet(missing) /\ Cardinality(missing) = n - c
    <2>1. IsFiniteSet(missing) /\ Cardinality(missing) = Cardinality(T) - Cardinality(T \cap D)
      BY <1>2, FS_Difference
    <2>2. T \cap D = D
      BY <1>3
    <2> QED
      BY <1>2, <2>1, <2>2
  <1>7. per - c \in Nat /\ per - c <= Cardinality(missing)
    BY <1>1, <1>4, <1>5, <1>6
  <1>8. M = {t \in missing : Cardinality({u \in missing : u < t}) < per - c}
    <2>1. M = {t \in missing : c + Cardinality({u \in missing : u < t}) < per}
      BY DEF MadeUp, T, per
    <2>2. ASSUME NEW t \in missing
          PROVE  Cardinality({u \in missing : u < t}) \in Nat
      <3>1. {u \in missing : u < t} \in SUBSET missing
        OBVIOUS
      <3> HIDE DEF missing
      <3> QED
        BY <1>6, <3>1, FS_Subset, FS_CardinalityType
    <2> HIDE DEF missing, c
    <2>3. \A k \in Nat : c + k < per <=> k < per - c
      BY <1>1, <1>4
    <2> QED
      BY <2>1, <2>2, <2>3
  <1>9. IsFiniteSet(M) /\ Cardinality(M) = per - c
    <2>1. missing \subseteq Int
      BY DEF T
    <2> HIDE DEF missing, c, M
    <2> QED
      BY <1>6, <1>7, <1>8, <2>1, FirstOfNumbers
  <1>10. M \cap D = {} /\ M \in SUBSET T
    BY <1>8
  <1> HIDE DEF M, missing
  <1>11. IsFiniteSet(D \cup M) /\ Cardinality(D \cup M) = per
    <2>1. IsFiniteSet(D \cup M) /\ Cardinality(D \cup M) = c + Cardinality(M) - Cardinality(D \cap M)
      BY <1>4, <1>9, FS_Union
    <2>2. Cardinality(D \cap M) = 0
      BY <1>10, FS_EmptySet
    <2> HIDE DEF c
    <2> QED
      BY <1>1, <1>4, <1>9, <2>1, <2>2
  <1>12. TopicsOf(n, days, d) = D \cup M
    BY DEF TopicsOf, D, M
  <1>13. n <= 3 => D \cup M = T
    <2>1. D \cup M \in SUBSET T
      BY <1>3, <1>10
    <2> QED
      BY <1>1, <1>2, <1>11, <2>1, FS_Subset
  <1> QED
    BY <1>11, <1>12, <1>13 DEF per, T

LEMMA NumbersBelow ==
  ASSUME NEW u \in Nat
  PROVE  IsFiniteSet(0..(u - 1)) /\ Cardinality(0..(u - 1)) = u
  <1>1. 0 \in Int /\ u - 1 \in Int
    OBVIOUS
  <1>2. IsFiniteSet(0..(u - 1)) /\ Cardinality(0..(u - 1)) = IF 0 > u - 1 THEN 0 ELSE (u - 1) - 0 + 1
    BY <1>1, FS_Interval
  <1> QED
    BY <1>2

(* Where a topic makes up for another, the one before it is on every day.  *)
LEMMA MadeUpAfterAll ==
  ASSUME NEW n \in Nat, n > 3, NEW days \in Nat, NEW t \in 1..(n - 1),
         NEW d \in 0..(days - 1), t \in MadeUp(n, Dealt(n, days, d)),
         NEW e \in 0..(days - 1)
  PROVE  t - 1 \in TopicsOf(n, days, e)
  <1> DEFINE D(x) == Dealt(n, days, x)
             lacks(u, x) == {v \in (0..(n - 1)) \ D(x) : v < u}
             size == Cardinality(D(d))
  <1>1. /\ size \in 1..3 /\ Cardinality(D(e)) = size
        /\ size = IF days % n = 0 THEN 1 ELSE IF (2 * days) % n = 0 THEN 2 ELSE 3
    BY DealtCount
  <1>2. PerDay(n) = 3
    BY DealtIs
  <1>3. t \notin D(d) /\ size + Cardinality(lacks(t, d)) < 3
    BY <1>2 DEF MadeUp
  <1>4. ASSUME NEW u \in 0..(n - 1), NEW x \in 0..(days - 1)
        PROVE  /\ lacks(u, x) = (0..(u - 1)) \ D(x)
               /\ IsFiniteSet(lacks(u, x)) /\ Cardinality(lacks(u, x)) \in 0..u
    <2>1. lacks(u, x) = (0..(u - 1)) \ D(x)
      OBVIOUS
    <2>2. IsFiniteSet(0..(u - 1)) /\ Cardinality(0..(u - 1)) = u
      BY NumbersBelow
    <2>3. lacks(u, x) \in SUBSET (0..(u - 1))
      BY <2>1
    <2> HIDE DEF lacks, D
    <2>4. IsFiniteSet(lacks(u, x)) /\ Cardinality(lacks(u, x)) <= u
      BY <2>2, <2>3, FS_Subset
    <2>5. Cardinality(lacks(u, x)) \in Nat
      BY <2>4, FS_CardinalityType
    <2> QED
      BY <2>1, <2>4, <2>5
  <1>5. ASSUME NEW u \in 0..(n - 1), size + Cardinality(lacks(u, e)) < 3
        PROVE  u \in TopicsOf(n, days, e)
    <2>1. u \notin D(e) => u \in MadeUp(n, D(e))
      BY <1>1, <1>2, <1>5 DEF MadeUp
    <2> QED
      BY <2>1 DEF TopicsOf
  <1>6. t \in 0..(n - 1) /\ t - 1 \in 0..(n - 1) /\ 0 \in 0..(n - 1)
    OBVIOUS
  <1> HIDE DEF D, lacks, size
  <1>7. CASE days % n = 0
    <2>1. size = 1 /\ D(d) = {d % n}
      BY <1>1, <1>7, DealtCount DEF D
    <2>2. Cardinality(lacks(t, d)) >= t - 1
      <3>1. lacks(t, d) = (0..(t - 1)) \ {d % n}
        BY <1>4, <1>6, <2>1
      <3>2. IsFiniteSet(0..(t - 1)) /\ Cardinality(0..(t - 1)) = t
        BY <1>6, NumbersBelow
      <3> DEFINE B == 0..(t - 1)
      <3> HIDE DEF B
      <3>3. Cardinality(B \ {d % n}) = IF d % n \in B THEN t - 1 ELSE t
        BY <3>2, FS_RemoveElement DEF B
      <3> QED
        BY <1>6, <3>1, <3>3 DEF B
    <2>3. t - 1 <= 1
      <3>1. Cardinality(lacks(t, d)) \in 0..t
        BY <1>4, <1>6
      <3> QED
        BY <1>3, <1>6, <2>1, <2>2, <3>1
    <2>4. Cardinality(lacks(t - 1, e)) \in 0..(t - 1)
      BY <1>4, <1>6
    <2>5. size + Cardinality(lacks(t - 1, e)) < 3
      BY <2>1, <2>3, <2>4
    <2> QED
      BY <1>5, <1>6, <2>5
  <1>8. CASE days % n # 0 /\ (2 * days) % n = 0
    <2>1. size = 2 /\ D(d) = {d % n, (d + days) % n}
      BY <1>1, <1>8, DealtCount DEF D
    <2>2. lacks(t, d) = {} /\ \A u \in 0..(t - 1) : u \in D(d)
      <3>1. Cardinality(lacks(t, d)) = 0 /\ IsFiniteSet(lacks(t, d))
        <4>1. Cardinality(lacks(t, d)) \in 0..t /\ IsFiniteSet(lacks(t, d))
          BY <1>4, <1>6
        <4> QED
          BY <1>3, <1>6, <2>1, <4>1
      <3>2. lacks(t, d) = {}
        BY <3>1, FS_EmptySet
      <3>3. (0..(t - 1)) \ D(d) = {}
        BY <1>4, <1>6, <3>2
      <3> QED
        BY <3>2, <3>3
    <2>3. CASE t = 1
      <3>1. Cardinality(lacks(0, e)) = 0
        <4>1. Cardinality(lacks(0, e)) \in 0..0
          BY <1>4, <1>6
        <4> QED
          BY <4>1
      <3>2. size + Cardinality(lacks(0, e)) < 3
        BY <2>1, <3>1
      <3> QED
        BY <1>5, <1>6, <2>3, <3>2
    <2>4. CASE t # 1
      <3> DEFINE x == d % n
                 y == (d + days) % n
      <3>1. {0, 1} \subseteq {x, y}
        BY <2>1, <2>2, <2>4
      <3>2. n \in Nat \ {0} /\ d \in Int /\ days \in Int
        OBVIOUS
      <3>3. days % n = IF x <= y THEN y - x ELSE n + y - x
        BY <3>2, ModSum
      <3>4. days = n * (days \div n) + (days % n) /\ days \div n \in Int
        BY <3>2, ModOf
      <3> DEFINE q == days \div n
                 r == days % n
      <3> HIDE DEF x, y, q, r
      <3>5. r = 1 \/ r = n - 1
        BY <3>1, <3>3 DEF r
      <3>6. CASE r = 1
        <4>1. 2 * days = n * (2 * q) + 2 /\ 2 * q \in Int /\ 2 \in 0..(n - 1)
          BY <3>4, <3>6 DEF q, r
        <4> QED
          BY <1>8, <3>2, <4>1, ModIs
      <3>7. CASE r = n - 1
        <4>1. 2 * days = n * (2 * q + 1) + (n - 2) /\ 2 * q + 1 \in Int /\ n - 2 \in 0..(n - 1)
          BY <3>4, <3>7 DEF q, r
        <4>2. (2 * days) % n = n - 2
          BY <3>2, <4>1, ModIs
        <4> QED
          BY <1>8, <4>2
      <3> QED
        BY <3>5, <3>6, <3>7
    <2> QED
      BY <2>3, <2>4
  <1>9. CASE days % n # 0 /\ (2 * days) % n # 0
    <2>1. Cardinality(lacks(t, d)) \in 0..t
      BY <1>4, <1>6
    <2> QED
      BY <1>1, <1>3, <1>6, <1>9, <2>1
  <1> QED
    BY <1>7, <1>8, <1>9

(* The deal of a topic goes before that of the next one: where a topic is  *)
(* dealt, the one before it was dealt the day before, or on the last day   *)
(* of the round before.                                                    *)
LEMMA DealtTheDayBefore ==
  ASSUME NEW n \in Nat, n > 3, NEW days \in Nat, NEW t \in 1..(n - 1),
         NEW d \in 0..(days - 1), t \in Dealt(n, days, d)
  PROVE  t - 1 \in Dealt(n, days, IF d = 0 THEN days - 1 ELSE d - 1)
  <1> DEFINE b == IF d = 0 THEN days - 1 ELSE d - 1
  <1>1. /\ PerDay(n) = 3 /\ b \in 0..(days - 1)
        /\ Dealt(n, days, d) = {d % n, (d + days) % n, (d + 2 * days) % n}
        /\ Dealt(n, days, b) = {b % n, (b + days) % n, (b + 2 * days) % n}
    <2>1. b \in 0..(days - 1)
      OBVIOUS
    <2> HIDE DEF b
    <2> QED
      BY <2>1, DealtIs
  <1>2. PICK a \in {d, d + days, d + 2 * days} : a % n = t
    BY <1>1
  <1>3. n \in Nat \ {0} /\ a \in Int /\ t # 0
    OBVIOUS
  <1>4. (a - 1) % n = t - 1
    BY <1>2, <1>3, ModBefore
  <1>5. a # 0
    <2>1. 0 = n * 0 + 0 /\ 0 \in 0..(n - 1) /\ 0 \in Int
      OBVIOUS
    <2>2. 0 % n = 0
      BY <1>3, <2>1, ModIs
    <2> QED
      BY <1>2, <1>3, <2>2
  <1>6. a - 1 \in {b, b + days, b + 2 * days}
    <2>1. CASE d = 0
      BY <1>2, <1>5, <2>1
    <2>2. CASE d # 0
      BY <1>2, <2>2
    <2> QED
      BY <2>1, <2>2
  <1> HIDE DEF b
  <1>7. (a - 1) % n \in {b % n, (b + days) % n, (b + 2 * days) % n}
    BY <1>6
  <1> QED
    BY <1>1, <1>4, <1>7 DEF b

(* So every topic is studied on as many days as the one after it.          *)
LEMMA SharesFall ==
  ASSUME NEW n \in Nat \ {0}, NEW days \in Nat, NEW t \in 1..(n - 1)
  PROVE  LET on(u) == {d \in 0..(days - 1) : u \in TopicsOf(n, days, d)}
         IN  Cardinality(on(t - 1)) >= Cardinality(on(t))
  <1> DEFINE Days == 0..(days - 1)
             on(u) == {d \in Days : u \in TopicsOf(n, days, d)}
  <1>1. IsFiniteSet(Days)
    BY FS_Interval
  <1>2. \A u \in Nat : on(u) \in SUBSET Days
    OBVIOUS
  <1>3. ASSUME NEW u \in Nat
        PROVE  IsFiniteSet(on(u)) /\ Cardinality(on(u)) \in Nat
    <2>1. on(u) \in SUBSET Days
      OBVIOUS
    <2> HIDE DEF on, Days
    <2> QED
      BY <1>1, <2>1, FS_Subset, FS_CardinalityType
  <1>4. t \in Nat /\ t - 1 \in Nat /\ t \in 0..(n - 1) /\ t - 1 \in 0..(n - 1)
    OBVIOUS
  <1>5. SUFFICES Cardinality(on(t)) <= Cardinality(on(t - 1))
    <2>1. Cardinality(on(t)) \in Nat /\ Cardinality(on(t - 1)) \in Nat
      BY <1>3, <1>4
    <2> HIDE DEF on
    <2>2. Cardinality(on(t - 1)) >= Cardinality(on(t))
      BY <1>5, <2>1
    <2> QED
      BY <2>2 DEF on
  <1>6. ASSUME \A d \in Days : t - 1 \in TopicsOf(n, days, d)
        PROVE  Cardinality(on(t)) <= Cardinality(on(t - 1))
    <2>1. on(t - 1) = Days
      BY <1>6
    <2>2. on(t) \in SUBSET on(t - 1)
      BY <2>1
    <2> HIDE DEF on
    <2> QED
      BY <1>3, <1>4, <2>2, FS_Subset
  <1>7. CASE n <= 3
    <2>1. \A d \in Days : TopicsOf(n, days, d) = 0..(n - 1)
      BY <1>7, DaysAreEqual
    <2>2. \A d \in Days : t - 1 \in TopicsOf(n, days, d)
      BY <1>4, <2>1
    <2> QED
      BY <1>6, <2>2
  <1>8. CASE n > 3 /\ \E d \in Days : t \in MadeUp(n, Dealt(n, days, d))
    <2>1. \A d \in Days : t - 1 \in TopicsOf(n, days, d)
      BY <1>8, MadeUpAfterAll
    <2> QED
      BY <1>6, <2>1
  <1>9. CASE n > 3 /\ ~ \E d \in Days : t \in MadeUp(n, Dealt(n, days, d))
    <2> DEFINE f == [d \in on(t) |-> IF d = 0 THEN days - 1 ELSE d - 1]
    <2>1. ASSUME NEW d \in on(t)
          PROVE  f[d] \in on(t - 1)
      <3>1. d \in Days /\ t \in Dealt(n, days, d)
        BY <1>9 DEF TopicsOf
      <3>2. t - 1 \in Dealt(n, days, IF d = 0 THEN days - 1 ELSE d - 1)
        BY <1>9, <3>1, DealtTheDayBefore
      <3>3. (IF d = 0 THEN days - 1 ELSE d - 1) \in Days
        BY <3>1
      <3> QED
        BY <3>2, <3>3 DEF TopicsOf
    <2>2. \A d, e \in on(t) : f[d] = f[e] => d = e
      <3> SUFFICES ASSUME NEW d \in Days, NEW e \in Days,
                          (IF d = 0 THEN days - 1 ELSE d - 1) = (IF e = 0 THEN days - 1 ELSE e - 1)
                   PROVE  d = e
        OBVIOUS
      <3> QED
        OBVIOUS
    <2>3. f \in Injection(on(t), on(t - 1))
      <3>1. f \in [on(t) -> on(t - 1)]
        BY <2>1
      <3> HIDE DEF on
      <3> QED
        BY <2>2, <3>1 DEF Injection, IsInjective
    <2> HIDE DEF on, f
    <2> QED
      BY <1>3, <1>4, <2>3, FS_Injection
  <1> QED
    BY <1>7, <1>8, <1>9

(* The study days share the topics fairly, whatever their number and that  *)
(* of the topics: every day has as many as another, although none twice,   *)
(* and a topic of higher priority is studied on no fewer days.             *)
THEOREM SharesAreFair == Spec => []FairShares
  <1>1. TypeOK => FairShares
    <2> SUFFICES ASSUME TypeOK, NEW i \in DOMAIN plans
                 PROVE  FairShares!(i)
      BY DEF FairShares
    <2> DEFINE p == plans[i]
    <2>1. p \in Plans
      BY DEF TypeOK
    <2>2. p.topics \in Nat \ {0} /\ StudyDays(p) \in Nat
      BY <2>1 DEF Plans, StudyDays
    <2>3. \A d \in 0..(StudyDays(p) - 1) :
            Cardinality(TopicsOf(p.topics, StudyDays(p), d)) = PerDay(p.topics)
      BY <2>2, DaysAreEqual
    <2>4. ASSUME NEW t \in 1..(p.topics - 1)
          PROVE  LET on(u) == {d \in 0..(StudyDays(p) - 1) : u \in TopicsOf(p.topics, StudyDays(p), d)}
                 IN  Cardinality(on(t - 1)) >= Cardinality(on(t))
      BY <2>2, SharesFall
    <2> QED
      BY <2>3, <2>4
  <1> QED
    BY <1>1, TypeCorrect, PTL
=============================================================================
