----------------------------- MODULE ServerFeed -----------------------------
(***************************************************************************)
(* What the server shows one user from day to day: the next question, the  *)
(* list, the statistics (services/practice.py), the plan and what it asks  *)
(* for today (services/plan.py, services/planner.py), as the answers come  *)
(* in, online or days later from a device that was offline.                *)
(*                                                                         *)
(* Every request is one step here; requests that run at the same time are  *)
(* the matter of ServerPractice and ServerAccount.  Time is counted in     *)
(* days and an answer has the day it was given on; those of one day arrive *)
(* in order.  Questions and topics are numbered in the order of their      *)
(* slugs and codes.  Weights count tenths, scores halves; how far an       *)
(* answer moves a rating, and which interval the scheduler chooses, are    *)
(* any of given sets (see ReviewSchedule for the intervals).               *)
(*                                                                         *)
(* The bank does not change meanwhile: a content seed that deletes a       *)
(* question takes its answers along and leaves the counters as they are.   *)
(***************************************************************************)
EXTENDS Integers, Sequences, FiniteSets, FiniteSetsExt, SequencesExt, Functions

CONSTANTS
  Bank,              (* questions: specs, topic, min, peak, max, frequency  *)
  Weights,           (* [specialization -> [topic -> [grade -> weight]]]    *)
  None,
  Aims,              (* grades people prepare for                           *)
  Qualities,         (* qualities of answers, from 0 to 5                   *)
  Moves, Intervals,  (* moves of a rating, days to a review that was passed *)
  Deadlines,         (* days to the interviews asked for                    *)
  CandidateLimit, MinAnswers, MaxBackdating, TopicsPerDay, MaxPlanDays,
  Capacity,          (* daily capacity asked for                            *)
  LastDay,           (* bound: days the clock runs                          *)
  MaxAnswers         (* bound: answers                                      *)

Specs     == DOMAIN Weights
Questions == DOMAIN Bank
Topics    == {Bank[q].topic : q \in Questions}

Profiles == [target: Aims, count: Nat]     (* rows of user_specializations *)
Ratings  == [rating: Int, count: Nat]      (* rows of user_topic_ratings   *)

ASSUME FeedAssumption ==
  /\ None \notin Int \cup Profiles \cup Ratings \cup {"not_enough_data", "premium_required"}
  /\ IsFiniteSet(Specs) /\ IsFiniteSet(Questions) /\ Questions \subseteq Nat
  /\ \A q \in Questions : Bank[q].peak \in Int /\ Bank[q].frequency \in Nat
  /\ \A s \in Specs : \A t \in DOMAIN Weights[s] : \A grade \in Aims : Weights[s][t][grade] \in Nat
  /\ Aims \subseteq Int /\ Qualities \subseteq 0..5
  /\ Moves \subseteq Int /\ Intervals \subseteq Nat \ {0} /\ Deadlines \subseteq Int
  /\ CandidateLimit \in Nat \ {0} /\ MinAnswers \in Nat /\ MaxBackdating \in Nat /\ Capacity \in Nat

VARIABLES
  premium,    (* users.is_premium                                           *)
  profile,    (* user_specializations: target and count, or None            *)
  rating,     (* user_topic_ratings: [specialization -> [topic -> row]]     *)
  answers,    (* user_answers: day, score and number of the last, by        *)
              (* specialization and question                                *)
  due,        (* review_states: the day a question is due, or None          *)
  plan,       (* study_plans: the active plan of a specialization, or None  *)
  day,        (* clock                                                      *)
  unordered   (* history: questions with an answer that arrived after a     *)
              (* later one                                                  *)

vars == <<premium, profile, rating, answers, due, plan, day, unordered>>

Linked(s) == {q \in Questions : s \in Bank[q].specs}
InRange(q, grade) == Bank[q].min <= grade /\ grade <= Bank[q].max
NoAnswers == [at |-> None, score |-> None, count |-> 0]

-----------------------------------------------------------------------------
(* services/rating.py                                                      *)

StartRating == 1200
GradeThresholds == <<1000, 1150, 1300, 1450, 1600, 1800>>

grade_from_rating(num, den) ==
  Cardinality({i \in DOMAIN GradeThresholds : num >= den * GradeThresholds[i]})
score_from_quality(quality) == IF quality >= 4 THEN 2 ELSE IF quality = 3 THEN 1 ELSE 0

(* 1 - normalized_rating, in eight-hundredths.                             *)
Gap(r) == 800 - (IF r < 1000 THEN 0 ELSE IF r > 1800 THEN 800 ELSE r - 1000)

_topic_weights(s, grade) == [t \in DOMAIN Weights[s] |-> Weights[s][t][grade]]
_topic_ratings(s) ==
  [t \in {t \in Topics : rating[s][t] # None} |-> rating[s][t].rating]
RatingOf(s, t) == IF rating[s][t] = None THEN StartRating ELSE rating[s][t].rating

(* The weighted mean of the ratings, as a fraction; None without a weight. *)
overall_rating(ratings, weights) ==
  LET counted == {t \in DOMAIN ratings \cap DOMAIN weights : weights[t] > 0}
      den     == SumFunctionOnSet(weights, counted)
  IN  IF den = 0 THEN None
      ELSE [num |-> SumFunction([t \in counted |-> ratings[t] * weights[t]]), den |-> den]

-----------------------------------------------------------------------------
(* GET /practice/next                                                      *)

feed_grade(s) == profile[s].target
_answered == {q \in Questions : \E s \in Specs : answers[s][q].count > 0}
(* Mutant: what is due by tomorrow.                                        *)
DueByTomorrow(s) == {q \in Linked(s) : due[q] # None /\ due[q] <= day + 1}

DueNow(s) == {q \in Linked(s) : due[q] # None /\ due[q] <= day}

_next_due_question(s) ==
  {q \in DueNow(s) : \A p \in DueNow(s) : due[q] < due[p] \/ (due[q] = due[p] /\ q <= p)}

(* A topic without a weight weighs one tenth; 420 makes a whole number.    *)
_priority(s, q, grade) ==
  LET weights  == _topic_weights(s, grade)
      distance == IF Bank[q].peak > grade THEN Bank[q].peak - grade ELSE grade - Bank[q].peak
  IN  (IF Bank[q].topic \in DOMAIN weights THEN weights[Bank[q].topic] ELSE 1)
        * Gap(RatingOf(s, Bank[q].topic)) * (420 \div (1 + distance)) * Bank[q].frequency

(* Mutant: new is what was not answered in this specialization.            *)
NewInSpecialization(s, grade) ==
  {q \in Linked(s) : InRange(q, grade) /\ answers[s][q].count = 0}

NewFor(s, grade) == {q \in Linked(s) : InRange(q, grade) /\ q \notin _answered}

(* The limit picks any of the candidates: the query has no order.          *)
_next_new_question(s, grade) ==
  LET limit      == Min({CandidateLimit, Cardinality(NewFor(s, grade))})
      Above(p, q) == LET a == _priority(s, p, grade)
                         b == _priority(s, q, grade) IN a > b \/ (a = b /\ p > q)
  IN  {CHOOSE q \in c : \A p \in c \ {q} : Above(q, p) :
         c \in kSubset(limit, NewFor(s, grade)) \ {{}}}

(* The questions that may come; none is the answer 404.                    *)
next_question(s) ==
  IF DueNow(s) # {}
  THEN {[question |-> q, is_review |-> TRUE, due_at |-> due[q]] : q \in _next_due_question(s)}
  ELSE {[question |-> q, is_review |-> FALSE, due_at |-> None] :
          q \in _next_new_question(s, feed_grade(s))}

(* GET /practice/questions and /practice/questions/{id}                    *)
_answer_index(s) == answers[s]

question_list(s) ==
  [q \in Linked(s) |->
     [status |-> _answer_index(s)[q].score, count |-> _answer_index(s)[q].count,
      at |-> _answer_index(s)[q].at, due_at |-> due[q],
      in_grade_range |-> InRange(q, feed_grade(s))]]

(* The totals above the list; a question counts by its last answer.        *)
from_score(score) == IF score = 2 THEN "correct" ELSE IF score = 1 THEN "partial" ELSE "wrong"
QuestionListResponse(s) ==
  LET list == question_list(s)
      answered == {q \in DOMAIN list : list[q].count > 0}
      of(status) == Cardinality({q \in answered : from_score(list[q].status) = status})
  IN  [total |-> Cardinality(DOMAIN list), answered |-> Cardinality(answered),
       correct |-> of("correct"), partial |-> of("partial"), wrong |-> of("wrong")]

question_by_id(s, q) == [question |-> q, is_review |-> due[q] # None, due_at |-> due[q]]

(* GET /practice/stats                                                     *)
_estimate_lock(s) ==
  IF profile[s].count < MinAnswers THEN "not_enough_data"
  ELSE IF ~ premium THEN "premium_required" ELSE None

Overall(s) == overall_rating(_topic_ratings(s), _topic_weights(s, profile[s].target))
GradeOf(fraction) == IF fraction = None THEN None ELSE grade_from_rating(fraction.num, fraction.den)

stats(s) ==
  [answers_count |-> profile[s].count,
   topics |-> [t \in {t \in Topics : rating[s][t] # None} |->
                 [grade |-> grade_from_rating(rating[s][t].rating, 1),
                  answers_count |-> rating[s][t].count]],
   overall_grade |-> IF _estimate_lock(s) # None THEN None ELSE GradeOf(Overall(s)),
   locked_reason |-> _estimate_lock(s)]

-----------------------------------------------------------------------------
(* services/planner.py                                                     *)

plan_days(today, interview) == today..(interview - 1)
PlanError(today, interview) == interview <= today \/ interview - today > MaxPlanDays

(* The topics with a weight, the weightiest and weakest first.             *)
Ranked(s, grade) ==
  LET weights == _topic_weights(s, grade)
      Before(t, u) == LET a == weights[t] * Gap(RatingOf(s, t))
                          b == weights[u] * Gap(RatingOf(s, u)) IN a > b \/ (a = b /\ t < u)
  IN  SetToSortSeq({t \in DOMAIN weights : weights[t] > 0}, Before)

(* The topics over and over until the slots are full, slot p on day p      *)
(* modulo the days; a day left short is filled from the top.               *)
_distribute(ranked, count) ==
  LET n       == Len(ranked)
      per_day == Min({TopicsPerDay, n})
      Dealt(d) == {ranked[1 + (p % n)] : p \in {p \in 0..(count * per_day - 1) : p % count = d}}
      Filled(d) == LET spare == SelectSeq(ranked, LAMBDA t : t \notin Dealt(d))
                   IN  Dealt(d) \cup {spare[i] : i \in 1..(per_day - Cardinality(Dealt(d)))}
  IN  [d \in 0..(count - 1) |-> Filled(d)]

ReviewDay == [topics |-> {}, new_questions |-> 0, review_only |-> TRUE]

build_plan(ranked, days) ==
  LET first == Min(days)
      study == Cardinality(days) - 1
  IN  [d \in days |->
         IF d = first + study THEN ReviewDay
         ELSE [topics |-> _distribute(ranked, study)[d - first],
               new_questions |-> Capacity, review_only |-> FALSE]]

(* GET /plan/today                                                         *)
_count_due_reviews(s) == Cardinality(DueNow(s))

(* Mutant: reviews do not count against the norm.                          *)
NormWithoutReviews(s) == plan[s].days[day].new_questions

capacity_left(s) == Max({0, plan[s].days[day].new_questions - _count_due_reviews(s)})

_pick_new_questions(s, limit) ==
  LET today == plan[s].days[day]
      open  == {q \in Linked(s) : /\ Bank[q].topic \in today.topics
                                  /\ InRange(q, plan[s].target) /\ q \notin _answered}
      Before(p, q) == \/ Bank[p].frequency > Bank[q].frequency
                      \/ Bank[p].frequency = Bank[q].frequency /\ p < q
  IN  {q \in open : Cardinality({p \in open : Before(p, q)}) < limit}

HasToday(s) == premium /\ plan[s] # None /\ day \in DOMAIN plan[s].days

today(s) ==
  [due_reviews   |-> _count_due_reviews(s),
   new_questions |-> IF plan[s].days[day].review_only \/ capacity_left(s) = 0 THEN {}
                     ELSE _pick_new_questions(s, capacity_left(s))]
total_target(s) == today(s).due_reviews + Cardinality(today(s).new_questions)

-----------------------------------------------------------------------------
Init ==
  /\ premium \in BOOLEAN
  /\ profile = [s \in Specs |-> None]
  /\ rating  = [s \in Specs |-> [t \in Topics |-> None]]
  /\ answers = [s \in Specs |-> [q \in Questions |-> NoAnswers]]
  /\ due     = [q \in Questions |-> None]
  /\ plan    = [s \in Specs |-> None]
  /\ day = 0 /\ unordered = {}

(* PATCH /me: the target is the one given, or else one's own grade.        *)
set_specialization(s, target) ==
  /\ profile' = [profile EXCEPT ![s] =
                   [target |-> target, count |-> IF @ = None THEN 0 ELSE @.count]]
  /\ UNCHANGED <<premium, rating, answers, due, plan, day, unordered>>

(* The day of an answer: what a device claims, within bounds.              *)
_resolve_answered_at(claimed) ==
  IF claimed = None \/ claimed > day THEN day ELSE Max({claimed, day - MaxBackdating})

AnswersOf(s) == SumFunction([q \in Questions |-> answers[s][q].count])
Answered == SumFunction([s \in Specs |-> AnswersOf(s)])
LastAt(q) == Max({-1} \cup ({answers[s][q].at : s \in Specs} \ {None}))

(* An answer is stored: the log, the rating of its topic, the counter and  *)
(* the review, which is due a day after a failure.  The list shows the     *)
(* answer given last, the review follows the answer that arrived last.     *)
submit_answer(s, q, quality, claimed, move, interval) ==
  LET at    == _resolve_answered_at(claimed)
      score == score_from_quality(quality)
      t     == Bank[q].topic
      later == answers[s][q].at = None \/ answers[s][q].at <= at
  IN  /\ profile[s] # None /\ Answered < MaxAnswers
      /\ (score = 2 => move > 0) /\ (score = 0 => move < 0)
      /\ answers' = [answers EXCEPT ![s][q] =
                       [at |-> IF later THEN at ELSE @.at,
                        score |-> IF later THEN score ELSE @.score, count |-> @.count + 1]]
      /\ rating' = [rating EXCEPT ![s][t] =
                      [rating |-> RatingOf(s, t) + move,
                       count  |-> IF @ = None THEN 1 ELSE @.count + 1]]
      /\ profile' = [profile EXCEPT ![s].count = @ + 1]
      /\ due' = [due EXCEPT ![q] = at + (IF quality < 3 THEN 1 ELSE interval)]
      /\ unordered' = IF at < LastAt(q) THEN unordered \cup {q} ELSE unordered
      /\ UNCHANGED <<premium, plan, day>>

(* POST /plan: a new plan takes the place of the active one.               *)
create(s, deadline) ==
  /\ premium /\ profile[s] # None
  /\ ~ PlanError(day, day + deadline)
  /\ Ranked(s, profile[s].target) # <<>>
  /\ plan' = [plan EXCEPT ![s] =
                [target |-> profile[s].target,
                 days   |-> build_plan(Ranked(s, profile[s].target), plan_days(day, day + deadline))]]
  /\ UNCHANGED <<premium, profile, rating, answers, due, day, unordered>>

NextDay == /\ day < LastDay /\ day' = day + 1
           /\ UNCHANGED <<premium, profile, rating, answers, due, plan, unordered>>

Next ==
  \/ \E s \in Specs, target \in Aims : set_specialization(s, target)
  \/ \E s \in Specs, q \in Questions, quality \in Qualities, claimed \in (0..day + 1) \cup {None},
        move \in Moves, interval \in Intervals :
       submit_answer(s, q, quality, claimed, move, interval)
  \/ \E s \in Specs, deadline \in Deadlines : create(s, deadline)
  \/ NextDay

Spec == Init /\ [][Next]_vars

-----------------------------------------------------------------------------
Chosen == {s \in Specs : profile[s] # None}

(* The endpoints tell one story, though each reads other tables by other   *)
(* keys.  A review the feed gives is due in the list and opens as a review *)
(* from there; a new question was never answered, is in the range of the   *)
(* list and has no review; when the feed has run dry, every question in    *)
(* range is answered somewhere and waits for its day.  A question the list *)
(* shows as answered has a review; one that it does not, and that has one, *)
(* was answered in another specialization.  The statistics count the       *)
(* answers of the log and of the ratings, and the grade they give, once    *)
(* there is data for it, is between those of the topics.                   *)
EndpointsAgree ==
  \A s \in Chosen :
    LET list == question_list(s)
        st   == stats(s)
        totals == QuestionListResponse(s)
    IN  /\ \A n \in next_question(s) :
             LET item == list[n.question]
             IN  /\ n.due_at = item.due_at
                 /\ n.is_review = question_by_id(s, n.question).is_review
                 /\ n.is_review => n.due_at <= day
                 /\ ~ n.is_review => item.in_grade_range /\ item.count = 0
        /\ next_question(s) = {} =>
             \A q \in DOMAIN list : list[q].in_grade_range => list[q].due_at # None /\ list[q].due_at > day
        /\ \A q \in DOMAIN list :
             list[q].due_at # None <=> \E r \in Specs : answers[r][q].count > 0
        /\ totals.answered = totals.correct + totals.partial + totals.wrong
        /\ totals.answered <= totals.total /\ totals.answered <= st.answers_count
        /\ st.answers_count = AnswersOf(s)
        /\ st.answers_count = SumFunction([t \in DOMAIN st.topics |-> st.topics[t].answers_count])
        /\ st.overall_grade # None =>
             /\ st.answers_count >= MinAnswers
             /\ \E t \in DOMAIN st.topics : st.topics[t].grade <= st.overall_grade
             /\ \E t \in DOMAIN st.topics : st.topics[t].grade >= st.overall_grade

(* Today's plan asks for no more new questions than the norm leaves beside *)
(* the reviews that are due, never for one the feed would call a review,   *)
(* and for none outside the grade range of the list, unless the target was *)
(* changed after the plan was made.                                        *)
TodayWithinNorm ==
  \A s \in {s \in Chosen : HasToday(s)} :
    /\ total_target(s) <= Max({plan[s].days[day].new_questions, Cardinality(DueNow(s))})
    /\ \A q \in today(s).new_questions :
         LET item == question_list(s)[q]
         IN  /\ item.count = 0 /\ item.due_at = None
             /\ plan[s].target = profile[s].target => item.in_grade_range

(* A question answered today is not served again today, by the feed of any *)
(* specialization, unless its answers have arrived out of order: the       *)
(* review follows the answer that arrived last (practice.py:311-314).      *)
AnsweredRests ==
  \A s \in Chosen : \A n \in next_question(s) :
    n.question \notin unordered => LastAt(n.question) < day
=============================================================================
