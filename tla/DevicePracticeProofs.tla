------------------------ MODULE DevicePracticeProofs ------------------------
(* Proofs about DevicePractice, for every set of controllers and questions *)
(* and every value of the bounds.                                          *)
EXTENDS DevicePractice, FiniteSetTheorems, TLAPS

(* The values the tables and the memory start from have their types, and   *)
(* folding an attempt into a bag gives a bag.                              *)
LEMMA StartTypes ==
  ASSUME DeviceAssumption
  PROVE  /\ NoAnswers \in [Attempts -> MaybeQ]
         /\ NoRatings \in [Topics -> Bags]
         /\ NoReviews \in [Questions -> Bags]
         /\ NoJob \in Jobs /\ NoFetch \in Fetches
         /\ 0 \in 0..MaxAttempts /\ None \in MaybeQ
         /\ \A p \in Phases, b \in BOOLEAN : Frame(p, b) \in Frames
         /\ {"closed", "loading", "answering", "reviewing", "exhausted", "failed"} = Phases
  BY DEF NoAnswers, NoRatings, NoReviews, NoJob, NoFetch, Frame, DeviceAssumption,
         MaybeQ, Bags, EmptyBag, Jobs, Fetches, Frames, Phases, Steps, Stages

LEMMA FoldType ==
  ASSUME NEW bag \in Bags, NEW s
  PROVE  Fold(bag, s) \in Bags
  <1>1. \A x \in Attempts : bag[x] \in Nat /\ bag[x] + 1 \in Nat
    BY DEF Bags
  <1>2. CASE s \in Attempts
    BY <1>1, <1>2 DEF Fold, Bags
  <1>3. CASE s \notin Attempts
    <2>1. Fold(bag, s) = bag
      BY <1>3 DEF Fold, Bags
    <2>2. QED
      BY <2>1
  <1>4. QED
    BY <1>2, <1>3

(* Record updates that keep a call in flight a call in flight.            *)
LEMMA JobUpdates ==
  ASSUME NEW j \in Jobs, NEW step \in Steps, NEW bag \in Bags
  PROVE  /\ [j EXCEPT !.step = step] \in Jobs
         /\ [j EXCEPT !.step = step, !.ratings = bag] \in Jobs
         /\ [j EXCEPT !.step = step, !.reviews = bag] \in Jobs
  BY DEF Jobs

LEMMA InitTyped == DeviceAssumption /\ Init => Typed
  <1> SUFFICES ASSUME DeviceAssumption, Init PROVE Typed
    OBVIOUS
  <1>1. Frame("closed", FALSE) \in Frames /\ "closed" \in Phases
    BY StartTypes
  <1>2. /\ phase \in [Controllers -> Phases] /\ frame \in [Controllers -> Frames]
        /\ job \in [Controllers -> Jobs] /\ fetch \in [Controllers -> [Slots -> Fetches]]
    BY <1>1, StartTypes DEF Init, ForAll
  <1>3. lastAttempt \in 0..MaxAttempts /\ issued \in [Attempts -> MaybeQ]
    BY StartTypes DEF Init
  <1>4. QED
    BY <1>2, <1>3, StartTypes DEF Init, Typed, ForAll

-----------------------------------------------------------------------------
(* The inductive invariant.  A call in flight answers a question under an  *)
(* id that was issued; so does the question on the screen; ids above       *)
(* lastAttempt stand for nothing yet.                                      *)

JobHasAttempt ==
  \A c \in Controllers : job[c].step # "idle" =>
    job[c].question \in Questions /\ job[c].attempt \in 1..lastAttempt

CurrentIsIssued ==
  \A c \in Controllers : current[c] # None =>
    attempt[c] \in 1..lastAttempt /\ issued[attempt[c]] = current[c]

LaterAttemptsAreFree == \A s \in Attempts : s > lastAttempt => issued[s] = None

AttemptInv ==
  /\ OneSubmission
  /\ AttemptHasOneQuestion
  /\ JobHasAttempt
  /\ CurrentIsIssued
  /\ LaterAttemptsAreFree

LEMMA LoadNextTyped ==
  ASSUME DeviceAssumption, Typed, NEW c \in Controllers, NEW skip \in MaybeQ,
         LoadNext(c, skip)
  PROVE  Typed'
  <1>1. PICK k \in Slots : fetch' = [fetch EXCEPT ![c][k] =
                                      [stage |-> "reading", skip |-> skip, next |-> None]]
    BY DEF LoadNext
  <1>2. [stage |-> "reading", skip |-> skip, next |-> None] \in Fetches
    BY DEF Fetches, Stages, MaybeQ
  <1>3. fetch' \in [Controllers -> [Slots -> Fetches]]
    BY <1>1, <1>2 DEF Typed
  <1>4. phase' \in [Controllers -> Phases] /\ result' \in [Controllers -> MaybeQ]
    BY DEF LoadNext, Typed, Phases, MaybeQ
  <1>5. loads' \in Nat
    BY DEF LoadNext, Typed
  <1>6. QED
    BY <1>3, <1>4, <1>5 DEF LoadNext, Typed, store

LEMMA StepTyped ==
  ASSUME DeviceAssumption, Typed, JobHasAttempt, [Next]_vars
  PROVE  Typed'
  <1> USE DEF Typed, store, screen, calls, bounds
  <1>1. ASSUME NEW c \in Controllers, Draw(c) PROVE Typed'
    <2>1. Frame(phase[c], submitting[c]) \in Frames
      BY DEF Frame, Frames
    <2>2. QED
      BY <1>1, <2>1 DEF Draw
  <1>2. ASSUME NEW c \in Controllers, Tap(c) PROVE Typed'
    <2>1. current[c] \in MaybeQ /\ None \in MaybeQ
      BY StartTypes
    <2>2. CASE Open(c) \/ TapSkip(c) \/ TapNext(c) \/ TapRetry(c)
      BY <2>1, <2>2, LoadNextTyped DEF Open, TapSkip, TapNext, TapRetry
    <2>3. CASE TapSubmit(c)
      <3> DEFINE new == [step |-> "read", attempt |-> attempt[c], question |-> current[c],
                         ratings |-> EmptyBag, reviews |-> EmptyBag]
      <3>1. EmptyBag \in Bags
        BY DEF EmptyBag, Bags
      <3>2. new \in Jobs
        BY <2>1, <3>1 DEF Jobs, Steps
      <3>3. job' = [job EXCEPT ![c] = new]
        BY <2>3 DEF TapSubmit
      <3> HIDE DEF new
      <3>4. QED
        BY <2>3, <3>2, <3>3 DEF TapSubmit
    <2>4. QED
      BY <1>2, <2>2, <2>3 DEF Tap
  <1>3. ASSUME NEW c \in Controllers, NEW k \in Slots, LoadRead(c, k) PROVE Typed'
    <2>1. PICK q \in Choices(c, fetch[c][k].skip) :
            fetch' = [fetch EXCEPT ![c][k] = [@ EXCEPT !.stage = "read", !.next = q]]
      BY <1>3 DEF LoadRead
    <2>2. Choices(c, fetch[c][k].skip) \subseteq MaybeQ
      BY DEF Choices, Candidates, MaybeQ, DeviceAssumption
    <2>3. "read" \in Stages
      BY DEF Stages
    <2>4. fetch' \in [Controllers -> [Slots -> Fetches]]
      <3>1. fetch[c][k] \in Fetches /\ q \in MaybeQ
        BY <2>2
      <3>2. [fetch[c][k] EXCEPT !.stage = "read", !.next = q] \in Fetches
        BY <3>1, <2>3 DEF Fetches
      <3>3. QED
        BY <2>1, <3>2
    <2>5. QED
      BY <1>3, <2>4 DEF LoadRead
  <1>4. ASSUME NEW c \in Controllers, NEW k \in Slots, Deliver(c, k) PROVE Typed'
    <2>1. fetch[c][k].next \in MaybeQ
      BY DEF Fetches
    <2>2. lastAttempt' \in 0..MaxAttempts /\ lastAttempt + 1 \in Attempts
      BY <1>4 DEF Deliver, NewAttempt, Attempts, DeviceAssumption
    <2>3. attempt' \in [Controllers -> 0..MaxAttempts]
      BY <1>4, <2>2 DEF Deliver, NewAttempt, Attempts
    <2>4. issued' \in [Attempts -> MaybeQ]
      BY <1>4, <2>1, <2>2 DEF Deliver, NewAttempt
    <2>5. phase' \in [Controllers -> Phases]
      BY <1>4 DEF Deliver, Phases
    <2>6. QED
      BY <1>4, <2>1, <2>2, <2>3, <2>4, <2>5, StartTypes DEF Deliver
  <1>5. ASSUME NEW c \in Controllers, NEW k \in Slots, Exhaust(c, k) PROVE Typed'
    BY <1>5, StartTypes DEF Exhaust, EmptyPhase, Phases
  <1>6. ASSUME NEW c \in Controllers, NEW k \in Slots, LoadFails(c, k) PROVE Typed'
    BY <1>6, StartTypes DEF LoadFails, Phases
  <1>7. ASSUME NEW c \in Controllers, ReadRating(c) PROVE Typed'
    <2>1. rating[topicOf[job[c].question]] \in Bags
      BY <1>7 DEF ReadRating, JobHasAttempt, DeviceAssumption
    <2>2. job' \in [Controllers -> Jobs]
      <3>1. StepAfter("read") \in Steps
        BY DEF StepAfter, Steps
      <3>2. QED
        BY <1>7, <2>1, <3>1, JobUpdates DEF ReadRating
    <2>3. QED
      BY <1>7, <2>2 DEF ReadRating
  <1>8. ASSUME NEW c \in Controllers, ReadSnapshot(c) PROVE Typed'
    <2>1. review[job[c].question] \in Bags
      BY <1>8 DEF ReadSnapshot, JobHasAttempt
    <2>2. job' \in [Controllers -> Jobs]
      <3>1. StepAfter("snapshot") \in Steps
        BY DEF StepAfter, Steps
      <3>2. QED
        BY <1>8, <2>1, <3>1, JobUpdates DEF ReadSnapshot
    <2>3. QED
      BY <1>8, <2>2 DEF ReadSnapshot
  <1>9. ASSUME NEW c \in Controllers, NEW step \in {"answer", "rating", "review"},
               AtStep(c, step)
        PROVE  job' \in [Controllers -> Jobs]
    <2>1. StepAfter(step) \in Steps
      BY DEF StepAfter, Steps
    <2>2. EmptyBag \in Bags
      BY DEF EmptyBag, Bags
    <2>3. QED
      BY <1>9, <2>1, <2>2, JobUpdates DEF AtStep
  <1>10. ASSUME NEW c \in Controllers, SaveAnswer(c) PROVE Typed'
    <2>1. job[c].question \in MaybeQ
      BY DEF Jobs
    <2>2. QED
      BY <1>9, <1>10, <2>1 DEF SaveAnswer
  <1>11. ASSUME NEW c \in Controllers, SaveTopicRating(c) PROVE Typed'
    <2>1. Fold(job[c].ratings, job[c].attempt) \in Bags
      BY FoldType DEF Jobs
    <2>2. QED
      BY <1>9, <1>11, <2>1 DEF SaveTopicRating
  <1>12. ASSUME NEW c \in Controllers, SaveReviewState(c) PROVE Typed'
    <2>1. Fold(job[c].reviews, job[c].attempt) \in Bags
      BY FoldType DEF Jobs
    <2>2. QED
      BY <1>9, <1>12, <2>1 DEF SaveReviewState
  <1>13. ASSUME NEW c \in Controllers, BumpAnswersCount(c) PROVE Typed'
    <2>1. answersCount' \in Nat
      BY <1>13 DEF BumpAnswersCount, BumpedCount
    <2>2. job[c].question \in MaybeQ
      BY DEF Jobs
    <2>3. job' \in [Controllers -> Jobs] /\ submitting' \in [Controllers -> BOOLEAN]
      BY <1>13, StartTypes DEF BumpAnswersCount, Settle
    <2>4. session' \in [Controllers -> Nat] /\ phase' \in [Controllers -> Phases]
      BY <1>13 DEF BumpAnswersCount, AnsweredPhase, Phases
    <2>5. result' \in [Controllers -> MaybeQ]
      BY <1>13, <2>2 DEF BumpAnswersCount
    <2>6. QED
      BY <1>13, <2>1, <2>2, <2>3, <2>4, <2>5 DEF BumpAnswersCount
  <1>14. ASSUME NEW c \in Controllers, SubmitFails(c) PROVE Typed'
    BY <1>14, StartTypes DEF SubmitFails, Settle
  <1>15. ASSUME NEW q \in Questions, Elapse(q) PROVE Typed'
    BY <1>15 DEF Elapse
  <1>16. CASE Onboard
    BY <1>16 DEF Onboard
  <1>17. CASE Wipe
    <2>1. wipes' \in Nat
      BY <1>17 DEF Wipe
    <2>2. /\ answers' \in [Attempts -> MaybeQ]
          /\ rating' \in [Topics -> Bags]
          /\ review' \in [Questions -> Bags]
      BY <1>17, StartTypes DEF Wipe
    <2>3. QED
      BY <1>17, <2>1, <2>2 DEF Wipe
  <1>18. CASE Crash
    <2>1. Frame("closed", FALSE) \in Frames /\ "closed" \in Phases
      BY StartTypes
    <2>2. /\ phase' \in [Controllers -> Phases] /\ frame' \in [Controllers -> Frames]
          /\ job' \in [Controllers -> Jobs] /\ fetch' \in [Controllers -> [Slots -> Fetches]]
      BY <1>18, <2>1, StartTypes DEF Crash, ForAll
    <2>3. /\ current' \in [Controllers -> MaybeQ] /\ result' \in [Controllers -> MaybeQ]
          /\ attempt' \in [Controllers -> 0..MaxAttempts]
          /\ submitting' \in [Controllers -> BOOLEAN]
          /\ session' \in [Controllers -> Nat] /\ crashes' \in Nat
      BY <1>18, StartTypes DEF Crash, ForAll
    <2>4. QED
      BY <1>18, <2>2, <2>3 DEF Crash
  <1>19. CASE UNCHANGED vars
    BY <1>19 DEF vars
  <1>20. QED
    BY <1>1, <1>2, <1>3, <1>4, <1>5, <1>6, <1>7, <1>8, <1>10, <1>11, <1>12, <1>13,
       <1>14, <1>15, <1>16, <1>17, <1>18, <1>19
       DEF Next, LoadStep, SubmitStep, Fail

(* A call that makes its next step: the flag, the attempt and the question *)
(* stay as they are.                                                       *)
LEMMA StepKeepsAttempt ==
  ASSUME Typed, AttemptInv, NEW c \in Controllers, job[c].step # "idle",
         NEW new \in Jobs, new.step # "idle",
         new.attempt = job[c].attempt, new.question = job[c].question,
         job' = [job EXCEPT ![c] = new],
         answers' \in [Attempts -> MaybeQ],
         \A s \in Attempts : answers'[s] \in {None, issued[s]},
         UNCHANGED <<submitting, current, attempt, issued, lastAttempt>>
  PROVE  AttemptInv'
  <1>1. \A d \in Controllers :
          /\ job'[d].step # "idle" <=> job[d].step # "idle"
          /\ job'[d].attempt = job[d].attempt
          /\ job'[d].question = job[d].question
    BY DEF Typed
  <1>2. QED
    BY <1>1 DEF AttemptInv, OneSubmission, AttemptHasOneQuestion, JobHasAttempt,
                CurrentIsIssued, LaterAttemptsAreFree

(* A call that ends gives the flag back.                                   *)
LEMMA SettleKeepsAttempt ==
  ASSUME Typed, AttemptInv, NEW c \in Controllers, Settle(c),
         UNCHANGED <<answers, current, attempt, issued, lastAttempt>>
  PROVE  AttemptInv'
  <1>1. /\ job'[c] = NoJob /\ submitting'[c] = FALSE
        /\ \A d \in Controllers \ {c} : job'[d] = job[d] /\ submitting'[d] = submitting[d]
    BY DEF Settle, Typed
  <1>2. NoJob.step = "idle"
    BY DEF NoJob
  <1>3. QED
    BY <1>1, <1>2 DEF AttemptInv, OneSubmission, AttemptHasOneQuestion, JobHasAttempt,
                      CurrentIsIssued, LaterAttemptsAreFree

LEMMA StepKeepsAttemptInv ==
  ASSUME DeviceAssumption, Typed, AttemptInv, [Next]_vars
  PROVE  AttemptInv'
  <1> USE DEF store, screen, calls, bounds
  <1> DEFINE core == <<answers, submitting, job, current, attempt, issued, lastAttempt>>
  <1>1. ASSUME UNCHANGED core PROVE AttemptInv'
    BY <1>1 DEF AttemptInv, OneSubmission, AttemptHasOneQuestion, JobHasAttempt,
                CurrentIsIssued, LaterAttemptsAreFree
  <1>2. ASSUME NEW c \in Controllers, Draw(c) PROVE AttemptInv'
    BY <1>1, <1>2 DEF Draw
  <1>3. ASSUME NEW c \in Controllers, Open(c) \/ TapSkip(c) \/ TapNext(c) \/ TapRetry(c)
        PROVE  AttemptInv'
    BY <1>1, <1>3 DEF Open, TapSkip, TapNext, TapRetry, LoadNext
  <1>4. ASSUME NEW c \in Controllers, TapSubmit(c) PROVE AttemptInv'
    <2>1. /\ job'[c].step = "read" /\ job'[c].attempt = attempt[c]
          /\ job'[c].question = current[c] /\ submitting'[c] = TRUE
          /\ \A d \in Controllers \ {c} : job'[d] = job[d] /\ submitting'[d] = submitting[d]
      BY <1>4 DEF TapSubmit, Typed
    <2>2. current[c] \in Questions
      BY <1>4 DEF TapSubmit, Typed, MaybeQ
    <2>3. attempt[c] \in 1..lastAttempt /\ issued[attempt[c]] = current[c]
      BY <1>4 DEF TapSubmit, AttemptInv, CurrentIsIssued
    <2>4. UNCHANGED <<answers, current, attempt, issued, lastAttempt>>
      BY <1>4 DEF TapSubmit
    <2>5. QED
      BY <2>1, <2>2, <2>3, <2>4
         DEF AttemptInv, OneSubmission, AttemptHasOneQuestion, JobHasAttempt,
             CurrentIsIssued, LaterAttemptsAreFree
  <1>5. ASSUME NEW c \in Controllers, NEW k \in Slots,
               LoadRead(c, k) \/ Exhaust(c, k) \/ LoadFails(c, k)
        PROVE  AttemptInv'
    BY <1>1, <1>5 DEF LoadRead, Exhaust, LoadFails
  <1>6. ASSUME NEW c \in Controllers, NEW k \in Slots, Deliver(c, k) PROVE AttemptInv'
    <2> DEFINE fresh == lastAttempt + 1
               q == fetch[c][k].next
    <2>1. /\ fresh \in Attempts /\ lastAttempt' = fresh
          /\ issued' = [issued EXCEPT ![fresh] = q]
          /\ attempt' = [attempt EXCEPT ![c] = fresh]
          /\ current' = [current EXCEPT ![c] = q]
          /\ UNCHANGED <<answers, submitting, job>>
      BY <1>6 DEF Deliver, NewAttempt, Attempts, Typed, DeviceAssumption
    <2>2. issued[fresh] = None /\ lastAttempt \in Nat
      BY <2>1 DEF AttemptInv, LaterAttemptsAreFree, Typed, Attempts
    <2>3. \A s \in 1..lastAttempt : s \in Attempts /\ s # fresh /\ issued'[s] = issued[s]
      BY <2>1, <2>2 DEF Typed, Attempts
    <2>4. issued'[fresh] = q
      BY <2>1 DEF Typed
    <2>5. AttemptHasOneQuestion'
      <3>1. \A s \in Attempts : answers[s] \in {None, issued'[s]}
        BY <2>1, <2>2 DEF AttemptInv, AttemptHasOneQuestion, Typed
      <3>2. QED
        BY <2>1, <2>3, <3>1 DEF AttemptInv, AttemptHasOneQuestion, JobHasAttempt
    <2>6. JobHasAttempt'
      BY <2>1, <2>2 DEF AttemptInv, JobHasAttempt
    <2>7. CurrentIsIssued'
      <3>1. ASSUME NEW d \in Controllers, current'[d] # None
            PROVE  attempt'[d] \in 1..lastAttempt' /\ issued'[attempt'[d]] = current'[d]
        <4>1. CASE d = c
          BY <2>1, <2>2, <2>4, <4>1 DEF Typed
        <4>2. CASE d # c
          <5>1. current'[d] = current[d] /\ attempt'[d] = attempt[d]
            BY <2>1, <4>2 DEF Typed
          <5>2. attempt[d] \in 1..lastAttempt /\ issued[attempt[d]] = current[d]
            BY <3>1, <5>1 DEF AttemptInv, CurrentIsIssued
          <5>3. QED
            BY <2>1, <2>2, <2>3, <5>1, <5>2
        <4>3. QED
          BY <4>1, <4>2
      <3>2. QED
        BY <3>1 DEF CurrentIsIssued
    <2>8. LaterAttemptsAreFree'
      BY <2>1, <2>2 DEF AttemptInv, LaterAttemptsAreFree, Typed, Attempts
    <2>9. OneSubmission'
      BY <2>1 DEF AttemptInv, OneSubmission
    <2>10. QED
      BY <2>5, <2>6, <2>7, <2>8, <2>9 DEF AttemptInv
  <1>7. ASSUME NEW c \in Controllers, NEW step, job[c].step # "idle",
               step \in {"read", "snapshot", "answer", "rating", "review"}
        PROVE  \A bag \in Bags :
                 /\ [job[c] EXCEPT !.step = StepAfter(step)] \in Jobs
                 /\ [job[c] EXCEPT !.step = StepAfter(step), !.ratings = bag] \in Jobs
                 /\ [job[c] EXCEPT !.step = StepAfter(step), !.reviews = bag] \in Jobs
                 /\ StepAfter(step) # "idle"
    <2>1. StepAfter(step) \in Steps /\ StepAfter(step) # "idle"
      BY <1>7 DEF StepAfter, Steps
    <2>2. job[c] \in Jobs
      BY DEF Typed
    <2>3. QED
      BY <2>1, <2>2, JobUpdates
  <1>8. EmptyBag \in Bags
    BY DEF EmptyBag, Bags
  <1>9. ASSUME NEW c \in Controllers, ReadRating(c) PROVE AttemptInv'
    <2> DEFINE bag == rating[topicOf[job[c].question]]
               new == [job[c] EXCEPT !.step = StepAfter("read"), !.ratings = bag]
    <2>1. job[c].step # "idle" /\ job' = [job EXCEPT ![c] = new]
      BY <1>9 DEF ReadRating
    <2>2. bag \in Bags
      BY <2>1 DEF Typed, AttemptInv, JobHasAttempt, DeviceAssumption
    <2>3. new \in Jobs /\ new.step = StepAfter("read") /\ StepAfter("read") # "idle"
          /\ new.attempt = job[c].attempt /\ new.question = job[c].question
      BY <1>7, <2>1, <2>2 DEF Typed, Jobs
    <2> HIDE DEF new
    <2>4. QED
      BY <1>9, <2>1, <2>3, StepKeepsAttempt
         DEF ReadRating, Typed, AttemptInv, AttemptHasOneQuestion
  <1>10. ASSUME NEW c \in Controllers, ReadSnapshot(c) PROVE AttemptInv'
    <2> DEFINE bag == review[job[c].question]
               new == [job[c] EXCEPT !.step = StepAfter("snapshot"), !.reviews = bag]
    <2>1. job[c].step # "idle" /\ job' = [job EXCEPT ![c] = new]
      BY <1>10 DEF ReadSnapshot
    <2>2. bag \in Bags
      BY <2>1 DEF Typed, AttemptInv, JobHasAttempt
    <2>3. new \in Jobs /\ new.step = StepAfter("snapshot") /\ StepAfter("snapshot") # "idle"
          /\ new.attempt = job[c].attempt /\ new.question = job[c].question
      BY <1>7, <2>1, <2>2 DEF Typed, Jobs
    <2> HIDE DEF new
    <2>4. QED
      BY <1>10, <2>1, <2>3, StepKeepsAttempt
         DEF ReadSnapshot, Typed, AttemptInv, AttemptHasOneQuestion
  <1>11. ASSUME NEW c \in Controllers, NEW step \in {"answer", "rating", "review"},
                AtStep(c, step),
                answers' \in [Attempts -> MaybeQ],
                \A s \in Attempts : answers'[s] \in {None, issued[s]},
                UNCHANGED <<submitting, current, attempt, issued, lastAttempt>>
         PROVE  AttemptInv'
    <2> DEFINE new == [job[c] EXCEPT !.step = StepAfter(step)]
    <2>1. job[c].step # "idle" /\ job' = [job EXCEPT ![c] = new]
      BY <1>11 DEF AtStep
    <2>2. new \in Jobs /\ new.step = StepAfter(step) /\ StepAfter(step) # "idle"
          /\ new.attempt = job[c].attempt /\ new.question = job[c].question
      BY <1>7, <1>8, <2>1 DEF Typed, Jobs
    <2> HIDE DEF new
    <2>3. QED
      BY <1>11, <2>1, <2>2, StepKeepsAttempt
  <1>12. ASSUME NEW c \in Controllers, SaveAnswer(c) PROVE AttemptInv'
    <2>1. job[c].question = issued[job[c].attempt] /\ job[c].question \in MaybeQ
      BY <1>12 DEF SaveAnswer, AtStep, AttemptInv, AttemptHasOneQuestion, JobHasAttempt, MaybeQ
    <2>2. /\ answers' \in [Attempts -> MaybeQ]
          /\ \A s \in Attempts : answers'[s] \in {None, issued[s]}
      BY <1>12, <2>1 DEF SaveAnswer, Typed, AttemptInv, AttemptHasOneQuestion
    <2>3. QED
      BY <1>11, <1>12, <2>2 DEF SaveAnswer
  <1>13. ASSUME NEW c \in Controllers, SaveTopicRating(c) \/ SaveReviewState(c)
         PROVE  AttemptInv'
    BY <1>11, <1>13
       DEF SaveTopicRating, SaveReviewState, Typed, AttemptInv, AttemptHasOneQuestion
  <1>14. ASSUME NEW c \in Controllers, BumpAnswersCount(c) \/ SubmitFails(c)
         PROVE  AttemptInv'
    BY <1>14, SettleKeepsAttempt DEF BumpAnswersCount, SubmitFails
  <1>15. ASSUME NEW q \in Questions, Elapse(q) PROVE AttemptInv'
    BY <1>1, <1>15 DEF Elapse
  <1>16. CASE Onboard
    BY <1>1, <1>16 DEF Onboard
  <1>17. CASE Wipe
    <2>1. \A s \in Attempts : answers'[s] = None
      BY <1>17 DEF Wipe, NoAnswers
    <2>2. UNCHANGED <<submitting, job, current, attempt, issued, lastAttempt>>
      BY <1>17 DEF Wipe
    <2>3. QED
      BY <2>1, <2>2 DEF AttemptInv, OneSubmission, AttemptHasOneQuestion, JobHasAttempt,
                        CurrentIsIssued, LaterAttemptsAreFree
  <1>18. CASE Crash
    <2>1. \A c \in Controllers :
            job'[c].step = "idle" /\ submitting'[c] = FALSE /\ current'[c] = None
      BY <1>18 DEF Crash, ForAll, NoJob
    <2>2. UNCHANGED <<answers, issued, lastAttempt>>
      BY <1>18 DEF Crash
    <2>3. QED
      BY <2>1, <2>2 DEF AttemptInv, OneSubmission, AttemptHasOneQuestion, JobHasAttempt,
                        CurrentIsIssued, LaterAttemptsAreFree
  <1>19. CASE UNCHANGED vars
    BY <1>1, <1>19 DEF vars
  <1>20. QED
    BY <1>2, <1>3, <1>4, <1>5, <1>6, <1>9, <1>10, <1>12, <1>13, <1>14, <1>15, <1>16,
       <1>17, <1>18, <1>19
       DEF Next, Tap, LoadStep, SubmitStep, Fail

LEMMA InitAttemptInv == DeviceAssumption /\ Init => AttemptInv
  BY DEF Init, AttemptInv, OneSubmission, AttemptHasOneQuestion, JobHasAttempt,
         CurrentIsIssued, LaterAttemptsAreFree, ForAll, NoJob, NoAnswers

-----------------------------------------------------------------------------
LEMMA InductiveInvariant == Spec => [](Typed /\ AttemptInv)
  <1>1. Init => Typed /\ AttemptInv
    BY DeviceAssumption, InitTyped, InitAttemptInv
  <1>2. Typed /\ AttemptInv /\ [Next]_vars => Typed' /\ AttemptInv'
    BY DeviceAssumption, StepTyped, StepKeepsAttemptInv DEF AttemptInv
  <1>3. QED
    BY <1>1, <1>2, PTL DEF Spec

-----------------------------------------------------------------------------
(* What the code unwraps is there.                                         *)

LEMMA StepMissesNothing ==
  ASSUME DeviceAssumption, Typed, AttemptInv, NothingMissing, [Next]_vars
  PROVE  NothingMissing'
  <1> USE DEF store, screen, calls, bounds
  <1>1. ASSUME UNCHANGED <<phase, current, result, job>> PROVE NothingMissing'
    BY <1>1 DEF NothingMissing
  <1>2. ASSUME NEW c \in Controllers,
               Open(c) \/ TapSkip(c) \/ TapNext(c) \/ TapRetry(c)
        PROVE  NothingMissing'
    <2>1. UNCHANGED <<current, job>> /\ phase' = [phase EXCEPT ![c] = "loading"]
          /\ result' = [result EXCEPT ![c] = None]
      BY <1>2 DEF Open, TapSkip, TapNext, TapRetry, LoadNext
    <2>2. QED
      BY <2>1 DEF NothingMissing, Typed
  <1>3. ASSUME NEW c \in Controllers, TapSubmit(c) PROVE NothingMissing'
    <2>1. /\ job'[c].question = current[c] /\ current[c] # None
          /\ \A d \in Controllers \ {c} : job'[d] = job[d]
          /\ UNCHANGED <<phase, current, result>>
      BY <1>3 DEF TapSubmit, Typed
    <2>2. QED
      BY <2>1 DEF NothingMissing
  <1>4. ASSUME NEW c \in Controllers, NEW k \in Slots, Deliver(c, k) PROVE NothingMissing'
    <2>1. /\ current' = [current EXCEPT ![c] = fetch[c][k].next] /\ fetch[c][k].next # None
          /\ phase' = [phase EXCEPT ![c] = "answering"]
          /\ UNCHANGED <<result, job>>
      BY <1>4 DEF Deliver, Arrived
    <2>2. QED
      BY <2>1 DEF NothingMissing, Typed
  <1>5. ASSUME NEW c \in Controllers, NEW p \in {"exhausted", "failed"},
               phase' = [phase EXCEPT ![c] = p], UNCHANGED <<current, result, job>>
        PROVE  NothingMissing'
    BY <1>5 DEF NothingMissing, Typed
  <1>6. ASSUME NEW c \in Controllers, NEW new \in Jobs, job[c].step # "idle",
               new.question = job[c].question,
               job' = [job EXCEPT ![c] = new], UNCHANGED <<phase, current, result>>
        PROVE  NothingMissing'
    <2>1. job'[c].question = job[c].question
          /\ \A d \in Controllers \ {c} : job'[d] = job[d]
      BY <1>6 DEF Typed
    <2>2. QED
      BY <1>6, <2>1 DEF NothingMissing
  <1>7. ASSUME NEW c \in Controllers, ReadRating(c) PROVE NothingMissing'
    <2> DEFINE new == [job[c] EXCEPT !.step = StepAfter("read"),
                                     !.ratings = rating[topicOf[job[c].question]]]
    <2>1. rating[topicOf[job[c].question]] \in Bags /\ job[c] \in Jobs
      BY <1>7 DEF ReadRating, AttemptInv, JobHasAttempt, DeviceAssumption, Typed
    <2>2. new \in Jobs /\ new.question = job[c].question
      BY <2>1 DEF StepAfter, Steps, Jobs
    <2>3. QED
      BY <1>6, <1>7, <2>2 DEF ReadRating
  <1>8. ASSUME NEW c \in Controllers, ReadSnapshot(c) PROVE NothingMissing'
    <2> DEFINE new == [job[c] EXCEPT !.step = StepAfter("snapshot"),
                                     !.reviews = review[job[c].question]]
    <2>1. review[job[c].question] \in Bags /\ job[c] \in Jobs
      BY <1>8 DEF ReadSnapshot, AttemptInv, JobHasAttempt, Typed
    <2>2. new \in Jobs /\ new.question = job[c].question
      BY <2>1 DEF StepAfter, Steps, Jobs
    <2>3. QED
      BY <1>6, <1>8, <2>2 DEF ReadSnapshot
  <1>9. ASSUME NEW c \in Controllers, NEW step \in {"answer", "rating", "review"},
               AtStep(c, step), UNCHANGED <<phase, current, result>>
        PROVE  NothingMissing'
    <2> DEFINE new == [job[c] EXCEPT !.step = StepAfter(step)]
    <2>1. job[c] \in Jobs
      BY DEF Typed
    <2>2. new \in Jobs /\ new.question = job[c].question
      BY <2>1 DEF StepAfter, Steps, Jobs
    <2>3. QED
      BY <1>6, <1>9, <2>2 DEF AtStep
  <1>10. ASSUME NEW c \in Controllers, SaveAnswer(c) \/ SaveTopicRating(c) \/ SaveReviewState(c)
         PROVE  NothingMissing'
    BY <1>9, <1>10 DEF SaveAnswer, SaveTopicRating, SaveReviewState
  <1>11. ASSUME NEW c \in Controllers, Settle(c)
         PROVE  /\ job'[c].step = "idle"
                /\ \A d \in Controllers \ {c} : job'[d] = job[d]
    BY <1>11 DEF Settle, NoJob, Typed
  <1>12. ASSUME NEW c \in Controllers, BumpAnswersCount(c) PROVE NothingMissing'
    <2>1. job[c].question # None /\ current[c] # None
      BY <1>12 DEF BumpAnswersCount, NothingMissing
    <2>2. /\ phase' = [phase EXCEPT ![c] = "reviewing"] /\ current' = current
          /\ result' = [result EXCEPT ![c] = job[c].question]
      BY <1>12 DEF BumpAnswersCount, AnsweredPhase
    <2>3. job'[c].step = "idle" /\ \A d \in Controllers \ {c} : job'[d] = job[d]
      BY <1>11, <1>12 DEF BumpAnswersCount
    <2>4. QED
      BY <2>1, <2>2, <2>3 DEF NothingMissing, Typed
  <1>13. ASSUME NEW c \in Controllers, SubmitFails(c) PROVE NothingMissing'
    <2>1. job'[c].step = "idle" /\ \A d \in Controllers \ {c} : job'[d] = job[d]
      BY <1>11, <1>13 DEF SubmitFails
    <2>2. UNCHANGED <<phase, current, result>>
      BY <1>13 DEF SubmitFails
    <2>3. QED
      BY <2>1, <2>2 DEF NothingMissing
  <1>14. CASE Crash
    BY <1>14 DEF Crash, ForAll, NoJob, NothingMissing
  <1>15. ASSUME NEW c \in Controllers, Draw(c) PROVE NothingMissing'
    BY <1>1, <1>15 DEF Draw
  <1>16. ASSUME NEW c \in Controllers, NEW k \in Slots,
                LoadRead(c, k) \/ Exhaust(c, k) \/ LoadFails(c, k)
         PROVE  NothingMissing'
    BY <1>1, <1>5, <1>16 DEF LoadRead, Exhaust, EmptyPhase, LoadFails
  <1>17. CASE Onboard \/ Wipe \/ (\E q \in Questions : Elapse(q)) \/ UNCHANGED vars
    BY <1>1, <1>17 DEF Onboard, Wipe, Elapse, vars
  <1>18. QED
    BY <1>2, <1>3, <1>4, <1>7, <1>8, <1>10, <1>12, <1>13, <1>14, <1>15, <1>16, <1>17
       DEF Next, Tap, LoadStep, SubmitStep, Fail

(* Every variable keeps its type, and a screen that asks or explains has   *)
(* the question and the result it unwraps.                                 *)
THEOREM TypeCorrect == Spec => []TypeOK
  <1>1. Init => NothingMissing
    BY DEF Init, ForAll, NoJob, NothingMissing
  <1>2. DeviceAssumption /\ Typed /\ AttemptInv /\ NothingMissing /\ [Next]_vars
          => NothingMissing'
    BY StepMissesNothing
  <1>3. Typed /\ NothingMissing => TypeOK
    BY DEF TypeOK
  <1>4. QED
    BY <1>1, <1>2, <1>3, InductiveInvariant, DeviceAssumption, PTL DEF Spec

(* The submitting flag of a controller is up exactly while its one call of *)
(* submitAnswer is in flight, so no tap ever starts a second one.          *)
THEOREM SubmissionIsSingle == Spec => []OneSubmission
  <1>1. Typed /\ AttemptInv => OneSubmission
    BY DEF AttemptInv
  <1>2. QED
    BY <1>1, InductiveInvariant, PTL

(* An attempt id never comes to stand for a second question: neither in    *)
(* the table of answers nor in a call that is still writing.               *)
THEOREM AttemptKeepsQuestion == Spec => []AttemptHasOneQuestion
  <1>1. Typed /\ AttemptInv => AttemptHasOneQuestion
    BY DEF AttemptInv
  <1>2. QED
    BY <1>1, InductiveInvariant, PTL

-----------------------------------------------------------------------------
(* The log is ahead of the estimates.  What a call has read, it has read   *)
(* from estimates the log backed, and the log only grows; a call that is   *)
(* past its first write has its row there.                                 *)

ReadIsBacked ==
  \A c \in Controllers, s \in Attempts :
    /\ job[c].ratings[s] > 0 =>
         answers[s] # None /\ topicOf[answers[s]] = topicOf[job[c].question]
    /\ job[c].reviews[s] > 0 => answers[s] # None /\ answers[s] = job[c].question

RowIsWritten ==
  \A c \in Controllers : job[c].step \in {"rating", "review", "count"} =>
    answers[job[c].attempt] = job[c].question

LogInv == wipes = 0 => EstimatesBackedByLog /\ ReadIsBacked /\ RowIsWritten

LEMMA InitLogInv == Init => LogInv
  BY DEF Init, LogInv, EstimatesBackedByLog, ReadIsBacked, RowIsWritten, ForAll, NoJob,
         EmptyBag, NoRatings, NoReviews

(* A step that neither touches the estimates nor starts or moves a call    *)
(* keeps the log ahead.                                                    *)
LEMMA IdleKeepsLogInv ==
  ASSUME LogInv, wipes' = wipes, UNCHANGED <<answers, rating, review, job>>
  PROVE  LogInv'
  BY DEF LogInv, EstimatesBackedByLog, ReadIsBacked, RowIsWritten

LEMMA StepKeepsLogInv ==
  ASSUME DeviceAssumption, Typed, AttemptInv, LogInv, [Next]_vars
  PROVE  LogInv'
  <1> USE DEF store, screen, calls, bounds
  <1>1. CASE wipes' # 0
    BY <1>1 DEF LogInv
  <1>2. ASSUME wipes' = wipes, wipes = 0, UNCHANGED <<answers, rating, review>>,
               NEW c \in Controllers, NEW new \in Jobs, job' = [job EXCEPT ![c] = new],
               \A s \in Attempts :
                 /\ new.ratings[s] > 0 =>
                      answers[s] # None /\ topicOf[answers[s]] = topicOf[new.question]
                 /\ new.reviews[s] > 0 => answers[s] # None /\ answers[s] = new.question,
               new.step \notin {"rating", "review", "count"}
        PROVE  LogInv'
    <2>1. job'[c] = new /\ \A d \in Controllers \ {c} : job'[d] = job[d]
      BY <1>2 DEF Typed
    <2>2. QED
      BY <1>2, <2>1 DEF LogInv, EstimatesBackedByLog, ReadIsBacked, RowIsWritten
  <1>3. ASSUME wipes' = wipes, UNCHANGED <<answers, rating, review, job>> PROVE LogInv'
    BY <1>3, IdleKeepsLogInv
  <1>4. ASSUME NEW c \in Controllers,
               Draw(c) \/ Open(c) \/ TapSkip(c) \/ TapNext(c) \/ TapRetry(c)
        PROVE  LogInv'
    BY <1>3, <1>4 DEF Draw, Open, TapSkip, TapNext, TapRetry, LoadNext
  <1>5. ASSUME NEW c \in Controllers, NEW k \in Slots,
               LoadRead(c, k) \/ Deliver(c, k) \/ Exhaust(c, k) \/ LoadFails(c, k)
        PROVE  LogInv'
    BY <1>3, <1>5 DEF LoadRead, Deliver, Exhaust, LoadFails
  <1>6. ASSUME NEW c \in Controllers, wipes = 0, TapSubmit(c) PROVE LogInv'
    <2> DEFINE new == [step |-> "read", attempt |-> attempt[c], question |-> current[c],
                       ratings |-> EmptyBag, reviews |-> EmptyBag]
    <2>1. new \in Jobs
      BY DEF Jobs, Steps, Bags, EmptyBag, Typed
    <2>2. \A s \in Attempts : ~(new.ratings[s] > 0) /\ ~(new.reviews[s] > 0)
      BY DEF EmptyBag
    <2>3. new.step \notin {"rating", "review", "count"}
      OBVIOUS
    <2>4. job' = [job EXCEPT ![c] = new] /\ wipes' = wipes
          /\ UNCHANGED <<answers, rating, review>>
      BY <1>6 DEF TapSubmit
    <2> HIDE DEF new
    <2>5. QED
      BY <1>2, <1>6, <2>1, <2>2, <2>3, <2>4
  <1>7. ASSUME NEW c \in Controllers, wipes = 0, ReadRating(c) PROVE LogInv'
    <2> DEFINE t == topicOf[job[c].question]
               new == [job[c] EXCEPT !.step = StepAfter("read"), !.ratings = rating[t]]
    <2>1. t \in Topics /\ rating[t] \in Bags
      BY <1>7 DEF ReadRating, AttemptInv, JobHasAttempt, DeviceAssumption, Typed
    <2>2. StepAfter("read") = "snapshot"
      BY DEF StepAfter
    <2>3. job[c] \in Jobs
      BY DEF Typed
    <2>4. /\ new \in Jobs /\ new.step = "snapshot" /\ new.ratings = rating[t]
          /\ new.question = job[c].question /\ new.reviews = job[c].reviews
      BY <2>1, <2>2, <2>3 DEF Jobs, Steps
    <2>5. job' = [job EXCEPT ![c] = new] /\ wipes' = wipes
          /\ UNCHANGED <<answers, rating, review>>
      BY <1>7 DEF ReadRating
    <2> HIDE DEF new
    <2>6. \A s \in Attempts :
            /\ new.ratings[s] > 0 =>
                 answers[s] # None /\ topicOf[answers[s]] = topicOf[new.question]
            /\ new.reviews[s] > 0 => answers[s] # None /\ answers[s] = new.question
      BY <1>7, <2>1, <2>4 DEF LogInv, EstimatesBackedByLog, ReadIsBacked
    <2>7. QED
      BY <1>2, <1>7, <2>4, <2>5, <2>6
  <1>8. ASSUME NEW c \in Controllers, wipes = 0, ReadSnapshot(c) PROVE LogInv'
    <2> DEFINE q == job[c].question
               new == [job[c] EXCEPT !.step = StepAfter("snapshot"), !.reviews = review[q]]
    <2>1. q \in Questions /\ review[q] \in Bags
      BY <1>8 DEF ReadSnapshot, AttemptInv, JobHasAttempt, Typed
    <2>2. StepAfter("snapshot") = "answer"
      BY DEF StepAfter
    <2>3. job[c] \in Jobs
      BY DEF Typed
    <2>4. /\ new \in Jobs /\ new.step = "answer" /\ new.reviews = review[q]
          /\ new.question = job[c].question /\ new.ratings = job[c].ratings
      BY <2>1, <2>2, <2>3 DEF Jobs, Steps
    <2>5. job' = [job EXCEPT ![c] = new] /\ wipes' = wipes
          /\ UNCHANGED <<answers, rating, review>>
      BY <1>8 DEF ReadSnapshot
    <2> HIDE DEF new
    <2>6. \A s \in Attempts :
            /\ new.ratings[s] > 0 =>
                 answers[s] # None /\ topicOf[answers[s]] = topicOf[new.question]
            /\ new.reviews[s] > 0 => answers[s] # None /\ answers[s] = new.question
      BY <1>8, <2>1, <2>4 DEF LogInv, EstimatesBackedByLog, ReadIsBacked, DeviceAssumption
    <2>7. QED
      BY <1>2, <1>8, <2>4, <2>5, <2>6
  <1>9. ASSUME NEW c \in Controllers, NEW step, AtStep(c, step),
               step \in {"answer", "rating", "review"}
        PROVE  /\ job'[c].step \in {"rating", "review", "count"}
               /\ \A d \in Controllers :
                    /\ job'[d].attempt = job[d].attempt /\ job'[d].question = job[d].question
                    /\ job'[d].ratings = job[d].ratings /\ job'[d].reviews = job[d].reviews
                    /\ d # c => job'[d].step = job[d].step
    <2>1. StepAfter(step) \in {"rating", "review", "count"}
      BY <1>9 DEF StepAfter
    <2>2. job[c] \in Jobs /\ job' = [job EXCEPT ![c] = [job[c] EXCEPT !.step = StepAfter(step)]]
      BY <1>9 DEF AtStep, Typed
    <2>3. QED
      BY <2>1, <2>2 DEF Jobs, Typed
  <1>10. ASSUME NEW c \in Controllers, wipes = 0, SaveAnswer(c) PROVE LogInv'
    <2> DEFINE a == job[c].attempt
               q == job[c].question
    <2>1. a \in Attempts /\ q \in Questions /\ q # None /\ answers[a] \in {None, q}
      BY <1>10 DEF SaveAnswer, AtStep, AttemptInv, JobHasAttempt, AttemptHasOneQuestion,
                   DeviceAssumption, Typed, Attempts
    <2>2. /\ answers'[a] = q
          /\ \A s \in Attempts : answers[s] # None => answers'[s] = answers[s]
      BY <1>10, <2>1 DEF SaveAnswer, Typed
    <2>3. EstimatesBackedByLog'
      BY <1>10, <2>2 DEF SaveAnswer, LogInv, EstimatesBackedByLog, DeviceAssumption
    <2>4. \A d \in Controllers : job[d].step # "idle" =>
            job[d].question # None /\ job[d].attempt \in Attempts
      BY DEF AttemptInv, JobHasAttempt, DeviceAssumption, Typed, Attempts
    <2>5. RowIsWritten'
      <3>1. ASSUME NEW d \in Controllers, job'[d].step \in {"rating", "review", "count"}
            PROVE  answers'[job'[d].attempt] = job'[d].question
        <4>1. CASE d = c
          BY <1>9, <1>10, <2>2, <4>1 DEF SaveAnswer
        <4>2. CASE d # c
          <5>1. job[d].step \in {"rating", "review", "count"}
                /\ job'[d].attempt = job[d].attempt /\ job'[d].question = job[d].question
            BY <1>9, <1>10, <3>1, <4>2 DEF SaveAnswer
          <5>2. answers[job[d].attempt] = job[d].question
            BY <1>10, <5>1 DEF LogInv, RowIsWritten
          <5>3. QED
            BY <2>2, <2>4, <5>1, <5>2
        <4>3. QED
          BY <4>1, <4>2
      <3>2. QED
        BY <3>1 DEF RowIsWritten
    <2>6. ReadIsBacked'
      <3>1. ASSUME NEW d \in Controllers, NEW s \in Attempts
            PROVE  /\ job'[d].ratings[s] > 0 =>
                        answers'[s] # None /\ topicOf[answers'[s]] = topicOf[job'[d].question]
                   /\ job'[d].reviews[s] > 0 =>
                        answers'[s] # None /\ answers'[s] = job'[d].question
        <4>1. /\ job'[d].question = job[d].question
              /\ job'[d].ratings = job[d].ratings /\ job'[d].reviews = job[d].reviews
          BY <1>9, <1>10 DEF SaveAnswer
        <4>2. /\ job[d].ratings[s] > 0 =>
                   answers[s] # None /\ topicOf[answers[s]] = topicOf[job[d].question]
              /\ job[d].reviews[s] > 0 => answers[s] # None /\ answers[s] = job[d].question
          BY <1>10 DEF LogInv, ReadIsBacked
        <4>3. QED
          BY <2>2, <4>1, <4>2
      <3>2. QED
        BY <3>1 DEF ReadIsBacked
    <2>7. QED
      BY <2>3, <2>5, <2>6 DEF LogInv
  <1>11. ASSUME NEW c \in Controllers, NEW bag \in Bags, NEW x \in Attempts,
                Fold(bag, job[c].attempt)[x] > 0
         PROVE  x = job[c].attempt \/ bag[x] > 0
    BY <1>11 DEF Fold, Bags
  <1>12. ASSUME NEW c \in Controllers, NEW step, AtStep(c, step),
                step \in {"rating", "review"}, wipes = 0, UNCHANGED answers
         PROVE  ReadIsBacked' /\ RowIsWritten'
    <2>1. answers[job[c].attempt] = job[c].question
      BY <1>12 DEF AtStep, LogInv, RowIsWritten
    <2>2. QED
      BY <1>9, <1>12, <2>1 DEF LogInv, ReadIsBacked, RowIsWritten
  <1>13. ASSUME NEW c \in Controllers, wipes = 0, SaveTopicRating(c) PROVE LogInv'
    <2> DEFINE q == job[c].question
               t == topicOf[q]
    <2>1. /\ q \in Questions /\ t \in Topics /\ answers[job[c].attempt] = q
          /\ job[c].ratings \in Bags
      BY <1>13 DEF SaveTopicRating, AtStep, AttemptInv, JobHasAttempt, LogInv, RowIsWritten,
                   DeviceAssumption, Typed, Jobs
    <2>2. /\ rating'[t] = Fold(job[c].ratings, job[c].attempt)
          /\ \A u \in Topics \ {t} : rating'[u] = rating[u]
          /\ UNCHANGED <<answers, review, wipes>>
      BY <1>13, <2>1 DEF SaveTopicRating, Typed
    <2>3. ASSUME NEW s \in Attempts, rating'[t][s] > 0
          PROVE  answers[s] # None /\ topicOf[answers[s]] = t
      <3>1. CASE s = job[c].attempt
        BY <2>1, <3>1 DEF DeviceAssumption
      <3>2. CASE job[c].ratings[s] > 0
        BY <1>13, <3>2 DEF LogInv, ReadIsBacked
      <3>3. QED
        BY <1>11, <2>1, <2>2, <2>3, <3>1, <3>2
    <2>4. EstimatesBackedByLog'
      BY <1>13, <2>2, <2>3 DEF LogInv, EstimatesBackedByLog
    <2>5. QED
      BY <1>12, <1>13, <2>2, <2>4 DEF SaveTopicRating, LogInv
  <1>14. ASSUME NEW c \in Controllers, wipes = 0, SaveReviewState(c) PROVE LogInv'
    <2> DEFINE q == job[c].question
    <2>1. /\ q \in Questions /\ answers[job[c].attempt] = q /\ job[c].reviews \in Bags
      BY <1>14 DEF SaveReviewState, AtStep, AttemptInv, JobHasAttempt, LogInv, RowIsWritten,
                   Typed, Jobs
    <2>2. /\ review'[q] = Fold(job[c].reviews, job[c].attempt)
          /\ \A p \in Questions \ {q} : review'[p] = review[p]
          /\ UNCHANGED <<answers, rating, wipes>>
      BY <1>14, <2>1 DEF SaveReviewState, Typed
    <2>3. ASSUME NEW s \in Attempts, review'[q][s] > 0 PROVE answers[s] = q
      <3>1. CASE job[c].reviews[s] > 0
        BY <1>14, <3>1 DEF LogInv, ReadIsBacked
      <3>2. QED
        BY <1>11, <2>1, <2>2, <2>3, <3>1
    <2>4. EstimatesBackedByLog'
      BY <1>14, <2>2, <2>3 DEF LogInv, EstimatesBackedByLog
    <2>5. QED
      BY <1>12, <1>14, <2>2, <2>4 DEF SaveReviewState, LogInv
  <1>15. NoJob \in Jobs /\ NoJob.step = "idle"
         /\ \A s \in Attempts : ~(NoJob.ratings[s] > 0) /\ ~(NoJob.reviews[s] > 0)
    BY StartTypes DEF NoJob, EmptyBag
  <1>16. ASSUME NEW c \in Controllers, wipes = 0, BumpAnswersCount(c) \/ SubmitFails(c)
         PROVE  LogInv'
    <2>1. job' = [job EXCEPT ![c] = NoJob] /\ wipes' = wipes
          /\ UNCHANGED <<answers, rating, review>>
      BY <1>16 DEF BumpAnswersCount, SubmitFails, Settle
    <2>2. QED
      BY <1>2, <1>15, <1>16, <2>1
  <1>17. ASSUME NEW q \in Questions, Elapse(q) PROVE LogInv'
    BY <1>3, <1>17 DEF Elapse
  <1>18. CASE Onboard
    BY <1>3, <1>18 DEF Onboard
  <1>19. CASE Wipe
    BY <1>1, <1>19 DEF Wipe, Typed
  <1>20. CASE Crash
    <2>1. \A c \in Controllers : job'[c] = NoJob
      BY <1>20 DEF Crash, ForAll
    <2>2. UNCHANGED <<answers, rating, review, wipes>>
      BY <1>20 DEF Crash
    <2>3. QED
      BY <1>15, <2>1, <2>2 DEF LogInv, EstimatesBackedByLog, ReadIsBacked, RowIsWritten
  <1>21. CASE UNCHANGED vars
    BY <1>3, <1>21 DEF vars
  <1>22. CASE wipes # 0
    <2>1. ASSUME NEW c \in Controllers, Draw(c) \/ Tap(c) PROVE wipes' = wipes
      BY <2>1 DEF Draw, Tap, Open, TapSkip, TapNext, TapRetry, TapSubmit, LoadNext
    <2>2. ASSUME NEW c \in Controllers, LoadStep(c) \/ Fail(c) PROVE wipes' = wipes
      BY <2>2 DEF LoadStep, LoadRead, Deliver, Exhaust, Fail, SubmitFails, LoadFails
    <2>3. ASSUME NEW c \in Controllers, SubmitStep(c) PROVE wipes' = wipes
      BY <2>3 DEF SubmitStep, ReadRating, ReadSnapshot, SaveAnswer, SaveTopicRating,
                  SaveReviewState, BumpAnswersCount
    <2>4. ASSUME (\E q \in Questions : Elapse(q)) \/ Onboard \/ Crash \/ UNCHANGED vars
          PROVE  wipes' = wipes
      BY <2>4 DEF Elapse, Onboard, Crash, vars
    <2>5. CASE wipes' = wipes
      BY <1>1, <1>22, <2>5
    <2>6. QED
      BY <1>19, <2>1, <2>2, <2>3, <2>4, <2>5 DEF Next
  <1>23. QED
    BY <1>4, <1>5, <1>6, <1>7, <1>8, <1>10, <1>13, <1>14, <1>16, <1>17, <1>18, <1>19,
       <1>20, <1>21, <1>22
       DEF Next, Tap, LoadStep, SubmitStep, Fail

(* While nothing was wiped, an estimate never reflects an answer the log   *)
(* does not have, wherever calls were cut, failed, or overlapped.          *)
THEOREM LogIsAhead == Spec => []EstimatesBackedByLog
  <1>1. Init => LogInv
    BY InitLogInv
  <1>2. Typed /\ AttemptInv /\ LogInv /\ [Next]_vars => LogInv'
    BY DeviceAssumption, StepKeepsLogInv
  <1>3. LogInv => EstimatesBackedByLog
    BY DEF LogInv, EstimatesBackedByLog
  <1>4. QED
    BY <1>1, <1>2, <1>3, InductiveInvariant, PTL DEF Spec

-----------------------------------------------------------------------------
(* The counters.  Before anything is wiped, nobody has answered anything   *)
(* without a profile row to count it, and the row appears before a counter *)
(* moves.                                                                  *)

CountInv ==
  wipes = 0 =>
    /\ \A c \in Controllers : session[c] <= answersCount
    /\ ~hasProfile => \A c \in Controllers : session[c] = 0 /\ job[c].step = "idle"

LEMMA StepKeepsCountInv ==
  ASSUME Typed, CountInv, [Next]_vars
  PROVE  CountInv'
  <1> USE DEF store, screen, calls, bounds
  <1>1. CASE wipes' = wipes /\ UNCHANGED <<session, answersCount, hasProfile, job>>
    BY <1>1 DEF CountInv
  <1>2. CASE wipes' # 0
    BY <1>2 DEF CountInv
  <1>3. ASSUME NEW c \in Controllers, TapSubmit(c) PROVE CountInv'
    BY <1>3 DEF TapSubmit, CountInv
  <1>4. ASSUME NEW c \in Controllers,
               \/ ReadRating(c) \/ ReadSnapshot(c) \/ SaveAnswer(c) \/ SaveTopicRating(c)
               \/ SaveReviewState(c) \/ SubmitFails(c)
        PROVE  CountInv'
    <2>1. /\ job[c].step # "idle" /\ wipes' = wipes
          /\ UNCHANGED <<session, answersCount, hasProfile>>
      BY <1>4 DEF ReadRating, ReadSnapshot, SaveAnswer, SaveTopicRating, SaveReviewState, AtStep,
                  SubmitFails
    <2>2. QED
      BY <2>1 DEF CountInv
  <1>5. ASSUME NEW c \in Controllers, BumpAnswersCount(c) PROVE CountInv'
    <2>1. /\ job[c].step # "idle" /\ wipes' = wipes /\ hasProfile' = hasProfile
          /\ answersCount' = IF hasProfile THEN answersCount + 1 ELSE answersCount
          /\ session'[c] = session[c] + 1
          /\ \A d \in Controllers \ {c} : session'[d] = session[d]
          /\ answersCount \in Nat /\ \A d \in Controllers : session[d] \in Nat
      BY <1>5 DEF BumpAnswersCount, BumpedCount, Typed
    <2>2. CASE wipes = 0
      <3>1. hasProfile /\ answersCount' = answersCount + 1
        BY <2>1, <2>2 DEF CountInv
      <3>2. ASSUME NEW d \in Controllers PROVE session'[d] <= answersCount'
        <4>1. session[d] <= answersCount
          BY <2>2 DEF CountInv
        <4>2. CASE d = c
          BY <2>1, <3>1, <4>1, <4>2
        <4>3. CASE d # c
          BY <2>1, <3>1, <4>1, <4>3
        <4>4. QED
          BY <4>2, <4>3
      <3>3. QED
        BY <2>1, <3>1, <3>2 DEF CountInv
    <2>3. QED
      BY <1>2, <2>1, <2>2
  <1>6. CASE Onboard
    BY <1>6 DEF Onboard, CountInv
  <1>7. CASE Wipe
    BY <1>2, <1>7 DEF Wipe, Typed
  <1>8. CASE Crash
    <2>1. \A c \in Controllers : session'[c] = 0 /\ job'[c].step = "idle"
      BY <1>8 DEF Crash, ForAll, NoJob
    <2>2. UNCHANGED <<answersCount, hasProfile>> /\ answersCount \in Nat
      BY <1>8 DEF Crash, Typed
    <2>3. QED
      BY <2>1, <2>2 DEF CountInv
  <1>9. ASSUME NEW c \in Controllers, Draw(c) \/ Open(c) \/ TapSkip(c) \/ TapNext(c) \/ TapRetry(c)
        PROVE  CountInv'
    BY <1>1, <1>9 DEF Draw, Open, TapSkip, TapNext, TapRetry, LoadNext
  <1>10. ASSUME NEW c \in Controllers, NEW k \in Slots,
                LoadRead(c, k) \/ Deliver(c, k) \/ Exhaust(c, k) \/ LoadFails(c, k)
         PROVE  CountInv'
    BY <1>1, <1>10 DEF LoadRead, Deliver, Exhaust, LoadFails
  <1>11. CASE (\E q \in Questions : Elapse(q)) \/ UNCHANGED vars
    BY <1>1, <1>11 DEF Elapse, vars
  <1>12. QED
    BY <1>3, <1>4, <1>5, <1>6, <1>7, <1>8, <1>9, <1>10, <1>11
       DEF Next, Tap, LoadStep, SubmitStep, Fail

(* Before anything is wiped, no open screen has counted more answers than  *)
(* the profile, whatever failed, died or overlapped.                       *)
THEOREM ScreensPromiseNoMore == Spec => []SessionWithinProfile
  <1>1. Init => CountInv
    BY DEF Init, CountInv, ForAll, NoJob
  <1>2. Typed /\ CountInv /\ [Next]_vars => CountInv'
    BY StepKeepsCountInv
  <1>3. CountInv => SessionWithinProfile
    BY DEF CountInv, SessionWithinProfile
  <1>4. QED
    BY <1>1, <1>2, <1>3, InductiveInvariant, PTL DEF Spec

-----------------------------------------------------------------------------
(* When taps meet the current frame.  A screen loads at most once at a      *)
(* time, and only while it says so; a call in flight answers the question   *)
(* on its screen under the id of the screen.                               *)

Screen(c) ==
  /\ \A j, k \in Slots : fetch[c][j].stage # "idle" /\ fetch[c][k].stage # "idle" => j = k
  /\ phase[c] # "loading" => \A k \in Slots : fetch[c][k].stage = "idle"
  /\ job[c].step # "idle" =>
       phase[c] = "answering" /\ job[c].question = current[c] /\ job[c].attempt = attempt[c]
  /\ phase[c] = "reviewing" =>
       /\ current[c] # None /\ result[c] = current[c]
       /\ wipes = 0 => answers[attempt[c]] = current[c]

FreshInv == \A c \in Controllers : Screen(c)

(* A call that makes its next step, but for the last.                      *)
Moves(c) ==
  ReadRating(c) \/ ReadSnapshot(c) \/ SaveAnswer(c) \/ SaveTopicRating(c) \/ SaveReviewState(c)

LEMMA CallMoves ==
  ASSUME DeviceAssumption, Typed, JobHasAttempt, NEW c \in Controllers, Moves(c)
  PROVE  /\ job[c].step \in {"read", "snapshot", "answer", "rating", "review"}
         /\ job'[c].step = StepAfter(job[c].step)
         /\ job'[c].question = job[c].question /\ job'[c].attempt = job[c].attempt
         /\ job'[c].ratings = IF job[c].step = "read" THEN rating[topicOf[job[c].question]]
                                                      ELSE job[c].ratings
         /\ job'[c].reviews = IF job[c].step = "snapshot" THEN review[job[c].question]
                                                          ELSE job[c].reviews
         /\ \A d \in Controllers \ {c} : job'[d] = job[d]
         /\ UNCHANGED <<phase, current, attempt, submitting, result, fetch, issued, lastAttempt,
                        failures, wipes>>
  <1> USE DEF store, screen, calls, bounds
  <1>1. job[c] \in Jobs
    BY DEF Typed
  <1>2. CASE ReadRating(c)
    BY <1>1, <1>2 DEF ReadRating, Jobs, Typed
  <1>3. CASE ReadSnapshot(c)
    BY <1>1, <1>3 DEF ReadSnapshot, Jobs, Typed
  <1>4. ASSUME NEW step \in {"answer", "rating", "review"}, AtStep(c, step)
        PROVE  /\ job[c].step = step /\ job'[c].step = StepAfter(job[c].step)
               /\ job'[c].question = job[c].question /\ job'[c].attempt = job[c].attempt
               /\ job'[c].ratings = job[c].ratings /\ job'[c].reviews = job[c].reviews
               /\ \A d \in Controllers \ {c} : job'[d] = job[d]
    BY <1>1, <1>4 DEF AtStep, Jobs, Typed
  <1>5. CASE SaveAnswer(c) \/ SaveTopicRating(c) \/ SaveReviewState(c)
    <2>1. /\ \E step \in {"answer", "rating", "review"} : AtStep(c, step)
          /\ UNCHANGED <<phase, current, attempt, submitting, result, fetch, issued, lastAttempt,
                         failures, wipes>>
      BY <1>5 DEF SaveAnswer, SaveTopicRating, SaveReviewState
    <2>2. QED
      BY <1>4, <2>1
  <1>6. QED
    BY <1>2, <1>3, <1>5 DEF Moves

(* Screens that are not concerned stay as they are.                        *)
LEMMA OtherScreens ==
  ASSUME FreshInv, NEW c \in Controllers, wipes' = wipes, UNCHANGED answers,
         \A d \in Controllers \ {c} :
           /\ phase'[d] = phase[d] /\ fetch'[d] = fetch[d] /\ job'[d] = job[d]
           /\ current'[d] = current[d] /\ attempt'[d] = attempt[d] /\ result'[d] = result[d],
         Screen(c)'
  PROVE  FreshInv'
  BY DEF FreshInv, Screen

LEMMA LoadKeepsFresh ==
  ASSUME DeviceAssumption, StaleFrames = FALSE, Typed, AttemptInv, FreshInv,
         NEW c \in Controllers, Open(c) \/ TapSkip(c) \/ TapNext(c) \/ TapRetry(c)
  PROVE  FreshInv'
  <1>1. PICK skip : LoadNext(c, skip)
    BY DEF Open, TapSkip, TapNext, TapRetry
  <1>2. phase[c] \in {"closed", "failed", "reviewing"} \/ (phase[c] = "answering" /\ submitting[c] = FALSE)
    BY DEF Open, TapSkip, TapNext, TapRetry, CanSkip, Seen, Frame
  <1>3. phase[c] # "loading" /\ job[c].step = "idle"
    BY <1>2 DEF FreshInv, Screen, AttemptInv, OneSubmission
  <1>4. \A k \in Slots : fetch[c][k].stage = "idle"
    BY <1>3 DEF FreshInv, Screen
  <1>5. PICK k \in Slots : fetch' = [fetch EXCEPT ![c][k] =
                                      [stage |-> "reading", skip |-> skip, next |-> None]]
    BY <1>1 DEF LoadNext
  <1>6. /\ \A j \in Slots \ {k} : fetch'[c][j] = fetch[c][j]
        /\ \A d \in Controllers \ {c} : fetch'[d] = fetch[d]
    BY <1>5 DEF Typed
  <1>7. /\ phase'[c] = "loading" /\ job' = job /\ wipes' = wipes
        /\ UNCHANGED <<answers, current, attempt>>
        /\ \A d \in Controllers \ {c} : phase'[d] = phase[d] /\ result'[d] = result[d]
    BY <1>1 DEF LoadNext, Typed, store
  <1>8. Screen(c)'
    BY <1>3, <1>4, <1>6, <1>7 DEF Screen
  <1>9. QED
    BY <1>6, <1>7, <1>8, OtherScreens

(* A load that arrives, ends or fails: it was the only one of the screen.  *)
LEMMA ArrivalKeepsFresh ==
  ASSUME DeviceAssumption, Typed, AttemptInv, FreshInv, NEW c \in Controllers, NEW k \in Slots,
         LoadRead(c, k) \/ Deliver(c, k) \/ Exhaust(c, k) \/ LoadFails(c, k)
  PROVE  FreshInv'
  <1> USE DEF store, screen, calls, bounds
  <1>1. fetch[c][k].stage # "idle" /\ phase[c] = "loading" /\ job[c].step = "idle"
    BY DEF LoadRead, Deliver, Arrived, Exhaust, LoadFails, FreshInv, Screen
  <1>2. \A j \in Slots \ {k} : fetch[c][j].stage = "idle"
    BY <1>1 DEF FreshInv, Screen
  <1>3. UNCHANGED <<job, wipes, answers, result>>
    BY DEF LoadRead, Deliver, Exhaust, LoadFails
  <1>4. CASE LoadRead(c, k)
    <2>1. PICK new : fetch' = [fetch EXCEPT ![c][k] = new]
      BY <1>4 DEF LoadRead
    <2>2. /\ \A j \in Slots \ {k} : fetch'[c][j] = fetch[c][j]
          /\ \A d \in Controllers \ {c} : fetch'[d] = fetch[d]
      BY <2>1 DEF Typed
    <2>3. UNCHANGED <<phase, current, attempt>>
      BY <1>4 DEF LoadRead
    <2>4. Screen(c)'
      BY <1>1, <1>2, <1>3, <2>2, <2>3 DEF Screen
    <2>5. QED
      BY <1>3, <2>2, <2>3, <2>4, OtherScreens
  <1>5. CASE Deliver(c, k) \/ Exhaust(c, k) \/ LoadFails(c, k)
    <2>1. /\ fetch' = [fetch EXCEPT ![c][k] = NoFetch]
          /\ phase'[c] \in {"answering", "exhausted", "failed"}
          /\ \A d \in Controllers \ {c} :
               phase'[d] = phase[d] /\ current'[d] = current[d] /\ attempt'[d] = attempt[d]
      BY <1>5 DEF Deliver, NewAttempt, Exhaust, EmptyPhase, LoadFails, Typed
    <2>2. /\ \A j \in Slots : fetch'[c][j].stage = "idle"
          /\ \A d \in Controllers \ {c} : fetch'[d] = fetch[d]
      BY <1>2, <2>1 DEF NoFetch, Typed
    <2>3. Screen(c)'
      BY <1>1, <1>3, <2>1, <2>2 DEF Screen
    <2>4. QED
      BY <1>3, <2>1, <2>2, <2>3, OtherScreens
  <1>6. QED
    BY <1>4, <1>5

LEMMA SubmitKeepsFresh ==
  ASSUME DeviceAssumption, StaleFrames = FALSE, Typed, AttemptInv, LogInv, FreshInv,
         NEW c \in Controllers, TapSubmit(c) \/ SubmitStep(c) \/ SubmitFails(c)
  PROVE  FreshInv'
  <1> USE DEF store, screen, calls, bounds
  <1>1. Screen(c)
    BY DEF FreshInv
  <1>2. CASE TapSubmit(c)
    <2>1. /\ phase[c] = "answering" /\ phase' = phase /\ current' = current /\ attempt' = attempt
          /\ job'[c].question = current[c] /\ job'[c].attempt = attempt[c]
          /\ \A d \in Controllers \ {c} : job'[d] = job[d]
          /\ UNCHANGED <<answers, result, fetch, wipes>>
      BY <1>2 DEF TapSubmit, Seen, Frame, Typed
    <2>2. Screen(c)'
      BY <1>1, <2>1 DEF Screen
    <2>3. QED
      BY <2>1, <2>2, OtherScreens
  <1>3. CASE Moves(c)
    <2>1. /\ job[c].step # "idle" /\ job'[c].question = job[c].question
          /\ job'[c].attempt = job[c].attempt
          /\ \A d \in Controllers \ {c} : job'[d] = job[d]
          /\ UNCHANGED <<phase, current, attempt, result, fetch, issued, wipes>>
      BY <1>3, CallMoves DEF AttemptInv
    <2>2. ASSUME NEW d \in Controllers, phase[d] = "reviewing", wipes = 0
          PROVE  answers'[attempt[d]] = current[d]
      <3>1. answers[attempt[d]] = current[d] /\ current[d] # None
        BY <2>2 DEF FreshInv, Screen
      <3>2. CASE SaveAnswer(c)
        <4>1. issued[attempt[d]] = current[d]
          BY <3>1 DEF AttemptInv, CurrentIsIssued
        <4>2. issued[job[c].attempt] = job[c].question
          BY <2>1 DEF AttemptInv, AttemptHasOneQuestion
        <4>3. answers' = [answers EXCEPT ![job[c].attempt] = job[c].question]
          BY <3>2 DEF SaveAnswer
        <4>4. attempt[d] \in Attempts
          BY <3>1 DEF AttemptInv, CurrentIsIssued, Typed, Attempts, DeviceAssumption
        <4>5. QED
          BY <3>1, <4>1, <4>2, <4>3, <4>4 DEF Typed
      <3>3. CASE ~ SaveAnswer(c)
        <4>1. answers' = answers
          BY <1>3, <3>3 DEF Moves, ReadRating, ReadSnapshot, SaveTopicRating, SaveReviewState
        <4>2. QED
          BY <3>1, <4>1
      <3>4. QED
        BY <3>2, <3>3
    <2>3. ASSUME NEW d \in Controllers PROVE Screen(d)'
      BY <2>1, <2>2 DEF FreshInv, Screen
    <2>4. QED
      BY <2>3 DEF FreshInv
  <1>4. CASE BumpAnswersCount(c) \/ SubmitFails(c)
    <2>1. /\ job[c].step # "idle" /\ job'[c].step = "idle"
          /\ \A d \in Controllers \ {c} : job'[d] = job[d]
          /\ UNCHANGED <<answers, current, attempt, fetch, wipes>>
      BY <1>4 DEF BumpAnswersCount, SubmitFails, Settle, NoJob, Typed
    <2>2. /\ phase[c] = "answering" /\ job[c].question = current[c] /\ job[c].attempt = attempt[c]
          /\ current[c] # None /\ \A k \in Slots : fetch[c][k].stage = "idle"
      BY <1>1, <2>1 DEF Screen, AttemptInv, JobHasAttempt, DeviceAssumption
    <2>3. CASE BumpAnswersCount(c)
      <3>1. /\ phase'[c] = "reviewing" /\ result'[c] = job[c].question
            /\ \A d \in Controllers \ {c} : phase'[d] = phase[d] /\ result'[d] = result[d]
            /\ job[c].step = "count"
        BY <2>3 DEF BumpAnswersCount, AnsweredPhase, Typed
      <3>2. wipes = 0 => answers[attempt[c]] = current[c]
        BY <2>2, <3>1 DEF LogInv, RowIsWritten
      <3>3. Screen(c)'
        BY <2>1, <2>2, <3>1, <3>2 DEF Screen
      <3>4. QED
        BY <2>1, <3>1, <3>3, OtherScreens
    <2>4. CASE SubmitFails(c)
      <3>1. UNCHANGED <<phase, result>>
        BY <2>4 DEF SubmitFails
      <3>2. Screen(c)'
        BY <2>1, <2>2, <3>1 DEF Screen
      <3>3. QED
        BY <2>1, <3>1, <3>2, OtherScreens
    <2>5. QED
      BY <1>4, <2>3, <2>4
  <1>5. QED
    BY <1>2, <1>3, <1>4 DEF SubmitStep, Moves

LEMMA StepKeepsFresh ==
  ASSUME DeviceAssumption, StaleFrames = FALSE, Typed, AttemptInv, LogInv, FreshInv, [Next]_vars
  PROVE  FreshInv'
  <1> USE DEF store, screen, calls, bounds
  <1>1. ASSUME NEW c \in Controllers, Draw(c) \/ Tap(c) \/ LoadStep(c) \/ SubmitStep(c) \/ Fail(c)
        PROVE  FreshInv'
    <2>1. ~ Draw(c)
      BY DEF Draw
    <2>2. QED
      BY <1>1, <2>1, LoadKeepsFresh, ArrivalKeepsFresh, SubmitKeepsFresh
         DEF Tap, LoadStep, Fail
  <1>2. CASE Onboard \/ (\E q \in Questions : Elapse(q)) \/ UNCHANGED vars
    <2>1. UNCHANGED <<phase, current, attempt, result, fetch, job, answers, wipes>>
      BY <1>2 DEF Onboard, Elapse, vars
    <2>2. QED
      BY <2>1 DEF FreshInv, Screen
  <1>3. CASE Wipe
    <2>1. UNCHANGED <<phase, current, attempt, result, fetch, job>> /\ wipes' # 0
      BY <1>3 DEF Wipe, Typed
    <2>2. QED
      BY <2>1 DEF FreshInv, Screen
  <1>4. CASE Crash
    BY <1>4 DEF Crash, ForAll, NoJob, NoFetch, FreshInv, Screen
  <1>5. QED
    BY <1>1, <1>2, <1>3, <1>4 DEF Next

LEMMA FreshAlways ==
  ASSUME StaleFrames = FALSE
  PROVE  Spec => [](Typed /\ AttemptInv /\ LogInv /\ FreshInv)
  <1>1. Init => LogInv /\ FreshInv
    BY InitLogInv DEF Init, ForAll, NoJob, NoFetch, FreshInv, Screen
  <1>2. Typed /\ AttemptInv /\ LogInv /\ FreshInv /\ [Next]_vars => LogInv' /\ FreshInv'
    BY DeviceAssumption, StepKeepsLogInv, StepKeepsFresh
  <1>3. QED
    BY <1>1, <1>2, InductiveInvariant, PTL DEF Spec

(* When taps meet the current frame, the result on a screen is that of the *)
(* question on it, and its row is in the log, for any number of screens.   *)
THEOREM ResultsAreStored ==
  ASSUME StaleFrames = FALSE
  PROVE  Spec => []ShownResultIsStored
  <1>1. FreshInv => ShownResultIsStored
    BY DEF FreshInv, Screen, ShownResultIsStored
  <1>2. QED
    BY <1>1, FreshAlways, PTL

-----------------------------------------------------------------------------
(* How often an estimate has seen an attempt.  As long as the screen of the *)
(* attempt waits to fold it in, only failed calls can have folded it, one  *)
(* each; afterwards once more.  An id not yet issued is in no estimate.    *)

BeforeRating == {"idle", "read", "snapshot", "answer", "rating"}
BeforeReview == BeforeRating \cup {"review"}

Waits(c, s, steps) == attempt[c] = s /\ phase[c] = "answering" /\ job[c].step \in steps

Most(s, steps) ==
  IF s > lastAttempt THEN 0
  ELSE IF \E c \in Controllers : Waits(c, s, steps) THEN failures ELSE failures + 1

OwnAttempts ==
  /\ \A c \in Controllers : attempt[c] <= lastAttempt
  /\ \A c, d \in Controllers : attempt[c] = attempt[d] /\ attempt[c] # 0 => c = d

RatingsCapped ==
  \A s \in Attempts :
    /\ \A t \in Topics : rating[t][s] <= Most(s, BeforeRating)
    /\ \A c \in Controllers : job[c].ratings[s] <= Most(s, BeforeRating)

ReviewsCapped ==
  \A s \in Attempts :
    /\ \A q \in Questions : review[q][s] <= Most(s, BeforeReview)
    /\ \A c \in Controllers : job[c].reviews[s] <= Most(s, BeforeReview)

CountsInv == OwnAttempts /\ RatingsCapped /\ ReviewsCapped

LEMMA BagTypes ==
  ASSUME Typed, NEW s \in Attempts
  PROVE  /\ \A t \in Topics : rating[t] \in Bags /\ rating[t][s] \in Nat
         /\ \A q \in Questions : review[q] \in Bags /\ review[q][s] \in Nat
         /\ \A c \in Controllers :
              /\ job[c].ratings \in Bags /\ job[c].ratings[s] \in Nat
              /\ job[c].reviews \in Bags /\ job[c].reviews[s] \in Nat
         /\ failures \in Nat /\ lastAttempt \in Nat /\ s \in Nat
         /\ \A steps : Most(s, steps) \in Nat
  <1>1. /\ \A t \in Topics : rating[t] \in Bags
        /\ \A q \in Questions : review[q] \in Bags
        /\ \A c \in Controllers : job[c].ratings \in Bags /\ job[c].reviews \in Bags
    BY DEF Typed, Jobs
  <1>2. \A bag \in Bags : bag[s] \in Nat
    BY DEF Bags
  <1>3. failures \in Nat /\ lastAttempt \in Nat /\ s \in Nat
    BY DeviceAssumption DEF Typed, Attempts, DeviceAssumption
  <1>4. QED
    BY <1>1, <1>2, <1>3 DEF Most

(* The cap never falls unless an id is folded in.                          *)
LEMMA CapStays ==
  ASSUME Typed, NEW s \in Attempts, NEW steps, failures' = failures, lastAttempt' = lastAttempt,
         \A c \in Controllers : Waits(c, s, steps)' => Waits(c, s, steps)
  PROVE  Most(s, steps) <= Most(s, steps)'
  BY BagTypes DEF Most

LEMMA CapGrows ==
  ASSUME Typed, NEW s \in Attempts, NEW steps, failures' = failures + 1, lastAttempt' = lastAttempt
  PROVE  Most(s, steps) <= Most(s, steps)'
  BY BagTypes DEF Most

(* What no step writes, and what it copies or clears, stays under the cap. *)
LEMMA CappedStay ==
  ASSUME Typed, CountsInv, OwnAttempts',
         \A s \in Attempts : /\ Most(s, BeforeRating) <= Most(s, BeforeRating)'
                             /\ Most(s, BeforeReview) <= Most(s, BeforeReview)'
                             /\ Most(s, BeforeRating)' \in Nat /\ Most(s, BeforeReview)' \in Nat,
         \A s \in Attempts :
           /\ \A t \in Topics : rating'[t][s] \in {0, rating[t][s]}
           /\ \A q \in Questions : review'[q][s] \in {0, review[q][s]}
           /\ \A c \in Controllers :
                /\ \/ job'[c].ratings[s] \in {0, job[c].ratings[s]}
                   \/ \E t \in Topics : job'[c].ratings[s] = rating[t][s]
                /\ \/ job'[c].reviews[s] \in {0, job[c].reviews[s]}
                   \/ \E q \in Questions : job'[c].reviews[s] = review[q][s]
  PROVE  CountsInv'
  <1>1. ASSUME NEW s \in Attempts, NEW v \in Nat, v <= Most(s, BeforeRating)
        PROVE  v <= Most(s, BeforeRating)'
    BY <1>1, BagTypes
  <1>2. ASSUME NEW s \in Attempts, NEW v \in Nat, v <= Most(s, BeforeReview)
        PROVE  v <= Most(s, BeforeReview)'
    BY <1>2, BagTypes
  <1>3. \A s \in Attempts : 0 <= Most(s, BeforeRating) /\ 0 <= Most(s, BeforeReview)
    BY BagTypes
  <1>4. ASSUME NEW s \in Attempts
        PROVE  /\ \A t \in Topics : rating'[t][s] <= Most(s, BeforeRating)'
               /\ \A c \in Controllers : job'[c].ratings[s] <= Most(s, BeforeRating)'
    BY <1>1, <1>3, BagTypes DEF CountsInv, RatingsCapped
  <1>5. ASSUME NEW s \in Attempts
        PROVE  /\ \A q \in Questions : review'[q][s] <= Most(s, BeforeReview)'
               /\ \A c \in Controllers : job'[c].reviews[s] <= Most(s, BeforeReview)'
    BY <1>2, <1>3, BagTypes DEF CountsInv, ReviewsCapped
  <1>6. QED
    BY <1>4, <1>5 DEF CountsInv, RatingsCapped, ReviewsCapped

(* A step that leaves the estimates and calls alone, and lets no screen     *)
(* begin to wait.                                                          *)
LEMMA IdleKeepsCounts ==
  ASSUME Typed, Typed', CountsInv, UNCHANGED <<rating, review, job, attempt, lastAttempt>>,
         failures' \in {failures, failures + 1},
         \A c \in Controllers : phase'[c] = "answering" => phase[c] = "answering"
  PROVE  CountsInv'
  <1>1. ASSUME NEW s \in Attempts, NEW steps
        PROVE  Most(s, steps) <= Most(s, steps)' /\ Most(s, steps)' \in Nat
    <2>1. CASE failures' = failures
      BY <2>1, CapStays, BagTypes DEF Waits, Most
    <2>2. CASE failures' = failures + 1
      BY <2>2, CapGrows, BagTypes DEF Most
    <2>3. QED
      BY <2>1, <2>2
  <1>2. OwnAttempts'
    BY DEF CountsInv, OwnAttempts
  <1>3. QED
    BY <1>1, <1>2, CappedStay

LEMMA DeliverKeepsCounts ==
  ASSUME Typed, AttemptInv, CountsInv, NEW c \in Controllers, NEW k \in Slots, Deliver(c, k)
  PROVE  CountsInv'
  <1> USE DEF store
  <1>1. /\ lastAttempt' = lastAttempt + 1 /\ attempt'[c] = lastAttempt + 1
        /\ \A d \in Controllers \ {c} : attempt'[d] = attempt[d] /\ phase'[d] = phase[d]
        /\ UNCHANGED <<rating, review, job, failures>>
        /\ lastAttempt \in Nat /\ failures \in Nat /\ \A d \in Controllers : attempt[d] \in Nat
    BY DeviceAssumption DEF Deliver, NewAttempt, Typed, DeviceAssumption
  <1>2. OwnAttempts'
    <2>1. \A d \in Controllers \ {c} : attempt'[d] <= lastAttempt
      BY <1>1 DEF CountsInv, OwnAttempts
    <2>2. \A d \in Controllers : attempt'[d] <= lastAttempt'
      BY <1>1, <2>1
    <2>3. ASSUME NEW d \in Controllers, NEW e \in Controllers, attempt'[d] = attempt'[e],
                 attempt'[d] # 0
          PROVE  d = e
      <3>1. CASE d # c /\ e # c
        BY <1>1, <2>3, <3>1 DEF CountsInv, OwnAttempts
      <3>2. CASE d = c \/ e = c
        BY <1>1, <2>1, <2>3, <3>2
      <3>3. QED
        BY <3>1, <3>2
    <2>4. QED
      BY <2>2, <2>3 DEF OwnAttempts
  <1>3. ASSUME NEW s \in Attempts, NEW steps
        PROVE  Most(s, steps) <= Most(s, steps)' /\ Most(s, steps)' \in Nat
    <2>1. s \in Nat
      BY BagTypes
    <2>2. CASE s > lastAttempt
      BY <1>1, <2>1, <2>2 DEF Most
    <2>3. CASE ~ (s > lastAttempt)
      <3>1. ~ (s > lastAttempt')  /\ s # lastAttempt + 1
        BY <1>1, <2>1, <2>3
      <3>2. \A d \in Controllers : Waits(d, s, steps)' => Waits(d, s, steps)
        BY <1>1, <3>1 DEF Waits
      <3>3. QED
        BY <1>1, <2>3, <3>1, <3>2 DEF Most
    <2>4. QED
      BY <2>2, <2>3
  <1>4. QED
    BY <1>1, <1>2, <1>3, CappedStay

(* A submission begins, ends or makes a step that folds nothing.           *)
LEMMA CallKeepsCounts ==
  ASSUME Typed, Typed', AttemptInv, FreshInv, CountsInv, NEW c \in Controllers,
         TapSubmit(c) \/ ReadRating(c) \/ ReadSnapshot(c) \/ SaveAnswer(c)
           \/ BumpAnswersCount(c) \/ SubmitFails(c)
  PROVE  CountsInv'
  <1> USE DEF store, screen, calls, bounds
  <1>1. /\ UNCHANGED <<rating, review, attempt, lastAttempt>>
        /\ failures' \in {failures, failures + 1}
        /\ SubmitFails(c) => failures' = failures + 1
        /\ ~ SubmitFails(c) => failures' = failures
    BY DEF TapSubmit, ReadRating, ReadSnapshot, SaveAnswer, BumpAnswersCount, SubmitFails, Typed
  <1>2. OwnAttempts'
    BY <1>1 DEF CountsInv, OwnAttempts
  <1>3. \A d \in Controllers \ {c} : job'[d] = job[d] /\ phase'[d] = phase[d]
    BY DEF TapSubmit, ReadRating, ReadSnapshot, SaveAnswer, AtStep, BumpAnswersCount, SubmitFails,
           Settle, Typed
  <1>4. ASSUME ~ SubmitFails(c), NEW steps \in {BeforeRating, BeforeReview}, phase'[c] = "answering",
               job'[c].step \in steps
        PROVE  phase[c] = "answering" /\ job[c].step \in steps
    <2>1. CASE TapSubmit(c)
      BY <1>4, <2>1 DEF TapSubmit, AttemptInv, OneSubmission, BeforeRating, BeforeReview
    <2>2. CASE ReadRating(c) \/ ReadSnapshot(c) \/ SaveAnswer(c)
      <3>1. job[c].step \in {"read", "snapshot", "answer"} /\ phase' = phase
        BY <2>2 DEF ReadRating, ReadSnapshot, SaveAnswer, AtStep
      <3>2. QED
        BY <1>4, <3>1 DEF BeforeRating, BeforeReview
    <2>3. ~ BumpAnswersCount(c)
      BY <1>4 DEF BumpAnswersCount, AnsweredPhase, Typed
    <2>4. QED
      BY <1>4, <2>1, <2>2, <2>3
  <1>5. ASSUME NEW s \in Attempts, NEW steps \in {BeforeRating, BeforeReview}
        PROVE  Most(s, steps) <= Most(s, steps)' /\ Most(s, steps)' \in Nat
    <2>1. Most(s, steps)' \in Nat
      BY <1>1, BagTypes DEF Most
    <2>2. CASE SubmitFails(c)
      BY <1>1, <2>1, <2>2, CapGrows
    <2>3. CASE ~ SubmitFails(c)
      <3>1. \A d \in Controllers : Waits(d, s, steps)' => Waits(d, s, steps)
        BY <1>1, <1>3, <1>4, <2>3 DEF Waits
      <3>2. QED
        BY <1>1, <2>1, <2>3, <3>1, CapStays
    <2>4. QED
      BY <2>2, <2>3
  <1>6. ASSUME NEW s \in Attempts
        PROVE  /\ \/ job'[c].ratings[s] \in {0, job[c].ratings[s]}
                  \/ \E t \in Topics : job'[c].ratings[s] = rating[t][s]
               /\ \/ job'[c].reviews[s] \in {0, job[c].reviews[s]}
                  \/ \E q \in Questions : job'[c].reviews[s] = review[q][s]
    <2>1. CASE TapSubmit(c) \/ BumpAnswersCount(c) \/ SubmitFails(c)
      <3>1. job'[c].ratings = EmptyBag /\ job'[c].reviews = EmptyBag
        <4>1. CASE TapSubmit(c)
          BY <4>1 DEF TapSubmit, Typed
        <4>2. CASE BumpAnswersCount(c) \/ SubmitFails(c)
          BY <4>2 DEF BumpAnswersCount, SubmitFails, Settle, NoJob, Typed
        <4>3. QED
          BY <2>1, <4>1, <4>2
      <3>2. EmptyBag[s] = 0
        BY DEF EmptyBag
      <3>3. QED
        BY <3>1, <3>2
    <2>2. CASE ReadRating(c) \/ ReadSnapshot(c) \/ SaveAnswer(c)
      <3>1. /\ job[c].step # "idle"
            /\ job'[c].ratings \in {rating[topicOf[job[c].question]], job[c].ratings}
            /\ job'[c].reviews \in {review[job[c].question], job[c].reviews}
        BY <2>2, CallMoves, DeviceAssumption DEF Moves, AttemptInv
      <3>2. job[c].question \in Questions /\ topicOf[job[c].question] \in Topics
        BY <3>1, DeviceAssumption DEF AttemptInv, JobHasAttempt, DeviceAssumption
      <3>3. QED
        BY <3>1, <3>2
    <2>3. QED
      BY <2>1, <2>2
  <1>7. QED
    BY <1>1, <1>2, <1>3, <1>5, <1>6, CappedStay

(* The fold: the screen has waited, and waits no more.                     *)
LEMMA FoldKeepsCounts ==
  ASSUME Typed, Typed', AttemptInv, FreshInv, CountsInv, NEW c \in Controllers,
         SaveTopicRating(c) \/ SaveReviewState(c)
  PROVE  CountsInv'
  <1> USE DEF store, screen, calls, bounds
  <1> DEFINE a == job[c].attempt
             q == job[c].question
  <1>1. /\ \A d \in Controllers : job'[d].ratings = job[d].ratings /\ job'[d].reviews = job[d].reviews
        /\ \A d \in Controllers \ {c} : job'[d] = job[d]
        /\ job'[c].step = StepAfter(job[c].step)
        /\ UNCHANGED <<attempt, phase, lastAttempt, failures>>
    BY CallMoves, DeviceAssumption
       DEF Moves, AttemptInv, SaveTopicRating, SaveReviewState, AtStep
  <1>2. /\ a \in Attempts /\ a <= lastAttempt /\ a # 0 /\ q \in Questions /\ topicOf[q] \in Topics
        /\ attempt[c] = a /\ phase[c] = "answering"
    BY DeviceAssumption
       DEF SaveTopicRating, SaveReviewState, AtStep, AttemptInv, JobHasAttempt, FreshInv, Screen,
           Typed, Attempts, DeviceAssumption
  <1>3. OwnAttempts'
    BY <1>1 DEF CountsInv, OwnAttempts
  <1>4. ASSUME NEW s \in Attempts, NEW steps \in {BeforeRating, BeforeReview}
        PROVE  Most(s, steps) <= Most(s, steps)' /\ Most(s, steps)' \in Nat
    <2>1. job'[c].step \in steps => job[c].step \in steps
      <3>1. \/ job[c].step = "rating" /\ job'[c].step = "review"
            \/ job[c].step = "review" /\ job'[c].step = "count"
        BY <1>1 DEF SaveTopicRating, SaveReviewState, AtStep, StepAfter
      <3>2. QED
        BY <3>1 DEF BeforeRating, BeforeReview
    <2>2. \A d \in Controllers : Waits(d, s, steps)' => Waits(d, s, steps)
      BY <1>1, <2>1 DEF Waits
    <2>3. QED
      BY <1>1, <2>2, CapStays, BagTypes DEF Most
  <1>5. ASSUME NEW s \in Attempts, s = a, NEW steps, job[c].step \in steps, job'[c].step \notin steps
        PROVE  Most(s, steps) = failures /\ Most(s, steps)' = failures + 1
    <2>1. Waits(c, s, steps) /\ s \in Nat /\ lastAttempt \in Nat
      BY <1>2, <1>5, BagTypes DEF Waits
    <2>2. \A d \in Controllers : ~ Waits(d, s, steps)'
      <3>1. \A d \in Controllers : attempt[d] = s => d = c
        BY <1>2, <1>5 DEF CountsInv, OwnAttempts
      <3>2. QED
        BY <1>1, <1>5, <3>1 DEF Waits
    <2>3. ~ (s > lastAttempt) /\ ~ (s > lastAttempt')
      BY <1>1, <1>2, <1>5, <2>1
    <2>4. Most(s, steps) = failures
      BY <2>1, <2>3 DEF Most
    <2>5. Most(s, steps)' = failures' + 1
      BY <2>2, <2>3 DEF Most
    <2>6. QED
      BY <1>1, <2>4, <2>5
  <1>6. \A bag \in Bags : /\ Fold(bag, a)[a] = bag[a] + 1
                          /\ \A s \in Attempts \ {a} : Fold(bag, a)[s] = bag[s]
    BY <1>2 DEF Fold, Bags
  <1>7. CASE SaveTopicRating(c)
    <2>1. /\ job[c].step = "rating" /\ job'[c].step = "review"
          /\ rating'[topicOf[q]] = Fold(job[c].ratings, a)
          /\ \A t \in Topics \ {topicOf[q]} : rating'[t] = rating[t]
          /\ UNCHANGED review
      BY <1>1, <1>2, <1>7 DEF SaveTopicRating, AtStep, StepAfter, Typed
    <2>2. ASSUME NEW s \in Attempts, s = a
          PROVE  Most(s, BeforeRating) = failures /\ Most(s, BeforeRating)' = failures + 1
      BY <1>5, <2>1, <2>2 DEF BeforeRating
    <2>3. ASSUME NEW s \in Attempts, NEW v \in Nat, v <= Most(s, BeforeRating)
          PROVE  v <= Most(s, BeforeRating)'
      BY <1>4, <2>3, BagTypes
    <2>4. ASSUME NEW s \in Attempts
          PROVE  rating'[topicOf[q]][s] <= Most(s, BeforeRating)'
      <3>1. job[c].ratings[s] <= Most(s, BeforeRating) /\ job[c].ratings \in Bags
            /\ job[c].ratings[s] \in Nat /\ failures \in Nat
        BY BagTypes DEF CountsInv, RatingsCapped
      <3>2. CASE s = a
        <4>1. Most(s, BeforeRating) = failures /\ Most(s, BeforeRating)' = failures + 1
          BY <2>2, <3>2
        <4>2. Fold(job[c].ratings, a)[s] = job[c].ratings[s] + 1
          BY <1>6, <3>1, <3>2
        <4>3. QED
          BY <2>1, <3>1, <4>1, <4>2
      <3>3. CASE s # a
        BY <1>6, <2>1, <2>3, <3>1, <3>3
      <3>4. QED
        BY <3>2, <3>3
    <2>5. RatingsCapped'
      <3>1. ASSUME NEW s \in Attempts, NEW t \in Topics
            PROVE  rating'[t][s] <= Most(s, BeforeRating)'
        BY <2>1, <2>3, <2>4, BagTypes DEF CountsInv, RatingsCapped
      <3>2. ASSUME NEW s \in Attempts, NEW d \in Controllers
            PROVE  job'[d].ratings[s] <= Most(s, BeforeRating)'
        BY <1>1, <2>3, BagTypes DEF CountsInv, RatingsCapped
      <3>3. QED
        BY <3>1, <3>2 DEF RatingsCapped
    <2>6. ReviewsCapped'
      <3>1. ASSUME NEW s \in Attempts, NEW v \in Nat, v <= Most(s, BeforeReview)
            PROVE  v <= Most(s, BeforeReview)'
        BY <1>4, <3>1, BagTypes
      <3>2. QED
        BY <1>1, <2>1, <3>1, BagTypes DEF CountsInv, ReviewsCapped
    <2>7. QED
      BY <1>3, <2>5, <2>6 DEF CountsInv
  <1>8. CASE SaveReviewState(c)
    <2>1. /\ job[c].step = "review" /\ job'[c].step = "count"
          /\ review'[q] = Fold(job[c].reviews, a)
          /\ \A p \in Questions \ {q} : review'[p] = review[p]
          /\ UNCHANGED rating
      BY <1>1, <1>2, <1>8 DEF SaveReviewState, AtStep, StepAfter, Typed
    <2>2. ASSUME NEW s \in Attempts, s = a
          PROVE  Most(s, BeforeReview) = failures /\ Most(s, BeforeReview)' = failures + 1
      BY <1>5, <2>1, <2>2 DEF BeforeRating, BeforeReview
    <2>3. ASSUME NEW s \in Attempts, NEW v \in Nat, v <= Most(s, BeforeReview)
          PROVE  v <= Most(s, BeforeReview)'
      BY <1>4, <2>3, BagTypes
    <2>4. ASSUME NEW s \in Attempts
          PROVE  review'[q][s] <= Most(s, BeforeReview)'
      <3>1. job[c].reviews[s] <= Most(s, BeforeReview) /\ job[c].reviews \in Bags
            /\ job[c].reviews[s] \in Nat /\ failures \in Nat
        BY BagTypes DEF CountsInv, ReviewsCapped
      <3>2. CASE s = a
        <4>1. Most(s, BeforeReview) = failures /\ Most(s, BeforeReview)' = failures + 1
          BY <2>2, <3>2
        <4>2. Fold(job[c].reviews, a)[s] = job[c].reviews[s] + 1
          BY <1>6, <3>1, <3>2
        <4>3. QED
          BY <2>1, <3>1, <4>1, <4>2
      <3>3. CASE s # a
        BY <1>6, <2>1, <2>3, <3>1, <3>3
      <3>4. QED
        BY <3>2, <3>3
    <2>5. ReviewsCapped'
      <3>1. ASSUME NEW s \in Attempts, NEW p \in Questions
            PROVE  review'[p][s] <= Most(s, BeforeReview)'
        BY <2>1, <2>3, <2>4, BagTypes DEF CountsInv, ReviewsCapped
      <3>2. ASSUME NEW s \in Attempts, NEW d \in Controllers
            PROVE  job'[d].reviews[s] <= Most(s, BeforeReview)'
        BY <1>1, <2>3, BagTypes DEF CountsInv, ReviewsCapped
      <3>3. QED
        BY <3>1, <3>2 DEF ReviewsCapped
    <2>6. RatingsCapped'
      <3>1. ASSUME NEW s \in Attempts, NEW v \in Nat, v <= Most(s, BeforeRating)
            PROVE  v <= Most(s, BeforeRating)'
        BY <1>4, <3>1, BagTypes
      <3>2. QED
        BY <1>1, <2>1, <3>1, BagTypes DEF CountsInv, RatingsCapped
    <2>7. QED
      BY <1>3, <2>5, <2>6 DEF CountsInv
  <1>9. QED
    BY <1>7, <1>8

LEMMA StepKeepsCounts ==
  ASSUME Typed, Typed', AttemptInv, FreshInv, CountsInv, [Next]_vars
  PROVE  CountsInv'
  <1> USE DEF store, screen, calls, bounds
  <1>1. ASSUME NEW c \in Controllers, Tap(c) \/ Draw(c) PROVE CountsInv'
    <2>1. CASE TapSubmit(c)
      BY <2>1, CallKeepsCounts
    <2>2. CASE ~ TapSubmit(c)
      <3>1. /\ UNCHANGED <<rating, review, job, attempt, lastAttempt, failures>>
            /\ \A d \in Controllers : phase'[d] \in {"loading", phase[d]}
        BY <1>1, <2>2 DEF Tap, Open, TapSkip, TapNext, TapRetry, LoadNext, Draw, Typed
      <3>2. QED
        BY <3>1, IdleKeepsCounts
    <2>3. QED
      BY <2>1, <2>2
  <1>2. ASSUME NEW c \in Controllers, NEW k \in Slots,
               LoadRead(c, k) \/ Exhaust(c, k) \/ LoadFails(c, k)
        PROVE  CountsInv'
    <2>1. /\ UNCHANGED <<rating, review, job, attempt, lastAttempt>>
          /\ failures' \in {failures, failures + 1}
          /\ \A d \in Controllers : phase'[d] \in {"exhausted", "failed", phase[d]}
      BY <1>2 DEF LoadRead, Exhaust, EmptyPhase, LoadFails, Typed
    <2>2. QED
      BY <2>1, IdleKeepsCounts
  <1>3. CASE Onboard \/ (\E q \in Questions : Elapse(q)) \/ UNCHANGED vars
    <2>1. UNCHANGED <<rating, review, job, attempt, lastAttempt, failures, phase>>
      BY <1>3 DEF Onboard, Elapse, vars
    <2>2. QED
      BY <2>1, IdleKeepsCounts
  <1>4. CASE Wipe \/ Crash
    <2>1. /\ \A t \in Topics, s \in Attempts : rating'[t][s] \in {0, rating[t][s]}
          /\ \A q \in Questions, s \in Attempts : review'[q][s] \in {0, review[q][s]}
          /\ UNCHANGED <<lastAttempt, failures>>
      <3>1. \A t \in Topics, s \in Attempts : NoRatings[t][s] = 0
        BY DEF NoRatings, EmptyBag
      <3>2. \A q \in Questions, s \in Attempts : NoReviews[q][s] = 0
        BY DEF NoReviews, EmptyBag
      <3>3. CASE Wipe
        BY <3>1, <3>2, <3>3 DEF Wipe
      <3>4. CASE Crash
        BY <3>4 DEF Crash
      <3>5. QED
        BY <1>4, <3>3, <3>4
    <2>2. ASSUME NEW c \in Controllers, NEW s \in Attempts
          PROVE  /\ job'[c].ratings[s] \in {0, job[c].ratings[s]}
                 /\ job'[c].reviews[s] \in {0, job[c].reviews[s]}
      <3>1. NoJob.ratings[s] = 0 /\ NoJob.reviews[s] = 0
        BY DEF NoJob, EmptyBag
      <3>2. job'[c] \in {job[c], NoJob}
        BY <1>4 DEF Wipe, Crash, ForAll
      <3>3. QED
        BY <3>1, <3>2
    <2>3. \A c \in Controllers, s \in Attempts, steps \in {BeforeRating, BeforeReview} :
            Waits(c, s, steps)' => Waits(c, s, steps)
      BY <1>4 DEF Wipe, Crash, ForAll, Waits
    <2>4. OwnAttempts'
      <3>1. CASE Wipe
        BY <3>1 DEF Wipe, CountsInv, OwnAttempts
      <3>2. CASE Crash
        <4>1. \A c \in Controllers : attempt'[c] = 0
          BY <3>2 DEF Crash, ForAll
        <4>2. lastAttempt' \in Nat
          BY DeviceAssumption DEF Typed, DeviceAssumption
        <4>3. QED
          BY <4>1, <4>2 DEF OwnAttempts
      <3>3. QED
        BY <1>4, <3>1, <3>2
    <2>5. ASSUME NEW s \in Attempts, NEW steps \in {BeforeRating, BeforeReview}
          PROVE  Most(s, steps) <= Most(s, steps)' /\ Most(s, steps)' \in Nat
      BY <2>1, <2>3, CapStays, BagTypes DEF Most
    <2>6. QED
      BY <2>1, <2>2, <2>4, <2>5, CappedStay
  <1>5. QED
    BY <1>1, <1>2, <1>3, <1>4, DeliverKeepsCounts, CallKeepsCounts, FoldKeepsCounts
       DEF Next, LoadStep, SubmitStep, Fail

(* When taps meet the current frame, an estimate has seen an answer at most *)
(* once more often than calls have failed: only a failed call makes an     *)
(* attempt count again, for any number of screens, wipes and crashes.      *)
THEOREM FailuresAloneRecount ==
  ASSUME StaleFrames = FALSE
  PROVE  Spec => []RecountedOnlyAfterFailure
  <1>1. Init => CountsInv
    <2>1. \A s \in Attempts : s \in Nat /\ s > 0
      BY DeviceAssumption DEF Attempts, DeviceAssumption
    <2>2. QED
      BY <2>1 DEF Init, CountsInv, OwnAttempts, RatingsCapped, ReviewsCapped, Most, ForAll, NoJob,
                  NoRatings, NoReviews, EmptyBag
  <1>2. Typed /\ Typed' /\ AttemptInv /\ FreshInv /\ CountsInv /\ [Next]_vars => CountsInv'
    BY StepKeepsCounts
  <1>3. Typed /\ CountsInv => RecountedOnlyAfterFailure
    <2> SUFFICES ASSUME Typed, CountsInv PROVE RecountedOnlyAfterFailure
      OBVIOUS
    <2>1. \A s \in Attempts, steps \in {BeforeRating, BeforeReview} :
            Most(s, steps) <= 1 + failures
      BY BagTypes DEF Most
    <2>2. ASSUME NEW s \in Attempts, NEW t \in Topics PROVE rating[t][s] <= 1 + failures
      BY <2>1, BagTypes DEF CountsInv, RatingsCapped
    <2>3. ASSUME NEW s \in Attempts, NEW q \in Questions PROVE review[q][s] <= 1 + failures
      BY <2>1, BagTypes DEF CountsInv, ReviewsCapped
    <2>4. QED
      BY <2>2, <2>3 DEF RecountedOnlyAfterFailure
  <1>4. QED
    BY <1>1, <1>2, <1>3, FreshAlways, PTL DEF Spec
-----------------------------------------------------------------------------
(* The device as a ledger, while it is undisturbed: one screen, whose taps *)
(* meet the current frame, and nothing that fails, dies or is wiped.  What *)
(* a call has read still holds when it writes, its row is not there before *)
(* it stores it, and there is a profile row to count it.                   *)

Undisturbed ==
  /\ Controllers = {Feed} /\ StaleFrames = FALSE
  /\ MaxFailures = 0 /\ MaxCrashes = 0 /\ MaxWipes = 0

ReadStillHolds ==
  /\ job[Feed].step \in {"snapshot", "answer", "rating"} =>
       job[Feed].ratings = rating[topicOf[job[Feed].question]]
  /\ job[Feed].step \in {"answer", "rating", "review"} =>
       job[Feed].reviews = review[job[Feed].question]

ScreenIsNew ==
  phase[Feed] = "answering" /\ job[Feed].step \in {"idle", "read", "snapshot", "answer"} =>
    answers[attempt[Feed]] = None

SomeoneCounts == ~hasProfile => answersCount = 0 /\ job[Feed].step = "idle"

UndividedInv == ReadStillHolds /\ ScreenIsNew /\ SomeoneCounts

(* What is left to happen on such a device.                                *)
LEMMA UndisturbedSteps ==
  ASSUME DeviceAssumption, Undisturbed, Typed, [Next]_vars
  PROVE  \/ Open(Feed) \/ TapSkip(Feed) \/ TapNext(Feed) \/ TapRetry(Feed) \/ TapSubmit(Feed)
         \/ LoadStep(Feed) \/ SubmitStep(Feed)
         \/ (\E q \in Questions : Elapse(q)) \/ Onboard \/ UNCHANGED vars
  <1>0. ~ (failures < MaxFailures) /\ ~ (crashes < MaxCrashes) /\ ~ (wipes < MaxWipes)
    BY DEF Undisturbed, Typed
  <1>1. \A c \in Controllers : c = Feed /\ ~ Draw(c) /\ ~ Fail(c)
    BY <1>0 DEF Undisturbed, Draw, Fail, SubmitFails, LoadFails
  <1>2. ~ Wipe /\ ~ Crash
    BY <1>0 DEF Wipe, Crash
  <1> QED
    BY <1>1, <1>2 DEF Next, Tap

LEMMA StepIsUndivided ==
  ASSUME DeviceAssumption, Undisturbed, Typed, AttemptInv, FreshInv, UndividedInv, [Next]_vars
  PROVE  UndividedInv'
  <1> USE DEF store, screen, calls, bounds
  <1>0. Feed \in Controllers /\ Screen(Feed)
    BY DEF DeviceAssumption, FreshInv
  <1>1. CASE Open(Feed) \/ TapSkip(Feed) \/ TapNext(Feed) \/ TapRetry(Feed)
    <2>1. PICK skip : LoadNext(Feed, skip)
      BY <1>1 DEF Open, TapSkip, TapNext, TapRetry
    <2>2. phase'[Feed] = "loading" /\ UNCHANGED <<rating, review, hasProfile, answersCount, job>>
      BY <1>0, <2>1 DEF LoadNext, Typed
    <2> QED
      BY <2>2 DEF UndividedInv, ReadStillHolds, ScreenIsNew, SomeoneCounts
  <1>2. CASE TapSubmit(Feed)
    <2>1. /\ hasProfile /\ job[Feed].step = "idle" /\ job'[Feed].step = "read"
          /\ UNCHANGED <<answers, phase, attempt, hasProfile>>
      BY <1>0, <1>2 DEF TapSubmit, Typed, AttemptInv, OneSubmission
    <2> QED
      BY <2>1 DEF UndividedInv, ReadStillHolds, ScreenIsNew, SomeoneCounts
  <1>3. CASE LoadStep(Feed)
    <2>1. PICK k \in Slots : LoadRead(Feed, k) \/ Deliver(Feed, k) \/ Exhaust(Feed, k)
      BY <1>3 DEF LoadStep
    <2>2. UNCHANGED <<answers, rating, review, hasProfile, answersCount, job>>
      BY <2>1 DEF LoadRead, Deliver, Exhaust
    <2>3. ScreenIsNew'
      <3>1. CASE LoadRead(Feed, k)
        BY <2>2, <3>1 DEF LoadRead, UndividedInv, ScreenIsNew
      <3>2. CASE Exhaust(Feed, k)
        BY <1>0, <3>2 DEF Exhaust, EmptyPhase, Typed, ScreenIsNew
      <3>3. CASE Deliver(Feed, k)
        <4>1. attempt'[Feed] = lastAttempt + 1 /\ lastAttempt < MaxAttempts
          BY <1>0, <3>3 DEF Deliver, NewAttempt, Typed
        <4>2. lastAttempt + 1 \in Attempts /\ lastAttempt + 1 > lastAttempt
          BY <4>1, DeviceAssumption DEF Attempts, Typed, DeviceAssumption
        <4>3. answers[lastAttempt + 1] = None
          BY <4>2 DEF AttemptInv, AttemptHasOneQuestion, LaterAttemptsAreFree
        <4> QED
          BY <2>2, <4>1, <4>3 DEF ScreenIsNew
      <3> QED
        BY <2>1, <3>1, <3>2, <3>3
    <2> QED
      BY <2>2, <2>3 DEF UndividedInv, ReadStillHolds, SomeoneCounts
  <1>4. CASE Moves(Feed)
    <2> DEFINE q == job[Feed].question
               a == job[Feed].attempt
    <2>1. /\ job[Feed].step \in {"read", "snapshot", "answer", "rating", "review"}
          /\ job'[Feed].step = StepAfter(job[Feed].step)
          /\ job'[Feed].question = q
          /\ job'[Feed].ratings = IF job[Feed].step = "read" THEN rating[topicOf[q]]
                                                             ELSE job[Feed].ratings
          /\ job'[Feed].reviews = IF job[Feed].step = "snapshot" THEN review[q]
                                                                 ELSE job[Feed].reviews
          /\ UNCHANGED <<phase, attempt>>
      BY <1>0, <1>4, CallMoves DEF AttemptInv
    <2>2. UNCHANGED <<hasProfile, answersCount>>
      BY <1>4 DEF Moves, ReadRating, ReadSnapshot, SaveAnswer, SaveTopicRating, SaveReviewState
    <2>3. SomeoneCounts'
      BY <2>1, <2>2 DEF UndividedInv, SomeoneCounts
    <2>4. CASE job[Feed].step \in {"read", "snapshot"}
      <3>1. UNCHANGED <<answers, rating, review>>
        BY <1>4, <2>4 DEF Moves, ReadRating, ReadSnapshot, SaveAnswer, SaveTopicRating,
                          SaveReviewState, AtStep
      <3>2. ReadStillHolds'
        BY <2>1, <2>4, <3>1 DEF UndividedInv, ReadStillHolds, StepAfter
      <3>3. ScreenIsNew'
        BY <2>1, <2>4, <3>1 DEF UndividedInv, ScreenIsNew, StepAfter
      <3> QED
        BY <2>3, <3>2, <3>3 DEF UndividedInv
    <2>5. CASE job[Feed].step = "answer"
      <3>1. UNCHANGED <<rating, review>> /\ job'[Feed].step = "rating"
        BY <1>4, <2>1, <2>5 DEF Moves, ReadRating, ReadSnapshot, SaveAnswer, SaveTopicRating,
                          SaveReviewState, AtStep, StepAfter
      <3> QED
        BY <2>1, <2>3, <2>5, <3>1 DEF UndividedInv, ReadStillHolds, ScreenIsNew
    <2>6. CASE job[Feed].step = "rating"
      <3>1. UNCHANGED review /\ job'[Feed].step = "review"
        BY <1>4, <2>1, <2>6 DEF Moves, ReadRating, ReadSnapshot, SaveAnswer, SaveTopicRating,
                          SaveReviewState, AtStep, StepAfter
      <3> QED
        BY <2>1, <2>3, <2>6, <3>1 DEF UndividedInv, ReadStillHolds, ScreenIsNew
    <2>7. CASE job[Feed].step = "review"
      <3>1. job'[Feed].step = "count"
        BY <2>1, <2>7 DEF StepAfter
      <3> QED
        BY <2>3, <3>1 DEF UndividedInv, ReadStillHolds, ScreenIsNew
    <2> QED
      BY <2>1, <2>4, <2>5, <2>6, <2>7
  <1>5. CASE BumpAnswersCount(Feed)
    <2>1. /\ job[Feed].step = "count" /\ job'[Feed].step = "idle" /\ phase'[Feed] = "reviewing"
          /\ hasProfile' = hasProfile
      BY <1>0, <1>5 DEF BumpAnswersCount, Settle, NoJob, AnsweredPhase, Typed
    <2> QED
      BY <2>1 DEF UndividedInv, ReadStillHolds, ScreenIsNew, SomeoneCounts
  <1>6. CASE (\E q \in Questions : Elapse(q)) \/ UNCHANGED vars
    <2>1. UNCHANGED <<answers, rating, review, hasProfile, answersCount, job, phase, attempt>>
      BY <1>6 DEF Elapse, vars
    <2> QED
      BY <2>1 DEF UndividedInv, ReadStillHolds, ScreenIsNew, SomeoneCounts
  <1>7. CASE Onboard
    BY <1>7 DEF Onboard, UndividedInv, ReadStillHolds, ScreenIsNew, SomeoneCounts
  <1> QED
    BY <1>1, <1>2, <1>3, <1>4, <1>5, <1>6, <1>7, UndisturbedSteps DEF SubmitStep, Moves

(* The tables as the ledger sees them.  A set of owed attempts is that of   *)
(* the one call there is, and so is what the counter has still to count.   *)
Logged(t)    == Settled(rating[t], Owes({"rating"}, t, TopicOfJob))
Reviewed(q)  == Settled(review[q], Owes({"rating", "review"}, q, QuestionOfJob))
Uncounted    == {c \in Controllers : job[c].step \in {"rating", "review", "count"}}

Owing(step, steps, holds, s) == IF step \in steps /\ holds THEN {s} ELSE {}

LEMMA OneCallOwes ==
  ASSUME Undisturbed
  PROVE  /\ \A t : Owes({"rating"}, t, TopicOfJob) =
                     Owing(job[Feed].step, {"rating"}, topicOf[job[Feed].question] = t,
                           job[Feed].attempt)
         /\ \A q : Owes({"rating", "review"}, q, QuestionOfJob) =
                     Owing(job[Feed].step, {"rating", "review"}, job[Feed].question = q,
                           job[Feed].attempt)
         /\ Uncounted = IF job[Feed].step \in {"rating", "review", "count"} THEN {Feed} ELSE {}
         /\ Cardinality(Uncounted) =
              IF job[Feed].step \in {"rating", "review", "count"} THEN 1 ELSE 0
  <1>1. Uncounted = IF job[Feed].step \in {"rating", "review", "count"} THEN {Feed} ELSE {}
    BY DEF Undisturbed, Uncounted
  <1>2. Cardinality({Feed}) = 1 /\ Cardinality({}) = 0
    BY FS_Singleton, FS_EmptySet
  <1>3. \A t : Owes({"rating"}, t, TopicOfJob) =
                 Owing(job[Feed].step, {"rating"}, topicOf[job[Feed].question] = t,
                       job[Feed].attempt)
    BY DEF Undisturbed, Owes, TopicOfJob, Owing
  <1>4. \A q : Owes({"rating", "review"}, q, QuestionOfJob) =
                 Owing(job[Feed].step, {"rating", "review"}, job[Feed].question = q,
                       job[Feed].attempt)
    BY DEF Undisturbed, Owes, QuestionOfJob, Owing
  <1> QED
    BY <1>1, <1>2, <1>3, <1>4

LEMMA OneCallOwesNext ==
  ASSUME Undisturbed
  PROVE  /\ \A t : Owes({"rating"}, t, TopicOfJob)' =
                     Owing(job'[Feed].step, {"rating"}, topicOf[job'[Feed].question] = t,
                           job'[Feed].attempt)
         /\ \A q : Owes({"rating", "review"}, q, QuestionOfJob)' =
                     Owing(job'[Feed].step, {"rating", "review"}, job'[Feed].question = q,
                           job'[Feed].attempt)
         /\ Cardinality(Uncounted)' =
              IF job'[Feed].step \in {"rating", "review", "count"} THEN 1 ELSE 0
  <1>1. Uncounted' = IF job'[Feed].step \in {"rating", "review", "count"} THEN {Feed} ELSE {}
    BY DEF Undisturbed, Uncounted
  <1>2. Cardinality({Feed}) = 1 /\ Cardinality({}) = 0
    BY FS_Singleton, FS_EmptySet
  <1>3. \A t : Owes({"rating"}, t, TopicOfJob)' =
                 Owing(job'[Feed].step, {"rating"}, topicOf[job'[Feed].question] = t,
                       job'[Feed].attempt)
    BY DEF Undisturbed, Owes, TopicOfJob, Owing
  <1>4. \A q : Owes({"rating", "review"}, q, QuestionOfJob)' =
                 Owing(job'[Feed].step, {"rating", "review"}, job'[Feed].question = q,
                       job'[Feed].attempt)
    BY DEF Undisturbed, Owes, QuestionOfJob, Owing
  <1> QED
    BY <1>1, <1>2, <1>3, <1>4

LEMMA SettledBags ==
  ASSUME NEW bag \in Bags, NEW s
  PROVE  /\ Settled(bag, {}) = bag
         /\ Settled(bag, {s}) = Fold(bag, s)
  BY DEF Bags, Settled, Fold

LEMMA TablesStutter ==
  ASSUME answers' = answers,
         \A t \in Topics : Logged(t)' = Logged(t),
         \A q \in Questions : Reviewed(q)' = Reviewed(q),
         answersCount' + Cardinality(Uncounted)' = answersCount + Cardinality(Uncounted)
  PROVE  UNCHANGED Ledger!ledger
  <1>1. UNCHANGED [t \in Topics |-> Logged(t)] /\ UNCHANGED [q \in Questions |-> Reviewed(q)]
    OBVIOUS
  <1> QED
    BY <1>1 DEF Ledger!ledger, Logged, Reviewed, Uncounted

LEMMA TablesRecord ==
  ASSUME NEW s \in Attempts, NEW q \in Questions,
         answers[s] = None, answers' = [answers EXCEPT ![s] = q],
         \A t \in Topics : Logged(t)' = IF t = topicOf[q] THEN Fold(Logged(t), s) ELSE Logged(t),
         \A x \in Questions : Reviewed(x)' = IF x = q THEN Fold(Reviewed(x), s) ELSE Reviewed(x),
         answersCount' + Cardinality(Uncounted)' = answersCount + Cardinality(Uncounted) + 1
  PROVE  Ledger!Record(s, q)
  <1> DEFINE A == [t \in Topics |-> Logged(t)]
             R == [x \in Questions |-> Reviewed(x)]
  <1>1. A' = [A EXCEPT ![topicOf[q]][s] = @ + 1]
    BY DEF Fold
  <1>2. R' = [R EXCEPT ![q][s] = @ + 1]
    BY DEF Fold
  <1> QED
    BY <1>1, <1>2 DEF Ledger!Record, Logged, Reviewed, Uncounted

LEMMA DeviceStartsLedger ==
  ASSUME DeviceAssumption, Undisturbed, Init
  PROVE  Ledger!LedgerInit
  <1>1. job[Feed].step = "idle"
    BY DEF DeviceAssumption, Init, ForAll, NoJob
  <1>2. EmptyBag \in Bags
    BY DEF EmptyBag, Bags
  <1>3. \A t \in Topics : Logged(t) = EmptyBag
    BY <1>1, <1>2, OneCallOwes, SettledBags DEF Logged, Owing, Init, NoRatings
  <1>4. \A q \in Questions : Reviewed(q) = EmptyBag
    BY <1>1, <1>2, OneCallOwes, SettledBags DEF Reviewed, Owing, Init, NoReviews
  <1>5. answersCount + Cardinality(Uncounted) = 0
    BY <1>1, OneCallOwes DEF Init
  <1>6. [t \in Topics |-> Logged(t)] = [t \in Topics |-> EmptyBag]
    BY <1>3
  <1>7. [q \in Questions |-> Reviewed(q)] = [q \in Questions |-> EmptyBag]
    BY <1>4
  <1> QED
    BY <1>5, <1>6, <1>7 DEF Ledger!LedgerInit, Ledger!Empty, EmptyBag, Logged, Reviewed, Uncounted,
                            Init, NoAnswers

(* A step of the device is a step of the ledger where it stores the row,   *)
(* and nothing to it elsewhere.                                            *)
LEMMA StepIsLedgerStep ==
  ASSUME DeviceAssumption, Undisturbed, Typed, AttemptInv, FreshInv, UndividedInv, [Next]_vars
  PROVE  [Ledger!LedgerNext]_(Ledger!ledger)
  <1> USE DEF store, screen, calls, bounds
  <1> DEFINE q == job[Feed].question
             a == job[Feed].attempt
             step == job[Feed].step
  <1>0. /\ Feed \in Controllers /\ Screen(Feed) /\ answersCount \in Nat
        /\ \A t \in Topics : rating[t] \in Bags
        /\ \A x \in Questions : review[x] \in Bags
    BY DEF DeviceAssumption, FreshInv, Typed
  <1>1. ASSUME UNCHANGED <<answers, rating, review, answersCount>>,
               step \in {"idle", "read", "snapshot"}, job'[Feed].step \in {"idle", "read", "snapshot", "answer"}
        PROVE  UNCHANGED Ledger!ledger
    <2>1. \A t \in Topics : Logged(t)' = Logged(t)
      BY <1>1, OneCallOwes, OneCallOwesNext DEF Logged, Owing, Settled
    <2>2. \A x \in Questions : Reviewed(x)' = Reviewed(x)
      BY <1>1, OneCallOwes, OneCallOwesNext DEF Reviewed, Owing, Settled
    <2> QED
      BY <1>1, <2>1, <2>2, OneCallOwes, OneCallOwesNext, TablesStutter
  <1>2. ASSUME UNCHANGED <<answers, rating, review, answersCount, job>>
        PROVE  UNCHANGED Ledger!ledger
    <2>1. \A t \in Topics : Logged(t)' = Logged(t)
      BY <1>2, OneCallOwes, OneCallOwesNext DEF Logged, Owing, Settled
    <2>2. \A x \in Questions : Reviewed(x)' = Reviewed(x)
      BY <1>2, OneCallOwes, OneCallOwesNext DEF Reviewed, Owing, Settled
    <2> QED
      BY <1>2, <2>1, <2>2, OneCallOwes, OneCallOwesNext, TablesStutter
  <1>3. CASE \/ Open(Feed) \/ TapSkip(Feed) \/ TapNext(Feed) \/ TapRetry(Feed) \/ LoadStep(Feed)
             \/ (\E x \in Questions : Elapse(x)) \/ UNCHANGED vars
    <2>1. UNCHANGED <<answers, rating, review, answersCount, job>>
      BY <1>3 DEF Open, TapSkip, TapNext, TapRetry, LoadNext, LoadStep, LoadRead, Deliver, Exhaust,
                  Elapse, vars
    <2> QED
      BY <1>2, <2>1
  <1>4. CASE Onboard
    BY <1>2, <1>4 DEF Onboard, UndividedInv, SomeoneCounts
  <1>5. CASE TapSubmit(Feed)
    <2>1. step = "idle" /\ job'[Feed].step = "read"
      BY <1>0, <1>5 DEF TapSubmit, Typed, AttemptInv, OneSubmission
    <2> QED
      BY <1>1, <1>5, <2>1 DEF TapSubmit
  <1>6. CASE ReadRating(Feed) \/ ReadSnapshot(Feed)
    <2>1. step \in {"read", "snapshot"} /\ job'[Feed].step = StepAfter(step)
      BY <1>0, <1>6, CallMoves DEF ReadRating, ReadSnapshot, Moves, AttemptInv
    <2> QED
      BY <1>1, <1>6, <2>1 DEF ReadRating, ReadSnapshot, StepAfter
  <1>7. ASSUME SaveAnswer(Feed) \/ SaveTopicRating(Feed) \/ SaveReviewState(Feed)
        PROVE  /\ job'[Feed].question = q /\ job'[Feed].attempt = a
               /\ job'[Feed].step = StepAfter(step)
               /\ q \in Questions /\ topicOf[q] \in Topics /\ a \in Attempts
    <2>1. /\ job'[Feed].question = q /\ job'[Feed].attempt = a
          /\ job'[Feed].step = StepAfter(step) /\ step # "idle"
      BY <1>0, <1>7, CallMoves DEF Moves, AttemptInv
    <2>2. q \in Questions /\ topicOf[q] \in Topics /\ a \in 1..lastAttempt
      BY <1>0, <2>1 DEF AttemptInv, JobHasAttempt, DeviceAssumption
    <2> QED
      BY <2>1, <2>2 DEF Attempts, Typed, DeviceAssumption
  <1>8. CASE SaveAnswer(Feed)
    <2>1. /\ step = "answer" /\ job'[Feed].step = "rating"
          /\ answers' = [answers EXCEPT ![a] = q] /\ UNCHANGED <<rating, review, answersCount>>
      BY <1>7, <1>8 DEF SaveAnswer, AtStep, StepAfter
    <2>2. answers[a] = None
      BY <1>0, <2>1 DEF UndividedInv, ScreenIsNew, Screen
    <2>3. ASSUME NEW t \in Topics
          PROVE  Logged(t)' = IF t = topicOf[q] THEN Fold(Logged(t), a) ELSE Logged(t)
      <3>1. Logged(t) = Settled(rating[t], {}) /\ Settled(rating[t], {}) = rating[t]
        BY <1>0, <2>1, OneCallOwes, SettledBags DEF Logged, Owing
      <3>2. Logged(t)' = Settled(rating[t], IF t = topicOf[q] THEN {a} ELSE {})
        BY <1>7, <1>8, <2>1, OneCallOwesNext DEF Logged, Owing, Settled
      <3> QED
        BY <1>0, <3>1, <3>2, SettledBags
    <2>4. ASSUME NEW x \in Questions
          PROVE  Reviewed(x)' = IF x = q THEN Fold(Reviewed(x), a) ELSE Reviewed(x)
      <3>1. Reviewed(x) = Settled(review[x], {}) /\ Settled(review[x], {}) = review[x]
        BY <1>0, <2>1, OneCallOwes, SettledBags DEF Reviewed, Owing
      <3>2. Reviewed(x)' = Settled(review[x], IF x = q THEN {a} ELSE {})
        BY <1>7, <1>8, <2>1, OneCallOwesNext DEF Reviewed, Owing, Settled
      <3> QED
        BY <1>0, <3>1, <3>2, SettledBags
    <2>5. answersCount' + Cardinality(Uncounted)' = answersCount + Cardinality(Uncounted) + 1
      BY <1>0, <2>1, OneCallOwes, OneCallOwesNext
    <2>6. Ledger!Record(a, q)
      BY <1>7, <1>8, <2>1, <2>2, <2>3, <2>4, <2>5, TablesRecord
    <2> QED
      BY <1>7, <1>8, <2>6 DEF Ledger!LedgerNext
  <1>9. CASE SaveTopicRating(Feed)
    <2>1. /\ step = "rating" /\ job'[Feed].step = "review"
          /\ rating' = [rating EXCEPT ![topicOf[q]] = Fold(job[Feed].ratings, a)]
          /\ UNCHANGED <<answers, review, answersCount>>
      BY <1>7, <1>9 DEF SaveTopicRating, AtStep, StepAfter
    <2>2. job[Feed].ratings = rating[topicOf[q]]
      BY <2>1 DEF UndividedInv, ReadStillHolds
    <2>3. ASSUME NEW t \in Topics PROVE Logged(t)' = Logged(t)
      <3>1. Logged(t) = Settled(rating[t], IF t = topicOf[q] THEN {a} ELSE {})
        BY <2>1, OneCallOwes DEF Logged, Owing
      <3>2. Logged(t)' = Settled(rating'[t], {})
        BY <2>1, OneCallOwesNext DEF Logged, Owing, Settled
      <3>3. rating'[t] = IF t = topicOf[q] THEN Fold(rating[t], a) ELSE rating[t]
        BY <2>1, <2>2 DEF Typed
      <3>4. rating'[t] \in Bags
        BY <1>0, <3>3, FoldType
      <3> QED
        BY <1>0, <3>1, <3>2, <3>3, <3>4, SettledBags
    <2>4. \A x \in Questions : Reviewed(x)' = Reviewed(x)
      BY <1>7, <1>9, <2>1, OneCallOwes, OneCallOwesNext DEF Reviewed, Owing, Settled
    <2> QED
      BY <2>1, <2>3, <2>4, OneCallOwes, OneCallOwesNext, TablesStutter
  <1>10. CASE SaveReviewState(Feed)
    <2>1. /\ step = "review" /\ job'[Feed].step = "count"
          /\ review' = [review EXCEPT ![q] = Fold(job[Feed].reviews, a)]
          /\ UNCHANGED <<answers, rating, answersCount>>
      BY <1>7, <1>10 DEF SaveReviewState, AtStep, StepAfter
    <2>2. job[Feed].reviews = review[q]
      BY <2>1 DEF UndividedInv, ReadStillHolds
    <2>3. ASSUME NEW x \in Questions PROVE Reviewed(x)' = Reviewed(x)
      <3>1. Reviewed(x) = Settled(review[x], IF x = q THEN {a} ELSE {})
        BY <2>1, OneCallOwes DEF Reviewed, Owing
      <3>2. Reviewed(x)' = Settled(review'[x], {})
        BY <2>1, OneCallOwesNext DEF Reviewed, Owing, Settled
      <3>3. review'[x] = IF x = q THEN Fold(review[x], a) ELSE review[x]
        BY <2>1, <2>2 DEF Typed
      <3>4. review'[x] \in Bags
        BY <1>0, <3>3, FoldType
      <3> QED
        BY <1>0, <3>1, <3>2, <3>3, <3>4, SettledBags
    <2>4. \A t \in Topics : Logged(t)' = Logged(t)
      BY <2>1, OneCallOwes, OneCallOwesNext DEF Logged, Owing, Settled
    <2> QED
      BY <2>1, <2>3, <2>4, OneCallOwes, OneCallOwesNext, TablesStutter
  <1>11. CASE BumpAnswersCount(Feed)
    <2>1. /\ step = "count" /\ job'[Feed].step = "idle" /\ hasProfile
          /\ answersCount' = answersCount + 1 /\ UNCHANGED <<answers, rating, review>>
      BY <1>0, <1>11 DEF BumpAnswersCount, BumpedCount, Settle, NoJob, Typed, UndividedInv,
                         SomeoneCounts
    <2>2. \A t \in Topics : Logged(t)' = Logged(t)
      BY <2>1, OneCallOwes, OneCallOwesNext DEF Logged, Owing, Settled
    <2>3. \A x \in Questions : Reviewed(x)' = Reviewed(x)
      BY <2>1, OneCallOwes, OneCallOwesNext DEF Reviewed, Owing, Settled
    <2>4. answersCount' + Cardinality(Uncounted)' = answersCount + Cardinality(Uncounted)
      BY <1>0, <2>1, OneCallOwes, OneCallOwesNext
    <2> QED
      BY <2>1, <2>2, <2>3, <2>4, TablesStutter
  <1> QED
    BY <1>3, <1>4, <1>5, <1>6, <1>8, <1>9, <1>10, <1>11, UndisturbedSteps DEF SubmitStep

(* An undisturbed device implements the ledger, for every bank, any number *)
(* of attempts and submissions: the four statements of an answer are one   *)
(* indivisible step.                                                       *)
THEOREM DeviceIsLedger ==
  ASSUME Undisturbed
  PROVE  Spec => LedgerSpec
  <1>1. Init => UndividedInv /\ Ledger!LedgerInit
    <2>1. Init => UndividedInv
      BY DeviceAssumption DEF DeviceAssumption, Init, ForAll, NoJob, UndividedInv, ReadStillHolds,
                              ScreenIsNew, SomeoneCounts
    <2> QED
      BY <2>1, DeviceAssumption, DeviceStartsLedger
  <1>2. Typed /\ AttemptInv /\ FreshInv /\ UndividedInv /\ [Next]_vars
          => UndividedInv' /\ [Ledger!LedgerNext]_(Ledger!ledger)
    BY DeviceAssumption, StepIsUndivided, StepIsLedgerStep
  <1>3. Spec => [](Typed /\ AttemptInv /\ LogInv /\ FreshInv)
    BY FreshAlways DEF Undisturbed
  <1> QED
    BY <1>1, <1>2, <1>3, PTL DEF Spec, LedgerSpec, Ledger!LedgerSpec

(* Hence on an undisturbed device every estimate has seen exactly the      *)
(* logged attempts that concern it, each once, whatever is still owed.     *)
THEOREM UndisturbedIsExact ==
  ASSUME Undisturbed
  PROVE  Spec => []Ledger!EstimatesMatchLog
  <1>1. Ledger!LedgerAssumption
    BY DeviceAssumption DEF DeviceAssumption, Ledger!LedgerAssumption
  <1>2. LedgerSpec => []Ledger!EstimatesMatchLog
    BY <1>1, Ledger!LedgerIsExact, PTL DEF LedgerSpec
  <1> QED
    BY <1>2, DeviceIsLedger, PTL
=============================================================================
