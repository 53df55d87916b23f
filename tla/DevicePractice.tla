--------------------------- MODULE DevicePractice ---------------------------
(***************************************************************************)
(* One training session on the device: the practice controllers            *)
(* (presentation/practice/practice_controller.dart), the practice service  *)
(* they call (data/local/practice_service.dart) and the SQLite tables the  *)
(* service writes (data/local/app_database.dart).                          *)
(*                                                                         *)
(* An answer is stored by four separate statements, none of them in a      *)
(* transaction, between which the process may die, another controller may  *)
(* run, a statement may fail or the person may wipe the data.  A tap hits  *)
(* the frame that was drawn last, which may be older than the state.       *)
(*                                                                         *)
(* A rating or a review state is a fold over the answers it has seen, so   *)
(* it is abstracted to that bag: how many times each attempt has been      *)
(* folded in.  The store writes absolute values computed from an earlier   *)
(* read, and so does the model.                                            *)
(***************************************************************************)
EXTENDS Naturals, FiniteSets

CONSTANTS
  Controllers,   (* practice controllers, one per PracticeKey               *)
  Feed,          (* the controller of the adaptive feed                     *)
  Questions,     (* bank questions in the grade range of the profile        *)
  Topics,        (* sections the questions belong to                        *)
  topicOf,       (* the section of each question                            *)
  fixedQuestion, (* the question a controller opened from the list shows    *)
  None,
  StaleFrames,   (* may a tap hit a frame older than the state?             *)
  MaxAttempts,   (* bound: questions loaded, hence attempt ids issued       *)
  MaxTaps,       (* bound: submissions started                              *)
  MaxFailures,   (* bound: statements that fail                             *)
  MaxCrashes,    (* bound: process deaths                                   *)
  MaxWipes       (* bound: wipes of the data                                *)

ASSUME DeviceAssumption ==
  /\ Feed \in Controllers
  /\ topicOf \in [Questions -> Topics]
  /\ fixedQuestion \in [Controllers \ {Feed} -> Questions]
  /\ None \notin Questions
  /\ StaleFrames \in BOOLEAN
  /\ MaxAttempts \in Nat /\ MaxTaps \in Nat /\ MaxFailures \in Nat
  /\ MaxCrashes \in Nat /\ MaxWipes \in Nat

Attempts  == 1..MaxAttempts
MaybeQ    == Questions \cup {None}
Slots     == 1..2              (* loads one controller may have in flight *)
Bags      == [Attempts -> Nat]
EmptyBag  == [s \in Attempts |-> 0]
Fold(bag, s) == [bag EXCEPT ![s] = @ + 1]

Phases == {"closed", "loading", "answering", "reviewing", "exhausted", "failed"}
Steps  == {"idle", "read", "snapshot", "answer", "rating", "review", "count"}
Stages == {"idle", "reading", "read"}

Fetches == [stage: Stages, skip: MaybeQ, next: MaybeQ]
Jobs    == [step: Steps, attempt: 0..MaxAttempts, question: MaybeQ,
            ratings: Bags, reviews: Bags]
Frames  == [phase: Phases, submitting: BOOLEAN]

NoJob   == [step |-> "idle", attempt |-> 0, question |-> None,
            ratings |-> EmptyBag, reviews |-> EmptyBag]
NoFetch == [stage |-> "idle", skip |-> None, next |-> None]
Frame(p, sub) == [phase |-> p, submitting |-> sub]

VARIABLES
  answers,       (* table Answers: the question each attempt answered      *)
  rating,        (* table TopicRatings: the answers folded into each       *)
  review,        (* table ReviewStates: the answers folded into each       *)
  due,           (* questions whose review is overdue                      *)
  hasProfile,    (* is there a primary profile row?                        *)
  answersCount,  (* its answers_count                                      *)
  phase, current, attempt, submitting, session,  (* PracticeState          *)
  result,        (* question the displayed result belongs to               *)
  fetch,         (* loadNext calls in flight                               *)
  job,           (* submitAnswer call in flight                            *)
  frame,         (* what was drawn last                                    *)
  issued,        (* history: question each attempt id was issued for       *)
  lastAttempt, loads, taps, failures, crashes, wipes   (* bound counters   *)

store   == <<answers, rating, review, due, hasProfile, answersCount>>
screen  == <<phase, current, attempt, submitting, session, result, frame>>
calls   == <<fetch, job>>
bounds  == <<lastAttempt, loads, taps, failures, crashes, wipes>>
vars    == <<store, screen, calls, issued, bounds>>

Typed ==
  /\ answers \in [Attempts -> MaybeQ]
  /\ rating \in [Topics -> Bags]
  /\ review \in [Questions -> Bags]
  /\ due \in SUBSET Questions
  /\ hasProfile \in BOOLEAN
  /\ answersCount \in Nat
  /\ phase \in [Controllers -> Phases]
  /\ current \in [Controllers -> MaybeQ]
  /\ attempt \in [Controllers -> 0..MaxAttempts]
  /\ submitting \in [Controllers -> BOOLEAN]
  /\ session \in [Controllers -> Nat]
  /\ result \in [Controllers -> MaybeQ]
  /\ fetch \in [Controllers -> [Slots -> Fetches]]
  /\ job \in [Controllers -> Jobs]
  /\ frame \in [Controllers -> Frames]
  /\ issued \in [Attempts -> MaybeQ]
  /\ lastAttempt \in 0..MaxAttempts
  /\ loads \in Nat /\ taps \in Nat /\ failures \in Nat /\ crashes \in Nat /\ wipes \in Nat

(* What the code unwraps is there: the question of a screen that asks or
   explains, the result it explains, the question of a call in flight
   (state.current!, state.result! in practice_screen.dart:98 and 113-114).   *)
NothingMissing ==
  \A c \in Controllers :
    /\ phase[c] \in {"answering", "reviewing"} => current[c] # None
    /\ phase[c] = "reviewing" => result[c] # None
    /\ job[c].step # "idle" => current[c] # None /\ job[c].question # None

(* Every variable has its type, absent values only where the code expects
   them, whatever order loads, taps, failures and answers come in.           *)
TypeOK == Typed /\ NothingMissing

-----------------------------------------------------------------------------
(* The tables of a fresh install, which are those a wipe leaves, and the   *)
(* memory of a process that has just started.                              *)

NoAnswers == [s \in Attempts |-> None]
NoRatings == [t \in Topics |-> EmptyBag]
NoReviews == [q \in Questions |-> EmptyBag]
ForAll(x) == [c \in Controllers |-> x]

Init ==
  /\ answers = NoAnswers /\ rating = NoRatings /\ review = NoReviews /\ due = {}
  /\ hasProfile = FALSE /\ answersCount = 0
  /\ phase = ForAll("closed") /\ current = ForAll(None) /\ attempt = ForAll(0)
  /\ submitting = ForAll(FALSE) /\ session = ForAll(0) /\ result = ForAll(None)
  /\ frame = ForAll(Frame("closed", FALSE))
  /\ fetch = ForAll([k \in Slots |-> NoFetch])
  /\ job = ForAll(NoJob)
  /\ issued = [s \in Attempts |-> None]
  /\ lastAttempt = 0 /\ loads = 0 /\ taps = 0
  /\ failures = 0 /\ crashes = 0 /\ wipes = 0

-----------------------------------------------------------------------------
(* Taps.  A button acts on what the person sees, the handler on the state. *)

Seen(c) == IF StaleFrames THEN frame[c] ELSE Frame(phase[c], submitting[c])

Draw(c) ==
  /\ StaleFrames
  /\ frame[c] # Frame(phase[c], submitting[c])
  /\ frame' = [frame EXCEPT ![c] = Frame(phase[c], submitting[c])]
  /\ UNCHANGED <<store, phase, current, attempt, submitting, session, result,
                 calls, issued, bounds>>

LoadNext(c, skip) ==
  /\ loads < MaxAttempts
  /\ loads' = loads + 1
  /\ \E k \in Slots :
       /\ fetch[c][k].stage = "idle"
       /\ \A j \in Slots : j < k => fetch[c][j].stage # "idle"
       /\ fetch' = [fetch EXCEPT ![c][k] =
                      [stage |-> "reading", skip |-> skip, next |-> None]]
  /\ phase' = [phase EXCEPT ![c] = "loading"]
  /\ result' = [result EXCEPT ![c] = None]
  /\ UNCHANGED <<store, current, attempt, submitting, session, frame, job,
                 issued, lastAttempt, taps, failures, crashes, wipes>>

Open(c) ==
  /\ hasProfile
  /\ phase[c] = "closed"
  /\ LoadNext(c, None)

CanSkipAnytime(c) == c = Feed /\ Seen(c).phase = "answering"
CanSkip(c) == c = Feed /\ Seen(c) = Frame("answering", FALSE)

TapSkip(c) ==
  /\ hasProfile
  /\ CanSkip(c)
  /\ LoadNext(c, current[c])

TapNext(c) ==
  /\ hasProfile
  /\ c = Feed
  /\ Seen(c).phase = "reviewing"
  /\ LoadNext(c, None)

TapRetry(c) ==
  /\ hasProfile
  /\ Seen(c).phase = "failed"
  /\ LoadNext(c, None)

TapSubmit(c) ==
  /\ hasProfile
  /\ taps < MaxTaps
  /\ taps' = taps + 1
  /\ Seen(c) = Frame("answering", FALSE)
  /\ current[c] # None
  /\ ~submitting[c]
  /\ submitting' = [submitting EXCEPT ![c] = TRUE]
  /\ job' = [job EXCEPT ![c] = [step |-> "read", attempt |-> attempt[c],
                                question |-> current[c],
                                ratings |-> EmptyBag, reviews |-> EmptyBag]]
  /\ UNCHANGED <<store, phase, current, attempt, session, result, frame, fetch,
                 issued, lastAttempt, loads, failures, crashes, wipes>>

-----------------------------------------------------------------------------
(* Choosing a question: overdue reviews first, then questions never        *)
(* answered; what was just skipped is left out of both.                    *)

HasReview(q) == \E s \in Attempts : review[q][s] > 0
Answered == {answers[s] : s \in {s \in Attempts : answers[s] # None}}

Candidates(skip) ==
  LET overdue == due \ {skip}
  IN  IF overdue # {} THEN overdue ELSE Questions \ (Answered \cup {skip})

(* nextQuestion of the feed, questionById of a question opened from the    *)
(* list; None when there is nothing to offer.                              *)
Choices(c, skip) ==
  IF c # Feed THEN {fixedQuestion[c]}
  ELSE IF hasProfile /\ Candidates(skip) # {} THEN Candidates(skip) ELSE {None}

LoadRead(c, k) ==
  /\ fetch[c][k].stage = "reading"
  /\ \E q \in Choices(c, fetch[c][k].skip) :
       fetch' = [fetch EXCEPT ![c][k] = [@ EXCEPT !.stage = "read", !.next = q]]
  /\ UNCHANGED <<store, screen, job, issued, bounds>>

(* A fresh attempt id is drawn for the question.                           *)
AttemptOncePerScreen(c, q) ==
  LET fresh == IF attempt[c] = 0 THEN lastAttempt + 1 ELSE attempt[c]
  IN  /\ fresh <= MaxAttempts
      /\ lastAttempt' = IF fresh > lastAttempt THEN fresh ELSE lastAttempt
      /\ issued' = [issued EXCEPT ![fresh] = IF issued[fresh] = None THEN q ELSE @]
      /\ attempt' = [attempt EXCEPT ![c] = fresh]

(* An id is the time in microseconds and is taken to be new: the clock of   *)
(* the device shows no value at two questions (practice_controller.dart:91). *)
NewAttempt(c, q) ==
  /\ lastAttempt < MaxAttempts
  /\ lastAttempt' = lastAttempt + 1
  /\ issued' = [issued EXCEPT ![lastAttempt + 1] = q]
  /\ attempt' = [attempt EXCEPT ![c] = lastAttempt + 1]

(* The loaded question replaces the current one under that id.             *)
ArrivedUnchecked(c, k) == fetch[c][k].stage = "read"
Arrived(c, k) == fetch[c][k].stage = "read" /\ fetch[c][k].next # None

Deliver(c, k) ==
  /\ Arrived(c, k)
  /\ NewAttempt(c, fetch[c][k].next)
  /\ current' = [current EXCEPT ![c] = fetch[c][k].next]
  /\ phase' = [phase EXCEPT ![c] = "answering"]
  /\ fetch' = [fetch EXCEPT ![c][k] = NoFetch]
  /\ UNCHANGED <<store, submitting, session, result, frame, job,
                 loads, taps, failures, crashes, wipes>>

EmptyPhaseForgotten == "loading"
EmptyPhase == "exhausted"

Exhaust(c, k) ==
  /\ fetch[c][k].stage = "read"
  /\ fetch[c][k].next = None
  /\ phase' = [phase EXCEPT ![c] = EmptyPhase]
  /\ fetch' = [fetch EXCEPT ![c][k] = NoFetch]
  /\ UNCHANGED <<store, current, attempt, submitting, session, result, frame,
                 job, issued, bounds>>

LoadFails(c, k) ==
  /\ fetch[c][k].stage = "reading"
  /\ failures < MaxFailures
  /\ failures' = failures + 1
  /\ phase' = [phase EXCEPT ![c] = "failed"]
  /\ fetch' = [fetch EXCEPT ![c][k] = NoFetch]
  /\ UNCHANGED <<store, current, attempt, submitting, session, result, frame,
                 job, issued, lastAttempt, loads, taps, crashes, wipes>>

-----------------------------------------------------------------------------
(* submitAnswer: two reads, then four writes in this order.                *)

RatingBeforeAnswer(step) ==
  CASE step = "read" -> "snapshot" [] step = "snapshot" -> "rating"
    [] step = "rating" -> "answer" [] step = "answer" -> "review" [] step = "review" -> "count"

StepAfter(step) ==
  CASE step = "read" -> "snapshot" [] step = "snapshot" -> "answer"
    [] step = "answer" -> "rating" [] step = "rating" -> "review" [] step = "review" -> "count"

AtStep(c, step) ==
  /\ job[c].step = step
  /\ job' = [job EXCEPT ![c] = [@ EXCEPT !.step = StepAfter(step)]]

ReadRating(c) ==
  /\ job[c].step = "read"
  /\ job' = [job EXCEPT ![c] = [@ EXCEPT !.step = StepAfter("read"),
                                         !.ratings = rating[topicOf[job[c].question]]]]
  /\ UNCHANGED <<store, screen, fetch, issued, bounds>>

ReadSnapshot(c) ==
  /\ job[c].step = "snapshot"
  /\ job' = [job EXCEPT ![c] = [@ EXCEPT !.step = StepAfter("snapshot"),
                                         !.reviews = review[job[c].question]]]
  /\ UNCHANGED <<store, screen, fetch, issued, bounds>>

SaveAnswer(c) ==
  /\ AtStep(c, "answer")
  /\ answers' = [answers EXCEPT ![job[c].attempt] = job[c].question]
  /\ UNCHANGED <<rating, review, due, hasProfile, answersCount,
                 screen, fetch, issued, bounds>>

SaveTopicRating(c) ==
  /\ AtStep(c, "rating")
  /\ rating' = [rating EXCEPT ![topicOf[job[c].question]] =
                  Fold(job[c].ratings, job[c].attempt)]
  /\ UNCHANGED <<answers, review, due, hasProfile, answersCount,
                 screen, fetch, issued, bounds>>

(* Every answer moves the review at least a day ahead.                     *)
SaveReviewState(c) ==
  /\ AtStep(c, "review")
  /\ review' = [review EXCEPT ![job[c].question] =
                  Fold(job[c].reviews, job[c].attempt)]
  /\ due' = due \ {job[c].question}
  /\ UNCHANGED <<answers, rating, hasProfile, answersCount,
                 screen, fetch, issued, bounds>>

(* The call is over, one way or the other.                                 *)
SettleButKeepFlag(c) ==
  /\ job' = [job EXCEPT ![c] = NoJob]
  /\ UNCHANGED submitting

Settle(c) ==
  /\ job' = [job EXCEPT ![c] = NoJob]
  /\ submitting' = [submitting EXCEPT ![c] = FALSE]

(* The counter is incremented by SQL; with no profile row nothing matches. *)
CountFromZero == IF hasProfile THEN 1 ELSE answersCount
BumpedCount == IF hasProfile THEN answersCount + 1 ELSE answersCount

AnsweredPhaseForgotten == "answering"
AnsweredPhase == "reviewing"

BumpAnswersCount(c) ==
  /\ job[c].step = "count"
  /\ answersCount' = BumpedCount
  /\ Settle(c)
  /\ phase' = [phase EXCEPT ![c] = AnsweredPhase]
  /\ result' = [result EXCEPT ![c] = job[c].question]
  /\ session' = [session EXCEPT ![c] = @ + 1]
  /\ UNCHANGED <<answers, rating, review, due, hasProfile, current, attempt,
                 frame, fetch, issued, bounds>>

(* The statement the call has come to throws: the screen stays on the      *)
(* question, with the same attempt id, and offers to answer again.         *)
SubmitFails(c) ==
  /\ job[c].step # "idle"
  /\ failures < MaxFailures
  /\ failures' = failures + 1
  /\ Settle(c)
  /\ UNCHANGED <<store, phase, current, attempt, session, result, frame, fetch,
                 issued, lastAttempt, loads, taps, crashes, wipes>>

-----------------------------------------------------------------------------
(* The world around the session.                                           *)

(* The moment of a scheduled review comes.                                 *)
Elapse(q) ==
  /\ HasReview(q)
  /\ q \notin due
  /\ due' = due \cup {q}
  /\ UNCHANGED <<answers, rating, review, hasProfile, answersCount,
                 screen, calls, issued, bounds>>

(* completeOnboarding: the profile row appears with no answers counted.    *)
Onboard ==
  /\ ~hasProfile
  /\ hasProfile' = TRUE
  /\ answersCount' = 0
  /\ UNCHANGED <<answers, rating, review, due, screen, calls, issued, bounds>>

(* wipe clears every table in one transaction.  Controllers and the calls  *)
(* they have in flight live on.                                            *)
Wipe ==
  /\ hasProfile
  /\ wipes < MaxWipes
  /\ wipes' = wipes + 1
  /\ answers' = NoAnswers /\ rating' = NoRatings /\ review' = NoReviews /\ due' = {}
  /\ hasProfile' = FALSE /\ answersCount' = 0
  /\ UNCHANGED <<screen, calls, issued, lastAttempt, loads, taps, failures, crashes>>

(* The process dies: memory is lost, completed statements are not.         *)
Crash ==
  /\ crashes < MaxCrashes
  /\ crashes' = crashes + 1
  /\ phase' = ForAll("closed") /\ current' = ForAll(None) /\ attempt' = ForAll(0)
  /\ submitting' = ForAll(FALSE) /\ session' = ForAll(0) /\ result' = ForAll(None)
  /\ frame' = ForAll(Frame("closed", FALSE))
  /\ fetch' = ForAll([k \in Slots |-> NoFetch])
  /\ job' = ForAll(NoJob)
  /\ UNCHANGED <<store, issued, lastAttempt, loads, taps, failures, wipes>>

-----------------------------------------------------------------------------
Tap(c) == Open(c) \/ TapSkip(c) \/ TapNext(c) \/ TapRetry(c) \/ TapSubmit(c)

LoadStep(c) == \E k \in Slots : LoadRead(c, k) \/ Deliver(c, k) \/ Exhaust(c, k)

SubmitStep(c) ==
  \/ ReadRating(c) \/ ReadSnapshot(c)
  \/ SaveAnswer(c) \/ SaveTopicRating(c) \/ SaveReviewState(c) \/ BumpAnswersCount(c)

Fail(c) == SubmitFails(c) \/ \E k \in Slots : LoadFails(c, k)

Next ==
  \/ \E c \in Controllers : Draw(c) \/ Tap(c) \/ LoadStep(c) \/ SubmitStep(c) \/ Fail(c)
  \/ \E q \in Questions : Elapse(q)
  \/ Onboard
  \/ Wipe
  \/ Crash

Spec == Init /\ [][Next]_vars

(* The event loop runs what has been started: a call in flight makes its   *)
(* next step, a changed state is drawn.  Nobody has to tap.                *)
Fairness ==
  \A c \in Controllers :
    WF_vars(SubmitStep(c)) /\ WF_vars(LoadStep(c)) /\ WF_vars(Draw(c))

FairSpec == Spec /\ Fairness

-----------------------------------------------------------------------------
(* Properties.                                                             *)

(* A controller is marked as submitting exactly while a call of submitAnswer
   is in flight: no tap, however late, starts a second call beside it, and no
   outcome of the call leaves the screen locked.                            *)
OneSubmission ==
  \A c \in Controllers : submitting[c] <=> job[c].step # "idle"

(* An attempt id stands for one question for ever: whatever was skipped,
   reloaded or answered late, the row stored under the id, and a call still
   carrying it, are about the question it was issued for.                   *)
AttemptHasOneQuestion ==
  /\ \A s \in Attempts : answers[s] \in {None, issued[s]}
  /\ \A c \in Controllers :
       job[c].step # "idle" => issued[job[c].attempt] = job[c].question

(* While nothing was wiped, no rating and no review state has seen an answer
   that is not in the log: the row is written first, so a process that dies
   between the statements leaves the log ahead of the estimates, not behind. *)
EstimatesBackedByLog ==
  wipes = 0 =>
    /\ \A t \in Topics, s \in Attempts :
         rating[t][s] > 0 => answers[s] # None /\ topicOf[answers[s]] = t
    /\ \A q \in Questions, s \in Attempts : review[q][s] > 0 => answers[s] = q

(* While nothing was wiped, the counters of the open screens never promise
   more answers than the profile has counted, crashes and failures included. *)
SessionWithinProfile ==
  wipes = 0 => \A c \in Controllers : session[c] <= answersCount

(* When taps meet the current frame, the result on the screen is that of the
   question on the screen (the note written there goes to that question), and
   its row is in the log.                                                    *)
ShownResultIsStored ==
  \A c \in Controllers : phase[c] = "reviewing" =>
    /\ result[c] = current[c]
    /\ wipes = 0 => answers[attempt[c]] = current[c]

(* When taps meet the current frame, only a failed call makes an attempt
   count again: an estimate has seen an answer at most once more often than
   calls have failed.                                                        *)
RecountedOnlyAfterFailure ==
  /\ \A t \in Topics, s \in Attempts : rating[t][s] <= 1 + failures
  /\ \A q \in Questions, s \in Attempts : review[q][s] <= 1 + failures

(* What the code says of a repeated tap: an attempt is counted once
   (app_database.dart:41, practice_controller.dart:66-67).                   *)
AttemptCountedOnce ==
  \A t \in Topics, s \in Attempts : rating[t][s] <= 1

(* Every submission ends, with a result or with an error, and every load
   ends, with a question, an error or the news that there is none.           *)
CallsSettle ==
  \A c \in Controllers :
    /\ submitting[c] ~> ~submitting[c]
    /\ phase[c] = "loading" ~> phase[c] # "loading"

-----------------------------------------------------------------------------
(* The device as an answer ledger.  A call counts from the moment its row   *)
(* is written; what it has still to write is added to the tables.           *)

Owes(steps, x, of(_)) ==
  {job[c].attempt : c \in {c \in Controllers : job[c].step \in steps /\ of(c) = x}}

Settled(bag, owed) == [s \in Attempts |-> IF s \in owed THEN bag[s] + 1 ELSE bag[s]]

TopicOfJob(c) == topicOf[job[c].question]
QuestionOfJob(c) == job[c].question

Ledger == INSTANCE AnswerLedger WITH
  log <- answers,
  applied <- [t \in Topics |-> Settled(rating[t], Owes({"rating"}, t, TopicOfJob))],
  scheduled <- [q \in Questions |->
                  Settled(review[q], Owes({"rating", "review"}, q, QuestionOfJob))],
  total <- answersCount +
             Cardinality({c \in Controllers : job[c].step \in {"rating", "review", "count"}})

(* As long as one screen is used, nothing fails, dies or is wiped and taps
   meet the current frame, the four statements together are the single
   indivisible step of the ledger.                                           *)
LedgerSpec == Ledger!LedgerSpec
=============================================================================
