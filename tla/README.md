# Interview Trainer: TLA+ models, model checks and proofs

Interview Trainer prepares a person for a technical interview. It shows questions of a
specialization and a grade, grades the answers, keeps a rating per section (Elo), schedules
repetitions (SM-2) and lays out a plan up to the day of the interview. Everything runs on the
device: Flutter/Dart, a SQLite database through drift, and the question bank as a bundled JSON
file. A backend (FastAPI, async SQLAlchemy, PostgreSQL, Redis) does the same on a server. The
application does not call it at this commit; it is kept working for a synchronisation to come,
and its tests and those of the application fix that both compute the same.

This directory holds the models of that code, the configurations that check them with TLC and
the theorems about them that TLAPS checks. Every definition that stands for code is listed in
`PROJECT.json` under `map` with the lines it was translated from.

## 1. Inventory

| Component | State | Operations | What is hard | What makes it correct |
|---|---|---|---|---|
| Training session on the device (`practice_controller.dart`, `practice_service.dart`, `practice_screen.dart`, `question_card.dart`) | `PracticeState` of each controller: phase, question, result, attempt id, `isSubmitting`, answers of the session | load, skip, submit, next, retry | asynchronous calls of one controller and of several overlap; taps hit the frame drawn last; four statements without a transaction; a failure, the death of the process or a wipe between two of them | one submission at a time; an attempt id means one question; the log is ahead of the estimates; a result shown is stored; nothing hangs |
| Local database (`app_database.dart`) | tables Answers, TopicRatings, ReviewStates, Profiles, StudyPlans, StudyPlanDays, Notes, OwnQuestions | upserts, counter, plan in a transaction, wipe | absolute values written from earlier reads; wipe under a running call | estimates are a fold of the answers |
| Session and profile on the device (`providers.dart`, `app_router.dart`, `specialization_sheet.dart`, `target_grade_sheet.dart`) | profile row, session status | restore, onboarding, change of target, wipe | redirects depend on a future | one primary profile; no screen without a profile |
| Study plan on the device (`planner.dart`, `plan_service.dart`) | plans with their days | create, cancel, today, dashboard | days are stored, time goes on; slots, topics and days rarely divide; clock changes | one active plan; it reaches the eve of the interview; even load; coverage; the bar of the day does not go back |
| Spaced repetition and grading, both sides (`scheduler.dart`, `scheduler.py`, `offline_grader.dart`, `practice.py`) | easiness, interval, repetitions | grade, review | rounding of two languages; width of the column | a pass does not shorten; a better answer does not come back sooner; both sides agree |
| Elo rating, both sides (`rating.dart`, `rating.py`) | rating, confidence | update, grade, overall rating | irrational expectations; topics with a rating and no weight | the overall grade lies between those of the topics |
| Question bank and list on the device | none that changes | lookup, filters | — | — |
| Notes and own questions | one row each | save, delete | save on close | last text wins |
| Intake of answers on the server (`practice.py`, `api/v1/practice.py`, `api/v1/sync.py`) | `user_answers`, `topic_ratings`, `review_states`, counters; the session of each request | answer, batch of answers | READ COMMITTED; unique keys; a rollback in the middle of a batch; retries; deadlocks; lost connections | at most once; acknowledged means stored; every request ends |
| Feed, list and statistics on the server (`practice.py`, `rating.py`) | reads of what answers have written | next question, list, card, stats | each endpoint reads other tables by other keys: a review belongs to a question, an answer to a specialization, a grade to the profile or the plan; answers arrive days late | the endpoints agree; a question answered today rests |
| Question package of the sync (`practice.py`, `api/v1/sync.py`) | `updated_at`, the mark the client keeps | changes since | commit order against `updated_at`; writes that do not move it; a response that is lost | nothing is missed |
| Study plan on the server (`plan.py`, `planner.py`) | plans, days | create, today | two requests at once; a deletion at the same time; the plan keeps a target and topics while profile, ratings and reviews go on | one active plan; the day asks for no more than its norm |
| Users and accounts (`user.py`, `auth.py`, `deps.py`) | users, profiles | register, sign in, choose a specialization, make primary, delete | two requests at once; a session that keeps the row it loaded; deletion under a running request | one primary unless declined; nothing stays of a deleted account; one account an address |
| Question reports (`reports.py`) | reports | report | check before insert, unguarded | no duplicate, a daily limit |
| Rate limit (`rate_limit.py`) | a Redis key per client and window | count | INCR and EXPIRE are two calls; Redis away | the window ends |
| Content seeding (`seed/`, `taxonomy.py`, `questions.py`, `docker-compose.yml`) | taxonomy and questions, the state of the starting container | validate, upsert and delete from YAML, export the bundle | runs at every start over rows users refer to and answers have moved; order of deletions; a crash between the two seeds; files that pass the checks and fail in the database | the tables are the files and the bundle; users lose only what the files dropped; a sound image comes to serve |
| Schema and migrations, HTTP layer, configuration, deployment, screens, theme, store pages | — | — | — | — |

How they interact. A screen watches the provider of a controller; the controller calls a service
and waits; the service reads and writes the database statement by statement and the scheduler and
the rating in between. The feed and every question opened from the list are controllers of their
own over the same tables, and none of them is disposed with its screen. The plan reads what the
training writes (answers of the day, reviews due, ratings). The wipe clears the tables under all
of them. On the server every request has a session and a transaction of its own; requests meet
only in the rows of PostgreSQL and its locks. A client would send what its queue holds and drop
what the response calls accepted. The container of the server brings the tables into line with the
files of its image before it serves; what it deletes takes the rows of users with it through the
foreign keys, and what it and the answers write into `questions` decides what the next package holds.

## 2. Modules

| Module | What it models |
|---|---|
| `AnswerLedger` | what storing an answer promises: one indivisible step per attempt |
| `DevicePractice` | the training session, its tables and its faults; implements `AnswerLedger` when nothing fails |
| `ServerPractice` | the intake of answers on the server as concurrent transactions |
| `StudyPlan` | the planner, the plan service and the plan tables of the device |
| `ReviewSchedule` | grading and SM-2 of both sides, side by side |
| `RateLimit` | the limit on sign-ins and registrations over Redis |
| `ContentFile` | the content directory: what the loaders accept, and the bundle of the application |
| `ServerContent` | the start of the api container with its two seeds, the package of changes, and the answers that move questions meanwhile; extends `ContentFile` |
| `ServerFeed` | what the server shows one user from day to day: feed, list, card, statistics, plan and plan of the day |
| `ServerAccount` | registration, sign-in, specializations, plans, reports and deletion on the server as concurrent transactions; extends `RateLimit` |
| `DevicePracticeProofs`, `ServerPracticeProofs`, `StudyPlanProofs`, `ReviewScheduleProofs`, `ServerAccountProofs`, `ServerContentProofs`, `ServerFeedProofs` | the theorems; those of `RateLimit` are in `ServerAccountProofs`, the one of `AnswerLedger` is in it |
| `MCDevicePractice`, `MCServerPractice`, `MCStudyPlan`, `MCReviewSchedule`, `MCServerAccount`, `MCServerContent`, `MCServerFeed` | constants for TLC |

### DevicePractice

State: the tables (`answers`, `rating`, `review`, `due`, the profile), for each controller the
fields of `PracticeState`, the frame that was drawn last, up to two `loadNext` calls in flight
and one `submitAnswer` call. `fetch[c][k]` and `job[c]` are the local variables of those calls
and the place they have come to.

| Action | Code |
|---|---|
| `Open`, `TapSkip`, `TapNext`, `TapRetry`, `TapSubmit` | the buttons of `practice_screen.dart` and `question_card.dart`, and the handlers of the controller up to their first await |
| `LoadRead`, `Deliver`, `Exhaust`, `LoadFails` | the rest of `loadNext`; `nextQuestion` is one read |
| `ReadRating`, `ReadSnapshot`, `SaveAnswer`, `SaveTopicRating`, `SaveReviewState`, `BumpAnswersCount` | `submitAnswer`, one action per await, and what the controller does with its result |
| `SubmitFails` | any of those statements throws |
| `Draw` | a frame is drawn |
| `Elapse`, `Onboard`, `Wipe`, `Crash` | a review falls due, onboarding, wipe, death of the process |

A rating or a review state is abstracted to the bag of the attempts folded into it: the update reads
an absolute value, computes a new one and writes it, so what a lost or repeated update does shows in
the bag. An attempt id is the time in microseconds (`practice_controller.dart:91`); the model takes
it to be new, that is, the clock not to show one value twice. The numbers themselves are the
business of `ReviewSchedule` and of a module to come. Which of several candidates a question is
chosen from is left open; the order in which the code prefers them (overdue reviews before new
questions, never the skipped one) is kept.

### ServerPractice

A request is one HTTP request to `/practice/answer` or `/sync/answers`, with one transaction. The
model keeps what the SQLAlchemy session holds (`loaded`, `cache`), because a row stays in it for
the next item of the batch, what is written and therefore locked (`written`, `stored`), and the
committed tables. The actions follow `submit_answer`: `Begin` (authentication loads the user),
`Replay` or `Lookup`, `Refuse`, `Load`, `CreateRating` (a flush of its own, outside the `try`),
`ReviewSnapshot` and `SaveReviewState` (the row is read twice), `Flush`, `Conflict`, `Commit`;
`BreakDeadlock` and `Crash` are PostgreSQL and the world. A retry by the client is another request
with the same items, at any time. SQLAlchemy leaves an UPDATE out when the value has not changed
(the rating of a question may round to itself); the model always writes, so it waits a little
more often than the program and misses no wait.

### StudyPlan

A topic is its rank by priority; the days of a plan are a function of its first day, its length
and the number of its topics, which the table keeps. Time is counted in half days, so that a
review can fall due in the course of a day. `Create`, `Cancel` and `Wipe` are the operations of
the plan service, `Answer` and `Tick` what the training and the clock do to the numbers the plan
shows. The length of days (23 or 25 hours at a change of the clocks) is a constant of the model,
because `planDays` subtracts two local midnights and truncates.

### ReviewSchedule

One question of one person. Both implementations take in the same answers. All constants of SM-2
are multiples of a hundredth, so easiness is a whole number of hundredths. The doubles of the
program are the same on both sides; their error matters only where the exact product is half a
day, and there the double may be below, at or above the half. Which of the three it is, is a free
choice, the same for both sides as long as their states are equal.

### RateLimit and ServerAccount

`RateLimit` is `rate_limit.check`, command by command: `Count` is INCR, `SetExpiry` the EXPIRE of
the call that created the key, `Judge` the comparison, `Cut` a command that raises or a process
that dies, `Tick` the expiry in Redis. `ServerAccount` takes its variables and actions over and
adds the database: a request that has no token passes the keys of its endpoint first (`Arrive`,
`Limit`, `Admit`), every other one begins with `Authenticate`.

| Action | Code |
|---|---|
| `Register`, `Verify` | `AuthService.register` and `authenticate` |
| `FindProfile`, `ResetOtherPrimaries`, `SaveProfile` | `set_specialization`: the row from the session or the database, the reset of other primaries, the flush |
| `Require`, `ScanPlans`, `DeactivatePrevious`, `InsertPlan` | `PlanService.create`; the UPDATE finds its rows, then waits for them |
| `LookupReport`, `CheckLimit`, `InsertReport` | `ReportService.submit` |
| `Erase`, `Cascade` | `delete_account`: the statements of the ORM, then what the foreign keys do |
| `Commit`, `Leave` | the commit of the endpoint; a rollback with the response |
| `BreakDeadlock`, `Crash`, `Elapse` | PostgreSQL, the world, Redis |

A statement takes all its locks in one step and waits for them without holding a part. What a
request has written is visible to others at its commit; a unique key is a lock, so a second insert
of it waits and then fails. Authentication loads the user with all profiles, two selects that the
model makes in one step, and a row the session holds is not read again (`cache`): `set_specialization` unsets another primary by assigning to the
row it holds, and an assignment of the value that is loaded already writes nothing. Left out: the
validation of input, except that an unknown specialization and a wording that is too short are
refused; the tokens; the new hash of a password at sign-in; the fields of a report. All reports of a
run are of one day, and no user is inactive.

### ContentFile and ServerContent

A content directory is the parsed `taxonomy.yaml` and the parsed question files. `TaxonomyFile`,
`QuestionIn`, `index_check` and `load_questions` are what the validators accept; `Bundle` is what
`export_bundle.py` writes for the application. Texts are one value, and of a detailed answer only
the headings of the levels count.

| Action | Code |
|---|---|
| `Deploy` | the container is created from an image, or started again after a crash (`restart: unless-stopped`) |
| `seed_taxonomy` | `python -m app.seed.taxonomy`: read, check, bring professions, specializations and sections into line, commit |
| `seed_questions`, `CommitQuestions` | `python -m app.seed.questions`: read and check, begin the transaction; apply and commit, or fail |
| `Enrol`, `Verify`, `BeginAnswer`, `CommitAnswer` | what users and editors do to the same rows |
| `question_package`, `ReadPackage`, `ReceivePackage`, `LosePackage` | `GET /sync/questions`: the mark, the rows, the response |

The tables are one record `db`; a section with its subsections and weights is one row. Each seed is
one transaction and shows nothing before its commit, so it applies in one step, at its commit; the
time it stamps is the time it began, as PostgreSQL's `now()` is. The start of the taxonomy seed is
not kept, because no client asks for its rows by their time. A seed started by hand with the names
of files is the seed of a directory of these files: it deletes the questions of all others. What
a package reads by two selects (rows, options) is read in one step. `Overlap` says whether requests
are served while a container starts; it is TRUE in the run, the wider case. `unseen` is a history
variable: the rows a package may miss for one of two known reasons, a transaction older than the
mark that committed after it (`late`) and a write that left `updated_at` of the question alone
(`silent`: options, links and the confirmation are written without it when nothing else changes).
A row that is deleted or unlinked never reaches the client either; no property speaks of those. The
mark a person sets on a checked question has no endpoint: `Verify` is external.

### ServerFeed

One user, one request a step; the interleaving of requests is the matter of `ServerPractice` and
`ServerAccount`. The state is what the endpoints read: profiles, topic ratings, the log of answers
(by specialization and question the number, the day and the score of the last), review states and
the active plan of each specialization with its days. `submit_answer` writes all of them; an answer
carries the day it was given on, which `_resolve_answered_at` bounds, and may arrive after a later
one. The reads are operators with the names of the code: `next_question` (the set of answers the
feed may give, because the query for candidates has a limit and no order), `question_list`,
`QuestionListResponse`, `question_by_id`, `stats`, `today`. The move of a rating and the interval to
the next review are any of a given set; the priorities, thresholds and the weighted mean are
computed in whole numbers (an equal order, multiplied out). Answers of one day arrive in order.
What was answered today does not reduce the plan of the day: the code shows `completed_today`
beside it, and new questions move up. The bank and its links are constant. A content seed that
deletes a question takes its answers and reviews along and leaves the counters of profiles and
ratings; one that deletes a specialization takes its answers and ratings and leaves the reviews of
shared questions. `EndpointsAgree` does not hold of the tables after that, and claims nothing of it;
what such a seed takes from users is the matter of `ServerContent`.

## 3. Runs

| Run | Question | Bounds |
|---|---|---|
| `device_faults` | what no order of taps (on frames older than the state, too), loads, failures, a crash and a wipe may break | feed and one card, two questions of one section, 2 attempts, 2 submissions, 1 failure, 1 crash, 1 wipe |
| `device_session` | what holds when taps meet the current frame, and that every call ends | the same with 3 attempts, 3 submissions, no wipe |
| `device_ledger` | the statements of one submission together are the step of `AnswerLedger` | feed, 4 attempts, nothing fails |
| `device_retry` (violation) | is an attempt counted once? | feed, 2 submissions, 1 failure |
| `server_practice` | what no overlap of requests, retries, a refused item, a lost connection or a deadlock may break, and that every request ends | two users, two batches of two and two single retries, two questions |
| `server_batch` (violation) | is what a batch calls accepted stored? | a batch and two single requests |
| `plan_days` | what holds of every plan and every day | two specializations, plans for today (refused), tomorrow, 2, 7 and 32 days (refused), 2 or 9 topics, one day of 25 and one of 23 hours, two days, two plans, two answers a day |
| `review_schedule` | what holds of every history of answers | ten answers of every kind, a column of 15 bits |
| `review_parity` (violation) | do both sides agree? | ten answers of quality 0 to 3 |
| `server_account` | what no overlap of requests of an account may break, and that every request ends | two requests of any two kinds and a third that repeats the second or deletes the account; an account with or without profiles and plan; one process death, one failure of Redis; a window of two ticks, limits of one and two attempts, one report a day |
| `server_content` | does the server have the content of its image, whatever was there before, what does a start take from users, does it come to serve, and what does a package miss? | eight directories (three sound ones, five that do not load or not twice), a first start and one deployment or restart, two acts of users, two packages |
| `server_feed` | do the endpoints agree, and is the plan of the day within its norm? | three questions, two of them shared by two specializations, one of these out of range and without a weight; a specialization without sections; two answers, three days, plans for 0 and 4 days (refused) and 3 |

Why the bounds are enough. The races of the device need two controllers, or two loads of one, and
one fault: a second fault repeats the first with other numbers. Two attempts are the least with
which an id can be confused with another; the third one in `device_session` is the one after a
retry. On the server every hazard needs two transactions that touch the same rows in one or in
opposite order, a third that waits for one of them, and a batch with an item before and after the
one that fails. Plans: the numbers of days take in both refusals, the plan without a study day, a
plan with fewer slots than topics and one with more, and a plan across each change of the clocks;
nine is the least number of topics of a specialization in the bank. Ten answers are the fewest with
which the column overflows (ten perfect ones), and with which the two roundings part after nothing
but threes. In `server_account` every race of the code is one of two requests; the third shows what
a retry or a deletion makes of its outcome. The limits are the least that a pair of requests can
exceed, and the window lasts long enough for a second hit before its end. In `server_content` the
first directory fills the tables and the second finds them filled: the sound ones move a
specialization to another profession, drop a profession, a section, a question and a specialization
of a question, correct an answer, edit a text and set a difficulty; two packages are one with an old
mark and one after it. In `server_feed` two answers are one in each specialization, or one late and
one in time, and three days reach the last day of a plan and let reviews fall due after it was made.
Two moves of a rating by 16 from 1200 pass no threshold of a grade: that the grade of the whole lies
between those of the sections says something there only of one grade, and rests on the proof
(`EndpointsTellOneStory`) for more.

CHECK_DEADLOCK is FALSE where a session, a set of requests or a count of answers is over; the
bounds end it. `StudyPlan` without a bound on its own end is checked with it in `plan_days`.

### Fairness

`DevicePractice!FairSpec`: the event loop of Dart goes on with every call in flight and draws a
state that has changed; drift answers every statement (or throws). No tap is fair: nobody has to
tap. `ServerPractice!FairSpec`:
among the requests under way one makes a step, which may be PostgreSQL breaking a deadlock. No
request is promised progress of its own; that all end follows because each has finitely many steps
and no cycle of waits lasts. `ServerAccount!FairSpec` is the same for its requests, and the keys of
Redis that have an end run out. No request has to be made.
`ServerContent!FairSpec`: the shell of the container runs its commands one after the other. Nobody
has to deploy, answer or synchronize.

### Findings

The violation runs state what the repository says of itself; each trace is a behaviour of the code.

1. `device_retry`: `submitAnswer` saves the answer, the rating, the review state and the counter
   by four statements. When one after the rating fails, the person answers again under the same
   attempt id: the answer row is overwritten, but Elo is applied to the new rating a second time.
2. `server_batch`: the rollback after a conflict takes the earlier items of the batch with it; the
   response still calls them accepted, and a client that trusts it drops them.
3. `review_parity`: `num.round()` and Python's `round()` part at an exact half: ten threes lead to
   185 days at easiness 1.3, which is 240.5 in doubles too.

Three more disagreements are not runs of their own. The primary specialization is said to be exactly
one (`services/user.py:85`, `models/user.py:50`), and an account can have none without any overlap:
`PATCH /me` with `is_primary=False` for the specialization that is the primary one unsets it and
sets no other, and so does a first choice that is not to be primary (`services/user.py:48`, `54`).
The model does the same: without `Declined` in `OnlyOne`, TLC finds a single such request in
`server_account`. Nothing leads out of the phase `exhausted`, and
its controller outlives the screen, although the text promises that reviews will appear on schedule
(`practice_controller.dart:86`, `practice_screen.dart:91`). And `planner.dart:144` promises a slot
for every topic, which `CoverageWhenRoom` claims only when there are as many slots: the three days
the screen offers leave two study days, six slots, and the specializations have nine topics or more.

Some properties hold only on a condition, which they name; without it the code does not keep what
they say.

- `PlannedToTheEve` excludes ways across the start of summer time: the two midnights are an hour
  less than a whole number of days apart, `inDays` truncates, and the eve of the interview is not
  in the plan (`planner.dart:69`).
- `OnlyOne` excludes two requests of one kind and account open at once. Two of them can leave two
  primary specializations (or none), two active plans, and more reports than a day allows: the code
  reads, then writes, and neither a lock nor a unique key stands between (`user.py:84`,
  `plan.py:163`, `reports.py:132`). Nor does it claim that there is a primary specialization after
  someone declined it (`Declined`), which takes no overlap; see above. A duplicate report meets the unique key in a
  flush that nothing guards: it is not stored, and its sender gets an error instead of the earlier
  report.
- `RequestsEnd` of `ServerAccount` excludes a failure between INCR and EXPIRE: that key never ends.
- `EventuallyServes` excludes directories with a question of a source other than `seed`: the first
  start stores it, every later one does not look at it (`questions.py:88`), inserts it again, fails
  and is started again, without end. It also excludes a specialization listed twice (`schema.py:97`
  makes the identifiers a set before it looks for duplicates) and a slug in two files
  (`question_schema.py:166`): the checks pass them and the database refuses.
- `SeedSparesUsers` excludes a specialization whose old profession is gone from the file, though the
  same file lists it under another: the old profession takes it along before it is created anew,
  with the enrolments, answers and plans of its users (`taxonomy.py:106`).
- `PackageMissesNothing` excludes the rows of `unseen`. The mark is taken before the rows are read,
  as the comment at `practice.py:475` explains, but what counts is the commit: a transaction that
  began before the mark and commits after the rows were read is missed for good. A corrected option
  alone does not reach any client that has the question.
- `AnsweredRests` excludes questions whose answers arrived out of order: the review follows the
  answer that arrived last, so an answer given days ago and sent today brings back a question that
  was answered after it.
- `TodayWithinNorm` claims the grade range only while the target is the one the plan was made for.
- A deletion that was answered by an error or cut off has deleted nothing; a deletion that found the
  account deleted meanwhile is answered as a success.

## 4. Proofs

`TLAPS` proves for all values of the constants, under the assumptions named in the modules:

- `DevicePracticeProofs`. `TypeCorrect`, `SubmissionIsSingle`, `AttemptKeepsQuestion`,
  `LogIsAhead`. Each property needs a strengthening. That the question a screen unwraps is there
  needs that a load delivers only what it found. That an attempt id keeps its question needs that
  the current question of a controller is the one its id was issued for, that a call in flight
  carries an id already issued, and that ids above the last one were never issued. That the log is
  ahead of the estimates needs, of a call that is past the first write, that its row is in the log,
  and of the bags it has read that they held only logged attempts. `ScreensPromiseNoMore`: without
  a profile row nothing has been answered yet. `ResultsAreStored` and `FailuresAloneRecount` assume
  that taps meet the current frame (`StaleFrames = FALSE`): then a screen loads at most once at a
  time and a call in flight answers the question on its screen (`Screen`). An estimate can have
  seen an attempt as often as calls have failed while its screen still waits to fold it in, and
  once more afterwards (`Most`); that cap never falls, and what a call of another screen has read
  or writes keeps below it. `DeviceIsLedger`: an undisturbed device (`Undisturbed`: one screen, taps
  that meet the current frame, nothing that fails, dies or is wiped) implements `AnswerLedger`. The
  invariant it needs is `UndividedInv`: what the call in flight has read is still what the tables
  hold, its row is not there before it stores it, and there is a profile to count it. Then storing
  the row is the step of the ledger and every other step is none, because what is still owed is
  already in the mapping. `UndisturbedIsExact` draws the conclusion from the theorem about the
  ledger. Each hypothesis is needed: `device_retry` shows what a failure does, two screens lose an
  update, and a wipe between two statements leaves an estimate without its row.
- `AnswerLedger`. `LedgerIsExact`: in the abstract ledger the estimates are a function of the
  log.
- `ServerPracticeProofs`. `TypeCorrect` and `CountedAtMostOnce`, for any set of requests, retries
  and batches. The invariant says of an open transaction what a commit will make of it: a value in
  the session has seen a submission at most once, and only one that is committed or that this
  transaction has stored; what another transaction has stored is in no value but its own; a row
  that is locked is locked by one. Two transactions can therefore lose an update, and never repeat
  one. `AcksAreKept`: as long as no conflict has cleared its session, a request has every answer it
  will acknowledge among those its commit stores. `SerialIsExact`: while no two transactions have
  been open at once, every committed value is exact for the stored answers, and every value in the
  session of the open one is exact for those and the ones it is about to store (`Core`); what the
  code reads before it writes is loaded by then (`Ready`).
- `StudyPlanProofs`. `TypeCorrect`, `OneAtATime`, `EveryTopicFits` (with as many slots as topics
  every topic has one, by the division of the slots among the days) and `EveryDayIsPlanned`, for
  every length of the way; an hour too many is dropped by the division as long as the clocks go back
  fewer than 24 times. `BarOnlyAdvances`, for finitely many questions: an answer moves its question
  out of the reviews that were due at midnight, so the target shrinks by one at most while what is
  done grows by one, and the cross products keep their order (`FractionsGrow`). `SharesAreFair`:
  dealing the slots in turn is arithmetic of remainders. A day gets the topics whose number is
  congruent to its own (`DealtIs`), and how many those are is found without counting them: the sets
  of two neighbouring days map onto one another one to one (`DealtTheDayBefore`), the shares fall by
  at most one from the first day to the last (`SharesFall`), and together they are all slots
  (`MadeUpAfterAll`).
- `ReviewScheduleProofs`. `TypeCorrect`, `PassesNeverShorten`, `SidesStayClose`, `BetterPays`.
  The invariant is `Chained`: easiness keeps to its floor, and an interval is as long as the chain
  of passes behind it lets it be.
- `ServerAccountProofs`, of the limiter alone. `LimiterTypeCorrect` and `WindowEndsOnTime`. That an
  end is never put off needs that a key has at most one creator on its way to EXPIRE, that the key
  exists and has no end as long as there is one: then only the first hit of a life sets the end, and
  it sets it once. `NoOneTooMany`: the values INCR returned number the calls counted since a key
  appeared, each its own, and a call that has passed has a number within the limit (`Numbered`).
- `ServerAccountProofs`, of the server. `ServerKeepsLimiter`: the server implements `RateLimit`,
  whatever its requests do to the database; `LimitIsLifted` and `ServerLimits` follow for it from
  the theorems about the limiter. `ServerTypeCorrect`. `AccountsAreWhole` is an argument about
  locks: those of two requests do not clash, and a request about to commit holds the ones that keep
  its writes sound (`Prepared`): a registration the key of its address, a report the key of its
  wording, whatever inserts a row of an account the user it refers to, a deletion that user and all
  of its profiles. What one has promised itself, the commit of another cannot undo. `OneOfEach` is
  one about what was read: a request whose kind has not raced is the only one of its kind at work on
  its account (`Alone`), so the profiles, plans and number of reports it has read still hold when it
  commits, or the account is gone (`Sees`). It assumes that the tables are at first as the property
  wants them (`TaskAssumption`). That there is a primary specialization needs besides that a request
  that chooses one will leave it so (`SeesProfiles`) and that what a request has answered stays
  (`Settled`); then only a commit that declines, or that deletes, takes the last one away
  (`SomePrimary`).
- `ServerContentProofs`. `NothingMissed`, for every set of directories and every history of
  deployments, answers and packages. The property speaks of a client at rest; the invariant says of
  every moment that a row the client has otherwise than the server is newer than its mark or noted
  (`Kept`), that while a response is under way the same holds of what the client will have and the
  new mark (`Coming`), and of the clock that an open transaction stamps a time no row has yet: then
  a row whose fields change cannot keep its time. `RowsAreKeyed`: the foreign keys hold after every
  seed, whatever the files move or take away, because what deletes specializations deletes what
  refers to them, and a question is linked only to those the tables have. `StartsSpareUsers`: what a
  start takes from users hangs on rows it deletes. `ServesItsContent`: the taxonomy is that of the
  file from the commit of its seed to the next deployment (`Loaded`), the rows of the questions are
  those of the files from the commit of theirs (`Synced`), and an answer, a confirmation or an
  enrolment meanwhile writes other columns (`LeftAlone`). That a second seed changes nothing needs
  that the rows are functions on their columns (`Functional`), and that no key is listed twice:
  then the row a seed chooses for a key is the only one (`OneListing`, `OneOfEachSlug`). It assumes
  that `is_active` is a Boolean (`ContentAssumption`), as pydantic makes it.
- `ServerFeedProofs`. `EndpointsTellOneStory`, `TodayKeepsNorm` and `FeedLetsRest`, for every bank,
  weighting, norm and order of requests, with finitely many questions. The invariant is what the
  tables say of each other (`FeedInv`): a question has a review exactly if it has an answer, due
  after its answers unless they came out of order (`ReviewsFollowLog`), and the counter of a profile
  is the number of answers in its log and the sum of its ratings' counters (`CountersAgree`). The
  rest is about what is computed from them: that the plan of the day takes the first of an order
  and no more (`FirstPlaces`), that a feed run dry leaves only questions that wait
  (`DryFeedWaits`), that the totals of the statistics add up over the disjoint states of the
  questions (`TotalsAdd`), and that a weighted mean lies between the extremes (`MeanBetween`).
  Sums over finite sets are folds of the community modules; that they can be unfolded, split,
  moved by one and compared is proved by least counterexamples (`LeastSet`: the proper subsets of a
  finite set are well-founded), which takes no induction theorem with an operator parameter.

Model-checked only: the liveness properties (`CallsSettle`, `RequestsEnd`, `EventuallyServes`),
because liveness under fairness is beyond the prover. No module declares a RECURSIVE operator.

## 5. Not modelled, and the plan

Not modelled, and why:

- The migrations. What they create is what the ORM models say, and the keys, widths and cascades
  the models of this directory need are taken from there. They run once, alone, before anything
  else of the container; what they do to existing rows is a statement or two without an
  interleaving.
- Layout, wording, theme, icons and store pages; the settings; the health check; the wiring of
  routers, and schemas that only name fields.
- The fit of the Elo curve: its expectations are irrational. Which answers a rating has seen is
  modelled, how far one moves it is not.
- Tokens and the hashing of passwords: cryptography of libraries.

Left for later, in this order:

1. The profile on the device: restoring the session, the redirects of the router, the change of
   target, the note saved on close.
2. Both Elo implementations over a table of expectations: that the step is bounded by K, and
   confidence grows.
3. The feed of the device for questions of several specializations, which the bank does not have
   yet, and `isDone` of its plan.
4. The liveness properties for larger instances.
