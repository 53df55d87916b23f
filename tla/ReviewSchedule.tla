--------------------------- MODULE ReviewSchedule ---------------------------
(***************************************************************************)
(* How an answer becomes the date of the next review: the grader and SM-2, *)
(* on the device (data/local/offline_grader.dart, domain/scheduler.dart)   *)
(* and on the server (services/practice.py, services/scheduler.py).  One   *)
(* question of one person, whose answers both sides take in in the same    *)
(* order.                                                                  *)
(*                                                                         *)
(* Easiness is counted in hundredths, exactly: all the constants of SM-2   *)
(* are multiples of one hundredth.  The program computes with doubles, the *)
(* same ones on both sides.  Their error is far below a hundredth, so it   *)
(* matters only where the exact product is half a day: the double may then *)
(* be below the half, above it, or the half itself, and is any of them     *)
(* here.                                                                   *)
(***************************************************************************)
EXTENDS Integers

CONSTANTS
  Options, Correct,   (* a choice question: its options, the right ones    *)
  Assessments,        (* marks people give their answers                   *)
  MaxInterval,        (* largest value of the server's column              *)
  MaxAnswers          (* bound: answers given                              *)

ASSUME ScheduleAssumption ==
  /\ Correct \in SUBSET Options
  /\ Assessments \in SUBSET (0..5)
  /\ MaxInterval \in Nat \ {0}
  /\ MaxAnswers \in Nat

-----------------------------------------------------------------------------
(* Grading.  A score is counted in half points.                            *)

Qualities  == 0..5
Selections == (SUBSET Options) \ {{}}

Score(selected) ==
  CASE selected = Correct -> 2
    [] selected # Correct /\ selected \cap Correct # {} /\ selected \subseteq Correct -> 1
    [] OTHER -> 0

QualityFromScore(score) == CASE score = 2 -> 5 [] score = 1 -> 3 [] OTHER -> 1

Quality(selected) == QualityFromScore(Score(selected))

-----------------------------------------------------------------------------
(* SM-2.                                                                   *)

MinEasiness      == 130
DefaultEasiness  == 250
FailureThreshold == 3
FirstInterval    == 1
SecondInterval   == 6

Delta(quality) == 10 - (5 - quality) * (8 + (5 - quality) * 2)

EasinessWithoutFloor(easiness, quality) == easiness + Delta(quality)

NextEasiness(easiness, quality) ==
  LET next == easiness + Delta(quality)
  IN  IF next < MinEasiness THEN MinEasiness ELSE next

(* Whole days out of hundredths: Dart rounds a half away from zero, Python *)
(* to the even neighbour.  The side is that of a double beside a half.     *)
Sides == {"below", "half", "above"}

DartRound(n, side) ==
  IF n % 100 = 50 /\ side = "below" THEN n \div 100 ELSE (n + 50) \div 100

PythonRound(n, side) ==
  IF n % 100 = 50 /\ side = "half" THEN 2 * ((n \div 100 + 1) \div 2) ELSE DartRound(n, side)

AtLeastFirst(days) == IF days < FirstInterval THEN FirstInterval ELSE days

DeviceInterval(repetitions, interval, easiness, side) ==
  CASE repetitions = 1 -> FirstInterval
    [] repetitions = 2 -> SecondInterval
    [] OTHER -> AtLeastFirst(DartRound(interval * easiness, side))

ServerInterval(repetitions, interval, easiness, side) ==
  CASE repetitions = 1 -> FirstInterval
    [] repetitions = 2 -> SecondInterval
    [] OTHER -> AtLeastFirst(PythonRound(interval * easiness, side))

(* A failure breaks the chain, the question comes back tomorrow.           *)
IntervalKept(state) == state.interval
FailedInterval(state) == FirstInterval

DeviceReview(state, quality, side) ==
  LET easiness == NextEasiness(state.easiness, quality)
  IN  IF quality < FailureThreshold
      THEN [easiness |-> easiness, repetitions |-> 0, interval |-> FailedInterval(state)]
      ELSE [easiness |-> easiness, repetitions |-> state.repetitions + 1,
            interval |-> DeviceInterval(state.repetitions + 1, state.interval, easiness, side)]

ServerReviewOfOldEasiness(state, quality, side) ==
  LET easiness == NextEasiness(state.easiness, quality)
  IN  IF quality < FailureThreshold
      THEN [easiness |-> easiness, repetitions |-> 0, interval |-> FailedInterval(state)]
      ELSE [easiness |-> easiness, repetitions |-> state.repetitions + 1,
            interval |-> ServerInterval(state.repetitions + 1, state.interval, state.easiness, side)]

ServerReview(state, quality, side) ==
  LET easiness == NextEasiness(state.easiness, quality)
  IN  IF quality < FailureThreshold
      THEN [easiness |-> easiness, repetitions |-> 0, interval |-> FailedInterval(state)]
      ELSE [easiness |-> easiness, repetitions |-> state.repetitions + 1,
            interval |-> ServerInterval(state.repetitions + 1, state.interval, easiness, side)]

-----------------------------------------------------------------------------
VARIABLES
  device,    (* row of ReviewStates on the device                          *)
  server,    (* row of review_states on the server                         *)
  given,     (* bound counter: answers                                     *)
  refused    (* has the server ever failed to store one?                   *)

vars == <<device, server, given, refused>>

Snapshots == [easiness: Nat, repetitions: Nat, interval: Nat]
NewState  == [easiness |-> DefaultEasiness, repetitions |-> 0, interval |-> 0]

(* Easiness keeps to its floor; an interval is as long as the chain of
   passes behind it lets it be; the server's fits its column.               *)
Chained(state) ==
  /\ state.easiness >= MinEasiness
  /\ state.repetitions = 0 => state.interval <= FirstInterval
  /\ state.repetitions = 1 => state.interval = FirstInterval
  /\ state.repetitions > 1 => state.interval >= SecondInterval

TypeOK ==
  /\ device \in Snapshots /\ Chained(device)
  /\ server \in Snapshots /\ Chained(server)
  /\ server.interval <= MaxInterval
  /\ given \in Nat
  /\ refused \in BOOLEAN

Init ==
  /\ device = NewState
  /\ server = NewState
  /\ given = 0
  /\ refused = FALSE

(* An interval the column cannot hold is an error of the database: the     *)
(* request is rolled back, the answer with it.                             *)
FitsAnything(state) == TRUE
Fits(state) == state.interval <= MaxInterval

Take(quality) ==
  \E onDevice, onServer \in Sides :
    LET stored == ServerReview(server, quality, onServer)
    IN  /\ given < MaxAnswers
        /\ device = server /\ ~refused => onDevice = onServer
        /\ given' = given + 1
        /\ device' = DeviceReview(device, quality, onDevice)
        /\ \/ Fits(stored) /\ server' = stored /\ UNCHANGED refused
           \/ ~Fits(stored) /\ refused' = TRUE /\ UNCHANGED server

AnswerChoice(selected) == Take(Quality(selected))
AnswerOpen(assessment) == Take(assessment)

Next ==
  \/ \E selected \in Selections : AnswerChoice(selected)
  \/ \E assessment \in Assessments : AnswerOpen(assessment)

Spec == Init /\ [][Next]_vars

-----------------------------------------------------------------------------
(* Properties.                                                             *)

(* A passed review never puts the next one nearer than the last one was, on
   either side, whatever came before.                                       *)
PassNeverShortens ==
  [][/\ device'.repetitions > device.repetitions => device'.interval >= device.interval
     /\ server'.repetitions > server.repetitions => server'.interval >= server.interval]_vars

(* A better answer never brings the question back sooner than a worse one
   would have: a higher assessment, or a selection with more of the right
   options and fewer of the wrong ones.                                     *)
Better(a, b) == a \cap Correct \subseteq b \cap Correct /\ b \ Correct \subseteq a \ Correct

BetterNeverSooner ==
  \A side \in Sides :
    /\ \A p, q \in Qualities : p <= q =>
         /\ DeviceReview(device, p, side).interval <= DeviceReview(device, q, side).interval
         /\ ServerReview(server, p, side).interval <= ServerReview(server, q, side).interval
    /\ \A a, b \in Selections : Better(a, b) =>
         DeviceReview(device, Quality(a), side).interval
           <= DeviceReview(device, Quality(b), side).interval

(* Given the same state and the same answer, the two sides agree on all but
   the interval, and on that to a day.                                      *)
OneDayApart ==
  \A quality \in Qualities, side \in Sides :
    LET d == DeviceReview(device, quality, side)
        s == ServerReview(device, quality, side)
    IN  /\ d.easiness = s.easiness /\ d.repetitions = s.repetitions
        /\ d.interval - s.interval \in 0..1

(* What the port says of itself: intervals computed on the device and on the
   server coincide (mobile/test/scheduler_test.dart:5-7, README.md:30-32).   *)
IntervalsAgree == ~refused => device = server
=============================================================================
