------------------------ MODULE ReviewScheduleProofs ------------------------
(* Proofs about ReviewSchedule, for histories of every length, whatever    *)
(* side of a half the doubles fall on.                                     *)
EXTENDS ReviewSchedule, TLAPS

-----------------------------------------------------------------------------
(* The formulas.                                                           *)

LEMMA DeltaValues ==
  /\ Delta(0) = -80 /\ Delta(1) = -54 /\ Delta(2) = -32
  /\ Delta(3) = -14 /\ Delta(4) = 0 /\ Delta(5) = 10
  BY DEF Delta

LEMMA QualityType ==
  ASSUME NEW selected \in Selections
  PROVE  Quality(selected) \in Qualities
  BY DEF Quality, QualityFromScore, Qualities

(* Easiness never sinks below its floor, and a better mark never makes it  *)
(* smaller.                                                                *)
LEMMA EasinessType ==
  ASSUME NEW easiness \in Nat, NEW p \in Qualities, NEW q \in Qualities, p <= q
  PROVE  /\ NextEasiness(easiness, p) \in Nat
         /\ NextEasiness(easiness, p) >= MinEasiness
         /\ NextEasiness(easiness, p) <= NextEasiness(easiness, q)
  <1>1. p \in {0, 1, 2, 3, 4, 5} /\ q \in {0, 1, 2, 3, 4, 5}
    BY DEF Qualities
  <1>2. Delta(p) \in Int /\ Delta(q) \in Int /\ Delta(p) <= Delta(q)
    BY <1>1, DeltaValues
  <1>3. QED
    BY <1>2 DEF NextEasiness, MinEasiness

(* Rounding keeps the order, is never off by a whole day, and the two      *)
(* languages are a day apart at most.                                      *)
LEMMA Rounding ==
  ASSUME NEW n \in Nat, NEW side \in Sides
  PROVE  /\ DartRound(n, side) \in Nat /\ PythonRound(n, side) \in Nat
         /\ DartRound(n, side) - PythonRound(n, side) \in 0..1
         /\ \A m \in Nat : n >= 100 * m => PythonRound(n, side) >= m
  BY DEF DartRound, PythonRound

LEMMA RoundingIsMonotonic ==
  ASSUME NEW n \in Nat, NEW m \in Nat, n <= m, NEW side \in Sides
  PROVE  /\ DartRound(n, side) <= DartRound(m, side)
         /\ PythonRound(n, side) <= PythonRound(m, side)
  BY DEF DartRound, PythonRound

LEMMA Product ==
  ASSUME NEW interval \in Nat, NEW e \in Nat, NEW f \in Nat, MinEasiness <= e, e <= f
  PROVE  /\ interval * e \in Nat /\ interval * f \in Nat
         /\ interval * e >= 100 * interval
         /\ interval * e <= interval * f
  BY DEF MinEasiness

-----------------------------------------------------------------------------
(* One review of a state that satisfies the invariant.                     *)

LEMMA IntervalBounds ==
  ASSUME NEW repetitions \in Nat \ {0}, NEW interval \in Nat,
         NEW easiness \in Nat, MinEasiness <= easiness, NEW side \in Sides
  PROVE  /\ DeviceInterval(repetitions, interval, easiness, side) \in Nat \ {0}
         /\ ServerInterval(repetitions, interval, easiness, side) \in Nat \ {0}
         /\ DeviceInterval(repetitions, interval, easiness, side)
              - ServerInterval(repetitions, interval, easiness, side) \in 0..1
         /\ repetitions > 2 =>
              /\ DeviceInterval(repetitions, interval, easiness, side) >= interval
              /\ ServerInterval(repetitions, interval, easiness, side) >= interval
  <1> DEFINE n == interval * easiness
  <1>1. n \in Nat /\ n >= 100 * interval
    BY Product
  <1> HIDE DEF n
  <1>2. /\ DartRound(n, side) \in Nat /\ PythonRound(n, side) \in Nat
        /\ DartRound(n, side) - PythonRound(n, side) \in 0..1
        /\ PythonRound(n, side) >= interval
    BY <1>1, Rounding
  <1>3. QED
    BY <1>2 DEF DeviceInterval, ServerInterval, AtLeastFirst, FirstInterval, SecondInterval, n

(* Either side's review, from any state that satisfies the invariant.      *)
LEMMA ReviewKeepsChain ==
  ASSUME NEW state \in Snapshots, Chained(state), NEW quality \in Qualities, NEW side \in Sides
  PROVE  LET d == DeviceReview(state, quality, side)
             s == ServerReview(state, quality, side)
         IN  /\ d \in Snapshots /\ Chained(d)
             /\ s \in Snapshots /\ Chained(s)
             /\ d.easiness = s.easiness /\ d.repetitions = s.repetitions
             /\ d.interval - s.interval \in 0..1
             /\ d.repetitions > state.repetitions => d.interval >= state.interval
             /\ s.repetitions > state.repetitions => s.interval >= state.interval
  <1> DEFINE e == NextEasiness(state.easiness, quality)
             r == state.repetitions + 1
             i == state.interval
             di == DeviceInterval(r, i, e, side)
             si == ServerInterval(r, i, e, side)
  <1>1. /\ state.easiness \in Nat /\ state.repetitions \in Nat /\ i \in Nat
        /\ r \in Nat \ {0} /\ quality \in Int /\ quality <= quality
    BY DEF Snapshots, Qualities
  <1>2. e \in Nat /\ e >= MinEasiness
    BY <1>1, EasinessType
  <1>3. /\ di \in Nat \ {0} /\ si \in Nat \ {0} /\ di - si \in 0..1
        /\ r > 2 => di >= i /\ si >= i
    BY <1>1, <1>2, IntervalBounds DEF MinEasiness
  <1>4. /\ r = 1 => di = FirstInterval /\ si = FirstInterval
        /\ r = 2 => di = SecondInterval /\ si = SecondInterval
    BY DEF DeviceInterval, ServerInterval
  <1>5. /\ state.repetitions = 0 => i <= FirstInterval
        /\ state.repetitions = 1 => i = FirstInterval
        /\ state.repetitions > 1 => i >= SecondInterval
    BY DEF Chained
  <1> HIDE DEF e, di, si
  <1>6. CASE quality < FailureThreshold
    <2>1. /\ DeviceReview(state, quality, side)
               = [easiness |-> e, repetitions |-> 0, interval |-> FirstInterval]
          /\ ServerReview(state, quality, side)
               = [easiness |-> e, repetitions |-> 0, interval |-> FirstInterval]
      BY <1>6 DEF DeviceReview, ServerReview, FailedInterval, e
    <2>2. QED
      BY <2>1, <1>1, <1>2 DEF Snapshots, Chained, FirstInterval
  <1>7. CASE ~(quality < FailureThreshold)
    <2>1. /\ DeviceReview(state, quality, side)
               = [easiness |-> e, repetitions |-> r, interval |-> di]
          /\ ServerReview(state, quality, side)
               = [easiness |-> e, repetitions |-> r, interval |-> si]
      BY <1>7 DEF DeviceReview, ServerReview, e, di, si
    <2>2. /\ r = 1 => i <= 1 /\ di = 1 /\ si = 1
          /\ r = 2 => i = 1 /\ di = 6 /\ si = 6
          /\ r > 2 => i >= 6 /\ di >= i /\ si >= i
      BY <1>1, <1>3, <1>4, <1>5 DEF FirstInterval, SecondInterval
    <2>3. di >= i /\ si >= i
      BY <1>1, <1>3, <2>2
    <2>4. QED
      BY <2>1, <2>2, <2>3, <1>1, <1>2, <1>3 DEF Snapshots, Chained, FirstInterval, SecondInterval
  <1>8. QED
    BY <1>6, <1>7

-----------------------------------------------------------------------------
(* A step is an answer of some quality, or nothing changes.                *)
LEMMA StepIsAnswer ==
  ASSUME ScheduleAssumption, [Next]_vars
  PROVE  UNCHANGED vars \/ \E quality \in Qualities : Take(quality)
  BY QualityType DEF ScheduleAssumption, Next, AnswerChoice, AnswerOpen, Qualities

LEMMA StepTyped ==
  ASSUME ScheduleAssumption, TypeOK, [Next]_vars
  PROVE  TypeOK'
  <1>1. ASSUME NEW quality \in Qualities, Take(quality) PROVE TypeOK'
    <2>1. PICK onDevice \in Sides, onServer \in Sides :
            /\ given' = given + 1
            /\ device' = DeviceReview(device, quality, onDevice)
            /\ \/ /\ Fits(ServerReview(server, quality, onServer))
                  /\ server' = ServerReview(server, quality, onServer)
                  /\ UNCHANGED refused
               \/ refused' = TRUE /\ UNCHANGED server
      BY <1>1 DEF Take
    <2>2. device' \in Snapshots /\ Chained(device)'
      <3>1. /\ DeviceReview(device, quality, onDevice) \in Snapshots
            /\ Chained(DeviceReview(device, quality, onDevice))
        BY ReviewKeepsChain DEF TypeOK
      <3>2. QED
        BY <2>1, <3>1 DEF Chained
    <2>3. server' \in Snapshots /\ Chained(server)' /\ server'.interval <= MaxInterval
      <3>1. /\ ServerReview(server, quality, onServer) \in Snapshots
            /\ Chained(ServerReview(server, quality, onServer))
        BY ReviewKeepsChain DEF TypeOK
      <3>2. CASE server' = ServerReview(server, quality, onServer) /\ Fits(server')
        BY <3>1, <3>2 DEF Chained, Fits
      <3>3. CASE UNCHANGED server
        BY <3>3 DEF TypeOK, Chained
      <3>4. QED
        BY <2>1, <3>2, <3>3
    <2>4. given' \in Nat
      BY <2>1 DEF TypeOK
    <2>5. refused' \in BOOLEAN
      BY <2>1, Zenon DEF TypeOK
    <2>6. QED
      BY <2>2, <2>3, <2>4, <2>5 DEF TypeOK
  <1>2. CASE UNCHANGED vars
    BY <1>2 DEF TypeOK, Chained, vars
  <1>3. QED
    BY <1>1, <1>2, StepIsAnswer

(* Easiness keeps to its floor, an interval to the chain of passes behind  *)
(* it, the server's interval to its column, in histories of every length.  *)
THEOREM TypeCorrect == Spec => []TypeOK
  <1>1. Init => TypeOK
    <2>1. /\ NewState \in Snapshots /\ Chained(NewState)
          /\ NewState.interval <= MaxInterval
      BY ScheduleAssumption
      DEF NewState, Snapshots, Chained, DefaultEasiness, MinEasiness,
          FirstInterval, SecondInterval, ScheduleAssumption
    <2>2. 0 \in Nat /\ FALSE \in BOOLEAN
      OBVIOUS
    <2>3. QED
      BY <2>1, <2>2 DEF Init, TypeOK
  <1>2. ScheduleAssumption /\ TypeOK /\ [Next]_vars => TypeOK'
    BY StepTyped
  <1>3. QED
    BY <1>1, <1>2, ScheduleAssumption, PTL DEF Spec

(* A pass never brings the next review nearer than the last one was.       *)
THEOREM PassesNeverShorten == Spec => PassNeverShortens
  <1> DEFINE Kept == /\ device'.repetitions > device.repetitions =>
                          device'.interval >= device.interval
                     /\ server'.repetitions > server.repetitions =>
                          server'.interval >= server.interval
  <1>1. ASSUME ScheduleAssumption, TypeOK, [Next]_vars PROVE [Kept]_vars
    <2>1. ASSUME NEW quality \in Qualities, Take(quality) PROVE Kept
      <3>1. PICK onDevice \in Sides, onServer \in Sides :
              /\ device' = DeviceReview(device, quality, onDevice)
              /\ \/ server' = ServerReview(server, quality, onServer)
                 \/ UNCHANGED server
        BY <2>1 DEF Take
      <3>2. device'.repetitions > device.repetitions => device'.interval >= device.interval
        BY <1>1, <3>1, ReviewKeepsChain DEF TypeOK
      <3>3. CASE server' = ServerReview(server, quality, onServer)
        BY <1>1, <3>2, <3>3, ReviewKeepsChain DEF TypeOK
      <3>4. CASE UNCHANGED server
        <4>1. ~(server'.repetitions > server.repetitions)
          BY <1>1, <3>4 DEF TypeOK, Snapshots
        <4>2. QED
          BY <3>2, <4>1
      <3>5. QED
        BY <3>1, <3>3, <3>4
    <2>2. QED
      BY <1>1, <2>1, StepIsAnswer
  <1>2. QED
    BY <1>1, TypeCorrect, ScheduleAssumption, PTL DEF Spec, PassNeverShortens

(* From the same state the two sides are a day apart at most.              *)
THEOREM SidesStayClose == Spec => []OneDayApart
  <1>1. TypeOK => OneDayApart
    BY ReviewKeepsChain DEF TypeOK, OneDayApart
  <1>2. QED
    BY <1>1, TypeCorrect, PTL

-----------------------------------------------------------------------------
(* More of the right options and fewer of the wrong ones is no worse.      *)
LEMMA BetterSelection ==
  ASSUME NEW a \in Selections, NEW b \in Selections, Better(a, b)
  PROVE  Quality(a) <= Quality(b)
  <1>1. CASE Score(a) = 0
    BY <1>1 DEF Quality, QualityFromScore
  <1>2. CASE Score(a) # 0
    <2>1. a \cap Correct # {} /\ a \subseteq Correct
      BY <1>2 DEF Score, Selections
    <2>2. b \cap Correct # {} /\ b \subseteq Correct /\ a \subseteq b
      BY <2>1 DEF Better
    <2>3. Score(b) \in {1, 2} /\ (a = Correct => b = Correct)
      BY <2>2 DEF Score
    <2>4. Score(a) \in {1, 2} /\ (Score(a) = 2 => Score(b) = 2)
      BY <1>2, <2>3 DEF Score
    <2>5. QED
      BY <2>3, <2>4 DEF Quality, QualityFromScore
  <1>3. QED
    BY <1>1, <1>2

LEMMA BetterMark ==
  ASSUME NEW state \in Snapshots, Chained(state), NEW side \in Sides,
         NEW p \in Qualities, NEW q \in Qualities, p <= q
  PROVE  /\ DeviceReview(state, p, side).interval <= DeviceReview(state, q, side).interval
         /\ ServerReview(state, p, side).interval <= ServerReview(state, q, side).interval
  <1> DEFINE e == NextEasiness(state.easiness, p)
             f == NextEasiness(state.easiness, q)
             r == state.repetitions + 1
             i == state.interval
  <1>1. /\ state.easiness \in Nat /\ i \in Nat /\ r \in Nat \ {0}
        /\ p \in Int /\ q \in Int /\ q <= q
    BY DEF Snapshots, Qualities
  <1>2. e \in Nat /\ f \in Nat /\ MinEasiness <= e /\ e <= f /\ MinEasiness <= f
    BY <1>1, EasinessType DEF MinEasiness
  <1>3. /\ DeviceInterval(r, i, f, side) \in Nat \ {0}
        /\ ServerInterval(r, i, f, side) \in Nat \ {0}
    BY <1>1, <1>2, IntervalBounds
  <1>4. /\ DeviceInterval(r, i, e, side) <= DeviceInterval(r, i, f, side)
        /\ ServerInterval(r, i, e, side) <= ServerInterval(r, i, f, side)
    <2>1. i * e \in Nat /\ i * f \in Nat /\ i * e <= i * f
      BY <1>1, <1>2, Product
    <2>2. /\ DartRound(i * e, side) <= DartRound(i * f, side)
          /\ PythonRound(i * e, side) <= PythonRound(i * f, side)
      BY <2>1, RoundingIsMonotonic
    <2>3. /\ DartRound(i * e, side) \in Nat /\ DartRound(i * f, side) \in Nat
          /\ PythonRound(i * e, side) \in Nat /\ PythonRound(i * f, side) \in Nat
      BY <2>1, Rounding
    <2>4. QED
      BY <2>2, <2>3 DEF DeviceInterval, ServerInterval, AtLeastFirst, FirstInterval, SecondInterval
  <1> HIDE DEF e, f, r, i
  <1>5. CASE p < FailureThreshold
    <2>1. /\ DeviceReview(state, p, side).interval = 1
          /\ ServerReview(state, p, side).interval = 1
      BY <1>5 DEF DeviceReview, ServerReview, FailedInterval, FirstInterval
    <2>2. /\ DeviceReview(state, q, side).interval \in {1, DeviceInterval(r, i, f, side)}
          /\ ServerReview(state, q, side).interval \in {1, ServerInterval(r, i, f, side)}
      BY DEF DeviceReview, ServerReview, FailedInterval, FirstInterval, r, i, f
    <2>3. QED
      BY <1>3, <2>1, <2>2
  <1>6. CASE ~(p < FailureThreshold)
    <2>1. ~(q < FailureThreshold)
      BY <1>1, <1>6 DEF FailureThreshold
    <2>2. /\ DeviceReview(state, p, side).interval = DeviceInterval(r, i, e, side)
          /\ DeviceReview(state, q, side).interval = DeviceInterval(r, i, f, side)
          /\ ServerReview(state, p, side).interval = ServerInterval(r, i, e, side)
          /\ ServerReview(state, q, side).interval = ServerInterval(r, i, f, side)
      BY <1>6, <2>1 DEF DeviceReview, ServerReview, r, i, e, f
    <2>3. QED
      BY <1>4, <2>2
  <1>7. QED
    BY <1>5, <1>6

(* A better answer never brings the question back sooner.                  *)
THEOREM BetterPays == Spec => []BetterNeverSooner
  <1>1. TypeOK => BetterNeverSooner
    <2> SUFFICES ASSUME TypeOK PROVE BetterNeverSooner
      OBVIOUS
    <2>1. ASSUME NEW side \in Sides, NEW p \in Qualities, NEW q \in Qualities, p <= q
          PROVE  /\ DeviceReview(device, p, side).interval <= DeviceReview(device, q, side).interval
                 /\ ServerReview(server, p, side).interval <= ServerReview(server, q, side).interval
      BY <2>1, BetterMark DEF TypeOK
    <2>2. ASSUME NEW side \in Sides, NEW a \in Selections, NEW b \in Selections, Better(a, b)
          PROVE  DeviceReview(device, Quality(a), side).interval
                   <= DeviceReview(device, Quality(b), side).interval
      BY <2>1, <2>2, BetterSelection, QualityType
    <2>3. QED
      BY <2>1, <2>2 DEF BetterNeverSooner
  <1>2. QED
    BY <1>1, TypeCorrect, PTL
=============================================================================
