------------------------ MODULE ServerPracticeProofs ------------------------
(* Proofs about ServerPractice, for every set of requests, submissions,    *)
(* users and questions, and however many requests are cut off.             *)
EXTENDS ServerPractice, TLAPS

LEMMA RowsOfSubmission ==
  ASSUME NEW s \in Submissions
  PROVE  /\ Touched(s) \subseteq Rows
         /\ {RatingRow(s), ReviewRow(s), QuestionRow(s), ProfileRow(s)} \subseteq Rows
  BY DEF Rows, Touched

LEMMA FoldType ==
  ASSUME NEW bag \in Bags, NEW s \in Submissions
  PROVE  /\ Fold(bag, s) \in Bags
         /\ Fold(bag, s)[s] = bag[s] + 1
         /\ \A x \in Submissions \ {s} : Fold(bag, s)[x] = bag[x]
  BY DEF Fold, Bags

LEMMA InitTyped == Init => TypeOK
  <1> SUFFICES ASSUME Init PROVE TypeOK
    OBVIOUS
  <1>1. Empty \in Bags /\ NoValues \in [Rows -> Bags]
    BY DEF Empty, Bags, NoValues
  <1>2. Permanent \subseteq Rows
    BY RowsOfSubmission DEF Permanent
  <1>3. \A r \in Requests : 1 \in DOMAIN items[r]
    BY ServerAssumption
  <1>4. /\ pc \in [Requests -> Places] /\ status \in [Requests -> Statuses]
        /\ outcome \in [Requests -> [Submissions -> Outcomes]]
    BY DEF Init, Places, Statuses, Outcomes
  <1>5. QED
    BY <1>1, <1>2, <1>3, <1>4 DEF Init, TypeOK, NoRows

-----------------------------------------------------------------------------
(* The parts of a step, each with what it does to the types.               *)

LEMMA ItemType ==
  ASSUME TypeOK, NEW r \in Requests, pc[r] \notin {"commit", "done"}
  PROVE  Item(r) \in Submissions
  BY ServerAssumption DEF Item, TypeOK

LEMMA FetchedType ==
  ASSUME TypeOK, NEW r \in Requests, NEW rows
  PROVE  Fetched(r, rows) \in [Rows -> Bags]
  BY DEF Fetched, TypeOK

LEMMA ReadTyped ==
  ASSUME TypeOK, NEW r \in Requests, NEW rows, Read(r, rows)
  PROVE  loaded' \in [Requests -> SUBSET Rows] /\ cache' \in [Requests -> [Rows -> Bags]]
  <1>1. loaded[r] \cup (rows \cap exists) \in SUBSET Rows
    BY DEF TypeOK
  <1>2. QED
    BY <1>1, FetchedType DEF Read, TypeOK

LEMMA GotoTyped ==
  ASSUME TypeOK, NEW r \in Requests, NEW place \in Places, Goto(r, place),
         pos' = pos, pc[r] \notin {"commit", "done"} \/ place \in {"commit", "done"}
  PROVE  /\ pc' \in [Requests -> Places]
         /\ \A x \in Requests : pc'[x] \notin {"commit", "done"} => pos'[x] \in DOMAIN items[x]
  BY DEF Goto, TypeOK

LEMMA ProceedTyped ==
  ASSUME TypeOK, NEW r \in Requests, NEW what \in Outcomes, Proceed(r, what),
         pc[r] \notin {"commit", "done"}
  PROVE  /\ pc' \in [Requests -> Places] /\ pos' \in [Requests -> Nat]
         /\ outcome' \in [Requests -> [Submissions -> Outcomes]]
         /\ \A x \in Requests : pc'[x] \notin {"commit", "done"} => pos'[x] \in DOMAIN items[x]
  <1>1. /\ items[r] \in Seq(Submissions) /\ pos[r] \in DOMAIN items[r] /\ pos[r] \in Nat
    BY ServerAssumption DEF TypeOK
  <1>2. ~IsLast(r) => pos[r] + 1 \in DOMAIN items[r]
    BY <1>1 DEF IsLast
  <1>3. pos' = [pos EXCEPT ![r] = @ + 1] /\ pos' \in [Requests -> Nat]
    BY DEF Proceed, TypeOK
  <1>4. pc' = [pc EXCEPT ![r] = IF IsLast(r) THEN "commit" ELSE "check"]
    BY DEF Proceed, Goto
  <1>5. pc' \in [Requests -> Places]
    BY <1>4 DEF TypeOK, Places
  <1>6. outcome' \in [Requests -> [Submissions -> Outcomes]]
    BY DEF Proceed, TypeOK
  <1>7. \A x \in Requests : pc'[x] \notin {"commit", "done"} => pos'[x] \in DOMAIN items[x]
    BY <1>1, <1>2, <1>3, <1>4 DEF TypeOK
  <1>8. QED
    BY <1>3, <1>5, <1>6, <1>7

LEMMA RollbackTyped ==
  ASSUME TypeOK, NEW r \in Requests, Rollback(r)
  PROVE  /\ loaded' \in [Requests -> SUBSET Rows] /\ cache' \in [Requests -> [Rows -> Bags]]
         /\ written' \in [Requests -> SUBSET Rows]
         /\ stored' \in [Requests -> SUBSET Submissions]
  <1>1. NoValues \in [Rows -> Bags]
    BY DEF NoValues, Empty, Bags
  <1>2. QED
    BY <1>1 DEF Rollback, TypeOK

LEMMA AbandonTyped ==
  ASSUME TypeOK, NEW r \in Requests, NEW what \in Statuses, Abandon(r, what), crashes' \in Nat
  PROVE  TypeOK'
  <1>1. pc' = [pc EXCEPT ![r] = "done"] /\ pos' = pos
    BY DEF Abandon, Respond, Goto
  <1>2. pc' \in [Requests -> Places]
    BY <1>1 DEF TypeOK, Places
  <1>3. status' \in [Requests -> Statuses]
    BY DEF Abandon, Respond, TypeOK
  <1>4. Rollback(r)
    BY DEF Abandon
  <1>5. QED
    BY <1>1, <1>2, <1>3, <1>4, RollbackTyped DEF Abandon, TypeOK, tables

LEMMA StepTyped == TypeOK /\ [Next]_vars => TypeOK'
  <1> SUFFICES ASSUME TypeOK, [Next]_vars PROVE TypeOK'
    OBVIOUS
  <1> USE DEF tables, session
  <1>1. ASSUME NEW r \in Requests, Begin(r) PROVE TypeOK'
    <2>1. "check" \in Places /\ overlapped' \in BOOLEAN
      BY <1>1 DEF Begin, TypeOK, Places
    <2>2. QED
      BY <1>1, <2>1, ReadTyped, GotoTyped DEF Begin, TypeOK
  <1>2. ASSUME NEW r \in Requests, Replay(r) PROVE TypeOK'
    <2>1. "duplicate" \in Outcomes
      BY DEF Outcomes
    <2>2. QED
      BY <1>2, <2>1, ReadTyped, ProceedTyped DEF Replay, TypeOK
  <1>3. ASSUME NEW r \in Requests, Lookup(r) PROVE TypeOK'
    <2>1. "load" \in Places
      BY DEF Places
    <2>2. QED
      BY <1>3, <2>1, GotoTyped DEF Lookup, TypeOK
  <1>4. ASSUME NEW r \in Requests, Refuse(r) PROVE TypeOK'
    <2>1. "rejected" \in Outcomes /\ "rejected" \in Statuses
      BY DEF Outcomes, Statuses
    <2>2. CASE Proceed(r, "rejected") /\ UNCHANGED <<tables, session, status, overlapped>>
      BY <1>4, <2>1, <2>2, ProceedTyped DEF Refuse, TypeOK
    <2>3. CASE Abandon(r, "rejected")
      BY <1>4, <2>1, <2>3, AbandonTyped DEF Refuse, TypeOK
    <2>4. QED
      BY <1>4, <2>2, <2>3 DEF Refuse, SessionGoesOn
  <1>5. ASSUME NEW r \in Requests, Load(r) PROVE TypeOK'
    <2>1. PICK place \in {"review", "create"} : Goto(r, place)
      BY <1>5 DEF Load
    <2>2. place \in Places
      BY DEF Places
    <2>3. QED
      BY <1>5, <2>1, <2>2, ReadTyped, GotoTyped DEF Load, TypeOK
  <1>6. ASSUME NEW r \in Requests, ReviewSnapshot(r) PROVE TypeOK'
    <2>1. "save" \in Places
      BY DEF Places
    <2>2. cache' \in [Requests -> [Rows -> Bags]]
      BY <1>6, FetchedType DEF ReviewSnapshot, TypeOK
    <2>3. QED
      BY <1>6, <2>1, <2>2, GotoTyped DEF ReviewSnapshot, TypeOK
  <1>7. ASSUME NEW r \in Requests, SaveReviewState(r) PROVE TypeOK'
    <2>1. "flush" \in Places
      BY DEF Places
    <2>2. loaded' \in [Requests -> SUBSET Rows]
      BY <1>7 DEF SaveReviewState, TypeOK
    <2>3. QED
      BY <1>7, <2>1, <2>2, GotoTyped DEF SaveReviewState, TypeOK
  <1>8. ASSUME NEW r \in Requests, CreateRating(r) PROVE TypeOK'
    <2>1. "review" \in Places /\ "error" \in Statuses
      BY DEF Places, Statuses
    <2>2. CASE Abandon(r, "error")
      BY <1>8, <2>1, <2>2, AbandonTyped DEF CreateRating, TypeOK
    <2>3. CASE RatingRow(Item(r)) \notin exists /\ Goto(r, "review")
      <3>1. RatingRow(Item(r)) \in Rows
        BY <1>8, ItemType, RowsOfSubmission DEF CreateRating
      <3>2. loaded' \in [Requests -> SUBSET Rows] /\ written' \in [Requests -> SUBSET Rows]
        <4>1. /\ loaded' = [loaded EXCEPT ![r] = @ \cup {RatingRow(Item(r))}]
              /\ written' = [written EXCEPT ![r] = @ \cup {RatingRow(Item(r))}]
          BY <1>8, <2>3 DEF CreateRating
        <4>2. loaded[r] \cup {RatingRow(Item(r))} \in SUBSET Rows
              /\ written[r] \cup {RatingRow(Item(r))} \in SUBSET Rows
          BY <3>1 DEF TypeOK
        <4>3. QED
          BY <4>1, <4>2 DEF TypeOK
      <3>3. /\ UNCHANGED <<answers, exists, db, cache, stored, pos, outcome, status,
                           overlapped, crashes>>
            /\ pc[r] = "create"
        BY <1>8, <2>3 DEF CreateRating
      <3>4. /\ pc' \in [Requests -> Places]
            /\ \A x \in Requests :
                 pc'[x] \notin {"commit", "done"} => pos'[x] \in DOMAIN items[x]
        BY <2>1, <2>3, <3>3, GotoTyped
      <3>5. QED
        BY <3>2, <3>3, <3>4 DEF TypeOK
    <2>4. QED
      BY <1>8, <2>2, <2>3 DEF CreateRating
  <1>9. ASSUME NEW r \in Requests, Flush(r) PROVE TypeOK'
    <2>1. "accepted" \in Outcomes
      BY DEF Outcomes
    <2>2. Item(r) \in Submissions /\ Touched(Item(r)) \subseteq Rows
      BY <1>9, ItemType, RowsOfSubmission DEF Flush
    <2>3. FoldOnce(r) \in [Rows -> Bags]
      <3>1. ASSUME NEW row \in Rows
            PROVE  cache[r][row] \in Bags /\ Fold(cache[r][row], Item(r)) \in Bags
        BY <2>2, FoldType DEF TypeOK
      <3>2. QED
        BY <3>1 DEF FoldOnce
    <2>4. /\ cache' \in [Requests -> [Rows -> Bags]]
          /\ loaded' \in [Requests -> SUBSET Rows] /\ written' \in [Requests -> SUBSET Rows]
          /\ stored' \in [Requests -> SUBSET Submissions]
      BY <1>9, <2>2, <2>3 DEF Flush, TypeOK
    <2>5. QED
      BY <1>9, <2>1, <2>4, ProceedTyped DEF Flush, TypeOK
  <1>10. ASSUME NEW r \in Requests, Conflict(r) PROVE TypeOK'
    <2>1. "conflict" \in Outcomes /\ {"conflict", "error"} \subseteq Statuses
      BY DEF Outcomes, Statuses
    <2>2. CASE Rollback(r) /\ Proceed(r, "conflict") /\ UNCHANGED <<tables, status, overlapped>>
      BY <1>10, <2>1, <2>2, RollbackTyped, ProceedTyped DEF Conflict, TypeOK
    <2>3. CASE Abandon(r, "error") \/ Abandon(r, "conflict")
      BY <1>10, <2>1, <2>3, AbandonTyped DEF Conflict, TypeOK
    <2>4. QED
      BY <1>10, <2>2, <2>3 DEF Conflict
  <1>11. ASSUME NEW r \in Requests, Commit(r) PROVE TypeOK'
    <2>1. "ok" \in Statuses /\ "done" \in Places
      BY DEF Statuses, Places
    <2>2. answers' \in SUBSET Submissions /\ exists' \in SUBSET Rows /\ db' \in [Rows -> Bags]
      BY <1>11 DEF Commit, TypeOK
    <2>3. status' \in [Requests -> Statuses]
      BY <1>11, <2>1 DEF Commit, Respond, TypeOK
    <2>4. Rollback(r) /\ Goto(r, "done")
      BY <1>11 DEF Commit, Respond
    <2>5. QED
      BY <1>11, <2>1, <2>2, <2>3, <2>4, RollbackTyped, GotoTyped DEF Commit, TypeOK
  <1>12. ASSUME NEW r \in Requests, BreakDeadlock(r) \/ Crash(r) PROVE TypeOK'
    <2>1. {"error", "lost"} \subseteq Statuses
      BY DEF Statuses
    <2>2. crashes' \in Nat
      BY <1>12 DEF BreakDeadlock, Crash, TypeOK
    <2>3. QED
      BY <1>12, <2>1, <2>2, AbandonTyped DEF BreakDeadlock, Crash
  <1>13. CASE UNCHANGED vars
    BY <1>13 DEF vars, TypeOK
  <1>14. QED
    BY <1>1, <1>2, <1>3, <1>4, <1>5, <1>6, <1>7, <1>8, <1>9, <1>10, <1>11, <1>12, <1>13
       DEF Next, Step

(* Every variable keeps its type, whatever the requests and the bound.     *)
THEOREM TypeCorrect == Spec => []TypeOK
  BY InitTyped, StepTyped, PTL DEF Spec

-----------------------------------------------------------------------------
(* Estimates count a stored submission at most once.  What a session holds *)
(* is bounded the same way by the submissions it knows, committed or its   *)
(* own, and an item under way is not among its own.                        *)

CountsOnce(bag, row, known) ==
  \A s \in Submissions : bag[s] <= (IF s \in known /\ row \in Touched(s) THEN 1 ELSE 0)

SessionCountsOnce ==
  \A r \in Requests, row \in Rows : CountsOnce(cache[r][row], row, answers \cup stored[r])

Underway == {"load", "create", "review", "save", "flush"}

ItemIsNew == \A r \in Requests : pc[r] \in Underway => Item(r) \notin stored[r]

CountInv == AtMostOnce /\ SessionCountsOnce /\ ItemIsNew

LEMMA CountsMore ==
  ASSUME NEW bag \in Bags, NEW row, NEW known, NEW more, known \subseteq more,
         CountsOnce(bag, row, known)
  PROVE  CountsOnce(bag, row, more)
  <1>1. ASSUME NEW s \in Submissions
        PROVE  bag[s] <= (IF s \in more /\ row \in Touched(s) THEN 1 ELSE 0)
    <2>1. bag[s] \in Nat /\ bag[s] <= (IF s \in known /\ row \in Touched(s) THEN 1 ELSE 0)
      BY DEF CountsOnce, Bags
    <2>2. QED
      BY <2>1
  <1>2. QED
    BY <1>1 DEF CountsOnce

LEMMA NothingCounts ==
  ASSUME NEW row \in Rows, NEW known
  PROVE  CountsOnce(NoValues[row], row, known)
  BY DEF CountsOnce, NoValues, Empty

LEMMA AtMostOnceByRow == AtMostOnce <=> \A row \in Rows : CountsOnce(db[row], row, answers)
  BY DEF AtMostOnce, CountsOnce

LEMMA InitCounts == Init => CountInv
  <1> SUFFICES ASSUME Init PROVE CountInv
    OBVIOUS
  <1>1. AtMostOnce
    BY NothingCounts, AtMostOnceByRow DEF Init
  <1>2. SessionCountsOnce
    BY NothingCounts DEF Init, SessionCountsOnce
  <1>3. ItemIsNew
    BY DEF Init, ItemIsNew, NoRows
  <1>4. QED
    BY <1>1, <1>2, <1>3 DEF CountInv

(* What a session reads counts as little as what is committed.             *)
LEMMA FetchedCounts ==
  ASSUME TypeOK, CountInv, NEW r \in Requests, NEW rows, NEW row \in Rows
  PROVE  CountsOnce(Fetched(r, rows)[row], row, answers \cup stored[r])
  <1>1. CountsOnce(cache[r][row], row, answers \cup stored[r])
    BY DEF CountInv, SessionCountsOnce
  <1>2. db[row] \in Bags /\ CountsOnce(db[row], row, answers)
    BY AtMostOnceByRow DEF CountInv, TypeOK
  <1>3. CountsOnce(db[row], row, answers \cup stored[r])
    BY <1>2, CountsMore
  <1>4. QED
    BY <1>1, <1>3 DEF Fetched

(* One request moves; the other sessions stay bounded, their items new.    *)
LEMMA OneSessionMoves ==
  ASSUME TypeOK, CountInv, NEW r \in Requests,
         answers' = answers, db' = db,
         NEW values \in [Rows -> Bags], cache' = [cache EXCEPT ![r] = values],
         NEW own \in SUBSET Submissions, stored' = [stored EXCEPT ![r] = own],
         \A row \in Rows : CountsOnce(values[row], row, answers \cup own),
         \A x \in Requests \ {r} : pc'[x] = pc[x] /\ pos'[x] = pos[x],
         pc'[r] \in Underway => items[r][pos'[r]] \notin own
  PROVE  CountInv'
  <1>1. /\ cache'[r] = values /\ stored'[r] = own
        /\ \A x \in Requests \ {r} : cache'[x] = cache[x] /\ stored'[x] = stored[x]
    BY DEF TypeOK
  <1>2. AtMostOnce'
    BY DEF CountInv, AtMostOnce
  <1>3. SessionCountsOnce'
    BY <1>1 DEF CountInv, SessionCountsOnce, CountsOnce
  <1>4. ItemIsNew'
    BY <1>1 DEF CountInv, ItemIsNew, Item
  <1>5. QED
    BY <1>2, <1>3, <1>4 DEF CountInv

LEMMA GotoOthers ==
  ASSUME TypeOK, NEW r \in Requests, NEW place, Goto(r, place)
  PROVE  pc'[r] = place /\ \A x \in Requests \ {r} : pc'[x] = pc[x]
  BY DEF Goto, TypeOK

LEMMA ProceedOthers ==
  ASSUME TypeOK, NEW r \in Requests, NEW what, Proceed(r, what)
  PROVE  /\ pc'[r] \notin Underway
         /\ \A x \in Requests \ {r} : pc'[x] = pc[x] /\ pos'[x] = pos[x]
  BY DEF Proceed, Goto, TypeOK, Underway

LEMMA UnchangedSession ==
  ASSUME TypeOK, NEW r \in Requests
  PROVE  /\ UNCHANGED stored => stored' = [stored EXCEPT ![r] = stored[r]]
         /\ UNCHANGED cache => cache' = [cache EXCEPT ![r] = cache[r]]
         /\ stored[r] \in SUBSET Submissions /\ cache[r] \in [Rows -> Bags]
         /\ CountInv => \A row \in Rows : CountsOnce(cache[r][row], row, answers \cup stored[r])
  BY DEF TypeOK, CountInv, SessionCountsOnce

LEMMA RollbackCounts ==
  ASSUME TypeOK, CountInv, NEW r \in Requests, Rollback(r), answers' = answers, db' = db,
         pc'[r] \notin Underway,
         \A x \in Requests \ {r} : pc'[x] = pc[x] /\ pos'[x] = pos[x]
  PROVE  CountInv'
  <1>1. NoValues \in [Rows -> Bags]
    BY DEF NoValues, Empty, Bags
  <1>2. cache' = [cache EXCEPT ![r] = NoValues] /\ stored' = [stored EXCEPT ![r] = {}]
    BY DEF Rollback
  <1>3. \A row \in Rows : CountsOnce(NoValues[row], row, answers \cup {})
    BY NothingCounts
  <1>4. QED
    BY <1>1, <1>2, <1>3, OneSessionMoves

LEMMA AbandonCounts ==
  ASSUME TypeOK, CountInv, NEW r \in Requests, NEW what, Abandon(r, what)
  PROVE  CountInv'
  <1>1. Goto(r, "done") /\ Rollback(r) /\ answers' = answers /\ db' = db /\ pos' = pos
    BY DEF Abandon, Respond, tables
  <1>2. "done" \notin Underway
    BY DEF Underway
  <1>3. QED
    BY <1>1, <1>2, GotoOthers, RollbackCounts

LEMMA StepCounts == TypeOK /\ CountInv /\ [Next]_vars => CountInv'
  <1> SUFFICES ASSUME TypeOK, CountInv, [Next]_vars PROVE CountInv'
    OBVIOUS
  <1> USE DEF tables, session
  <1>1. ASSUME NEW r \in Requests, Begin(r) PROVE CountInv'
    <2>1. PICK rows : Read(r, rows)
      BY <1>1 DEF Begin
    <2>2. cache' = [cache EXCEPT ![r] = Fetched(r, rows)]
      BY <2>1 DEF Read
    <2>3. Goto(r, "check") /\ UNCHANGED <<answers, db, stored, pos>>
      BY <1>1 DEF Begin
    <2>4. /\ pc'[r] \notin Underway
          /\ \A x \in Requests \ {r} : pc'[x] = pc[x] /\ pos'[x] = pos[x]
      BY <2>3, GotoOthers DEF Underway
    <2>5. stored' = [stored EXCEPT ![r] = stored[r]] /\ stored[r] \in SUBSET Submissions
      BY <2>3, UnchangedSession
    <2>6. QED
      BY <2>2, <2>3, <2>4, <2>5, FetchedType, FetchedCounts, OneSessionMoves
  <1>2. ASSUME NEW r \in Requests, Replay(r) PROVE CountInv'
    <2>1. PICK rows : Read(r, rows)
      BY <1>2 DEF Replay
    <2>2. cache' = [cache EXCEPT ![r] = Fetched(r, rows)]
      BY <2>1 DEF Read
    <2>3. Proceed(r, "duplicate") /\ UNCHANGED <<answers, db, stored>>
      BY <1>2 DEF Replay
    <2>4. QED
      BY <2>2, <2>3, ProceedOthers, FetchedType, FetchedCounts, UnchangedSession,
         OneSessionMoves
  <1>3. ASSUME NEW r \in Requests, Lookup(r) PROVE CountInv'
    <2>1. Goto(r, "load") /\ UNCHANGED <<answers, db, stored, cache, pos>>
      BY <1>3 DEF Lookup
    <2>2. Item(r) \notin stored[r]
      BY <1>3 DEF Lookup, Known
    <2>3. QED
      BY <2>1, <2>2, GotoOthers, UnchangedSession, OneSessionMoves DEF Item
  <1>4. ASSUME NEW r \in Requests, Refuse(r) PROVE CountInv'
    <2>1. CASE Proceed(r, "rejected") /\ UNCHANGED <<tables, session>>
      BY <2>1, ProceedOthers, UnchangedSession, OneSessionMoves
    <2>2. CASE Abandon(r, "rejected")
      BY <2>2, AbandonCounts
    <2>3. QED
      BY <1>4, <2>1, <2>2 DEF Refuse, SessionGoesOn
  <1>5. ASSUME NEW r \in Requests, Load(r) PROVE CountInv'
    <2>1. PICK rows, place : Read(r, rows) /\ Goto(r, place)
      BY <1>5 DEF Load
    <2>2. cache' = [cache EXCEPT ![r] = Fetched(r, rows)]
      BY <2>1 DEF Read
    <2>3. UNCHANGED <<answers, db, stored, pos>> /\ pc[r] \in Underway
      BY <1>5 DEF Load, Underway
    <2>4. items[r][pos'[r]] \notin stored[r]
      BY <2>3 DEF CountInv, ItemIsNew, Item
    <2>5. QED
      BY <2>1, <2>2, <2>3, <2>4, GotoOthers, FetchedType, FetchedCounts, UnchangedSession,
         OneSessionMoves
  <1>6. ASSUME NEW r \in Requests, ReviewSnapshot(r) PROVE CountInv'
    <2>1. PICK rows : cache' = [cache EXCEPT ![r] = Fetched(r, rows)]
      BY <1>6 DEF ReviewSnapshot
    <2>2. UNCHANGED <<answers, db, stored, pos>> /\ pc[r] \in Underway /\ Goto(r, "save")
      BY <1>6 DEF ReviewSnapshot, Underway
    <2>3. items[r][pos'[r]] \notin stored[r]
      BY <2>2 DEF CountInv, ItemIsNew, Item
    <2>4. QED
      BY <2>1, <2>2, <2>3, GotoOthers, FetchedType, FetchedCounts, UnchangedSession,
         OneSessionMoves
  <1>7. ASSUME NEW r \in Requests, SaveReviewState(r) PROVE CountInv'
    <2>1. UNCHANGED <<answers, db, stored, cache, pos>> /\ pc[r] \in Underway
          /\ Goto(r, "flush")
      BY <1>7 DEF SaveReviewState, Underway
    <2>2. items[r][pos'[r]] \notin stored[r]
      BY <2>1 DEF CountInv, ItemIsNew, Item
    <2>3. QED
      BY <2>1, <2>2, GotoOthers, UnchangedSession, OneSessionMoves
  <1>8. ASSUME NEW r \in Requests, CreateRating(r) PROVE CountInv'
    <2>1. CASE Abandon(r, "error")
      BY <2>1, AbandonCounts
    <2>2. CASE Goto(r, "review") /\ UNCHANGED <<tables, cache, stored, pos>>
      <3>1. items[r][pos'[r]] \notin stored[r]
        BY <1>8, <2>2 DEF CreateRating, CountInv, ItemIsNew, Item, Underway
      <3>2. QED
        BY <2>2, <3>1, GotoOthers, UnchangedSession, OneSessionMoves
    <2>3. QED
      BY <1>8, <2>1, <2>2 DEF CreateRating
  <1>9. ASSUME NEW r \in Requests, Flush(r) PROVE CountInv'
    <2> DEFINE s == Item(r)
               own == stored[r] \cup {s}
    <2>1. /\ s \in Submissions /\ s \notin answers \cup stored[r]
          /\ cache' = [cache EXCEPT ![r] = FoldOnce(r)]
          /\ stored' = [stored EXCEPT ![r] = own]
          /\ Proceed(r, "accepted") /\ UNCHANGED <<answers, db>>
      BY <1>9, ItemType DEF Flush, KeyClash, CountInv, ItemIsNew, Underway
    <2>2. ASSUME NEW row \in Rows
          PROVE  FoldOnce(r)[row] \in Bags /\ CountsOnce(FoldOnce(r)[row], row, answers \cup own)
      <3>1. /\ cache[r][row] \in Bags
            /\ CountsOnce(cache[r][row], row, answers \cup stored[r])
        BY UnchangedSession
      <3>2. CountsOnce(cache[r][row], row, answers \cup own)
        BY <3>1, CountsMore
      <3>3. CASE row \notin Touched(s)
        BY <3>1, <3>2, <3>3 DEF FoldOnce
      <3>4. CASE row \in Touched(s)
        <4>1. FoldOnce(r)[row] = Fold(cache[r][row], s)
          BY <3>4 DEF FoldOnce
        <4>2. cache[r][row][s] = 0
          BY <2>1, <3>1 DEF CountsOnce, Bags
        <4>3. CountsOnce(Fold(cache[r][row], s), row, answers \cup own)
          <5>1. ASSUME NEW x \in Submissions
                PROVE  Fold(cache[r][row], s)[x]
                         <= (IF x \in answers \cup own /\ row \in Touched(x) THEN 1 ELSE 0)
            <6>1. CASE x = s
              BY <2>1, <3>1, <3>4, <4>2, <6>1, FoldType
            <6>2. CASE x # s
              BY <2>1, <3>1, <3>2, <6>2, FoldType DEF CountsOnce
            <6>3. QED
              BY <6>1, <6>2
          <5>2. QED
            BY <5>1 DEF CountsOnce
        <4>4. QED
          BY <2>1, <3>1, <4>1, <4>3, FoldType
      <3>5. QED
        BY <3>3, <3>4
    <2>3. FoldOnce(r) \in [Rows -> Bags]
      BY <2>2 DEF FoldOnce
    <2>4. own \in SUBSET Submissions
      BY <2>1, UnchangedSession
    <2>5. QED
      BY <2>1, <2>2, <2>3, <2>4, ProceedOthers, OneSessionMoves
  <1>10. ASSUME NEW r \in Requests, Conflict(r) PROVE CountInv'
    <2>1. CASE Rollback(r) /\ Proceed(r, "conflict") /\ UNCHANGED tables
      BY <2>1, ProceedOthers, RollbackCounts
    <2>2. CASE Abandon(r, "error") \/ Abandon(r, "conflict")
      BY <2>2, AbandonCounts
    <2>3. QED
      BY <1>10, <2>1, <2>2 DEF Conflict
  <1>11. ASSUME NEW r \in Requests, Commit(r) PROVE CountInv'
    <2>1. /\ answers' = answers \cup stored[r]
          /\ \A row \in Rows : db'[row] \in {db[row], cache[r][row]}
          /\ Rollback(r) /\ Goto(r, "done") /\ pos' = pos
      BY <1>11 DEF Commit, Respond
    <2>2. /\ cache'[r] = NoValues /\ stored'[r] = {}
          /\ \A x \in Requests \ {r} : cache'[x] = cache[x] /\ stored'[x] = stored[x]
      BY <2>1 DEF Rollback, TypeOK
    <2>3. AtMostOnce'
      <3>1. ASSUME NEW row \in Rows PROVE CountsOnce(db'[row], row, answers')
        <4>1. CountsOnce(db[row], row, answers) /\ db[row] \in Bags
          BY AtMostOnceByRow DEF CountInv, TypeOK
        <4>2. CountsOnce(db[row], row, answers')
          BY <2>1, <4>1, CountsMore
        <4>3. CountsOnce(cache[r][row], row, answers')
          BY <2>1, UnchangedSession
        <4>4. QED
          BY <2>1, <4>2, <4>3
      <3>2. QED
        BY <3>1 DEF AtMostOnce, CountsOnce
    <2>4. SessionCountsOnce'
      <3>1. ASSUME NEW x \in Requests, NEW row \in Rows
            PROVE  CountsOnce(cache'[x][row], row, answers' \cup stored'[x])
        <4>1. CASE x = r
          BY <2>2, <4>1, NothingCounts
        <4>2. CASE x # r
          <5>1. /\ cache[x][row] \in Bags
                /\ CountsOnce(cache[x][row], row, answers \cup stored[x])
            BY UnchangedSession
          <5>2. answers \cup stored[x] \subseteq answers' \cup stored[x]
            BY <2>1
          <5>3. QED
            BY <2>2, <4>2, <5>1, <5>2, CountsMore
        <4>3. QED
          BY <4>1, <4>2
      <3>2. QED
        BY <3>1 DEF SessionCountsOnce, CountsOnce
    <2>5. ItemIsNew'
      BY <2>1, <2>2, GotoOthers DEF CountInv, ItemIsNew, Item, Underway
    <2>6. QED
      BY <2>3, <2>4, <2>5 DEF CountInv
  <1>12. ASSUME NEW r \in Requests, BreakDeadlock(r) \/ Crash(r) PROVE CountInv'
    BY <1>12, AbandonCounts DEF BreakDeadlock, Crash
  <1>13. CASE UNCHANGED vars
    BY <1>13 DEF vars, CountInv, AtMostOnce, SessionCountsOnce, CountsOnce, ItemIsNew, Item
  <1>14. QED
    BY <1>1, <1>2, <1>3, <1>4, <1>5, <1>6, <1>7, <1>8, <1>9, <1>10, <1>11, <1>12, <1>13
       DEF Next, Step

(* However requests overlap, repeat, deadlock or die, no rating, review    *)
(* state, difficulty or counter takes a submission into account twice, nor *)
(* one that is not stored.                                                 *)
THEOREM CountedAtMostOnce == Spec => []AtMostOnce
  <1>1. CountInv => AtMostOnce
    BY DEF CountInv
  <1>2. QED
    BY <1>1, InitTyped, StepTyped, InitCounts, StepCounts, PTL DEF Spec

-----------------------------------------------------------------------------
(* What a response acknowledges.  Up to the commit what a request has noted *)
(* as accepted or known is committed or its own; only the last item of a   *)
(* batch may note a conflict, with which the batch gives up what it had;   *)
(* and the commit makes its own committed.                                 *)

Acked == {"accepted", "duplicate"}
Clean(r) == \A s \in Submissions : outcome[r][s] # "conflict"
InHand(r) == answers \cup stored[r]

Acknowledges(r) ==
  /\ pc[r] \notin {"commit", "done"} => Clean(r)
  /\ status[r] = "ok" => pc[r] = "done"
  /\ pc[r] = "commit" /\ r \notin Batches => items[r][1] \in InHand(r)
  /\ pc[r] # "done" /\ Clean(r) =>
       \A s \in Submissions : outcome[r][s] \in Acked => s \in InHand(r)
  /\ status[r] = "ok" /\ r \notin Batches => items[r][1] \in answers
  /\ status[r] = "ok" /\ r \in Batches /\ Clean(r) =>
       \A s \in Submissions : outcome[r][s] \in Acked => s \in answers

AckInv == \A r \in Requests : Acknowledges(r)

LEMMA InitAcks == Init => AckInv
  BY DEF Init, AckInv, Acknowledges, Clean, Acked

(* The others keep what they have, and nothing is taken from the answers.  *)
LEMMA OneAcks ==
  ASSUME AckInv, NEW r \in Requests, answers \subseteq answers', Acknowledges(r)',
         \A x \in Requests \ {r} :
           pc'[x] = pc[x] /\ outcome'[x] = outcome[x] /\ status'[x] = status[x]
             /\ stored'[x] = stored[x]
  PROVE  AckInv'
  <1>1. ASSUME NEW x \in Requests \ {r}
        PROVE  Acknowledges(x)'
    <2>1. Acknowledges(x) /\ pc'[x] = pc[x] /\ outcome'[x] = outcome[x]
            /\ status'[x] = status[x] /\ stored'[x] = stored[x]
      BY DEF AckInv
    <2>2. Clean(x)' <=> Clean(x)
      BY <2>1 DEF Clean
    <2>3. InHand(x) \subseteq InHand(x)'
      BY <2>1 DEF InHand
    <2> QED
      BY <2>1, <2>2, <2>3 DEF Acknowledges
  <1> QED
    BY <1>1 DEF AckInv

(* A step that notes nothing.                                              *)
LEMMA MovesAck ==
  ASSUME TypeOK, AckInv, NEW r \in Requests, NEW place, Goto(r, place),
         pc[r] \notin {"commit", "done"}, place \notin {"commit", "done"},
         UNCHANGED <<answers, stored, outcome, status>>
  PROVE  AckInv'
  <1>1. Acknowledges(r) /\ pc'[r] = place /\ \A x \in Requests \ {r} : pc'[x] = pc[x]
    BY GotoOthers DEF AckInv
  <1>2. (Clean(r)' <=> Clean(r)) /\ InHand(r)' = InHand(r)
    BY DEF Clean, InHand
  <1>3. Acknowledges(r)'
    BY <1>1, <1>2 DEF Acknowledges
  <1> QED
    BY <1>1, <1>3, OneAcks

(* A step that notes an item and goes on.                                  *)
LEMMA ProceedAcks ==
  ASSUME TypeOK, AckInv, NEW r \in Requests, NEW what \in {"accepted", "duplicate", "rejected"},
         Proceed(r, what), pc[r] \notin {"commit", "done"}, UNCHANGED <<answers, status>>,
         NEW own, stored[r] \subseteq own, stored' = [stored EXCEPT ![r] = own],
         what \in Acked => Item(r) \in answers \cup own,
         what \notin Acked => r \in Batches
  PROVE  AckInv'
  <1>1. /\ Acknowledges(r) /\ Item(r) \in Submissions /\ stored'[r] = own
        /\ \A x \in Requests \ {r} : stored'[x] = stored[x]
    BY ItemType DEF AckInv, TypeOK
  <1>2. /\ outcome'[r] = [outcome[r] EXCEPT ![Item(r)] = what]
        /\ \A x \in Requests \ {r} : outcome'[x] = outcome[x] /\ pc'[x] = pc[x]
        /\ pc'[r] \in {"commit", "check"} /\ status'[r] = status[r]
    BY DEF Proceed, Goto, TypeOK
  <1>3. outcome[r] \in [Submissions -> Outcomes]
    BY DEF TypeOK
  <1>4. \A s \in Submissions : outcome'[r][s] = IF s = Item(r) THEN what ELSE outcome[r][s]
    BY <1>2, <1>3
  <1>5. Clean(r) /\ Clean(r)' /\ status[r] # "ok"
    BY <1>1, <1>4 DEF Acknowledges, Clean
  <1>6. InHand(r)' = answers \cup own /\ InHand(r) \subseteq InHand(r)'
    BY <1>1 DEF InHand
  <1>7. \A s \in Submissions : outcome'[r][s] \in Acked => s \in InHand(r)'
    BY <1>1, <1>4, <1>5, <1>6 DEF Acknowledges
  <1>8. ASSUME r \notin Batches
        PROVE  items[r][1] \in InHand(r)'
    <2>1. pos[r] \in DOMAIN items[r] /\ items[r] \in Seq(Submissions) /\ Len(items[r]) = 1
      BY <1>8, ServerAssumption DEF TypeOK
    <2>2. Item(r) = items[r][1]
      BY <2>1 DEF Item
    <2> QED
      BY <1>6, <1>8, <2>2
  <1>9. Acknowledges(r)'
    BY <1>2, <1>5, <1>7, <1>8 DEF Acknowledges
  <1> QED
    BY <1>1, <1>2, <1>9, OneAcks

LEMMA AbandonAcks ==
  ASSUME TypeOK, AckInv, NEW r \in Requests, NEW what, Abandon(r, what), what # "ok"
  PROVE  AckInv'
  <1>1. /\ pc'[r] = "done" /\ status'[r] # "ok" /\ answers' = answers
        /\ \A x \in Requests \ {r} :
             pc'[x] = pc[x] /\ outcome'[x] = outcome[x] /\ status'[x] = status[x]
               /\ stored'[x] = stored[x]
    BY DEF Abandon, Respond, Goto, Rollback, tables, TypeOK
  <1>2. Acknowledges(r)'
    BY <1>1 DEF Acknowledges
  <1> QED
    BY <1>1, <1>2, OneAcks

(* The last item of a batch conflicts: the batch has noted that it did.    *)
LEMMA ConflictAcks ==
  ASSUME TypeOK, AckInv, NEW r \in Requests, Conflict(r)
  PROVE  AckInv'
  <1>1. CASE Abandon(r, "error") \/ Abandon(r, "conflict")
    BY <1>1, AbandonAcks
  <1>2. CASE r \in Batches /\ IsLast(r) /\ Rollback(r) /\ Proceed(r, "conflict")
             /\ UNCHANGED <<tables, status>>
    <2>1. Item(r) \in Submissions /\ pc[r] = "flush" /\ Acknowledges(r)
      BY ItemType DEF Conflict, AckInv
    <2>2. /\ outcome'[r] = [outcome[r] EXCEPT ![Item(r)] = "conflict"]
          /\ pc'[r] = "commit" /\ status'[r] = status[r] /\ answers' = answers
          /\ \A x \in Requests \ {r} :
               pc'[x] = pc[x] /\ outcome'[x] = outcome[x] /\ status'[x] = status[x]
                 /\ stored'[x] = stored[x]
      BY <1>2 DEF Proceed, Goto, Rollback, tables, TypeOK
    <2>3. outcome[r] \in [Submissions -> Outcomes]
      BY DEF TypeOK
    <2>4. ~ Clean(r)'
      BY <2>1, <2>2, <2>3 DEF Clean
    <2>5. Acknowledges(r)'
      BY <1>2, <2>1, <2>2, <2>4 DEF Acknowledges
    <2> QED
      BY <2>2, <2>5, OneAcks
  <1> QED
    BY <1>1, <1>2 DEF Conflict

LEMMA CommitAcks ==
  ASSUME TypeOK, AckInv, NEW r \in Requests, Commit(r)
  PROVE  AckInv'
  <1>1. /\ pc[r] = "commit" /\ pc'[r] = "done" /\ answers' = InHand(r) /\ outcome' = outcome
        /\ \A x \in Requests \ {r} :
             pc'[x] = pc[x] /\ outcome'[x] = outcome[x] /\ status'[x] = status[x]
               /\ stored'[x] = stored[x]
    BY DEF Commit, Respond, Goto, Rollback, TypeOK, InHand
  <1>2. Acknowledges(r) /\ (Clean(r)' <=> Clean(r)) /\ answers \subseteq answers'
    BY <1>1 DEF AckInv, Clean, InHand
  <1>3. Acknowledges(r)'
    BY <1>1, <1>2 DEF Acknowledges
  <1> QED
    BY <1>1, <1>2, <1>3, OneAcks

LEMMA StepAcks == TypeOK /\ AckInv /\ [Next]_vars => AckInv'
  <1> SUFFICES ASSUME TypeOK, AckInv, [Next]_vars PROVE AckInv'
    OBVIOUS
  <1> USE DEF tables, session
  <1>1. ASSUME NEW r \in Requests, NEW place, Goto(r, place),
               pc[r] \in {"new", "check", "load", "create", "review", "save"},
               place \in {"check", "load", "create", "review", "save", "flush"},
               UNCHANGED <<answers, stored, outcome, status>>
        PROVE  AckInv'
    BY <1>1, MovesAck
  <1>2. ASSUME NEW r \in Requests,
               Begin(r) \/ Lookup(r) \/ Load(r) \/ ReviewSnapshot(r) \/ SaveReviewState(r)
        PROVE  AckInv'
    <2>1. \E place \in {"check", "load", "create", "review", "save", "flush"} : Goto(r, place)
      BY <1>2 DEF Begin, Lookup, Load, ReviewSnapshot, SaveReviewState
    <2>2. /\ pc[r] \in {"new", "check", "load", "create", "review", "save"}
          /\ UNCHANGED <<answers, stored, outcome, status>>
      BY <1>2 DEF Begin, Lookup, Load, ReviewSnapshot, SaveReviewState
    <2> QED
      BY <1>1, <2>1, <2>2
  <1>3. ASSUME NEW r \in Requests, CreateRating(r)
        PROVE  AckInv'
    <2>1. CASE Goto(r, "review") /\ UNCHANGED <<answers, stored, outcome, status>>
      BY <1>1, <1>3, <2>1 DEF CreateRating
    <2>2. CASE Abandon(r, "error")
      BY <2>2, AbandonAcks
    <2> QED
      BY <1>3, <2>1, <2>2 DEF CreateRating
  <1>4. ASSUME NEW r \in Requests, Replay(r)
        PROVE  AckInv'
    <2>1. stored' = [stored EXCEPT ![r] = stored[r]]
      BY <1>4, UnchangedSession DEF Replay
    <2>2. "duplicate" \in Acked /\ Item(r) \in answers \cup stored[r]
      BY <1>4 DEF Replay, Known, Acked
    <2> QED
      BY <1>4, <2>1, <2>2, ProceedAcks DEF Replay
  <1>5. ASSUME NEW r \in Requests, Refuse(r)
        PROVE  AckInv'
    <2>1. CASE r \in Batches /\ UNCHANGED session /\ Proceed(r, "rejected")
               /\ UNCHANGED <<tables, status>>
      <3>1. stored' = [stored EXCEPT ![r] = stored[r]] /\ "rejected" \notin Acked
        BY <2>1, UnchangedSession DEF Acked
      <3> QED
        BY <1>5, <2>1, <3>1, ProceedAcks DEF Refuse
    <2>2. CASE Abandon(r, "rejected")
      BY <2>2, AbandonAcks
    <2> QED
      BY <1>5, <2>1, <2>2 DEF Refuse, SessionGoesOn
  <1>6. ASSUME NEW r \in Requests, Flush(r)
        PROVE  AckInv'
    <2>1. /\ stored' = [stored EXCEPT ![r] = @ \cup {Item(r)}] /\ "accepted" \in Acked
          /\ Proceed(r, "accepted") /\ pc[r] = "flush" /\ UNCHANGED <<answers, status>>
      BY <1>6 DEF Flush, Acked
    <2>2. stored' = [stored EXCEPT ![r] = stored[r] \cup {Item(r)}]
      BY <2>1
    <2> QED
      BY <2>1, <2>2, ProceedAcks
  <1>7. ASSUME NEW r \in Requests, BreakDeadlock(r) \/ Crash(r)
        PROVE  AckInv'
    BY <1>7, AbandonAcks DEF BreakDeadlock, Crash
  <1>8. CASE UNCHANGED vars
    BY <1>8 DEF vars, AckInv, Acknowledges, Clean, InHand
  <1> QED
    BY <1>2, <1>3, <1>4, <1>5, <1>6, <1>7, <1>8, ConflictAcks, CommitAcks DEF Next, Step

(* What a response acknowledges is stored, for any requests and batches: an
   answer sent alone always, an item of a batch unless its last item
   conflicted.                                                              *)
THEOREM AcksAreKept == Spec => []AcknowledgedIsStored
  <1>1. AckInv => AcknowledgedIsStored
    BY ServerAssumption DEF AckInv, Acknowledges, AcknowledgedIsStored, Clean, Acked
  <1> QED
    BY <1>1, InitTyped, StepTyped, InitAcks, StepAcks, PTL DEF Spec

-----------------------------------------------------------------------------
(* Serial executions.  As long as no two transactions were open at once,   *)
(* the one that is open holds of every row what a serial history gives:    *)
(* what is in its session counts the answers in hand, and what is not      *)
(* there is touched by none of its own.                                    *)

Exact(bag, row, known) ==
  \A s \in Submissions : bag[s] = IF s \in known /\ row \in Touched(s) THEN 1 ELSE 0

(* The session.                                                            *)
Core(r) ==
  /\ written[r] \subseteq loaded[r]
  /\ \A s \in stored[r] : Touched(s) \subseteq written[r]
  /\ \A row \in loaded[r] : Exact(cache[r][row], row, InHand(r))
  /\ \A row \in Rows \ (loaded[r] \cup exists) : cache[r][row] = Empty

(* What it has loaded when it comes to the flush.                          *)
Ready(r) ==
  /\ pc[r] \notin {"new", "commit", "done"} =>
       \A s \in Submissions : userOf[s] = userOf[items[r][1]] => ProfileRow(s) \in loaded[r]
  /\ pc[r] \in {"create", "review", "save", "flush"} => QuestionRow(Item(r)) \in loaded[r]
  /\ pc[r] \in {"review", "save", "flush"} => RatingRow(Item(r)) \in loaded[r]
  /\ pc[r] = "save" /\ ReviewRow(Item(r)) \in exists =>
       Exact(cache[r][ReviewRow(Item(r))], ReviewRow(Item(r)), InHand(r))

Blank(r) ==
  loaded[r] = {} /\ written[r] = {} /\ stored[r] = {} /\ cache[r] = NoValues

SerialInv ==
  ~ overlapped =>
    /\ Permanent \subseteq exists
    /\ \A s \in answers : Touched(s) \subseteq exists
    /\ \A row \in Rows : Exact(db[row], row, answers)
    /\ \A r \in Requests, x \in Requests : Open(r) /\ Open(x) => r = x
    /\ \A r \in Requests : IF Open(r) THEN Core(r) /\ Ready(r) ELSE Blank(r)

LEMMA InitSerial == Init => SerialInv
  <1> SUFFICES ASSUME Init PROVE SerialInv
    OBVIOUS
  <1>1. \A row \in Rows : Exact(db[row], row, answers)
    BY DEF Init, Exact, NoValues, Empty
  <1>2. \A r \in Requests : ~ Open(r) /\ Blank(r)
    BY DEF Init, Open, Blank, NoRows
  <1> QED
    BY <1>1, <1>2 DEF Init, SerialInv

(* The request that moves, the only one open, keeps to its promise; what   *)
(* is closed stays blank.                                                  *)
LEMMA SerialMoves ==
  ASSUME SerialInv, ~ overlapped, NEW r \in Requests, Open(r), UNCHANGED <<tables, overlapped>>,
         \A x \in Requests \ {r} :
           /\ pc'[x] = pc[x] /\ loaded'[x] = loaded[x] /\ written'[x] = written[x]
           /\ stored'[x] = stored[x] /\ cache'[x] = cache[x],
         IF Open(r)' THEN Core(r)' /\ Ready(r)' ELSE Blank(r)'
  PROVE  SerialInv'
  <1>1. \A x \in Requests \ {r} : ~ Open(x) /\ Blank(x)
    BY DEF SerialInv
  <1>2. \A x \in Requests \ {r} : ~ Open(x)' /\ Blank(x)'
    BY <1>1 DEF Open, Blank
  <1>3. \A x \in Requests, y \in Requests : Open(x)' /\ Open(y)' => x = y
    BY <1>2
  <1>4. \A x \in Requests : IF Open(x)' THEN Core(x)' /\ Ready(x)' ELSE Blank(x)'
    BY <1>2
  <1>5. /\ (Permanent \subseteq exists)' /\ (\A s \in answers : Touched(s) \subseteq exists)'
        /\ (\A row \in Rows : Exact(db[row], row, answers))'
    BY DEF SerialInv, tables, Exact
  <1> QED
    BY <1>3, <1>4, <1>5 DEF SerialInv

LEMMA UnloadedExact ==
  ASSUME NEW r \in Requests, Core(r), NEW row, row \notin loaded[r], NEW bag,
         Exact(bag, row, answers)
  PROVE  Exact(bag, row, InHand(r))
  BY DEF Core, Exact, InHand

LEMMA ReadCore ==
  ASSUME TypeOK, SerialInv, ~ overlapped, NEW r \in Requests, Core(r), NEW rows, Read(r, rows),
         UNCHANGED <<tables, written, stored>>
  PROVE  Core(r)' /\ loaded'[r] = loaded[r] \cup (rows \cap exists)
  <1>1. /\ loaded'[r] = loaded[r] \cup (rows \cap exists)
        /\ cache'[r] = Fetched(r, rows) /\ loaded[r] \subseteq Rows /\ exists \subseteq Rows
        /\ written'[r] = written[r] /\ stored'[r] = stored[r] /\ InHand(r)' = InHand(r)
    BY DEF Read, TypeOK, InHand, tables
  <1>2. ASSUME NEW row \in loaded'[r]
        PROVE  Exact(cache'[r][row], row, InHand(r))
    <2>1. CASE row \in loaded[r]
      <3>1. cache'[r][row] = cache[r][row]
        BY <1>1, <2>1 DEF Fetched
      <3> QED
        BY <2>1, <3>1 DEF Core
    <2>2. CASE row \notin loaded[r]
      <3>1. row \in Rows /\ cache'[r][row] = db[row]
        BY <1>1, <2>2 DEF Fetched
      <3> QED
        BY <2>2, <3>1, UnloadedExact DEF SerialInv
    <2> QED
      BY <2>1, <2>2
  <1>3. ASSUME NEW row \in Rows \ (loaded'[r] \cup exists)
        PROVE  cache'[r][row] = Empty
    BY <1>1 DEF Fetched, Core
  <1> QED
    BY <1>1, <1>2, <1>3 DEF Core, tables, Exact

LEMMA RolledBack ==
  ASSUME TypeOK, NEW r \in Requests, Rollback(r)
  PROVE  /\ Blank(r)'
         /\ \A x \in Requests \ {r} : loaded'[x] = loaded[x] /\ written'[x] = written[x]
                                        /\ stored'[x] = stored[x] /\ cache'[x] = cache[x]
  BY DEF Rollback, Blank, TypeOK

LEMMA AbandonSerial ==
  ASSUME TypeOK, SerialInv, ~ overlapped, NEW r \in Requests, Open(r), NEW what, Abandon(r, what)
  PROVE  SerialInv'
  <1>1. Goto(r, "done") /\ Rollback(r) /\ UNCHANGED <<tables, overlapped>>
    BY DEF Abandon, Respond
  <1>2. pc'[r] = "done" /\ \A x \in Requests \ {r} : pc'[x] = pc[x]
    BY <1>1, GotoOthers
  <1>3. ~ Open(r)'
    BY <1>2 DEF Open
  <1> QED
    BY <1>1, <1>2, <1>3, RolledBack, SerialMoves

LEMMA BlankCommits ==
  ASSUME NEW r \in Requests, Blank(r), pc[r] = "commit"
  PROVE  Open(r) /\ Core(r) /\ Ready(r)
  BY DEF Blank, Open, Core, Ready, NoValues

(* Where a step goes on to, and what it leaves of the rest.                *)
LEMMA ProceedsTo ==
  ASSUME TypeOK, NEW r \in Requests, NEW what, Proceed(r, what)
  PROVE  pc'[r] \in {"commit", "check"} /\ \A x \in Requests \ {r} : pc'[x] = pc[x]
  BY DEF Proceed, Goto, TypeOK

LEMMA OwnUser ==
  ASSUME TypeOK, NEW r \in Requests, pc[r] \notin {"commit", "done"}
  PROVE  Item(r) \in Submissions /\ userOf[Item(r)] = userOf[items[r][1]]
  <1>1. pos[r] \in DOMAIN items[r]
    BY DEF TypeOK
  <1> QED
    BY <1>1, ItemType, ServerAssumption DEF Item

LEMMA RowsThere ==
  ASSUME SerialInv, ~ overlapped, NEW s \in Submissions
  PROVE  ProfileRow(s) \in exists /\ QuestionRow(s) \in exists
  BY DEF SerialInv, Permanent

LEMMA BeginSerial ==
  ASSUME TypeOK, SerialInv, ~ overlapped', NEW r \in Requests, Begin(r)
  PROVE  SerialInv'
  <1> DEFINE rows == {ProfileRow(s) : s \in {s \in Submissions : userOf[s] = userOf[items[r][1]]}}
  <1>1. /\ ~ overlapped /\ pc[r] = "new" /\ Goto(r, "check") /\ Read(r, rows)
        /\ UNCHANGED <<tables, written, stored>>
        /\ \A x \in Requests : ~ Open(x)
    BY DEF Begin
  <1>2. pc'[r] = "check" /\ \A x \in Requests \ {r} : pc'[x] = pc[x]
    BY <1>1, GotoOthers
  <1>3. \A x \in Requests : Blank(x)
    BY <1>1 DEF SerialInv
  <1>4. Core(r)
    BY <1>3 DEF Core, Blank, NoValues
  <1>5. Core(r)' /\ loaded'[r] = loaded[r] \cup (rows \cap exists)
    BY <1>1, <1>4, ReadCore
  <1>6. Ready(r)'
    BY <1>1, <1>2, <1>5, RowsThere DEF Ready
  <1>7. \A x \in Requests \ {r} : ~ Open(x)' /\ Blank(x)'
    <2>1. \A x \in Requests \ {r} : loaded'[x] = loaded[x] /\ written'[x] = written[x]
                                      /\ stored'[x] = stored[x] /\ cache'[x] = cache[x]
      BY <1>1 DEF Read, TypeOK
    <2> QED
      BY <1>1, <1>2, <1>3, <2>1 DEF Open, Blank
  <1>8. /\ (Permanent \subseteq exists)' /\ (\A s \in answers : Touched(s) \subseteq exists)'
        /\ (\A row \in Rows : Exact(db[row], row, answers))'
    BY <1>1 DEF SerialInv, tables, Exact
  <1>9. \A x \in Requests, y \in Requests : Open(x)' /\ Open(y)' => x = y
    BY <1>7
  <1>10. \A x \in Requests : IF Open(x)' THEN Core(x)' /\ Ready(x)' ELSE Blank(x)'
    <2>1. Open(r)'
      BY <1>2 DEF Open
    <2> QED
      BY <1>5, <1>6, <1>7, <2>1
  <1> QED
    BY <1>8, <1>9, <1>10 DEF SerialInv

LEMMA OpenRequest ==
  ASSUME SerialInv, ~ overlapped, NEW r \in Requests, pc[r] \notin {"new", "done"}
  PROVE  Open(r) /\ Core(r) /\ Ready(r)
  BY DEF SerialInv, Open

LEMMA ReadsSerial ==
  ASSUME TypeOK, SerialInv, ~ overlapped, NEW r \in Requests, Replay(r) \/ Lookup(r) \/ Load(r)
  PROVE  SerialInv'
  <1>1. /\ pc[r] \in {"check", "load"} /\ Open(r) /\ Core(r) /\ Ready(r)
        /\ Item(r) \in Submissions
        /\ UNCHANGED <<tables, written, stored, overlapped>>
    BY OpenRequest, ItemType DEF Replay, Lookup, Load, session
  <1>2. CASE Lookup(r)
    <2>1. pc'[r] = "load" /\ (\A x \in Requests \ {r} : pc'[x] = pc[x]) /\ UNCHANGED session
      BY <1>2, GotoOthers DEF Lookup
    <2>2. Open(r)' /\ Core(r)' /\ Ready(r)'
      BY <1>1, <1>2, <2>1 DEF Open, Core, Ready, Exact, InHand, session, tables, Lookup
    <2> QED
      BY <1>1, <2>1, <2>2, SerialMoves DEF session
  <1>3. CASE Replay(r) \/ Load(r)
    <2>1. PICK rows : Read(r, rows) /\ (Load(r) => rows = {QuestionRow(Item(r)), RatingRow(Item(r))})
      BY <1>3 DEF Replay, Load
    <2>2. Core(r)' /\ loaded'[r] = loaded[r] \cup (rows \cap exists)
      BY <1>1, <2>1, ReadCore
    <2>3. \A x \in Requests \ {r} : loaded'[x] = loaded[x] /\ cache'[x] = cache[x]
      BY <2>1 DEF Read, TypeOK
    <2>4. CASE Replay(r)
      <3>1. pc'[r] \in {"commit", "check"} /\ \A x \in Requests \ {r} : pc'[x] = pc[x]
        BY <2>4, ProceedsTo DEF Replay
      <3>2. Open(r)' /\ Ready(r)'
        BY <1>1, <2>2, <3>1 DEF Open, Ready
      <3> QED
        BY <1>1, <2>2, <2>3, <3>1, <3>2, SerialMoves
    <2>5. CASE Load(r)
      <3>1. /\ pc'[r] = IF RatingRow(Item(r)) \in loaded'[r] THEN "review" ELSE "create"
            /\ \A x \in Requests \ {r} : pc'[x] = pc[x]
        BY <2>5, GotoOthers DEF Load
      <3>2. pos' = pos /\ QuestionRow(Item(r)) \in loaded'[r] /\ Item(r)' = Item(r)
        BY <1>1, <2>1, <2>2, <2>5, RowsThere DEF Load, Item
      <3>3. Open(r)' /\ Ready(r)'
        BY <1>1, <2>2, <3>1, <3>2 DEF Open, Ready
      <3> QED
        BY <1>1, <2>2, <2>3, <3>1, <3>3, SerialMoves
    <2> QED
      BY <1>3, <2>4, <2>5
  <1> QED
    BY <1>2, <1>3

LEMMA RefuseSerial ==
  ASSUME TypeOK, SerialInv, ~ overlapped, NEW r \in Requests, Refuse(r)
  PROVE  SerialInv'
  <1>1. pc[r] = "load" /\ Open(r) /\ Core(r) /\ Ready(r)
    BY OpenRequest DEF Refuse
  <1>2. CASE Abandon(r, "rejected")
    BY <1>1, <1>2, AbandonSerial
  <1>3. CASE UNCHANGED session /\ Proceed(r, "rejected") /\ UNCHANGED <<tables, overlapped>>
    <2>1. pc'[r] \in {"commit", "check"} /\ \A x \in Requests \ {r} : pc'[x] = pc[x]
      BY <1>3, ProceedsTo
    <2>2. Open(r)' /\ Core(r)' /\ Ready(r)'
      BY <1>1, <1>3, <2>1 DEF Open, Core, Ready, Exact, InHand, session, tables
    <2> QED
      BY <1>1, <1>3, <2>1, <2>2, SerialMoves DEF session
  <1> QED
    BY <1>2, <1>3 DEF Refuse, SessionGoesOn

(* A row no known answer touches counts none.                              *)
LEMMA AbsentExact ==
  ASSUME SerialInv, ~ overlapped, NEW r \in Requests, Core(r),
         NEW row \in Rows, row \notin loaded[r], row \notin exists
  PROVE  Exact(cache[r][row], row, InHand(r))
  <1>1. \A s \in InHand(r) : row \notin Touched(s)
    BY DEF SerialInv, Core, InHand
  <1> QED
    BY <1>1 DEF Core, Exact, Empty

LEMMA CreateSerial ==
  ASSUME TypeOK, SerialInv, ~ overlapped, NEW r \in Requests, CreateRating(r)
  PROVE  SerialInv'
  <1> DEFINE row == RatingRow(Item(r))
  <1>1. /\ pc[r] = "create" /\ Open(r) /\ Core(r) /\ Ready(r) /\ Item(r) \in Submissions
        /\ row \in Rows
    BY OpenRequest, ItemType, RowsOfSubmission DEF CreateRating
  <1>2. CASE Abandon(r, "error")
    BY <1>1, <1>2, AbandonSerial
  <1>3. CASE /\ row \notin exists
             /\ loaded' = [loaded EXCEPT ![r] = @ \cup {row}]
             /\ written' = [written EXCEPT ![r] = @ \cup {row}]
             /\ Goto(r, "review")
             /\ UNCHANGED <<tables, cache, stored, pos, outcome, status, overlapped>>
    <2>1. /\ pc'[r] = "review" /\ loaded'[r] = loaded[r] \cup {row} /\ written'[r] = written[r] \cup {row}
          /\ \A x \in Requests \ {r} :
               pc'[x] = pc[x] /\ loaded'[x] = loaded[x] /\ written'[x] = written[x]
      BY <1>3, GotoOthers DEF TypeOK
    <2>2. InHand(r)' = InHand(r) /\ Item(r)' = Item(r) /\ exists' = exists
      BY <1>3 DEF InHand, Item, tables
    <2>3. \A other \in loaded'[r] : Exact(cache[r][other], other, InHand(r))
      BY <1>1, <1>3, <2>1, AbsentExact DEF Core
    <2>4. Core(r)'
      BY <1>1, <1>3, <2>1, <2>2, <2>3 DEF Core, Exact
    <2>5. Open(r)' /\ Ready(r)'
      BY <1>1, <2>1, <2>2 DEF Open, Ready
    <2> QED
      BY <1>1, <1>3, <2>1, <2>4, <2>5, SerialMoves
  <1> QED
    BY <1>2, <1>3 DEF CreateRating

LEMMA ReviewSerial ==
  ASSUME TypeOK, SerialInv, ~ overlapped, NEW r \in Requests, ReviewSnapshot(r) \/ SaveReviewState(r)
  PROVE  SerialInv'
  <1> DEFINE row == ReviewRow(Item(r))
  <1>1. /\ pc[r] \in {"review", "save"} /\ Open(r) /\ Core(r) /\ Ready(r)
        /\ Item(r) \in Submissions /\ row \in Rows
        /\ UNCHANGED <<tables, written, stored, pos, overlapped>>
        /\ InHand(r)' = InHand(r) /\ Item(r)' = Item(r) /\ exists' = exists
    BY OpenRequest, ItemType, RowsOfSubmission DEF ReviewSnapshot, SaveReviewState, InHand, Item, tables
  <1>2. CASE ReviewSnapshot(r)
    <2>1. /\ pc'[r] = "save" /\ cache'[r] = Fetched(r, {row}) /\ loaded' = loaded
          /\ \A x \in Requests \ {r} : pc'[x] = pc[x] /\ cache'[x] = cache[x]
          /\ loaded[r] \subseteq Rows
      BY <1>2, GotoOthers DEF ReviewSnapshot, TypeOK
    <2>2. \A other \in loaded[r] : Exact(cache'[r][other], other, InHand(r))
      BY <1>1, <2>1 DEF Fetched, Core
    <2>3. \A other \in Rows \ (loaded[r] \cup exists) : cache'[r][other] = Empty
      BY <1>1, <2>1 DEF Fetched, Core
    <2>4. Core(r)'
      BY <1>1, <2>1, <2>2, <2>3 DEF Core, Exact
    <2>5. row \in exists => Exact(cache'[r][row], row, InHand(r))
      <3>1. CASE row \in loaded[r]
        BY <2>2, <3>1
      <3>2. CASE row \in exists \ loaded[r]
        <4>1. cache'[r][row] = db[row]
          BY <1>1, <2>1, <3>2 DEF Fetched
        <4> QED
          BY <1>1, <3>2, <4>1, UnloadedExact DEF SerialInv
      <3> QED
        BY <3>1, <3>2
    <2>6. Open(r)' /\ Ready(r)'
      BY <1>1, <2>1, <2>5 DEF Open, Ready, Exact
    <2> QED
      BY <1>1, <2>1, <2>4, <2>6, SerialMoves
  <1>3. CASE SaveReviewState(r)
    <2>1. /\ pc[r] = "save" /\ pc'[r] = "flush" /\ loaded'[r] = loaded[r] \cup ({row} \cap exists)
          /\ cache' = cache
          /\ \A x \in Requests \ {r} : pc'[x] = pc[x] /\ loaded'[x] = loaded[x]
      BY <1>3, GotoOthers DEF SaveReviewState, TypeOK
    <2>2. \A other \in loaded'[r] : Exact(cache[r][other], other, InHand(r))
      BY <1>1, <2>1 DEF Core, Ready
    <2>3. Core(r)'
      BY <1>1, <2>1, <2>2 DEF Core, Exact
    <2>4. Open(r)' /\ Ready(r)'
      BY <1>1, <2>1 DEF Open, Ready
    <2> QED
      BY <1>1, <2>1, <2>3, <2>4, SerialMoves
  <1> QED
    BY <1>2, <1>3

LEMMA FoldExact ==
  ASSUME NEW bag \in Bags, NEW s \in Submissions, NEW row, row \in Touched(s), NEW known,
         s \notin known, Exact(bag, row, known)
  PROVE  Exact(Fold(bag, s), row, known \cup {s})
  <1>1. ASSUME NEW x \in Submissions
        PROVE  Fold(bag, s)[x] = IF x \in known \cup {s} /\ row \in Touched(x) THEN 1 ELSE 0
    <2>1. CASE x = s
      BY <2>1, FoldType DEF Exact
    <2>2. CASE x # s
      BY <2>2, FoldType DEF Exact
    <2> QED
      BY <2>1, <2>2
  <1> QED
    BY <1>1 DEF Exact

LEMMA FlushSerial ==
  ASSUME TypeOK, SerialInv, CountInv, ~ overlapped, NEW r \in Requests, Flush(r)
  PROVE  SerialInv'
  <1> DEFINE s == Item(r)
  <1>1. /\ pc[r] = "flush" /\ Open(r) /\ Core(r) /\ Ready(r)
        /\ s \in Submissions /\ userOf[s] = userOf[items[r][1]] /\ Touched(s) \subseteq Rows
        /\ s \notin InHand(r)
    BY OpenRequest, OwnUser, RowsOfSubmission DEF Flush, KeyClash, CountInv, ItemIsNew, Underway, InHand
  <1>2. /\ cache'[r] = FoldOnce(r) /\ loaded'[r] = loaded[r] \cup Touched(s)
        /\ written'[r] = written[r] \cup Touched(s) /\ stored'[r] = stored[r] \cup {s}
        /\ UNCHANGED <<tables, overlapped>> /\ loaded[r] \subseteq Rows
        /\ \A x \in Requests \ {r} : loaded'[x] = loaded[x] /\ written'[x] = written[x]
                                       /\ stored'[x] = stored[x] /\ cache'[x] = cache[x]
    BY DEF Flush, TypeOK
  <1>3. InHand(r)' = InHand(r) \cup {s} /\ exists' = exists
    BY <1>2 DEF InHand, tables
  <1>4. pc'[r] \in {"commit", "check"} /\ \A x \in Requests \ {r} : pc'[x] = pc[x]
    BY ProceedsTo DEF Flush
  <1>5. ASSUME NEW row \in Touched(s)
        PROVE  cache[r][row] \in Bags /\ Exact(cache[r][row], row, InHand(r))
    <2>1. row \in {RatingRow(s), QuestionRow(s), ProfileRow(s)} => row \in loaded[r]
      BY <1>1 DEF Ready
    <2>2. ReviewRow(s) \in loaded[r] \/ ReviewRow(s) \notin exists
      BY DEF Flush, KeyClash, ReviewClash
    <2>3. row \in loaded[r] \/ row \notin exists
      BY <2>1, <2>2 DEF Touched
    <2>4. row \in Rows /\ cache[r][row] \in Bags
      BY <1>1 DEF TypeOK
    <2> QED
      BY <1>1, <2>3, <2>4, AbsentExact DEF Core
  <1>6. ASSUME NEW row \in loaded'[r]
        PROVE  Exact(cache'[r][row], row, InHand(r) \cup {s})
    <2>1. row \in Rows
      BY <1>1, <1>2
    <2>2. CASE row \in Touched(s)
      <3>1. cache'[r][row] = Fold(cache[r][row], s)
        BY <1>2, <2>1, <2>2 DEF FoldOnce
      <3> QED
        BY <1>1, <1>5, <2>2, <3>1, FoldExact
    <2>3. CASE row \notin Touched(s)
      <3>1. cache'[r][row] = cache[r][row] /\ row \in loaded[r]
        BY <1>2, <2>1, <2>3 DEF FoldOnce
      <3> QED
        BY <1>1, <2>3, <3>1 DEF Core, Exact
    <2> QED
      BY <2>2, <2>3
  <1>7. ASSUME NEW row \in Rows \ (loaded'[r] \cup exists)
        PROVE  cache'[r][row] = Empty
    BY <1>1, <1>2 DEF FoldOnce, Core
  <1>8. Core(r)'
    BY <1>1, <1>2, <1>3, <1>6, <1>7 DEF Core, Exact
  <1>9. Open(r)' /\ Ready(r)'
    BY <1>1, <1>2, <1>4 DEF Open, Ready
  <1> QED
    BY <1>1, <1>2, <1>4, <1>8, <1>9, SerialMoves

LEMMA ConflictSerial ==
  ASSUME TypeOK, SerialInv, ~ overlapped, NEW r \in Requests, Conflict(r)
  PROVE  SerialInv'
  <1>1. pc[r] = "flush" /\ Open(r)
    BY OpenRequest DEF Conflict
  <1>2. CASE Abandon(r, "error") \/ Abandon(r, "conflict")
    BY <1>1, <1>2, AbandonSerial
  <1>3. CASE IsLast(r) /\ Rollback(r) /\ Proceed(r, "conflict") /\ UNCHANGED <<tables, overlapped>>
    <2>1. pc'[r] = "commit" /\ \A x \in Requests \ {r} : pc'[x] = pc[x]
      BY <1>3 DEF Proceed, Goto, TypeOK
    <2>2. Blank(r)'
      BY <1>3, RolledBack
    <2>3. Open(r)' /\ Core(r)' /\ Ready(r)'
      BY <2>1, <2>2 DEF Blank, Open, Core, Ready, NoValues
    <2> QED
      BY <1>1, <1>3, <2>1, <2>3, RolledBack, SerialMoves
  <1> QED
    BY <1>2, <1>3 DEF Conflict

LEMMA CommitSerial ==
  ASSUME TypeOK, SerialInv, ~ overlapped, NEW r \in Requests, Commit(r)
  PROVE  SerialInv'
  <1>1. /\ pc[r] = "commit" /\ Open(r) /\ Core(r) /\ stored[r] \subseteq Submissions
    BY OpenRequest DEF Commit, TypeOK
  <1>2. /\ answers' = InHand(r) /\ exists' = exists \cup written[r] /\ overlapped' = overlapped
        /\ db' = [row \in Rows |-> IF row \in written[r] THEN cache[r][row] ELSE db[row]]
        /\ Rollback(r) /\ Goto(r, "done")
    BY DEF Commit, Respond, InHand
  <1>3. pc'[r] = "done" /\ \A x \in Requests \ {r} : pc'[x] = pc[x]
    BY <1>2, GotoOthers
  <1>4. \A x \in Requests : ~ Open(x)' /\ Blank(x)'
    <2>1. \A x \in Requests \ {r} : ~ Open(x) /\ Blank(x)
      BY <1>1 DEF SerialInv
    <2> QED
      BY <1>2, <1>3, <2>1, RolledBack DEF Open, Blank
  <1>5. Permanent \subseteq exists' /\ \A s \in answers' : Touched(s) \subseteq exists'
    BY <1>1, <1>2 DEF SerialInv, Core, InHand
  <1>6. ASSUME NEW row \in Rows
        PROVE  Exact(db'[row], row, answers')
    <2>1. CASE row \in written[r]
      BY <1>1, <1>2, <2>1 DEF Core
    <2>2. CASE row \notin written[r]
      <3>1. db'[row] = db[row] /\ Exact(db[row], row, answers)
        BY <1>2, <2>2 DEF SerialInv
      <3>2. \A s \in stored[r] : row \notin Touched(s)
        BY <1>1, <2>2 DEF Core
      <3> QED
        BY <1>2, <3>1, <3>2 DEF Exact, InHand
    <2> QED
      BY <2>1, <2>2
  <1> QED
    BY <1>4, <1>5, <1>6 DEF SerialInv, Exact

LEMMA StepSerial == TypeOK /\ CountInv /\ SerialInv /\ [Next]_vars => SerialInv'
  <1> SUFFICES ASSUME TypeOK, CountInv, SerialInv, [Next]_vars, ~ overlapped'
               PROVE  SerialInv'
    BY DEF SerialInv
  <1>1. ASSUME NEW r \in Requests, Step(r) \/ BreakDeadlock(r) \/ Crash(r)
        PROVE  overlapped' = overlapped
    BY <1>1 DEF Step, BreakDeadlock, Crash, Abandon, Replay, Lookup, Refuse, Load, CreateRating,
       ReviewSnapshot, SaveReviewState, Flush, Conflict, Commit
  <1>2. ASSUME NEW r \in Requests, BreakDeadlock(r) \/ Crash(r)
        PROVE  SerialInv'
    <2>1. Open(r)
      <3>1. CASE Crash(r)
        BY <3>1 DEF Crash
      <3>2. CASE BreakDeadlock(r)
        <4>1. \E other \in Requests : WaitsFor(r, other)
          BY <3>2 DEF BreakDeadlock, Deadlocked, Blocked
        <4> QED
          BY <4>1 DEF WaitsFor, Needed, Open
      <3> QED
        BY <1>2, <3>1, <3>2
    <2> QED
      BY <1>1, <1>2, <2>1, AbandonSerial DEF BreakDeadlock, Crash
  <1>3. ASSUME NEW r \in Requests, Step(r)
        PROVE  SerialInv'
    BY <1>1, <1>3, ReadsSerial, RefuseSerial, CreateSerial, ReviewSerial, FlushSerial,
       ConflictSerial, CommitSerial DEF Step
  <1>4. CASE UNCHANGED vars
    <2>1. \A r \in Requests : /\ (Open(r)' <=> Open(r)) /\ (Core(r)' <=> Core(r))
                              /\ (Ready(r)' <=> Ready(r)) /\ (Blank(r)' <=> Blank(r))
      BY <1>4 DEF vars, tables, session, Open, Core, Ready, Blank, Exact, InHand, Item
    <2> QED
      BY <1>4, <2>1 DEF SerialInv, vars, tables, Exact
  <1> QED
    BY <1>2, <1>3, <1>4, BeginSerial DEF Next

(* For any requests, batches, retries and cuts: as long as no two of them
   were open at once, every rating, review state, difficulty and counter is
   the fold of exactly the stored answers that concern it.                  *)
THEOREM SerialIsExact == Spec => []SerialExactness
  <1>1. SerialInv => SerialExactness
    BY DEF SerialInv, SerialExactness, Exact
  <1> QED
    BY <1>1, InitTyped, StepTyped, InitCounts, StepCounts, InitSerial, StepSerial, PTL DEF Spec
=============================================================================
