--------------------------- MODULE ServerPractice ---------------------------
(***************************************************************************)
(* The server's intake of answers: POST /practice/answer and               *)
(* POST /sync/answers (backend/app/services/practice.py), each request in  *)
(* one database transaction over an SQLAlchemy session.                    *)
(*                                                                         *)
(* PostgreSQL runs at READ COMMITTED: a read sees what is committed, a     *)
(* written row stays locked until its transaction ends, a unique key that  *)
(* another open transaction has inserted makes the inserter wait.  A flush *)
(* is one step: the locks it may already hold while it waits for the last  *)
(* one are left out.  The session keeps a row as long as something refers  *)
(* to it, computes from that copy, and writes absolute values back.        *)
(*                                                                         *)
(* Every estimate (topic rating, review state, question difficulty, answer *)
(* counter) is abstracted to the bag of submissions folded into it.  A     *)
(* retry, whatever made the client send it, is another request with the    *)
(* same items.                                                             *)
(***************************************************************************)
EXTENDS Naturals, Sequences, FiniteSets

CONSTANTS
  Submissions,   (* submission ids the clients send                        *)
  Users, Specializations, Questions, Topics,
  userOf,        (* who made a submission                                  *)
  specOf,        (* for which specialization                               *)
  questionOf,    (* the question it answers                                *)
  topicOf,       (* the section of a question                              *)
  Invalid,       (* submissions with no profile, question or usable answer *)
  Requests,      (* HTTP requests, retries included                        *)
  items,         (* the submissions of a request, by time of answer        *)
  Batches,       (* requests to /sync/answers; the rest carry one answer   *)
  MaxCrashes     (* bound: requests cut off before their response          *)

ASSUME ServerAssumption ==
  /\ userOf \in [Submissions -> Users]
  /\ specOf \in [Submissions -> Specializations]
  /\ questionOf \in [Submissions -> Questions]
  /\ topicOf \in [Questions -> Topics]
  /\ Invalid \in SUBSET Submissions
  /\ items \in [Requests -> Seq(Submissions)]
  /\ Batches \in SUBSET Requests
  /\ \A r \in Requests :
       /\ Len(items[r]) > 0
       /\ r \notin Batches => Len(items[r]) = 1
       /\ \A i \in DOMAIN items[r] : userOf[items[r][i]] = userOf[items[r][1]]
  /\ MaxCrashes \in Nat

-----------------------------------------------------------------------------
(* Rows.  Ratings and review states are inserted when first needed.        *)

RatingRow(s)   == <<"rating", userOf[s], specOf[s], topicOf[questionOf[s]]>>
ReviewRow(s)   == <<"review", userOf[s], questionOf[s]>>
QuestionRow(s) == <<"question", questionOf[s]>>
ProfileRow(s)  == <<"profile", userOf[s], specOf[s]>>

Touched(s) == {RatingRow(s), ReviewRow(s), QuestionRow(s), ProfileRow(s)}
Rows       == UNION {Touched(s) : s \in Submissions}
Permanent  == {QuestionRow(s) : s \in Submissions} \cup {ProfileRow(s) : s \in Submissions}

Bags  == [Submissions -> Nat]
Empty == [s \in Submissions |-> 0]
Fold(bag, s) == [bag EXCEPT ![s] = @ + 1]

VARIABLES
  answers,     (* committed rows of user_answers                           *)
  exists,      (* committed rows of the other tables                       *)
  db,          (* their committed values                                   *)
  pc,          (* where each request is                                    *)
  pos,         (* index of the item it is working on                       *)
  loaded,      (* rows the session holds                                   *)
  cache,       (* their values in the session                              *)
  written,     (* rows written, hence locked, by the open transaction      *)
  stored,      (* answers it has inserted                                  *)
  outcome,     (* what the batch has noted about each item                 *)
  status,      (* response to the request                                  *)
  overlapped,  (* history: have two transactions been open at once?        *)
  crashes      (* bound counter                                            *)

tables  == <<answers, exists, db>>
session == <<loaded, cache, written, stored>>
vars    == <<tables, session, pc, pos, outcome, status, overlapped, crashes>>

Places   == {"new", "check", "load", "create", "review", "save", "flush", "commit", "done"}
Outcomes == {"none", "accepted", "duplicate", "rejected", "conflict"}
Statuses == {"none", "ok", "rejected", "conflict", "error", "lost"}

TypeOK ==
  /\ answers \in SUBSET Submissions
  /\ exists \in SUBSET Rows
  /\ db \in [Rows -> Bags]
  /\ pc \in [Requests -> Places]
  /\ pos \in [Requests -> Nat]
  /\ loaded \in [Requests -> SUBSET Rows]
  /\ cache \in [Requests -> [Rows -> Bags]]
  /\ written \in [Requests -> SUBSET Rows]
  /\ stored \in [Requests -> SUBSET Submissions]
  /\ outcome \in [Requests -> [Submissions -> Outcomes]]
  /\ status \in [Requests -> Statuses]
  /\ overlapped \in BOOLEAN
  /\ crashes \in Nat
  /\ \A r \in Requests : pc[r] \notin {"commit", "done"} => pos[r] \in DOMAIN items[r]

NoRows   == [r \in Requests |-> {}]
NoValues == [row \in Rows |-> Empty]

Init ==
  /\ answers = {}
  /\ exists = Permanent
  /\ db = NoValues
  /\ pc = [r \in Requests |-> "new"]
  /\ pos = [r \in Requests |-> 1]
  /\ loaded = NoRows
  /\ cache = [r \in Requests |-> NoValues]
  /\ written = NoRows
  /\ stored = NoRows
  /\ outcome = [r \in Requests |-> [s \in Submissions |-> "none"]]
  /\ status = [r \in Requests |-> "none"]
  /\ overlapped = FALSE
  /\ crashes = 0

-----------------------------------------------------------------------------
Item(r)   == items[r][pos[r]]
Open(r)   == pc[r] \notin {"new", "done"}
IsLast(r) == pos[r] = Len(items[r])

(* The values of these rows, as far as they exist and the session does not *)
(* hold them yet, are read as committed.                                   *)
Fetched(r, rows) ==
  [row \in Rows |-> IF row \in (rows \cap exists) \ loaded[r] THEN db[row] ELSE cache[r][row]]

Read(r, rows) ==
  /\ cache' = [cache EXCEPT ![r] = Fetched(r, rows)]
  /\ loaded' = [loaded EXCEPT ![r] = @ \cup (rows \cap exists)]

Goto(r, place) == pc' = [pc EXCEPT ![r] = place]

(* The item is dealt with: on to the next one, or to the commit.           *)
ProceedPastTheEnd(r, what) ==
  /\ outcome' = [outcome EXCEPT ![r][Item(r)] = what]
  /\ pos' = [pos EXCEPT ![r] = @ + 1]
  /\ Goto(r, IF pos[r] > Len(items[r]) THEN "commit" ELSE "check")

ProceedUnlessKnown(r, what) ==
  /\ outcome' = [outcome EXCEPT ![r][Item(r)] = what]
  /\ pos' = [pos EXCEPT ![r] = IF what = "duplicate" THEN @ ELSE @ + 1]
  /\ Goto(r, IF IsLast(r) /\ what # "duplicate" THEN "commit" ELSE "check")

Proceed(r, what) ==
  /\ outcome' = [outcome EXCEPT ![r][Item(r)] = what]
  /\ pos' = [pos EXCEPT ![r] = @ + 1]
  /\ Goto(r, IF IsLast(r) THEN "commit" ELSE "check")

(* The transaction is gone with everything it wrote, the session is empty. *)
Rollback(r) ==
  /\ loaded' = [loaded EXCEPT ![r] = {}]
  /\ cache' = [cache EXCEPT ![r] = NoValues]
  /\ written' = [written EXCEPT ![r] = {}]
  /\ stored' = [stored EXCEPT ![r] = {}]

Respond(r, what) ==
  /\ Goto(r, "done")
  /\ status' = [status EXCEPT ![r] = what]

Abandon(r, what) ==
  /\ Rollback(r)
  /\ Respond(r, what)
  /\ UNCHANGED <<tables, pos, outcome, overlapped>>

(* Authentication loads the user, and with it all of the profile rows.    *)
Begin(r) ==
  /\ pc[r] = "new"
  /\ Goto(r, "check")
  /\ Read(r, {ProfileRow(s) : s \in {s \in Submissions : userOf[s] = userOf[items[r][1]]}})
  /\ overlapped' = (overlapped \/ \E other \in Requests : Open(other))
  /\ UNCHANGED <<tables, written, stored, pos, outcome, status, crashes>>

(* The submission is looked up.  A known one is replayed, without a write; *)
(* its result keeps the question in the session.                           *)
KnownToAnyone(r) == answers \cup UNION {stored[other] : other \in Requests}
Known(r) == answers \cup stored[r]

Replay(r) ==
  /\ pc[r] = "check"
  /\ Item(r) \in Known(r)
  /\ Read(r, {QuestionRow(Item(r))})
  /\ Proceed(r, "duplicate")
  /\ UNCHANGED <<tables, written, stored, status, overlapped, crashes>>

Lookup(r) ==
  /\ pc[r] = "check"
  /\ Item(r) \notin Known(r)
  /\ Goto(r, "load")
  /\ UNCHANGED <<tables, session, pos, outcome, status, overlapped, crashes>>

(* A refused item ends a request of its own and is noted in a batch.       *)
SessionRolledBack(r) == Rollback(r)
SessionGoesOn(r) == UNCHANGED session

Refuse(r) ==
  /\ pc[r] = "load"
  /\ Item(r) \in Invalid
  /\ \/ /\ r \in Batches
        /\ SessionGoesOn(r)
        /\ Proceed(r, "rejected")
        /\ UNCHANGED <<tables, status, overlapped>>
     \/ /\ r \notin Batches
        /\ Abandon(r, "rejected")
  /\ UNCHANGED crashes

(* The question is read, and the rating if there is one.                   *)
Load(r) ==
  /\ pc[r] = "load"
  /\ Item(r) \notin Invalid
  /\ Read(r, {QuestionRow(Item(r)), RatingRow(Item(r))})
  /\ Goto(r, IF RatingRow(Item(r)) \in loaded'[r] THEN "review" ELSE "create")
  /\ UNCHANGED <<tables, written, stored, pos, outcome, status, overlapped, crashes>>

(* The review state is read twice: for its values, which are computed from *)
(* and dropped, and again for the row they will be saved in.               *)
ReviewSnapshot(r) ==
  /\ pc[r] = "review"
  /\ cache' = [cache EXCEPT ![r] = Fetched(r, {ReviewRow(Item(r))})]
  /\ Goto(r, "save")
  /\ UNCHANGED <<tables, loaded, written, stored, pos, outcome, status, overlapped, crashes>>

SaveReviewState(r) ==
  /\ pc[r] = "save"
  /\ loaded' = [loaded EXCEPT ![r] = @ \cup ({ReviewRow(Item(r))} \cap exists)]
  /\ Goto(r, "flush")
  /\ UNCHANGED <<tables, cache, written, stored, pos, outcome, status, overlapped, crashes>>

-----------------------------------------------------------------------------
(* Locks.                                                                  *)

Needed(r) == CASE pc[r] = "create" -> {RatingRow(Item(r))}
               [] pc[r] = "flush"  -> Touched(Item(r))
               [] OTHER            -> {}

WaitsFor(r, other) ==
  /\ other # r
  /\ \/ Needed(r) \cap written[other] # {}
     \/ pc[r] = "flush" /\ Item(r) \in stored[other]

Blocked(r) == \E other \in Requests : WaitsFor(r, other)

(* The rating row is inserted empty, by a flush of its own outside the try *)
(* block: when the row has appeared meanwhile, nothing catches the error.  *)
CreateRating(r) ==
  LET row == RatingRow(Item(r))
  IN  /\ pc[r] = "create"
      /\ ~Blocked(r)
      /\ \/ /\ row \notin exists
            /\ loaded' = [loaded EXCEPT ![r] = @ \cup {row}]
            /\ written' = [written EXCEPT ![r] = @ \cup {row}]
            /\ Goto(r, "review")
            /\ UNCHANGED <<tables, cache, stored, pos, outcome, status, overlapped>>
         \/ /\ row \in exists
            /\ Abandon(r, "error")
      /\ UNCHANGED crashes

(* Does the flush break a unique key?  The submission was stored meanwhile, *)
(* or a review row the session means to insert was.                         *)
ReviewClash(r) == ReviewRow(Item(r)) \in exists \ loaded[r]
ReviewClashOnly(r) == ReviewClash(r)
KeyClash(r) == Item(r) \in answers \/ ReviewClash(r)

(* The answer is inserted, the estimates are written.                      *)
FoldAllButReview(r) ==
  [row \in Rows |-> IF row \in Touched(Item(r)) \ {ReviewRow(Item(r))}
                    THEN Fold(cache[r][row], Item(r)) ELSE cache[r][row]]

FoldOnce(r) ==
  [row \in Rows |-> IF row \in Touched(Item(r)) THEN Fold(cache[r][row], Item(r))
                                                ELSE cache[r][row]]

Flush(r) ==
  /\ pc[r] = "flush"
  /\ ~Blocked(r)
  /\ ~KeyClash(r)
  /\ cache' = [cache EXCEPT ![r] = FoldOnce(r)]
  /\ loaded' = [loaded EXCEPT ![r] = @ \cup Touched(Item(r))]
  /\ written' = [written EXCEPT ![r] = @ \cup Touched(Item(r))]
  /\ stored' = [stored EXCEPT ![r] = @ \cup {Item(r)}]
  /\ Proceed(r, "accepted")
  /\ UNCHANGED <<tables, status, overlapped, crashes>>

(* IntegrityError: the service rolls the whole session back and reports a  *)
(* conflict.  In a batch the next item touches the expired user and fails  *)
(* the request; the last item leaves the results gathered so far standing. *)
Conflict(r) ==
  /\ pc[r] = "flush"
  /\ ~Blocked(r)
  /\ KeyClash(r)
  /\ \/ /\ r \in Batches /\ IsLast(r)
        /\ Rollback(r)
        /\ Proceed(r, "conflict")
        /\ UNCHANGED <<tables, status, overlapped>>
     \/ /\ r \in Batches /\ ~IsLast(r)
        /\ Abandon(r, "error")
     \/ /\ r \notin Batches
        /\ Abandon(r, "conflict")
  /\ UNCHANGED crashes

Commit(r) ==
  /\ pc[r] = "commit"
  /\ answers' = answers \cup stored[r]
  /\ exists' = exists \cup written[r]
  /\ db' = [row \in Rows |-> IF row \in written[r] THEN cache[r][row] ELSE db[row]]
  /\ Rollback(r)
  /\ Respond(r, "ok")
  /\ UNCHANGED <<pos, outcome, overlapped, crashes>>

(* PostgreSQL breaks a cycle of waiting transactions by failing one.       *)
Deadlocked(r) ==
  \E S \in SUBSET {x \in Requests : Blocked(x)} :
    r \in S /\ \A x \in S : (\E y \in S : WaitsFor(x, y)) /\ (\E y \in S : WaitsFor(y, x))

BreakDeadlock(r) ==
  /\ Deadlocked(r)
  /\ Abandon(r, "error")
  /\ UNCHANGED crashes

(* The process or the connection dies before the commit.                   *)
Crash(r) ==
  /\ Open(r)
  /\ crashes < MaxCrashes
  /\ crashes' = crashes + 1
  /\ Abandon(r, "lost")

-----------------------------------------------------------------------------
Step(r) ==
  \/ Replay(r) \/ Lookup(r) \/ Refuse(r) \/ Load(r) \/ CreateRating(r)
  \/ ReviewSnapshot(r) \/ SaveReviewState(r)
  \/ Flush(r) \/ Conflict(r) \/ Commit(r)

Next == \E r \in Requests : Begin(r) \/ Step(r) \/ BreakDeadlock(r) \/ Crash(r)

Spec == Init /\ [][Next]_vars

(* Among the requests under way one makes a step, which may be the database *)
(* breaking a deadlock.                                                    *)
FairSpec == Spec /\ WF_vars(\E r \in Requests : Step(r) \/ BreakDeadlock(r))

-----------------------------------------------------------------------------
(* Properties.                                                             *)

(* No estimate takes a submission into account twice, and none one that is
   not stored, however requests overlap, repeat, fail or die.               *)
AtMostOnce ==
  \A row \in Rows, s \in Submissions :
    db[row][s] <= (IF s \in answers /\ row \in Touched(s) THEN 1 ELSE 0)

(* As long as no two transactions were open at once, every estimate is
   exactly the fold of the stored answers that concern it.                  *)
SerialExactness ==
  ~overlapped =>
    \A row \in Rows, s \in Submissions :
      db[row][s] = (IF s \in answers /\ row \in Touched(s) THEN 1 ELSE 0)

(* What a response acknowledges is stored: an answer sent alone always, an
   item of a batch unless a conflict of that batch rolled it back; an item the
   service refuses takes nothing from the others.                           *)
AcknowledgedIsStored ==
  /\ \A r \in Requests \ Batches : status[r] = "ok" => items[r][1] \in answers
  /\ \A r \in Batches, s \in Submissions :
       /\ status[r] = "ok"
       /\ outcome[r][s] \in {"accepted", "duplicate"}
       /\ \A other \in Submissions : outcome[r][other] # "conflict"
       => s \in answers

(* Every request is answered or cut off, although they wait for each other:
   in the end none is under way.                                            *)
RequestsEnd == <>[](\A r \in Requests : ~Open(r))

(* What submit_batch says: an error on one item does not bring down the
   others, so what the response calls accepted is stored
   (practice.py:509-510).                                                   *)
AcceptedIsStored ==
  \A r \in Batches, s \in Submissions :
    status[r] = "ok" /\ outcome[r][s] = "accepted" => s \in answers
=============================================================================
