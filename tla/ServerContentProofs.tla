------------------------ MODULE ServerContentProofs ------------------------
(* Proofs about ServerContent, for every set of directories, whatever they *)
(* contain, and every bound.                                               *)
EXTENDS ServerContent, TLAPS

-----------------------------------------------------------------------------
(* What the writers of questions have in common: they leave rows of the    *)
(* same columns, and a row whose fields change gets another time.          *)

DbTables == {"professions", "owner", "active", "topics", "questions", "enrolled", "answered"}
RowColumns == {"fields", "source", "difficulty", "earned", "is_verified", "links", "options",
               "updated_at"}
AreRows(rows) == \A id \in DOMAIN rows : /\ DOMAIN rows[id] = RowColumns
                                         /\ rows[id].updated_at \in Nat

(* In new every row is dated as in old, with the same fields, or at time t. *)
Dated(old, new, t) ==
  \A id \in DOMAIN new :
    \/ new[id].updated_at = t
    \/ /\ id \in DOMAIN old
       /\ new[id].updated_at = old[id].updated_at
       /\ new[id].fields = old[id].fields

(* The same rows with the same fields and times.                           *)
SameDates(old, new) ==
  /\ DOMAIN new = DOMAIN old
  /\ \A id \in DOMAIN old : /\ new[id].fields = old[id].fields
                            /\ new[id].updated_at = old[id].updated_at

LEMMA DropKeepsRows ==
  ASSUME NEW d, NEW gone, DOMAIN d = DbTables, AreRows(d.questions)
  PROVE  LET n == DropSpecializations(d, gone)
         IN  /\ DOMAIN n = DbTables /\ AreRows(n.questions)
             /\ SameDates(d.questions, n.questions)
  <1> DEFINE n == DropSpecializations(d, gone)
  <1>1. /\ DOMAIN n = DbTables
        /\ n.questions = [id \in DOMAIN d.questions |-> Unlinked(d.questions[id], gone)]
    BY DEF DropSpecializations, DbTables
  <1> HIDE DEF n
  <1>2. ASSUME NEW id \in DOMAIN d.questions
        PROVE  /\ DOMAIN n.questions[id] = RowColumns
               /\ n.questions[id].fields = d.questions[id].fields
               /\ n.questions[id].updated_at = d.questions[id].updated_at
    BY <1>1 DEF AreRows, RowColumns, Unlinked
  <1>3. QED
    BY <1>1, <1>2 DEF AreRows, SameDates, n

LEMMA TaxonomyKeepsRows ==
  ASSUME NEW d, NEW tax, DOMAIN d = DbTables, AreRows(d.questions)
  PROVE  LET n == SyncTaxonomy(d, tax)
         IN  /\ DOMAIN n = DbTables /\ AreRows(n.questions)
             /\ SameDates(d.questions, n.questions)
  <1> DEFINE ids == Range(Column(tax.professions, "id"))
             d1 == [d EXCEPT !.professions = ids]
             p == _sync_professions(d, tax)
             q == DropSpecializations(p, DOMAIN p.owner \ Known(tax))
             s == _sync_specializations(p, tax)
             n == SyncTaxonomy(d, tax)
  <1>1. DOMAIN d1 = DbTables /\ d1.questions = d.questions
    BY DEF DbTables
  <1>2. p = DropSpecializations(d1, {x \in DOMAIN d.owner : d.owner[x] \notin ids})
    BY DEF _sync_professions
  <1>3. /\ DOMAIN p = DbTables /\ AreRows(p.questions)
        /\ SameDates(d.questions, p.questions)
    <2> HIDE DEF d1, p
    <2> QED  BY <1>1, <1>2, DropKeepsRows
  <1>4. /\ DOMAIN q = DbTables /\ AreRows(q.questions)
        /\ SameDates(p.questions, q.questions)
    <2> HIDE DEF p
    <2> QED  BY <1>3, DropKeepsRows
  <1>5. DOMAIN s = DbTables /\ s.questions = q.questions
    <2>1. s = [q EXCEPT !.owner = Owner(tax), !.active = Active(tax)]
      BY DEF _sync_specializations
    <2> HIDE DEF q, s
    <2> QED  BY <1>4, <2>1 DEF DbTables
  <1>6. DOMAIN n = DbTables /\ n.questions = s.questions
    <2>1. n = [s EXCEPT !.topics = TopicRows(tax)]
      BY DEF SyncTaxonomy, _sync_topics
    <2> HIDE DEF s, n
    <2> QED  BY <1>5, <2>1 DEF DbTables
  <1> HIDE DEF p, q, s, n
  <1>7. AreRows(n.questions) /\ SameDates(d.questions, n.questions)
    BY <1>3, <1>4, <1>5, <1>6 DEF SameDates
  <1>8. QED
    BY <1>6, <1>7 DEF n

LEMMA SeededRow ==
  ASSUME NEW d, NEW q, NEW t \in Nat, AreRows(d.questions)
  PROVE  LET r == SyncedRow(d, q, t)
         IN  /\ DOMAIN r = RowColumns /\ r.updated_at \in Nat
             /\ \/ r.updated_at = t
                \/ /\ q.slug \in DOMAIN d.questions
                   /\ r.updated_at = d.questions[q.slug].updated_at
                   /\ r.fields = d.questions[q.slug].fields
  <1> DEFINE r == SyncedRow(d, q, t)
  <1>1. CASE q.slug \notin Seeded(d)
    BY <1>1 DEF SyncedRow, NewRow, RowColumns
  <1>2. CASE q.slug \in Seeded(d)
    <2> DEFINE row == d.questions[q.slug]
               a == _apply_fields(row, q, t)
               forced == q.difficulty_rating # None
               cols == [row EXCEPT !.fields = FieldsOf(q), !.source = q.source,
                             !.difficulty = IF forced THEN q.difficulty_rating ELSE @,
                             !.earned = IF forced THEN 0 ELSE @]
    <2>1. q.slug \in DOMAIN d.questions
      BY <1>2 DEF Seeded
    <2>2. DOMAIN row = RowColumns /\ row.updated_at \in Nat
      BY <2>1 DEF AreRows
    <2>3. a = IF cols = row THEN row ELSE [cols EXCEPT !.updated_at = t]
      BY DEF _apply_fields
    <2>4. DOMAIN cols = RowColumns
      <3> HIDE DEF row
      <3> QED  BY <2>2
    <2> HIDE DEF row, cols
    <2>5. /\ DOMAIN a = RowColumns
          /\ a.updated_at = t \/ (a.updated_at = row.updated_at /\ a.fields = row.fields)
      BY <2>2, <2>3, <2>4 DEF RowColumns
    <2>6. r = [a EXCEPT !.links = Range(q.specializations), !.options = q.options]
      BY <1>2 DEF SyncedRow, row
    <2> HIDE DEF a, r
    <2>7. /\ DOMAIN r = RowColumns
          /\ r.updated_at = a.updated_at /\ r.fields = a.fields
      BY <2>5, <2>6 DEF RowColumns
    <2>8. QED
      BY <2>1, <2>2, <2>5, <2>7 DEF row, r
  <1>3. QED
    BY <1>1, <1>2

LEMMA QuestionsKeepRows ==
  ASSUME NEW d, NEW incoming, NEW t \in Nat, DOMAIN d = DbTables, AreRows(d.questions)
  PROVE  LET n == SyncQuestions(d, incoming, t)
         IN  /\ DOMAIN n = DbTables /\ AreRows(n.questions)
             /\ Dated(d.questions, n.questions, t)
  <1> DEFINE slugs == Range(Column(incoming, "slug"))
             stale == Seeded(d) \ slugs
             of(id) == CHOOSE q \in Range(incoming) : q.slug = id
             n == SyncQuestions(d, incoming, t)
  <1>1. /\ DOMAIN n = DbTables
        /\ n.questions = [id \in (DOMAIN d.questions \ stale) \cup slugs |->
                            IF id \in slugs THEN SyncedRow(d, of(id), t) ELSE d.questions[id]]
    <2> HIDE DEF slugs, stale
    <2> QED  BY DEF SyncQuestions, DbTables, slugs, stale
  <1>2. ASSUME NEW id \in slugs
        PROVE  of(id).slug = id
    <2>1. PICK i \in DOMAIN incoming : id = incoming[i].slug
      BY DEF Range, Column
    <2>2. \E q \in Range(incoming) : q.slug = id
      BY <2>1 DEF Range
    <2>3. QED
      BY <2>2
  <1> HIDE DEF slugs, stale, of, n
  <1>3. ASSUME NEW id \in DOMAIN n.questions
        PROVE  /\ DOMAIN n.questions[id] = RowColumns
               /\ n.questions[id].updated_at \in Nat
               /\ \/ n.questions[id].updated_at = t
                  \/ /\ id \in DOMAIN d.questions
                     /\ n.questions[id].updated_at = d.questions[id].updated_at
                     /\ n.questions[id].fields = d.questions[id].fields
    <2>1. CASE id \in slugs
      <3>1. n.questions[id] = SyncedRow(d, of(id), t) /\ of(id).slug = id
        BY <1>1, <1>2, <2>1
      <3>2. QED
        BY <3>1, SeededRow
    <2>2. CASE id \notin slugs
      BY <1>1, <2>2 DEF AreRows
    <2>3. QED
      BY <2>1, <2>2
  <1>4. QED
    BY <1>1, <1>3 DEF AreRows, Dated, n
-----------------------------------------------------------------------------
(* The inductive invariant.  A transaction stamps a time no row has, and   *)
(* a package never misses a row, at no moment, for two reasons: the client *)
(* has it or the mark is older (Kept), and, while a response is under way, *)
(* the response or the copies not replaced by it have it, or the new mark  *)
(* is older (Coming).                                                      *)

Aside(id) == id \in unseen.late \cup unseen.silent

Kept ==
  phone.since # 0 =>
    \A id \in DOMAIN db.questions :
      LET row == db.questions[id]
      IN  PhoneSpec \in row.links =>
            \/ id \in DOMAIN phone.has /\ phone.has[id] = SyncQuestionOut(row)
            \/ row.updated_at > phone.since
            \/ Aside(id)

Coming ==
  phone.sent # None =>
    \A id \in DOMAIN db.questions :
      LET row == db.questions[id]
      IN  PhoneSpec \in row.links =>
            \/ id \in DOMAIN phone.sent /\ phone.sent[id] = SyncQuestionOut(row)
            \/ id \notin DOMAIN phone.sent /\ id \in DOMAIN phone.has /\ phone.has[id] = SyncQuestionOut(row)
            \/ row.updated_at > phone.mark
            \/ Aside(id)

(* The time t is of no row yet.                                            *)
Fresh(t) == t \in Nat /\ t <= now /\ \A id \in DOMAIN db.questions : db.questions[id].updated_at # t

Clock ==
  /\ now \in Nat /\ phone.since \in Nat /\ phone.mark \in Nat
  /\ phone.since <= now /\ phone.mark <= now
  /\ phone.mark # 0 => phone.since < phone.mark
  /\ phone.sent # None => phone.mark # 0
  /\ \A id \in DOMAIN db.questions : db.questions[id].updated_at <= now
  /\ seed # None => Fresh(seed)
  /\ answering # None => Fresh(answering.began)
  /\ seed # None /\ answering # None => seed # answering.began

PhoneFields == {"since", "mark", "sent", "has"}
Shapes == /\ DOMAIN db = DbTables /\ AreRows(db.questions)
          /\ DOMAIN phone = PhoneFields

IInv == Shapes /\ Clock /\ Kept /\ Coming

(* A row whose fields change gets another time, none later than now.       *)
Redated(old, new) ==
  \A id \in DOMAIN new :
    /\ new[id].updated_at <= now
    /\ id \in DOMAIN old /\ new[id].updated_at = old[id].updated_at
         => new[id].fields = old[id].fields

LEMMA StampRedates ==
  ASSUME IInv, NEW t, Fresh(t), NEW new, Dated(db.questions, new, t)
  PROVE  Redated(db.questions, new)
  BY DEF IInv, Clock, Fresh, Dated, Redated

LEMMA SameRedates ==
  ASSUME IInv, NEW new, SameDates(db.questions, new)
  PROVE  Redated(db.questions, new)
  BY DEF IInv, Clock, SameDates, Redated

(* One write of questions keeps what packages miss accounted for.          *)
LEMMA WriteKeeps ==
  ASSUME IInv, AreRows(db'.questions), Redated(db.questions, db'.questions),
         unseen' = Noted(db'.questions), phone' = phone
  PROVE  Kept' /\ Coming'
  <1> DEFINE new == db'.questions
             old == db.questions
             mark == IF phone.mark # 0 THEN phone.mark ELSE phone.since
             written == {id \in DOMAIN new : id \notin DOMAIN old
                                      \/ new[id].updated_at # old[id].updated_at}
             next == {id \in written : new[id].updated_at > mark}
             aside == {id \in DOMAIN new \ written :
                    /\ new[id].fields = old[id].fields
                    /\ \/ new[id].options # old[id].options
                       \/ new[id].links # old[id].links
                       \/ new[id].is_verified # old[id].is_verified}
  <1>1. unseen' = [late   |-> (unseen.late \ next) \cup (written \ next),
                   silent |-> (unseen.silent \ next) \cup aside]
    BY DEF Noted
  <1>2. \A id \in DOMAIN new : new[id].updated_at \in Nat /\ new[id].updated_at <= now
    BY DEF AreRows, Redated
  <1>3. /\ mark \in Nat /\ phone.since \in Nat /\ phone.since <= mark
        /\ phone.mark \in Nat /\ (phone.sent # None => phone.mark = mark)
    BY DEF IInv, Clock
  <1> HIDE DEF mark
  <1>4. ASSUME NEW id \in DOMAIN new
        PROVE  \/ new[id].updated_at > mark
               \/ Aside(id)'
               \/ /\ id \in DOMAIN old
                  /\ new[id].updated_at = old[id].updated_at
                  /\ SyncQuestionOut(new[id]) = SyncQuestionOut(old[id])
                  /\ new[id].links = old[id].links
                  /\ Aside(id) => Aside(id)'
    <2>1. CASE id \in written
      BY <1>1, <2>1 DEF Aside
    <2>2. CASE id \notin written
      <3>1. id \in DOMAIN old /\ new[id].updated_at = old[id].updated_at
        BY <2>2
      <3>2. new[id].fields = old[id].fields
        BY <3>1 DEF Redated
      <3>3. CASE id \in aside
        BY <1>1, <3>3 DEF Aside
      <3>4. CASE id \notin aside
        <4>1. /\ new[id].options = old[id].options /\ new[id].links = old[id].links
              /\ new[id].is_verified = old[id].is_verified
          BY <2>2, <3>2, <3>4
        <4>2. Aside(id) => Aside(id)'
          BY <1>1, <2>2 DEF Aside
        <4>3. QED
          BY <3>1, <3>2, <4>1, <4>2 DEF SyncQuestionOut
      <3>5. QED
        BY <3>3, <3>4
    <2>3. QED
      BY <2>1, <2>2
  <1> HIDE DEF written, next, aside
  <1>5. Kept'
    BY <1>2, <1>3, <1>4 DEF IInv, Kept
  <1>6. Coming'
    BY <1>2, <1>3, <1>4 DEF IInv, Coming
  <1>7. QED
    BY <1>5, <1>6

LEMMA InitHolds == Init => IInv
  <1>1. SUFFICES ASSUME Init PROVE IInv
    OBVIOUS
  <1>2. DOMAIN db = DbTables /\ db.questions = <<>>
    BY <1>1 DEF Init, DbTables
  <1>3. /\ DOMAIN phone = PhoneFields
        /\ phone.since = 0 /\ phone.mark = 0 /\ phone.sent = None
    BY <1>1 DEF Init, PhoneFields
  <1>4. DOMAIN db.questions = {}
    BY <1>2
  <1>5. Shapes /\ Kept /\ Coming
    BY <1>2, <1>3, <1>4 DEF Shapes, AreRows, Kept, Coming
  <1>6. Clock
    BY <1>1, <1>3, <1>4 DEF Clock, Init
  <1>7. QED
    BY <1>5, <1>6 DEF IInv

(* A transaction begins at the time now + 1, which no row and no other     *)
(* transaction has.                                                        *)
LEMMA Begins ==
  ASSUME IInv
  PROVE  /\ now + 1 \in Nat
         /\ \A id \in DOMAIN db.questions : db.questions[id].updated_at <= now + 1
         /\ \A id \in DOMAIN db.questions : db.questions[id].updated_at # now + 1
         /\ \A t : Fresh(t) => t # now + 1
  BY DEF IInv, Clock, Shapes, AreRows, Fresh

LEMMA DeployKeeps == ASSUME IInv, NEW c, Deploy(c) PROVE IInv'
  <1>1. CASE Overlap
    BY <1>1 DEF Deploy, IInv, Shapes, Clock, Kept, Coming, Fresh, Aside
  <1>2. CASE ~ Overlap
    <2>1. /\ db' = db /\ now' = now /\ unseen' = unseen /\ seed' = None /\ answering' = None
          /\ phone' = [phone EXCEPT !.mark = 0, !.sent = None]
      BY <1>2 DEF Deploy
    <2>2. /\ DOMAIN phone' = PhoneFields /\ phone'.mark = 0 /\ phone'.sent = None
          /\ phone'.since = phone.since /\ phone'.has = phone.has
      BY <2>1 DEF IInv, Shapes, PhoneFields
    <2>3. QED
      BY <2>1, <2>2 DEF IInv, Shapes, Clock, Kept, Coming, Aside
  <1>3. QED
    BY <1>1, <1>2

LEMMA TaxonomyKeeps == ASSUME IInv, seed_taxonomy PROVE IInv'
  <1>1. CASE db' = SyncTaxonomy(db, content.tax) /\ unseen' = Noted(db'.questions)
    <2>1. now' = now /\ seed' = seed /\ answering' = answering /\ phone' = phone
      BY DEF seed_taxonomy
    <2>2. /\ DOMAIN db' = DbTables /\ AreRows(db'.questions)
          /\ SameDates(db.questions, db'.questions)
      BY <1>1, TaxonomyKeepsRows DEF IInv, Shapes
    <2>3. Kept' /\ Coming'
      BY <1>1, <2>1, <2>2, SameRedates, WriteKeeps
    <2>4. Clock'
      BY <2>1, <2>2 DEF IInv, Clock, Fresh, SameDates
    <2>5. Shapes'
      BY <2>1, <2>2 DEF IInv, Shapes
    <2>6. QED
      BY <2>3, <2>4, <2>5 DEF IInv
  <1>2. CASE UNCHANGED <<db, unseen>>
    BY <1>2 DEF seed_taxonomy, IInv, Shapes, Clock, Kept, Coming, Fresh, Aside
  <1>3. QED
    BY <1>1, <1>2 DEF seed_taxonomy

LEMMA QuestionsKeep == ASSUME IInv, seed_questions \/ CommitQuestions PROVE IInv'
  <1>1. CASE seed_questions
    <2>1. /\ UNCHANGED <<db, answering, phone, unseen>>
          /\ \/ seed' = now + 1 /\ now' = now + 1
             \/ UNCHANGED <<seed, now>>
      BY <1>1 DEF seed_questions
    <2>2. CASE UNCHANGED <<seed, now>>
      BY <2>1, <2>2 DEF IInv, Shapes, Clock, Kept, Coming, Fresh, Aside
    <2>3. CASE seed' = now + 1 /\ now' = now + 1
      <3>1. Clock'
        BY <2>1, <2>3, Begins DEF IInv, Clock, Fresh
      <3>2. QED
        BY <2>1, <3>1 DEF IInv, Shapes, Kept, Coming, Aside
    <2>4. QED
      BY <2>1, <2>2, <2>3
  <1>2. CASE CommitQuestions
    <2>1. /\ seed # None /\ seed' = None
          /\ now' = now /\ answering' = answering /\ phone' = phone
          /\ \/ /\ db' = SyncQuestions(db, Incoming(content), seed)
                /\ unseen' = Noted(db'.questions)
             \/ UNCHANGED <<db, unseen>>
      BY <1>2 DEF CommitQuestions
    <2>2. CASE UNCHANGED <<db, unseen>>
      BY <2>1, <2>2 DEF IInv, Shapes, Clock, Kept, Coming, Fresh, Aside
    <2>3. CASE /\ db' = SyncQuestions(db, Incoming(content), seed)
               /\ unseen' = Noted(db'.questions)
      <3>1. Fresh(seed) /\ seed \in Nat
        BY <2>1 DEF IInv, Clock, Fresh
      <3>2. /\ DOMAIN db' = DbTables /\ AreRows(db'.questions)
            /\ Dated(db.questions, db'.questions, seed)
        BY <2>3, <3>1, QuestionsKeepRows DEF IInv, Shapes
      <3>3. Kept' /\ Coming'
        BY <2>1, <2>3, <3>1, <3>2, StampRedates, WriteKeeps
      <3>4. Clock'
        BY <2>1, <3>1, <3>2 DEF IInv, Clock, Fresh, Dated
      <3>5. QED
        BY <2>1, <3>2, <3>3, <3>4 DEF IInv, Shapes
    <2>4. QED
      BY <2>1, <2>2, <2>3
  <1>3. QED
    BY <1>1, <1>2

LEMMA EnrolKeeps == ASSUME IInv, NEW s, Enrol(s) PROVE IInv'
  <1>1. /\ now' = now /\ seed' = seed /\ answering' = answering /\ phone' = phone
        /\ unseen' = unseen /\ db' = [db EXCEPT !.enrolled = @ \cup {s}]
    BY DEF Enrol
  <1>2. DOMAIN db' = DbTables /\ db'.questions = db.questions
    BY <1>1 DEF IInv, Shapes, DbTables
  <1>3. QED
    BY <1>1, <1>2 DEF IInv, Shapes, Clock, Kept, Coming, Fresh, Aside

LEMMA VerifyKeeps == ASSUME IInv, NEW id \in DOMAIN db.questions, Verify(id) PROVE IInv'
  <1>1. /\ now' = now /\ seed' = seed /\ answering' = answering /\ phone' = phone
        /\ unseen' = Noted(db'.questions)
        /\ db' = [db EXCEPT !.questions[id].is_verified = TRUE]
    BY DEF Verify
  <1>2. /\ DOMAIN db' = DbTables
        /\ db'.questions = [db.questions EXCEPT ![id].is_verified = TRUE]
    BY <1>1 DEF IInv, Shapes, DbTables
  <1>3. AreRows(db'.questions) /\ SameDates(db.questions, db'.questions)
    <2> HIDE DEF Noted
    <2>1. AreRows(db.questions)
      BY DEF IInv, Shapes
    <2>2. DOMAIN db'.questions = DOMAIN db.questions
      BY <1>2
    <2>3. ASSUME NEW j \in DOMAIN db.questions
          PROVE  /\ DOMAIN db'.questions[j] = RowColumns
                 /\ db'.questions[j].updated_at = db.questions[j].updated_at
                 /\ db'.questions[j].fields = db.questions[j].fields
      BY <1>2, <2>1 DEF AreRows, RowColumns
    <2>4. QED
      BY <2>1, <2>2, <2>3 DEF AreRows, SameDates
  <1>4. Kept' /\ Coming'
    BY <1>1, <1>3, SameRedates, WriteKeeps
  <1>5. Clock'
    BY <1>1, <1>3 DEF IInv, Clock, Fresh, SameDates
  <1>6. QED
    BY <1>1, <1>2, <1>3, <1>4, <1>5 DEF IInv, Shapes

LEMMA AnswerKeeps ==
  ASSUME IInv, (\E id, s : BeginAnswer(id, s)) \/ (\E moved \in BOOLEAN : CommitAnswer(moved))
  PROVE  IInv'
  <1>1. ASSUME NEW id, NEW s, BeginAnswer(id, s)  PROVE IInv'
    <2>1. /\ UNCHANGED <<seed, db, phone, unseen>> /\ now' = now + 1
          /\ answering'.began = now + 1
      BY <1>1 DEF BeginAnswer
    <2>2. Clock'
      BY <2>1, Begins DEF IInv, Clock, Fresh
    <2>3. QED
      BY <2>1, <2>2 DEF IInv, Shapes, Kept, Coming, Aside
  <1>2. ASSUME NEW moved \in BOOLEAN, CommitAnswer(moved)  PROVE IInv'
    <2> DEFINE q == answering.question
               t == answering.began
    <2>1. /\ answering # None /\ answering' = None
          /\ UNCHANGED <<seed, now, phone>>
          /\ \/ UNCHANGED <<db, unseen>>
             \/ /\ q \in DOMAIN db.questions
                /\ unseen' = Noted(db'.questions)
                /\ db' = [db EXCEPT
                     !.answered = @ \cup {[question |-> q, specialization |-> answering.specialization]},
                     !.questions[q] = IF moved THEN Moved(@, t) ELSE @]
      BY <1>2 DEF CommitAnswer
    <2>2. CASE UNCHANGED <<db, unseen>>
      BY <2>1, <2>2 DEF IInv, Shapes, Clock, Kept, Coming, Fresh, Aside
    <2>3. CASE /\ q \in DOMAIN db.questions
               /\ unseen' = Noted(db'.questions)
               /\ db' = [db EXCEPT
                    !.answered = @ \cup {[question |-> q, specialization |-> answering.specialization]},
                    !.questions[q] = IF moved THEN Moved(@, t) ELSE @]
      <3>1. /\ DOMAIN db' = DbTables
            /\ db'.questions = [db.questions EXCEPT ![q] = IF moved THEN Moved(@, t) ELSE @]
        <4> HIDE DEF q, t
        <4> QED  BY <2>3 DEF IInv, Shapes, DbTables
      <3>2. Fresh(t)
        BY <2>1 DEF IInv, Clock
      <3>3. AreRows(db.questions)
        BY DEF IInv, Shapes
      <3> HIDE DEF q, t
      <3>4. DOMAIN db'.questions = DOMAIN db.questions
        BY <3>1
      <3>5. ASSUME NEW j \in DOMAIN db.questions
            PROVE  /\ DOMAIN db'.questions[j] = RowColumns
                   /\ db'.questions[j].updated_at \in Nat
                   /\ \/ db'.questions[j].updated_at = t
                      \/ /\ db'.questions[j].updated_at = db.questions[j].updated_at
                         /\ db'.questions[j].fields = db.questions[j].fields
        BY <3>1, <3>2, <3>3 DEF AreRows, RowColumns, Moved, Fresh
      <3>6. AreRows(db'.questions) /\ Dated(db.questions, db'.questions, t)
        BY <3>4, <3>5 DEF AreRows, Dated
      <3>7. Kept' /\ Coming'
        BY <2>1, <2>3, <3>2, <3>6, StampRedates, WriteKeeps
      <3>8. Clock'
        BY <2>1, <3>2, <3>6 DEF IInv, Clock, Fresh, Dated, t
      <3>9. QED
        BY <2>1, <3>1, <3>6, <3>7, <3>8 DEF IInv, Shapes
    <2>4. QED
      BY <2>1, <2>2, <2>3
  <1>3. QED
    BY <1>1, <1>2

LEMMA PackageKeeps ==
  ASSUME IInv, question_package \/ ReadPackage \/ ReceivePackage \/ LosePackage
  PROVE  IInv'
  <1>1. CASE question_package
    <2>1. /\ UNCHANGED <<seed, db, answering, unseen>> /\ now' = now + 1
          /\ phone.mark = 0 /\ phone' = [phone EXCEPT !.mark = now + 1]
      BY <1>1 DEF question_package
    <2>2. /\ DOMAIN phone' = PhoneFields /\ phone'.mark = now + 1 /\ phone'.sent = phone.sent
          /\ phone'.since = phone.since /\ phone'.has = phone.has
      BY <2>1 DEF IInv, Shapes, PhoneFields
    <2>3. Clock' /\ Coming'
      BY <2>1, <2>2 DEF IInv, Clock, Shapes, AreRows, Coming, Fresh
    <2>4. QED
      BY <2>1, <2>2, <2>3 DEF IInv, Shapes, Kept, Aside
  <1>2. CASE ReadPackage
    <2> DEFINE read == Package(phone.since)
               sent == [id \in read |-> SyncQuestionOut(db.questions[id])]
    <2>1. /\ UNCHANGED <<seed, db, now, answering>> /\ phone.mark # 0
          /\ phone' = [phone EXCEPT !.sent = sent]
          /\ unseen' = [late |-> unseen.late \ read, silent |-> unseen.silent \ read]
      BY <1>2 DEF ReadPackage
    <2>2. /\ DOMAIN phone' = PhoneFields /\ phone'.mark = phone.mark /\ phone'.sent = sent
          /\ phone'.since = phone.since /\ phone'.has = phone.has
      <3> HIDE DEF sent
      <3> QED  BY <2>1 DEF IInv, Shapes, PhoneFields
    <2>3. ASSUME NEW id \in DOMAIN db.questions, PhoneSpec \in db.questions[id].links
          PROVE  \/ id \in read
                 \/ /\ id \notin read /\ phone.since # 0
                    /\ ~ db.questions[id].updated_at > phone.since
                    /\ Aside(id) => Aside(id)'
      BY <2>1, <2>3 DEF Package, Aside
    <2>4. read \subseteq DOMAIN db.questions
      BY DEF Package
    <2>5. ASSUME NEW id \in read
          PROVE  phone.since = 0 \/ db.questions[id].updated_at > phone.since
      BY DEF Package
    <2> HIDE DEF read
    <2>6. Kept'
      BY <2>1, <2>2, <2>3, <2>5 DEF IInv, Kept
    <2>7. Coming'
      BY <2>1, <2>2, <2>3 DEF IInv, Kept, Coming
    <2>8. Clock'
      BY <2>1, <2>2 DEF IInv, Clock, Fresh
    <2>9. QED
      BY <2>1, <2>2, <2>6, <2>7, <2>8 DEF IInv, Shapes
  <1>3. CASE ReceivePackage
    <2>1. /\ UNCHANGED <<seed, db, now, answering, unseen>> /\ phone.sent # None
          /\ phone' = [since |-> phone.mark, mark |-> 0, sent |-> None,
                       has |-> Filed(phone.sent, phone.has)]
      BY <1>3 DEF ReceivePackage
    <2>2. Kept'
      BY <2>1 DEF IInv, Coming, Kept, Aside, Filed
    <2>3. Clock' /\ Coming' /\ Shapes'
      BY <2>1 DEF IInv, Clock, Coming, Shapes, PhoneFields, Fresh
    <2>4. QED
      BY <2>2, <2>3 DEF IInv
  <1>4. CASE LosePackage
    <2>1. /\ UNCHANGED <<seed, db, now, answering, unseen>>
          /\ phone' = [phone EXCEPT !.mark = 0, !.sent = None]
      BY <1>4 DEF LosePackage
    <2>2. /\ DOMAIN phone' = PhoneFields /\ phone'.mark = 0 /\ phone'.sent = None
          /\ phone'.since = phone.since /\ phone'.has = phone.has
      BY <2>1 DEF IInv, Shapes, PhoneFields
    <2>3. QED
      BY <2>1, <2>2 DEF IInv, Shapes, Clock, Kept, Coming, Fresh, Aside
  <1>5. QED
    BY <1>1, <1>2, <1>3, <1>4

LEMMA StepKeeps == IInv /\ [Next]_vars => IInv'
  <1> SUFFICES ASSUME IInv, [Next]_vars PROVE IInv'
    OBVIOUS
  <1>1. CASE UNCHANGED vars
    <2>1. UNCHANGED <<seed, db, now, answering, phone, unseen>>
      BY <1>1 DEF vars
    <2>2. QED
      BY <2>1 DEF IInv, Shapes, Clock, Kept, Coming, Fresh, Aside
  <1>2. CASE \E c \in Contents : Deploy(c)
    BY <1>2, DeployKeeps
  <1>3. CASE seed_taxonomy
    BY <1>3, TaxonomyKeeps
  <1>4. CASE seed_questions \/ CommitQuestions
    BY <1>4, QuestionsKeep
  <1>5. CASE \E s \in DOMAIN db.owner : Enrol(s)
    BY <1>5, EnrolKeeps
  <1>6. CASE \E id \in DOMAIN db.questions : Verify(id)
    BY <1>6, VerifyKeeps
  <1>7. CASE \/ \E id, s : BeginAnswer(id, s)
             \/ \E moved \in BOOLEAN : CommitAnswer(moved)
    BY <1>7, AnswerKeeps
  <1>8. CASE question_package \/ ReadPackage \/ ReceivePackage \/ LosePackage
    BY <1>8, PackageKeeps
  <1>9. QED
    BY <1>1, <1>2, <1>3, <1>4, <1>5, <1>6, <1>7, <1>8 DEF Next

(* services/practice.py:475-477, for every sequence of images, answers and *)
(* packages: what the server shows of a question and the client does not   *)
(* have is in its next package, or one of the two known reasons holds.     *)
THEOREM NothingMissed == Spec => []PackageMissesNothing
  <1>1. IInv => PackageMissesNothing
    BY DEF IInv, Kept, Aside, PackageMissesNothing
  <1>2. QED
    BY <1>1, InitHolds, StepKeeps, PTL DEF Spec

-----------------------------------------------------------------------------
(* The keys.                                                               *)

(* What refers to specializations and questions refers to rows.            *)
Referred(d) ==
  /\ d.enrolled \subseteq DOMAIN d.owner
  /\ \A id \in DOMAIN d.questions : d.questions[id].links \subseteq DOMAIN d.owner
  /\ \A a \in d.answered : a.question \in DOMAIN d.questions /\ a.specialization \in DOMAIN d.owner

LEMMA DropKeepsKeys ==
  ASSUME NEW d, NEW gone, DOMAIN d = DbTables, AreRows(d.questions), Referred(d)
  PROVE  LET n == DropSpecializations(d, gone)
         IN  Referred(n) /\ DOMAIN n.owner = DOMAIN d.owner \ gone
  <1> DEFINE n == DropSpecializations(d, gone)
  <1>1. /\ n.owner = Restrict(d.owner, DOMAIN d.owner \ gone)
        /\ n.enrolled = d.enrolled \ gone
        /\ n.answered = {a \in d.answered : a.specialization \notin gone}
        /\ n.questions = [id \in DOMAIN d.questions |-> Unlinked(d.questions[id], gone)]
    BY DEF DropSpecializations, DbTables
  <1> HIDE DEF n
  <1>2. DOMAIN n.owner = DOMAIN d.owner \ gone
    BY <1>1 DEF Restrict
  <1>3. \A id \in DOMAIN d.questions : n.questions[id].links = d.questions[id].links \ gone
    BY <1>1 DEF AreRows, RowColumns, Unlinked
  <1>4. DOMAIN n.questions = DOMAIN d.questions
    BY <1>1
  <1>5. n.enrolled \subseteq DOMAIN n.owner
    BY <1>1, <1>2 DEF Referred
  <1>6. \A id \in DOMAIN n.questions : n.questions[id].links \subseteq DOMAIN n.owner
    BY <1>2, <1>3, <1>4 DEF Referred
  <1>7. \A a \in n.answered : a.question \in DOMAIN n.questions /\ a.specialization \in DOMAIN n.owner
    BY <1>1, <1>2, <1>4 DEF Referred
  <1>8. Referred(n)
    BY <1>5, <1>6, <1>7 DEF Referred
  <1>9. QED
    BY <1>2, <1>8 DEF n

LEMMA TaxonomyKeepsKeys ==
  ASSUME IInv, TypeOK, NEW tax, TaxonomyFile(tax), db' = SyncTaxonomy(db, tax)
  PROVE  TypeOK'
  <1> DEFINE ids == Range(Column(tax.professions, "id"))
             d1 == [db EXCEPT !.professions = ids]
             p == _sync_professions(db, tax)
             q == DropSpecializations(p, DOMAIN p.owner \ Known(tax))
             s == _sync_specializations(p, tax)
             n == SyncTaxonomy(db, tax)
  <1>1. DOMAIN db = DbTables /\ AreRows(db.questions) /\ Referred(db)
    BY DEF IInv, Shapes, TypeOK, Referred
  <1>2. /\ DOMAIN d1 = DbTables /\ d1.professions = ids /\ d1.questions = db.questions
        /\ d1.owner = db.owner /\ d1.enrolled = db.enrolled /\ d1.answered = db.answered
    BY <1>1 DEF DbTables
  <1>3. Referred(d1) /\ AreRows(d1.questions)
    BY <1>1, <1>2 DEF Referred
  <1>4. p = DropSpecializations(d1, {x \in DOMAIN db.owner : db.owner[x] \notin ids})
    BY DEF _sync_professions
  <1>5. DOMAIN p = DbTables /\ AreRows(p.questions) /\ Referred(p) /\ p.professions = ids
    <2> HIDE DEF d1
    <2>1. p.professions = d1.professions
      BY <1>2, <1>4 DEF DropSpecializations, DbTables
    <2> HIDE DEF p
    <2>2. QED
      BY <1>2, <1>3, <1>4, <2>1, DropKeepsRows, DropKeepsKeys
  <1>6. /\ DOMAIN q = DbTables /\ Referred(q) /\ q.professions = ids
        /\ DOMAIN q.owner \subseteq Known(tax)
    <2> HIDE DEF p
    <2>1. q.professions = p.professions
      BY <1>5 DEF DropSpecializations, DbTables
    <2>2. QED
      BY <1>5, <2>1, DropKeepsRows, DropKeepsKeys
  <1>7. s = [q EXCEPT !.owner = Owner(tax), !.active = Active(tax)]
    BY DEF _sync_specializations
  <1>8. n = [s EXCEPT !.topics = TopicRows(tax)]
    BY DEF SyncTaxonomy, _sync_topics
  <1> HIDE DEF ids, d1, p, q, s, n
  <1>9. /\ n.owner = Owner(tax) /\ n.active = Active(tax) /\ n.topics = TopicRows(tax)
        /\ n.professions = ids /\ n.enrolled = q.enrolled /\ n.answered = q.answered
        /\ n.questions = q.questions
    BY <1>6, <1>7, <1>8 DEF DbTables
  <1>10. DOMAIN n.owner = Known(tax)
    BY <1>9 DEF Owner
  <1>11. Referred(n)
    BY <1>6, <1>9, <1>10 DEF Referred
  <1>12. Range(n.owner) \subseteq n.professions
    <2>1. SUFFICES ASSUME NEW x \in Known(tax)
                   PROVE  Owner(tax)[x] \in ids
      BY <1>9, <1>10 DEF Range
    <2>2. PICK l \in Listed(tax) : l.id = x /\ Owner(tax)[x] = l.profession
      BY DEF Known, Owner
    <2>3. PICK r \in Range(tax.professions) : l.profession = r.id
      BY DEF Listed
    <2>4. QED
      BY <2>2, <2>3 DEF ids, Range, Column
  <1>13. DOMAIN n.topics \cup n.active \subseteq DOMAIN n.owner
    BY <1>9, <1>10 DEF TopicRows, TaxonomyFile, Active, Known
  <1>14. QED
    BY <1>11, <1>12, <1>13 DEF TypeOK, Referred, n

LEMMA QuestionsKeepKeys ==
  ASSUME IInv, TypeOK, CommitQuestions
  PROVE  TypeOK'
  <1> DEFINE incoming == Incoming(content)
             slugs == Range(Column(incoming, "slug"))
             stale == Seeded(db) \ slugs
             of(id) == CHOOSE q \in Range(incoming) : q.slug = id
             n == SyncQuestions(db, incoming, seed)
  <1>1. CASE UNCHANGED db
    BY <1>1 DEF TypeOK
  <1>2. CASE db' = n /\ ~ LinksMissing(db, incoming)
    <2>1. DOMAIN db = DbTables /\ AreRows(db.questions) /\ Referred(db)
      BY DEF IInv, Shapes, TypeOK, Referred
    <2>2. /\ n.questions = [id \in (DOMAIN db.questions \ stale) \cup slugs |->
                 IF id \in slugs THEN SyncedRow(db, of(id), seed) ELSE db.questions[id]]
          /\ n.answered = {a \in db.answered : a.question \notin stale}
          /\ n.professions = db.professions /\ n.owner = db.owner /\ n.active = db.active
          /\ n.topics = db.topics /\ n.enrolled = db.enrolled
      <3> HIDE DEF slugs, stale, incoming
      <3> QED  BY <2>1 DEF SyncQuestions, DbTables, slugs, stale
    <2>3. ASSUME NEW id \in slugs
          PROVE  of(id) \in Range(incoming) /\ of(id).slug = id
      <3>1. PICK i \in DOMAIN incoming : id = incoming[i].slug
        BY DEF Range, Column
      <3>2. \E q \in Range(incoming) : q.slug = id
        BY <3>1 DEF Range
      <3>3. QED
        BY <3>2
    <2>4. ASSUME NEW q \in Range(incoming)
          PROVE  SyncedRow(db, q, seed).links \subseteq DOMAIN db.owner
      <3>1. CASE q.slug \in Seeded(db)
        <4> DEFINE a == _apply_fields(db.questions[q.slug], q, seed)
        <4>1. SyncedRow(db, q, seed) = [a EXCEPT !.links = Range(q.specializations), !.options = q.options]
          BY <3>1 DEF SyncedRow
        <4>2. "links" \in DOMAIN a
          BY <2>1, <3>1 DEF _apply_fields, AreRows, RowColumns, Seeded
        <4> HIDE DEF a
        <4>3. SyncedRow(db, q, seed).links = Range(q.specializations)
          BY <4>1, <4>2
        <4>4. q.slug \in DOMAIN db.questions
          BY <3>1 DEF Seeded
        <4>5. QED
          BY <1>2, <2>1, <4>3, <4>4 DEF LinksMissing, Referred
      <3>2. CASE q.slug \notin Seeded(db)
        <4>1. SyncedRow(db, q, seed).links = Range(q.specializations)
          BY <3>2 DEF SyncedRow, NewRow
        <4>2. QED
          BY <1>2, <3>2, <4>1 DEF LinksMissing
      <3>3. QED
        BY <3>1, <3>2
    <2> HIDE DEF slugs, stale, of, n, incoming
    <2>5. \A id \in DOMAIN n.questions : n.questions[id].links \subseteq DOMAIN n.owner
      BY <2>1, <2>2, <2>3, <2>4 DEF Referred
    <2>6. \A a \in n.answered : a.question \in DOMAIN n.questions /\ a.specialization \in DOMAIN n.owner
      BY <2>1, <2>2 DEF Referred
    <2>7. QED
      BY <1>2, <2>2, <2>5, <2>6 DEF TypeOK
  <1>3. QED
    BY <1>1, <1>2 DEF CommitQuestions

(* The foreign keys of the content and of what users have of it hold after *)
(* every seed and every commit, whatever the files move or take away.      *)
THEOREM RowsAreKeyed == Spec => []TypeOK
  <1>1. Init => TypeOK
    BY DEF Init, TypeOK, Range
  <1>2. IInv /\ TypeOK /\ [Next]_vars => TypeOK'
    <2> SUFFICES ASSUME IInv, TypeOK, [Next]_vars PROVE TypeOK'
      OBVIOUS
    <2>1. CASE UNCHANGED db
      BY <2>1 DEF TypeOK
    <2>2. CASE seed_taxonomy
      <3>1. CASE UNCHANGED db
        BY <3>1 DEF TypeOK
      <3>2. CASE TaxonomyFile(content.tax) /\ db' = SyncTaxonomy(db, content.tax)
        BY <3>2, TaxonomyKeepsKeys
      <3>3. QED
        BY <2>2, <3>1, <3>2 DEF seed_taxonomy
    <2>3. CASE CommitQuestions
      BY <2>3, QuestionsKeepKeys
    <2>4. ASSUME NEW s \in DOMAIN db.owner, Enrol(s)  PROVE TypeOK'
      <3>1. db' = [db EXCEPT !.enrolled = @ \cup {s}]
        BY <2>4 DEF Enrol
      <3>2. QED
        BY <3>1 DEF IInv, Shapes, DbTables, TypeOK
    <2>5. ASSUME NEW id \in DOMAIN db.questions, Verify(id)  PROVE TypeOK'
      <3>1. db' = [db EXCEPT !.questions[id].is_verified = TRUE]
        BY <2>5 DEF Verify
      <3>2. /\ db'.questions = [db.questions EXCEPT ![id].is_verified = TRUE]
            /\ db'.owner = db.owner /\ db'.professions = db.professions /\ db'.topics = db.topics
            /\ db'.active = db.active /\ db'.enrolled = db.enrolled /\ db'.answered = db.answered
        BY <3>1 DEF IInv, Shapes, DbTables
      <3>3. /\ DOMAIN db'.questions = DOMAIN db.questions
            /\ \A j \in DOMAIN db.questions : db'.questions[j].links = db.questions[j].links
        BY <3>2 DEF IInv, Shapes, AreRows, RowColumns
      <3>4. QED
        BY <3>2, <3>3 DEF TypeOK
    <2>6. ASSUME NEW moved \in BOOLEAN, CommitAnswer(moved)  PROVE TypeOK'
      <3> DEFINE q == answering.question
                 a == [question |-> q, specialization |-> answering.specialization]
                 t == answering.began
      <3>1. CASE UNCHANGED db
        BY <3>1 DEF TypeOK
      <3>2. CASE /\ q \in DOMAIN db.questions /\ answering.specialization \in db.enrolled
                 /\ db' = [db EXCEPT !.answered = @ \cup {a},
                                     !.questions[q] = IF moved THEN Moved(@, t) ELSE @]
        <4> HIDE DEF q, t
        <4>1. a.question = q /\ a.specialization = answering.specialization
          OBVIOUS
        <4> HIDE DEF a
        <4>2. /\ db'.questions = [db.questions EXCEPT ![q] = IF moved THEN Moved(@, t) ELSE @]
              /\ db'.answered = db.answered \cup {a}
              /\ db'.owner = db.owner /\ db'.professions = db.professions /\ db'.topics = db.topics
              /\ db'.active = db.active /\ db'.enrolled = db.enrolled
          BY <3>2 DEF IInv, Shapes, DbTables
        <4>3. /\ DOMAIN db'.questions = DOMAIN db.questions
              /\ \A j \in DOMAIN db.questions : db'.questions[j].links = db.questions[j].links
          BY <4>2 DEF IInv, Shapes, AreRows, RowColumns, Moved
        <4>4. QED
          BY <3>2, <4>1, <4>2, <4>3 DEF TypeOK
      <3>3. QED
        BY <2>6, <3>1, <3>2 DEF CommitAnswer
    <2>7. QED
      BY <2>1, <2>2, <2>3, <2>4, <2>5, <2>6
         DEF Next, vars, Deploy, seed_questions, BeginAnswer, question_package, ReadPackage,
             ReceivePackage, LosePackage
  <1>3. Spec => []IInv
    BY StepKeeps, InitHolds, PTL DEF Spec
  <1>4. QED
    BY <1>1, <1>2, <1>3, PTL DEF Spec

-----------------------------------------------------------------------------
(* What a start takes from users.                                          *)

(* What the answers have made of a difficulty is a number of them.         *)
Earnings == \A id \in DOMAIN db.questions : db.questions[id].earned \in Nat

(* The same rows but for their links.                                      *)
SameButLinks(old, new) ==
  /\ DOMAIN new = DOMAIN old
  /\ \A id \in DOMAIN old : /\ new[id].is_verified = old[id].is_verified
                            /\ new[id].earned = old[id].earned

LEMMA DropTakes ==
  ASSUME NEW d, NEW gone, DOMAIN d = DbTables, AreRows(d.questions)
  PROVE  LET n == DropSpecializations(d, gone)
         IN  /\ n.enrolled = d.enrolled \ gone
             /\ n.answered = {a \in d.answered : a.specialization \notin gone}
             /\ DOMAIN n.owner = DOMAIN d.owner \ gone
             /\ \A s \in DOMAIN n.owner : n.owner[s] = d.owner[s]
             /\ SameButLinks(d.questions, n.questions)
  <1> DEFINE n == DropSpecializations(d, gone)
  <1>1. /\ n.owner = Restrict(d.owner, DOMAIN d.owner \ gone)
        /\ n.enrolled = d.enrolled \ gone
        /\ n.answered = {a \in d.answered : a.specialization \notin gone}
        /\ n.questions = [id \in DOMAIN d.questions |-> Unlinked(d.questions[id], gone)]
    BY DEF DropSpecializations, DbTables
  <1> HIDE DEF n
  <1>2. ASSUME NEW id \in DOMAIN d.questions
        PROVE  /\ n.questions[id].is_verified = d.questions[id].is_verified
               /\ n.questions[id].earned = d.questions[id].earned
    BY <1>1 DEF AreRows, RowColumns, Unlinked
  <1>3. /\ DOMAIN n.owner = DOMAIN d.owner \ gone
        /\ \A s \in DOMAIN n.owner : n.owner[s] = d.owner[s]
    BY <1>1 DEF Restrict
  <1>4. QED
    BY <1>1, <1>2, <1>3 DEF SameButLinks, n

LEMMA TaxonomySpares ==
  ASSUME IInv, Earnings, db' = SyncTaxonomy(db, content.tax)
  PROVE  Earnings' /\ EnrolmentsSpared /\ AnswersSpared /\ RowsSpared
  <1> DEFINE tax == content.tax
             ids == Range(Column(tax.professions, "id"))
             gone == {x \in DOMAIN db.owner : db.owner[x] \notin ids}
             d1 == [db EXCEPT !.professions = ids]
             p == _sync_professions(db, tax)
             left == DOMAIN p.owner \ Known(tax)
             q == DropSpecializations(p, left)
             s == _sync_specializations(p, tax)
             n == SyncTaxonomy(db, tax)
  <1>1. DOMAIN db = DbTables /\ AreRows(db.questions)
    BY DEF IInv, Shapes
  <1>2. /\ DOMAIN d1 = DbTables /\ d1.questions = db.questions /\ d1.owner = db.owner
        /\ d1.enrolled = db.enrolled /\ d1.answered = db.answered
    BY <1>1 DEF DbTables
  <1>3. p = DropSpecializations(d1, gone)
    BY DEF _sync_professions
  <1>4. /\ DOMAIN p = DbTables /\ AreRows(p.questions)
        /\ p.enrolled = db.enrolled \ gone
        /\ p.answered = {a \in db.answered : a.specialization \notin gone}
        /\ DOMAIN p.owner = DOMAIN db.owner \ gone
        /\ SameButLinks(db.questions, p.questions)
    <2> HIDE DEF d1, p, gone
    <2> QED  BY <1>1, <1>2, <1>3, DropKeepsRows, DropTakes
  <1>5. /\ DOMAIN q = DbTables
        /\ q.enrolled = p.enrolled \ left
        /\ q.answered = {a \in p.answered : a.specialization \notin left}
        /\ SameButLinks(p.questions, q.questions)
    <2> HIDE DEF p, left
    <2> QED  BY <1>4, DropKeepsRows, DropTakes
  <1>6. s = [q EXCEPT !.owner = Owner(tax), !.active = Active(tax)]
    BY DEF _sync_specializations
  <1>7. n = [s EXCEPT !.topics = TopicRows(tax)]
    BY DEF SyncTaxonomy, _sync_topics
  <1>8. gone \cup left \subseteq DroppedSpecs
    <2>1. left \subseteq DOMAIN db.owner
      BY <1>4
    <2> HIDE DEF p
    <2>2. QED
      BY <2>1 DEF DroppedSpecs
  <1> HIDE DEF gone, left, d1, p, q, s, n
  <1>9. /\ n.enrolled = q.enrolled /\ n.answered = q.answered /\ n.questions = q.questions
    BY <1>5, <1>6, <1>7 DEF DbTables
  <1>10. db' = n
    BY DEF n
  <1>11. EnrolmentsSpared /\ AnswersSpared
    BY <1>4, <1>5, <1>8, <1>9, <1>10 DEF EnrolmentsSpared, AnswersSpared
  <1>12. SameButLinks(db.questions, db'.questions)
    BY <1>4, <1>5, <1>9, <1>10 DEF SameButLinks
  <1>13. QED
    BY <1>11, <1>12 DEF SameButLinks, RowsSpared, Earnings

LEMMA SyncedSpares ==
  ASSUME NEW d, NEW q, NEW t, AreRows(d.questions), q.slug \in Seeded(d)
  PROVE  LET r == SyncedRow(d, q, t)
             row == d.questions[q.slug]
         IN  /\ r.is_verified = row.is_verified
             /\ r.earned = row.earned \/ (r.earned = 0 /\ q.difficulty_rating # None)
  <1> DEFINE r == SyncedRow(d, q, t)
             row == d.questions[q.slug]
             a == _apply_fields(row, q, t)
             forced == q.difficulty_rating # None
             cols == [row EXCEPT !.fields = FieldsOf(q), !.source = q.source,
                           !.difficulty = IF forced THEN q.difficulty_rating ELSE @,
                           !.earned = IF forced THEN 0 ELSE @]
  <1>1. DOMAIN row = RowColumns
    BY DEF AreRows, Seeded
  <1>2. a = IF cols = row THEN row ELSE [cols EXCEPT !.updated_at = t]
    BY DEF _apply_fields
  <1>3. r = [a EXCEPT !.links = Range(q.specializations), !.options = q.options]
    BY DEF SyncedRow
  <1> HIDE DEF row, r, a
  <1>4. /\ DOMAIN cols = RowColumns /\ cols.is_verified = row.is_verified
        /\ cols.earned = IF forced THEN 0 ELSE row.earned
    BY <1>1 DEF RowColumns
  <1> HIDE DEF cols, forced
  <1>5. /\ DOMAIN a = RowColumns /\ a.is_verified = row.is_verified
        /\ a.earned = row.earned \/ (a.earned = 0 /\ forced)
    BY <1>1, <1>2, <1>4 DEF RowColumns
  <1>6. r.is_verified = a.is_verified /\ r.earned = a.earned
    BY <1>3, <1>5 DEF RowColumns
  <1>7. QED
    BY <1>5, <1>6 DEF forced, r, row

LEMMA QuestionsSpare ==
  ASSUME IInv, Earnings, CommitQuestions
  PROVE  Earnings' /\ EnrolmentsSpared /\ AnswersSpared /\ RowsSpared
  <1> DEFINE incoming == Incoming(content)
             slugs == Range(Column(incoming, "slug"))
             stale == Seeded(db) \ slugs
             of(id) == CHOOSE q \in Range(incoming) : q.slug = id
             n == SyncQuestions(db, incoming, seed)
  <1>1. CASE UNCHANGED db
    BY <1>1 DEF Earnings, EnrolmentsSpared, AnswersSpared, RowsSpared
  <1>2. CASE db' = n /\ ~ QuestionConflict(db, incoming)
    <2>1. DOMAIN db = DbTables /\ AreRows(db.questions)
      BY DEF IInv, Shapes
    <2>2. /\ n.questions = [id \in (DOMAIN db.questions \ stale) \cup slugs |->
                 IF id \in slugs THEN SyncedRow(db, of(id), seed) ELSE db.questions[id]]
          /\ n.answered = {a \in db.answered : a.question \notin stale}
          /\ n.enrolled = db.enrolled
      <3> HIDE DEF slugs, stale, incoming
      <3> QED  BY <2>1 DEF SyncQuestions, DbTables, slugs, stale
    <2>3. ASSUME NEW id \in slugs
          PROVE  of(id) \in Range(incoming) /\ of(id).slug = id
      <3>1. PICK i \in DOMAIN incoming : id = incoming[i].slug
        BY DEF Range, Column
      <3>2. \E q \in Range(incoming) : q.slug = id
        BY <3>1 DEF Range
      <3>3. QED
        BY <3>2
    <2>4. slugs \cap DOMAIN db.questions \subseteq Seeded(db)
      BY <1>2 DEF QuestionConflict
    <2>5. EnrolmentsSpared /\ AnswersSpared
      BY <1>2, <2>2 DEF EnrolmentsSpared, AnswersSpared
    <2> HIDE DEF slugs, stale, of, n, incoming
    <2>6. ASSUME NEW id \in DOMAIN db'.questions, id \notin slugs
          PROVE  id \in DOMAIN db.questions /\ db'.questions[id] = db.questions[id]
      BY <1>2, <2>2, <2>6
    <2>7. ASSUME NEW id \in slugs, id \in DOMAIN db.questions
          PROVE  /\ db'.questions[id].is_verified = db.questions[id].is_verified
                 /\ \/ db'.questions[id].earned = db.questions[id].earned
                    \/ /\ db'.questions[id].earned = 0
                       /\ of(id).difficulty_rating # None
      <3>1. of(id).slug = id /\ id \in Seeded(db)
        BY <2>3, <2>4, <2>7
      <3>2. db'.questions[id] = SyncedRow(db, of(id), seed)
        BY <1>2, <2>2
      <3>3. QED
        BY <2>1, <3>1, <3>2, SyncedSpares
    <2>8. ASSUME NEW id \in slugs, id \notin DOMAIN db.questions
          PROVE  db'.questions[id].earned = 0
      <3>1. of(id).slug = id /\ id \notin Seeded(db)
        BY <2>3, <2>8 DEF Seeded
      <3>2. db'.questions[id] = SyncedRow(db, of(id), seed)
        BY <1>2, <2>2
      <3>3. QED
        BY <3>1, <3>2 DEF SyncedRow, NewRow
    <2>9. Earnings'
      BY <2>6, <2>7, <2>8 DEF Earnings
    <2>10. RowsSpared
      <3>1. SUFFICES ASSUME NEW id \in DOMAIN db.questions, id \in DOMAIN db'.questions
                     PROVE  /\ db.questions[id].is_verified => db'.questions[id].is_verified
                            /\ db'.questions[id].earned < db.questions[id].earned =>
                                 \E q \in Range(incoming) : q.slug = id /\ q.difficulty_rating # None
        BY DEF RowsSpared, incoming
      <3>2. db.questions[id].earned \in Nat
        BY DEF Earnings
      <3>3. CASE id \notin slugs
        BY <2>6, <3>1, <3>2, <3>3
      <3>4. CASE id \in slugs
        BY <2>3, <2>7, <3>2, <3>4
      <3>5. QED
        BY <3>3, <3>4
    <2>11. QED
      BY <2>5, <2>9, <2>10
  <1>3. QED
    BY <1>1, <1>2 DEF CommitQuestions

(* A start of the container takes from users only what the directory       *)
(* dropped; no confirmation is lost, and what answers have made of a       *)
(* difficulty only where the file sets it, for every set of directories.   *)
THEOREM StartsSpareUsers == Spec => SeedSparesUsers
  <1> DEFINE Spared == EnrolmentsSpared /\ AnswersSpared /\ RowsSpared
  <1>1. Init => Earnings
    BY DEF Init, Earnings
  <1>2. IInv /\ Earnings /\ [Next]_vars => Earnings' /\ [Spared]_vars
    <2> SUFFICES ASSUME IInv, Earnings, [Next]_vars PROVE Earnings' /\ [Spared]_vars
      OBVIOUS
    <2>1. CASE UNCHANGED db
      BY <2>1 DEF Earnings, EnrolmentsSpared, AnswersSpared, RowsSpared
    <2>2. CASE seed_taxonomy
      <3>1. CASE db' = SyncTaxonomy(db, content.tax)
        BY <3>1, TaxonomySpares
      <3>2. QED
        BY <2>1, <2>2, <3>1 DEF seed_taxonomy
    <2>3. CASE CommitQuestions
      BY <2>3, QuestionsSpare
    <2>4. ASSUME NEW s \in DOMAIN db.owner, Enrol(s)  PROVE Earnings' /\ Spared
      <3>1. db' = [db EXCEPT !.enrolled = @ \cup {s}]
        BY <2>4 DEF Enrol
      <3>2. /\ db'.enrolled = db.enrolled \cup {s} /\ db'.answered = db.answered
            /\ db'.questions = db.questions
        BY <3>1 DEF IInv, Shapes, DbTables
      <3>3. QED
        BY <3>2 DEF Earnings, EnrolmentsSpared, AnswersSpared, RowsSpared
    <2>5. ASSUME NEW id \in DOMAIN db.questions, Verify(id)  PROVE Earnings' /\ Spared
      <3>1. db' = [db EXCEPT !.questions[id].is_verified = TRUE]
        BY <2>5 DEF Verify
      <3>2. /\ db'.questions = [db.questions EXCEPT ![id].is_verified = TRUE]
            /\ db'.enrolled = db.enrolled /\ db'.answered = db.answered
        BY <3>1 DEF IInv, Shapes, DbTables
      <3>3. /\ DOMAIN db'.questions = DOMAIN db.questions
            /\ \A j \in DOMAIN db.questions :
                 /\ db'.questions[j].earned = db.questions[j].earned
                 /\ db.questions[j].is_verified => db'.questions[j].is_verified
        BY <3>2 DEF IInv, Shapes, AreRows, RowColumns
      <3>4. QED
        BY <3>2, <3>3 DEF Earnings, EnrolmentsSpared, AnswersSpared, RowsSpared
    <2>6. ASSUME NEW moved \in BOOLEAN, CommitAnswer(moved)  PROVE Earnings' /\ Spared
      <3> DEFINE q == answering.question
                 a == [question |-> q, specialization |-> answering.specialization]
                 t == answering.began
      <3>1. CASE UNCHANGED db
        BY <3>1 DEF Earnings, EnrolmentsSpared, AnswersSpared, RowsSpared
      <3>2. CASE /\ q \in DOMAIN db.questions
                 /\ db' = [db EXCEPT !.answered = @ \cup {a},
                                     !.questions[q] = IF moved THEN Moved(@, t) ELSE @]
        <4> HIDE DEF q, t, a
        <4>1. /\ db'.questions = [db.questions EXCEPT ![q] = IF moved THEN Moved(@, t) ELSE @]
              /\ db'.answered = db.answered \cup {a} /\ db'.enrolled = db.enrolled
          BY <3>2 DEF IInv, Shapes, DbTables
        <4>2. ASSUME NEW j \in DOMAIN db.questions
              PROVE  /\ db'.questions[j].is_verified = db.questions[j].is_verified
                     /\ db'.questions[j].earned \in Nat
                     /\ db'.questions[j].earned >= db.questions[j].earned
          <5> DEFINE row == db.questions[j]
          <5>1. DOMAIN row = RowColumns /\ row.earned \in Nat
            BY DEF IInv, Shapes, AreRows, Earnings
          <5>2. db'.questions[j] = row \/ db'.questions[j] = Moved(row, t)
            BY <4>1
          <5> HIDE DEF row
          <5>3. /\ Moved(row, t).earned = row.earned + 1
                /\ Moved(row, t).is_verified = row.is_verified
            BY <5>1 DEF Moved, RowColumns
          <5>4. QED
            BY <5>1, <5>2, <5>3 DEF row
        <4>3. DOMAIN db'.questions = DOMAIN db.questions
          BY <4>1
        <4>4. QED
          BY <4>1, <4>2, <4>3 DEF Earnings, EnrolmentsSpared, AnswersSpared, RowsSpared
      <3>3. QED
        BY <2>6, <3>1, <3>2 DEF CommitAnswer
    <2>7. QED
      BY <2>1, <2>2, <2>3, <2>4, <2>5, <2>6
         DEF Next, vars, Deploy, seed_questions, BeginAnswer, question_package, ReadPackage,
             ReceivePackage, LosePackage
  <1>3. Spec => []IInv
    BY StepKeeps, InitHolds, PTL DEF Spec
  <1>4. QED
    BY <1>1, <1>2, <1>3, PTL DEF Spec, SeedSparesUsers
-----------------------------------------------------------------------------
(* A container that serves.  Between the commit of its seeds and the next  *)
(* deployment nothing touches what the seeds have written of the           *)
(* directory: the tables of the taxonomy, and of the rows of its questions *)
(* the columns, options, links and source the files give.                  *)

IsFn(f) == f = [x \in DOMAIN f |-> f[x]]
Functional(d) == /\ DOMAIN d = DbTables /\ IsFn(d) /\ IsFn(d.questions)
                 /\ \A id \in DOMAIN d.questions :
                      DOMAIN d.questions[id] = RowColumns /\ IsFn(d.questions[id])

Shows(row, q) == /\ row.fields = FieldsOf(q) /\ row.source = q.source
                 /\ row.links = Range(q.specializations) /\ row.options = q.options

Loaded ==
  /\ TaxonomyFile(content.tax) /\ ~ TaxonomyConflict(content.tax)
  /\ db.professions = Range(Column(content.tax.professions, "id"))
  /\ db.owner = Owner(content.tax) /\ db.active = Active(content.tax)
  /\ db.topics = TopicRows(content.tax)

Synced ==
  /\ collect_files(content)
  /\ reject_duplicates(Column(Incoming(content), "slug"))
  /\ Seeded(db) = {q.slug : q \in {r \in Range(Incoming(content)) : r.source = "seed"}}
  /\ \A q \in Range(Incoming(content)) :
       q.slug \in DOMAIN db.questions /\ Shows(db.questions[q.slug], q)

ContentInv ==
  /\ content \in Contents
  /\ Functional(db)
  /\ stage \in {"taxonomy", "serving"} => Loaded
  /\ seed # None => stage = "taxonomy" /\ collect_files(content)
  /\ stage = "serving" => Synced

-----------------------------------------------------------------------------
(* The questions of the files.                                             *)

LEMMA IncomingAre ==
  ASSUME NEW dir, NEW q \in Range(Incoming(dir))
  PROVE  \E f \in Range(dir.files) : q \in Range(f)
  <1>1. PICK at \in DOMAIN Incoming(dir) : q = Incoming(dir)[at]
    BY DEF Range
  <1>2. PICK f \in DOMAIN dir.files : at \in {f} \X DOMAIN dir.files[f]
    BY <1>1 DEF Incoming
  <1>3. q = dir.files[f][at[2]] /\ at[2] \in DOMAIN dir.files[f]
    BY <1>1, <1>2 DEF Incoming
  <1> QED
    BY <1>2, <1>3 DEF Range

LEMMA OneOfEachSlug ==
  ASSUME NEW seq, reject_duplicates(Column(seq, "slug")), NEW p \in Range(seq), NEW q \in Range(seq),
         p.slug = q.slug
  PROVE  p = q
  <1>1. PICK i \in DOMAIN seq : p = seq[i]
    BY DEF Range
  <1>2. PICK j \in DOMAIN seq : q = seq[j]
    BY DEF Range
  <1>3. i = j
    BY <1>1, <1>2 DEF reject_duplicates, IsInjective, Column
  <1> QED
    BY <1>1, <1>2, <1>3

LEMMA SlugsOf ==
  ASSUME NEW seq
  PROVE  Range(Column(seq, "slug")) = {q.slug : q \in Range(seq)}
  BY DEF Range, Column

(* What a seed leaves of a row is what the file says of it; where the file *)
(* sets no difficulty, a second seed changes nothing.                      *)
LEMMA SyncedShows ==
  ASSUME NEW d, NEW q, NEW t, Functional(d)
  PROVE  LET r == SyncedRow(d, q, t)
         IN  Shows(r, q) /\ IsFn(r) /\ DOMAIN r = RowColumns
  <1> DEFINE r == SyncedRow(d, q, t)
             row == d.questions[q.slug]
             a == _apply_fields(row, q, t)
             forced == q.difficulty_rating # None
             columns == [row EXCEPT !.fields = FieldsOf(q), !.source = q.source,
                             !.difficulty = IF forced THEN q.difficulty_rating ELSE @,
                             !.earned = IF forced THEN 0 ELSE @]
  <1>1. CASE q.slug \notin Seeded(d)
    <2>1. r = NewRow(q, t)
      BY <1>1 DEF SyncedRow
    <2> HIDE DEF r
    <2>2. Shows(r, q) /\ DOMAIN r = RowColumns
      BY <2>1 DEF NewRow, Shows, RowColumns
    <2>3. IsFn(r)
      BY <2>1 DEF NewRow, IsFn
    <2> QED
      BY <2>2, <2>3 DEF r
  <1>2. CASE q.slug \in Seeded(d)
    <2>1. DOMAIN row = RowColumns /\ IsFn(row)
      BY <1>2 DEF Seeded, Functional
    <2>2. a = IF columns = row THEN row ELSE [columns EXCEPT !.updated_at = t]
      BY DEF _apply_fields
    <2>3. r = [a EXCEPT !.links = Range(q.specializations), !.options = q.options]
      BY <1>2 DEF SyncedRow
    <2> HIDE DEF row, a, r
    <2>4. DOMAIN columns = RowColumns /\ columns.fields = FieldsOf(q) /\ columns.source = q.source
      BY <2>1 DEF RowColumns
    <2> HIDE DEF columns
    <2>5. DOMAIN a = RowColumns /\ a.fields = FieldsOf(q) /\ a.source = q.source
      BY <2>2, <2>4 DEF RowColumns
    <2>6. Shows(r, q) /\ DOMAIN r = RowColumns
      BY <2>3, <2>5 DEF Shows, RowColumns
    <2>7. IsFn(r)
      BY <2>3 DEF IsFn
    <2> QED
      BY <2>6, <2>7 DEF r
  <1> QED
    BY <1>1, <1>2

LEMMA SyncedAgain ==
  ASSUME NEW d, NEW q, NEW t, Functional(d), q.slug \in Seeded(d),
         Shows(d.questions[q.slug], q), q.difficulty_rating = None
  PROVE  SyncedRow(d, q, t) = d.questions[q.slug]
  <1> DEFINE row == d.questions[q.slug]
             forced == q.difficulty_rating # None
             columns == [row EXCEPT !.fields = FieldsOf(q), !.source = q.source,
                             !.difficulty = IF forced THEN q.difficulty_rating ELSE @,
                             !.earned = IF forced THEN 0 ELSE @]
  <1>1. DOMAIN row = RowColumns /\ IsFn(row)
    BY DEF Seeded, Functional
  <1>2. _apply_fields(row, q, t) = IF columns = row THEN row ELSE [columns EXCEPT !.updated_at = t]
    BY DEF _apply_fields
  <1>3. SyncedRow(d, q, t) = [_apply_fields(row, q, t) EXCEPT
          !.links = Range(q.specializations), !.options = q.options]
    BY DEF SyncedRow
  <1>4. Shows(row, q)
    OBVIOUS
  <1> HIDE DEF row
  <1>5. columns = row
    BY <1>1, <1>4 DEF IsFn, Shows
  <1>6. [row EXCEPT !.links = Range(q.specializations), !.options = q.options] = row
    BY <1>1, <1>4 DEF IsFn, Shows
  <1> QED
    BY <1>2, <1>3, <1>5, <1>6 DEF row
-----------------------------------------------------------------------------
(* The taxonomy of a file that lists no key twice.                         *)

LEMMA OneListing ==
  ASSUME NEW tax, ~ TaxonomyConflict(tax), NEW l \in Listed(tax), l.is_active \in BOOLEAN
  PROVE  /\ l.id \in Known(tax) /\ Owner(tax)[l.id] = l.profession
         /\ l.is_active = (l.id \in Active(tax))
  <1>1. \A m \in Listed(tax) : m.id = l.id => m = l
    BY DEF TaxonomyConflict
  <1>2. l.id \in Known(tax)
    BY DEF Known
  <1>3. (CHOOSE m \in Listed(tax) : m.id = l.id) = l
    BY <1>1
  <1>4. l.is_active <=> l.id \in Active(tax)
    BY <1>1 DEF Active
  <1>5. Owner(tax)[l.id] = l.profession
    BY <1>2, <1>3 DEF Owner
  <1>6. l.is_active = (l.id \in Active(tax))
    BY <1>4
  <1> QED
    BY <1>2, <1>5, <1>6

(* The tree of the API is the tree of the bundle.                          *)
LEMMA TreesAgree ==
  ASSUME NEW tax, ~ TaxonomyConflict(tax), \A l \in Listed(tax) : l.is_active \in BOOLEAN,
         NEW d, d.professions = Range(Column(tax.professions, "id")), d.owner = Owner(tax),
         d.active = Active(tax), d.topics = TopicRows(tax)
  PROVE  get_taxonomy(d) = taxonomy_payload(tax)
  <1> DEFINE specs(p) == UNION {Range(r.specializations) : r \in {q \in Range(tax.professions) : q.id = p}}
             Shown(s, active) == [id |-> s, is_active |-> active,
                                  topics |-> visible_topics(TopicRows(tax), s, active)]
             tree(p) == {Shown(s, s \in Active(tax)) : s \in {s \in Known(tax) : Owner(tax)[s] = p}}
             payload(p) == {Shown(s.id, s.is_active) : s \in specs(p)}
  <1>1. ASSUME NEW p, NEW s \in specs(p)
        PROVE  [id |-> s.id, is_active |-> s.is_active, profession |-> p] \in Listed(tax)
    <2>1. PICK r \in Range(tax.professions) : r.id = p /\ s \in Range(r.specializations)
      OBVIOUS
    <2> DEFINE l(x, y) == [id |-> x.id, is_active |-> x.is_active, profession |-> y.id]
    <2>2. l(s, r) \in {l(x, r) : x \in Range(r.specializations)}
      BY <2>1
    <2>3. {l(x, r) : x \in Range(r.specializations)} \in
            {{l(x, y) : x \in Range(y.specializations)} : y \in Range(tax.professions)}
      BY <2>1
    <2>4. l(s, r) \in UNION {{l(x, y) : x \in Range(y.specializations)} : y \in Range(tax.professions)}
      BY <2>2, <2>3, Zenon
    <2> QED
      BY <2>1, <2>4 DEF Listed
  <1>2. ASSUME NEW p, NEW l \in Listed(tax), l.profession = p
        PROVE  \E s \in specs(p) : s.id = l.id /\ s.is_active = l.is_active
    <2>1. PICK r \in Range(tax.professions) : \E s \in Range(r.specializations) :
            l = [id |-> s.id, is_active |-> s.is_active, profession |-> r.id]
      BY DEF Listed
    <2>2. PICK s \in Range(r.specializations) :
            l = [id |-> s.id, is_active |-> s.is_active, profession |-> r.id]
      BY <2>1
    <2>3. r.id = p /\ s.id = l.id /\ s.is_active = l.is_active
      BY <1>2, <2>2
    <2>4. s \in specs(p)
      BY <2>3
    <2> QED
      BY <2>3, <2>4
  <1> HIDE DEF specs, Shown
  <1>3. ASSUME NEW p PROVE payload(p) \subseteq tree(p)
    <2>1. SUFFICES ASSUME NEW s \in specs(p) PROVE Shown(s.id, s.is_active) \in tree(p)
      OBVIOUS
    <2> DEFINE l == [id |-> s.id, is_active |-> s.is_active, profession |-> p]
    <2>2. l \in Listed(tax) /\ l.id = s.id /\ l.is_active = s.is_active /\ l.profession = p
      BY <1>1
    <2> HIDE DEF l
    <2>3. s.id \in Known(tax) /\ Owner(tax)[s.id] = p /\ s.is_active = (s.id \in Active(tax))
      BY <2>2, OneListing
    <2> QED
      BY <2>3
  <1>4. ASSUME NEW p PROVE tree(p) \subseteq payload(p)
    <2>1. SUFFICES ASSUME NEW s \in Known(tax), Owner(tax)[s] = p
                   PROVE  Shown(s, s \in Active(tax)) \in payload(p)
      OBVIOUS
    <2>2. PICK l \in Listed(tax) : l.id = s
      BY DEF Known
    <2>3. l.profession = p /\ l.is_active = (s \in Active(tax))
      BY <2>1, <2>2, OneListing
    <2>4. PICK r \in specs(p) : r.id = l.id /\ r.is_active = l.is_active
      BY <1>2, <2>3
    <2> QED
      BY <2>2, <2>3, <2>4
  <1>5. \A p : tree(p) = payload(p)
    BY <1>3, <1>4
  <1>6. DOMAIN d.owner = Known(tax)
    BY DEF Owner
  <1>7. get_taxonomy(d) = [p \in Range(Column(tax.professions, "id")) |-> tree(p)]
    BY <1>6 DEF get_taxonomy, Shown
  <1>8. taxonomy_payload(tax) = [p \in Range(Column(tax.professions, "id")) |-> payload(p)]
    BY DEF taxonomy_payload, specs, Shown
  <1> HIDE DEF tree, payload
  <1> QED
    BY <1>5, <1>7, <1>8

(* A question the check against the taxonomy lets pass is about a section  *)
(* and a subsection of every specialization it names.                      *)
LEMMA SectionsExist ==
  ASSUME NEW tax, TaxonomyFile(tax), NEW q, index_check(TaxonomyIndex(tax), q),
         NEW s \in Range(q.specializations)
  PROVE  /\ s \in DOMAIN TopicRows(tax)
         /\ q.topic \in DOMAIN TopicRows(tax)[s]
         /\ q.subtopic \in TopicRows(tax)[s][q.topic].subtopics \cup {None}
  <1> DEFINE rows == tax.topics[s]
             codes == Range(Column(rows, "code"))
             found == {u \in Range(rows) : u.code = q.topic}
             t == CHOOSE u \in Range(rows) : u.code = q.topic
  <1>1. s \in DOMAIN tax.topics /\ reject_duplicates(Column(rows, "code"))
    BY DEF index_check, TaxonomyIndex, TaxonomyFile
  <1>2. /\ q.topic \in codes
        /\ q.subtopic = None \/ \E u \in found : q.subtopic \in Range(u.subtopics)
    <2> DEFINE index == TaxonomyIndex(tax)
               of(code) == UNION {Range(u.subtopics) : u \in {v \in Range(rows) : v.code = code}}
    <2>1. index[s] = [code \in codes |-> of(code)]
      BY <1>1 DEF TaxonomyIndex
    <2>2. q.topic \in DOMAIN index[s] /\ q.subtopic \in index[s][q.topic] \cup {None}
      BY DEF index_check
    <2>3. \A x \in of(q.topic) : \E u \in found : x \in Range(u.subtopics)
      OBVIOUS
    <2> HIDE DEF index, codes, rows, of, found
    <2> QED
      BY <2>1, <2>2, <2>3
  <1>3. ASSUME NEW u \in found, NEW v \in found PROVE u = v
    <2>1. PICK i \in DOMAIN rows : u = rows[i]
      BY DEF Range
    <2>2. PICK j \in DOMAIN rows : v = rows[j]
      BY DEF Range
    <2>3. i = j
      BY <1>1, <2>1, <2>2 DEF reject_duplicates, IsInjective, Column
    <2> QED
      BY <2>1, <2>2, <2>3
  <1>4. \E u \in Range(rows) : u.code = q.topic
    BY <1>2 DEF Range, Column
  <1>5. t \in found
    BY <1>4
  <1>6. /\ q.topic \in DOMAIN TopicRows(tax)[s] /\ s \in DOMAIN TopicRows(tax)
        /\ TopicRows(tax)[s][q.topic].subtopics = Range(t.subtopics)
    BY <1>1, <1>2 DEF TopicRows
  <1> HIDE DEF found, t
  <1>7. \A u \in found : Range(u.subtopics) = Range(t.subtopics)
    BY <1>3, <1>5
  <1>8. q.subtopic \in Range(t.subtopics) \cup {None}
    BY <1>2, <1>7
  <1> QED
    BY <1>6, <1>8

(* Dropping nothing is doing nothing.                                      *)
LEMMA DropNothing ==
  ASSUME NEW d, Functional(d), IsFn(d.owner), IsFn(d.topics)
  PROVE  DropSpecializations(d, {}) = d
  <1>1. Restrict(d.owner, DOMAIN d.owner \ {}) = d.owner
    BY DEF Restrict, IsFn
  <1>2. Restrict(d.topics, DOMAIN d.topics \ {}) = d.topics
    BY DEF Restrict, IsFn
  <1>3. \A id \in DOMAIN d.questions : Unlinked(d.questions[id], {}) = d.questions[id]
    BY DEF Unlinked, Functional, IsFn, RowColumns
  <1>4. [id \in DOMAIN d.questions |-> Unlinked(d.questions[id], {})] = d.questions
    BY <1>3 DEF Functional, IsFn
  <1>5. /\ d.active \ {} = d.active /\ d.enrolled \ {} = d.enrolled
        /\ {a \in d.answered : a.specialization \notin {}} = d.answered
    OBVIOUS
  <1>6. DropSpecializations(d, {}) =
          [d EXCEPT !.owner = d.owner, !.active = d.active, !.topics = d.topics,
                    !.questions = d.questions, !.enrolled = d.enrolled, !.answered = d.answered]
    BY <1>1, <1>2, <1>4, <1>5 DEF DropSpecializations, Functional, DbTables
  <1> QED
    BY <1>6 DEF Functional, IsFn, DbTables

LEMMA TaxonomyAgain ==
  ASSUME NEW d, Functional(d), NEW tax,
         d.professions = Range(Column(tax.professions, "id")), d.owner = Owner(tax),
         d.active = Active(tax), d.topics = TopicRows(tax), Range(d.owner) \subseteq d.professions
  PROVE  SyncTaxonomy(d, tax) = d
  <1> DEFINE ids == Range(Column(tax.professions, "id"))
             d1 == [d EXCEPT !.professions = ids]
             p == _sync_professions(d, tax)
             s == _sync_specializations(p, tax)
  <1>1. IsFn(d.owner) /\ IsFn(d.topics) /\ DOMAIN d.owner = Known(tax)
    BY DEF Owner, TopicRows, IsFn
  <1>2. d1 = d
    BY DEF Functional, IsFn, DbTables
  <1>3. {x \in DOMAIN d.owner : d.owner[x] \notin ids} = {}
    BY DEF Range
  <1>4. p = d
    BY <1>1, <1>2, <1>3, DropNothing DEF _sync_professions
  <1>5. DOMAIN d.owner \ Known(tax) = {}
    BY <1>1
  <1>6. s = [d EXCEPT !.owner = d.owner, !.active = d.active]
    BY <1>1, <1>4, <1>5, DropNothing DEF _sync_specializations
  <1>7. s = d
    <2> HIDE DEF s
    <2> QED
      BY <1>6 DEF Functional, IsFn
  <1>8. _sync_topics(s, tax) = d
    BY <1>7 DEF _sync_topics, Functional, IsFn, DbTables
  <1> QED
    BY <1>8 DEF SyncTaxonomy
-----------------------------------------------------------------------------
(* What the seeds leave.                                                   *)

LEMMA DropLeaves ==
  ASSUME NEW d, NEW gone, Functional(d)
  PROVE  LET n == DropSpecializations(d, gone)
         IN  Functional(n) /\ n.professions = d.professions
  <1> DEFINE n == DropSpecializations(d, gone)
             rows == [id \in DOMAIN d.questions |-> Unlinked(d.questions[id], gone)]
  <1>1. DOMAIN n = DbTables /\ n.questions = rows /\ n.professions = d.professions
    BY DEF DropSpecializations, Functional, DbTables
  <1>2. IsFn(n)
    BY DEF DropSpecializations, IsFn
  <1>3. IsFn(rows) /\ DOMAIN rows = DOMAIN d.questions
    BY DEF IsFn
  <1>4. \A id \in DOMAIN rows : DOMAIN rows[id] = RowColumns /\ IsFn(rows[id])
    BY DEF Functional, Unlinked, IsFn
  <1> HIDE DEF n, rows
  <1>5. Functional(n)
    BY <1>1, <1>2, <1>3, <1>4 DEF Functional
  <1> QED
    BY <1>1, <1>5 DEF n

LEMMA TaxonomyLeaves ==
  ASSUME NEW d, NEW tax, Functional(d)
  PROVE  LET n == SyncTaxonomy(d, tax)
         IN  /\ Functional(n)
             /\ n.professions = Range(Column(tax.professions, "id"))
             /\ n.owner = Owner(tax) /\ n.active = Active(tax) /\ n.topics = TopicRows(tax)
  <1> DEFINE ids == Range(Column(tax.professions, "id"))
             d1 == [d EXCEPT !.professions = ids]
             gone == {x \in DOMAIN d.owner : d.owner[x] \notin ids}
             p == _sync_professions(d, tax)
             left == DOMAIN p.owner \ Known(tax)
             q == DropSpecializations(p, left)
             s == _sync_specializations(p, tax)
             n == SyncTaxonomy(d, tax)
  <1>1. Functional(d1) /\ d1.professions = ids
    <2>1. DOMAIN d1 = DbTables /\ d1.questions = d.questions /\ d1.professions = ids
      BY DEF Functional, DbTables
    <2>2. IsFn(d1)
      BY DEF IsFn
    <2> HIDE DEF d1
    <2> QED
      BY <2>1, <2>2 DEF Functional
  <1>2. p = DropSpecializations(d1, gone)
    BY DEF _sync_professions
  <1>3. Functional(p) /\ p.professions = ids
    <2> HIDE DEF d1, gone, p
    <2> QED
      BY <1>1, <1>2, DropLeaves
  <1>4. Functional(q) /\ q.professions = ids
    <2> HIDE DEF p, left
    <2> QED
      BY <1>3, DropLeaves
  <1>5. s = [q EXCEPT !.owner = Owner(tax), !.active = Active(tax)]
    BY DEF _sync_specializations
  <1>6. n = [s EXCEPT !.topics = TopicRows(tax)]
    BY DEF SyncTaxonomy, _sync_topics
  <1> HIDE DEF q, s, n, ids
  <1>7. /\ DOMAIN s = DbTables /\ s.questions = q.questions /\ s.professions = ids
        /\ s.owner = Owner(tax) /\ s.active = Active(tax)
    BY <1>4, <1>5 DEF Functional, DbTables
  <1>8. /\ DOMAIN n = DbTables /\ n.questions = q.questions /\ n.professions = ids
        /\ n.owner = Owner(tax) /\ n.active = Active(tax) /\ n.topics = TopicRows(tax)
    BY <1>6, <1>7 DEF DbTables
  <1>9. IsFn(n)
    BY <1>6 DEF IsFn
  <1>10. Functional(n)
    BY <1>4, <1>8, <1>9 DEF Functional
  <1> QED
    BY <1>8, <1>10 DEF n, ids

LEMMA QuestionsLeave ==
  ASSUME NEW d, NEW incoming, NEW t, Functional(d), ~ QuestionConflict(d, incoming)
  PROVE  LET n == SyncQuestions(d, incoming, t)
         IN  /\ Functional(n)
             /\ n.professions = d.professions /\ n.owner = d.owner /\ n.active = d.active
             /\ n.topics = d.topics
             /\ Seeded(n) = {q.slug : q \in {r \in Range(incoming) : r.source = "seed"}}
             /\ \A q \in Range(incoming) :
                  q.slug \in DOMAIN n.questions /\ Shows(n.questions[q.slug], q)
  <1> DEFINE slugs == Range(Column(incoming, "slug"))
             stale == Seeded(d) \ slugs
             of(id) == CHOOSE q \in Range(incoming) : q.slug = id
             rows == [id \in (DOMAIN d.questions \ stale) \cup slugs |->
                        IF id \in slugs THEN SyncedRow(d, of(id), t) ELSE d.questions[id]]
             n == SyncQuestions(d, incoming, t)
  <1>1. /\ DOMAIN n = DbTables /\ n.questions = rows
        /\ n.professions = d.professions /\ n.owner = d.owner /\ n.active = d.active
        /\ n.topics = d.topics
    <2> HIDE DEF slugs, stale
    <2> QED
      BY DEF SyncQuestions, Functional, DbTables, slugs, stale
  <1>2. IsFn(n)
    BY DEF SyncQuestions, IsFn
  <1>3. slugs = {q.slug : q \in Range(incoming)}
    BY SlugsOf
  <1>4. ASSUME NEW q \in Range(incoming)
        PROVE  q.slug \in slugs /\ of(q.slug) = q
    <2>1. of(q.slug) \in Range(incoming) /\ of(q.slug).slug = q.slug
      OBVIOUS
    <2>2. reject_duplicates(Column(incoming, "slug"))
      BY DEF QuestionConflict
    <2> HIDE DEF of, slugs
    <2> QED
      BY <1>3, <2>1, <2>2, OneOfEachSlug
  <1> HIDE DEF slugs, of, n
  <1>5. IsFn(rows) /\ DOMAIN rows = (DOMAIN d.questions \ stale) \cup slugs
    BY DEF IsFn
  <1>6. ASSUME NEW q \in Range(incoming)
        PROVE  /\ q.slug \in DOMAIN rows /\ Shows(rows[q.slug], q)
               /\ DOMAIN rows[q.slug] = RowColumns /\ IsFn(rows[q.slug])
    <2>1. q.slug \in DOMAIN rows /\ rows[q.slug] = SyncedRow(d, q, t)
      BY <1>4
    <2> HIDE DEF rows
    <2> QED
      BY <2>1, SyncedShows
  <1>7. ASSUME NEW id \in DOMAIN rows, id \notin slugs
        PROVE  id \in DOMAIN d.questions /\ id \notin stale /\ rows[id] = d.questions[id]
    BY <1>7
  <1> HIDE DEF rows
  <1>8. ASSUME NEW id \in slugs PROVE \E q \in Range(incoming) : id = q.slug
    BY <1>3
  <1>9. \A id \in DOMAIN rows : DOMAIN rows[id] = RowColumns /\ IsFn(rows[id])
    BY <1>6, <1>7, <1>8 DEF Functional
  <1>10. Functional(n)
    BY <1>1, <1>2, <1>5, <1>9 DEF Functional
  <1>11. Seeded(n) = {q.slug : q \in {r \in Range(incoming) : r.source = "seed"}}
    <2>1. ASSUME NEW id \in Seeded(n)
          PROVE  \E q \in {r \in Range(incoming) : r.source = "seed"} : id = q.slug
      <3>1. id \in DOMAIN rows /\ rows[id].source = "seed"
        BY <1>1, <2>1 DEF Seeded
      <3>2. id \in slugs
        BY <1>7, <3>1 DEF stale, Seeded
      <3> QED
        BY <1>6, <1>8, <3>1, <3>2 DEF Shows
    <2>2. ASSUME NEW q \in Range(incoming), q.source = "seed" PROVE q.slug \in Seeded(n)
      BY <1>1, <1>6, <2>2 DEF Seeded, Shows
    <2> QED
      BY <2>1, <2>2
  <1> QED
    BY <1>1, <1>6, <1>10, <1>11 DEF n

(* An answer, a confirmation and an enrolment leave all of this alone.     *)
LeftAlone(d, n) ==
  /\ Functional(n)
  /\ n.professions = d.professions /\ n.owner = d.owner /\ n.active = d.active
  /\ n.topics = d.topics
  /\ DOMAIN n.questions = DOMAIN d.questions
  /\ \A id \in DOMAIN d.questions :
       /\ n.questions[id].fields = d.questions[id].fields
       /\ n.questions[id].source = d.questions[id].source
       /\ n.questions[id].links = d.questions[id].links
       /\ n.questions[id].options = d.questions[id].options

LEMMA RowWritten ==
  ASSUME NEW d, Functional(d), NEW id \in DOMAIN d.questions, NEW row, NEW n,
         DOMAIN n = DbTables, IsFn(n), n.questions = [d.questions EXCEPT ![id] = row],
         n.professions = d.professions, n.owner = d.owner, n.active = d.active,
         n.topics = d.topics, DOMAIN row = RowColumns, IsFn(row),
         row.fields = d.questions[id].fields, row.source = d.questions[id].source,
         row.links = d.questions[id].links, row.options = d.questions[id].options
  PROVE  LeftAlone(d, n)
  <1>1. /\ DOMAIN n.questions = DOMAIN d.questions /\ n.questions[id] = row
        /\ \A j \in DOMAIN d.questions \ {id} : n.questions[j] = d.questions[j]
    OBVIOUS
  <1>2. IsFn(n.questions)
    BY DEF IsFn
  <1>3. \A j \in DOMAIN n.questions : DOMAIN n.questions[j] = RowColumns /\ IsFn(n.questions[j])
    BY <1>1 DEF Functional
  <1> QED
    BY <1>1, <1>2, <1>3 DEF Functional, LeftAlone

LEMMA UseLeaves ==
  ASSUME Functional(db),
         \/ \E s : Enrol(s)
         \/ \E id \in DOMAIN db.questions : Verify(id)
         \/ \E moved \in BOOLEAN : CommitAnswer(moved)
  PROVE  LeftAlone(db, db') /\ UNCHANGED <<content, stage, seed>>
  <1>1. UNCHANGED <<content, stage, seed>>
    BY DEF Enrol, Verify, CommitAnswer
  <1>2. CASE UNCHANGED db
    BY <1>1, <1>2 DEF LeftAlone
  <1>3. CASE \E s : Enrol(s)
    <2>1. PICK s : db' = [db EXCEPT !.enrolled = @ \cup {s}]
      BY <1>3 DEF Enrol
    <2>2. /\ DOMAIN db' = DbTables /\ db'.questions = db.questions
          /\ db'.professions = db.professions /\ db'.owner = db.owner /\ db'.active = db.active
          /\ db'.topics = db.topics
      BY <2>1 DEF Functional, DbTables
    <2>3. IsFn(db')
      BY <2>1 DEF IsFn
    <2>4. Functional(db')
      BY <2>2, <2>3 DEF Functional
    <2> QED
      BY <1>1, <2>2, <2>4 DEF LeftAlone
  <1>4. ASSUME NEW id \in DOMAIN db.questions, Verify(id) PROVE LeftAlone(db, db')
    <2> DEFINE old == db.questions[id]
               row == [old EXCEPT !.is_verified = TRUE]
    <2>1. db' = [db EXCEPT !.questions[id].is_verified = TRUE]
      BY <1>4 DEF Verify
    <2>2. /\ DOMAIN db' = DbTables /\ db'.questions = [db.questions EXCEPT ![id] = row]
          /\ db'.professions = db.professions /\ db'.owner = db.owner /\ db'.active = db.active
          /\ db'.topics = db.topics
      BY <2>1 DEF Functional, DbTables
    <2>3. IsFn(db') /\ IsFn(row)
      BY <2>1 DEF IsFn
    <2>4. /\ DOMAIN row = RowColumns /\ row.fields = old.fields /\ row.source = old.source
          /\ row.links = old.links /\ row.options = old.options
      BY DEF Functional, RowColumns
    <2> HIDE DEF row
    <2> QED
      BY <2>2, <2>3, <2>4, RowWritten
  <1>5. ASSUME NEW moved \in BOOLEAN, CommitAnswer(moved), ~ UNCHANGED db PROVE LeftAlone(db, db')
    <2> DEFINE id == answering.question
               old == db.questions[id]
               row == IF moved THEN Moved(old, answering.began) ELSE old
    <2>1. /\ id \in DOMAIN db.questions
          /\ db' = [db EXCEPT
               !.answered = @ \cup {[question |-> id, specialization |-> answering.specialization]},
               !.questions[id] = IF moved THEN Moved(@, answering.began) ELSE @]
      BY <1>5 DEF CommitAnswer
    <2>2. /\ DOMAIN db' = DbTables /\ db'.questions = [db.questions EXCEPT ![id] = row]
          /\ db'.professions = db.professions /\ db'.owner = db.owner /\ db'.active = db.active
          /\ db'.topics = db.topics
      BY <2>1 DEF Functional, DbTables
    <2>3. IsFn(db') /\ IsFn(row)
      <3>1. IsFn(db')
        BY <2>1 DEF IsFn
      <3>2. IsFn(old)
        BY <2>1 DEF Functional
      <3> QED
        BY <3>1, <3>2 DEF Moved, IsFn
    <2>4. DOMAIN old = RowColumns
      BY <2>1 DEF Functional
    <2>5. /\ DOMAIN row = RowColumns /\ row.fields = old.fields /\ row.source = old.source
          /\ row.links = old.links /\ row.options = old.options
      <3> HIDE DEF old
      <3> QED
        BY <2>4 DEF Moved, RowColumns
    <2> HIDE DEF row, id
    <2> QED
      BY <2>1, <2>2, <2>3, <2>5, RowWritten DEF id
  <1> QED
    BY <1>1, <1>2, <1>3, <1>4, <1>5

(* The inductive invariant holds.                                          *)
LEMMA StepKeepsContent == ContentInv /\ [Next]_vars => ContentInv'
  <1> SUFFICES ASSUME ContentInv, [Next]_vars PROVE ContentInv'
    OBVIOUS
  <1>1. CASE UNCHANGED <<content, stage, seed, db>>
    BY <1>1 DEF ContentInv, Functional, Loaded, Synced, Seeded
  <1>2. CASE \E c \in Contents : Deploy(c)
    BY <1>2 DEF Deploy, ContentInv, Functional
  <1>3. CASE seed_taxonomy
    <2>1. CASE UNCHANGED db
      <3>1. content' = content /\ seed' = seed /\ stage = "start" /\ stage' \in {"taxonomy", "failed"}
        BY <1>3 DEF seed_taxonomy
      <3>2. CASE stage' = "failed"
        BY <2>1, <3>1, <3>2 DEF ContentInv, Functional
      <3>3. CASE stage' = "taxonomy"
        <4>1. /\ TaxonomyFile(content.tax) /\ ~ TaxonomyConflict(content.tax)
              /\ db' = SyncTaxonomy(db, content.tax)
          BY <1>3, <3>3 DEF seed_taxonomy
        <4> QED
          BY <2>1, <3>1, <3>3, <4>1, TaxonomyLeaves DEF ContentInv, Loaded
      <3> QED
        BY <3>1, <3>2, <3>3
    <2>2. CASE ~ UNCHANGED db
      <3>1. /\ content' = content /\ seed' = seed /\ stage = "start" /\ stage' = "taxonomy"
            /\ TaxonomyFile(content.tax) /\ ~ TaxonomyConflict(content.tax)
            /\ db' = SyncTaxonomy(db, content.tax)
        BY <1>3, <2>2 DEF seed_taxonomy
      <3>2. /\ Functional(db')
            /\ db'.professions = Range(Column(content.tax.professions, "id"))
            /\ db'.owner = Owner(content.tax) /\ db'.active = Active(content.tax)
            /\ db'.topics = TopicRows(content.tax)
        BY <3>1, TaxonomyLeaves DEF ContentInv
      <3> QED
        BY <3>1, <3>2 DEF ContentInv, Loaded
    <2> QED
      BY <2>1, <2>2
  <1>4. CASE seed_questions
    BY <1>4 DEF seed_questions, ContentInv, Functional, Loaded
  <1>5. CASE CommitQuestions
    <2>1. /\ stage = "taxonomy" /\ collect_files(content) /\ seed' = None /\ content' = content
          /\ Loaded
      BY <1>5 DEF CommitQuestions, ContentInv
    <2>2. CASE stage' = "failed" /\ UNCHANGED db
      BY <2>1, <2>2 DEF ContentInv, Functional
    <2>3. CASE /\ stage' = "serving" /\ ~ QuestionConflict(db, Incoming(content))
               /\ db' = SyncQuestions(db, Incoming(content), seed)
      <3>1. /\ Functional(db')
            /\ db'.professions = db.professions /\ db'.owner = db.owner /\ db'.active = db.active
            /\ db'.topics = db.topics
            /\ Seeded(db') = {q.slug : q \in {r \in Range(Incoming(content)) : r.source = "seed"}}
            /\ \A q \in Range(Incoming(content)) :
                 q.slug \in DOMAIN db'.questions /\ Shows(db'.questions[q.slug], q)
        <4> DEFINE incoming == Incoming(content)
        <4>1. Functional(db) /\ ~ QuestionConflict(db, incoming)
              /\ db' = SyncQuestions(db, incoming, seed)
          BY <2>3 DEF ContentInv
        <4> HIDE DEF incoming
        <4>2. /\ Functional(db')
              /\ db'.professions = db.professions /\ db'.owner = db.owner /\ db'.active = db.active
              /\ db'.topics = db.topics
              /\ Seeded(db') = {q.slug : q \in {r \in Range(incoming) : r.source = "seed"}}
              /\ \A q \in Range(incoming) :
                   q.slug \in DOMAIN db'.questions /\ Shows(db'.questions[q.slug], q)
          BY <4>1, QuestionsLeave
        <4> QED
          BY <4>2 DEF incoming
      <3>2. reject_duplicates(Column(Incoming(content), "slug"))
        BY <2>3 DEF QuestionConflict
      <3>3. Synced'
        BY <2>1, <3>1, <3>2 DEF Synced, Seeded
      <3>4. Loaded'
        BY <2>1, <3>1 DEF Loaded
      <3> QED
        BY <2>1, <2>3, <3>1, <3>3, <3>4 DEF ContentInv
    <2> QED
      BY <1>5, <2>2, <2>3 DEF CommitQuestions
  <1>6. CASE \/ \E s : Enrol(s)
             \/ \E id \in DOMAIN db.questions : Verify(id)
             \/ \E moved \in BOOLEAN : CommitAnswer(moved)
    <2>1. LeftAlone(db, db') /\ UNCHANGED <<content, stage, seed>>
      BY <1>6, UseLeaves DEF ContentInv
    <2>2. Loaded => Loaded'
      BY <2>1 DEF Loaded, LeftAlone
    <2>3. Synced => Synced'
      <3>1. Seeded(db') = Seeded(db)
        BY <2>1 DEF Seeded, LeftAlone
      <3>2. ASSUME NEW q, q.slug \in DOMAIN db.questions, Shows(db.questions[q.slug], q)
            PROVE  q.slug \in DOMAIN db'.questions /\ Shows(db'.questions[q.slug], q)
        BY <2>1, <3>2 DEF LeftAlone, Shows
      <3> QED
        BY <2>1, <3>1, <3>2 DEF Synced
    <2> QED
      BY <2>1, <2>2, <2>3 DEF ContentInv, LeftAlone
  <1>7. CASE \/ \E id, s : BeginAnswer(id, s)
             \/ question_package \/ ReadPackage \/ ReceivePackage \/ LosePackage
    BY <1>1, <1>7 DEF BeginAnswer, question_package, ReadPackage, ReceivePackage, LosePackage
  <1>8. CASE UNCHANGED vars
    BY <1>1, <1>8 DEF vars
  <1> QED
    BY <1>2, <1>3, <1>4, <1>5, <1>6, <1>7, <1>8 DEF Next

(* The property follows from it.                                           *)
LEMMA SecondSeedIdles ==
  ASSUME Functional(db), Synced
  PROVE  LET again == SyncQuestions(db, Incoming(content), now)
             sets  == {q.slug : q \in {r \in Range(Incoming(content)) : r.difficulty_rating # None}}
         IN  /\ again.answered = db.answered
             /\ DOMAIN again.questions = DOMAIN db.questions
             /\ \A id \in Seeded(db) \ sets : again.questions[id] = db.questions[id]
  <1> DEFINE incoming == Incoming(content)
             slugs == Range(Column(incoming, "slug"))
             stale == Seeded(db) \ slugs
             of(id) == CHOOSE q \in Range(incoming) : q.slug = id
             again == SyncQuestions(db, incoming, now)
             sets  == {q.slug : q \in {r \in Range(incoming) : r.difficulty_rating # None}}
  <1>1. /\ reject_duplicates(Column(incoming, "slug"))
        /\ Seeded(db) = {q.slug : q \in {r \in Range(incoming) : r.source = "seed"}}
        /\ \A q \in Range(incoming) :
             q.slug \in DOMAIN db.questions /\ Shows(db.questions[q.slug], q)
    BY DEF Synced
  <1> HIDE DEF incoming
  <1>2. slugs = {q.slug : q \in Range(incoming)}
    BY SlugsOf
  <1>3. stale = {} /\ slugs \subseteq DOMAIN db.questions
    BY <1>1, <1>2
  <1>4. /\ again.questions = [id \in (DOMAIN db.questions \ stale) \cup slugs |->
                                IF id \in slugs THEN SyncedRow(db, of(id), now) ELSE db.questions[id]]
        /\ again.answered = {a \in db.answered : a.question \notin stale}
    <2> HIDE DEF slugs, stale
    <2> QED
      BY DEF SyncQuestions, Functional, DbTables, slugs, stale
  <1>5. ASSUME NEW id \in Seeded(db) \ sets
        PROVE  again.questions[id] = db.questions[id]
    <2>1. PICK q \in Range(incoming) : q.slug = id
      BY <1>1
    <2>2. of(id) \in Range(incoming) /\ of(id).slug = id
      BY <2>1
    <2>3. id \in slugs /\ q.difficulty_rating = None
      BY <1>2, <2>1
    <2> HIDE DEF of, slugs, again, sets
    <2>4. of(id) = q
      BY <1>1, <2>1, <2>2, OneOfEachSlug
    <2>5. again.questions[id] = SyncedRow(db, q, now)
      BY <1>4, <2>3, <2>4
    <2> QED
      BY <1>1, <2>1, <2>3, <2>5, SyncedAgain
  <1> HIDE DEF again, sets, of, slugs, stale
  <1>6. again.answered = db.answered /\ DOMAIN again.questions = DOMAIN db.questions
    BY <1>3, <1>4
  <1> QED
    BY <1>5, <1>6 DEF again, sets, incoming
(* A container that serves has what its directory has, no more of the      *)
(* seed's own and no less, and shows it as the bundle does, whatever the   *)
(* directories contain and whatever was there before.                      *)
THEOREM ServesItsContent == Spec => []ServingIsContent
  <1>1. Init => ContentInv
    <2> SUFFICES ASSUME Init PROVE ContentInv
      OBVIOUS
    <2>1. DOMAIN db = DbTables /\ db.questions = <<>> /\ IsFn(db) /\ DOMAIN db.questions = {}
      BY DEF Init, DbTables, IsFn
    <2>2. IsFn(db.questions)
      BY <2>1 DEF IsFn
    <2> QED
      BY <2>1, <2>2, ContentAssumption DEF Init, ContentInv, Functional, ContentAssumption
  <1>2. TypeOK /\ ContentInv => ServingIsContent
    <2> SUFFICES ASSUME TypeOK, ContentInv, stage = "serving" PROVE ServingIsContent!2
      BY DEF ServingIsContent
    <2> DEFINE bundle == Bundle(content)
               incoming == Incoming(content)
    <2>1. Loaded /\ Synced /\ Functional(db) /\ content \in Contents
      BY DEF ContentInv
    <2>2. BundleBuilds(content)
      BY <2>1 DEF Loaded, Synced, collect_files, BundleBuilds
    <2>3. db.owner = Owner(content.tax) /\ db.topics = TopicRows(content.tax)
      BY <2>1 DEF Loaded
    <2>4. get_taxonomy(db) = bundle.taxonomy
      <3>1. \A l \in Listed(content.tax) : l.is_active \in BOOLEAN
        BY <2>1, ContentAssumption DEF ContentAssumption
      <3>2. get_taxonomy(db) = taxonomy_payload(content.tax)
        BY <2>1, <3>1, TreesAgree DEF Loaded
      <3> QED
        BY <3>2 DEF Bundle
    <2>5. Seeded(db) = {q.slug : q \in {r \in Range(incoming) : r.source = "seed"}}
      BY <2>1 DEF Synced
    <2>6. ASSUME NEW id \in Seeded(db), NEW s \in db.questions[id].links
          PROVE  LET f == db.questions[id].fields
                 IN  /\ f.topic \in DOMAIN db.topics[s]
                     /\ f.subtopic \in db.topics[s][f.topic].subtopics \cup {None}
      <3>1. PICK q \in Range(incoming) : q.slug = id
        BY <2>5
      <3>2. Shows(db.questions[id], q)
        BY <2>1, <3>1 DEF Synced
      <3>3. PICK file \in Range(content.files) : q \in Range(file)
        BY IncomingAre
      <3>4. index_check(TaxonomyIndex(content.tax), q)
        BY <2>1, <3>3 DEF Synced, collect_files, load_questions
      <3>5. /\ q.topic \in DOMAIN TopicRows(content.tax)[s]
            /\ q.subtopic \in TopicRows(content.tax)[s][q.topic].subtopics \cup {None}
        BY <2>1, <3>2, <3>4, SectionsExist DEF Loaded, Shows
      <3>6. db.questions[id].fields.topic = q.topic /\ db.questions[id].fields.subtopic = q.subtopic
        BY <3>2 DEF Shows, FieldsOf
      <3> QED
        BY <2>3, <3>5, <3>6
    <2>7. ASSUME NEW p \in Range(bundle.questions)
          PROVE  /\ p.id \in DOMAIN db.questions
                 /\ LET row == db.questions[p.id]
                    IN  row.links = p.specializations /\ row.fields = p.fields
                        /\ row.options = p.options
      <3>1. PICK at \in DOMAIN Exported(content) : p = question_payload(Exported(content)[at])
        BY DEF Bundle, Range
      <3>2. at \in DOMAIN incoming /\ Exported(content)[at] = incoming[at]
        BY <3>1 DEF Exported, Restrict
      <3>3. incoming[at] \in Range(incoming)
        BY <3>2 DEF Range
      <3> DEFINE q == incoming[at]
      <3>4. p.id = q.slug /\ p.specializations = Range(q.specializations) /\ p.fields = FieldsOf(q)
            /\ p.options = q.options
        BY <3>1, <3>2 DEF question_payload
      <3>5. q.slug \in DOMAIN db.questions /\ Shows(db.questions[q.slug], q)
        BY <2>1, <3>3 DEF Synced
      <3> HIDE DEF q
      <3> QED
        BY <3>4, <3>5 DEF Shows
    <2>8. SyncTaxonomy(db, content.tax) = db
      BY <2>1, TaxonomyAgain DEF Loaded, TypeOK
    <2>9. LET again == SyncQuestions(db, incoming, now)
              sets  == {q.slug : q \in {r \in Range(incoming) : r.difficulty_rating # None}}
          IN  /\ again.answered = db.answered
              /\ DOMAIN again.questions = DOMAIN db.questions
              /\ \A id \in Seeded(db) \ sets : again.questions[id] = db.questions[id]
      BY <2>1, SecondSeedIdles
    <2> HIDE DEF bundle, incoming
    <2> QED
      BY <2>2, <2>3, <2>4, <2>5, <2>6, <2>7, <2>8, <2>9 DEF bundle, incoming
  <1> QED
    BY <1>1, <1>2, StepKeepsContent, RowsAreKeyed, PTL DEF Spec
=============================================================================
