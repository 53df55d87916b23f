---------------------------- MODULE ServerContent ----------------------------
(***************************************************************************)
(* The content of the server: what the api container loads into the        *)
(* database before it serves (docker-compose.yml: migrate, seed the        *)
(* taxonomy, seed the questions, serve; app/seed, services/taxonomy.py,    *)
(* services/questions.py), what a client downloads by GET /sync/questions  *)
(* (services/practice.py), and the answers that move question rows         *)
(* meanwhile.                                                              *)
(*                                                                         *)
(* Each seed is one transaction; the time PostgreSQL stamps into           *)
(* updated_at is the time the transaction began.  What a row shows before  *)
(* a seed commits is what was committed, so a seed applies as one step.    *)
(* The database is one record: the tables of the taxonomy (sections with   *)
(* their subsections and weights under the key specialization, code), the  *)
(* questions with their options and links, and the rows of users that      *)
(* refer to either.  Titles and orders of the taxonomy are left out.       *)
(***************************************************************************)
EXTENDS ContentFile, TLC

CONSTANTS
  Contents,      (* content directories an image may carry                  *)
  Released,      (* those of them the first image may carry                 *)
  PhoneSpec,     (* the specialization the client synchronizes              *)
  Overlap,       (* are requests served while a container seeds?  (another  *)
                 (* instance, or a seed started by hand)                    *)
  MaxDeploys,    (* bound: images deployed, or restarts after a crash       *)
  MaxActs,       (* bound: enrolments, answers, confirmations               *)
  MaxReads       (* bound: packages asked for                               *)

ASSUME ContentAssumption ==
  /\ Released \subseteq Contents
  /\ \A c \in Contents : \A l \in Listed(c.tax) : l.is_active \in BOOLEAN

VARIABLES
  content,       (* directory in the image of the running container         *)
  stage,         (* how far the start of the container has come             *)
  seed,          (* the open transaction of a seed: its start, or None      *)
  db,            (* committed tables                                        *)
  now,           (* clock                                                   *)
  answering,     (* the open transaction of an answer, or None              *)
  phone,         (* since: mark of the last package, has: the copies kept;  *)
                 (* mark, sent: of the request under way, or 0 and None     *)
  unseen,        (* history: rows a transaction older than since has        *)
                 (* written (late), rows whose options, links or mark were  *)
                 (* written without their updated_at (silent)               *)
  count          (* bound counters                                          *)

vars == <<content, stage, seed, db, now, answering, phone, unseen, count>>

-----------------------------------------------------------------------------
(* The taxonomy: services/taxonomy.py.                                     *)

Owner(tax) == [s \in Known(tax) |-> (CHOOSE l \in Listed(tax) : l.id = s).profession]

Unlinked(row, gone) == [row EXCEPT !.links = @ \ gone]

(* Deleting specializations takes everything that refers to them.          *)
DropSpecializations(d, gone) ==
  [d EXCEPT !.owner     = Restrict(@, DOMAIN @ \ gone),
            !.active    = @ \ gone,
            !.topics    = Restrict(@, DOMAIN @ \ gone),
            !.questions = [id \in DOMAIN @ |-> Unlinked(@[id], gone)],
            !.enrolled  = @ \ gone,
            !.answered  = {a \in @ : a.specialization \notin gone}]

_sync_professions(d, tax) ==
  LET ids == Range(Column(tax.professions, "id"))
  IN  DropSpecializations([d EXCEPT !.professions = ids],
                          {s \in DOMAIN d.owner : d.owner[s] \notin ids})

_sync_specializations(d, tax) ==
  [DropSpecializations(d, DOMAIN d.owner \ Known(tax))
     EXCEPT !.owner = Owner(tax), !.active = Active(tax)]

(* Mutant: what the file no longer names stays.                            *)
TopicsStay(d, tax) ==
  [d EXCEPT !.topics = [s \in DOMAIN TopicRows(tax) |->
                          IF s \in DOMAIN d.topics THEN TopicRows(tax)[s] @@ d.topics[s]
                          ELSE TopicRows(tax)[s]]]

(* Sections, subsections and weights that the file does not name go.       *)
_sync_topics(d, tax) == [d EXCEPT !.topics = TopicRows(tax)]

SyncTaxonomy(d, tax) == _sync_topics(_sync_specializations(_sync_professions(d, tax), tax), tax)

(* GET /taxonomy: the tree as the clients see it.                          *)
get_taxonomy(d) ==
  [p \in d.professions |->
     {[id |-> s, is_active |-> s \in d.active, topics |-> visible_topics(d.topics, s, s \in d.active)] :
        s \in {s \in DOMAIN d.owner : d.owner[s] = p}}]

(* A second row with the same key: the database refuses.                   *)
TaxonomyConflict(tax) == \E l, m \in Listed(tax) : l.id = m.id /\ l # m

-----------------------------------------------------------------------------
(* The questions: services/questions.py.                                   *)

Seeded(d) == {id \in DOMAIN d.questions : d.questions[id].source = "seed"}

(* Mutant: every question is inserted, whatever is there.                  *)
InsertOnly(d, incoming) ==
  \/ ~ reject_duplicates(Column(incoming, "slug"))
  \/ Range(Column(incoming, "slug")) \cap DOMAIN d.questions # {}

(* A row of another source is not looked at, but holds its key.            *)
QuestionConflict(d, incoming) ==
  \/ ~ reject_duplicates(Column(incoming, "slug"))
  \/ Range(Column(incoming, "slug")) \cap (DOMAIN d.questions \ Seeded(d)) # {}

NewRow(q, t) ==
  [fields |-> FieldsOf(q), source |-> q.source, difficulty |-> StartDifficulty(q),
   earned |-> 0, is_verified |-> FALSE, links |-> Range(q.specializations),
   options |-> q.options, updated_at |-> t]

(* Mutant: the start difficulty is set again at every seed.                *)
DifficultyReset(row, q, t) ==
  [row EXCEPT !.fields = FieldsOf(q), !.source = q.source, !.difficulty = StartDifficulty(q),
              !.earned = 0, !.updated_at = t]

(* updated_at moves when a column of the row itself moves.  What answers   *)
(* have moved the difficulty by goes when the file sets it.                *)
_apply_fields(row, q, t) ==
  LET forced  == q.difficulty_rating # None
      columns == [row EXCEPT !.fields = FieldsOf(q), !.source = q.source,
                             !.difficulty = IF forced THEN q.difficulty_rating ELSE @,
                             !.earned = IF forced THEN 0 ELSE @]
  IN  IF columns = row THEN row ELSE [columns EXCEPT !.updated_at = t]

SyncedRow(d, q, t) ==
  IF q.slug \in Seeded(d)
  THEN [_apply_fields(d.questions[q.slug], q, t) EXCEPT
          !.links = Range(q.specializations), !.options = q.options]
  ELSE NewRow(q, t)

LinksMissing(d, incoming) ==
  \E q \in Range(incoming) :
    /\ q.slug \in Seeded(d) => d.questions[q.slug].links # Range(q.specializations)
    /\ ~ Range(q.specializations) \subseteq DOMAIN d.owner

SyncQuestions(d, incoming, t) ==
  LET slugs == Range(Column(incoming, "slug"))
      stale == Seeded(d) \ slugs
      of(id) == CHOOSE q \in Range(incoming) : q.slug = id
  IN  [d EXCEPT !.questions = [id \in (DOMAIN @ \ stale) \cup slugs |->
                                 IF id \in slugs THEN SyncedRow(d, of(id), t) ELSE @[id]],
                !.answered  = {a \in @ : a.question \notin stale}]

-----------------------------------------------------------------------------
Init ==
  /\ content \in Released
  /\ stage = "start" /\ seed = None
  /\ db = [professions |-> {}, owner |-> <<>>, active |-> {}, topics |-> <<>>,
           questions |-> <<>>, enrolled |-> {}, answered |-> {}]
  /\ now = 1 /\ answering = None
  /\ phone = [since |-> 0, mark |-> 0, sent |-> None, has |-> <<>>]
  /\ unseen = [late |-> {}, silent |-> {}]
  /\ count = [deploys |-> 0, acts |-> 0, reads |-> 0]

Serving == stage = "serving" \/ Overlap

(* A question as a package holds it.                                       *)
SyncQuestionOut(row) ==
  [fields |-> row.fields, options |-> row.options, is_verified |-> row.is_verified]

(* What the commit of new questions means for the packages to come: rows   *)
(* with a time before the mark are late, rows that show something else     *)
(* under an old time have changed silently.                                *)
Noted(new) ==
  LET mark    == IF phone.mark # 0 THEN phone.mark ELSE phone.since
      written == {id \in DOMAIN new : id \notin DOMAIN db.questions
                                      \/ new[id].updated_at # db.questions[id].updated_at}
      next    == {id \in written : new[id].updated_at > mark}
      aside   == {id \in DOMAIN new \ written :
                    /\ new[id].fields = db.questions[id].fields
                    /\ \/ new[id].options # db.questions[id].options
                       \/ new[id].links # db.questions[id].links
                       \/ new[id].is_verified # db.questions[id].is_verified}
  IN  [late   |-> (unseen.late \ next) \cup (written \ next),
       silent |-> (unseen.silent \ next) \cup aside]

(* The container is created from an image, or starts again after a crash:  *)
(* the open transaction of its seed is rolled back, requests are cut off.  *)
Deploy(c) ==
  /\ count.deploys < MaxDeploys
  /\ count' = [count EXCEPT !.deploys = @ + 1]
  /\ content' = c /\ stage' = "start" /\ seed' = None
  /\ IF Overlap THEN UNCHANGED <<answering, phone>>
     ELSE answering' = None /\ phone' = [phone EXCEPT !.mark = 0, !.sent = None]
  /\ UNCHANGED <<db, now, unseen>>

(* python -m app.seed.taxonomy: the file is read, then the session opens.  *)
(* A file that is not accepted ends the start of the container, and so     *)
(* does a key given twice.  None of the rows it stamps is ever asked for   *)
(* by its time, so the transaction is one step.                            *)
seed_taxonomy ==
  /\ stage = "start"
  /\ IF TaxonomyFile(content.tax) /\ ~ TaxonomyConflict(content.tax)
     THEN /\ stage' = "taxonomy"
          /\ db' = SyncTaxonomy(db, content.tax)
          /\ unseen' = Noted(db'.questions)
     ELSE stage' = "failed" /\ UNCHANGED <<db, unseen>>
  /\ UNCHANGED <<content, seed, now, answering, phone, count>>

(* python -m app.seed.questions reads the taxonomy again to check against. *)
seed_questions ==
  /\ stage = "taxonomy" /\ seed = None
  /\ IF TaxonomyFile(content.tax) /\ collect_files(content)
     THEN stage' = stage /\ seed' = now + 1 /\ now' = now + 1
     ELSE stage' = "failed" /\ UNCHANGED <<seed, now>>
  /\ UNCHANGED <<content, db, answering, phone, unseen, count>>

CommitQuestions ==
  /\ stage = "taxonomy" /\ seed # None
  /\ seed' = None
  /\ IF QuestionConflict(db, Incoming(content)) \/ LinksMissing(db, Incoming(content))
     THEN stage' = "failed" /\ UNCHANGED <<db, unseen>>
     ELSE /\ stage' = "serving"
          /\ db' = SyncQuestions(db, Incoming(content), seed)
          /\ unseen' = Noted(db'.questions)
  /\ UNCHANGED <<content, now, answering, phone, count>>

(* A user takes up a specialization.                                       *)
Enrol(s) ==
  /\ Serving /\ count.acts < MaxActs /\ s \in DOMAIN db.owner \ db.enrolled
  /\ db' = [db EXCEPT !.enrolled = @ \cup {s}]
  /\ count' = [count EXCEPT !.acts = @ + 1]
  /\ UNCHANGED <<content, stage, seed, now, answering, phone, unseen>>

(* A person confirms a question, in the database itself.                   *)
Verify(id) ==
  /\ Serving /\ count.acts < MaxActs
  /\ id \in DOMAIN db.questions /\ ~ db.questions[id].is_verified
  /\ db' = [db EXCEPT !.questions[id].is_verified = TRUE]
  /\ unseen' = Noted(db'.questions)
  /\ count' = [count EXCEPT !.acts = @ + 1]
  /\ UNCHANGED <<content, stage, seed, now, answering, phone>>

Moved(row, t) == [row EXCEPT !.earned = @ + 1, !.updated_at = t]

(* An answer: its transaction begins with the look-up of the user, and     *)
(* writes the question when the rounded difficulty moves.                  *)
BeginAnswer(id, s) ==
  /\ Serving /\ answering = None /\ count.acts < MaxActs
  /\ id \in DOMAIN db.questions /\ s \in db.enrolled
  /\ answering' = [question |-> id, specialization |-> s, began |-> now + 1]
  /\ now' = now + 1
  /\ count' = [count EXCEPT !.acts = @ + 1]
  /\ UNCHANGED <<content, stage, seed, db, phone, unseen>>

CommitAnswer(moved) ==
  /\ answering # None /\ answering' = None
  /\ IF answering.question \in DOMAIN db.questions /\ answering.specialization \in db.enrolled
     THEN /\ db' = [db EXCEPT
               !.answered = @ \cup {[question |-> answering.question,
                                     specialization |-> answering.specialization]},
               !.questions[answering.question] =
                 IF moved THEN Moved(@, answering.began) ELSE @]
          /\ unseen' = Noted(db'.questions)
     ELSE UNCHANGED <<db, unseen>>
  /\ UNCHANGED <<content, stage, seed, now, phone, count>>

-----------------------------------------------------------------------------
(* GET /sync/questions: the mark is taken, then the rows are read; the     *)
(* client files the copies under their identifiers.  Without since (0)     *)
(* every row is sent.                                                      *)

Package(since) == {id \in DOMAIN db.questions :
                     /\ PhoneSpec \in db.questions[id].links
                     /\ since = 0 \/ db.questions[id].updated_at > since}

Filed(copies, has) ==
  [id \in DOMAIN copies \cup DOMAIN has |-> IF id \in DOMAIN copies THEN copies[id] ELSE has[id]]

question_package ==
  /\ Serving /\ phone.mark = 0 /\ count.reads < MaxReads
  /\ PhoneSpec \in DOMAIN db.owner
  /\ phone' = [phone EXCEPT !.mark = now + 1]
  /\ now' = now + 1
  /\ count' = [count EXCEPT !.reads = @ + 1]
  /\ UNCHANGED <<content, stage, seed, db, answering, unseen>>

ReadPackage ==
  LET read == Package(phone.since)
  IN  /\ phone.mark # 0 /\ phone.sent = None
      /\ phone' = [phone EXCEPT !.sent = [id \in read |-> SyncQuestionOut(db.questions[id])]]
      /\ unseen' = [late |-> unseen.late \ read, silent |-> unseen.silent \ read]
      /\ UNCHANGED <<content, stage, seed, db, now, answering, count>>

(* Mutant: the mark is taken after the rows are read.                      *)
MarkAfterRead ==
  /\ phone.sent # None
  /\ phone' = [since |-> now, mark |-> 0, sent |-> None, has |-> Filed(phone.sent, phone.has)]
  /\ UNCHANGED <<content, stage, seed, db, now, answering, unseen, count>>

ReceivePackage ==
  /\ phone.sent # None
  /\ phone' = [since |-> phone.mark, mark |-> 0, sent |-> None,
               has |-> Filed(phone.sent, phone.has)]
  /\ UNCHANGED <<content, stage, seed, db, now, answering, unseen, count>>

(* The response does not arrive: the next request repeats the old mark.    *)
LosePackage ==
  /\ phone.sent # None
  /\ phone' = [phone EXCEPT !.mark = 0, !.sent = None]
  /\ UNCHANGED <<content, stage, seed, db, now, answering, unseen, count>>

Next ==
  \/ \E c \in Contents : Deploy(c)
  \/ seed_taxonomy \/ seed_questions \/ CommitQuestions
  \/ \E s \in DOMAIN db.owner : Enrol(s)
  \/ \E id \in DOMAIN db.questions : Verify(id) \/ \E s \in db.enrolled : BeginAnswer(id, s)
  \/ \E moved \in BOOLEAN : CommitAnswer(moved)
  \/ question_package \/ ReadPackage \/ ReceivePackage \/ LosePackage

Spec == Init /\ [][Next]_vars

(* The shell runs the seeds one after the other; nobody has to deploy,     *)
(* answer or synchronize.                                                  *)
FairSpec == Spec /\ WF_vars(seed_taxonomy \/ seed_questions \/ CommitQuestions)

-----------------------------------------------------------------------------
(* The rows are keyed as the foreign keys demand.                          *)
TypeOK ==
  /\ Range(db.owner) \subseteq db.professions
  /\ DOMAIN db.topics \cup db.active \cup db.enrolled \subseteq DOMAIN db.owner
  /\ \A id \in DOMAIN db.questions : db.questions[id].links \subseteq DOMAIN db.owner
  /\ \A a \in db.answered : a.question \in DOMAIN db.questions /\ a.specialization \in DOMAIN db.owner

(* "Bring the database into line with the YAML" (services/taxonomy.py:65,  *)
(* services/questions.py:49), whatever was there before: a container that  *)
(* serves has the sections and the questions of its directory and no       *)
(* others of the seed's own; every question is about a section its         *)
(* specializations have; what the API shows of them is what the bundle     *)
(* built from the same directory shows; and the seeds, run again, would    *)
(* change nothing, but for a difficulty the file sets; a question of       *)
(* another source does not even load again (QuestionConflict).             *)
ServingIsContent ==
  stage = "serving" =>
    LET bundle == Bundle(content)
    IN  /\ BundleBuilds(content)
        /\ db.owner = Owner(content.tax) /\ db.topics = TopicRows(content.tax)
        /\ get_taxonomy(db) = bundle.taxonomy
        /\ Seeded(db) = {q.slug : q \in {r \in Range(Incoming(content)) : r.source = "seed"}}
        /\ \A id \in Seeded(db) : \A s \in db.questions[id].links :
             LET f == db.questions[id].fields
             IN  f.topic \in DOMAIN db.topics[s]
                 /\ f.subtopic \in db.topics[s][f.topic].subtopics \cup {None}
        /\ \A p \in Range(bundle.questions) :
             /\ p.id \in DOMAIN db.questions
             /\ LET row == db.questions[p.id]
                IN  row.links = p.specializations /\ row.fields = p.fields /\ row.options = p.options
        /\ SyncTaxonomy(db, content.tax) = db
        /\ LET again == SyncQuestions(db, Incoming(content), now)
               sets  == {q.slug : q \in {r \in Range(Incoming(content)) : r.difficulty_rating # None}}
           IN  /\ again.answered = db.answered
               /\ DOMAIN again.questions = DOMAIN db.questions
               /\ \A id \in Seeded(db) \ sets : again.questions[id] = db.questions[id]

(* A start of the container takes from the users only what the directory   *)
(* no longer has: their rows go with a specialization it does not list,    *)
(* or one whose old profession it does not list, and with a question it    *)
(* does not have; a confirmed question stays confirmed, and what answers   *)
(* have made of its difficulty stays unless the file sets it.              *)
DroppedSpecs == {s \in DOMAIN db.owner :
                   \/ s \notin Known(content.tax)
                   \/ db.owner[s] \notin Range(Column(content.tax.professions, "id"))}
EnrolmentsSpared == db.enrolled \ db'.enrolled \subseteq DroppedSpecs
AnswersSpared ==
  \A a \in db.answered \ db'.answered :
    \/ a.specialization \in DroppedSpecs
    \/ a.question \notin Range(Column(Incoming(content), "slug"))
RowsSpared ==
  \A id \in DOMAIN db.questions \cap DOMAIN db'.questions :
    /\ db.questions[id].is_verified => db'.questions[id].is_verified
    /\ db'.questions[id].earned < db.questions[id].earned =>
         \E q \in Range(Incoming(content)) : q.slug = id /\ q.difficulty_rating # None
SeedSparesUsers == [][EnrolmentsSpared /\ AnswersSpared /\ RowsSpared]_vars

(* services/practice.py:475-477: a question changed while the package is   *)
(* read is not lost.  A question the client has not, or has otherwise than *)
(* the server, is in its next package, unless a transaction older than the *)
(* last mark has written it, or only its options or links were written.    *)
PackageMissesNothing ==
  phone.since # 0 /\ phone.mark = 0 =>
    \A id \in DOMAIN db.questions :
      LET row == db.questions[id]
      IN  PhoneSpec \in row.links =>
            \/ id \in DOMAIN phone.has /\ phone.has[id] = SyncQuestionOut(row)
            \/ row.updated_at > phone.since
            \/ id \in unseen.late \cup unseen.silent

(* "A repeated start does no harm" (docker-compose.yml:53): a container    *)
(* comes to serve, however often it is started again, when its files are   *)
(* sound and list no key twice and no question has, or had when it was     *)
(* loaded, a source other than the seed.                                   *)
Loadable(c) ==
  LET slugs == Column(Incoming(c), "slug")
  IN  /\ TaxonomyFile(c.tax) /\ collect_files(c)
      /\ \A l, m \in Listed(c.tax) : l.id = m.id => l = m
      /\ IsInjective(slugs)
      /\ \A id \in Range(slugs) \cap DOMAIN db.questions : db.questions[id].source = "seed"
EventuallyServes ==
  (stage = "start" /\ Loadable(content)) ~> (stage = "serving" \/ ~ Loadable(content))
=============================================================================
