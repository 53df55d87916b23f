----------------------------- MODULE ContentFile -----------------------------
(***************************************************************************)
(* The content directory: taxonomy.yaml and questions/*.yaml, what the     *)
(* loaders accept (backend/app/seed/schema.py, question_schema.py,         *)
(* loader.py) and the bundle that ships with the application               *)
(* (export_bundle.py).                                                     *)
(*                                                                         *)
(* A directory is a record [tax, files]: the parsed taxonomy and, in the   *)
(* order of their names, the parsed question files.  Titles, texts and     *)
(* tags are one value "text"; of the detailed answer only the level        *)
(* headings count, by the grade they stand for.  A grade code is its       *)
(* number, a code outside Grades is an unknown one, a weight counts        *)
(* tenths.  None is an absent field.                                       *)
(***************************************************************************)
EXTENDS Integers, Sequences, Functions

CONSTANT None

Grades == 0..6
Levels == {1, 3, 5}               (* headings Junior, Middle, Senior       *)
Choice == {"single_choice", "multi_choice"}

Column(seq, name) == [i \in DOMAIN seq |-> seq[i][name]]
reject_duplicates(seq) == IsInjective(seq)      (* TRUE: nothing to reject *)

-----------------------------------------------------------------------------
(* taxonomy.yaml                                                           *)

TopicIn(t) ==
  /\ DOMAIN t.weights = Grades
  /\ Range(t.weights) \subseteq 0..10
  /\ t.subtopics # <<>> /\ reject_duplicates(t.subtopics)

ProfessionIn(p) == /\ p.specializations # <<>>
                   /\ reject_duplicates(Column(p.specializations, "id"))

Listed(tax) ==
  UNION {{[id |-> s.id, is_active |-> s.is_active, profession |-> p.id] :
             s \in Range(p.specializations)} : p \in Range(tax.professions)}
Known(tax)  == {s.id : s \in Listed(tax)}
Active(tax) == {s.id : s \in {l \in Listed(tax) : l.is_active}}

(* The specializations are compared as a set, so one that two professions  *)
(* list is not noticed.                                                    *)
TaxonomyFile(tax) ==
  /\ tax.professions # <<>>
  /\ \A p \in Range(tax.professions) : ProfessionIn(p)
  /\ reject_duplicates(Column(tax.professions, "id"))
  /\ DOMAIN tax.topics \subseteq Known(tax)
  /\ \A s \in DOMAIN tax.topics :
       /\ tax.topics[s] # <<>>
       /\ \A t \in Range(tax.topics[s]) : TopicIn(t)
       /\ reject_duplicates(Column(tax.topics[s], "code"))
  /\ Active(tax) \subseteq DOMAIN tax.topics

-----------------------------------------------------------------------------
(* questions/*.yaml                                                        *)

check_grades(q) == /\ {q.min_grade, q.peak_grade, q.max_grade} \subseteq Grades
                   /\ q.min_grade <= q.peak_grade /\ q.peak_grade <= q.max_grade

Correct(q) == {i \in DOMAIN q.options : q.options[i].is_correct}

check_options(q) ==
  IF q.type \notin Choice THEN q.options = <<>>
  ELSE /\ Len(q.options) >= 2
       /\ reject_duplicates(Column(q.options, "code"))
       /\ q.type = "single_choice" => \E i \in Correct(q) : Correct(q) = {i}
       /\ q.type = "multi_choice"  => \E i, j \in Correct(q) : i # j

check_answer(q) ==
  LET expected == Levels \cap (q.min_grade..q.max_grade)
  IN  q.type = "open_answer" /\ (\E a, b \in expected : a # b) => expected \subseteq q.headings

QuestionIn(q) ==
  /\ q.specializations # <<>> /\ q.frequency \in 1..5
  /\ check_grades(q) /\ check_options(q) /\ check_answer(q)
  /\ reject_duplicates(q.specializations)

(* Which subsections each section of each specialization has.              *)
TaxonomyIndex(tax) ==
  [s \in DOMAIN tax.topics |->
     [code \in Range(Column(tax.topics[s], "code")) |->
        UNION {Range(t.subtopics) : t \in {u \in Range(tax.topics[s]) : u.code = code}}]]

(* The sections of each specialization, as tables and bundle hold them.    *)
TopicRows(tax) ==
  [s \in DOMAIN tax.topics |->
     [code \in Range(Column(tax.topics[s], "code")) |->
        LET t == CHOOSE u \in Range(tax.topics[s]) : u.code = code
        IN  [subtopics |-> Range(t.subtopics), weights |-> t.weights]]]

index_check(index, q) ==
  \A s \in Range(q.specializations) :
    /\ s \in DOMAIN index
    /\ q.topic \in DOMAIN index[s]
    /\ q.subtopic \in index[s][q.topic] \cup {None}

(* A missing, empty or unreadable file is a directory without it, or with  *)
(* a file of no questions.                                                 *)
load_questions(file, tax) ==
  /\ file # <<>>
  /\ \A q \in Range(file) : QuestionIn(q) /\ index_check(TaxonomyIndex(tax), q)
  /\ reject_duplicates(Column(file, "slug"))

collect_files(dir) == /\ dir.files # <<>>
                      /\ \A f \in Range(dir.files) : load_questions(f, dir.tax)

(* The questions of all files, each at its file and its place in it.       *)
Incoming(dir) ==
  [at \in UNION {{f} \X DOMAIN dir.files[f] : f \in DOMAIN dir.files} |-> dir.files[at[1]][at[2]]]

-----------------------------------------------------------------------------
(* The columns of "questions" a client sees; the identifier is             *)
(* derived from the slug, the start difficulty from the peak grade.        *)

FieldsOf(q) ==
  [topic |-> q.topic, subtopic |-> q.subtopic, type |-> q.type,
   min_grade |-> q.min_grade, peak_grade |-> q.peak_grade, max_grade |-> q.max_grade,
   frequency |-> q.frequency, text |-> q.text]

StartDifficulty(q) ==
  IF q.difficulty_rating # None /\ q.difficulty_rating # 0
  THEN q.difficulty_rating ELSE 1000 + 130 * q.peak_grade

(* The bundle: the tree of professions, specializations and sections, and  *)
(* the questions of the active specializations, in the order of the files. *)
(* A specialization that is not active shows no sections.                  *)
visible_topics(topics, s, is_active) ==
  IF is_active /\ s \in DOMAIN topics THEN topics[s] ELSE <<>>

taxonomy_payload(tax) ==
  [p \in Range(Column(tax.professions, "id")) |->
     LET specs == UNION {Range(r.specializations) : r \in {q \in Range(tax.professions) : q.id = p}}
     IN  {[id |-> s.id, is_active |-> s.is_active,
           topics |-> visible_topics(TopicRows(tax), s.id, s.is_active)] : s \in specs}]

question_payload(q) ==
  [id |-> q.slug, fields |-> FieldsOf(q), specializations |-> Range(q.specializations),
   options |-> q.options, difficulty |-> StartDifficulty(q), is_verified |-> FALSE]

Exported(dir) ==
  LET all == Incoming(dir)
  IN  Restrict(all, {at \in DOMAIN all : Range(all[at].specializations) \cap Active(dir.tax) # {}})

Bundle(dir) ==
  [taxonomy  |-> taxonomy_payload(dir.tax),
   questions |-> [at \in DOMAIN Exported(dir) |-> question_payload(Exported(dir)[at])]]

BundleBuilds(dir) == /\ TaxonomyFile(dir.tax)
                     /\ \A f \in Range(dir.files) : load_questions(f, dir.tax)
=============================================================================
