--------------------------- MODULE MCServerContent ---------------------------
(* Instances of ServerContent for TLC: the directories.                    *)
EXTENDS ServerContent

CONSTANTS s1, s2, p1, p2, t1, t2, u1, u2, q1, q2, q3

Spec_(id, active) == [id |-> id, is_active |-> active]
Prof(id, specs)   == [id |-> id, specializations |-> specs]
Topic(code, subs) == [code |-> code, subtopics |-> subs, weights |-> [g \in Grades |-> 5]]
Option(code, ok)  == [code |-> code, is_correct |-> ok]

Options1 == <<Option("a", TRUE), Option("b", FALSE)>>
Options2 == <<Option("a", FALSE), Option("b", TRUE)>>

ChoiceQ == [slug |-> q1, specializations |-> <<s1>>, topic |-> t1, subtopic |-> u1,
            min_grade |-> 0, peak_grade |-> 3, max_grade |-> 6, frequency |-> 5,
            type |-> "single_choice", options |-> Options1, headings |-> {},
            text |-> 1, source |-> "seed", difficulty_rating |-> None]
OpenQ   == [ChoiceQ EXCEPT !.slug = q2, !.specializations = <<s1, s2>>, !.subtopic = None,
                           !.type = "open_answer", !.options = <<>>, !.headings = Levels]
ShortQ  == [OpenQ EXCEPT !.slug = q3, !.specializations = <<s2>>, !.type = "short_answer"]

First ==
  [tax   |-> [professions |-> <<Prof(p1, <<Spec_(s1, TRUE), Spec_(s2, FALSE)>>)>>,
              topics      |-> [s \in {s1, s2} |-> <<Topic(t1, <<u1, u2>>), Topic(t2, <<u2>>)>>]],
   files |-> <<<<ChoiceQ>>, <<OpenQ>>>>]

(* s1 in another profession, a section gone, the key of q1 corrected, the  *)
(* text of q2 edited.                                                      *)
Edited ==
  [tax   |-> [professions |-> <<Prof(p1, <<Spec_(s2, TRUE)>>), Prof(p2, <<Spec_(s1, TRUE)>>)>>,
              topics      |-> [s \in {s1, s2} |-> <<Topic(t1, <<u1>>)>>]],
   files |-> <<<<[ChoiceQ EXCEPT !.options = Options2]>>, <<[OpenQ EXCEPT !.text = 2], ShortQ>>>>]

(* The profession p1 gone with s2, s1 moved out of it; q1 moved away, q2   *)
(* with a difficulty of its own.                                           *)
Reorganized ==
  [tax   |-> [professions |-> <<Prof(p2, <<Spec_(s1, TRUE)>>)>>,
              topics      |-> [s \in {s1} |-> <<Topic(t2, <<u2>>), Topic(t1, <<u1>>)>>]],
   files |-> <<<<[OpenQ EXCEPT !.specializations = <<s1>>, !.difficulty_rating = 1200]>>>>]

(* Directories that do not load, or not twice.                             *)
BadWeights  == [First EXCEPT !.tax.topics[s1][1].weights = [g \in 0..5 |-> 5]]
BadTopic    == [Edited EXCEPT !.files[2][1].topic = t2]
TwiceListed == [First EXCEPT !.tax.professions = @ \o <<Prof(p2, <<Spec_(s1, TRUE)>>)>>]
SameSlug    == [First EXCEPT !.files[2][1].slug = q1]
Imported    == [First EXCEPT !.files[1][1].source = "imported"]

MCContents == {First, Edited, Reorganized, BadWeights, BadTopic, TwiceListed, SameSlug, Imported}
MCReleased == {First, Imported, TwiceListed}
=============================================================================
