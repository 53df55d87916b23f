-------------------------- MODULE MCServerAccount --------------------------
(* Values for the constants of ServerAccount: one account, three requests.  *)
EXTENDS ServerAccount

CONSTANTS r1, r2, r3, u1, s1, s2, t1, t2, mail, other

MCEmailOf  == [u \in {u1} |-> mail]
MCKeys     == {"register:ip", "login:ip", "login:email"}
MCAttempts == [k \in MCKeys |-> IF k = "register:ip" THEN 2 ELSE 1]

Blank == [kind |-> "login", user |-> u1, email |-> mail, spec |-> None,
          primary |-> FALSE, title |-> None]

TaskList ==
  << [Blank EXCEPT !.kind = "register"],
     [Blank EXCEPT !.kind = "register", !.email = other],
     Blank,
     [Blank EXCEPT !.kind = "profile", !.spec = s1, !.primary = TRUE],
     [Blank EXCEPT !.kind = "profile", !.spec = s2, !.primary = TRUE],
     [Blank EXCEPT !.kind = "profile", !.spec = s2],
     [Blank EXCEPT !.kind = "profile"],
     [Blank EXCEPT !.kind = "plan", !.spec = s1],
     [Blank EXCEPT !.kind = "report", !.spec = s1, !.title = t1],
     [Blank EXCEPT !.kind = "report", !.spec = s1, !.title = t2],
     [Blank EXCEPT !.kind = "report", !.spec = s1],
     [Blank EXCEPT !.kind = "delete"] >>

MCTasks == {TaskList[i] : i \in DOMAIN TaskList}

(* Two requests of any kinds, and a third that repeats the second, unless    *)
(* that is refused or changes nothing, or deletes the account.  What comes  *)
(* without a token (the first three) meets the rest only by a deletion.     *)
Repeated  == {1, 2, 4, 5, 6, 8, 9, 10}
Tokenless == 1..3
Deletion  == Len(TaskList)

MCWorkloads ==
  { [r \in {r1, r2, r3} |-> TaskList[CASE r = r1 -> t[1] [] r = r2 -> t[2] [] r = r3 -> t[3]]] :
      t \in {t \in (DOMAIN TaskList) \X (DOMAIN TaskList) \X (DOMAIN TaskList) :
              /\ t[1] <= t[2]
              /\ t[1] \in Tokenless => t[2] \in Tokenless \cup {Deletion}
              /\ t[3] \in ({t[2]} \cap Repeated) \cup {Deletion}} }

MCKeysOf ==
  [t \in MCTasks |-> CASE t.kind = "register" -> <<"register:ip">>
                       [] t.kind = "login"    -> <<"login:ip", "login:email">>
                       [] OTHER               -> <<>>]

(* A fresh account, and one with two specializations and a plan.            *)
MCBeginnings ==
  { [profiles |-> [s \in {s1, s2} |-> "absent"], plans |-> {}, reports |-> {}],
    [profiles |-> [s \in {s1, s2} |-> IF s = s1 THEN "yes" ELSE "no"],
     plans |-> {[id |-> u1, user |-> u1, spec |-> s1, active |-> TRUE]},
     reports |-> {}] }
=============================================================================
