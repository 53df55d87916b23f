--------------------------- MODULE ServerAccount ----------------------------
(***************************************************************************)
(* What a person does with an account on the server, by requests that may  *)
(* overlap: registering and signing in (services/auth.py, behind the limit *)
(* of RateLimit), choosing a specialization and deleting the account       *)
(* (services/user.py), making a plan (services/plan.py) and sending in a   *)
(* question from an interview (services/reports.py).                       *)
(*                                                                         *)
(* Each request is one transaction at READ COMMITTED over one SQLAlchemy   *)
(* session: a read sees what is committed, but a row the session holds     *)
(* already keeps the values it was loaded with; a flush writes the columns *)
(* that differ from those.  Locks are held until the transaction ends.     *)
(***************************************************************************)
EXTENDS RateLimit

CONSTANTS
  Requests,     (* requests under way at one time or another               *)
  Accounts,     (* accounts that exist at first                            *)
  Specs,        (* specializations on offer                                *)
  Titles,       (* wordings of reported questions, by fingerprint          *)
  Tasks,        (* what a request may ask for                              *)
  Workloads,    (* what the requests ask for, one function per behaviour   *)
  Beginnings,   (* contents of the tables at first                         *)
  keysOf,       (* the limits a registration or a sign-in passes           *)
  emailOf,      (* the address of each account                             *)
  Premium,      (* accounts that have paid for plans                       *)
  DailyLimit,   (* DAILY_LIMIT: reports of one account in a day            *)
  MaxCrashes,   (* bound: transactions cut off before their commit         *)
  None

ASSUME AccountAssumption ==
  /\ Calls = Requests
  /\ Requests \cap Accounts = {}
  /\ None \notin Requests \cup Accounts
  /\ Workloads \in SUBSET [Requests -> Tasks]
  /\ keysOf \in [Tasks -> Seq(Keys)]
  /\ DOMAIN emailOf = Accounts
  /\ Premium \in SUBSET Accounts
  /\ DailyLimit \in Nat \ {0} /\ MaxCrashes \in Nat

-----------------------------------------------------------------------------
(* A task has a kind, an account and what else the kind calls for: an      *)
(* address, a specialization and whether it is the primary one, a wording. *)

Kinds == {"register", "login", "profile", "plan", "report", "delete"}
Users == Accounts \cup Requests         (* a registration names its user   *)
Flags == {"absent", "no", "yes"}        (* is a profile there, is it primary? *)

Plans   == [id: Requests \cup Accounts, user: Users, spec: Specs, active: BOOLEAN]
Reports == [user: Users, title: Titles, by: Requests \cup {None}]

(* Tokens name accounts.  At first the tables are as the properties below  *)
(* want them.                                                              *)
ASSUME TaskAssumption ==
  /\ None \notin Specs \cup Titles
  /\ \A u, v \in Accounts : emailOf[u] = emailOf[v] => u = v
  /\ \A t \in Tasks :
       /\ t.kind \in Kinds /\ t.user \in Accounts /\ t.primary \in BOOLEAN
       /\ t.spec \in Specs \cup {None} /\ t.title \in Titles \cup {None}
  /\ \A b \in Beginnings :
       /\ b.profiles \in [Specs -> Flags]
       /\ b.plans \in SUBSET {p \in Plans : p.user \in Accounts}
       /\ b.reports \in SUBSET {x \in Reports : x.user \in Accounts}
       /\ \A x, y \in b.reports : x.user = y.user /\ x.title = y.title => x = y
       /\ \A s, t \in Specs : b.profiles[s] = "yes" /\ b.profiles[t] = "yes" => s = t
       /\ (\E s \in Specs : b.profiles[s] # "absent") => \E s \in Specs : b.profiles[s] = "yes"
       /\ \A p, q \in b.plans :
            p.user = q.user /\ p.spec = q.spec /\ p.active /\ q.active => p = q
       /\ IsFiniteSet(b.reports)
       /\ \A u \in Accounts : Cardinality({x \in b.reports : x.user = u}) <= DailyLimit

VARIABLES
  task,       (* what each request asks for                                *)
  users,      (* committed users, by the address they have                 *)
  profiles,   (* committed user_specializations                            *)
  plans,      (* committed study_plans                                     *)
  reports,    (* committed question_reports                                *)
  pc,         (* where each request is                                     *)
  cache,      (* profiles the session holds, "absent" if it does not       *)
  writes,     (* flags it will write: "absent" leaves the row alone, "same" *)
              (* writes other columns of it                                *)
  seen,       (* plans found active by the UPDATE of the request           *)
  held,       (* locks of the open transaction                             *)
  status,     (* response                                                  *)
  raced,      (* history: kinds of which two of one account were open at once *)
  crashes     (* bound counter                                             *)

tables  == <<users, profiles, plans, reports>>
session == <<cache, writes, seen>>
vars    == <<limiter, task, tables, session, pc, held, status, raced, crashes>>

Places   == {"new", "limit", "insert", "verify", "find", "others", "save", "scan",
             "require", "quench", "plan", "lookup", "count", "report", "erase",
             "cascade", "commit", "done"}
Statuses == {"none", "ok", "duplicate", "conflict", "refused", "unauthorized",
             "limited", "error", "lost"}

NoProfiles == [s \in Specs |-> "absent"]

(* Every variable has its type; only a request under way holds locks.       *)
TypeOK ==
  /\ LimitTypeOK
  /\ task \in [Requests -> Tasks]
  /\ users \in SUBSET Users
  /\ profiles \in [Users -> [Specs -> Flags]]
  /\ plans \in SUBSET Plans
  /\ reports \in SUBSET Reports
  /\ pc \in [Requests -> Places]
  /\ cache \in [Requests -> [Specs -> Flags]]
  /\ writes \in [Requests -> [Specs -> Flags \cup {"same"}]]
  /\ seen \in [Requests -> SUBSET Plans]
  /\ status \in [Requests -> Statuses]
  /\ raced \in SUBSET Kinds
  /\ crashes \in Nat
  /\ \A r \in Requests : pc[r] \in {"new", "limit", "done"} => held[r] = {}

Init ==
  /\ LimitInit
  /\ task \in Workloads
  /\ \E b \in Beginnings :
       /\ profiles = [u \in Users |-> IF u \in Accounts THEN b.profiles ELSE NoProfiles]
       /\ plans = b.plans
       /\ reports = b.reports
  /\ users = Accounts
  /\ pc = [r \in Requests |-> "new"]
  /\ cache = [r \in Requests |-> NoProfiles]
  /\ writes = [r \in Requests |-> NoProfiles]
  /\ seen = [r \in Requests |-> {}]
  /\ held = [r \in Requests |-> {}]
  /\ status = [r \in Requests |-> "none"]
  /\ raced = {}
  /\ crashes = 0

-----------------------------------------------------------------------------
(* Locks.  A row that is written is locked for itself, the user a row      *)
(* refers to is locked so that it cannot go away.                          *)

Write(row) == [row |-> row, shared |-> FALSE]
Refer(row) == [row |-> row, shared |-> TRUE]

UserRow(u)       == <<"user", u>>
EmailKey(e)      == <<"email", e>>
ProfileRow(u, s) == <<"profile", u, s>>
PlanRow(id)      == <<"plan", id>>
ReportKey(u, t)  == <<"report", u, t>>

User(r)    == task[r].user
Chosen(r)   == task[r].spec
Address(u) == IF u \in Accounts THEN emailOf[u] ELSE task[u].email
Saved(r)   == {s \in Specs : writes[r][s] # "absent"}

ProfilesOf(u) == {s \in Specs : profiles[u][s] # "absent"}
PlansOf(u)    == {p \in plans : p.user = u}

(* What a request has to lock for the step it has come to.                 *)
Wanted(r) ==
  CASE pc[r] = "insert"  -> {Write(EmailKey(task[r].email)), Write(UserRow(r))}
    [] pc[r] = "save"    -> {Write(ProfileRow(User(r), s)) : s \in Saved(r)}
                              \cup {Refer(UserRow(User(r))) : s \in {s \in Saved(r) : cache[r][s] = "absent"}}
    [] pc[r] = "quench"  -> {Write(PlanRow(p.id)) : p \in seen[r]}
    [] pc[r] = "plan"    -> {Write(PlanRow(r)), Refer(UserRow(User(r)))}
    [] pc[r] = "report"  -> {Write(ReportKey(User(r), task[r].title)), Refer(UserRow(User(r)))}
    [] pc[r] = "erase"   -> {Write(UserRow(User(r))), Write(EmailKey(emailOf[User(r)]))}
                              \cup {Write(ProfileRow(User(r), s)) : s \in {s \in Specs : cache[r][s] # "absent"}}
    [] pc[r] = "cascade" -> {Write(PlanRow(p.id)) : p \in PlansOf(User(r))}
                              \cup {Write(ProfileRow(User(r), s)) : s \in ProfilesOf(User(r))}
    [] OTHER             -> {}

Clash(a, b) == a.row = b.row /\ ~(a.shared /\ b.shared)

WaitsFor(r, other) ==
  other # r /\ \E a \in Wanted(r), b \in held[other] : Clash(a, b)

Blocked(r) == \E other \in Requests : WaitsFor(r, other)

Lock(r) ==
  /\ ~Blocked(r)
  /\ held' = [held EXCEPT ![r] = @ \cup Wanted(r)]

-----------------------------------------------------------------------------
(* Common to all requests.                                                 *)

Open(r) == pc[r] \notin {"new", "limit", "done"}
Goto(r, place) == pc' = [pc EXCEPT ![r] = place]

Close(r) ==
  /\ cache' = [cache EXCEPT ![r] = NoProfiles]
  /\ writes' = [writes EXCEPT ![r] = NoProfiles]
  /\ seen' = [seen EXCEPT ![r] = {}]
  /\ held' = [held EXCEPT ![r] = {}]

Respond(r, what) ==
  /\ Goto(r, "done")
  /\ status' = [status EXCEPT ![r] = what]

(* The transaction is rolled back, or had nothing to write.                *)
Leave(r, what) ==
  /\ Close(r)
  /\ Respond(r, what)
  /\ UNCHANGED <<limiter, task, tables, raced, crashes>>

(* A step that writes nothing yet.                                         *)
Reading(r, place) ==
  /\ Goto(r, place)
  /\ UNCHANGED <<limiter, task, tables, held, status, raced, crashes>>

FirstStep(kind) ==
  CASE kind = "profile" -> "find" [] kind = "plan" -> "require"
    [] kind = "report" -> "lookup" [] kind = "delete" -> "erase"

(* The token names a user, who is loaded with all profiles, if still there. *)
(* The two selects are one step.                                           *)
Authenticate(r) ==
  /\ pc[r] = "new"
  /\ task[r].kind \notin {"register", "login"}
  /\ \/ /\ User(r) \in users
        /\ Goto(r, FirstStep(task[r].kind))
        /\ cache' = [cache EXCEPT ![r] = profiles[User(r)]]
        /\ raced' = raced \cup {task[o].kind : o \in
                      {o \in Requests : Open(o) /\ task[o].kind = task[r].kind
                                                /\ User(o) = User(r)}}
        /\ UNCHANGED <<limiter, task, tables, writes, seen, held, status, crashes>>
     \/ /\ User(r) \notin users
        /\ Leave(r, "unauthorized")

-----------------------------------------------------------------------------
(* Registering and signing in.                                             *)

Arrive(r) ==
  /\ pc[r] = "new"
  /\ task[r].kind \in {"register", "login"}
  /\ Ask(r, keysOf[task[r]])
  /\ Goto(r, "limit")
  /\ UNCHANGED <<task, tables, session, held, status, raced, crashes>>

Limit(r) ==
  /\ Check(r) \/ Cut(r)
  /\ UNCHANGED <<task, tables, session, pc, held, status, raced, crashes>>

Admit(r) ==
  /\ pc[r] = "limit"
  /\ \/ /\ stage[r] = "allowed"
        /\ Reading(r, IF task[r].kind = "register" THEN "insert" ELSE "verify")
        /\ UNCHANGED session
     \/ /\ stage[r] = "limited"
        /\ Leave(r, "limited")
     \/ /\ stage[r] = "broken"
        /\ Leave(r, "error")

(* A password that does not match is as good as an unknown address.        *)
Verify(r) ==
  /\ pc[r] = "verify"
  /\ \/ (\E u \in users : Address(u) = task[r].email) /\ Leave(r, "ok")
     \/ Leave(r, "unauthorized")

NeverTaken(e) == FALSE
Taken(e) == \E u \in users : Address(u) = e

Register(r) ==
  /\ pc[r] = "insert"
  /\ ~Blocked(r)
  /\ \/ /\ Taken(task[r].email)
        /\ Leave(r, "conflict")
     \/ /\ ~Taken(task[r].email)
        /\ Lock(r)
        /\ Goto(r, "commit")
        /\ UNCHANGED <<limiter, task, tables, session, status, raced, crashes>>

-----------------------------------------------------------------------------
(* Choosing a specialization.                                              *)

Flag(r) == IF task[r].primary THEN "yes" ELSE "no"

(* An unknown or inactive specialization is refused.  A row the session    *)
(* holds is not read again; other columns may or may not change.           *)
FindProfile(r) ==
  LET s == Chosen(r)
      found == IF cache[r][s] # "absent" THEN cache[r][s] ELSE profiles[User(r)][s]
  IN  /\ pc[r] = "find"
      /\ \/ /\ s = None
            /\ Leave(r, "refused")
         \/ /\ s # None
            /\ cache' = [cache EXCEPT ![r][s] = found]
            /\ \E w \in IF found = Flag(r) THEN {"absent", "same"} ELSE {Flag(r)} :
                 writes' = [writes EXCEPT ![r][s] = w]
            /\ Reading(r, IF task[r].primary THEN "others" ELSE "save")
            /\ UNCHANGED seen

(* Other primaries are found in the database and unset in the session: one *)
(* that the session holds as not primary counts as unchanged.              *)
KeepOthers(r) == {}
OthersPrimary(r) == {s \in Specs \ {Chosen(r)} : profiles[User(r)][s] = "yes"}

ResetOtherPrimaries(r) ==
  /\ pc[r] = "others"
  /\ cache' = [cache EXCEPT ![r] = [s \in Specs |->
                 IF s \in OthersPrimary(r) /\ cache[r][s] = "absent" THEN "yes" ELSE cache[r][s]]]
  /\ writes' = [writes EXCEPT ![r] = [s \in Specs |->
                  IF s \in OthersPrimary(r) /\ cache[r][s] # "no" THEN "no" ELSE writes[r][s]]]
  /\ Reading(r, "save")
  /\ UNCHANGED seen

(* An inserted row must be new and have its user, an updated one be there. *)
NeverGone(u) == FALSE
Gone(u) == u \notin users

SaveProfile(r) ==
  LET inserted == {s \in Saved(r) : cache[r][s] = "absent"}
      broken == \/ inserted # {} /\ Gone(User(r))
                \/ \E s \in Saved(r) : s \in inserted <=> profiles[User(r)][s] # "absent"
  IN  /\ pc[r] = "save"
      /\ ~Blocked(r)
      /\ \/ /\ broken
            /\ Leave(r, "error")
         \/ /\ ~broken
            /\ Lock(r)
            /\ Goto(r, "commit")
            /\ UNCHANGED <<limiter, task, tables, session, status, raced, crashes>>

-----------------------------------------------------------------------------
(* Making a plan.                                                          *)

Require(r) ==
  LET refused == \/ User(r) \notin Premium
                 \/ Chosen(r) = None
                 \/ cache[r][Chosen(r)] = "absent" /\ profiles[User(r)][Chosen(r)] = "absent"
  IN  /\ pc[r] = "require"
      /\ \/ refused /\ Leave(r, "refused")
         \/ ~refused /\ Reading(r, "scan") /\ UNCHANGED session

(* The UPDATE finds its rows, waits for their locks, and leaves out those  *)
(* that are not active any more by then.                                   *)
NoPrevious(r) == {}
Previous(r) == {p \in PlansOf(User(r)) : p.spec = Chosen(r) /\ p.active}

ScanPlans(r) ==
  /\ pc[r] = "scan"
  /\ seen' = [seen EXCEPT ![r] = Previous(r)]
  /\ Reading(r, "quench")
  /\ UNCHANGED <<cache, writes>>

DeactivatePrevious(r) ==
  /\ pc[r] = "quench"
  /\ Lock(r)
  /\ seen' = [seen EXCEPT ![r] = @ \cap plans]
  /\ Goto(r, "plan")
  /\ UNCHANGED <<limiter, task, tables, cache, writes, status, raced, crashes>>

NewPlan(r) == [id |-> r, user |-> User(r), spec |-> Chosen(r), active |-> TRUE]

InsertPlan(r) ==
  /\ pc[r] = "plan"
  /\ ~Blocked(r)
  /\ \/ /\ Gone(User(r))
        /\ Leave(r, "error")
     \/ /\ ~Gone(User(r))
        /\ Lock(r)
        /\ Goto(r, "commit")
        /\ UNCHANGED <<limiter, task, tables, session, status, raced, crashes>>

-----------------------------------------------------------------------------
(* Sending in a question.                                                  *)

ReportsOf(u) == {x \in reports : x.user = u}
IsReported(u, t) == \E x \in ReportsOf(u) : x.title = t

LookupReport(r) ==
  /\ pc[r] = "lookup"
  /\ \/ /\ task[r].title = None \/ Chosen(r) = None
        /\ Leave(r, "refused")
     \/ /\ task[r].title # None /\ Chosen(r) # None
        /\ IsReported(User(r), task[r].title)
        /\ Leave(r, "duplicate")
     \/ /\ task[r].title # None /\ Chosen(r) # None
        /\ ~IsReported(User(r), task[r].title)
        /\ Reading(r, "count")
        /\ UNCHANGED session

(* All reports of the account are of the last day here.                    *)
Full(u) == Cardinality(ReportsOf(u)) >= DailyLimit

CheckLimit(r) ==
  /\ pc[r] = "count"
  /\ \/ Full(User(r)) /\ Leave(r, "refused")
     \/ ~Full(User(r)) /\ Reading(r, "report") /\ UNCHANGED session

(* Nothing catches a duplicate that has appeared since the lookup.         *)
InsertReport(r) ==
  LET broken == Gone(User(r)) \/ IsReported(User(r), task[r].title)
  IN  /\ pc[r] = "report"
      /\ ~Blocked(r)
      /\ \/ /\ broken
            /\ Leave(r, "error")
         \/ /\ ~broken
            /\ Lock(r)
            /\ Goto(r, "commit")
            /\ UNCHANGED <<limiter, task, tables, session, status, raced, crashes>>

-----------------------------------------------------------------------------
(* Deleting the account: the session deletes the profiles it holds and the *)
(* user, the foreign keys take what is left of the account with it.        *)

Erase(r) ==
  /\ pc[r] = "erase"
  /\ Lock(r)
  /\ Goto(r, "cascade")
  /\ UNCHANGED <<limiter, task, tables, session, status, raced, crashes>>

Cascade(r) ==
  /\ pc[r] = "cascade"
  /\ Lock(r)
  /\ Goto(r, "commit")
  /\ UNCHANGED <<limiter, task, tables, session, status, raced, crashes>>

-----------------------------------------------------------------------------
(* The end of a request.                                                   *)

Commit(r) ==
  LET u == User(r)
      kind == task[r].kind
  IN  /\ pc[r] = "commit"
      /\ users' = CASE kind = "register" -> users \cup {r}
                    [] kind = "delete"   -> users \ {u}
                    [] OTHER             -> users
      /\ profiles' = CASE kind = "profile" -> [profiles EXCEPT ![u] = [s \in Specs |->
                            IF writes[r][s] \in {"no", "yes"} THEN writes[r][s] ELSE @[s]]]
                       [] kind = "delete"  -> [profiles EXCEPT ![u] = NoProfiles]
                       [] OTHER            -> profiles
      /\ plans' = CASE kind = "plan"   -> (plans \ seen[r]) \cup {NewPlan(r)}
                                            \cup {[p EXCEPT !.active = FALSE] : p \in seen[r]}
                    [] kind = "delete" -> plans \ PlansOf(u)
                    [] OTHER           -> plans
      /\ reports' = CASE kind = "report" -> reports \cup {[user |-> u, title |-> task[r].title, by |-> r]}
                      [] kind = "delete" -> reports \ ReportsOf(u)
                      [] OTHER           -> reports
      /\ Close(r)
      /\ Respond(r, "ok")
      /\ UNCHANGED <<limiter, task, raced, crashes>>

Deadlocked(r) ==
  \E S \in SUBSET {x \in Requests : Blocked(x)} :
    r \in S /\ \A x \in S : (\E y \in S : WaitsFor(x, y)) /\ (\E y \in S : WaitsFor(y, x))

BreakDeadlock(r) == Deadlocked(r) /\ Leave(r, "error")

(* The process or the connection dies before the commit.                   *)
Crash(r) ==
  /\ Open(r)
  /\ crashes < MaxCrashes
  /\ crashes' = crashes + 1
  /\ Close(r)
  /\ Respond(r, "lost")
  /\ UNCHANGED <<limiter, task, tables, raced>>

Elapse ==
  /\ Tick
  /\ UNCHANGED <<task, tables, session, pc, held, status, raced, crashes>>

-----------------------------------------------------------------------------
Step(r) ==
  \/ Admit(r) \/ Verify(r) \/ Register(r)
  \/ FindProfile(r) \/ ResetOtherPrimaries(r) \/ SaveProfile(r)
  \/ Require(r) \/ ScanPlans(r) \/ DeactivatePrevious(r) \/ InsertPlan(r)
  \/ LookupReport(r) \/ CheckLimit(r) \/ InsertReport(r)
  \/ Erase(r) \/ Cascade(r) \/ Commit(r)

Next ==
  \/ \E r \in Requests :
       Arrive(r) \/ Authenticate(r) \/ Limit(r) \/ Step(r) \/ BreakDeadlock(r) \/ Crash(r)
  \/ Elapse

Spec == Init /\ [][Next]_vars

(* Requests under way go on, and the keys of Redis run out.                *)
FairSpec ==
  /\ Spec
  /\ WF_vars(\E r \in Requests : Limit(r) \/ Step(r) \/ BreakDeadlock(r))
  /\ WF_vars(Elapse)

-----------------------------------------------------------------------------
(* Properties.                                                             *)

Primaries(u) == {s \in Specs : profiles[u][s] = "yes"}

(* Someone has asked for a specialization that is not to be the primary one. *)
Declined(u) ==
  \E r \in Requests : /\ task[r].kind = "profile" /\ User(r) = u /\ ~task[r].primary
                      /\ status[r] = "ok"

(* What the code keeps to one, or to a limit, by reading before it writes:
   unless two such requests of an account overlap, it has at most one primary
   specialization, at most one active plan for each specialization, and no
   more reports in a day than are allowed (user.py:84-94, models/plan.py:47,
   reports.py:28-31).  As long as nobody has declined, an account with
   profiles has exactly one primary specialization; is_primary=False may
   leave it none (user.py:54-57).                                           *)
OnlyOne ==
  \A u \in Users :
    /\ "profile" \notin raced =>
         /\ Cardinality(Primaries(u)) <= 1
         /\ Primaries(u) = {} => ProfilesOf(u) = {} \/ Declined(u)
    /\ "plan" \notin raced =>
         \A s \in Specs : Cardinality({p \in PlansOf(u) : p.spec = s /\ p.active}) <= 1
    /\ "report" \notin raced => Cardinality(ReportsOf(u)) <= DailyLimit

(* Whatever a deletion overlaps with, nothing stays of an account that is
   gone (user.py:65-71); no address has two accounts, and no account has a
   report twice.                                                            *)
Integrity ==
  /\ \A u \in Users \ users : ProfilesOf(u) = {} /\ PlansOf(u) = {} /\ ReportsOf(u) = {}
  /\ \A u, v \in users : Address(u) = Address(v) => u = v
  /\ \A x, y \in reports : x.user = y.user /\ x.title = y.title => x = y

(* Every request is answered or cut off, although requests wait for each
   other; and when they are, every window ends and lifts its limit, but for a
   cut between its two commands (rate_limit.py:61-62).                      *)
RequestsEnd ==
  <>[](/\ \A r \in Requests : pc[r] \in {"new", "done"}
       /\ cuts = 0 => \A k \in Keys : hits[k] = 0)
=============================================================================
