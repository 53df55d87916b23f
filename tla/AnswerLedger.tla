---------------------------- MODULE AnswerLedger ----------------------------
(***************************************************************************)
(* What storing an answer promises, on the device and on the server alike: *)
(* an attempt enters the log once, and with it, in one indivisible step,   *)
(* the rating of its section, the review state of its question and the     *)
(* answer counter of the profile each take it into account, once.          *)
(*                                                                         *)
(* As in the detailed modules, a rating or a review state is the bag of    *)
(* the attempts folded into it.                                            *)
(***************************************************************************)
EXTENDS Naturals, FiniteSets, TLAPS

CONSTANTS Attempts, Questions, Topics, topicOf, None

LedgerAssumption ==
  /\ topicOf \in [Questions -> Topics]
  /\ None \notin Questions

VARIABLES
  log,        (* the question each attempt answered, None before           *)
  applied,    (* per section: the attempts its rating has seen             *)
  scheduled,  (* per question: the attempts its review state has seen      *)
  total       (* answers counted in the profile                            *)

ledger == <<log, applied, scheduled, total>>

Bag == [Attempts -> Nat]
Empty == [s \in Attempts |-> 0]

LedgerTypeOK ==
  /\ log \in [Attempts -> Questions \cup {None}]
  /\ applied \in [Topics -> Bag]
  /\ scheduled \in [Questions -> Bag]
  /\ total \in Nat

LedgerInit ==
  /\ log = [s \in Attempts |-> None]
  /\ applied = [t \in Topics |-> Empty]
  /\ scheduled = [q \in Questions |-> Empty]
  /\ total = 0

Record(s, q) ==
  /\ log[s] = None
  /\ log' = [log EXCEPT ![s] = q]
  /\ applied' = [applied EXCEPT ![topicOf[q]][s] = @ + 1]
  /\ scheduled' = [scheduled EXCEPT ![q][s] = @ + 1]
  /\ total' = total + 1

LedgerNext == \E s \in Attempts, q \in Questions : Record(s, q)

LedgerSpec == LedgerInit /\ [][LedgerNext]_ledger

(* The estimates are a function of the log: each has seen exactly the logged
   attempts that concern it, each once.                                      *)
EstimatesMatchLog ==
  /\ \A t \in Topics, s \in Attempts :
       applied[t][s] = IF log[s] # None /\ topicOf[log[s]] = t THEN 1 ELSE 0
  /\ \A q \in Questions, s \in Attempts :
       scheduled[q][s] = IF log[s] = q THEN 1 ELSE 0

-----------------------------------------------------------------------------
(* In the ledger the estimates are a function of the log: each has seen    *)
(* exactly the logged attempts that concern it, each exactly once.         *)
THEOREM LedgerIsExact ==
  ASSUME LedgerAssumption
  PROVE  LedgerSpec => [](LedgerTypeOK /\ EstimatesMatchLog)
  <1>1. LedgerInit => LedgerTypeOK /\ EstimatesMatchLog
    BY LedgerAssumption
       DEF LedgerAssumption, LedgerInit, LedgerTypeOK, EstimatesMatchLog, Bag, Empty
  <1>2. ASSUME LedgerTypeOK, EstimatesMatchLog, NEW s \in Attempts, NEW q \in Questions,
               Record(s, q)
        PROVE  LedgerTypeOK' /\ EstimatesMatchLog'
    <2> DEFINE t == topicOf[q]
    <2>1. t \in Topics /\ q # None
      BY LedgerAssumption DEF LedgerAssumption
    <2>2. ASSUME NEW bag \in Bag
          PROVE  /\ [bag EXCEPT ![s] = @ + 1] \in Bag
                 /\ [bag EXCEPT ![s] = @ + 1][s] = bag[s] + 1
                 /\ \A x \in Attempts \ {s} : [bag EXCEPT ![s] = @ + 1][x] = bag[x]
      BY DEF Bag
    <2>3. /\ log' = [log EXCEPT ![s] = q]
          /\ applied' = [applied EXCEPT ![t] = [applied[t] EXCEPT ![s] = @ + 1]]
          /\ scheduled' = [scheduled EXCEPT ![q] = [scheduled[q] EXCEPT ![s] = @ + 1]]
          /\ total' = total + 1 /\ log[s] = None
      BY <1>2 DEF Record
    <2>4. applied[t] \in Bag /\ scheduled[q] \in Bag
      BY <1>2, <2>1 DEF LedgerTypeOK
    <2>5. LedgerTypeOK'
      <3>1. [applied[t] EXCEPT ![s] = @ + 1] \in Bag /\ [scheduled[q] EXCEPT ![s] = @ + 1] \in Bag
        BY <2>2, <2>4
      <3>2. applied' \in [Topics -> Bag] /\ scheduled' \in [Questions -> Bag]
        BY <1>2, <2>3, <3>1 DEF LedgerTypeOK
      <3>3. log' \in [Attempts -> Questions \cup {None}] /\ total' \in Nat
        BY <1>2, <2>3 DEF LedgerTypeOK
      <3>4. QED
        BY <3>2, <3>3 DEF LedgerTypeOK
    <2>6. log'[s] = q /\ \A x \in Attempts \ {s} : log'[x] = log[x]
      BY <1>2, <2>3 DEF LedgerTypeOK
    <2>7. ASSUME NEW u \in Topics, NEW x \in Attempts
          PROVE  applied'[u][x] = IF log'[x] # None /\ topicOf[log'[x]] = u THEN 1 ELSE 0
      <3>1. applied[u][x] = IF log[x] # None /\ topicOf[log[x]] = u THEN 1 ELSE 0
        BY <1>2 DEF EstimatesMatchLog
      <3>2. applied'[u] = IF u = t THEN [applied[t] EXCEPT ![s] = @ + 1] ELSE applied[u]
        BY <1>2, <2>1, <2>3 DEF LedgerTypeOK
      <3>3. CASE x = s
        BY <2>1, <2>2, <2>3, <2>4, <2>6, <3>1, <3>2, <3>3
      <3>4. CASE x # s
        BY <2>2, <2>4, <2>6, <3>1, <3>2, <3>4
      <3>5. QED
        BY <3>3, <3>4
    <2>8. ASSUME NEW p \in Questions, NEW x \in Attempts
          PROVE  scheduled'[p][x] = IF log'[x] = p THEN 1 ELSE 0
      <3>1. scheduled[p][x] = IF log[x] = p THEN 1 ELSE 0
        BY <1>2 DEF EstimatesMatchLog
      <3>2. scheduled'[p] = IF p = q THEN [scheduled[q] EXCEPT ![s] = @ + 1] ELSE scheduled[p]
        BY <1>2, <2>3 DEF LedgerTypeOK
      <3>3. p # None
        BY LedgerAssumption DEF LedgerAssumption
      <3>4. CASE x = s
        BY <2>2, <2>3, <2>4, <2>6, <3>1, <3>2, <3>3, <3>4
      <3>5. CASE x # s
        BY <2>2, <2>4, <2>6, <3>1, <3>2, <3>5
      <3>6. QED
        BY <3>4, <3>5
    <2>9. EstimatesMatchLog'
      BY <2>7, <2>8 DEF EstimatesMatchLog
    <2>10. QED
      BY <2>5, <2>9
  <1>3. LedgerTypeOK /\ EstimatesMatchLog /\ [LedgerNext]_ledger
          => LedgerTypeOK' /\ EstimatesMatchLog'
    <2>1. CASE UNCHANGED ledger
      BY <2>1 DEF ledger, LedgerTypeOK, EstimatesMatchLog
    <2>2. QED
      BY <1>2, <2>1 DEF LedgerNext
  <1>4. QED
    BY <1>1, <1>3, PTL DEF LedgerSpec
=============================================================================
