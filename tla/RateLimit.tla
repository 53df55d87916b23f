----------------------------- MODULE RateLimit ------------------------------
(***************************************************************************)
(* The limit on sign-ins and registrations (backend/app/core/rate_limit.py *)
(* over Redis).  A check is two or three commands: INCR, EXPIRE by the one *)
(* that created the key, and a comparison.  Commands of other checks, the  *)
(* expiry of the key and the death of the process come between them.       *)
(*                                                                         *)
(* A call checks the keys of its endpoint one after the other: the address *)
(* for a registration, address and e-mail for a sign-in (api/v1/auth.py).  *)
(***************************************************************************)
EXTENDS Naturals, Sequences, FiniteSets

CONSTANTS
  Calls,       (* requests to the limited endpoints                        *)
  Keys,        (* one per scope and identity                               *)
  attempts,    (* attempts a window allows, per key                        *)
  Window,      (* its length                                               *)
  MaxCuts      (* bound: commands that raise, processes that die           *)

ASSUME LimitAssumption ==
  /\ attempts \in [Keys -> Nat]
  /\ Window \in Nat \ {0}
  /\ MaxCuts \in Nat

VARIABLES
  hits,      (* value of each key, 0 when it does not exist                *)
  ttl,       (* what is left of its life, 0 when no end is set             *)
  stage,     (* where the check of a call is                               *)
  left,      (* the keys it has not passed yet                             *)
  used,      (* what INCR has returned to it                               *)
  counted,   (* history: the calls counted since the key appeared          *)
  cuts       (* bound counter                                              *)

limiter == <<hits, ttl, stage, left, used, counted, cuts>>

Stages == {"idle", "count", "expire", "judge", "allowed", "limited", "broken"}

(* A call is at work on the first of the keys that are left to it.         *)
LimitTypeOK ==
  /\ hits \in [Keys -> Nat]
  /\ ttl \in [Keys -> 0..Window]
  /\ stage \in [Calls -> Stages]
  /\ left \in [Calls -> Seq(Keys)]
  /\ used \in [Calls -> Nat]
  /\ counted \in [Keys -> SUBSET Calls]
  /\ cuts \in Nat
  /\ \A c \in Calls : stage[c] \in {"count", "expire", "judge"} => left[c] # <<>>

LimitInit ==
  /\ hits = [k \in Keys |-> 0]
  /\ ttl = [k \in Keys |-> 0]
  /\ stage = [c \in Calls |-> "idle"]
  /\ left = [c \in Calls |-> <<>>]
  /\ used = [c \in Calls |-> 0]
  /\ counted = [k \in Keys |-> {}]
  /\ cuts = 0

-----------------------------------------------------------------------------
Current(c) == Head(left[c])

Ask(c, keys) ==
  /\ stage[c] = "idle"
  /\ keys # <<>>
  /\ stage' = [stage EXCEPT ![c] = "count"]
  /\ left' = [left EXCEPT ![c] = keys]
  /\ UNCHANGED <<hits, ttl, used, counted, cuts>>

(* INCR.  Only the call that created the key goes on to set its end.       *)
EveryHit(n) == TRUE
NoHit(n) == FALSE
FirstHit(n) == n = 1

Count(c) ==
  LET k == Current(c)
  IN  /\ stage[c] = "count"
      /\ hits' = [hits EXCEPT ![k] = @ + 1]
      /\ used' = [used EXCEPT ![c] = hits[k] + 1]
      /\ counted' = [counted EXCEPT ![k] = @ \cup {c}]
      /\ stage' = [stage EXCEPT ![c] = IF FirstHit(hits[k] + 1) THEN "expire" ELSE "judge"]
      /\ UNCHANGED <<ttl, left, cuts>>

(* EXPIRE does nothing to a key that does not exist.                       *)
SetExpiry(c) ==
  LET k == Current(c)
  IN  /\ stage[c] = "expire"
      /\ ttl' = [ttl EXCEPT ![k] = IF hits[k] > 0 THEN Window ELSE 0]
      /\ stage' = [stage EXCEPT ![c] = "judge"]
      /\ UNCHANGED <<hits, left, used, counted, cuts>>

(* Over the limit the call is refused, with the time to wait; otherwise it *)
(* goes on to the next key.                                                *)
OverByTwo(n, k) == n > attempts[k] + 1
Over(n, k) == n > attempts[k]

AlwaysOneMore(c) == "count"
Onward(c) == IF Len(left[c]) = 1 THEN "allowed" ELSE "count"

Judge(c) ==
  /\ stage[c] = "judge"
  /\ \/ /\ Over(used[c], Current(c))
        /\ stage' = [stage EXCEPT ![c] = "limited"]
        /\ UNCHANGED left
     \/ /\ ~Over(used[c], Current(c))
        /\ left' = [left EXCEPT ![c] = Tail(@)]
        /\ stage' = [stage EXCEPT ![c] = Onward(c)]
  /\ UNCHANGED <<hits, ttl, used, counted, cuts>>

(* Redis is away, or the process dies: what was not sent is not sent.      *)
Cut(c) ==
  /\ stage[c] \in {"count", "expire", "judge"}
  /\ cuts < MaxCuts
  /\ cuts' = cuts + 1
  /\ stage' = [stage EXCEPT ![c] = "broken"]
  /\ UNCHANGED <<hits, ttl, left, used, counted>>

(* Time passes for the keys whose end is set.                              *)
Tick ==
  /\ \E k \in Keys : ttl[k] > 0
  /\ ttl' = [k \in Keys |-> IF ttl[k] > 0 THEN ttl[k] - 1 ELSE 0]
  /\ hits' = [k \in Keys |-> IF ttl[k] = 1 THEN 0 ELSE hits[k]]
  /\ counted' = [k \in Keys |-> IF ttl[k] = 1 THEN {} ELSE counted[k]]
  /\ UNCHANGED <<stage, left, used, cuts>>

Check(c) == Count(c) \/ SetExpiry(c) \/ Judge(c)

LimitNext ==
  \/ \E c \in Calls : Check(c) \/ Cut(c) \/ \E keys \in Seq(Keys) : Ask(c, keys)
  \/ Tick

LimitSpec == LimitInit /\ [][LimitNext]_limiter

-----------------------------------------------------------------------------
(* Properties.                                                             *)

(* The end of a window, once set, is never put off, however many requests
   keep coming: otherwise the limit would never be lifted
   (rate_limit.py:61-62).                                                   *)
WindowNeverProlonged ==
  [][\A k \in Keys : ttl'[k] > ttl[k] => ttl[k] = 0 /\ hits[k] > 0]_limiter

(* Of the calls counted since the key appeared, no more than the attempts of
   the window get past it, whatever happens between INCR and the comparison. *)
Passed(c, k) ==
  stage[c] # "idle" /\ \A i \in DOMAIN left[c] : left[c][i] # k

LimitHolds ==
  \A k \in Keys : Cardinality({c \in counted[k] : Passed(c, k)}) <= attempts[k]
=============================================================================
