------------------------ MODULE ServerAccountProofs -------------------------
(***************************************************************************)
(* The requests of ServerAccount use the limiter as RateLimit describes    *)
(* it, so what is proved of the limiter holds inside the server.  The locks *)
(* they take keep the accounts whole; and where two of a kind do not race, *)
(* what one has read holds until it writes.                                *)
(***************************************************************************)
EXTENDS ServerAccount, SequenceTheorems, FiniteSetTheorems, TLAPS

-----------------------------------------------------------------------------
(***************************************************************************)
(* The limiter on its own: its types, and that the end of a window is set  *)
(* once.  While a call is between INCR and EXPIRE its key has no end yet,  *)
(* therefore does not expire, and therefore no other call creates it.      *)
(***************************************************************************)

(* The only call on its way to set the end of a key is the one that created
   it; a key that does not exist has no end.                                *)
OneCreator ==
  /\ \A k \in Keys : hits[k] = 0 => ttl[k] = 0
  /\ \A c \in Calls : stage[c] = "expire" =>
       /\ hits[Current(c)] > 0 /\ ttl[Current(c)] = 0
       /\ \A d \in Calls : stage[d] = "expire" /\ Current(d) = Current(c) => d = c

IInv == LimitTypeOK /\ OneCreator

LEMMA CurrentIsKey ==
  ASSUME LimitTypeOK, NEW c \in Calls, stage[c] \in {"count", "expire", "judge"}
  PROVE  Current(c) \in Keys /\ Tail(left[c]) \in Seq(Keys) /\ Len(left[c]) \in Nat \ {0}
  <1>1. left[c] \in Seq(Keys) /\ left[c] # <<>>
    BY DEF LimitTypeOK
  <1> QED
    BY <1>1 DEF Current

LEMMA MoreToCome ==
  ASSUME NEW S, NEW s \in Seq(S), s # <<>>, Len(s) # 1
  PROVE  Tail(s) # <<>>
  <1>1. Len(s) \in Nat \ {0}
    BY EmptySeq
  <1>2. Len(Tail(s)) = Len(s) - 1
    BY HeadTailProperties
  <1>3. Len(Tail(s)) # 0
    BY <1>1, <1>2
  <1>4. Tail(s) = <<>> => Len(Tail(s)) = 0
    BY EmptySeq, Zenon
  <1> QED
    BY <1>3, <1>4, Zenon

LEMMA Initially == LimitInit => IInv
  BY LimitAssumption DEF LimitInit, IInv, LimitTypeOK, OneCreator, Stages

(* What the calls hold of a key depends on stage and left alone.           *)
LEMMA AskKeeps ==
  ASSUME IInv, NEW c \in Calls, NEW keys \in Seq(Keys), Ask(c, keys)
  PROVE  IInv'
  <1> USE DEF IInv
  <1>1. LimitTypeOK'
    BY LimitAssumption DEF Ask, LimitTypeOK, Stages
  <1>2. \A d \in Calls : stage'[d] = "expire" => stage[d] = "expire" /\ left'[d] = left[d]
    BY DEF Ask, LimitTypeOK, Stages
  <1>3. OneCreator'
    BY <1>2 DEF Ask, OneCreator, Current, LimitTypeOK
  <1> QED
    BY <1>1, <1>3

LEMMA CountKeeps ==
  ASSUME IInv, NEW c \in Calls, Count(c)
  PROVE  IInv'
  <1> USE DEF IInv
  <1> DEFINE k == Current(c)
  <1>1. k \in Keys /\ stage[c] = "count"
    BY CurrentIsKey DEF Count
  <1>2. hits[k] \in Nat /\ (FirstHit(hits[k] + 1) <=> hits[k] = 0)
    BY <1>1 DEF LimitTypeOK, FirstHit
  <1>3. LimitTypeOK'
    BY <1>1, LimitAssumption DEF Count, LimitTypeOK, Stages, FirstHit
  <1>4. /\ \A d \in Calls \ {c} : stage'[d] = stage[d]
        /\ stage'[c] = "expire" => hits[k] = 0
        /\ left' = left /\ ttl' = ttl
        /\ \A x \in Keys : hits'[x] = IF x = k THEN hits[k] + 1 ELSE hits[x]
    BY <1>1, <1>2 DEF Count, LimitTypeOK, Stages, FirstHit
  <1>5. \A d \in Calls : stage[d] = "expire" => Current(d) \in Keys
    BY CurrentIsKey
  <1>6. \A d \in Calls : Current(d)' = Current(d)
    BY <1>4 DEF Current
  <1>7. OneCreator'
    <2>1. ASSUME NEW x \in Keys, hits'[x] = 0
          PROVE  ttl'[x] = 0
      BY <1>1, <1>2, <1>4, <2>1 DEF OneCreator, LimitTypeOK
    <2>2. ASSUME NEW d \in Calls, stage'[d] = "expire"
          PROVE  /\ hits'[Current(d)'] > 0 /\ ttl'[Current(d)'] = 0
                 /\ \A e \in Calls : stage'[e] = "expire" /\ Current(e)' = Current(d)' => e = d
      <3>1. CASE d = c
        BY <1>1, <1>2, <1>4, <1>5, <1>6, <2>2, <3>1 DEF OneCreator, LimitTypeOK
      <3>2. CASE d # c
        <4>1. /\ stage[d] = "expire" /\ Current(d) \in Keys /\ Current(d)' = Current(d)
              /\ hits[Current(d)] > 0 /\ ttl[Current(d)] = 0
              /\ \A e \in Calls : stage[e] = "expire" /\ Current(e) = Current(d) => e = d
          BY <1>4, <1>5, <1>6, <2>2, <3>2 DEF OneCreator
        <4>2. hits'[Current(d)] > 0 /\ ttl'[Current(d)] = 0
          BY <1>2, <1>4, <4>1
        <4>3. ~ (stage'[c] = "expire" /\ k = Current(d))
          BY <1>4, <4>1 DEF LimitTypeOK
        <4>4. ASSUME NEW e \in Calls, stage'[e] = "expire", Current(e) = Current(d)
              PROVE  e = d
          BY <1>4, <4>1, <4>3, <4>4
        <4> QED
          BY <1>6, <4>1, <4>2, <4>4
      <3> QED
        BY <3>1, <3>2
    <2> QED
      BY <2>1, <2>2 DEF OneCreator
  <1> QED
    BY <1>3, <1>7

LEMMA SetExpiryKeeps ==
  ASSUME IInv, NEW c \in Calls, SetExpiry(c)
  PROVE  IInv'
  <1> USE DEF IInv
  <1> DEFINE k == Current(c)
  <1>1. k \in Keys /\ stage[c] = "expire" /\ hits[k] > 0
    BY CurrentIsKey DEF SetExpiry, OneCreator
  <1>2. LimitTypeOK'
    BY <1>1, LimitAssumption DEF SetExpiry, LimitTypeOK, Stages
  <1>3. /\ \A d \in Calls : stage'[d] = "expire" => d # c /\ stage[d] = "expire"
        /\ left' = left /\ hits' = hits
        /\ \A x \in Keys : x # k => ttl'[x] = ttl[x]
    BY <1>1 DEF SetExpiry, LimitTypeOK
  <1>4. \A d \in Calls : stage[d] = "expire" => Current(d) \in Keys
    BY CurrentIsKey
  <1>5. \A d \in Calls : Current(d)' = Current(d)
    BY <1>3 DEF Current
  <1>6. OneCreator'
    BY <1>1, <1>3, <1>4, <1>5 DEF OneCreator
  <1> QED
    BY <1>2, <1>6

LEMMA JudgeKeeps ==
  ASSUME IInv, NEW c \in Calls, Judge(c)
  PROVE  IInv'
  <1> USE DEF IInv
  <1>1. stage[c] = "judge" /\ Tail(left[c]) \in Seq(Keys) /\ Len(left[c]) \in Nat \ {0}
    BY CurrentIsKey DEF Judge
  <1>2. LimitTypeOK'
    <2>1. CASE Over(used[c], Current(c))
      BY <1>1, <2>1, LimitAssumption DEF Judge, LimitTypeOK, Stages
    <2>2. CASE ~Over(used[c], Current(c))
      <3>1. Onward(c) = "count" => Tail(left[c]) # <<>>
        <4>1. left[c] \in Seq(Keys) /\ left[c] # <<>>
          BY <1>1 DEF LimitTypeOK
        <4> QED
          BY <4>1, MoreToCome DEF Onward
      <3> QED
        BY <1>1, <2>2, <3>1, LimitAssumption DEF Judge, LimitTypeOK, Stages, Onward
    <2> QED
      BY <2>1, <2>2
  <1>3. \A d \in Calls : stage'[d] = "expire" => stage[d] = "expire" /\ left'[d] = left[d]
    BY <1>1 DEF Judge, LimitTypeOK, Onward
  <1>4. OneCreator'
    BY <1>3 DEF Judge, OneCreator, Current
  <1> QED
    BY <1>2, <1>4

LEMMA CutKeeps ==
  ASSUME IInv, NEW c \in Calls, Cut(c)
  PROVE  IInv'
  <1> USE DEF IInv
  <1>1. LimitTypeOK'
    BY LimitAssumption DEF Cut, LimitTypeOK, Stages
  <1>2. \A d \in Calls : stage'[d] = "expire" => stage[d] = "expire" /\ left'[d] = left[d]
    BY DEF Cut, LimitTypeOK
  <1>3. OneCreator'
    BY <1>2 DEF Cut, OneCreator, Current
  <1> QED
    BY <1>1, <1>3

LEMMA TickKeeps ==
  ASSUME IInv, Tick
  PROVE  IInv'
  <1> USE DEF IInv
  <1>1. \A k \in Keys : /\ ttl'[k] = IF ttl[k] > 0 THEN ttl[k] - 1 ELSE 0
                        /\ hits'[k] = IF ttl[k] = 1 THEN 0 ELSE hits[k]
    BY DEF Tick
  <1>2. LimitTypeOK'
    BY LimitAssumption DEF Tick, LimitTypeOK
  <1>3. \A d \in Calls : stage[d] = "expire" => Current(d) \in Keys
    BY CurrentIsKey
  <1>4. OneCreator'
    BY <1>1, <1>3, LimitAssumption DEF Tick, OneCreator, Current, LimitTypeOK
  <1> QED
    BY <1>2, <1>4

LEMMA StepKeeps == IInv /\ [LimitNext]_limiter => IInv'
  <1> SUFFICES ASSUME IInv, [LimitNext]_limiter
               PROVE  IInv'
    OBVIOUS
  <1>1. ASSUME NEW c \in Calls, Check(c)
        PROVE  IInv'
    BY <1>1, CountKeeps, SetExpiryKeeps, JudgeKeeps DEF Check
  <1>2. ASSUME NEW c \in Calls, Cut(c)
        PROVE  IInv'
    BY <1>2, CutKeeps
  <1>3. ASSUME NEW c \in Calls, NEW keys \in Seq(Keys), Ask(c, keys)
        PROVE  IInv'
    BY <1>3, AskKeeps
  <1>4. CASE Tick
    BY <1>4, TickKeeps
  <1>5. CASE UNCHANGED limiter
    BY <1>5 DEF limiter, IInv, LimitTypeOK, OneCreator, Current
  <1> QED
    BY <1>1, <1>2, <1>3, <1>4, <1>5 DEF LimitNext

LEMMA Invariant == LimitSpec => []IInv
  BY Initially, StepKeeps, PTL DEF LimitSpec

(* Every call is at work on a key that is left to it, whatever the others do
   and whichever command fails.                                             *)
THEOREM LimiterTypeCorrect == LimitSpec => []LimitTypeOK
  BY Invariant, PTL DEF IInv

(* The end of a window, once set, is never put off.                        *)
THEOREM WindowEndsOnTime == LimitSpec => WindowNeverProlonged
  <1>1. ASSUME IInv, [LimitNext]_limiter
        PROVE  [\A k \in Keys : ttl'[k] > ttl[k] => ttl[k] = 0 /\ hits[k] > 0]_limiter
    <2>1. ASSUME NEW c \in Calls, SetExpiry(c), NEW k \in Keys, ttl'[k] > ttl[k]
          PROVE  ttl[k] = 0 /\ hits[k] > 0
      <3>1. Current(c) \in Keys /\ stage[c] = "expire"
        BY <1>1, <2>1, CurrentIsKey DEF SetExpiry, IInv
      <3>2. k = Current(c)
        BY <1>1, <2>1, <3>1 DEF SetExpiry, IInv, LimitTypeOK
      <3> QED
        BY <1>1, <3>1, <3>2 DEF IInv, OneCreator
    <2>2. ASSUME Tick, NEW k \in Keys
          PROVE  ~(ttl'[k] > ttl[k])
      BY <1>1, <2>2, LimitAssumption DEF Tick, IInv, LimitTypeOK
    <2>3. CASE ttl' = ttl
      BY <1>1, <2>3, LimitAssumption DEF IInv, LimitTypeOK
    <2> QED
      BY <1>1, <2>1, <2>2, <2>3
      DEF LimitNext, Check, Count, Judge, Cut, Ask, limiter
  <1> QED
    BY <1>1, Invariant, PTL DEF LimitSpec, WindowNeverProlonged

-----------------------------------------------------------------------------
(* The limit itself.  The values INCR has returned number the calls counted
   since a key appeared: different calls have different numbers, a call that
   is about to be judged has the number it was given last, and one that has
   passed has a number within the limit.                                    *)
Numbers(k, f) ==
  /\ f \in [counted[k] -> 1..hits[k]]
  /\ \A c, d \in counted[k] : f[c] = f[d] => c = d
  /\ \A c \in counted[k] : Passed(c, k) => f[c] <= attempts[k]
  /\ \A c \in counted[k] : stage[c] \in {"expire", "judge"} /\ Current(c) = k => f[c] = used[c]

Numbered == \A k \in Keys : \E f : Numbers(k, f)
NotYet   == \A c \in Calls : stage[c] = "idle" => \A k \in Keys : c \notin counted[k]
LInv     == IInv /\ NotYet /\ Numbered

(* A step that leaves a key and what the calls counted by it hold of it
   keeps their numbers.                                                     *)
LEMMA NumbersStay ==
  ASSUME NEW k \in Keys, NEW f, Numbers(k, f),
         hits'[k] = hits[k], counted'[k] = counted[k],
         \A c \in counted[k] :
           /\ Passed(c, k)' => Passed(c, k)
           /\ stage'[c] \in {"expire", "judge"} /\ Current(c)' = k =>
                /\ stage[c] \in {"expire", "judge"} /\ Current(c) = k
                /\ used'[c] = used[c]
  PROVE  Numbers(k, f)'
  BY DEF Numbers

(* The head of what is left is not another key, so its rest has the key k
   where the whole had it.                                                  *)
LEMMA TailKeeps ==
  ASSUME NEW s \in Seq(Keys), s # <<>>, NEW k \in Keys
  PROVE  (\A i \in DOMAIN s : s[i] # k) <=> Head(s) # k /\ \A i \in DOMAIN Tail(s) : Tail(s)[i] # k
  <1>1. Len(s) \in Nat /\ Len(s) # 0
    BY EmptySeq
  <1>2. /\ Len(Tail(s)) = Len(s) - 1 /\ Tail(s) \in Seq(Keys)
        /\ \A i \in 1..Len(Tail(s)) : Tail(s)[i] = s[i + 1]
        /\ Head(s) = s[1]
    BY HeadTailProperties, <1>1
  <1>3. DOMAIN s = 1..Len(s) /\ DOMAIN Tail(s) = 1..Len(Tail(s))
    BY <1>2
  <1>4. ASSUME \A i \in DOMAIN s : s[i] # k
        PROVE  Head(s) # k /\ \A i \in DOMAIN Tail(s) : Tail(s)[i] # k
    BY <1>1, <1>2, <1>3, <1>4
  <1>5. ASSUME Head(s) # k, \A i \in DOMAIN Tail(s) : Tail(s)[i] # k, NEW i \in DOMAIN s
        PROVE  s[i] # k
    <2>1. CASE i = 1
      BY <1>2, <1>5, <2>1
    <2>2. CASE i # 1
      <3>1. i - 1 \in DOMAIN Tail(s) /\ (i - 1) + 1 = i
        BY <1>1, <1>2, <1>3, <2>2
      <3> QED
        BY <1>2, <1>3, <1>5, <3>1
    <2> QED
      BY <2>1, <2>2
  <1> QED
    BY <1>4, <1>5

LEMMA CountNumbers ==
  ASSUME LInv, NEW c \in Calls, Count(c)
  PROVE  NotYet' /\ Numbered'
  <1>0. PICK key \in Keys : key = Current(c)
    BY CurrentIsKey DEF LInv, IInv, Count, Judge
  <1>1. /\ key \in Keys /\ left[c] # <<>> /\ left[c] \in Seq(Keys) /\ stage[c] = "count"
        /\ hits \in [Keys -> Nat] /\ counted \in [Keys -> SUBSET Calls]
        /\ stage \in [Calls -> Stages] /\ used \in [Calls -> Nat]
    BY <1>0 DEF LInv, IInv, LimitTypeOK, Count
  <1>2. /\ hits' = [hits EXCEPT ![key] = @ + 1]
        /\ used' = [used EXCEPT ![c] = hits[key] + 1]
        /\ counted' = [counted EXCEPT ![key] = @ \cup {c}]
        /\ stage' = [stage EXCEPT ![c] = IF FirstHit(hits[key] + 1) THEN "expire" ELSE "judge"]
        /\ left' = left
    BY <1>0 DEF Count
  <1>3. key = Head(left[c]) /\ key = Current(c) /\ \A d : Current(d)' = Current(d)
    BY <1>0, <1>2 DEF Current
  <1>4. /\ stage'[c] \in {"expire", "judge"} /\ used'[c] = hits[key] + 1
        /\ \A d \in Calls : d # c => stage'[d] = stage[d] /\ used'[d] = used[d]
    BY <1>1, <1>2
  <1>5. NotYet'
    BY <1>1, <1>2, <1>4 DEF LInv, NotYet
  <1>6. ~ Passed(c, key)'
    <2>1. ~ \A i \in DOMAIN left[c] : left[c][i] # key
      BY <1>1, <1>3, TailKeeps
    <2> QED
      BY <1>2, <2>1 DEF Passed
  <1>7. ASSUME NEW k \in Keys, NEW d \in counted[k], d # c \/ k # key
        PROVE  /\ Passed(d, k)' => Passed(d, k)
               /\ stage'[d] \in {"expire", "judge"} /\ Current(d)' = k =>
                    /\ stage[d] \in {"expire", "judge"} /\ Current(d) = k
                    /\ used'[d] = used[d]
    <2>1. d \in Calls
      BY <1>1
    <2>2. CASE d # c
      BY <1>2, <1>3, <1>4, <2>1, <2>2 DEF Passed
    <2>3. CASE d = c /\ k # key
      BY <1>1, <1>2, <1>3, <2>3 DEF Passed
    <2> QED
      BY <1>7, <2>2, <2>3
  <1>8. ASSUME NEW k \in Keys, k # key
        PROVE  \E f : Numbers(k, f)'
    <2>1. PICK f : Numbers(k, f)
      BY DEF LInv, Numbered
    <2>2. hits'[k] = hits[k] /\ counted'[k] = counted[k]
      BY <1>1, <1>2, <1>8
    <2>3. Numbers(k, f)'
      BY <1>7, <1>8, <2>1, <2>2, NumbersStay
    <2> QED
      BY <2>3
  <1>9. \E f : Numbers(key, f)'
    <2>1. PICK f : Numbers(key, f)
      BY <1>1 DEF LInv, Numbered
    <2>a. PICK n \in Nat : n = hits[key] + 1
      BY <1>1
    <2>b. PICK g : g = [d \in counted[key] \cup {c} |-> IF d = c THEN n ELSE f[d]]
      OBVIOUS
    <2>2. hits'[key] = n /\ counted'[key] = counted[key] \cup {c} /\ n \in Nat \ {0} /\ n - 1 = hits[key]
      BY <1>1, <1>2, <2>a
    <2>3. /\ DOMAIN g = counted[key] \cup {c} /\ g[c] = n
          /\ \A d \in counted[key] : d # c => g[d] = f[d]
      BY <2>b
    <2>4. \A d \in counted[key] : f[d] \in 1..(n - 1)
      BY <2>1, <2>2 DEF Numbers
    <2>5. g \in [counted[key] \cup {c} -> 1..n]
      BY <2>2, <2>4, <2>b
    <2>6. ASSUME NEW a \in counted[key] \cup {c}, NEW b \in counted[key] \cup {c}, g[a] = g[b]
          PROVE  a = b
      BY <2>1, <2>2, <2>3, <2>4, <2>6 DEF Numbers
    <2>7. ASSUME NEW d \in counted[key] \cup {c}, Passed(d, key)'
          PROVE  g[d] <= attempts[key]
      BY <1>1, <1>6, <1>7, <2>1, <2>3, <2>7 DEF Numbers
    <2>8. ASSUME NEW d \in counted[key] \cup {c}, stage'[d] \in {"expire", "judge"}, Current(d)' = key
          PROVE  g[d] = used'[d]
      <3>1. CASE d = c
        BY <1>4, <2>3, <2>a, <3>1
      <3>2. CASE d # c
        BY <1>1, <1>7, <2>1, <2>3, <2>8, <3>2 DEF Numbers
      <3> QED
        BY <3>1, <3>2
    <2>9. Numbers(key, g)'
      BY <2>2, <2>5, <2>6, <2>7, <2>8 DEF Numbers
    <2> QED
      BY <2>9
  <1> QED
    BY <1>5, <1>8, <1>9 DEF Numbered

LEMMA JudgeNumbers ==
  ASSUME LInv, NEW c \in Calls, Judge(c)
  PROVE  NotYet' /\ Numbered'
  <1>0. PICK key \in Keys : key = Current(c)
    BY CurrentIsKey DEF LInv, IInv, Count, Judge
  <1>1. /\ key \in Keys /\ left[c] # <<>> /\ left[c] \in Seq(Keys) /\ stage[c] = "judge"
        /\ hits \in [Keys -> Nat] /\ counted \in [Keys -> SUBSET Calls]
        /\ stage \in [Calls -> Stages] /\ used \in [Calls -> Nat]
        /\ left \in [Calls -> Seq(Keys)] /\ attempts \in [Keys -> Nat]
    BY <1>0, LimitAssumption DEF LInv, IInv, LimitTypeOK, Judge
  <1>2. /\ UNCHANGED <<hits, ttl, used, counted>>
        /\ \A d \in Calls : d # c => stage'[d] = stage[d] /\ left'[d] = left[d]
        /\ stage'[c] \in {"limited", "allowed", "count"}
        /\ \/ left'[c] = left[c]
           \/ left'[c] = Tail(left[c]) /\ used[c] <= attempts[key]
    BY <1>0, <1>1 DEF Judge, Onward, Over
  <1>3. key = Head(left[c]) /\ key = Current(c) /\ \A d \in Calls : d # c => Current(d)' = Current(d)
    BY <1>0, <1>2 DEF Current
  <1>4. NotYet'
    BY <1>1, <1>2 DEF LInv, NotYet
  <1>5. ASSUME NEW k \in Keys
        PROVE  \E f : Numbers(k, f)'
    <2>1. PICK f : Numbers(k, f)
      BY DEF LInv, Numbered
    <2>2. ASSUME NEW d \in counted[k], Passed(d, k)'
          PROVE  f[d] <= attempts[k]
      <3>1. d \in Calls
        BY <1>1
      <3>2. CASE d # c
        <4>1. Passed(d, k)
          BY <1>2, <2>2, <3>1, <3>2 DEF Passed
        <4> QED
          BY <2>1, <4>1 DEF Numbers
      <3>3. CASE d = c /\ Passed(c, k)
        BY <2>1, <3>3 DEF Numbers
      <3>4. CASE d = c /\ ~ Passed(c, k)
        <4>1. \E i \in DOMAIN left[c] : left[c][i] = k
          BY <1>1, <3>4 DEF Passed
        <4>2. \A i \in DOMAIN left'[c] : left'[c][i] # k
          BY <2>2, <3>4 DEF Passed
        <4>3. left'[c] = Tail(left[c]) /\ used[c] <= attempts[key]
          BY <1>2, <4>1, <4>2
        <4>4. key = k
          <5>1. PICK s \in Seq(Keys) : s = left[c] /\ s # <<>>
            BY <1>1
          <5>2. \A i \in DOMAIN Tail(s) : Tail(s)[i] # k
            BY <4>2, <4>3, <5>1
          <5>3. Head(s) = k
            BY <4>1, <5>1, <5>2, TailKeeps
          <5> QED
            BY <1>3, <5>1, <5>3
        <4>5. f[c] = used[c]
          BY <1>1, <1>3, <2>1, <2>2, <3>4, <4>4 DEF Numbers
        <4> QED
          BY <3>4, <4>3, <4>4, <4>5
      <3> QED
        BY <3>2, <3>3, <3>4
    <2>3. ASSUME NEW d \in counted[k], stage'[d] \in {"expire", "judge"}, Current(d)' = k
          PROVE  f[d] = used'[d]
      <3>1. d \in Calls /\ d # c
        BY <1>1, <1>2, <2>3
      <3>2. stage[d] \in {"expire", "judge"} /\ Current(d) = k /\ used'[d] = used[d]
        BY <1>2, <1>3, <2>3, <3>1
      <3> QED
        BY <2>1, <3>2 DEF Numbers
    <2>4. Numbers(k, f)'
      BY <1>2, <2>1, <2>2, <2>3 DEF Numbers
    <2> QED
      BY <2>4
  <1> QED
    BY <1>4, <1>5 DEF Numbered

LEMMA TickNumbers ==
  ASSUME LInv, Tick
  PROVE  NotYet' /\ Numbered'
  <1>1. /\ stage' = stage /\ left' = left /\ used' = used
        /\ \A k \in Keys : \/ hits'[k] = hits[k] /\ counted'[k] = counted[k]
                           \/ hits'[k] = 0 /\ counted'[k] = {}
    BY DEF Tick, LInv, IInv, LimitTypeOK
  <1>2. NotYet'
    BY <1>1 DEF LInv, NotYet
  <1>3. ASSUME NEW k \in Keys
        PROVE  \E f : Numbers(k, f)'
    <2>1. PICK f : Numbers(k, f)
      BY DEF LInv, Numbered
    <2>2. CASE hits'[k] = hits[k] /\ counted'[k] = counted[k]
      <3>1. Numbers(k, f)'
        BY <1>1, <2>1, <2>2 DEF Numbers, Passed, Current
      <3> QED
        BY <3>1
    <2>3. CASE hits'[k] = 0 /\ counted'[k] = {}
      <3>1. Numbers(k, [c \in {} |-> 0])'
        BY <2>3 DEF Numbers
      <3> QED
        BY <3>1
    <2> QED
      BY <1>1, <2>2, <2>3
  <1> QED
    BY <1>2, <1>3 DEF Numbered

LEMMA OthersNumber ==
  ASSUME LInv, NEW c \in Calls,
         \/ SetExpiry(c) \/ Cut(c)
         \/ \E keys \in Seq(Keys) : Ask(c, keys)
  PROVE  NotYet' /\ Numbered'
  <1>1. /\ counted \in [Keys -> SUBSET Calls] /\ stage \in [Calls -> Stages]
        /\ left \in [Calls -> Seq(Keys)]
    BY DEF LInv, IInv, LimitTypeOK
  <1>2. /\ UNCHANGED <<hits, used, counted>>
        /\ \A d \in Calls : d # c => stage'[d] = stage[d] /\ left'[d] = left[d]
        /\ \/ stage[c] = "idle" /\ stage'[c] = "count"
           \/ left'[c] = left[c] /\ stage[c] = "expire" /\ stage'[c] = "judge"
           \/ left'[c] = left[c] /\ stage[c] # "idle" /\ stage'[c] = "broken"
    BY <1>1 DEF SetExpiry, Cut, Ask
  <1>3. NotYet'
    BY <1>1, <1>2 DEF LInv, NotYet
  <1>4. ASSUME NEW k \in Keys
        PROVE  \E f : Numbers(k, f)'
    <2>1. PICK f : Numbers(k, f)
      BY DEF LInv, Numbered
    <2>2. ASSUME NEW d \in counted[k]
          PROVE  /\ Passed(d, k)' => Passed(d, k)
                 /\ stage'[d] \in {"expire", "judge"} /\ Current(d)' = k =>
                      /\ stage[d] \in {"expire", "judge"} /\ Current(d) = k
                      /\ used'[d] = used[d]
      <3>1. d \in Calls /\ stage[d] # "idle"
        BY <1>1 DEF LInv, NotYet
      <3>2. left'[d] = left[d] /\ used'[d] = used[d]
        BY <1>2, <3>1
      <3> QED
        BY <1>2, <3>1, <3>2 DEF Passed, Current
    <2>3. Numbers(k, f)'
      BY <1>2, <2>1, <2>2, NumbersStay
    <2> QED
      BY <2>3
  <1> QED
    BY <1>3, <1>4 DEF Numbered

(* Of the calls counted since a key appeared no more get past it than the
   window allows, with any number of calls, keys and cuts.                  *)
THEOREM NoOneTooMany == LimitSpec => []LimitHolds
  <1>1. LimitInit => LInv
    <2> SUFFICES ASSUME LimitInit PROVE LInv
      OBVIOUS
    <2>1. ASSUME NEW k \in Keys
          PROVE  Numbers(k, [c \in {} |-> 0])
      BY DEF LimitInit, Numbers
    <2> QED
      BY <2>1, Initially DEF LInv, NotYet, Numbered, LimitInit
  <1>2. LInv /\ [LimitNext]_limiter => LInv'
    <2> SUFFICES ASSUME LInv, [LimitNext]_limiter PROVE LInv'
      OBVIOUS
    <2>1. IInv'
      BY StepKeeps DEF LInv
    <2>2. CASE UNCHANGED limiter
      BY <2>1, <2>2 DEF limiter, LInv, NotYet, Numbered, Numbers, Passed, Current
    <2>3. (NotYet' /\ Numbered') \/ UNCHANGED limiter
      BY CountNumbers, JudgeNumbers, TickNumbers, OthersNumber DEF LimitNext, Check
    <2> QED
      BY <2>1, <2>2, <2>3 DEF LInv
  <1>3. LInv => LimitHolds
    <2> SUFFICES ASSUME LInv, NEW k \in Keys
                 PROVE  Cardinality({c \in counted[k] : Passed(c, k)}) <= attempts[k]
      BY DEF LimitHolds
    <2> DEFINE P == {c \in counted[k] : Passed(c, k)}
    <2>1. PICK f : Numbers(k, f)
      BY DEF LInv, Numbered
    <2>2. hits[k] \in Nat /\ attempts[k] \in Nat
      BY LimitAssumption DEF LInv, IInv, LimitTypeOK
    <2> DEFINE g == [c \in P |-> f[c]]
    <2>3. ASSUME NEW c \in P
          PROVE  f[c] \in 1..attempts[k]
      BY <2>1, <2>2 DEF Numbers
    <2>4. g \in Injection(P, 1..attempts[k])
      BY <2>1, <2>3 DEF Numbers, Injection, IsInjective
    <2>5. IsFiniteSet(1..attempts[k]) /\ Cardinality(1..attempts[k]) = attempts[k]
      <3>1. PICK m \in Nat : m = attempts[k]
        BY <2>2
      <3>2. IsFiniteSet(1..m) /\ Cardinality(1..m) = IF 1 > m THEN 0 ELSE m - 1 + 1
        BY FS_Interval
      <3> QED
        BY <3>1, <3>2
    <2> HIDE DEF g, P
    <2>6. Cardinality(P) <= attempts[k]
      BY <2>4, <2>5, FS_Injection
    <2> QED
      BY <2>6 DEF P
  <1> QED
    BY <1>1, <1>2, <1>3, PTL DEF LimitSpec

-----------------------------------------------------------------------------

(* What a request works on, and that it came through the limiter when it
   had to.                                                                  *)
LEMMA StepsOfOthers ==
  ASSUME NEW r \in Requests, Step(r) \/ Authenticate(r) \/ BreakDeadlock(r) \/ Crash(r)
  PROVE  UNCHANGED limiter
  <1>1. CASE Authenticate(r)
    BY <1>1 DEF Authenticate, Leave
  <1>2. CASE BreakDeadlock(r)
    BY <1>2 DEF BreakDeadlock, Leave
  <1>3. CASE Crash(r)
    BY <1>3 DEF Crash
  <1>4. CASE Step(r)
    BY <1>4 DEF Step, Leave, Reading, Admit, Verify, Register, FindProfile, ResetOtherPrimaries,
       SaveProfile, Require, ScanPlans, DeactivatePrevious, InsertPlan, LookupReport,
       CheckLimit, InsertReport, Erase, Cascade, Commit
  <1> QED
    BY <1>1, <1>2, <1>3, <1>4

TaskTyped == task \in [Requests -> Tasks]

LEMMA TaskStays == Spec => []TaskTyped
  <1>1. Init => TaskTyped
    BY AccountAssumption DEF Init, TaskTyped
  <1>2. TaskTyped /\ [Next]_vars => TaskTyped'
    <2> SUFFICES ASSUME TaskTyped, [Next]_vars
                 PROVE  task' = task
      BY DEF TaskTyped
    <2>1. ASSUME NEW r \in Requests, Step(r)
          PROVE  task' = task
      BY <2>1 DEF Step, Leave, Reading, Admit, Verify, Register, FindProfile, ResetOtherPrimaries,
         SaveProfile, Require, ScanPlans, DeactivatePrevious, InsertPlan, LookupReport,
         CheckLimit, InsertReport, Erase, Cascade, Commit
    <2>2. ASSUME NEW r \in Requests,
                 Arrive(r) \/ Authenticate(r) \/ Limit(r) \/ BreakDeadlock(r) \/ Crash(r)
          PROVE  task' = task
      BY <2>2 DEF Arrive, Authenticate, Limit, BreakDeadlock, Crash, Leave
    <2> QED
      BY <2>1, <2>2 DEF Next, Elapse, vars
  <1> QED
    BY <1>1, <1>2, PTL DEF Spec

(* Registrations and sign-ins drive the limiter as RateLimit allows, and no
   other request touches it.                                                *)
THEOREM ServerKeepsLimiter == Spec => LimitSpec
  <1>1. Init => LimitInit
    BY DEF Init
  <1>2. TaskTyped /\ [Next]_vars => [LimitNext]_limiter
    <2> SUFFICES ASSUME TaskTyped, [Next]_vars
                 PROVE  LimitNext \/ UNCHANGED limiter
      OBVIOUS
    <2>1. ASSUME NEW r \in Requests, Arrive(r)
          PROVE  LimitNext
      <3>1. keysOf[task[r]] \in Seq(Keys) /\ r \in Calls
        BY AccountAssumption DEF TaskTyped
      <3> QED
        BY <2>1, <3>1 DEF Arrive, LimitNext
    <2>2. ASSUME NEW r \in Requests, Limit(r)
          PROVE  LimitNext
      BY <2>2, AccountAssumption DEF Limit, LimitNext
    <2>3. ASSUME NEW r \in Requests, Step(r) \/ Authenticate(r) \/ BreakDeadlock(r) \/ Crash(r)
          PROVE  UNCHANGED limiter
      BY <2>3, StepsOfOthers
    <2>4. CASE Elapse
      BY <2>4 DEF Elapse, LimitNext
    <2>5. CASE UNCHANGED vars
      BY <2>5 DEF vars
    <2> QED
      BY <2>1, <2>2, <2>3, <2>4, <2>5 DEF Next
  <1> QED
    BY <1>1, <1>2, TaskStays, PTL DEF Spec, LimitSpec

(* Among the requests of the server, too, the end of a window is never put
   off.                                                                     *)
THEOREM LimitIsLifted == Spec => WindowNeverProlonged
  BY ServerKeepsLimiter, WindowEndsOnTime, PTL

(* And no window lets more registrations or sign-ins through than it allows. *)
THEOREM ServerLimits == Spec => []LimitHolds
  BY ServerKeepsLimiter, NoOneTooMany, PTL

-----------------------------------------------------------------------------
(* The tables.  The types first, with where the requests of each kind can  *)
(* be and what they have been refused for if they lacked it.               *)

OwnTypes ==
  /\ task \in [Requests -> Tasks]
  /\ users \in SUBSET Users
  /\ profiles \in [Users -> [Specs -> Flags]]
  /\ plans \in SUBSET Plans
  /\ reports \in SUBSET Reports
  /\ pc \in [Requests -> Places]
  /\ cache \in [Requests -> [Specs -> Flags]]
  /\ writes \in [Requests -> [Specs -> Flags \cup {"same"}]]
  /\ seen \in [Requests -> SUBSET Plans]
  /\ status \in [Requests -> Statuses]
  /\ raced \in SUBSET Kinds
  /\ crashes \in Nat
  /\ held = [r \in Requests |-> held[r]]

Idle == {"new", "limit", "done"}
IdleHoldNothing == \A r \in Requests : pc[r] \in Idle => held[r] = {}

Kind(r) == task[r].kind

RightPlace(r) ==
  /\ pc[r] = "insert" => Kind(r) = "register"
  /\ pc[r] \in {"find", "others", "save"} => Kind(r) = "profile"
  /\ pc[r] \in {"require", "scan", "quench", "plan"} => Kind(r) = "plan"
  /\ pc[r] \in {"lookup", "count", "report"} => Kind(r) = "report"
  /\ pc[r] \in {"erase", "cascade"} => Kind(r) = "delete"
  /\ pc[r] \in {"scan", "quench", "plan", "commit"} /\ Kind(r) = "plan" => Chosen(r) # None
  /\ pc[r] \in {"count", "report", "commit"} /\ Kind(r) = "report" => task[r].title # None

OwnInv == OwnTypes /\ IdleHoldNothing /\ \A r \in Requests : RightPlace(r)

(* The lock protocol.  Locks of two requests do not clash.  Before it      *)
(* commits, a request has locked what keeps its writes sound: the address  *)
(* or the wording it inserts, the profiles it writes, the user it refers   *)
(* to, and a deletion the user and all of its profiles.                    *)

Exclusive ==
  \A r, x \in Requests : r # x => \A a \in held[r], b \in held[x] : ~ Clash(a, b)

Anchored(r) == User(r) \in users /\ Refer(UserRow(User(r))) \in held[r]

Deleting(r) ==
  /\ Kind(r) = "delete" /\ pc[r] \in {"cascade", "commit"} =>
       Write(UserRow(User(r))) \in held[r]
  /\ Kind(r) = "delete" /\ pc[r] = "commit" =>
       \A s \in ProfilesOf(User(r)) : Write(ProfileRow(User(r), s)) \in held[r]

Registering(r) ==
  Kind(r) = "register" /\ pc[r] = "commit" =>
    Write(EmailKey(task[r].email)) \in held[r] /\ ~ Taken(task[r].email)

Choosing(r) ==
  Kind(r) = "profile" /\ pc[r] = "commit" =>
    \A s \in Saved(r) :
      /\ Write(ProfileRow(User(r), s)) \in held[r]
      /\ profiles[User(r)][s] # "absent" \/ Anchored(r)

Planning(r) ==
  /\ \A p \in seen[r] : p.user = User(r)
  /\ Kind(r) = "plan" /\ pc[r] = "commit" => Anchored(r)

Reporting(r) ==
  Kind(r) = "report" /\ pc[r] = "commit" =>
    /\ Anchored(r) /\ Write(ReportKey(User(r), task[r].title)) \in held[r]
    /\ ~ IsReported(User(r), task[r].title)

Prepared(r) ==
  Deleting(r) /\ Registering(r) /\ Choosing(r) /\ Planning(r) /\ Reporting(r)

AccountInv ==
  OwnInv /\ Exclusive /\ Integrity /\ \A r \in Requests : Prepared(r)

LEMMA InitOwn == Init => OwnInv
  <1> SUFFICES ASSUME Init PROVE OwnInv
    OBVIOUS
  <1>1. task \in [Requests -> Tasks]
    BY AccountAssumption DEF Init
  <1>2. PICK b \in Beginnings :
          /\ profiles = [u \in Users |-> IF u \in Accounts THEN b.profiles ELSE NoProfiles]
          /\ plans = b.plans /\ reports = b.reports
    BY DEF Init
  <1>3. NoProfiles \in [Specs -> Flags]
    BY DEF NoProfiles, Flags
  <1>4. b.profiles \in [Specs -> Flags] /\ b.plans \in SUBSET Plans /\ b.reports \in SUBSET Reports
    BY <1>2, TaskAssumption
  <1>5. profiles \in [Users -> [Specs -> Flags]] /\ plans \in SUBSET Plans /\ reports \in SUBSET Reports
    BY <1>2, <1>3, <1>4
  <1>6. /\ users \in SUBSET Users /\ pc \in [Requests -> Places]
        /\ cache \in [Requests -> [Specs -> Flags]]
        /\ writes \in [Requests -> [Specs -> Flags \cup {"same"}]]
        /\ seen \in [Requests -> SUBSET Plans] /\ status \in [Requests -> Statuses]
        /\ raced \in SUBSET Kinds /\ crashes \in Nat
        /\ held = [r \in Requests |-> held[r]]
    BY <1>3 DEF Init, Users, Places, Statuses
  <1>7. OwnTypes
    BY <1>1, <1>5, <1>6 DEF OwnTypes
  <1>8. IdleHoldNothing /\ \A r \in Requests : RightPlace(r)
    BY DEF Init, IdleHoldNothing, RightPlace
  <1> QED
    BY <1>7, <1>8 DEF OwnInv

LEMMA TaskTypes ==
  ASSUME OwnTypes, NEW r \in Requests
  PROVE  /\ task[r] \in Tasks /\ Kind(r) \in Kinds /\ User(r) \in Accounts /\ User(r) \in Users
         /\ Chosen(r) \in Specs \cup {None} /\ task[r].title \in Titles \cup {None}
         /\ task[r].primary \in BOOLEAN
         /\ r \in Users /\ r \notin Accounts
  BY TaskAssumption, AccountAssumption DEF OwnTypes, Kind, User, Chosen, Users

(* One request moves and writes no table.                                  *)
LEMMA MoveOwn ==
  ASSUME OwnInv, NEW r \in Requests, NEW place \in Places, Goto(r, place),
         UNCHANGED <<task, tables>>, raced' \in SUBSET Kinds, crashes' \in Nat,
         status' \in [Requests -> Statuses],
         cache' \in [Requests -> [Specs -> Flags]],
         writes' \in [Requests -> [Specs -> Flags \cup {"same"}]],
         seen' \in [Requests -> SUBSET Plans],
         NEW locks, held' = [held EXCEPT ![r] = locks], place \in Idle => locks = {},
         RightPlace(r)'
  PROVE  OwnInv'
  <1>1. pc' = [pc EXCEPT ![r] = place] /\ pc' \in [Requests -> Places]
    BY DEF Goto, OwnInv, OwnTypes
  <1>2. held' = [x \in Requests |-> held'[x]] /\ held'[r] = locks
        /\ \A x \in Requests \ {r} : held'[x] = held[x] /\ pc'[x] = pc[x]
    BY <1>1 DEF OwnInv, OwnTypes
  <1>3. OwnTypes'
    BY <1>1, <1>2 DEF OwnInv, OwnTypes, tables
  <1>4. IdleHoldNothing'
    BY <1>1, <1>2 DEF OwnInv, OwnTypes, IdleHoldNothing
  <1>5. ASSUME NEW x \in Requests \ {r}
        PROVE  RightPlace(x)'
    BY <1>2 DEF OwnInv, RightPlace, Kind, Chosen
  <1> QED
    BY <1>3, <1>4, <1>5 DEF OwnInv

LEMMA CloseTypes ==
  ASSUME OwnTypes, NEW r \in Requests, Close(r)
  PROVE  /\ cache' \in [Requests -> [Specs -> Flags]]
         /\ writes' \in [Requests -> [Specs -> Flags \cup {"same"}]]
         /\ seen' \in [Requests -> SUBSET Plans]
         /\ held' = [held EXCEPT ![r] = {}]
  <1>1. NoProfiles \in [Specs -> Flags]
    BY DEF NoProfiles, Flags
  <1> QED
    BY <1>1 DEF Close, OwnTypes

LEMMA EndOwn ==
  ASSUME OwnInv, NEW r \in Requests, NEW what \in Statuses, Close(r), Respond(r, what),
         UNCHANGED <<task, tables, raced>>, crashes' \in Nat
  PROVE  OwnInv'
  <1>1. /\ "done" \in Places /\ Goto(r, "done") /\ status' \in [Requests -> Statuses]
        /\ raced' \in SUBSET Kinds
    BY DEF Places, Respond, OwnInv, OwnTypes
  <1>2. pc'[r] = "done" /\ RightPlace(r)'
    BY <1>1 DEF Goto, OwnInv, OwnTypes, RightPlace
  <1> QED
    BY <1>1, <1>2, CloseTypes, MoveOwn DEF OwnInv

LEMMA LeaveOwn ==
  ASSUME OwnInv, NEW r \in Requests, NEW what \in Statuses, Leave(r, what)
  PROVE  OwnInv'
  <1>1. crashes' \in Nat
    BY DEF Leave, OwnInv, OwnTypes
  <1> QED
    BY <1>1, EndOwn DEF Leave

LEMMA UnchangedSession ==
  ASSUME OwnInv, NEW r \in Requests
  PROVE  /\ UNCHANGED held => held' = [held EXCEPT ![r] = held[r]]
         /\ Lock(r) => held' = [held EXCEPT ![r] = held[r] \cup Wanted(r)]
         /\ UNCHANGED <<raced, crashes, status>> =>
              raced' \in SUBSET Kinds /\ crashes' \in Nat /\ status' \in [Requests -> Statuses]
         /\ UNCHANGED cache => cache' \in [Requests -> [Specs -> Flags]]
         /\ UNCHANGED writes => writes' \in [Requests -> [Specs -> Flags \cup {"same"}]]
         /\ UNCHANGED seen => seen' \in [Requests -> SUBSET Plans]
  BY DEF OwnInv, OwnTypes, Lock

(* A step within the transaction, which may lock more.                     *)
LEMMA WithinOwn ==
  ASSUME OwnInv, NEW r \in Requests, NEW place \in Places \ Idle, Goto(r, place),
         UNCHANGED <<task, tables, raced, crashes, status>>,
         UNCHANGED held \/ Lock(r),
         UNCHANGED cache \/ cache' \in [Requests -> [Specs -> Flags]],
         UNCHANGED writes \/ writes' \in [Requests -> [Specs -> Flags \cup {"same"}]],
         UNCHANGED seen \/ seen' \in [Requests -> SUBSET Plans],
         pc'[r] = place => RightPlace(r)'
  PROVE  OwnInv'
  <1>1. pc'[r] = place
    BY DEF Goto, OwnInv, OwnTypes
  <1>2. PICK locks : held' = [held EXCEPT ![r] = locks]
    BY UnchangedSession
  <1> QED
    BY <1>1, <1>2, UnchangedSession, MoveOwn

LEMMA EntersOwn ==
  ASSUME OwnInv, NEW r \in Requests, Arrive(r) \/ Authenticate(r)
  PROVE  OwnInv'
  <1>1. pc[r] = "new" /\ held[r] = {} /\ Kind(r) \in Kinds /\ User(r) \in Users
    BY TaskTypes DEF Arrive, Authenticate, OwnInv, IdleHoldNothing, Idle
  <1>2. CASE Arrive(r)
    <2>1. /\ Goto(r, "limit") /\ "limit" \in Places
          /\ UNCHANGED <<task, tables, session, held, status, raced, crashes>>
      BY <1>2 DEF Arrive, Places
    <2>2. pc'[r] = "limit"
      BY <2>1 DEF Goto, OwnInv, OwnTypes
    <2>3. RightPlace(r)'
      BY <2>2 DEF RightPlace
    <2> QED
      BY <1>1, <2>1, <2>3, UnchangedSession, MoveOwn DEF session
  <1>3. CASE Authenticate(r) /\ Goto(r, FirstStep(Kind(r)))
             /\ cache' = [cache EXCEPT ![r] = profiles[User(r)]]
             /\ raced' = raced \cup {task[o].kind : o \in
                      {o \in Requests : Open(o) /\ task[o].kind = task[r].kind
                                                /\ User(o) = User(r)}}
             /\ UNCHANGED <<limiter, task, tables, writes, seen, held, status, crashes>>
    <2>1. Kind(r) \in {"profile", "plan", "report", "delete"}
      BY <1>1, <1>3 DEF Authenticate, Kinds, Kind
    <2>2. /\ FirstStep(Kind(r)) \in Places \ Idle
          /\ Kind(r) = "profile" => FirstStep(Kind(r)) = "find"
          /\ Kind(r) = "plan" => FirstStep(Kind(r)) = "require"
          /\ Kind(r) = "report" => FirstStep(Kind(r)) = "lookup"
          /\ Kind(r) = "delete" => FirstStep(Kind(r)) = "erase"
      BY <2>1 DEF FirstStep, Places, Idle
    <2>3. pc'[r] = FirstStep(Kind(r)) /\ Kind(r)' = Kind(r)
      BY <1>3 DEF Goto, OwnInv, OwnTypes, Kind
    <2>4. RightPlace(r)'
      BY <2>1, <2>2, <2>3 DEF RightPlace
    <2>5. profiles[User(r)] \in [Specs -> Flags]
      BY <1>1 DEF OwnInv, OwnTypes
    <2>6. cache' \in [Requests -> [Specs -> Flags]]
      BY <1>3, <2>5 DEF OwnInv, OwnTypes
    <2>7. raced' \in SUBSET Kinds
      <3>1. \A o \in Requests : task[o].kind \in Kinds
        BY TaskTypes DEF OwnInv, Kind
      <3>2. raced \in SUBSET Kinds
        BY DEF OwnInv, OwnTypes
      <3> QED
        BY <1>3, <3>1, <3>2
    <2>8. /\ crashes' \in Nat /\ status' \in [Requests -> Statuses]
          /\ held' = [held EXCEPT ![r] = held[r]]
          /\ writes' \in [Requests -> [Specs -> Flags \cup {"same"}]]
          /\ seen' \in [Requests -> SUBSET Plans]
      BY <1>3 DEF OwnInv, OwnTypes
    <2> QED
      BY <1>3, <2>2, <2>4, <2>6, <2>7, <2>8, MoveOwn
  <1>4. CASE Leave(r, "unauthorized")
    <2>1. "unauthorized" \in Statuses
      BY DEF Statuses
    <2> QED
      BY <1>4, <2>1, LeaveOwn
  <1> QED
    BY <1>2, <1>3, <1>4 DEF Authenticate, Kind

LEMMA Answers ==
  /\ {"none", "ok", "duplicate", "conflict", "refused", "unauthorized", "limited", "error", "lost"}
       \subseteq Statuses
  /\ {"insert", "verify", "find", "others", "save", "scan", "require", "quench", "plan", "lookup",
      "count", "report", "erase", "cascade", "commit"} \subseteq Places \ Idle
  BY DEF Statuses, Places, Idle

(* Each step of a transaction leaves, or goes on to a place of its kind.    *)
LEMMA SignInOwn ==
  ASSUME OwnInv, NEW r \in Requests, Admit(r) \/ Verify(r) \/ Register(r)
  PROVE  OwnInv'
  <1>1. CASE \E what \in {"limited", "error", "ok", "unauthorized", "conflict"} : Leave(r, what)
    BY <1>1, Answers, LeaveOwn
  <1>2. CASE Admit(r) /\ UNCHANGED session
             /\ Reading(r, IF task[r].kind = "register" THEN "insert" ELSE "verify")
    <2> DEFINE place == IF task[r].kind = "register" THEN "insert" ELSE "verify"
    <2>1. pc'[r] = place => RightPlace(r)'
      BY <1>2 DEF RightPlace, Reading, Kind
    <2> QED
      BY <1>2, <2>1, Answers, WithinOwn DEF Reading, session
  <1>3. CASE Register(r) /\ Lock(r) /\ Goto(r, "commit")
             /\ UNCHANGED <<limiter, task, tables, session, status, raced, crashes>>
    <2>1. pc'[r] = "commit" => RightPlace(r)'
      BY <1>3 DEF RightPlace, Register, Kind, OwnInv
    <2> QED
      BY <1>3, <2>1, Answers, WithinOwn DEF session
  <1> QED
    BY <1>1, <1>2, <1>3 DEF Admit, Verify, Register

LEMMA ProfileOwn ==
  ASSUME OwnInv, NEW r \in Requests, FindProfile(r) \/ ResetOtherPrimaries(r) \/ SaveProfile(r)
  PROVE  OwnInv'
  <1>0. User(r) \in Users /\ Chosen(r) \in Specs \cup {None}
    BY TaskTypes DEF OwnInv
  <1>1. CASE \E what \in {"refused", "error"} : Leave(r, what)
    BY <1>1, Answers, LeaveOwn
  <1>2. CASE FindProfile(r) /\ ~ Leave(r, "refused")
    <2> DEFINE s == Chosen(r)
               found == IF cache[r][s] # "absent" THEN cache[r][s] ELSE profiles[User(r)][s]
    <2>1. s \in Specs /\ found \in Flags
      BY <1>0, <1>2 DEF FindProfile, OwnInv, OwnTypes
    <2>2. /\ cache' = [cache EXCEPT ![r][s] = found]
          /\ \E w \in IF found = Flag(r) THEN {"absent", "same"} ELSE {Flag(r)} :
               writes' = [writes EXCEPT ![r][s] = w]
          /\ Reading(r, IF task[r].primary THEN "others" ELSE "save")
          /\ UNCHANGED seen /\ pc[r] = "find"
      BY <1>2 DEF FindProfile
    <2> HIDE DEF found, s
    <2>3. cache' \in [Requests -> [Specs -> Flags]]
      BY <2>1, <2>2 DEF OwnInv, OwnTypes
    <2>4. writes' \in [Requests -> [Specs -> Flags \cup {"same"}]]
      BY <2>1, <2>2 DEF OwnInv, OwnTypes, Flags, Flag
    <2>5. PICK place \in {"others", "save"} : Goto(r, place)
      BY <2>2 DEF Reading
    <2>6. pc'[r] = place => RightPlace(r)'
      BY <2>2 DEF RightPlace, Reading, Kind, OwnInv
    <2> QED
      BY <2>2, <2>3, <2>4, <2>5, <2>6, Answers, WithinOwn DEF Reading
  <1>3. CASE ResetOtherPrimaries(r)
    <2>1. cache' \in [Requests -> [Specs -> Flags]]
      BY <1>3 DEF ResetOtherPrimaries, OwnInv, OwnTypes, Flags
    <2>2. writes' \in [Requests -> [Specs -> Flags \cup {"same"}]]
      BY <1>3 DEF ResetOtherPrimaries, OwnInv, OwnTypes, Flags
    <2>3. pc'[r] = "save" => RightPlace(r)'
      BY <1>3 DEF ResetOtherPrimaries, RightPlace, Reading, Kind, OwnInv
    <2> QED
      BY <1>3, <2>1, <2>2, <2>3, Answers, WithinOwn DEF ResetOtherPrimaries, Reading
  <1>4. CASE SaveProfile(r) /\ Lock(r) /\ Goto(r, "commit")
             /\ UNCHANGED <<limiter, task, tables, session, status, raced, crashes>>
    <2>1. pc'[r] = "commit" => RightPlace(r)'
      BY <1>4 DEF RightPlace, SaveProfile, Kind, OwnInv
    <2> QED
      BY <1>4, <2>1, Answers, WithinOwn DEF session
  <1> QED
    BY <1>1, <1>2, <1>3, <1>4 DEF FindProfile, SaveProfile

LEMMA PlanOwn ==
  ASSUME OwnInv, NEW r \in Requests,
         Require(r) \/ ScanPlans(r) \/ DeactivatePrevious(r) \/ InsertPlan(r)
  PROVE  OwnInv'
  <1>1. CASE \E what \in {"refused", "error"} : Leave(r, what)
    BY <1>1, Answers, LeaveOwn
  <1>2. CASE Require(r) /\ Reading(r, "scan") /\ Chosen(r) # None /\ UNCHANGED session
    <2>1. pc'[r] = "scan" => RightPlace(r)'
      BY <1>2 DEF Require, Reading, RightPlace, Kind, Chosen, OwnInv
    <2> QED
      BY <1>2, <2>1, Answers, WithinOwn DEF Reading, session
  <1>3. CASE ScanPlans(r)
    <2>1. seen' \in [Requests -> SUBSET Plans]
      BY <1>3 DEF ScanPlans, Previous, PlansOf, OwnInv, OwnTypes
    <2>2. pc'[r] = "quench" => RightPlace(r)'
      BY <1>3 DEF ScanPlans, Reading, RightPlace, Kind, Chosen, OwnInv
    <2> QED
      BY <1>3, <2>1, <2>2, Answers, WithinOwn DEF ScanPlans, Reading
  <1>4. CASE DeactivatePrevious(r)
    <2>1. seen' \in [Requests -> SUBSET Plans]
      BY <1>4 DEF DeactivatePrevious, OwnInv, OwnTypes
    <2>2. pc'[r] = "plan" => RightPlace(r)'
      BY <1>4 DEF DeactivatePrevious, RightPlace, Kind, Chosen, OwnInv
    <2> QED
      BY <1>4, <2>1, <2>2, Answers, WithinOwn DEF DeactivatePrevious
  <1>5. CASE InsertPlan(r) /\ Lock(r) /\ Goto(r, "commit")
             /\ UNCHANGED <<limiter, task, tables, session, status, raced, crashes>>
    <2>1. pc'[r] = "commit" => RightPlace(r)'
      BY <1>5 DEF InsertPlan, RightPlace, Kind, Chosen, OwnInv
    <2> QED
      BY <1>5, <2>1, Answers, WithinOwn DEF session
  <1> QED
    BY <1>1, <1>2, <1>3, <1>4, <1>5 DEF Require, InsertPlan

LEMMA ReportOwn ==
  ASSUME OwnInv, NEW r \in Requests, LookupReport(r) \/ CheckLimit(r) \/ InsertReport(r)
  PROVE  OwnInv'
  <1>1. CASE \E what \in {"refused", "duplicate", "error"} : Leave(r, what)
    BY <1>1, Answers, LeaveOwn
  <1>2. CASE LookupReport(r) /\ Reading(r, "count") /\ task[r].title # None /\ UNCHANGED session
    <2>1. pc'[r] = "count" => RightPlace(r)'
      BY <1>2 DEF LookupReport, Reading, RightPlace, Kind, OwnInv
    <2> QED
      BY <1>2, <2>1, Answers, WithinOwn DEF Reading, session
  <1>3. CASE CheckLimit(r) /\ Reading(r, "report") /\ UNCHANGED session
    <2>1. pc'[r] = "report" => RightPlace(r)'
      BY <1>3 DEF CheckLimit, Reading, RightPlace, Kind, OwnInv
    <2> QED
      BY <1>3, <2>1, Answers, WithinOwn DEF Reading, session
  <1>4. CASE InsertReport(r) /\ Lock(r) /\ Goto(r, "commit")
             /\ UNCHANGED <<limiter, task, tables, session, status, raced, crashes>>
    <2>1. pc'[r] = "commit" => RightPlace(r)'
      BY <1>4 DEF InsertReport, RightPlace, Kind, OwnInv
    <2> QED
      BY <1>4, <2>1, Answers, WithinOwn DEF session
  <1> QED
    BY <1>1, <1>2, <1>3, <1>4 DEF LookupReport, CheckLimit, InsertReport

LEMMA DeleteOwn ==
  ASSUME OwnInv, NEW r \in Requests, Erase(r) \/ Cascade(r)
  PROVE  OwnInv'
  <1>1. PICK place \in {"cascade", "commit"} : Goto(r, place)
    BY DEF Erase, Cascade
  <1>2. pc'[r] = place => RightPlace(r)'
    BY DEF Erase, Cascade, RightPlace, Kind, OwnInv
  <1> QED
    BY <1>1, <1>2, Answers, WithinOwn DEF Erase, Cascade, session

(* What a commit makes of the tables.                                      *)
LEMMA CommitOwn ==
  ASSUME OwnInv, NEW r \in Requests, Commit(r)
  PROVE  OwnInv'
  <1>1. /\ User(r) \in Users /\ r \in Users /\ Kind(r) \in Kinds /\ RightPlace(r) /\ pc[r] = "commit"
        /\ Chosen(r) \in Specs \cup {None} /\ task[r].title \in Titles \cup {None}
    BY TaskTypes DEF OwnInv, Commit
  <1>2. users' \in SUBSET Users
    BY <1>1 DEF Commit, OwnInv, OwnTypes
  <1>3. profiles' \in [Users -> [Specs -> Flags]]
    <2>1. NoProfiles \in [Specs -> Flags]
      BY DEF NoProfiles, Flags
    <2>2. [s \in Specs |-> IF writes[r][s] \in {"no", "yes"} THEN writes[r][s] ELSE profiles[User(r)][s]]
            \in [Specs -> Flags]
      BY <1>1 DEF OwnInv, OwnTypes, Flags
    <2> QED
      BY <1>1, <2>1, <2>2 DEF Commit, OwnInv, OwnTypes
  <1>4. plans' \in SUBSET Plans
    <2>1. CASE Kind(r) = "plan"
      <3>1. NewPlan(r) \in Plans
        BY <1>1, <2>1 DEF NewPlan, Plans, RightPlace
      <3>2. \A p \in seen[r] : [p EXCEPT !.active = FALSE] \in Plans
        <4>1. \A p \in Plans : [p EXCEPT !.active = FALSE] \in Plans
          BY DEF Plans
        <4>2. seen[r] \subseteq Plans
          BY DEF OwnInv, OwnTypes
        <4> QED
          BY <4>1, <4>2
      <3>3. plans' = (plans \ seen[r]) \cup {NewPlan(r)} \cup {[p EXCEPT !.active = FALSE] : p \in seen[r]}
        BY <2>1 DEF Commit, Kind
      <3> QED
        BY <3>1, <3>2, <3>3 DEF OwnInv, OwnTypes
    <2>2. CASE Kind(r) # "plan"
      BY <2>2 DEF Commit, Kind, OwnInv, OwnTypes
    <2> QED
      BY <2>1, <2>2
  <1>5. reports' \in SUBSET Reports
    <2>1. CASE Kind(r) = "report"
      <3>1. [user |-> User(r), title |-> task[r].title, by |-> r] \in Reports
        BY <1>1, <2>1 DEF Reports, RightPlace
      <3> QED
        BY <2>1, <3>1 DEF Commit, Kind, OwnInv, OwnTypes
    <2>2. CASE Kind(r) # "report"
      BY <2>2 DEF Commit, Kind, OwnInv, OwnTypes
    <2> QED
      BY <2>1, <2>2
  <1>6. /\ Close(r) /\ Respond(r, "ok") /\ Goto(r, "done") /\ UNCHANGED <<limiter, task, raced, crashes>>
    BY DEF Commit, Respond
  <1>7. /\ pc' = [pc EXCEPT ![r] = "done"] /\ pc' \in [Requests -> Places]
        /\ status' \in [Requests -> Statuses]
    BY <1>6, Answers DEF Respond, Goto, OwnInv, OwnTypes, Places
  <1>8. held' = [held EXCEPT ![r] = {}] /\ held' = [x \in Requests |-> held'[x]] /\ held'[r] = {}
        /\ \A x \in Requests \ {r} : held'[x] = held[x] /\ pc'[x] = pc[x]
    BY <1>6, <1>7 DEF Close, OwnInv, OwnTypes
  <1>9. OwnTypes'
    BY <1>2, <1>3, <1>4, <1>5, <1>6, <1>7, <1>8, CloseTypes DEF OwnInv, OwnTypes
  <1>10. IdleHoldNothing'
    BY <1>7, <1>8 DEF OwnInv, IdleHoldNothing
  <1>11. ASSUME NEW x \in Requests
         PROVE  RightPlace(x)'
    <2>1. RightPlace(x) /\ Kind(x)' = Kind(x) /\ task' = task
      BY <1>6 DEF OwnInv, Kind
    <2>2. CASE x = r
      BY <1>7, <2>2 DEF OwnInv, OwnTypes, RightPlace
    <2>3. CASE x # r
      BY <1>8, <2>1, <2>3 DEF RightPlace, Chosen
    <2> QED
      BY <2>2, <2>3
  <1> QED
    BY <1>9, <1>10, <1>11 DEF OwnInv

LEMMA StepOwn == OwnInv /\ [Next]_vars => OwnInv'
  <1> SUFFICES ASSUME OwnInv, [Next]_vars PROVE OwnInv'
    OBVIOUS
  <1>1. ASSUME UNCHANGED <<task, tables, session, pc, held, status, raced, crashes>>
        PROVE  OwnInv'
    <2>1. OwnTypes'
      BY <1>1 DEF OwnInv, OwnTypes, tables, session
    <2>2. IdleHoldNothing' /\ \A r \in Requests : RightPlace(r)'
      BY <1>1 DEF OwnInv, IdleHoldNothing, RightPlace, Kind, Chosen
    <2> QED
      BY <2>1, <2>2 DEF OwnInv
  <1>2. ASSUME NEW r \in Requests, BreakDeadlock(r) \/ Crash(r)
        PROVE  OwnInv'
    <2>1. CASE BreakDeadlock(r)
      BY <2>1, Answers, LeaveOwn DEF BreakDeadlock
    <2>2. CASE Crash(r)
      <3>1. crashes' \in Nat
        BY <2>2 DEF Crash, OwnInv, OwnTypes
      <3> QED
        BY <2>2, <3>1, Answers, EndOwn DEF Crash
    <2> QED
      BY <1>2, <2>1, <2>2
  <1> QED
    BY <1>1, <1>2, EntersOwn, SignInOwn, ProfileOwn, PlanOwn, ReportOwn, DeleteOwn, CommitOwn
    DEF Next, Step, Limit, Elapse, vars
 
(* The types of the server, the limiter's included, whatever requests there
   are and however they overlap; what is not under way holds no lock.       *)
THEOREM ServerTypeCorrect == Spec => []TypeOK
  <1>1. LimitTypeOK /\ OwnInv => TypeOK
    BY DEF OwnInv, OwnTypes, IdleHoldNothing, Idle, TypeOK
  <1> QED
    BY <1>1, InitOwn, StepOwn, ServerKeepsLimiter, LimiterTypeCorrect, PTL DEF Spec

-----------------------------------------------------------------------------
(* Integrity, by the lock protocol.                                        *)

LEMMA InitPrepared == Init => Integrity /\ Exclusive /\ \A r \in Requests : Prepared(r)
  <1> SUFFICES ASSUME Init PROVE Integrity /\ Exclusive /\ \A r \in Requests : Prepared(r)
    OBVIOUS
  <1>1. PICK b \in Beginnings :
          /\ profiles = [u \in Users |-> IF u \in Accounts THEN b.profiles ELSE NoProfiles]
          /\ plans = b.plans /\ reports = b.reports
    BY DEF Init
  <1>2. users = Accounts
    BY DEF Init
  <1>3. ASSUME NEW u \in Users \ users
        PROVE  ProfilesOf(u) = {} /\ PlansOf(u) = {} /\ ReportsOf(u) = {}
    <2>1. profiles[u] = NoProfiles
      BY <1>1, <1>2, <1>3
    <2>2. \A p \in plans : p.user \in Accounts
      BY <1>1, TaskAssumption
    <2>3. \A x \in reports : x.user \in Accounts
      BY <1>1, TaskAssumption
    <2> QED
      BY <1>2, <1>3, <2>1, <2>2, <2>3 DEF ProfilesOf, NoProfiles, PlansOf, ReportsOf
  <1>4. \A u, v \in users : Address(u) = Address(v) => u = v
    BY <1>2, TaskAssumption DEF Address
  <1>5. \A x, y \in reports : x.user = y.user /\ x.title = y.title => x = y
    BY <1>1, TaskAssumption
  <1>6. Exclusive
    BY DEF Init, Exclusive
  <1>7. \A r \in Requests : Prepared(r)
    BY DEF Init, Prepared, Deleting, Registering, Choosing, Planning, Reporting
  <1> QED
    BY <1>3, <1>4, <1>5, <1>6, <1>7 DEF Integrity

LEMMA LockSymmetry ==
  ASSUME NEW a, NEW b
  PROVE  Clash(a, b) <=> Clash(b, a)
  BY DEF Clash

LEMMA Excluded ==
  ASSUME Exclusive, NEW r \in Requests, NEW x \in Requests, r # x,
         NEW row, Write(row) \in held[r]
  PROVE  Write(row) \notin held[x] /\ Refer(row) \notin held[x]
  <1>1. Clash(Write(row), Write(row)) /\ Clash(Write(row), Refer(row))
    BY DEF Clash, Write, Refer
  <1> QED
    BY <1>1 DEF Exclusive

(* What a step that writes no table leaves to the other requests.          *)
LEMMA OthersPrepared ==
  ASSUME \A x \in Requests : Prepared(x), UNCHANGED <<task, tables>>, NEW r \in Requests,
         \A x \in Requests \ {r} :
           pc'[x] = pc[x] /\ held'[x] = held[x] /\ writes'[x] = writes[x] /\ seen'[x] = seen[x]
  PROVE  \A x \in Requests \ {r} : Prepared(x)'
  <1> TAKE x \in Requests \ {r}
  <1>1. Prepared(x)
    OBVIOUS
  <1>2. Kind(x)' = Kind(x) /\ User(x)' = User(x) /\ Saved(x)' = Saved(x)
    BY DEF Kind, User, Saved
  <1>3. Anchored(x)' <=> Anchored(x)
    BY <1>2 DEF Anchored, tables
  <1>4. Deleting(x)'
    BY <1>1, <1>2 DEF Prepared, Deleting, ProfilesOf, tables
  <1>5. Registering(x)'
    BY <1>1, <1>2 DEF Prepared, Registering, Taken, Address, tables
  <1>6. Choosing(x)'
    BY <1>1, <1>2, <1>3 DEF Prepared, Choosing, tables
  <1>7. Planning(x)'
    BY <1>1, <1>2, <1>3 DEF Prepared, Planning
  <1>8. Reporting(x)'
    BY <1>1, <1>2, <1>3 DEF Prepared, Reporting, IsReported, ReportsOf, tables
  <1> QED
    BY <1>4, <1>5, <1>6, <1>7, <1>8 DEF Prepared

LEMMA LockExcludes ==
  ASSUME OwnInv, Exclusive, NEW r \in Requests, Lock(r)
  PROVE  Exclusive'
  <1>1. /\ held'[r] = held[r] \cup Wanted(r)
        /\ \A x \in Requests \ {r} : held'[x] = held[x]
    BY DEF Lock, OwnInv, OwnTypes
  <1>2. ASSUME NEW x \in Requests \ {r}, NEW a \in held'[r], NEW b \in held[x]
        PROVE  ~ Clash(a, b)
    <2>1. CASE a \in held[r]
      BY <2>1 DEF Exclusive
    <2>2. CASE a \in Wanted(r)
      BY <2>2 DEF Lock, Blocked, WaitsFor
    <2> QED
      BY <1>1, <2>1, <2>2
  <1>3. ASSUME NEW x \in Requests, NEW y \in Requests, x # y, NEW a \in held'[x], NEW b \in held'[y]
        PROVE  ~ Clash(a, b)
    <2>1. CASE x = r
      BY <1>1, <1>2, <1>3, <2>1
    <2>2. CASE y = r
      BY <1>1, <1>2, <1>3, <2>2, LockSymmetry
    <2>3. CASE x # r /\ y # r
      BY <1>1, <1>3, <2>3 DEF Exclusive
    <2> QED
      BY <2>1, <2>2, <2>3
  <1> QED
    BY <1>3 DEF Exclusive

LEMMA FewerExclude ==
  ASSUME Exclusive, \A x \in Requests : held'[x] \subseteq held[x]
  PROVE  Exclusive'
  BY DEF Exclusive

LEMMA SameIntegrity ==
  ASSUME Integrity, UNCHANGED <<task, tables>>
  PROVE  Integrity'
  BY DEF Integrity, tables, ProfilesOf, PlansOf, ReportsOf, Address

(* A transaction that ends without a commit.                               *)
LEMMA EndPrepared ==
  ASSUME AccountInv, NEW r \in Requests, NEW what, Close(r), Respond(r, what),
         UNCHANGED <<task, tables>>, OwnInv'
  PROVE  AccountInv'
  <1>1. /\ pc'[r] = "done" /\ seen'[r] = {}
        /\ \A x \in Requests : held'[x] \subseteq held[x]
        /\ \A x \in Requests \ {r} :
             pc'[x] = pc[x] /\ held'[x] = held[x] /\ writes'[x] = writes[x] /\ seen'[x] = seen[x]
    BY DEF Close, Respond, Goto, AccountInv, OwnInv, OwnTypes
  <1>2. Prepared(r)'
    BY <1>1 DEF Prepared, Deleting, Registering, Choosing, Planning, Reporting
  <1>3. \A x \in Requests \ {r} : Prepared(x)'
    BY <1>1, OthersPrepared DEF AccountInv
  <1>4. Exclusive' /\ Integrity'
    BY <1>1, FewerExclude, SameIntegrity DEF AccountInv
  <1> QED
    BY <1>2, <1>3, <1>4 DEF AccountInv

LEMMA LeavePrepared ==
  ASSUME AccountInv, NEW r \in Requests, NEW what, Leave(r, what), OwnInv'
  PROVE  AccountInv'
  BY EndPrepared DEF Leave

(* A transaction that goes on.                                             *)
LEMMA WithinPrepared ==
  ASSUME AccountInv, NEW r \in Requests, NEW place, Goto(r, place),
         UNCHANGED <<task, tables>>, UNCHANGED held \/ Lock(r),
         \A x \in Requests \ {r} : writes'[x] = writes[x] /\ seen'[x] = seen[x],
         pc'[r] = place => Prepared(r)', OwnInv'
  PROVE  AccountInv'
  <1>1. /\ pc'[r] = place
        /\ \A x \in Requests \ {r} : pc'[x] = pc[x] /\ held'[x] = held[x]
    BY DEF Goto, Lock, AccountInv, OwnInv, OwnTypes
  <1>2. \A x \in Requests \ {r} : Prepared(x)'
    BY <1>1, OthersPrepared DEF AccountInv
  <1>3. Exclusive'
    BY LockExcludes, FewerExclude DEF AccountInv
  <1> QED
    BY <1>1, <1>2, <1>3, SameIntegrity DEF AccountInv

(* A place where nothing is promised yet.                                  *)
LEMMA EarlyPrepared ==
  ASSUME AccountInv, NEW r \in Requests,
         NEW place \in {"limit", "insert", "verify", "find", "others", "save", "scan", "require",
                        "quench", "plan", "lookup", "count", "report", "erase"},
         Goto(r, place), UNCHANGED <<task, tables>>, UNCHANGED held \/ Lock(r),
         \A x \in Requests \ {r} : writes'[x] = writes[x] /\ seen'[x] = seen[x],
         \A p \in seen'[r] : p.user = User(r), OwnInv'
  PROVE  AccountInv'
  <1>1. pc'[r] = place => Prepared(r)'
    <2>1. User(r)' = User(r)
      BY DEF User
    <2> QED
      BY <2>1 DEF Prepared, Deleting, Registering, Choosing, Planning, Reporting
  <1> QED
    BY <1>1, WithinPrepared

LEMMA SeenIsOwn ==
  ASSUME AccountInv, NEW r \in Requests
  PROVE  \A p \in seen[r] : p.user = User(r)
  BY DEF AccountInv, Prepared, Planning

LEMMA EarlySteps ==
  ASSUME AccountInv, NEW r \in Requests, OwnInv',
         \/ Arrive(r) \/ Authenticate(r) \/ Admit(r) \/ Verify(r)
         \/ FindProfile(r) \/ ResetOtherPrimaries(r)
         \/ Require(r) \/ ScanPlans(r) \/ DeactivatePrevious(r)
         \/ LookupReport(r) \/ CheckLimit(r)
  PROVE  AccountInv'
  <1> USE DEF session
  <1>1. CASE \E what : Leave(r, what)
    BY <1>1, LeavePrepared
  <1>2. CASE ~ \E what : Leave(r, what)
    <2>1. UNCHANGED <<task, tables>> /\ (UNCHANGED held \/ Lock(r))
      BY <1>2 DEF Arrive, Authenticate, Admit, Verify, FindProfile, ResetOtherPrimaries, Require,
         ScanPlans, DeactivatePrevious, LookupReport, CheckLimit, Reading
    <2>2. \E place \in {"limit", "insert", "verify", "find", "others", "save", "scan", "require",
                        "quench", "plan", "lookup", "count", "report", "erase"} : Goto(r, place)
      <3>1. CASE Authenticate(r)
        <4>1. Kind(r) \in Kinds /\ Goto(r, FirstStep(Kind(r))) /\ Kind(r) \notin {"register", "login"}
          BY <1>2, <3>1, TaskTypes DEF Authenticate, Kind, AccountInv, OwnInv
        <4>2. FirstStep(Kind(r)) \in {"find", "require", "lookup", "erase"}
          BY <4>1 DEF Kinds, FirstStep
        <4> QED
          BY <4>1, <4>2
      <3>2. CASE Arrive(r) \/ Admit(r) \/ Verify(r) \/ FindProfile(r) \/ ResetOtherPrimaries(r)
        BY <1>2, <3>2 DEF Arrive, Admit, Verify, FindProfile, ResetOtherPrimaries, Reading
      <3>3. CASE Require(r) \/ ScanPlans(r) \/ DeactivatePrevious(r) \/ LookupReport(r) \/ CheckLimit(r)
        BY <1>2, <3>3 DEF Require, ScanPlans, DeactivatePrevious, LookupReport, CheckLimit, Reading
      <3> QED
        BY <3>1, <3>2, <3>3
    <2>3. \A x \in Requests \ {r} : writes'[x] = writes[x]
      <3>1. CASE FindProfile(r)
        BY <1>2, <3>1 DEF FindProfile, AccountInv, OwnInv, OwnTypes
      <3>2. CASE ResetOtherPrimaries(r)
        BY <3>2 DEF ResetOtherPrimaries, AccountInv, OwnInv, OwnTypes
      <3>3. CASE ~ FindProfile(r) /\ ~ ResetOtherPrimaries(r)
        BY <1>2, <3>3 DEF Arrive, Authenticate, Admit, Verify, Require, ScanPlans,
           DeactivatePrevious, LookupReport, CheckLimit
      <3> QED
        BY <3>1, <3>2, <3>3
    <2>4. /\ \A x \in Requests \ {r} : seen'[x] = seen[x]
          /\ \A p \in seen'[r] : p.user = User(r)
      <3>1. CASE ScanPlans(r)
        BY <3>1 DEF ScanPlans, Previous, PlansOf, AccountInv, OwnInv, OwnTypes
      <3>2. CASE DeactivatePrevious(r)
        BY <3>2, SeenIsOwn DEF DeactivatePrevious, AccountInv, OwnInv, OwnTypes
      <3>3. CASE ~ ScanPlans(r) /\ ~ DeactivatePrevious(r)
        <4>1. seen' = seen
          BY <1>2, <3>3 DEF Arrive, Authenticate, Admit, Verify, FindProfile, ResetOtherPrimaries,
             Require, LookupReport, CheckLimit
        <4> QED
          BY <4>1, SeenIsOwn
      <3> QED
        BY <3>1, <3>2, <3>3
    <2> QED
      BY <2>1, <2>2, <2>3, <2>4, EarlyPrepared
  <1> QED
    BY <1>1, <1>2

(* The step before the commit, which takes the locks.                      *)
LEMMA RegisterPrepared ==
  ASSUME AccountInv, NEW r \in Requests, OwnInv', Register(r)
  PROVE  AccountInv'
  <1>1. CASE Leave(r, "conflict")
    BY <1>1, LeavePrepared
  <1>2. CASE /\ ~ Taken(task[r].email) /\ Lock(r) /\ Goto(r, "commit")
             /\ UNCHANGED <<limiter, task, tables, session, status, raced, crashes>>
    <2>1. Kind(r) = "register" /\ pc[r] = "insert"
      BY DEF Register, AccountInv, OwnInv, RightPlace
    <2>2. Write(EmailKey(task[r].email)) \in held'[r]
      BY <1>2, <2>1 DEF Lock, Wanted, AccountInv, OwnInv, OwnTypes
    <2>3. Kind(r)' = "register" /\ ~ Taken(task[r].email)' /\ task' = task
      BY <1>2, <2>1 DEF Kind, Taken, Address, tables
    <2>4. \A p \in seen'[r] : p.user = User(r)'
      BY <1>2, SeenIsOwn DEF session, User
    <2>5. Prepared(r)'
      BY <2>2, <2>3, <2>4 DEF Prepared, Deleting, Registering, Choosing, Planning, Reporting
    <2> QED
      BY <1>2, <2>5, WithinPrepared DEF session
  <1> QED
    BY <1>1, <1>2 DEF Register

LEMMA SavePrepared ==
  ASSUME AccountInv, NEW r \in Requests, OwnInv', SaveProfile(r)
  PROVE  AccountInv'
  <1>1. CASE Leave(r, "error")
    BY <1>1, LeavePrepared
  <1>2. CASE ~ Leave(r, "error")
    <2>1. /\ Lock(r) /\ Goto(r, "commit") /\ pc[r] = "save" /\ Kind(r) = "profile"
          /\ UNCHANGED <<limiter, task, tables, session, status, raced, crashes>>
          /\ ~ \E s \in Saved(r) : cache[r][s] = "absent" <=> profiles[User(r)][s] # "absent"
          /\ (\E s \in Saved(r) : cache[r][s] = "absent") => User(r) \in users
      BY <1>2 DEF SaveProfile, Gone, AccountInv, OwnInv, RightPlace
    <2>2. held'[r] = held[r] \cup Wanted(r)
      BY <2>1 DEF Lock, AccountInv, OwnInv, OwnTypes
    <2>3. ASSUME NEW s \in Saved(r)
          PROVE  /\ Write(ProfileRow(User(r), s)) \in held'[r]
                 /\ \/ profiles[User(r)][s] # "absent"
                    \/ User(r) \in users /\ Refer(UserRow(User(r))) \in held'[r]
      <3>1. Wanted(r) = {Write(ProfileRow(User(r), x)) : x \in Saved(r)}
                          \cup {Refer(UserRow(User(r))) : x \in {x \in Saved(r) : cache[r][x] = "absent"}}
        BY <2>1 DEF Wanted
      <3>2. CASE profiles[User(r)][s] = "absent"
        <4>1. cache[r][s] = "absent"
          BY <2>1, <3>2
        <4> QED
          BY <2>1, <2>2, <3>1, <4>1
      <3> QED
        BY <2>2, <3>1, <3>2
    <2>4. Kind(r)' = "profile" /\ User(r)' = User(r) /\ Saved(r)' = Saved(r) /\ UNCHANGED <<profiles, users>>
      BY <2>1 DEF Kind, User, Saved, tables, session
    <2>5. \A p \in seen'[r] : p.user = User(r)'
      BY <2>1, SeenIsOwn DEF session, User
    <2>6. Prepared(r)'
      BY <2>3, <2>4, <2>5 DEF Prepared, Deleting, Registering, Choosing, Planning, Reporting, Anchored
    <2> QED
      BY <2>1, <2>6, WithinPrepared DEF session
  <1> QED
    BY <1>1, <1>2

LEMMA PlanPrepared ==
  ASSUME AccountInv, NEW r \in Requests, OwnInv', InsertPlan(r)
  PROVE  AccountInv'
  <1>1. CASE Leave(r, "error")
    BY <1>1, LeavePrepared
  <1>2. CASE /\ ~ Gone(User(r)) /\ Lock(r) /\ Goto(r, "commit")
             /\ UNCHANGED <<limiter, task, tables, session, status, raced, crashes>>
    <2>1. Kind(r) = "plan" /\ pc[r] = "plan"
      BY DEF InsertPlan, AccountInv, OwnInv, RightPlace
    <2>2. Refer(UserRow(User(r))) \in held'[r] /\ User(r) \in users
      BY <1>2, <2>1 DEF Lock, Wanted, Gone, AccountInv, OwnInv, OwnTypes
    <2>3. Kind(r)' = "plan" /\ User(r)' = User(r) /\ users' = users
      BY <1>2, <2>1 DEF Kind, User, tables
    <2>4. \A p \in seen'[r] : p.user = User(r)'
      BY <1>2, SeenIsOwn DEF session, User
    <2>5. Prepared(r)'
      BY <2>2, <2>3, <2>4 DEF Prepared, Deleting, Registering, Choosing, Planning, Reporting, Anchored
    <2> QED
      BY <1>2, <2>5, WithinPrepared DEF session
  <1> QED
    BY <1>1, <1>2 DEF InsertPlan

LEMMA ReportPrepared ==
  ASSUME AccountInv, NEW r \in Requests, OwnInv', InsertReport(r)
  PROVE  AccountInv'
  <1>1. CASE Leave(r, "error")
    BY <1>1, LeavePrepared
  <1>2. CASE /\ ~ Gone(User(r)) /\ ~ IsReported(User(r), task[r].title) /\ Lock(r) /\ Goto(r, "commit")
             /\ UNCHANGED <<limiter, task, tables, session, status, raced, crashes>>
    <2>1. Kind(r) = "report" /\ pc[r] = "report"
      BY DEF InsertReport, AccountInv, OwnInv, RightPlace
    <2>2. /\ Refer(UserRow(User(r))) \in held'[r] /\ User(r) \in users
          /\ Write(ReportKey(User(r), task[r].title)) \in held'[r]
      BY <1>2, <2>1 DEF Lock, Wanted, Gone, AccountInv, OwnInv, OwnTypes
    <2>3. Kind(r)' = "report" /\ User(r)' = User(r) /\ users' = users /\ task' = task
      BY <1>2, <2>1 DEF Kind, User, tables
    <2>4. \A p \in seen'[r] : p.user = User(r)'
      BY <1>2, SeenIsOwn DEF session, User
    <2>5. ~ IsReported(User(r), task[r].title)'
      BY <1>2, <2>3 DEF IsReported, ReportsOf, tables
    <2>6. Prepared(r)'
      BY <2>2, <2>3, <2>4, <2>5
      DEF Prepared, Deleting, Registering, Choosing, Planning, Reporting, Anchored
    <2> QED
      BY <1>2, <2>6, WithinPrepared DEF session
  <1> QED
    BY <1>1, <1>2 DEF InsertReport

LEMMA DeletePrepared ==
  ASSUME AccountInv, NEW r \in Requests, OwnInv', Erase(r) \/ Cascade(r)
  PROVE  AccountInv'
  <1>1. /\ Kind(r) = "delete" /\ Lock(r) /\ UNCHANGED <<task, tables, session>>
        /\ \/ pc[r] = "erase" /\ Goto(r, "cascade")
           \/ pc[r] = "cascade" /\ Goto(r, "commit")
    BY DEF Erase, Cascade, AccountInv, OwnInv, RightPlace
  <1>2. /\ held'[r] = held[r] \cup Wanted(r) /\ Kind(r)' = "delete" /\ User(r)' = User(r)
        /\ ProfilesOf(User(r))' = ProfilesOf(User(r))
    BY <1>1 DEF Lock, AccountInv, OwnInv, OwnTypes, Kind, User, ProfilesOf, tables
  <1>3. Write(UserRow(User(r))) \in held'[r]
    <2>1. CASE pc[r] = "erase"
      BY <1>2, <2>1 DEF Wanted
    <2>2. CASE pc[r] = "cascade"
      BY <1>1, <1>2, <2>2 DEF AccountInv, Prepared, Deleting
    <2> QED
      BY <1>1, <2>1, <2>2
  <1>4. ASSUME pc[r] = "cascade", NEW s \in ProfilesOf(User(r))
        PROVE  Write(ProfileRow(User(r), s)) \in held'[r]
    BY <1>2, <1>4 DEF Wanted
  <1>5. PICK place \in {"cascade", "commit"} : Goto(r, place) /\ (place = "commit" => pc[r] = "cascade")
    BY <1>1
  <1>6. \A p \in seen'[r] : p.user = User(r)'
    BY <1>1, SeenIsOwn DEF session, User
  <1>7. pc'[r] = place => Prepared(r)'
    BY <1>2, <1>3, <1>4, <1>5, <1>6
    DEF Prepared, Deleting, Registering, Choosing, Planning, Reporting
  <1> QED
    BY <1>1, <1>5, <1>7, WithinPrepared DEF session

-----------------------------------------------------------------------------
(* The commit.  What another request has promised itself, the locks keep.  *)

LEMMA CommitEffect ==
  ASSUME AccountInv, NEW r \in Requests, Commit(r)
  PROVE  /\ pc[r] = "commit" /\ task' = task /\ pc'[r] = "done" /\ seen'[r] = {}
         /\ \A x \in Requests : held'[x] \subseteq held[x]
         /\ \A x \in Requests \ {r} :
              pc'[x] = pc[x] /\ held'[x] = held[x] /\ writes'[x] = writes[x] /\ seen'[x] = seen[x]
         /\ Kind(r) = "register" => users' = users \cup {r}
         /\ Kind(r) = "delete" => users' = users \ {User(r)}
         /\ Kind(r) \notin {"register", "delete"} => users' = users
  BY DEF Commit, Close, Respond, Goto, AccountInv, OwnInv, OwnTypes, Kind

LEMMA CommittedProfiles ==
  ASSUME AccountInv, NEW r \in Requests, Commit(r)
  PROVE  /\ Kind(r) = "profile" =>
              \A s \in Specs : profiles'[User(r)][s] = IF writes[r][s] \in {"no", "yes"}
                                                      THEN writes[r][s] ELSE profiles[User(r)][s]
         /\ Kind(r) = "delete" => \A s \in Specs : profiles'[User(r)][s] = "absent"
         /\ Kind(r) \in {"profile", "delete"} =>
              \A u \in Users \ {User(r)} : profiles'[u] = profiles[u]
         /\ Kind(r) \notin {"profile", "delete"} => profiles' = profiles
  <1>1. User(r) \in Users /\ profiles \in [Users -> [Specs -> Flags]]
    BY TaskTypes DEF AccountInv, OwnInv, OwnTypes
  <1>2. CASE Kind(r) = "profile"
    <2>1. profiles' = [profiles EXCEPT ![User(r)] = [s \in Specs |->
             IF writes[r][s] \in {"no", "yes"} THEN writes[r][s] ELSE profiles[User(r)][s]]]
      BY <1>2 DEF Commit, Kind
    <2> QED
      BY <1>1, <1>2, <2>1
  <1>3. CASE Kind(r) = "delete"
    BY <1>1, <1>3 DEF Commit, Kind, NoProfiles
  <1>4. CASE Kind(r) \notin {"profile", "delete"}
    BY <1>4 DEF Commit, Kind
  <1> QED
    BY <1>2, <1>3, <1>4

LEMMA CommittedPlans ==
  ASSUME AccountInv, NEW r \in Requests, Commit(r)
  PROVE  /\ \A p \in plans' : p \in plans \/ (Kind(r) = "plan" /\ p.user = User(r))
         /\ Kind(r) = "delete" => \A p \in plans' : p.user # User(r)
  <1>1. CASE Kind(r) = "plan"
    <2>1. plans' = (plans \ seen[r]) \cup {NewPlan(r)} \cup {[p EXCEPT !.active = FALSE] : p \in seen[r]}
      BY <1>1 DEF Commit, Kind
    <2>2. \A p \in seen[r] : p \in Plans /\ p.user = User(r)
      BY SeenIsOwn DEF AccountInv, OwnInv, OwnTypes
    <2>3. \A p \in Plans : [p EXCEPT !.active = FALSE].user = p.user
      BY DEF Plans
    <2>4. NewPlan(r).user = User(r)
      BY DEF NewPlan
    <2>5. ASSUME NEW p \in plans', p \notin plans
          PROVE  p.user = User(r)
      <3>1. p = NewPlan(r) \/ \E q \in seen[r] : p = [q EXCEPT !.active = FALSE]
        BY <2>1, <2>5
      <3> QED
        BY <2>2, <2>3, <2>4, <3>1
    <2> QED
      BY <1>1, <2>5
  <1>2. CASE Kind(r) = "delete"
    BY <1>2 DEF Commit, Kind, PlansOf
  <1>3. CASE Kind(r) \notin {"plan", "delete"}
    BY <1>3 DEF Commit, Kind
  <1> QED
    BY <1>1, <1>2, <1>3

LEMMA CommittedReports ==
  ASSUME AccountInv, NEW r \in Requests, Commit(r)
  PROVE  /\ \A x \in reports' :
              \/ x \in reports
              \/ /\ Kind(r) = "report"
                 /\ x = [user |-> User(r), title |-> task[r].title, by |-> r]
         /\ Kind(r) = "delete" => \A x \in reports' : x.user # User(r)
  BY DEF Commit, Kind, ReportsOf

LEMMA CommitIntegrity ==
  ASSUME AccountInv, NEW r \in Requests, Commit(r), OwnInv'
  PROVE  Integrity'
  <1>1. /\ Prepared(r) /\ Integrity /\ User(r) \in Users /\ r \notin Accounts
        /\ pc[r] = "commit" /\ task' = task
    BY TaskTypes, CommitEffect DEF AccountInv, OwnInv
  <1>2. ASSUME NEW u \in Users \ users'
        PROVE  /\ \A s \in Specs : profiles'[u][s] = "absent"
               /\ \A p \in plans' : p.user # u
               /\ \A x \in reports' : x.user # u
    <2>1. CASE Kind(r) = "delete" /\ u = User(r)
      BY <2>1, CommittedProfiles, CommittedPlans, CommittedReports
    <2>2. CASE ~ (Kind(r) = "delete" /\ u = User(r))
      <3>1. u \notin users
        BY <1>2, <2>2, CommitEffect
      <3>2. /\ \A s \in Specs : profiles[u][s] = "absent"
            /\ \A p \in plans : p.user # u
            /\ \A x \in reports : x.user # u
        BY <1>1, <3>1 DEF Integrity, ProfilesOf, PlansOf, ReportsOf
      <3>3. \A p \in plans' : p.user # u
        BY <1>1, <3>1, <3>2, CommittedPlans DEF Prepared, Planning, Anchored
      <3>4. \A x \in reports' : x.user # u
        BY <1>1, <3>1, <3>2, CommittedReports DEF Prepared, Reporting, Anchored
      <3>5. ASSUME NEW s \in Specs
            PROVE  profiles'[u][s] = "absent"
        <4>1. CASE Kind(r) = "profile" /\ u = User(r)
          <5>1. s \notin Saved(r)
            BY <1>1, <3>1, <3>2, <4>1 DEF Prepared, Choosing, Anchored
          <5>2. writes[r][s] = "absent"
            BY <5>1 DEF Saved
          <5> QED
            BY <3>2, <4>1, <5>2, CommittedProfiles
        <4>2. CASE ~ (Kind(r) = "profile" /\ u = User(r))
          BY <2>2, <3>2, <4>2, CommittedProfiles
        <4> QED
          BY <4>1, <4>2
      <3> QED
        BY <3>3, <3>4, <3>5
    <2> QED
      BY <2>1, <2>2
  <1>3. \A u \in Users \ users' : ProfilesOf(u)' = {} /\ PlansOf(u)' = {} /\ ReportsOf(u)' = {}
    BY <1>2 DEF ProfilesOf, PlansOf, ReportsOf
  <1>4. ASSUME NEW u \in users', NEW v \in users', Address(u)' = Address(v)'
        PROVE  u = v
    <2>1. Address(u) = Address(v)
      BY <1>1, <1>4 DEF Address
    <2>2. CASE Kind(r) = "register"
      <3>1. Address(r) = task[r].email
        BY <1>1 DEF Address
      <3>2. \A x \in users : Address(x) # Address(r)
        BY <1>1, <2>2, <3>1 DEF Prepared, Registering, Taken
      <3>3. users' = users \cup {r}
        BY <2>2, CommitEffect
      <3> QED
        BY <1>1, <2>1, <3>2, <3>3 DEF Integrity
    <2>3. CASE Kind(r) # "register"
      <3>1. users' \subseteq users
        BY <2>3, CommitEffect
      <3> QED
        BY <1>1, <2>1, <3>1 DEF Integrity
    <2> QED
      BY <2>2, <2>3
  <1>5. ASSUME NEW x \in reports', NEW y \in reports', x.user = y.user, x.title = y.title
        PROVE  x = y
    <2> DEFINE new == [user |-> User(r), title |-> task[r].title, by |-> r]
    <2>1. \A z \in reports : Kind(r) = "report" => ~ (z.user = new.user /\ z.title = new.title)
      BY <1>1 DEF Prepared, Reporting, IsReported, ReportsOf
    <2>2. /\ x \in reports \/ (Kind(r) = "report" /\ x = new)
          /\ y \in reports \/ (Kind(r) = "report" /\ y = new)
      BY CommittedReports
    <2> HIDE DEF new
    <2>3. CASE x \in reports /\ y \in reports
      BY <1>1, <1>5, <2>3 DEF Integrity
    <2> QED
      BY <1>5, <2>1, <2>2, <2>3
  <1> QED
    BY <1>3, <1>4, <1>5 DEF Integrity

LEMMA CommitKeepsOthers ==
  ASSUME AccountInv, NEW r \in Requests, Commit(r), NEW x \in Requests \ {r}
  PROVE  Prepared(x)'
  <1>1. /\ Prepared(x) /\ Prepared(r) /\ Exclusive /\ OwnInv /\ User(x) \in Users /\ User(r) \in Users
        /\ pc[r] = "commit" /\ task' = task
        /\ pc'[x] = pc[x] /\ held'[x] = held[x] /\ writes'[x] = writes[x] /\ seen'[x] = seen[x]
    BY TaskTypes, CommitEffect DEF AccountInv, OwnInv
  <1>2. Kind(x)' = Kind(x) /\ User(x)' = User(x) /\ Saved(x)' = Saved(x)
    BY <1>1 DEF Kind, User, Saved
  <1>3. Anchored(x) => Anchored(x)'
    <2> SUFFICES ASSUME Anchored(x) PROVE User(x) \in users'
      BY <1>1, <1>2 DEF Anchored
    <2>1. CASE Kind(r) = "delete" /\ User(r) = User(x)
      BY <1>1, <2>1, Excluded DEF Prepared, Deleting, Anchored
    <2>2. CASE ~ (Kind(r) = "delete" /\ User(r) = User(x))
      BY <2>2, CommitEffect DEF Anchored
    <2> QED
      BY <2>1, <2>2
  <1>4. Deleting(x)'
    <2>1. ASSUME Kind(x) = "delete", pc[x] = "commit", NEW s \in ProfilesOf(User(x))'
          PROVE  s \in ProfilesOf(User(x))
      <3>1. s \in Specs /\ profiles'[User(x)][s] # "absent"
        BY <1>2, <2>1 DEF ProfilesOf
      <3>2. CASE Kind(r) = "profile" /\ User(r) = User(x) /\ profiles[User(x)][s] = "absent"
        <4>1. s \in Saved(r)
          BY <3>1, <3>2, CommittedProfiles DEF Saved
        <4>2. Refer(UserRow(User(x))) \in held[r]
          BY <1>1, <3>2, <4>1 DEF Prepared, Choosing, Anchored
        <4>3. Write(UserRow(User(x))) \in held[x]
          BY <1>1, <2>1 DEF Prepared, Deleting
        <4> QED
          BY <1>1, <4>2, <4>3, Excluded
      <3>3. CASE ~ (Kind(r) = "profile" /\ User(r) = User(x) /\ profiles[User(x)][s] = "absent")
        BY <1>1, <3>1, <3>3, CommittedProfiles DEF ProfilesOf
      <3> QED
        BY <3>2, <3>3
    <2> QED
      BY <1>1, <1>2, <2>1 DEF Prepared, Deleting
  <1>5. Registering(x)'
    <2>1. ASSUME Kind(x) = "register", pc[x] = "commit", Taken(task[x].email)'
          PROVE  FALSE
      <3>1. ~ Taken(task[x].email) /\ Write(EmailKey(task[x].email)) \in held[x]
        BY <1>1, <2>1 DEF Prepared, Registering
      <3>2. PICK u \in users' : Address(u) = task[x].email
        BY <1>1, <2>1 DEF Taken, Address
      <3>3. u = r /\ Kind(r) = "register"
        BY <3>1, <3>2, CommitEffect DEF Taken
      <3>4. task[r].email = task[x].email
        BY <3>2, <3>3, <1>1, TaskTypes DEF Address, OwnInv
      <3>5. Write(EmailKey(task[x].email)) \in held[r]
        BY <1>1, <3>3, <3>4 DEF Prepared, Registering
      <3> QED
        BY <1>1, <3>1, <3>5, Excluded
    <2> QED
      BY <1>1, <1>2, <2>1 DEF Prepared, Registering
  <1>6. Choosing(x)'
    <2>1. ASSUME Kind(x) = "profile", pc[x] = "commit", NEW s \in Saved(x),
                 profiles[User(x)][s] # "absent"
          PROVE  profiles'[User(x)][s] # "absent"
      <3>1. s \in Specs
        BY <2>1 DEF Saved
      <3>2. CASE Kind(r) = "delete" /\ User(r) = User(x)
        <4>1. Write(ProfileRow(User(x), s)) \in held[x]
          BY <1>1, <2>1 DEF Prepared, Choosing
        <4>2. Write(ProfileRow(User(x), s)) \in held[r]
          BY <1>1, <2>1, <3>1, <3>2 DEF Prepared, Deleting, ProfilesOf
        <4> QED
          BY <1>1, <4>1, <4>2, Excluded
      <3>3. CASE ~ (Kind(r) = "delete" /\ User(r) = User(x))
        BY <1>1, <2>1, <3>1, <3>3, CommittedProfiles
      <3> QED
        BY <3>2, <3>3
    <2> QED
      BY <1>1, <1>2, <1>3, <2>1 DEF Prepared, Choosing
  <1>7. Planning(x)'
    BY <1>1, <1>2, <1>3 DEF Prepared, Planning
  <1>8. Reporting(x)'
    <2>1. ASSUME Kind(x) = "report", pc[x] = "commit", IsReported(User(x), task[x].title)'
          PROVE  FALSE
      <3>1. /\ ~ IsReported(User(x), task[x].title)
            /\ Write(ReportKey(User(x), task[x].title)) \in held[x]
        BY <1>1, <2>1 DEF Prepared, Reporting
      <3>2. PICK y \in reports' : y.user = User(x) /\ y.title = task[x].title
        BY <1>1, <1>2, <2>1 DEF IsReported, ReportsOf
      <3>3. Kind(r) = "report" /\ User(r) = User(x) /\ task[r].title = task[x].title
        BY <3>1, <3>2, CommittedReports DEF IsReported, ReportsOf
      <3>4. Write(ReportKey(User(x), task[x].title)) \in held[r]
        BY <1>1, <3>3 DEF Prepared, Reporting
      <3> QED
        BY <1>1, <3>1, <3>4, Excluded
    <2> QED
      BY <1>1, <1>2, <1>3, <2>1 DEF Prepared, Reporting
  <1> QED
    BY <1>4, <1>5, <1>6, <1>7, <1>8 DEF Prepared

LEMMA CommitPrepared ==
  ASSUME AccountInv, NEW r \in Requests, OwnInv', Commit(r)
  PROVE  AccountInv'
  <1>1. Prepared(r)'
    BY CommitEffect DEF Prepared, Deleting, Registering, Choosing, Planning, Reporting
  <1>2. Exclusive'
    BY CommitEffect, FewerExclude DEF AccountInv
  <1> QED
    BY <1>1, <1>2, CommitKeepsOthers, CommitIntegrity DEF AccountInv

LEMMA StepAccount == AccountInv /\ [Next]_vars => AccountInv'
  <1> SUFFICES ASSUME AccountInv, [Next]_vars PROVE AccountInv'
    OBVIOUS
  <1>1. OwnInv'
    BY StepOwn DEF AccountInv
  <1>2. ASSUME UNCHANGED <<task, tables, session, pc, held, status, raced, crashes>>
        PROVE  AccountInv'
    <2>1. \A x \in Requests : Prepared(x)'
      <3> TAKE r \in Requests
      <3>1. /\ Prepared(r) /\ Kind(r)' = Kind(r) /\ User(r)' = User(r) /\ Saved(r)' = Saved(r)
            /\ ProfilesOf(User(r))' = ProfilesOf(User(r)) /\ (Anchored(r)' <=> Anchored(r))
            /\ (Taken(task[r].email)' <=> Taken(task[r].email))
            /\ (IsReported(User(r), task[r].title)' <=> IsReported(User(r), task[r].title))
        BY <1>2 DEF AccountInv, Kind, User, Saved, ProfilesOf, Anchored, Taken, Address,
           IsReported, ReportsOf, tables, session
      <3> QED
        BY <1>2, <3>1
        DEF Prepared, Deleting, Registering, Choosing, Planning, Reporting, tables, session
    <2> QED
      BY <1>1, <1>2, <2>1, FewerExclude, SameIntegrity DEF AccountInv
  <1>3. ASSUME NEW r \in Requests, BreakDeadlock(r) \/ Crash(r)
        PROVE  AccountInv'
    BY <1>1, <1>3, LeavePrepared, EndPrepared DEF BreakDeadlock, Crash
  <1> QED
    BY <1>1, <1>2, <1>3, EarlySteps, RegisterPrepared, SavePrepared, PlanPrepared, ReportPrepared,
       DeletePrepared, CommitPrepared
    DEF Next, Step, Limit, Elapse, vars

(* For any number of accounts and requests, and however they overlap, fail
   or die: nothing stays of an account that is gone, no address has two
   accounts, no account has a report twice.                                 *)
THEOREM AccountsAreWhole == Spec => []Integrity
  <1>1. AccountInv => Integrity
    BY DEF AccountInv
  <1>2. Init => AccountInv
    BY InitOwn, InitPrepared DEF AccountInv
  <1> QED
    BY <1>1, <1>2, StepAccount, PTL DEF Spec

-----------------------------------------------------------------------------
(* At most one primary specialization and active plan, no more reports than *)
(* allowed.  A request whose kind has not raced is the only one of its kind *)
(* at work on its account; so what it has read of the account still holds   *)
(* when it commits, unless the account is gone.                            *)

Tokened == {"profile", "plan", "report", "delete"}
Working(r) ==
  pc[r] \in {"find", "others", "save", "require", "scan", "quench", "plan", "lookup", "count",
             "report", "erase", "cascade", "commit"}

Alone ==
  \A r, x \in Requests :
    /\ Working(r) /\ Working(x) /\ Kind(r) = Kind(x) /\ User(r) = User(x)
    /\ Kind(r) \in Tokened \ raced
    => r = x

(* The flag a profile will have.                                           *)
Resulting(r, s) ==
  IF writes[r][s] \in {"no", "yes"} THEN writes[r][s] ELSE profiles[User(r)][s]

SeesProfiles(r) ==
  "profile" \notin raced /\ Kind(r) = "profile" /\ Working(r) /\ User(r) \in users =>
    /\ \A s \in Specs : cache[r][s] = profiles[User(r)][s]
    /\ pc[r] = "others" =>
         /\ Chosen(r) \in Specs /\ Resulting(r, Chosen(r)) = "yes"
         /\ \A s \in Specs \ {Chosen(r)} : writes[r][s] = "absent"
    /\ pc[r] \in {"save", "commit"} =>
         /\ \A s, t \in Specs : Resulting(r, s) = "yes" /\ Resulting(r, t) = "yes" => s = t
         /\ task[r].primary => Chosen(r) \in Specs /\ Resulting(r, Chosen(r)) = "yes"

SeesPlans(r) ==
  "plan" \notin raced /\ Kind(r) = "plan" /\ pc[r] \in {"quench", "plan", "commit"} =>
    \A p \in plans : p.user = User(r) /\ p.spec = Chosen(r) /\ p.active => p \in seen[r]

SeesReports(r) ==
  "report" \notin raced /\ Kind(r) = "report" /\ pc[r] \in {"report", "commit"} =>
    Cardinality(ReportsOf(User(r))) < DailyLimit

Sees(r) ==
  /\ SeesProfiles(r) /\ SeesPlans(r) /\ SeesReports(r)
  /\ pc[r] \in {"new", "find"} => writes[r] = NoProfiles

OnePrimary ==
  "profile" \notin raced =>
    \A u \in Users : \A s, t \in Specs : profiles[u][s] = "yes" /\ profiles[u][t] = "yes" => s = t

OneActive ==
  "plan" \notin raced =>
    \A p, q \in plans : p.user = q.user /\ p.spec = q.spec /\ p.active /\ q.active => p = q

FewReports ==
  /\ IsFiniteSet(reports)
  /\ "report" \notin raced => \A u \in Users : Cardinality(ReportsOf(u)) <= DailyLimit

(* Who has answered is done; and an account without a primary one has no    *)
(* profile, or has declined.                                               *)
Settled == \A r \in Requests : status[r] # "none" => pc[r] = "done"

SomePrimary ==
  "profile" \notin raced =>
    \A u \in Users : Primaries(u) = {} => ProfilesOf(u) = {} \/ Declined(u)

RaceInv ==
  Alone /\ OnePrimary /\ OneActive /\ FewReports /\ \A r \in Requests : Sees(r)

LEMMA AtMostOne ==
  ASSUME NEW S, \A a, b \in S : a = b
  PROVE  Cardinality(S) <= 1
  <1>1. CASE S = {}
    BY <1>1, FS_EmptySet
  <1>2. CASE S # {}
    <2>1. PICK a : S = {a}
      BY <1>2
    <2> QED
      BY <2>1, FS_Singleton
  <1> QED
    BY <1>1, <1>2

LEMMA OnlyOneFollows == RaceInv /\ SomePrimary => OnlyOne
  <1> SUFFICES ASSUME RaceInv, SomePrimary, NEW u \in Users
               PROVE  /\ "profile" \notin raced =>
                           /\ Cardinality(Primaries(u)) <= 1
                           /\ Primaries(u) = {} => ProfilesOf(u) = {} \/ Declined(u)
                      /\ "plan" \notin raced =>
                           \A s \in Specs : Cardinality({p \in PlansOf(u) : p.spec = s /\ p.active}) <= 1
                      /\ "report" \notin raced => Cardinality(ReportsOf(u)) <= DailyLimit
    BY DEF OnlyOne
  <1>1. ASSUME "profile" \notin raced
        PROVE  /\ Cardinality(Primaries(u)) <= 1
               /\ Primaries(u) = {} => ProfilesOf(u) = {} \/ Declined(u)
    <2>1. \A a, b \in Primaries(u) : a = b
      BY <1>1 DEF RaceInv, OnePrimary, Primaries
    <2> QED
      BY <1>1, <2>1, AtMostOne DEF SomePrimary
  <1>2. ASSUME "plan" \notin raced, NEW s \in Specs
        PROVE  Cardinality({p \in PlansOf(u) : p.spec = s /\ p.active}) <= 1
    <2>1. \A a, b \in {p \in PlansOf(u) : p.spec = s /\ p.active} : a = b
      BY <1>2 DEF RaceInv, OneActive, PlansOf
    <2> QED
      BY <2>1, AtMostOne
  <1>3. ASSUME "report" \notin raced
        PROVE  Cardinality(ReportsOf(u)) <= DailyLimit
    BY <1>3 DEF RaceInv, FewReports
  <1> QED
    BY <1>1, <1>2, <1>3

LEMMA InitRace == Init => RaceInv
  <1> SUFFICES ASSUME Init PROVE RaceInv
    OBVIOUS
  <1>1. PICK b \in Beginnings :
          /\ profiles = [u \in Users |-> IF u \in Accounts THEN b.profiles ELSE NoProfiles]
          /\ plans = b.plans /\ reports = b.reports
    BY DEF Init
  <1>2. \A r \in Requests : pc[r] = "new" /\ writes[r] = NoProfiles
    BY DEF Init
  <1>3. OnePrimary
    <2>1. ASSUME NEW u \in Users, NEW s \in Specs, NEW t \in Specs,
                 profiles[u][s] = "yes", profiles[u][t] = "yes"
          PROVE  s = t
      <3>1. u \in Accounts /\ profiles[u] = b.profiles
        BY <1>1, <2>1 DEF NoProfiles
      <3> QED
        BY <2>1, <3>1, TaskAssumption
    <2> QED
      BY <2>1 DEF OnePrimary
  <1>4. OneActive
    BY <1>1, TaskAssumption DEF OneActive
  <1>5. FewReports
    <2>1. ASSUME NEW u \in Users
          PROVE  Cardinality(ReportsOf(u)) <= DailyLimit
      <3>1. ReportsOf(u) = {x \in b.reports : x.user = u}
        BY <1>1 DEF ReportsOf
      <3>2. CASE u \in Accounts
        BY <3>1, <3>2, TaskAssumption
      <3>3. CASE u \notin Accounts
        <4>1. ReportsOf(u) = {}
          BY <3>1, <3>3, TaskAssumption
        <4> QED
          BY <4>1, FS_EmptySet, AccountAssumption
      <3> QED
        BY <3>2, <3>3
    <2> QED
      BY <1>1, <2>1, TaskAssumption DEF FewReports
  <1>6. Alone
    BY <1>2 DEF Alone, Working
  <1>7. \A r \in Requests : Sees(r)
    BY <1>2 DEF Sees, SeesProfiles, SeesPlans, SeesReports, Working
  <1> QED
    BY <1>3, <1>4, <1>5, <1>6, <1>7 DEF RaceInv

(* A step that writes no table: what the others have seen is still so, and  *)
(* the request keeps alone of its kind unless it raced.                    *)
LEMMA RaceMoves ==
  ASSUME OwnInv, RaceInv, NEW r \in Requests, UNCHANGED <<task, tables>>, raced \subseteq raced',
         \A x \in Requests \ {r} :
           /\ pc'[x] = pc[x] /\ cache'[x] = cache[x] /\ writes'[x] = writes[x]
           /\ seen'[x] = seen[x],
         Sees(r)',
         \/ ~ Working(r)' \/ Working(r) \/ Kind(r) \notin Tokened
         \/ \A x \in Requests \ {r} :
              Working(x) /\ Kind(x) = Kind(r) /\ User(x) = User(r) => Kind(r) \in raced'
  PROVE  RaceInv'
  <1>1. \A x \in Requests : Kind(x)' = Kind(x) /\ User(x)' = User(x) /\ Chosen(x)' = Chosen(x)
    BY DEF Kind, User, Chosen
  <1>2. \A x \in Requests \ {r} : Working(x)' <=> Working(x)
    BY DEF Working
  <1>3. Alone'
    <2>1. ASSUME NEW x \in Requests \ {r}, Working(r)', Working(x)', Kind(r) = Kind(x),
                 User(r) = User(x), Kind(r) \in Tokened, Kind(r) \notin raced'
          PROVE  FALSE
      <3>1. Working(x) /\ Kind(r) \notin raced
        BY <1>2, <2>1
      <3>2. ~ Working(r)
        BY <2>1, <3>1 DEF RaceInv, Alone
      <3> QED
        BY <2>1, <3>1, <3>2
    <2>2. ASSUME NEW x \in Requests \ {r}, NEW y \in Requests \ {r}, Working(x)', Working(y)',
                 Kind(x) = Kind(y), User(x) = User(y), Kind(x) \in Tokened, Kind(x) \notin raced'
          PROVE  x = y
      BY <1>2, <2>2 DEF RaceInv, Alone
    <2>3. ASSUME NEW x \in Requests, NEW y \in Requests, Working(x)', Working(y)',
                 Kind(x) = Kind(y), User(x) = User(y), Kind(x) \in Tokened \ raced', x # y
          PROVE  FALSE
      BY <2>1, <2>2, <2>3
    <2> QED
      BY <1>1, <2>3 DEF Alone
  <1>4. ASSUME NEW x \in Requests \ {r}
        PROVE  Sees(x)'
    <2>1. Sees(x)
      BY DEF RaceInv
    <2>2. \A s \in Specs : Resulting(x, s)' = Resulting(x, s)
      BY <1>1 DEF Resulting, tables
    <2>3. SeesProfiles(x)'
      <3>1. Resulting(x, Chosen(x))' = Resulting(x, Chosen(x))
        BY <1>1 DEF Resulting, tables
      <3> QED
        BY <1>1, <1>2, <2>1, <2>2, <3>1 DEF Sees, SeesProfiles, tables
    <2>4. SeesPlans(x)'
      BY <1>1, <2>1 DEF Sees, SeesPlans, tables
    <2>5. SeesReports(x)'
      BY <1>1, <2>1 DEF Sees, SeesReports, ReportsOf, tables
    <2> QED
      BY <2>1, <2>3, <2>4, <2>5 DEF Sees
  <1>5. OnePrimary' /\ OneActive'
    BY DEF RaceInv, OnePrimary, OneActive, tables
  <1>6. FewReports'
    BY DEF RaceInv, FewReports, ReportsOf, tables
  <1> QED
    BY <1>3, <1>4, <1>5, <1>6 DEF RaceInv

LEMMA RaceEnds ==
  ASSUME OwnInv, RaceInv, NEW r \in Requests, NEW what, Close(r), Respond(r, what),
         UNCHANGED <<task, tables, raced>>
  PROVE  RaceInv'
  <1>1. /\ pc'[r] = "done"
        /\ \A x \in Requests \ {r} :
             /\ pc'[x] = pc[x] /\ cache'[x] = cache[x] /\ writes'[x] = writes[x]
             /\ seen'[x] = seen[x]
    BY DEF Close, Respond, Goto, OwnInv, OwnTypes
  <1>2. ~ Working(r)' /\ Sees(r)'
    BY <1>1 DEF Working, Sees, SeesProfiles, SeesPlans, SeesReports
  <1> QED
    BY <1>1, <1>2, RaceMoves

LEMMA RaceLeaves ==
  ASSUME OwnInv, RaceInv, NEW r \in Requests, NEW what, Leave(r, what)
  PROVE  RaceInv'
  BY RaceEnds DEF Leave

(* Requests without a token, and deletions, have seen nothing that matters. *)
LEMMA RaceIdle ==
  ASSUME OwnInv, RaceInv, NEW r \in Requests, NEW place \in Places \ {"find"}, Goto(r, place),
         UNCHANGED <<task, tables, raced>>,
         UNCHANGED session,
         Kind(r) \in {"register", "login", "delete"} \/ place \in {"limit", "insert", "verify"},
         place \in {"limit", "insert", "verify"} \/ Working(r) \/ Kind(r) \notin Tokened,
         place # "new"
  PROVE  RaceInv'
  <1>1. pc'[r] = place /\ (\A x \in Requests \ {r} : pc'[x] = pc[x]) /\ Kind(r)' = Kind(r)
    BY DEF Goto, OwnInv, OwnTypes, Kind
  <1>2. Sees(r)'
    BY <1>1 DEF Sees, SeesProfiles, SeesPlans, SeesReports, Working
  <1>3. place \in {"limit", "insert", "verify"} => ~ Working(r)'
    BY <1>1 DEF Working
  <1> QED
    BY <1>1, <1>2, <1>3, RaceMoves DEF session

LEMMA SignInRace ==
  ASSUME OwnInv, RaceInv, NEW r \in Requests, Arrive(r) \/ Admit(r) \/ Verify(r) \/ Register(r)
  PROVE  RaceInv'
  <1>1. CASE \E what : Leave(r, what)
    BY <1>1, RaceLeaves
  <1>2. CASE ~ \E what : Leave(r, what)
    <2>1. CASE Arrive(r) \/ Admit(r)
      <3>1. PICK place \in {"limit", "insert", "verify"} : Goto(r, place)
        BY <1>2, <2>1 DEF Arrive, Admit, Reading
      <3>2. UNCHANGED <<task, tables, raced>> /\ UNCHANGED session /\ place \in Places
        BY <1>2, <2>1 DEF Arrive, Admit, Reading, Places
      <3> QED
        BY <3>1, <3>2, RaceIdle
    <2>2. CASE Register(r)
      <3>1. Goto(r, "commit") /\ UNCHANGED <<task, tables, raced>> /\ UNCHANGED session
        BY <1>2, <2>2 DEF Register
      <3>2. Kind(r) = "register" /\ "commit" \in Places
        BY <2>2 DEF Register, OwnInv, RightPlace, Places
      <3> QED
        BY <3>1, <3>2, RaceIdle DEF Tokened
    <2>3. ~ Verify(r)
      BY <1>2 DEF Verify
    <2> QED
      BY <2>1, <2>2, <2>3
  <1> QED
    BY <1>1, <1>2

LEMMA DeleteRace ==
  ASSUME OwnInv, RaceInv, NEW r \in Requests, Erase(r) \/ Cascade(r)
  PROVE  RaceInv'
  <1>1. /\ Kind(r) = "delete" /\ Working(r) /\ UNCHANGED <<task, tables, raced>> /\ UNCHANGED session
        /\ \E place \in {"cascade", "commit"} : Goto(r, place)
    BY DEF Erase, Cascade, OwnInv, RightPlace, Working
  <1>2. {"cascade", "commit"} \subseteq Places
    BY DEF Places
  <1> QED
    BY <1>1, <1>2, RaceIdle

(* A request is let in with the account's profiles as they are; one of its  *)
(* kind that is at work races with it.                                     *)
LEMMA AuthenticateRace ==
  ASSUME OwnInv, RaceInv, NEW r \in Requests, Authenticate(r)
  PROVE  RaceInv'
  <1>1. CASE Leave(r, "unauthorized")
    BY <1>1, RaceLeaves
  <1>2. CASE ~ Leave(r, "unauthorized")
    <2>1. /\ pc[r] = "new" /\ Goto(r, FirstStep(Kind(r)))
          /\ cache' = [cache EXCEPT ![r] = profiles[User(r)]]
          /\ raced' = raced \cup {task[o].kind : o \in
                        {o \in Requests : Open(o) /\ task[o].kind = task[r].kind
                                                  /\ User(o) = User(r)}}
          /\ UNCHANGED <<task, tables, writes, seen>>
          /\ Kind(r) \in {"profile", "plan", "report", "delete"}
      BY <1>2, TaskTypes DEF Authenticate, Kind, Kinds, OwnInv
    <2>2. /\ pc'[r] = FirstStep(Kind(r)) /\ cache'[r] = profiles[User(r)]
          /\ \A x \in Requests \ {r} : pc'[x] = pc[x] /\ cache'[x] = cache[x]
      BY <2>1 DEF Goto, OwnInv, OwnTypes
    <2>3. /\ FirstStep(Kind(r)) \in {"find", "require", "lookup", "erase"}
          /\ Kind(r) = "profile" => FirstStep(Kind(r)) = "find"
      BY <2>1 DEF FirstStep
    <2>4. ASSUME NEW x \in Requests \ {r}, Working(x), Kind(x) = Kind(r), User(x) = User(r)
          PROVE  Kind(r) \in raced'
      BY <2>1, <2>4 DEF Working, Open, Kind
    <2>5. Kind(r)' = Kind(r) /\ User(r)' = User(r) /\ profiles' = profiles /\ writes'[r] = NoProfiles
      BY <2>1 DEF Kind, User, tables, RaceInv, Sees
    <2>6. Sees(r)'
      BY <2>2, <2>3, <2>5 DEF Sees, SeesProfiles, SeesPlans, SeesReports
    <2> QED
      BY <2>1, <2>2, <2>4, <2>6, RaceMoves
  <1> QED
    BY <1>1, <1>2

LEMMA ProfileRace ==
  ASSUME OwnInv, RaceInv, NEW r \in Requests,
         FindProfile(r) \/ ResetOtherPrimaries(r) \/ SaveProfile(r)
  PROVE  RaceInv'
  <1>1. CASE \E what : Leave(r, what)
    BY <1>1, RaceLeaves
  <1>2. CASE ~ \E what : Leave(r, what)
    <2>1. /\ Kind(r) = "profile" /\ Working(r) /\ RightPlace(r) /\ Sees(r)
          /\ User(r) \in Users /\ Chosen(r) \in Specs \cup {None}
          /\ UNCHANGED <<task, tables, raced, seen>>
      BY <1>2, TaskTypes
      DEF FindProfile, ResetOtherPrimaries, SaveProfile, OwnInv, RightPlace, Working, Reading,
          session, RaceInv
    <2>2. Kind(r)' = "profile" /\ User(r)' = User(r) /\ Chosen(r)' = Chosen(r)
          /\ profiles' = profiles /\ users' = users
      BY <2>1 DEF Kind, User, Chosen, tables
    <2>3. CASE FindProfile(r)
      <3> DEFINE found == IF cache[r][Chosen(r)] # "absent" THEN cache[r][Chosen(r)]
                                                           ELSE profiles[User(r)][Chosen(r)]
      <3>1. /\ Chosen(r) \in Specs /\ pc[r] = "find" /\ writes[r] = NoProfiles
            /\ cache' = [cache EXCEPT ![r][Chosen(r)] = found]
            /\ \E w \in IF found = Flag(r) THEN {"absent", "same"} ELSE {Flag(r)} :
                 writes' = [writes EXCEPT ![r][Chosen(r)] = w]
            /\ Goto(r, IF task[r].primary THEN "others" ELSE "save")
        BY <1>2, <2>1, <2>3 DEF FindProfile, Reading, Sees
      <3>2. /\ pc'[r] = IF task[r].primary THEN "others" ELSE "save"
            /\ cache'[r] = [cache[r] EXCEPT ![Chosen(r)] = found]
            /\ \A x \in Requests \ {r} : pc'[x] = pc[x] /\ cache'[x] = cache[x] /\ writes'[x] = writes[x]
            /\ profiles[User(r)] \in [Specs -> Flags] /\ cache[r] \in [Specs -> Flags]
        BY <2>1, <3>1 DEF Goto, OwnInv, OwnTypes
      <3>3. PICK w \in IF found = Flag(r) THEN {"absent", "same"} ELSE {Flag(r)} :
              writes'[r] = [NoProfiles EXCEPT ![Chosen(r)] = w]
        BY <3>1 DEF OwnInv, OwnTypes
      <3>4. /\ writes'[r][Chosen(r)] = w
            /\ \A s \in Specs \ {Chosen(r)} : writes'[r][s] = "absent"
        BY <3>1, <3>3 DEF NoProfiles
      <3>5. ASSUME "profile" \notin raced, User(r) \in users
            PROVE  /\ \A s \in Specs : cache'[r][s] = profiles[User(r)][s]
                   /\ found = profiles[User(r)][Chosen(r)]
        <4>1. \A s \in Specs : cache[r][s] = profiles[User(r)][s]
          BY <2>1, <3>5 DEF Sees, SeesProfiles
        <4>2. found = profiles[User(r)][Chosen(r)]
          BY <3>1, <4>1
        <4> QED
          BY <3>1, <3>2, <4>1, <4>2
      <3> HIDE DEF found
      <3>6. ASSUME "profile" \notin raced, User(r) \in users
            PROVE  /\ Resulting(r, Chosen(r))' = Flag(r)
                   /\ \A s \in Specs \ {Chosen(r)} : Resulting(r, s)' = profiles[User(r)][s]
        <4>1. Flag(r) \in {"no", "yes"}
          BY DEF Flag
        <4>2. Resulting(r, Chosen(r))' = IF w \in {"no", "yes"} THEN w ELSE found
          BY <2>2, <3>4, <3>5, <3>6 DEF Resulting
        <4>3. \A s \in Specs \ {Chosen(r)} : Resulting(r, s)' = profiles[User(r)][s]
          BY <2>2, <3>4 DEF Resulting
        <4> QED
          BY <3>3, <4>1, <4>2, <4>3
      <3>7. SeesProfiles(r)'
        <4>1. OnePrimary
          BY DEF RaceInv
        <4>2. ASSUME "profile" \notin raced, User(r) \in users
              PROVE  /\ pc'[r] = "others" => /\ Resulting(r, Chosen(r))' = "yes"
                                             /\ \A s \in Specs \ {Chosen(r)} : writes'[r][s] = "absent"
                     /\ pc'[r] = "save" =>
                          /\ \A s, t \in Specs : Resulting(r, s)' = "yes" /\ Resulting(r, t)' = "yes" => s = t
                          /\ ~ task[r].primary
          <5>1. CASE task[r].primary
            <6>1. pc'[r] = "others" /\ Flag(r) = "yes"
              BY <3>2, <5>1 DEF Flag
            <6>2. Resulting(r, Chosen(r))' = "yes"
              BY <3>6, <4>2, <6>1
            <6> QED
              BY <3>4, <6>1, <6>2
          <5>2. CASE ~ task[r].primary
            <6>1. \A s \in Specs : Resulting(r, s)' = "yes" => profiles[User(r)][s] = "yes"
              <7>1. Flag(r) = "no"
                BY <5>2 DEF Flag
              <7>2. Resulting(r, Chosen(r))' = "no"
                BY <3>6, <4>2, <7>1
              <7>3. \A s \in Specs \ {Chosen(r)} : Resulting(r, s)' = profiles[User(r)][s]
                BY <3>6, <4>2
              <7>4. ASSUME NEW s \in Specs, Resulting(r, s)' = "yes"
                    PROVE  profiles[User(r)][s] = "yes"
                <8>1. s # Chosen(r)
                  BY <2>2, <7>2, <7>4 DEF Resulting
                <8> QED
                  BY <7>3, <7>4, <8>1
              <7> QED
                BY <7>4
            <6> QED
              BY <2>1, <3>2, <4>1, <4>2, <5>2, <6>1 DEF OnePrimary
          <5> QED
            BY <5>1, <5>2
        <4>3. pc'[r] # "commit"
          BY <3>2
        <4> QED
          BY <2>1, <2>2, <3>1, <3>5, <4>2, <4>3 DEF SeesProfiles
      <3>8. Sees(r)'
        BY <2>2, <3>2, <3>7 DEF Sees, SeesPlans, SeesReports
      <3> QED
        BY <2>1, <3>2, <3>8, RaceMoves
    <2>4. CASE ResetOtherPrimaries(r)
      <3>1. /\ pc[r] = "others"
            /\ cache' = [cache EXCEPT ![r] = [s \in Specs |->
                  IF s \in OthersPrimary(r) /\ cache[r][s] = "absent" THEN "yes" ELSE cache[r][s]]]
            /\ writes' = [writes EXCEPT ![r] = [s \in Specs |->
                  IF s \in OthersPrimary(r) /\ cache[r][s] # "no" THEN "no" ELSE writes[r][s]]]
            /\ Goto(r, "save")
        BY <2>4 DEF ResetOtherPrimaries, Reading
      <3>2. /\ pc'[r] = "save"
            /\ cache'[r] = [s \in Specs |->
                  IF s \in OthersPrimary(r) /\ cache[r][s] = "absent" THEN "yes" ELSE cache[r][s]]
            /\ writes'[r] = [s \in Specs |->
                  IF s \in OthersPrimary(r) /\ cache[r][s] # "no" THEN "no" ELSE writes[r][s]]
            /\ \A x \in Requests \ {r} : pc'[x] = pc[x] /\ cache'[x] = cache[x] /\ writes'[x] = writes[x]
        BY <3>1 DEF Goto, OwnInv, OwnTypes
      <3>3. ASSUME "profile" \notin raced, User(r) \in users
            PROVE  /\ \A s \in Specs : cache'[r][s] = profiles[User(r)][s]
                   /\ \A s \in Specs : Resulting(r, s)' = "yes" => s = Chosen(r)
                   /\ Chosen(r) \in Specs /\ Resulting(r, Chosen(r))' = "yes"
        <4>1. /\ \A s \in Specs : cache[r][s] = profiles[User(r)][s]
              /\ \A s \in Specs \ {Chosen(r)} : writes[r][s] = "absent"
          BY <2>1, <3>1, <3>3 DEF Sees, SeesProfiles
        <4>2. OthersPrimary(r) = {s \in Specs \ {Chosen(r)} : profiles[User(r)][s] = "yes"}
          BY DEF OthersPrimary
        <4>3. \A s \in Specs : cache'[r][s] = profiles[User(r)][s]
          BY <3>2, <4>1, <4>2
        <4>4. ASSUME NEW s \in Specs \ {Chosen(r)}
              PROVE  Resulting(r, s)' # "yes"
          <5>1. CASE profiles[User(r)][s] = "yes"
            <6>1. writes'[r][s] = "no"
              BY <3>2, <4>1, <4>2, <5>1
            <6> QED
              BY <6>1 DEF Resulting
          <5>2. CASE profiles[User(r)][s] # "yes"
            <6>1. writes'[r][s] = "absent"
              BY <3>2, <4>1, <4>2, <5>2
            <6> QED
              BY <2>2, <5>2, <6>1 DEF Resulting
          <5> QED
            BY <5>1, <5>2
        <4>5. Chosen(r) \in Specs /\ Resulting(r, Chosen(r)) = "yes"
          BY <2>1, <3>1, <3>3 DEF Sees, SeesProfiles
        <4>6. writes'[r][Chosen(r)] = writes[r][Chosen(r)]
          BY <3>2, <4>2, <4>5
        <4>7. Resulting(r, Chosen(r))' = "yes"
          BY <2>2, <4>5, <4>6 DEF Resulting
        <4> QED
          BY <4>3, <4>4, <4>5, <4>7
      <3>4. Sees(r)'
        BY <2>1, <2>2, <3>2, <3>3 DEF Sees, SeesProfiles, SeesPlans, SeesReports
      <3> QED
        BY <2>1, <3>2, <3>4, RaceMoves
    <2>5. CASE SaveProfile(r)
      <3>1. pc[r] = "save" /\ Goto(r, "commit") /\ UNCHANGED session
        BY <1>2, <2>5 DEF SaveProfile
      <3>2. /\ pc'[r] = "commit" /\ \A x \in Requests \ {r} : pc'[x] = pc[x]
            /\ cache' = cache /\ writes' = writes
            /\ \A s \in Specs : Resulting(r, s)' = Resulting(r, s)
        BY <2>2, <3>1 DEF Goto, OwnInv, OwnTypes, session, Resulting
      <3>3. Sees(r)'
        BY <2>1, <2>2, <3>1, <3>2 DEF Sees, SeesProfiles, SeesPlans, SeesReports
      <3> QED
        BY <2>1, <3>2, <3>3, RaceMoves
    <2> QED
      BY <2>3, <2>4, <2>5
  <1> QED
    BY <1>1, <1>2

LEMMA PlanRace ==
  ASSUME OwnInv, RaceInv, NEW r \in Requests,
         Require(r) \/ ScanPlans(r) \/ DeactivatePrevious(r) \/ InsertPlan(r)
  PROVE  RaceInv'
  <1>1. CASE \E what : Leave(r, what)
    BY <1>1, RaceLeaves
  <1>2. CASE ~ \E what : Leave(r, what)
    <2>1. /\ Kind(r) = "plan" /\ Working(r) /\ Sees(r)
          /\ UNCHANGED <<task, tables, raced, cache, writes>>
          /\ \E place \in {"scan", "quench", "plan", "commit"} : Goto(r, place)
      BY <1>2 DEF Require, ScanPlans, DeactivatePrevious, InsertPlan, OwnInv, RightPlace, Working,
         Reading, session, RaceInv
    <2>2. /\ pc'[r] \in {"scan", "quench", "plan", "commit"}
          /\ \A x \in Requests \ {r} : pc'[x] = pc[x]
          /\ Kind(r)' = "plan" /\ User(r)' = User(r) /\ Chosen(r)' = Chosen(r) /\ plans' = plans
      BY <2>1 DEF Goto, OwnInv, OwnTypes, Kind, User, Chosen, tables
    <2>3. /\ \A x \in Requests \ {r} : seen'[x] = seen[x]
          /\ ~ Require(r) => (seen'[r] = Previous(r) \/ (pc[r] \in {"quench", "plan"}
                                                          /\ seen'[r] \in {seen[r], seen[r] \cap plans}))
      BY <1>2 DEF Require, ScanPlans, DeactivatePrevious, InsertPlan, OwnInv, OwnTypes, session
    <2>4. Require(r) => pc'[r] = "scan"
      BY <1>2 DEF Require, Reading, Goto, OwnInv, OwnTypes
    <2>5. SeesPlans(r)'
      <3> SUFFICES ASSUME "plan" \notin raced, ~ Require(r),
                          NEW p \in plans, p.user = User(r), p.spec = Chosen(r), p.active
                   PROVE  p \in seen'[r]
        BY <2>1, <2>2, <2>4 DEF SeesPlans
      <3>1. CASE seen'[r] = Previous(r)
        BY <3>1 DEF Previous, PlansOf
      <3>2. CASE pc[r] \in {"quench", "plan"} /\ seen'[r] \in {seen[r], seen[r] \cap plans}
        BY <2>1, <3>2 DEF Sees, SeesPlans
      <3> QED
        BY <2>3, <3>1, <3>2
    <2>6. Sees(r)'
      BY <2>2, <2>5 DEF Sees, SeesProfiles, SeesReports
    <2> QED
      BY <2>1, <2>2, <2>3, <2>6, RaceMoves
  <1> QED
    BY <1>1, <1>2

LEMMA ReportRace ==
  ASSUME OwnInv, RaceInv, NEW r \in Requests, LookupReport(r) \/ CheckLimit(r) \/ InsertReport(r)
  PROVE  RaceInv'
  <1>1. CASE \E what : Leave(r, what)
    BY <1>1, RaceLeaves
  <1>2. CASE ~ \E what : Leave(r, what)
    <2>1. /\ Kind(r) = "report" /\ Working(r) /\ Sees(r) /\ User(r) \in Users
          /\ UNCHANGED <<task, tables, raced>> /\ UNCHANGED session
          /\ \/ Goto(r, "count")
             \/ Goto(r, "report") /\ ~ Full(User(r))
             \/ Goto(r, "commit") /\ pc[r] = "report"
      BY <1>2, TaskTypes DEF LookupReport, CheckLimit, InsertReport, OwnInv, RightPlace, Working,
         Reading, RaceInv
    <2>2. /\ \/ pc'[r] = "count"
             \/ pc'[r] = "report" /\ ~ Full(User(r))
             \/ pc'[r] = "commit" /\ pc[r] = "report"
          /\ \A x \in Requests \ {r} : pc'[x] = pc[x]
          /\ Kind(r)' = "report" /\ User(r)' = User(r)
          /\ ReportsOf(User(r))' = ReportsOf(User(r))
      BY <2>1 DEF Goto, OwnInv, OwnTypes, Kind, User, tables, ReportsOf
    <2>3. ~ Full(User(r)) => Cardinality(ReportsOf(User(r))) < DailyLimit
      <3>1. IsFiniteSet(ReportsOf(User(r)))
        BY FS_Subset DEF RaceInv, FewReports, ReportsOf
      <3>2. Cardinality(ReportsOf(User(r))) \in Nat /\ DailyLimit \in Nat
        BY <3>1, FS_CardinalityType, AccountAssumption
      <3> QED
        BY <3>2 DEF Full
    <2>4. SeesReports(r)'
      BY <2>1, <2>2, <2>3 DEF Sees, SeesReports
    <2>5. Sees(r)'
      BY <2>2, <2>4 DEF Sees, SeesProfiles, SeesPlans
    <2> QED
      BY <2>1, <2>2, <2>5, RaceMoves DEF session
  <1> QED
    BY <1>1, <1>2

-----------------------------------------------------------------------------
(* The commit of r.  Only a request of the same kind and account could      *)
(* have written what another one has read, and it would have raced.        *)

LEMMA CommitAlone ==
  ASSUME RaceInv, NEW r \in Requests, pc[r] = "commit", NEW x \in Requests \ {r}, Working(x),
         Kind(x) \in Tokened \ raced, Kind(r) = Kind(x), User(r) = User(x)
  PROVE  FALSE
  <1>1. Working(r)
    BY DEF Working
  <1> QED
    BY <1>1 DEF RaceInv, Alone

LEMMA CommitSees ==
  ASSUME AccountInv, RaceInv, NEW r \in Requests, Commit(r), NEW x \in Requests \ {r}
  PROVE  Sees(x)'
  <1>1. /\ pc[r] = "commit" /\ task' = task /\ raced' = raced /\ pc'[x] = pc[x]
        /\ writes'[x] = writes[x] /\ seen'[x] = seen[x] /\ cache'[x] = cache[x]
        /\ User(x) \in Users /\ User(x) \in Accounts /\ User(r) \in Users /\ r \notin Accounts /\ Sees(x)
    BY TaskTypes, CommitEffect DEF AccountInv, OwnInv, OwnTypes, Commit, Close, RaceInv
  <1>2. /\ Kind(x)' = Kind(x) /\ User(x)' = User(x) /\ Chosen(x)' = Chosen(x)
        /\ (Working(x)' <=> Working(x))
    BY <1>1 DEF Kind, User, Chosen, Working
  <1>3. SeesProfiles(x)'
    <2> SUFFICES ASSUME "profile" \notin raced, Kind(x) = "profile", Working(x), User(x) \in users'
                 PROVE  profiles'[User(x)] = profiles[User(x)] /\ User(x) \in users
      BY <1>1, <1>2 DEF Sees, SeesProfiles, Resulting
    <2>1. ~ (Kind(r) = "profile" /\ User(r) = User(x))
      BY <1>1, CommitAlone DEF Tokened
    <2>2. ~ (Kind(r) = "delete" /\ User(r) = User(x))
      BY CommitEffect
    <2>3. User(x) \in users
      BY <1>1, CommitEffect
    <2> QED
      BY <1>1, <2>1, <2>2, <2>3, CommittedProfiles
  <1>4. SeesPlans(x)'
    <2> SUFFICES ASSUME "plan" \notin raced, Kind(x) = "plan", pc[x] \in {"quench", "plan", "commit"},
                        NEW p \in plans', p.user = User(x)
                 PROVE  p \in plans
      BY <1>1, <1>2 DEF Sees, SeesPlans
    <2>1. Working(x)
      BY DEF Working
    <2>2. ~ (Kind(r) = "plan" /\ User(r) = User(x))
      BY <1>1, <2>1, CommitAlone DEF Tokened
    <2> QED
      BY <2>2, CommittedPlans
  <1>5. SeesReports(x)'
    <2> SUFFICES ASSUME "report" \notin raced, Kind(x) = "report", pc[x] \in {"report", "commit"}
                 PROVE  Cardinality(ReportsOf(User(x)))' < DailyLimit
      BY <1>1, <1>2 DEF SeesReports
    <2>1. Working(x)
      BY DEF Working
    <2>2. ~ (Kind(r) = "report" /\ User(r) = User(x))
      BY <1>1, <2>1, CommitAlone DEF Tokened
    <2>3. ReportsOf(User(x))' \subseteq ReportsOf(User(x))
      BY <1>1, <1>2, <2>2, CommittedReports DEF ReportsOf
    <2>4. IsFiniteSet(ReportsOf(User(x)))
      BY FS_Subset DEF RaceInv, FewReports, ReportsOf
    <2>5. /\ Cardinality(ReportsOf(User(x))') <= Cardinality(ReportsOf(User(x)))
          /\ IsFiniteSet(ReportsOf(User(x))')
      BY <2>3, <2>4, FS_Subset
    <2>6. Cardinality(ReportsOf(User(x))) < DailyLimit
      BY <1>1 DEF Sees, SeesReports
    <2>7. /\ Cardinality(ReportsOf(User(x))) \in Nat /\ Cardinality(ReportsOf(User(x))') \in Nat
          /\ DailyLimit \in Nat
      BY <2>4, <2>5, FS_CardinalityType, AccountAssumption
    <2> QED
      BY <2>5, <2>6, <2>7
  <1>6. pc'[x] \in {"new", "find"} => writes'[x] = NoProfiles
    BY <1>1 DEF Sees
  <1> QED
    BY <1>3, <1>4, <1>5, <1>6 DEF Sees

(* The flags r has prepared leave at most one primary specialization.      *)
LEMMA CommitPrimary ==
  ASSUME AccountInv, RaceInv, NEW r \in Requests, Commit(r)
  PROVE  OnePrimary'
  <1>1. /\ Prepared(r) /\ Integrity /\ User(r) \in Users /\ pc[r] = "commit" /\ raced' = raced
        /\ Sees(r) /\ OnePrimary
    BY TaskTypes DEF AccountInv, OwnInv, Commit, RaceInv
  <1> SUFFICES ASSUME "profile" \notin raced, NEW u \in Users, NEW s \in Specs, NEW t \in Specs,
                      profiles'[u][s] = "yes", profiles'[u][t] = "yes"
               PROVE  s = t
    BY <1>1 DEF OnePrimary
  <1>2. CASE Kind(r) = "profile" /\ u = User(r)
    <2>1. profiles'[u][s] = Resulting(r, s) /\ profiles'[u][t] = Resulting(r, t)
      BY <1>2, CommittedProfiles DEF Resulting
    <2>2. CASE u \in users
      <3>1. Working(r)
        BY <1>1 DEF Working
      <3>2. \A a, b \in Specs : Resulting(r, a) = "yes" /\ Resulting(r, b) = "yes" => a = b
        BY <1>1, <1>2, <2>2, <3>1 DEF Sees, SeesProfiles
      <3> QED
        BY <2>1, <3>2
    <2>3. CASE u \notin users
      <3>1. \A a \in Specs : profiles[u][a] = "absent"
        BY <1>1, <2>3 DEF Integrity, ProfilesOf
      <3>2. s \notin Saved(r)
        BY <1>1, <1>2, <2>3, <3>1 DEF Prepared, Choosing, Anchored
      <3>3. writes[r][s] = "absent"
        BY <3>2 DEF Saved
      <3> QED
        BY <1>2, <2>1, <3>1, <3>3 DEF Resulting
    <2> QED
      BY <2>2, <2>3
  <1>3. CASE Kind(r) = "delete" /\ u = User(r)
    BY <1>3, CommittedProfiles
  <1>4. CASE ~ (Kind(r) \in {"profile", "delete"} /\ u = User(r))
    <2>1. profiles'[u] = profiles[u]
      BY <1>4, CommittedProfiles
    <2> QED
      BY <1>1, <2>1 DEF OnePrimary
  <1> QED
    BY <1>2, <1>3, <1>4

(* Every plan that was active for the specialization is among those r has  *)
(* found and puts out.                                                     *)
LEMMA CommitActive ==
  ASSUME AccountInv, RaceInv, NEW r \in Requests, Commit(r)
  PROVE  OneActive'
  <1>1. /\ pc[r] = "commit" /\ raced' = raced /\ Sees(r) /\ OneActive /\ seen[r] \subseteq Plans
    BY DEF AccountInv, OwnInv, OwnTypes, Commit, RaceInv
  <1> SUFFICES ASSUME "plan" \notin raced, NEW p \in plans', NEW q \in plans', p.user = q.user,
                      p.spec = q.spec, p.active, q.active
               PROVE  p = q
    BY <1>1 DEF OneActive
  <1>2. CASE Kind(r) = "plan"
    <2>1. plans' = (plans \ seen[r]) \cup {NewPlan(r)} \cup {[o EXCEPT !.active = FALSE] : o \in seen[r]}
      BY <1>2 DEF Commit, Kind
    <2>2. \A o \in seen[r] : ~ [o EXCEPT !.active = FALSE].active
      BY <1>1 DEF Plans
    <2>3. /\ p \in plans \ seen[r] \/ p = NewPlan(r)
          /\ q \in plans \ seen[r] \/ q = NewPlan(r)
      BY <2>1, <2>2
    <2>4. NewPlan(r).user = User(r) /\ NewPlan(r).spec = Chosen(r)
      BY DEF NewPlan
    <2>5. \A o \in plans : o.user = User(r) /\ o.spec = Chosen(r) /\ o.active => o \in seen[r]
      BY <1>1, <1>2 DEF Sees, SeesPlans
    <2>6. CASE p \in plans \ seen[r] /\ q \in plans \ seen[r]
      BY <1>1, <2>6 DEF OneActive
    <2>7. CASE p = NewPlan(r) /\ q \in plans \ seen[r]
      BY <2>4, <2>5, <2>7
    <2>8. CASE p \in plans \ seen[r] /\ q = NewPlan(r)
      BY <2>4, <2>5, <2>8
    <2> QED
      BY <2>3, <2>6, <2>7, <2>8
  <1>3. CASE Kind(r) # "plan"
    <2>1. p \in plans /\ q \in plans
      BY <1>3, CommittedPlans
    <2> QED
      BY <1>1, <2>1 DEF OneActive
  <1> QED
    BY <1>2, <1>3

LEMMA CommitFewReports ==
  ASSUME AccountInv, RaceInv, NEW r \in Requests, Commit(r)
  PROVE  FewReports'
  <1> DEFINE new == [user |-> User(r), title |-> task[r].title, by |-> r]
  <1>1. /\ pc[r] = "commit" /\ raced' = raced /\ Sees(r) /\ FewReports /\ IsFiniteSet(reports)
    BY DEF Commit, RaceInv, FewReports
  <1>2. new.user = User(r)
    OBVIOUS
  <1>3. \A x \in reports' : x \in reports \/ (Kind(r) = "report" /\ x = new)
    BY CommittedReports
  <1> HIDE DEF new
  <1>4. IsFiniteSet(reports')
    <2>1. reports' \subseteq reports \cup {new}
      BY <1>3
    <2>2. IsFiniteSet(reports \cup {new})
      BY <1>1, FS_AddElement
    <2> QED
      BY <2>1, <2>2, FS_Subset
  <1>5. ASSUME "report" \notin raced, NEW u \in Users
        PROVE  Cardinality(ReportsOf(u)') <= DailyLimit
    <2>1. IsFiniteSet(ReportsOf(u)) /\ IsFiniteSet(ReportsOf(u)')
      BY <1>1, <1>4, FS_Subset DEF ReportsOf
    <2>2. /\ Cardinality(ReportsOf(u)) \in Nat /\ Cardinality(ReportsOf(u)') \in Nat
          /\ DailyLimit \in Nat
      BY <2>1, FS_CardinalityType, AccountAssumption
    <2>3. CASE Kind(r) = "report" /\ u = User(r)
      <3>1. ReportsOf(u)' \subseteq ReportsOf(u) \cup {new}
        BY <1>3 DEF ReportsOf
      <3>2. /\ IsFiniteSet(ReportsOf(u) \cup {new})
            /\ Cardinality(ReportsOf(u) \cup {new}) <= Cardinality(ReportsOf(u)) + 1
        BY <2>1, <2>2, FS_AddElement
      <3>3. Cardinality(ReportsOf(u) \cup {new}) \in Nat
        BY <3>2, FS_CardinalityType
      <3>4. Cardinality(ReportsOf(u)') <= Cardinality(ReportsOf(u) \cup {new})
        BY <3>1, <3>2, FS_Subset
      <3>5. Cardinality(ReportsOf(u)) < DailyLimit
        BY <1>1, <1>5, <2>3 DEF Sees, SeesReports
      <3> QED
        BY <2>2, <3>2, <3>3, <3>4, <3>5
    <2>4. CASE ~ (Kind(r) = "report" /\ u = User(r))
      <3>1. ReportsOf(u)' \subseteq ReportsOf(u)
        BY <1>2, <1>3, <2>4 DEF ReportsOf
      <3>2. Cardinality(ReportsOf(u)') <= Cardinality(ReportsOf(u))
        BY <2>1, <3>1, FS_Subset
      <3>3. Cardinality(ReportsOf(u)) <= DailyLimit
        BY <1>1, <1>5 DEF FewReports
      <3> QED
        BY <2>2, <3>2, <3>3
    <2> QED
      BY <2>3, <2>4
  <1> QED
    BY <1>1, <1>4, <1>5 DEF FewReports

LEMMA CommitRace ==
  ASSUME AccountInv, RaceInv, NEW r \in Requests, Commit(r)
  PROVE  RaceInv'
  <1>1. /\ pc'[r] = "done" /\ task' = task /\ raced' = raced
        /\ \A x \in Requests \ {r} : pc'[x] = pc[x]
    BY CommitEffect DEF Commit
  <1>2. /\ \A x \in Requests : Kind(x)' = Kind(x) /\ User(x)' = User(x)
        /\ \A x \in Requests \ {r} : Working(x)' <=> Working(x)
        /\ ~ Working(r)'
    BY <1>1 DEF Kind, User, Working
  <1>3. Alone'
    <2>1. \A x \in Requests : Working(x)' => Working(x)
      BY <1>2
    <2> QED
      BY <1>1, <1>2, <2>1 DEF Alone, RaceInv
  <1>4. Sees(r)'
    BY <1>1, <1>2 DEF Sees, SeesProfiles, SeesPlans, SeesReports
  <1> QED
    BY <1>3, <1>4, CommitSees, CommitPrimary, CommitActive, CommitFewReports DEF RaceInv

LEMMA StepRace == AccountInv /\ RaceInv /\ [Next]_vars => RaceInv'
  <1> SUFFICES ASSUME AccountInv, RaceInv, [Next]_vars PROVE RaceInv'
    OBVIOUS
  <1>1. OwnInv
    BY DEF AccountInv
  <1>2. ASSUME UNCHANGED <<task, tables, session, pc, held, status, raced, crashes>>
        PROVE  RaceInv'
    <2>1. /\ Alone' /\ OnePrimary' /\ OneActive' /\ FewReports'
      BY <1>2 DEF RaceInv, Alone, Working, Kind, User, OnePrimary, OneActive, FewReports, ReportsOf,
         tables
    <2>2. \A x \in Requests : Sees(x)'
      BY <1>2 DEF RaceInv, Sees, SeesProfiles, SeesPlans, SeesReports, Working, Kind, User, Chosen,
         Resulting, ReportsOf, tables, session
    <2> QED
      BY <2>1, <2>2 DEF RaceInv
  <1>3. ASSUME NEW r \in Requests, BreakDeadlock(r) \/ Crash(r)
        PROVE  RaceInv'
    BY <1>1, <1>3, RaceLeaves, RaceEnds DEF BreakDeadlock, Crash
  <1>4. ASSUME NEW r \in Requests, Arrive(r) \/ Authenticate(r) \/ Step(r)
        PROVE  RaceInv'
    BY <1>1, <1>4, SignInRace, AuthenticateRace, ProfileRace, PlanRace, ReportRace, DeleteRace,
       CommitRace
    DEF Step
  <1> QED
    BY <1>2, <1>3, <1>4 DEF Next, Limit, Elapse, vars

(* At first an account has a primary specialization, or no profile at all.  *)
LEMMA InitPrimary == Init => Settled /\ SomePrimary
  <1> SUFFICES ASSUME Init PROVE Settled /\ SomePrimary
    OBVIOUS
  <1>1. PICK b \in Beginnings :
          profiles = [u \in Users |-> IF u \in Accounts THEN b.profiles ELSE NoProfiles]
    BY DEF Init
  <1>2. ASSUME NEW u \in Users, Primaries(u) = {}
        PROVE  ProfilesOf(u) = {}
    <2>1. CASE u \in Accounts
      BY <1>1, <1>2, <2>1, TaskAssumption DEF Primaries, ProfilesOf
    <2>2. CASE u \notin Accounts
      BY <1>1, <2>2 DEF ProfilesOf, NoProfiles
    <2> QED
      BY <2>1, <2>2
  <1> QED
    BY <1>2 DEF Init, Settled, SomePrimary

(* What a request has answered stays so.                                   *)
LEMMA StepSettled ==
  ASSUME OwnInv, Settled, [Next]_vars
  PROVE  Settled' /\ \A u \in Users : Declined(u) => Declined(u)'
  <1>1. ASSUME NEW r \in Requests, pc[r] # "done",
               \A x \in Requests \ {r} : pc'[x] = pc[x] /\ status'[x] = status[x],
               status'[r] = status[r] \/ pc'[r] = "done", task' = task
        PROVE  Settled' /\ \A u \in Users : Declined(u) => Declined(u)'
    <2>1. status[r] = "none"
      BY <1>1 DEF Settled
    <2>2. Settled'
      BY <1>1, <2>1 DEF Settled
    <2>3. \A u \in Users : Declined(u) => Declined(u)'
      BY <1>1, <2>1 DEF Declined, User
    <2> QED
      BY <2>2, <2>3
  <1>2. ASSUME NEW r \in Requests, Arrive(r) \/ Authenticate(r) \/ Step(r) \/ BreakDeadlock(r) \/ Crash(r)
        PROVE  /\ task' = task
               /\ \/ UNCHANGED status /\ \E place : Goto(r, place)
                  \/ \E what : Respond(r, what)
    BY <1>2
    DEF Step, Arrive, Authenticate, Admit, Verify, Register, FindProfile, ResetOtherPrimaries,
        SaveProfile, Require, ScanPlans, DeactivatePrevious, InsertPlan, LookupReport, CheckLimit,
        InsertReport, Erase, Cascade, Commit, BreakDeadlock, Crash, Leave, Reading
  <1>3. ASSUME NEW r \in Requests, Arrive(r) \/ Authenticate(r) \/ Step(r) \/ BreakDeadlock(r) \/ Crash(r)
        PROVE  pc[r] # "done"
    <2>1. BreakDeadlock(r) => pc[r] # "done"
      BY DEF BreakDeadlock, Deadlocked, WaitsFor, Wanted
    <2> QED
      BY <1>3, <2>1
      DEF Step, Arrive, Authenticate, Admit, Verify, Register, FindProfile, ResetOtherPrimaries,
          SaveProfile, Require, ScanPlans, DeactivatePrevious, InsertPlan, LookupReport, CheckLimit,
          InsertReport, Erase, Cascade, Commit, Crash, Open
  <1>4. ASSUME NEW r \in Requests, Arrive(r) \/ Authenticate(r) \/ Step(r) \/ BreakDeadlock(r) \/ Crash(r)
        PROVE  Settled' /\ \A u \in Users : Declined(u) => Declined(u)'
    <2>1. /\ task' = task
          /\ \A x \in Requests \ {r} : pc'[x] = pc[x] /\ status'[x] = status[x]
          /\ status'[r] = status[r] \/ pc'[r] = "done"
      BY <1>2, <1>4 DEF Goto, Respond, OwnInv, OwnTypes
    <2> QED
      BY <1>1, <1>3, <1>4, <2>1
  <1>5. ASSUME UNCHANGED <<task, pc, status>>
        PROVE  Settled' /\ \A u \in Users : Declined(u) => Declined(u)'
    BY <1>5 DEF Settled, Declined, User
  <1> QED
    BY <1>4, <1>5 DEF Next, Limit, Elapse, vars

(* Only a commit changes profiles: a choice of a primary one makes it one,  *)
(* any other choice declines, and a deletion leaves none.                   *)
LEMMA CommitSomePrimary ==
  ASSUME AccountInv, RaceInv, Settled, SomePrimary, NEW r \in Requests, Commit(r),
         \A u \in Users : Declined(u) => Declined(u)'
  PROVE  SomePrimary'
  <1>1. /\ Prepared(r) /\ Integrity /\ User(r) \in Users /\ pc[r] = "commit" /\ raced' = raced
        /\ task' = task /\ status'[r] = "ok" /\ Sees(r)
    BY TaskTypes DEF AccountInv, OwnInv, OwnTypes, Commit, Respond, RaceInv
  <1> SUFFICES ASSUME "profile" \notin raced, NEW u \in Users, Primaries(u)' = {}
               PROVE  ProfilesOf(u)' = {} \/ Declined(u)'
    BY <1>1 DEF SomePrimary
  <1>2. CASE Kind(r) = "profile" /\ u = User(r)
    <2>1. \A s \in Specs : profiles'[u][s] = Resulting(r, s)
      BY <1>2, CommittedProfiles DEF Resulting
    <2>2. CASE u \in users /\ task[r].primary
      <3>1. Chosen(r) \in Specs /\ Resulting(r, Chosen(r)) = "yes"
        BY <1>1, <1>2, <2>2 DEF Sees, SeesProfiles, Working
      <3>2. Chosen(r) \in Primaries(u)'
        BY <2>1, <3>1 DEF Primaries
      <3> QED
        BY <3>2
    <2>3. CASE ~ task[r].primary
      BY <1>1, <1>2, <2>3 DEF Declined, User, Kind
    <2>4. CASE u \notin users
      <3>1. \A s \in Specs : profiles[u][s] = "absent"
        BY <1>1, <2>4 DEF Integrity, ProfilesOf
      <3>2. \A s \in Specs : s \notin Saved(r)
        BY <1>1, <1>2, <2>4, <3>1 DEF Prepared, Choosing, Anchored
      <3>3. \A s \in Specs : profiles'[u][s] = "absent"
        BY <1>2, <2>1, <3>1, <3>2 DEF Saved, Resulting
      <3> QED
        BY <3>3 DEF ProfilesOf
    <2> QED
      BY <2>2, <2>3, <2>4
  <1>3. CASE Kind(r) = "delete" /\ u = User(r)
    BY <1>3, CommittedProfiles DEF ProfilesOf
  <1>4. CASE ~ (Kind(r) \in {"profile", "delete"} /\ u = User(r))
    <2>1. profiles'[u] = profiles[u]
      BY <1>4, CommittedProfiles
    <2>2. Primaries(u) = {} /\ ProfilesOf(u)' = ProfilesOf(u)
      BY <2>1 DEF Primaries, ProfilesOf
    <2> QED
      BY <2>2 DEF SomePrimary
  <1> QED
    BY <1>2, <1>3, <1>4

LEMMA StepPrimary ==
  AccountInv /\ RaceInv /\ Settled /\ SomePrimary /\ [Next]_vars => (Settled /\ SomePrimary)'
  <1> SUFFICES ASSUME AccountInv, RaceInv, Settled, SomePrimary, [Next]_vars
               PROVE  (Settled /\ SomePrimary)'
    OBVIOUS
  <1>1. Settled' /\ \A u \in Users : Declined(u) => Declined(u)'
    BY StepSettled DEF AccountInv
  <1>2. CASE \E r \in Requests : Commit(r)
    BY <1>1, <1>2, CommitSomePrimary
  <1>3. CASE ~ \E r \in Requests : Commit(r)
    <2>1. profiles' = profiles /\ raced \subseteq raced'
      BY <1>3
      DEF Next, Limit, Elapse, vars, tables, Step, Arrive, Authenticate, Admit, Verify, Register,
          FindProfile, ResetOtherPrimaries, SaveProfile, Require, ScanPlans, DeactivatePrevious,
          InsertPlan, LookupReport, CheckLimit, InsertReport, Erase, Cascade, BreakDeadlock, Crash,
          Leave, Reading
    <2> QED
      BY <1>1, <2>1 DEF SomePrimary, Primaries, ProfilesOf
  <1> QED
    BY <1>2, <1>3

(* For any number of accounts and requests: where two requests of one kind
   for one account never were at work together, the account has at most one
   primary specialization, and exactly one if it has profiles and nobody has
   declined; at most one active plan for each specialization, and no more
   reports of a day than are allowed, whatever the others do meanwhile.     *)
THEOREM OneOfEach == Spec => []OnlyOne
  <1>1. Init => AccountInv /\ RaceInv /\ Settled /\ SomePrimary
    BY InitOwn, InitPrepared, InitRace, InitPrimary DEF AccountInv
  <1>2. AccountInv /\ RaceInv /\ Settled /\ SomePrimary /\ [Next]_vars
          => (AccountInv /\ RaceInv /\ Settled /\ SomePrimary)'
    BY StepAccount, StepRace, StepPrimary
  <1>3. RaceInv /\ SomePrimary => OnlyOne
    BY OnlyOneFollows
  <1> QED
    BY <1>1, <1>2, <1>3, PTL DEF Spec
=============================================================================
