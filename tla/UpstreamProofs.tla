---------------------------- MODULE UpstreamProofs ----------------------------
(***************************************************************************)
(* Theorems about UpstreamCall, for any number of callers, retries for     *)
(* blocked locations, rotations and replies.                               *)
(***************************************************************************)
EXTENDS UpstreamCall, TLAPS

(* Of ten tests, the last of which succeeds, one is the first to succeed. *)
LEMMA FirstOfTen ==
    ASSUME NEW b, b \in [1..10 -> BOOLEAN], b[10]
    PROVE  \E i \in 1..10 : b[i] /\ \A j \in 1..(i - 1) : ~b[j]
  <1>1. CASE \E i \in 1..5 : b[i]
    <2>1. CASE b[1]  BY <2>1, SMT
    <2>2. CASE ~b[1] /\ b[2]  BY <2>2, SMT
    <2>3. CASE ~b[1] /\ ~b[2] /\ b[3]  BY <2>3, SMT
    <2>4. CASE ~b[1] /\ ~b[2] /\ ~b[3] /\ b[4]  BY <2>4, SMT
    <2>5. CASE ~b[1] /\ ~b[2] /\ ~b[3] /\ ~b[4] /\ b[5]  BY <2>5, SMT
    <2>6. QED  BY <1>1, <2>1, <2>2, <2>3, <2>4, <2>5, SMT
  <1>2. CASE ~ \E i \in 1..5 : b[i]
    <2>1. CASE b[6]  BY <1>2, <2>1, SMT
    <2>2. CASE ~b[6] /\ b[7]  BY <1>2, <2>2, SMT
    <2>3. CASE ~b[6] /\ ~b[7] /\ b[8]  BY <1>2, <2>3, SMT
    <2>4. CASE ~b[6] /\ ~b[7] /\ ~b[8] /\ b[9]  BY <1>2, <2>4, SMT
    <2>5. CASE ~b[6] /\ ~b[7] /\ ~b[8] /\ ~b[9]  BY <1>2, <2>5, SMT
    <2>6. QED  BY <2>1, <2>2, <2>3, <2>4, <2>5
  <1>3. QED  BY <1>1, <1>2

(* The classifier always has a verdict, and it is one of the kinds. *)
LEMMA VerdictIsKind ==
    ASSUME NEW e
    PROVE  classify_upstream_error_kind(e) \in Kinds
  <1> DEFINE v == Verdicts(e)
             b == [i \in 1..10 |-> v[i][2]]
  <1>1. /\ DOMAIN v = 1..10
        /\ \A i \in 1..10 : v[i][1] \in Kinds /\ v[i][2] \in BOOLEAN
        /\ v[10][2]
    BY DEF Verdicts, Kinds, SaysQuota
  <1>2. b \in [1..10 -> BOOLEAN] /\ b[10]
    BY <1>1
  <1>3. \E i \in DOMAIN v : v[i][2] /\ \A j \in 1..(i - 1) : ~v[j][2]
    BY <1>1, <1>2, FirstOfTen
  <1>4. QED
    BY <1>1, <1>3 DEF classify_upstream_error_kind

------------------------------------------------------------------------------
(* Types *)

Ends == [result: Results, last: Replies \cup {None}, forced: BOOLEAN]

LEMMA SetTypes ==
    ASSUME call \in [Callers -> Calls], NEW c \in Callers, NEW v \in Calls, Set(c, v)
    PROVE  call' \in [Callers -> Calls] /\ ended' \in Ends
  BY DEF Set, NoEnd, Ends, Results

LEMMA NoSecretType == NoSecret \in Secrets
  BY LoopAssumption DEF NoSecret, Secrets, Tokens

LEMMA IdleType == Idle \in Calls
  BY NoSecretType, LoopAssumption DEF Idle, Calls, PC

LEMMA FlushType ==
    ASSUME NEW v \in Calls
    PROVE  [Idle EXCEPT !.pc = "flush", !.own = v.own] \in Calls
  <1>1. v.own \in Secrets
    BY DEF Calls
  <1>2. QED  BY <1>1, IdleType DEF Calls, PC

LEMMA EndAsTypes ==
    ASSUME call \in [Callers -> Calls], NEW c \in Callers, NEW v \in Calls,
           NEW result \in Results, NEW last \in Replies \cup {None}, EndAs(c, v, result, last)
    PROVE  call' \in [Callers -> Calls] /\ ended' \in Ends
  <1>1. v.force \in BOOLEAN
    BY DEF Calls
  <1>2. call' \in [Callers -> Calls]
    BY IdleType, FlushType DEF EndAs
  <1>3. QED  BY <1>1, <1>2 DEF EndAs, Ends

LEMMA EndTypes ==
    ASSUME call \in [Callers -> Calls], NEW c \in Callers,
           NEW result \in Results, NEW last \in Replies \cup {None}, End(c, result, last)
    PROVE  call' \in [Callers -> Calls] /\ ended' \in Ends
  BY EndAsTypes DEF End

LEMMA FailsTypes ==
    ASSUME call \in [Callers -> Calls], NEW c \in Callers, NEW e, Fails(c, e)
    PROVE  call' \in [Callers -> Calls] /\ ended' \in Ends
  BY VerdictIsKind, EndTypes DEF Fails, Results

LEMMA WithoutTokenTypes ==
    ASSUME call \in [Callers -> Calls], NEW c \in Callers, NEW e, WithoutToken(c, e)
    PROVE  call' \in [Callers -> Calls] /\ ended' \in Ends
  <1>1. CASE Fails(c, e)
    BY <1>1, FailsTypes
  <1>2. CASE Set(c, [call[c] EXCEPT !.pc = "token", !.force = TRUE])
    <2>1. [call[c] EXCEPT !.pc = "token", !.force = TRUE] \in Calls
      BY DEF Calls, PC
    <2>2. QED  BY <1>2, <2>1, SetTypes
  <1>3. CASE Goto(c, "save")
    <2>1. [call[c] EXCEPT !.pc = "save"] \in Calls
      BY DEF Calls, PC
    <2>2. QED  BY <1>3, <2>1, SetTypes DEF Goto
  <1>4. QED
    BY <1>1, <1>2, <1>3 DEF WithoutToken

LEMMA GotoTypes ==
    ASSUME call \in [Callers -> Calls], NEW c \in Callers, NEW l \in PC, Goto(c, l)
    PROVE  call' \in [Callers -> Calls] /\ ended' \in Ends
  <1>1. [call[c] EXCEPT !.pc = l] \in Calls
    BY DEF Calls
  <1>2. QED  BY <1>1, SetTypes DEF Goto

LEMMA AgainTypes ==
    ASSUME call \in [Callers -> Calls], NEW c \in Callers, NEW v \in Calls, Again(c, v)
    PROVE  call' \in [Callers -> Calls] /\ ended' \in Ends
  <1>1. [v EXCEPT !.pc = "token", !.tries = @ + 1] \in Calls
    <2>1. v.tries + 1 \in Nat
      BY DEF Calls
    <2>2. QED  BY <2>1 DEF Calls, PC
  <1>2. CASE Set(c, [v EXCEPT !.pc = "token", !.tries = @ + 1])
    BY <1>1, <1>2, SetTypes
  <1>3. CASE EndAs(c, v, "silent", None)
    BY <1>3, EndAsTypes DEF Results
  <1>4. QED  BY <1>2, <1>3 DEF Again

LEMMA FlushTypes ==
    ASSUME TypeOK, NEW c \in Callers, Flush(c)
    PROVE  TypeOK'
  <1>1. call[c].own \in Secrets
    BY DEF TypeOK, Calls
  <1>2. putBack' \subseteq Tokens
    BY <1>1 DEF Flush, TypeOK, Secrets
  <1>3. QED
    BY <1>1, <1>2, IdleType, SetTypes DEF Flush, TypeOK, Ends

(* The part of the type invariant that the callers change among themselves. *)
LEMMA ProceedTypes ==
    ASSUME TypeOK, NEW c \in Callers, Proceed(c)
    PROVE  TypeOK'
  <1> USE DEF TypeOK, Ends
  <1>0. call[c] \in Calls /\ c # None
    BY CallersAssumption
  <1>1. CASE CacheHit(c)
    BY <1>1, GotoTypes DEF CacheHit, PC, tokenVars, history
  <1>2. CASE Contend(c)
    BY <1>2, GotoTypes DEF Contend, PC, Section, tokenVars, history
  <1>3. CASE Served(c)
    BY <1>3, GotoTypes DEF Served, PC, tokenVars, history
  <1>4. CASE TimedOut(c)
    BY <1>4, WithoutTokenTypes DEF TimedOut, tokenVars, history
  <1>5. CASE Granted(c)
    <2>1. CASE Goto(c, "cache") /\ UNCHANGED <<good, issued>>
      BY <1>5, <2>1, GotoTypes DEF Granted, PC, Section, history
    <2>2. CASE ~(Goto(c, "cache") /\ UNCHANGED <<good, issued>>)
      <3>1. issued' \in Tokens /\ good' \subseteq Tokens
        BY <1>5, <2>2, LoopAssumption DEF Granted, Tokens
      <3>2. [call[c].own EXCEPT !.refresh = issued'] \in Secrets
        BY <1>0, <3>1 DEF Calls, Secrets
      <3>3. [call[c] EXCEPT !.pc = "persist",
                !.fresh = [call[c].own EXCEPT !.refresh = issued']] \in Calls
        BY <1>0, <3>2 DEF Calls, PC, Section
      <3>4. QED
        BY <1>5, <2>2, <3>1, <3>3, SetTypes DEF Granted, history
    <2>3. QED  BY <2>1, <2>2
  <1>6. CASE Persist(c)
    <2>1. [call[c] EXCEPT !.pc = "cache", !.own = call[c].fresh, !.fresh = NoSecret,
                           !.dirty = (call[c].job = "chat")] \in Calls
      BY <1>0, NoSecretType DEF Calls, PC, Section
    <2>2. QED
      BY <1>0, <1>6, <2>1, SetTypes DEF Persist, Calls, history
  <1>7. CASE CacheToken(c)
    BY <1>7, GotoTypes DEF CacheToken, PC, Unlock, history
  <1>8. CASE Refused(c)
    BY <1>8, WithoutTokenTypes DEF Refused, Unlock, history
  <1>9. CASE TokenFails(c)
    BY <1>9, WithoutTokenTypes DEF TokenFails, Unlock, history, tokenVars, history
  <1>19. CASE Challenged(c)
    <2>1. [call[c] EXCEPT !.force = TRUE] \in Calls
      BY <1>0 DEF Calls
    <2>2. CASE cache' = FALSE /\ Again(c, [call[c] EXCEPT !.force = TRUE])
      BY <1>19, <2>1, <2>2, AgainTypes DEF Challenged, Unlock, history
    <2>3. CASE UNCHANGED cache /\ \E e \in {[code |-> 401, marks |-> {"unauthorized"}],
                                           [code |-> 403, marks |-> {"forbidden"}]} :
                                      WithoutToken(c, e)
      BY <1>19, <2>3, WithoutTokenTypes DEF Challenged, Unlock, history
    <2>4. QED  BY <1>19, <2>2, <2>3 DEF Challenged
  <1>10. CASE \E e \in Replies : Reply(c, e)
    <2> PICK e \in Replies : Reply(c, e)
      BY <1>10
    <2> DEFINE v == call[c]
    <2>1. CASE RetryAction(v, e) = "geo"
      <3>1. [v EXCEPT !.geo = @ + 1] \in Calls
        BY <1>0 DEF Calls
      <3>2. QED  BY <2>1, <3>1, AgainTypes DEF Reply, tokenVars, history
    <2>2. CASE RetryAction(v, e) = "sibling"
      <3>1. v.host + 1 < Hosts
        BY <2>2 DEF RetryAction
      <3>2. [v EXCEPT !.host = @ + 1] \in Calls
        BY <1>0, <3>1, LoopAssumption DEF Calls
      <3>3. QED  BY <2>2, <3>2, AgainTypes DEF Reply, tokenVars, history
    <2>3. CASE RetryAction(v, e) = "fail"
      BY <2>3, EndTypes, VerdictIsKind DEF Reply, tokenVars, history, Results
    <2>4. QED  BY <2>1, <2>2, <2>3 DEF RetryAction
  <1>11. CASE Challenge(c)
    BY <1>11, EndTypes DEF Challenge, Results, history
  <1>12. CASE Answer(c)
    BY <1>12, EndTypes DEF Answer, Results, tokenVars, history
  <1>13. CASE Broken(c)
    BY <1>13, FailsTypes DEF Broken, tokenVars, history
  <1>21. CASE Flush(c)
    BY <1>21, FlushTypes
  <1>14. CASE ProbeAgain(c)
    <2>1. [call[c] EXCEPT !.pc = "token", !.force = TRUE] \in Calls
      BY <1>0 DEF Calls, PC
    <2>2. QED  BY <1>14, <2>1, SetTypes DEF ProbeAgain, history
  <1>20. CASE ProbeAsks(c)
    <2>1. [call[c] EXCEPT !.pc = "save", !.found = TRUE] \in Calls
      BY <1>0 DEF Calls, PC
    <2>2. QED
      BY <1>20, <2>1, SetTypes, GotoTypes, EndTypes DEF ProbeAsks, tokenVars, history, PC, Results, Kinds
  <1>15. CASE SaveLock(c)
    BY <1>15, GotoTypes, FailsTypes DEF SaveLock, PC, Section, tokenVars, history
  <1>16. CASE Load(c)
    <2>1. [secret EXCEPT !.project = @ \/ call[c].found] \in Secrets
      BY <1>0 DEF Calls, Secrets
    <2>2. [call[c] EXCEPT !.pc = "write",
              !.fresh = [secret EXCEPT !.project = @ \/ call[c].found]] \in Calls
      BY <1>0, <2>1 DEF Calls, PC, Section
    <2>3. QED  BY <1>16, <2>2, SetTypes DEF Load, tokenVars, history
  <1>17. CASE Save(c)
    <2>1. \A force \in BOOLEAN, l \in {"save", "token"} :
             [call[c] EXCEPT !.pc = l, !.own = call[c].fresh, !.fresh = NoSecret, !.force = force]
                \in Calls
      BY <1>0, NoSecretType DEF Calls, PC
    <2>4. call[c].force \in BOOLEAN
      BY <1>0 DEF Calls
    <2>2. secret' \in Secrets
      BY <1>0, <1>17 DEF Save, Calls
    <2>3. QED
      <3>1. CASE End(c, "answered", None)
        BY <1>17, <2>2, <3>1, EndTypes DEF Save, Unlock, history, Results
      <3>2. CASE ~End(c, "answered", None)
        BY <1>17, <2>1, <2>2, <2>4, <3>2, SetTypes DEF Save, Unlock, history
      <3>3. QED  BY <3>1, <3>2
  <1>18. QED
    BY <1>1, <1>2, <1>3, <1>4, <1>5, <1>6, <1>7, <1>8, <1>9, <1>10, <1>11, <1>12, <1>13,
       <1>14, <1>15, <1>16, <1>17, <1>19, <1>20, <1>21 DEF Proceed

LEMMA TypesInvariant == TypeOK /\ [Next]_vars => TypeOK'
  <1> SUFFICES ASSUME TypeOK, [Next]_vars PROVE TypeOK'
    OBVIOUS
  <1> USE DEF Ends
  <1>1. ASSUME NEW c \in Callers, NEW job \in {"chat", "probe"}, Start(c, job)
        PROVE  TypeOK'
    <2>1. [Idle EXCEPT !.pc = "token", !.job = job, !.own = secret] \in Calls
      BY IdleType DEF TypeOK, Calls, PC
    <2>2. QED  BY <1>1, <2>1, SetTypes DEF Start, TypeOK, tokenVars, history
  <1>2. ASSUME NEW c \in Callers, Proceed(c) PROVE TypeOK'
    BY <1>2, ProceedTypes
  <1>3. ASSUME NEW c \in Callers, Crash(c) PROVE TypeOK'
    BY <1>3, IdleType, SetTypes DEF Crash, TypeOK
  <1>4. CASE TokenExpires
    BY <1>4 DEF TokenExpires, TypeOK, NoEnd, Results, history
  <1>5. CASE NewGrant
    <2>1. issued' \in Tokens
      BY <1>5, LoopAssumption DEF NewGrant, TypeOK, Tokens
    <2>2. QED  BY <1>5, <2>1 DEF NewGrant, TypeOK, NoEnd, Results, Secrets, history
  <1>6. CASE LockExpires
    BY <1>6 DEF LockExpires, TypeOK, NoEnd, Results, tokenVars, history
  <1>7. CASE UNCHANGED vars
    BY <1>7 DEF TypeOK, vars, history
  <1>8. QED
    BY <1>1, <1>2, <1>3, <1>4, <1>5, <1>6, <1>7 DEF Next

(* Every variable of a call keeps its type, for any number of callers,     *)
(* rotations and retries; the verdict of a call is always a known kind.    *)
THEOREM CallTypeCorrect == Spec => []TypeOK
  <1>1. Init => TypeOK
    <2> SUFFICES ASSUME Init PROVE TypeOK
      OBVIOUS
    <2>1. 0 \in Tokens
      BY LoopAssumption DEF Tokens
    <2>2. call \in [Callers -> Calls]
      BY IdleType DEF Init
    <2>3. ended \in [result: Results, last: Replies \cup {None}, forced: BOOLEAN]
      BY DEF Init, NoEnd, Results
    <2>4. QED  BY <2>1, <2>2, <2>3, NoSecretType DEF Init, TypeOK
  <1>2. QED  BY <1>1, TypesInvariant, PTL DEF Spec

------------------------------------------------------------------------------
(* The attempts: each is a retry for a blocked location, the move to the   *)
(* sibling host, or the one retry without the cached token.                *)

Forced(v) == IF v.force /\ v.job = "chat" THEN 1 ELSE 0
Saving    == {"save", "load", "write"}
Budget(v) == /\ v.tries = v.geo + v.host + Forced(v)
             /\ v.geo <= GeoLimit
             /\ v.pc \in Saving => v.job = "probe"
Budgets   == \A c \in Callers : Budget(call[c])
Attempts  == TypeOK /\ Budgets /\ SilentOnlyForced

LEMMA SetBudget ==
    ASSUME TypeOK, Budgets, NEW c \in Callers, NEW v, Budget(v), Set(c, v)
    PROVE  Budgets' /\ SilentOnlyForced'
  BY DEF Budgets, SilentOnlyForced, Set, NoEnd, TypeOK

LEMMA IdleBudget == Budget(Idle)
  BY LoopAssumption DEF Budget, Forced, Saving, Idle

LEMMA FlushBudget ==
    ASSUME NEW v
    PROVE  Budget([Idle EXCEPT !.pc = "flush", !.own = v.own])
  BY LoopAssumption DEF Budget, Forced, Saving, Idle

LEMMA EndBudget ==
    ASSUME TypeOK, Budgets, NEW c \in Callers, NEW result, NEW last, result # "silent",
           End(c, result, last)
    PROVE  Budgets' /\ SilentOnlyForced'
  <1> DEFINE w == [Idle EXCEPT !.pc = "flush", !.own = call[c].own]
  <1>1. call' \in {[call EXCEPT ![c] = w], [call EXCEPT ![c] = Idle]}
    BY DEF End, EndAs
  <1>2. Budget(w) /\ Budget(Idle)
    BY IdleBudget, FlushBudget
  <1>3. Budgets'
    <2>1. \A d \in Callers : call'[d] \in {call[d], w, Idle}
      BY <1>1 DEF TypeOK
    <2>2. QED  BY <1>2, <2>1 DEF Budgets
  <1>4. SilentOnlyForced'
    BY DEF SilentOnlyForced, End, EndAs
  <1>5. QED  BY <1>3, <1>4

LEMMA FailsBudget ==
    ASSUME TypeOK, Budgets, NEW c \in Callers, NEW e, Fails(c, e)
    PROVE  Budgets' /\ SilentOnlyForced'
  BY VerdictIsKind, EndBudget DEF Fails, Kinds

(* Fields other than the job, the force and the counters are free. *)
LEMMA SameCounters ==
    ASSUME NEW u \in Calls, NEW v \in Calls, Budget(u),
           v.job = u.job, v.geo = u.geo, v.host = u.host, v.tries = u.tries,
           v.force = u.force \/ v.job = "probe",
           v.pc \in Saving => v.job = "probe"
    PROVE  Budget(v)
  BY DEF Budget, Forced, Calls

LEMMA GotoBudget ==
    ASSUME TypeOK, Budgets, NEW c \in Callers, NEW l \in PC, Goto(c, l),
           l \in Saving => call[c].job = "probe"
    PROVE  Budgets' /\ SilentOnlyForced'
  <1> DEFINE v == [call[c] EXCEPT !.pc = l]
  <1>1. call[c] \in Calls /\ Budget(call[c])
    BY DEF TypeOK, Budgets
  <1>2. /\ v \in Calls
        /\ v.job = call[c].job /\ v.geo = call[c].geo /\ v.host = call[c].host
        /\ v.tries = call[c].tries /\ v.force = call[c].force /\ v.pc = l
    BY <1>1 DEF Calls
  <1>3. Budget(v)
    BY <1>1, <1>2 DEF Budget, Forced
  <1>4. QED  BY <1>3, SetBudget DEF Goto

LEMMA ForceBudget ==
    ASSUME TypeOK, Budgets, NEW c \in Callers, call[c].job = "probe",
           Set(c, [call[c] EXCEPT !.pc = "token", !.force = TRUE])
    PROVE  Budgets' /\ SilentOnlyForced'
  <1> DEFINE v == [call[c] EXCEPT !.pc = "token", !.force = TRUE]
  <1>1. call[c] \in Calls /\ Budget(call[c])
    BY DEF TypeOK, Budgets
  <1>2. /\ v \in Calls
        /\ v.job = "probe" /\ v.geo = call[c].geo /\ v.host = call[c].host
        /\ v.tries = call[c].tries
    BY <1>1 DEF Calls, PC
  <1>3. Budget(v)
    BY <1>1, <1>2, SameCounters
  <1>4. QED  BY <1>3, SetBudget

LEMMA WithoutTokenBudget ==
    ASSUME TypeOK, Budgets, NEW c \in Callers, NEW e, WithoutToken(c, e)
    PROVE  Budgets' /\ SilentOnlyForced'
  <1>1. CASE Fails(c, e)
    BY <1>1, FailsBudget
  <1>2. CASE call[c].job # "chat" /\ Set(c, [call[c] EXCEPT !.pc = "token", !.force = TRUE])
    BY <1>2, ForceBudget DEF TypeOK, Calls
  <1>3. CASE call[c].job # "chat" /\ Goto(c, "save")
    <2>1. call[c].job = "probe"
      BY <1>3 DEF TypeOK, Calls
    <2>2. QED  BY <1>3, <2>1, GotoBudget DEF PC
  <1>4. QED
    BY <1>1, <1>2, <1>3 DEF WithoutToken

(* A round is left, unless every location retry, the sibling and the retry *)
(* without the cached token have been spent.                               *)
LEMMA AgainBudget ==
    ASSUME TypeOK, Budgets, NEW c \in Callers, NEW v \in Calls, v.job = "chat",
           v.tries + 1 = v.geo + v.host + Forced(v), v.geo <= GeoLimit, Again(c, v)
    PROVE  Budgets' /\ SilentOnlyForced'
  <1> DEFINE w == [v EXCEPT !.pc = "token", !.tries = @ + 1]
  <1>0. /\ v.tries \in Nat /\ v.geo \in Nat /\ v.host \in 0..(Hosts - 1) /\ v.force \in BOOLEAN
        /\ GeoLimit \in Nat /\ Hosts \in {1, 2}
    BY LoopAssumption DEF Calls
  <1>1. CASE v.tries + 1 < MaxAttempts
    <2>1. /\ w.tries = v.tries + 1 /\ w.geo = v.geo /\ w.host = v.host
          /\ w.job = "chat" /\ w.force = v.force /\ w.pc = "token"
      BY DEF Calls
    <2>2. Budget(w)
      BY <1>0, <2>1 DEF Budget, Forced, Saving
    <2>3. QED  BY <1>1, <2>2, SetBudget DEF Again
  <1>2. CASE ~(v.tries + 1 < MaxAttempts)
    <2>1. Forced(v) = 1 /\ v.host = 1
      <3>1. Forced(v) \in {0, 1}
        BY DEF Forced
      <3>2. v.geo + v.host + Forced(v) >= GeoLimit + 2
        BY <1>0, <1>2 DEF MaxAttempts
      <3>3. QED  BY <1>0, <3>1, <3>2
    <2>2. v.force /\ Hosts = 2
      BY <1>0, <2>1 DEF Forced
    <2>3. EndAs(c, v, "silent", None)
      BY <1>2 DEF Again
    <2>4. SilentOnlyForced'
      BY <2>2, <2>3 DEF SilentOnlyForced, EndAs
    <2>5. Budgets'
      <3> DEFINE z == [Idle EXCEPT !.pc = "flush", !.own = v.own]
      <3>1. \A d \in Callers : call'[d] \in {call[d], z, Idle}
        BY <2>3 DEF EndAs, TypeOK
      <3>2. QED  BY <3>1, IdleBudget, FlushBudget DEF Budgets
    <2>6. QED  BY <2>4, <2>5
  <1>3. QED  BY <1>1, <1>2

LEMMA ReplyBudget ==
    ASSUME TypeOK, Budgets, NEW c \in Callers, NEW e \in Replies, Reply(c, e)
    PROVE  Budgets' /\ SilentOnlyForced'
  <1> DEFINE v == call[c]
  <1>0. /\ v \in Calls /\ Budget(v) /\ v.job = "chat"
        /\ v.tries \in Nat /\ v.geo \in Nat /\ v.host \in 0..(Hosts - 1)
        /\ GeoLimit \in Nat /\ Hosts \in {1, 2} /\ Forced(v) \in {0, 1}
    BY LoopAssumption DEF TypeOK, Budgets, Reply, Calls, Forced
  <1>1. CASE RetryAction(v, e) = "geo"
    <2>1. v.geo < GeoLimit
      BY <1>1 DEF RetryAction
    <2> DEFINE w == [v EXCEPT !.geo = @ + 1]
    <2>2. /\ w \in Calls /\ w.job = "chat" /\ w.force = v.force
          /\ w.tries = v.tries /\ w.geo = v.geo + 1 /\ w.host = v.host
      BY <1>0 DEF Calls
    <2>3. w.tries + 1 = w.geo + w.host + Forced(w) /\ w.geo <= GeoLimit
      BY <1>0, <2>1, <2>2 DEF Budget, Forced
    <2>4. QED  BY <1>1, <2>2, <2>3, AgainBudget DEF Reply
  <1>2. CASE RetryAction(v, e) = "sibling"
    <2>1. v.host + 1 < Hosts
      BY <1>2 DEF RetryAction
    <2> DEFINE w == [v EXCEPT !.host = @ + 1]
    <2>2. /\ w \in Calls /\ w.job = "chat" /\ w.force = v.force
          /\ w.tries = v.tries /\ w.geo = v.geo /\ w.host = v.host + 1
      BY <1>0, <2>1 DEF Calls
    <2>3. w.tries + 1 = w.geo + w.host + Forced(w) /\ w.geo <= GeoLimit
      BY <1>0, <2>2 DEF Budget, Forced
    <2>4. QED  BY <1>2, <2>2, <2>3, AgainBudget DEF Reply
  <1>3. CASE RetryAction(v, e) = "fail"
    <2>1. classify_upstream_error_kind(Raised(e)) # "silent"
      BY VerdictIsKind DEF Kinds
    <2>2. QED  BY <1>3, <2>1, EndBudget DEF Reply
  <1>4. QED  BY <1>1, <1>2, <1>3 DEF RetryAction

LEMMA ProceedBudget ==
    ASSUME TypeOK, Budgets, NEW c \in Callers, Proceed(c)
    PROVE  Budgets' /\ SilentOnlyForced'
  <1>0. Budget(call[c]) /\ call[c] \in Calls
    BY DEF Budgets, TypeOK
  <1>1. CASE CacheHit(c) \/ Contend(c) \/ Served(c) \/ CacheToken(c)
    BY <1>1, GotoBudget DEF CacheHit, Contend, Served, CacheToken, PC, Section, Saving
  <1>2. CASE TimedOut(c) \/ Refused(c) \/ TokenFails(c)
    BY <1>2, WithoutTokenBudget DEF TimedOut, Refused, TokenFails
  <1>3. CASE Challenged(c)
    <2>1. CASE /\ call[c].job = "chat" /\ ~call[c].force
               /\ Again(c, [call[c] EXCEPT !.force = TRUE])
      <3> DEFINE w == [call[c] EXCEPT !.force = TRUE]
      <3>1. /\ w \in Calls /\ w.job = "chat" /\ w.force
            /\ w.tries = call[c].tries /\ w.geo = call[c].geo /\ w.host = call[c].host
        BY <1>0, <2>1 DEF Calls
      <3>2. w.tries + 1 = w.geo + w.host + Forced(w) /\ w.geo <= GeoLimit
        BY <1>0, <2>1, <3>1, LoopAssumption DEF Budget, Forced, Calls
      <3>3. QED  BY <2>1, <3>1, <3>2, AgainBudget
    <2>2. CASE \E e \in {[code |-> 401, marks |-> {"unauthorized"}],
                        [code |-> 403, marks |-> {"forbidden"}]} : WithoutToken(c, e)
      BY <2>2, WithoutTokenBudget
    <2>3. QED  BY <1>3, <2>1, <2>2 DEF Challenged
  <1>4. CASE Granted(c)
    <2> DEFINE w == [call[c] EXCEPT !.pc = "persist",
                        !.fresh = [call[c].own EXCEPT !.refresh = issued']]
    <2>1. CASE Set(c, w)
      <3>1. Budget(w)
        BY <1>0 DEF Budget, Forced, Saving, Calls
      <3>2. QED  BY <2>1, <3>1, SetBudget
    <2>2. CASE Goto(c, "cache")
      BY <2>2, GotoBudget DEF PC, Section, Saving
    <2>3. QED  BY <1>4, <2>1, <2>2 DEF Granted
  <1>5. CASE Persist(c)
    <2>1. Budget([call[c] EXCEPT !.pc = "cache", !.own = call[c].fresh, !.fresh = NoSecret,
                                 !.dirty = (call[c].job = "chat")])
      BY <1>0 DEF Budget, Forced, Saving, Calls
    <2>2. QED  BY <1>5, <2>1, SetBudget DEF Persist
  <1>6. CASE \E e \in Replies : Reply(c, e)
    BY <1>6, ReplyBudget
  <1>7. CASE Challenge(c) \/ Answer(c)
    BY <1>7, EndBudget DEF Challenge, Answer
  <1>8. CASE Broken(c)
    BY <1>8, FailsBudget DEF Broken
  <1>15. CASE Flush(c)
    BY <1>15, IdleBudget, SetBudget DEF Flush
  <1>9. CASE ProbeAgain(c)
    BY <1>9, ForceBudget DEF ProbeAgain
  <1>10. CASE ProbeAsks(c)
    <2>1. Budget([call[c] EXCEPT !.pc = "save", !.found = TRUE])
      BY <1>0, <1>10 DEF ProbeAsks, Budget, Forced, Saving, Calls
    <2>2. CASE Goto(c, "save")
      BY <1>10, <2>2, GotoBudget DEF ProbeAsks, PC
    <2>3. QED  BY <1>10, <2>1, <2>2, SetBudget, EndBudget DEF ProbeAsks
  <1>11. CASE SaveLock(c)
    <2>1. call[c].job = "probe"
      BY <1>0, <1>11 DEF SaveLock, Budget, Saving
    <2>2. QED  BY <1>11, <2>1, GotoBudget, FailsBudget DEF SaveLock, PC, Section
  <1>12. CASE Load(c)
    <2>1. Budget([call[c] EXCEPT !.pc = "write",
                    !.fresh = [secret EXCEPT !.project = @ \/ call[c].found]])
      BY <1>0, <1>12 DEF Load, Budget, Forced, Saving, Calls
    <2>2. QED  BY <1>12, <2>1, SetBudget DEF Load
  <1>13. CASE Save(c)
    <2>1. CASE End(c, "answered", None)
      BY <2>1, EndBudget
    <2>2. ASSUME NEW force \in {call[c].force, TRUE}, NEW l \in {"save", "token"},
                 Set(c, [call[c] EXCEPT !.pc = l, !.own = call[c].fresh,
                                        !.fresh = NoSecret, !.force = force])
          PROVE  Budgets' /\ SilentOnlyForced'
      <3>1. Budget([call[c] EXCEPT !.pc = l, !.own = call[c].fresh,
                                   !.fresh = NoSecret, !.force = force])
        BY <1>0, <1>13 DEF Save, Budget, Forced, Saving, Calls
      <3>2. QED  BY <2>2, <3>1, SetBudget
    <2>3. QED  BY <1>13, <2>1, <2>2 DEF Save
  <1>14. QED
    BY <1>1, <1>2, <1>3, <1>4, <1>5, <1>6, <1>7, <1>8, <1>9, <1>10, <1>11, <1>12, <1>13, <1>15
    DEF Proceed

LEMMA AttemptsInvariant == Attempts /\ [Next]_vars => Attempts'
  <1> SUFFICES ASSUME Attempts, [Next]_vars PROVE Budgets' /\ SilentOnlyForced'
    BY TypesInvariant DEF Attempts
  <1> USE DEF Attempts
  <1>1. ASSUME NEW c \in Callers, NEW job \in {"chat", "probe"}, Start(c, job)
        PROVE  Budgets' /\ SilentOnlyForced'
    <2>1. Budget([Idle EXCEPT !.pc = "token", !.job = job, !.own = secret])
      BY LoopAssumption DEF Budget, Forced, Saving, Idle
    <2>2. QED  BY <1>1, <2>1, SetBudget DEF Start
  <1>2. ASSUME NEW c \in Callers, Proceed(c) PROVE Budgets' /\ SilentOnlyForced'
    BY <1>2, ProceedBudget
  <1>3. ASSUME NEW c \in Callers, Crash(c) PROVE Budgets' /\ SilentOnlyForced'
    BY <1>3, IdleBudget, SetBudget DEF Crash
  <1>4. CASE TokenExpires \/ NewGrant \/ LockExpires
    BY <1>4 DEF TokenExpires, NewGrant, LockExpires, Budgets, SilentOnlyForced, NoEnd
  <1>5. CASE UNCHANGED vars
    BY <1>5 DEF Budgets, SilentOnlyForced, vars, history
  <1>6. QED
    BY <1>1, <1>2, <1>3, <1>4, <1>5 DEF Next

(* However many retries a blocked location is given, the loop of           *)
(* chat_completion only falls through its end, without an answer or an     *)
(* error, for a request that spent an attempt on a new access token.       *)
THEOREM SilentOnlyAfterNewToken == Spec => []SilentOnlyForced
  <1>1. Init => Budgets /\ SilentOnlyForced
    BY IdleBudget DEF Init, Budgets, SilentOnlyForced, NoEnd
  <1>2. Spec => []TypeOK
    BY CallTypeCorrect
  <1>3. Budgets /\ SilentOnlyForced /\ TypeOK /\ [Next]_vars => (Budgets /\ SilentOnlyForced)'
    BY AttemptsInvariant DEF Attempts
  <1>4. QED  BY <1>1, <1>2, <1>3, PTL DEF Spec

------------------------------------------------------------------------------
(* The row.  Only the holder of the lock makes Google forget a token, and  *)
(* what it is about to write is accepted, or was put back before it came.  *)

Exclusive == \A c \in Callers : call[c].pc \in Section => lock = c
CarryGood == \A c \in Callers :
    /\ call[c].pc = "persist" => lost \/ call[c].fresh.refresh \in good
    /\ call[c].pc = "write" => lost \/ call[c].fresh.refresh \in good \cup putBack
SafeRow   == TypeOK /\ Exclusive /\ CarryGood /\ RowGood

(* The places where a caller does not hold the lock. *)
Outside == PC \ Section

(* A step that leaves the tokens alone, or frees its own lock. *)
LEMMA StaysOutside ==
    ASSUME SafeRow, NEW c \in Callers, call'[c].pc \in Outside,
           \A d \in Callers \ {c} : call'[d] = call[d],
           call[c].pc # "persist",
           UNCHANGED <<secret, good, lost, putBack>>,
           lock' \in {lock, IF lock = c THEN None ELSE lock}
    PROVE  (Exclusive /\ CarryGood /\ RowGood)'
  BY CallersAssumption DEF SafeRow, Exclusive, CarryGood, RowGood, RowKept, Outside, Section, PC

LEMMA SetOthers ==
    ASSUME TypeOK, NEW c \in Callers, NEW v, Set(c, v)
    PROVE  call'[c] = v /\ \A d \in Callers \ {c} : call'[d] = call[d]
  BY DEF Set, TypeOK

LEMMA GotoOthers ==
    ASSUME TypeOK, NEW c \in Callers, NEW l, Goto(c, l)
    PROVE  call'[c].pc = l /\ \A d \in Callers \ {c} : call'[d] = call[d]
  <1>1. [call[c] EXCEPT !.pc = l].pc = l
    BY DEF TypeOK, Calls
  <1>2. QED  BY <1>1, SetOthers DEF Goto

LEMMA EndOthers ==
    ASSUME TypeOK, NEW c \in Callers, NEW v, NEW result, NEW last, EndAs(c, v, result, last)
    PROVE  call'[c].pc \in Outside /\ \A d \in Callers \ {c} : call'[d] = call[d]
  <1>1. Idle.pc = "idle" /\ [Idle EXCEPT !.pc = "flush", !.own = v.own].pc = "flush"
    BY DEF Idle
  <1>2. QED  BY <1>1 DEF EndAs, TypeOK, Outside, PC, Section

LEMMA WithoutTokenOthers ==
    ASSUME TypeOK, NEW c \in Callers, NEW e, WithoutToken(c, e)
    PROVE  call'[c].pc \in Outside /\ \A d \in Callers \ {c} : call'[d] = call[d]
  <1>1. CASE Fails(c, e)
    BY <1>1, EndOthers DEF Fails, End, Idle, Outside, PC, Section
  <1>2. CASE Set(c, [call[c] EXCEPT !.pc = "token", !.force = TRUE])
    <2>1. [call[c] EXCEPT !.pc = "token", !.force = TRUE].pc = "token"
      BY DEF TypeOK, Calls
    <2>2. QED  BY <1>2, <2>1, SetOthers DEF Outside, PC, Section
  <1>3. CASE Goto(c, "save")
    BY <1>3, GotoOthers DEF Outside, PC, Section
  <1>4. QED  BY <1>1, <1>2, <1>3 DEF WithoutToken

LEMMA AgainOthers ==
    ASSUME TypeOK, NEW c \in Callers, NEW v \in Calls, Again(c, v)
    PROVE  call'[c].pc \in Outside /\ \A d \in Callers \ {c} : call'[d] = call[d]
  <1>1. [v EXCEPT !.pc = "token", !.tries = @ + 1].pc = "token"
    BY DEF Calls
  <1>2. CASE Set(c, [v EXCEPT !.pc = "token", !.tries = @ + 1])
    BY <1>1, <1>2, SetOthers DEF Outside, PC, Section
  <1>3. CASE EndAs(c, v, "silent", None)
    BY <1>3, EndOthers DEF Idle, Outside, PC, Section
  <1>4. QED  BY <1>2, <1>3 DEF Again

LEMMA ReplyOthers ==
    ASSUME TypeOK, NEW c \in Callers, NEW e, Reply(c, e)
    PROVE  call'[c].pc \in Outside /\ \A d \in Callers \ {c} : call'[d] = call[d]
  <1> DEFINE v == call[c]
  <1>0. v \in Calls
    BY DEF TypeOK
  <1>1. CASE RetryAction(v, e) = "geo"
    <2>1. [v EXCEPT !.geo = @ + 1] \in Calls
      BY <1>0 DEF Calls
    <2>2. QED  BY <1>1, <2>1, AgainOthers DEF Reply
  <1>2. CASE RetryAction(v, e) = "sibling"
    <2>1. v.host + 1 < Hosts
      BY <1>2 DEF RetryAction
    <2>2. [v EXCEPT !.host = @ + 1] \in Calls
      BY <1>0, <2>1, LoopAssumption DEF Calls
    <2>3. QED  BY <1>2, <2>2, AgainOthers DEF Reply
  <1>3. CASE RetryAction(v, e) = "fail"
    BY <1>3, EndOthers DEF Reply, End, Idle, Outside, PC, Section
  <1>4. QED  BY <1>1, <1>2, <1>3 DEF RetryAction

LEMMA ProceedRow ==
    ASSUME SafeRow, NEW c \in Callers, Proceed(c)
    PROVE  (Exclusive /\ CarryGood /\ RowGood)'
  <1>0. TypeOK /\ call[c] \in Calls /\ c # None
    BY CallersAssumption DEF SafeRow, TypeOK
  <1> DEFINE Others == \A d \in Callers \ {c} : call'[d] = call[d]
  <1>1. CASE CacheHit(c) \/ Served(c)
    <2>1. call'[c].pc = "send" /\ Others
      BY <1>0, <1>1, GotoOthers DEF CacheHit, Served
    <2>2. QED
      BY <1>1, <2>1, StaysOutside DEF CacheHit, Served, tokenVars, history, Outside, PC, Section
  <1>2. CASE Contend(c)
    <2>1. CASE lock = None /\ lock' = c /\ Goto(c, "refresh")
      <3>1. call'[c].pc = "refresh" /\ Others
        BY <1>0, <2>1, GotoOthers
      <3>2. \A d \in Callers : call[d].pc \notin Section
        BY <2>1, CallersAssumption DEF SafeRow, Exclusive
      <3>3. QED
        BY <1>2, <2>1, <3>1, <3>2
        DEF Contend, SafeRow, Exclusive, CarryGood, RowGood, RowKept, tokenVars, history, Section
    <2>2. CASE Goto(c, "wait") /\ UNCHANGED lock
      <3>1. call'[c].pc = "wait" /\ Others
        BY <1>0, <2>2, GotoOthers
      <3>2. QED
        BY <1>2, <2>2, <3>1, StaysOutside DEF Contend, tokenVars, history, Outside, PC, Section
    <2>3. QED  BY <1>2, <2>1, <2>2 DEF Contend
  <1>3. CASE TimedOut(c) \/ TokenFails(c) \/ Refused(c)
    <2>1. call'[c].pc \in Outside /\ Others
      BY <1>0, <1>3, WithoutTokenOthers DEF TimedOut, TokenFails, Refused
    <2>2. QED
      BY <1>3, <2>1, StaysOutside DEF TimedOut, TokenFails, Refused, Unlock, history, tokenVars, history
  <1>4. CASE Granted(c)
    <2>0. lock = c /\ call[c].pc = "refresh"
      BY <1>4 DEF Granted, SafeRow, Exclusive, Section
    <2>1. CASE Goto(c, "cache") /\ UNCHANGED <<good, issued>>
      <3>1. call'[c].pc = "cache" /\ Others
        BY <1>0, <2>1, GotoOthers
      <3>2. QED
        BY <1>4, <2>0, <2>1, <3>1
        DEF Granted, history, SafeRow, Exclusive, CarryGood, RowGood, RowKept, Section
    <2>2. CASE ~(Goto(c, "cache") /\ UNCHANGED <<good, issued>>)
      <3> DEFINE w == [call[c] EXCEPT !.pc = "persist",
                          !.fresh = [call[c].own EXCEPT !.refresh = issued']]
      <3>1. call'[c] = w /\ Others
        BY <1>0, <1>4, <2>2, SetOthers DEF Granted
      <3>2. w.pc = "persist" /\ w.fresh.refresh = issued'
        BY <1>0 DEF Calls, Secrets
      <3>3. issued' \in good'
        BY <1>4, <2>2 DEF Granted
      <3>4. \A d \in Callers \ {c} : call[d].pc \notin Section
        BY <2>0 DEF SafeRow, Exclusive
      <3>5. QED
        BY <1>4, <2>0, <3>1, <3>2, <3>3, <3>4
        DEF Granted, history, SafeRow, Exclusive, CarryGood, RowGood, RowKept, Section
    <2>3. QED  BY <2>1, <2>2
  <1>5. CASE Persist(c)
    <2> DEFINE w == [call[c] EXCEPT !.pc = "cache", !.own = call[c].fresh, !.fresh = NoSecret,
                                    !.dirty = (call[c].job = "chat")]
    <2>1. call'[c] = w /\ Others
      BY <1>0, <1>5, SetOthers DEF Persist
    <2>2. w.pc = "cache"
      BY <1>0 DEF Calls
    <2>3. lost \/ secret'.refresh \in good
      BY <1>5 DEF Persist, SafeRow, CarryGood
    <2>4. QED
      BY <1>5, <2>1, <2>2, <2>3 DEF Persist, history, SafeRow, Exclusive, CarryGood, RowGood, RowKept, Section
  <1>6. CASE CacheToken(c)
    <2>1. call'[c].pc = "send" /\ Others
      BY <1>0, <1>6, GotoOthers DEF CacheToken
    <2>2. QED
      BY <1>6, <2>1, StaysOutside DEF CacheToken, Unlock, history, Outside, PC, Section
  <1>7. CASE \E e \in Replies : Reply(c, e)
    BY <1>0, <1>7, ReplyOthers, StaysOutside DEF Reply, tokenVars, history
  <1>8. CASE Challenge(c) \/ Answer(c)
    BY <1>0, <1>8, EndOthers, StaysOutside
    DEF Challenge, Answer, End, tokenVars, history, Idle, Outside, PC, Section
  <1>9. CASE Broken(c)
    BY <1>0, <1>9, EndOthers, StaysOutside
    DEF Broken, Fails, End, tokenVars, history, Idle, Outside, PC, Section
  <1>16. CASE Flush(c)
    <2>1. call'[c].pc = "idle" /\ Others
      BY <1>0, <1>16, SetOthers DEF Flush, Idle
    <2>2. secret'.refresh \in good' \cup putBack' /\ putBack \subseteq putBack'
      BY <1>16 DEF Flush
    <2>3. QED
      BY <1>16, <2>1, <2>2 DEF Flush, SafeRow, Exclusive, CarryGood, RowGood, RowKept, Section
  <1>10. CASE ProbeAsks(c) \/ ProbeAgain(c)
    <2>1. /\ [call[c] EXCEPT !.pc = "token", !.force = TRUE].pc = "token"
          /\ [call[c] EXCEPT !.pc = "save", !.found = TRUE].pc = "save"
      BY <1>0 DEF Calls
    <2>2. call'[c].pc \in Outside /\ Others
      <3>1. CASE Goto(c, "save")
        BY <1>0, <3>1, GotoOthers DEF Outside, PC, Section
      <3>2. CASE End(c, "AUTH", None)
        BY <1>0, <3>2, EndOthers DEF End, Idle, Outside, PC, Section
      <3>3. CASE \/ Set(c, [call[c] EXCEPT !.pc = "token", !.force = TRUE])
                 \/ Set(c, [call[c] EXCEPT !.pc = "save", !.found = TRUE])
        BY <1>0, <2>1, <3>3, SetOthers DEF Outside, PC, Section
      <3>4. QED  BY <1>10, <3>1, <3>2, <3>3 DEF ProbeAsks, ProbeAgain
    <2>3. QED
      BY <1>0, <1>10, <2>2, StaysOutside DEF ProbeAsks, ProbeAgain, tokenVars, history
  <1>14. CASE Challenged(c)
    <2>1. [call[c] EXCEPT !.force = TRUE] \in Calls
      BY <1>0 DEF Calls
    <2>2. CASE Again(c, [call[c] EXCEPT !.force = TRUE])
      BY <1>0, <1>14, <2>1, <2>2, AgainOthers, StaysOutside DEF Challenged, Unlock, history
    <2>3. CASE ~Again(c, [call[c] EXCEPT !.force = TRUE])
      BY <1>0, <1>14, <2>3, WithoutTokenOthers, StaysOutside DEF Challenged, Unlock, history
    <2>4. QED  BY <2>2, <2>3
  <1>11. CASE SaveLock(c)
    <2>1. CASE lock = None /\ lock' = c /\ Goto(c, "load")
      <3>1. call'[c].pc = "load" /\ Others
        BY <1>0, <2>1, GotoOthers
      <3>2. \A d \in Callers : call[d].pc \notin Section
        BY <2>1, CallersAssumption DEF SafeRow, Exclusive
      <3>3. QED
        BY <1>11, <2>1, <3>1, <3>2
        DEF SaveLock, SafeRow, Exclusive, CarryGood, RowGood, RowKept, tokenVars, history, Section
    <2>2. CASE ~(lock = None /\ lock' = c /\ Goto(c, "load"))
      BY <1>0, <1>11, <2>2, EndOthers, StaysOutside
      DEF SaveLock, Fails, End, tokenVars, history, Idle, Outside, PC, Section
    <2>3. QED  BY <2>1, <2>2
  <1>12. CASE Load(c)
    <2> DEFINE w == [call[c] EXCEPT !.pc = "write",
                        !.fresh = [secret EXCEPT !.project = @ \/ call[c].found]]
    <2>1. call'[c] = w /\ Others
      BY <1>0, <1>12, SetOthers DEF Load
    <2>2. w.pc = "write" /\ w.fresh.refresh = secret.refresh
      BY <1>0 DEF Calls, TypeOK, Secrets
    <2>3. lock = c /\ \A d \in Callers : call[d].pc # "persist"
      BY <1>12 DEF Load, SafeRow, Exclusive, Section
    <2>4. lost \/ secret.refresh \in good \cup putBack
      BY <2>3 DEF SafeRow, RowGood, RowKept
    <2>5. QED
      BY <1>12, <2>1, <2>2, <2>3, <2>4
      DEF Load, SafeRow, Exclusive, CarryGood, RowGood, RowKept, tokenVars, history, Section
  <1>13. CASE Save(c)
    <2>0. lock = c /\ (lost \/ secret'.refresh \in good \cup putBack)
      BY <1>13 DEF Save, SafeRow, Exclusive, CarryGood, Section
    <2>1. call'[c].pc \in Outside /\ Others
      <3>1. \A l \in {"save", "token"}, force \in BOOLEAN :
               [call[c] EXCEPT !.pc = l, !.own = call[c].fresh, !.fresh = NoSecret,
                               !.force = force].pc = l
        BY <1>0 DEF Calls
      <3>2. CASE End(c, "answered", None)
        BY <1>0, <3>2, EndOthers DEF End, Idle, Outside, PC, Section
      <3>3. CASE ~End(c, "answered", None)
        <4>1. PICK l \in {"save", "token"}, force \in BOOLEAN :
                 Set(c, [call[c] EXCEPT !.pc = l, !.own = call[c].fresh, !.fresh = NoSecret,
                                        !.force = force])
          BY <1>0, <1>13, <3>3 DEF Save, Calls
        <4>2. call'[c].pc = l /\ Others
          BY <1>0, <3>1, <4>1, SetOthers
        <4>3. QED  BY <4>2 DEF Outside, PC, Section
      <3>4. QED  BY <3>2, <3>3
    <2>2. QED
      BY <1>0, <1>13, <2>0, <2>1
      DEF Save, SafeRow, Exclusive, CarryGood, RowGood, RowKept, Unlock, history, Outside, PC, Section
  <1>15. QED
    BY <1>1, <1>2, <1>3, <1>4, <1>5, <1>6, <1>7, <1>8, <1>9, <1>10, <1>11, <1>12, <1>13, <1>14, <1>16
    DEF Proceed

LEMMA RowInvariant == SafeRow /\ [Next]_vars => SafeRow'
  <1> SUFFICES ASSUME SafeRow, [Next]_vars PROVE (Exclusive /\ CarryGood /\ RowGood)'
    BY TypesInvariant DEF SafeRow
  <1>0. TypeOK
    BY DEF SafeRow
  <1>1. ASSUME NEW c \in Callers, NEW job \in {"chat", "probe"}, Start(c, job)
        PROVE  (Exclusive /\ CarryGood /\ RowGood)'
    <2>1. [Idle EXCEPT !.pc = "token", !.job = job, !.own = secret].pc = "token"
      BY DEF Idle
    <2>2. QED
      BY <1>0, <1>1, <2>1, SetOthers, StaysOutside DEF Start, tokenVars, history, Outside, PC, Section
  <1>2. ASSUME NEW c \in Callers, Proceed(c)
        PROVE  (Exclusive /\ CarryGood /\ RowGood)'
    BY <1>2, ProceedRow
  <1>3. ASSUME NEW c \in Callers, Crash(c)
        PROVE  (Exclusive /\ CarryGood /\ RowGood)'
    <2>1. call'[c].pc = "idle" /\ \A d \in Callers \ {c} : call'[d] = call[d]
      BY <1>0, <1>3, SetOthers DEF Crash, Idle
    <2>2. QED
      BY <1>3, <2>1 DEF Crash, history, SafeRow, Exclusive, CarryGood, RowGood, RowKept, Section
  <1>4. CASE TokenExpires
    BY <1>4 DEF TokenExpires, history, SafeRow, Exclusive, CarryGood, RowGood, RowKept
  <1>5. CASE NewGrant
    BY <1>5 DEF NewGrant, history, SafeRow, Exclusive, CarryGood, RowGood, RowKept
  <1>6. CASE LockExpires
    BY <1>6 DEF LockExpires, SafeRow, Exclusive, CarryGood, RowGood, RowKept, tokenVars, history
  <1>7. CASE UNCHANGED vars
    BY <1>7 DEF SafeRow, Exclusive, CarryGood, RowGood, RowKept, vars, history
  <1>8. QED
    BY <1>1, <1>2, <1>3, <1>4, <1>5, <1>6, <1>7 DEF Next

(* For any number of requests, probes and rotations the row keeps a        *)
(* refresh token that Google accepts, as long as no process dies between   *)
(* Google's answer and the write of the row, but for a token that the      *)
(* session of a chat put back after its call.                              *)
THEOREM RowStaysGood == Spec => []RowGood
  <1>1. Init => Exclusive /\ CarryGood /\ RowGood
    BY DEF Init, Exclusive, CarryGood, RowGood, RowKept, Idle, NoSecret, Section
  <1>2. Spec => []TypeOK
    BY CallTypeCorrect
  <1>3. TypeOK /\ (Exclusive /\ CarryGood /\ RowGood) /\ [Next]_vars
            => (Exclusive /\ CarryGood /\ RowGood)'
    BY RowInvariant DEF SafeRow
  <1>4. QED  BY <1>1, <1>2, <1>3, PTL DEF Spec
------------------------------------------------------------------------------
(* Verdicts *)

(* The verdict is that of the first test that succeeds. *)
LEMMA VerdictIsFirst ==
    ASSUME NEW e
    PROVE  \E i \in 1..10 : /\ classify_upstream_error_kind(e) = Verdicts(e)[i][1]
                            /\ Verdicts(e)[i][2]
                            /\ \A j \in 1..(i - 1) : ~Verdicts(e)[j][2]
  <1> DEFINE v == Verdicts(e)
             b == [i \in 1..10 |-> v[i][2]]
  <1>1. /\ DOMAIN v = 1..10
        /\ \A i \in 1..10 : v[i][2] \in BOOLEAN
        /\ v[10][2]
    BY DEF Verdicts, SaysQuota
  <1>2. b \in [1..10 -> BOOLEAN] /\ b[10]
    BY <1>1
  <1>3. \E i \in DOMAIN v : v[i][2] /\ \A j \in 1..(i - 1) : ~v[j][2]
    BY <1>1, <1>2, FirstOfTen
  <1> QED
    BY <1>1, <1>3 DEF classify_upstream_error_kind

LEMMA QuotaIsSaid ==
    ASSUME NEW e, classify_upstream_error_kind(e) = "QUOTA"
    PROVE  SaysQuota(e)
  <1>1. PICK i \in 1..10 : Verdicts(e)[i][1] = "QUOTA" /\ Verdicts(e)[i][2]
    BY VerdictIsFirst
  <1>2. i = 2
    <2>1. i \in {1, 2, 3, 4, 5, 6, 7, 8, 9, 10}
      BY <1>1
    <2> QED BY <1>1, <2>1 DEF Verdicts
  <1> QED BY <1>1, <1>2 DEF Verdicts

(* A location block that says nothing else about the account. *)
Plain(e) ==
    /\ {"hard_auth", "hard_quota", "rate", "429"} \cap e.marks = {}
    /\ ~({"quota_context", "exceeded"} \subseteq e.marks)

LEMMA PlainBlockIsTransient ==
    ASSUME NEW e, "geo" \in e.marks, Plain(e), e.code = 0
    PROVE  classify_upstream_error_kind(e) = "TRANSIENT"
  <1>1. PICK i \in 1..10 : /\ classify_upstream_error_kind(e) = Verdicts(e)[i][1]
                           /\ Verdicts(e)[i][2]
                           /\ \A j \in 1..(i - 1) : ~Verdicts(e)[j][2]
    BY VerdictIsFirst
  <1>2. /\ ~Verdicts(e)[1][2]
        /\ ~Verdicts(e)[2][2]
        /\ ~Verdicts(e)[3][2]
        /\ Verdicts(e)[4][2] /\ Verdicts(e)[4][1] = "TRANSIENT"
    <2>1. /\ {"hard_auth"} \cap e.marks = {}
          /\ {"rate", "429"} \cap e.marks = {}
          /\ "hard_quota" \notin e.marks
          /\ {"geo"} \cap e.marks # {}
      BY DEF Plain
    <2>2. ~SaysQuota(e)
      BY <2>1 DEF SaysQuota, Plain
    <2>3. ~Verdicts(e)[1][2]
      BY <2>1 DEF Verdicts
    <2>4. ~Verdicts(e)[2][2]
      BY <2>2 DEF Verdicts
    <2>5. ~Verdicts(e)[3][2]
      <3>1. Verdicts(e)[3][2] <=> e.code = 429 \/ {"rate", "429"} \cap e.marks # {}
        BY DEF Verdicts
      <3>2. e.code # 429
        OBVIOUS
      <3> QED BY <2>1, <3>1, <3>2
    <2>6. Verdicts(e)[4][2] /\ Verdicts(e)[4][1] = "TRANSIENT"
      BY <2>1 DEF Verdicts
    <2> QED BY <2>3, <2>4, <2>5, <2>6
  <1>3. i = 4
    <2>1. i \notin {1, 2, 3}
      BY <1>1, <1>2
    <2>2. ~(i > 4)
      BY <1>1, <1>2
    <2> QED BY <2>1, <2>2
  <1> QED BY <1>1, <1>2, <1>3

(* What Google's answers look like: one that blocks a location without a   *)
(* 429 speaks of no quota, no rate and no revoked grant.                   *)
PlainBlocks == \A e \in Replies : "geo" \in e.marks /\ e.code # 429 => Plain(e)

(* A call that ends with a reply ends with the verdict on that reply. *)
FromReply ==
    ended.last # None =>
       ended.last \in Replies /\ ended.result = classify_upstream_error_kind(Raised(ended.last))

LEMMA ReplyEnds ==
    ASSUME NEW c \in Callers, NEW e \in Replies, Reply(c, e)
    PROVE  FromReply'
  <1>1. CASE RetryAction(call[c], e) = "geo"
    <2>1. ended'.last = None
      BY <1>1 DEF Reply, Again, Set, EndAs, NoEnd
    <2> QED BY <2>1 DEF FromReply
  <1>2. CASE RetryAction(call[c], e) = "sibling"
    <2>1. ended'.last = None
      BY <1>2 DEF Reply, Again, Set, EndAs, NoEnd
    <2> QED BY <2>1 DEF FromReply
  <1>3. CASE RetryAction(call[c], e) = "fail"
    <2>1. ended'.last = e /\ ended'.result = classify_upstream_error_kind(Raised(e))
      BY <1>3 DEF Reply, End, EndAs
    <2> QED BY <2>1 DEF FromReply
  <1> QED BY <1>1, <1>2, <1>3 DEF RetryAction

(* Every other step ends a call without a reply, if it ends one. *)
LEMMA ProceedEnds ==
    ASSUME NEW c \in Callers, Proceed(c)
    PROVE  FromReply'
  <1> USE DEF Goto, Set, NoEnd, Fails, End, EndAs, WithoutToken, Again
  <1>1. CASE \E e \in Replies : Reply(c, e)
    BY <1>1, ReplyEnds
  <1>2. CacheHit(c) \/ Contend(c) \/ Served(c) \/ TimedOut(c) \/ Granted(c) \/ Persist(c)
        \/ CacheToken(c) \/ Refused(c) \/ TokenFails(c) \/ Challenged(c) => ended'.last = None
    BY DEF CacheHit, Contend, Served, TimedOut, Granted, Persist, CacheToken, Refused,
       TokenFails, Challenged
  <1>3. Challenge(c) \/ Answer(c) \/ Broken(c) \/ Flush(c) => ended'.last = None
    BY DEF Challenge, Answer, Broken, Flush
  <1>4. Load(c) => ended'.last = None
    BY DEF Load
  <1>5. SaveLock(c) => ended'.last = None
    BY DEF SaveLock
  <1>6. ProbeAsks(c) => ended'.last = None
    BY DEF ProbeAsks
  <1>7. ProbeAgain(c) => ended'.last = None
    <2>1. ProbeAgain(c) => ended' = NoEnd
      BY Zenon DEF ProbeAgain
    <2> QED BY <2>1
  <1>8. Save(c) => ended'.last = None
    <2>1. CASE call[c].own.project \/ ~call[c].found
      BY <2>1 DEF Save
    <2>2. CASE ~(call[c].own.project \/ ~call[c].found)
      BY <2>2 DEF Save
    <2> QED BY <2>1, <2>2
  <1> QED
    BY <1>1, <1>2, <1>3, <1>4, <1>5, <1>6, <1>7, <1>8 DEF Proceed, FromReply

LEMMA EndsFromReplies == Spec => []FromReply
  <1>1. Init => FromReply
    BY DEF Init, NoEnd, FromReply
  <1>2. FromReply /\ [Next]_vars => FromReply'
    <2> SUFFICES ASSUME FromReply, [Next]_vars PROVE FromReply'
      OBVIOUS
    <2>1. ASSUME NEW c \in Callers, Proceed(c) PROVE FromReply'
      BY <2>1, ProceedEnds
    <2>2. ASSUME NEW c \in Callers, Start(c, "chat") \/ Start(c, "probe") \/ Crash(c)
          PROVE  FromReply'
      BY <2>2 DEF Start, Crash, Set, NoEnd, FromReply
    <2>3. CASE TokenExpires \/ NewGrant \/ LockExpires
      BY <2>3 DEF TokenExpires, NewGrant, LockExpires, NoEnd, FromReply
    <2>4. CASE UNCHANGED vars
      BY <2>4 DEF vars, history, FromReply
    <2> QED BY <2>1, <2>2, <2>3, <2>4 DEF Next
  <1> QED BY <1>1, <1>2, PTL DEF Spec

LEMMA NamedFromReply == FromReply => QuotaNamed
  <1> SUFFICES ASSUME FromReply, ended.last # None, ended.result = "QUOTA"
               PROVE  \/ "hard_quota" \in ended.last.marks
                      \/ {"quota_context", "exceeded"} \subseteq ended.last.marks
    BY DEF QuotaNamed
  <1> DEFINE e == ended.last
  <1>1. SaysQuota(Raised(e))
    BY QuotaIsSaid DEF FromReply
  <1>2. \A m \in {"hard_quota", "quota_context", "exceeded"} :
           m \in Raised(e).marks => m \in e.marks
    BY DEF Raised
  <1> QED BY <1>1, <1>2 DEF SaysQuota

(* Whatever Google answers, only a reply that names a spent quota makes    *)
(* the verdict QUOTA, however many retries and hosts came before it.       *)
THEOREM QuotaAlwaysNamed == Spec => []QuotaNamed
  BY NamedFromReply, EndsFromReplies, PTL

(* When location blocks say nothing else about the account, a call that    *)
(* ends on one does not cost the conversation its account either.          *)
THEOREM VerdictsAreFair == PlainBlocks => (Spec => []VerdictFair)
  <1> SUFFICES ASSUME PlainBlocks PROVE Spec => []VerdictFair
    OBVIOUS
  <1>1. PlainBlocks
    OBVIOUS
  <1>2. FromReply => BlockKeepsAccount
    <2> SUFFICES ASSUME FromReply, ended.last # None, "geo" \in ended.last.marks,
                        ended.last.code # 429
                 PROVE  ~should_invalidate_session_binding(ended.result)
      BY DEF BlockKeepsAccount
    <2> DEFINE e == ended.last
    <2>1. e \in Replies /\ ended.result = classify_upstream_error_kind(Raised(e))
      BY DEF FromReply
    <2>2. /\ e.marks \subseteq Raised(e).marks /\ Raised(e).code = 0
          /\ Raised(e).marks \subseteq e.marks \cup {"unauthorized", "forbidden"}
      BY DEF Raised
    <2>3. Plain(Raised(e))
      BY <1>1, <2>1, <2>2 DEF PlainBlocks, Plain
    <2>4. ended.result = "TRANSIENT"
      BY <2>1, <2>2, <2>3, PlainBlockIsTransient
    <2> QED BY <2>4 DEF should_invalidate_session_binding
  <1>3. FromReply => VerdictFair
    BY <1>2, NamedFromReply DEF VerdictFair
  <1> QED BY <1>3, EndsFromReplies, PTL
==============================================================================
