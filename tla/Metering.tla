------------------------------- MODULE Metering -------------------------------
(***************************************************************************)
(* What a request costs: the requests per minute and the tokens per month  *)
(* of a virtual key, and the token window of a plain account.              *)
(*                                                                         *)
(*   backend/app/services/usage_service.py   check_key_limits, the charge  *)
(*   backend/app/routing/selector.py         the quota check, release      *)
(*   backend/app/workers/worker.py, selector.py   two resets of a window   *)
(*                                                                         *)
(* Counters live in Redis, the account's also in its row, which a session  *)
(* loads once: a later SELECT returns what it has.  Redis may lose the     *)
(* account's counter, a process may die between two calls, and a counter   *)
(* without a TTL never expires.                                            *)
(***************************************************************************)
EXTENDS Naturals, FiniteSets

CONSTANTS
    None,           \* no such key in Redis
    Requests,       \* requests in flight at a time
    Configured,     \* the sets of limits a deployment may have set, of Limits
    RpmLimit, MonthLimit, QuotaTotal,
    MaxUse,         \* bound: tokens of one answer; a request is estimated at 1
    MaxFaults      \* bound: processes that die, and times Redis loses the counter

Limits    == {"rpm", "month", "quota"}
Resetters == {"worker", "scan"}
Actors    == Requests \cup Resetters

ASSUME LimitsAssumption ==
    /\ Configured \subseteq SUBSET Limits
    /\ {RpmLimit, MonthLimit, QuotaTotal, MaxUse} \subseteq Nat \ {0}
    /\ MaxFaults \in Nat
ASSUME ActorsAssumption == IsFiniteSet(Requests) /\ Requests \cap Resetters = {}
ASSUME NoneAssumption == None \notin Nat

VARIABLES
    limits,             \* rpm_limit, monthly_token_limit, quota_total_tokens that are set
    rpm, rpmTtl,        \* requests of this minute, whether the key expires
    month, monthTtl,    \* tokens of this month, whether the key expires
    tokens,             \* the account's counter in Redis, or None
    used,               \* quota_used_tokens in the row
    due,                \* the row's reset_at has passed
    at,                 \* per actor: pc, used as loaded, the counter it got, its cost
    spent,              \* history: tokens released in this window
    forgot,             \* history: Redis or a late reset took what the row did not have
    stale,              \* history: a lost counter was seeded with an older row's value
    faults             \* how many faults there were

rpmVars   == <<rpm, rpmTtl>>
monthVars == <<month, monthTtl>>
quotaVars == <<tokens, used, due, spent, forgot, stale>>
vars      == <<limits, rpmVars, monthVars, quotaVars, at, faults>>

Releasing == {"load", "seed", "incr", "commit"}
PC   == Releasing \cup {"idle", "arm", "judge", "scan", "book", "call", "charge", "armMonth", "zero"}
Idle == [pc |-> "idle", seen |-> 0, sum |-> 0, cost |-> 0]

Smaller(a, b) == IF a < b THEN a ELSE b
Counted       == IF tokens = None THEN used ELSE tokens
At(a, l)      == at[a].pc = l
Become(a, v)  == at' = [at EXCEPT ![a] = v]
Goto(a, l)    == Become(a, [at[a] EXCEPT !.pc = l])

Init ==
    /\ limits \in Configured
    /\ rpm = 0 /\ rpmTtl = FALSE
    /\ month = 0 /\ monthTtl = FALSE
    /\ tokens = None /\ used = 0 /\ due = FALSE
    /\ at = [a \in Actors |-> Idle]
    /\ spent = 0 /\ forgot = FALSE /\ stale = FALSE /\ faults = 0

------------------------------------------------------------------------------
(* check_key_limits *)

(* INCRBY.  Any value over the limit is as good as the next. *)
Arrive(r) ==
    /\ At(r, "idle")
    /\ IF "rpm" \in limits
       THEN /\ rpm' = Smaller(rpm + 1, RpmLimit + 1)
            /\ Become(r, [Idle EXCEPT !.pc = "arm", !.sum = rpm'])
       ELSE Goto(r, "judge") /\ rpm' = rpm
    /\ UNCHANGED <<limits, rpmTtl, monthVars, quotaVars, faults>>

(* Variants named after a mistake are the module's own negative controls. *)
ArmOnFirst(value) == value = 1 \/ rpmTtl
ArmAlways(value)  == TRUE

(* A TTL that is missing is set, whoever should have done it; a key that   *)
(* has gone meanwhile gets none.                                           *)
Rearmed(value) == rpm > 0

Arm(r) ==
    /\ At(r, "arm")
    /\ rpmTtl' = Rearmed(at[r].sum)
    /\ Goto(r, "judge")
    /\ UNCHANGED <<limits, rpm, monthVars, quotaVars, faults>>

WithinInclusive == month <= MonthLimit
WithinMonth     == month < MonthLimit

Judge(r) ==
    /\ At(r, "judge")
    /\ Become(r, IF at[r].sum <= RpmLimit /\ ("month" \in limits => WithinMonth)
                 THEN [Idle EXCEPT !.pc = IF "quota" \in limits THEN "scan" ELSE "call"]
                 ELSE Idle)
    /\ UNCHANGED <<limits, rpmVars, monthVars, quotaVars, faults>>

------------------------------------------------------------------------------
(* The account's tokens; a counter that no limit reads is not followed. *)

Costs(r, cost) ==
    IF cost = 0 THEN Idle
    ELSE IF "quota" \in limits THEN [at[r] EXCEPT !.pc = "load", !.cost = cost]
    ELSE IF "month" \in limits THEN [Idle EXCEPT !.pc = "charge", !.cost = cost]
    ELSE Idle

Scan(r) ==
    /\ At(r, "scan")
    /\ Become(r, [at[r] EXCEPT !.pc = "book", !.seen = used])
    /\ UNCHANGED <<limits, rpmVars, monthVars, quotaVars, faults>>

(* _try_book: the counter, or the row as it was loaded, and the estimate. *)
Book(r) ==
    /\ At(r, "book")
    /\ Become(r, IF (IF tokens = None THEN at[r].seen ELSE tokens) + 1 <= QuotaTotal
                 THEN [at[r] EXCEPT !.pc = "call"] ELSE Idle)
    /\ UNCHANGED <<limits, rpmVars, monthVars, quotaVars, faults>>

(* The answer says what it cost; nothing is written for a failure. *)
Answer(r) == \E cost \in 0..MaxUse :
    /\ At(r, "call")
    /\ Become(r, Costs(r, cost))
    /\ UNCHANGED <<limits, rpmVars, monthVars, quotaVars, faults>>

(* release: after a stream the row as it is; without one it runs in the    *)
(* request's session, which has the row as the scan loaded it.             *)
Load(r) == \E row \in {used, at[r].seen} :
    /\ At(r, "load")
    /\ Become(r, [at[r] EXCEPT !.pc = "seed", !.seen = row])
    /\ UNCHANGED <<limits, rpmVars, monthVars, quotaVars, faults>>

SeedZero(r) == 0

(* SET NX: the row as it was loaded. *)
SeedValue(r) == at[r].seen

Seed(r) ==
    /\ At(r, "seed")
    /\ tokens' = IF tokens = None THEN SeedValue(r) ELSE tokens
    /\ stale' = (stale \/ (tokens = None /\ at[r].seen # used))
    /\ Goto(r, "incr")
    /\ UNCHANGED <<limits, rpmVars, monthVars, used, due, spent, forgot, faults>>

(* INCRBY; the key may have gone once more. *)
Incr(r) ==
    /\ At(r, "incr")
    /\ tokens' = (IF tokens = None THEN 0 ELSE tokens) + at[r].cost
    /\ spent' = IF forgot \/ stale THEN 0 ELSE spent + at[r].cost
    /\ Become(r, [at[r] EXCEPT !.pc = "commit", !.sum = tokens'])
    /\ UNCHANGED <<limits, rpmVars, monthVars, used, due, forgot, stale, faults>>

(* Only a value other than the one loaded is written. *)
Commit(r) ==
    /\ At(r, "commit")
    /\ used' = IF at[r].sum = at[r].seen THEN used ELSE at[r].sum
    /\ Become(r, IF "month" \in limits THEN [Idle EXCEPT !.pc = "charge", !.cost = at[r].cost] ELSE Idle)
    /\ UNCHANGED <<limits, rpmVars, monthVars, tokens, due, spent, forgot, stale, faults>>

(* incr_vkey_monthly_tokens *)
Charge(r) ==
    /\ At(r, "charge")
    /\ month' = month + at[r].cost
    /\ Become(r, [Idle EXCEPT !.pc = "armMonth"])
    /\ UNCHANGED <<limits, rpmVars, monthTtl, quotaVars, faults>>

ArmMonth(r) ==
    /\ At(r, "armMonth")
    /\ monthTtl' = (month > 0)
    /\ Become(r, Idle)
    /\ UNCHANGED <<limits, rpmVars, month, quotaVars, faults>>

Proceed(r) ==
    \/ Arm(r) \/ Judge(r) \/ Scan(r) \/ Book(r) \/ Answer(r)
    \/ Load(r) \/ Seed(r) \/ Incr(r) \/ Commit(r) \/ Charge(r) \/ ArmMonth(r)

------------------------------------------------------------------------------
(* The resets: periodic_quota_resets and _refresh_expired_states *)

(* All a reset asks of the row is whether it is zero. *)
ResetLoad(a) ==
    /\ At(a, "idle")
    /\ due
    /\ Become(a, [Idle EXCEPT !.pc = "zero", !.seen = Smaller(used, 1)])
    /\ UNCHANGED <<limits, rpmVars, monthVars, quotaVars, faults>>

(* SET 0; when the other one has been first this is a second reset.  A new *)
(* window starts at zero, whatever the last one's counter was.             *)
Zero(a) ==
    /\ At(a, "zero")
    /\ tokens' = 0
    /\ forgot' = (forgot \/ (~due /\ spent > 0))
    /\ spent' = IF due \/ forgot' THEN 0 ELSE spent
    /\ stale' = (stale /\ ~due)
    /\ Goto(a, "commit")
    /\ UNCHANGED <<limits, rpmVars, monthVars, used, due, faults>>

(* used is written if it was loaded as something else; reset_at always. *)
ResetCommit(a) ==
    /\ At(a, "commit")
    /\ used' = IF at[a].seen = 0 THEN used ELSE 0
    /\ due' = FALSE
    /\ Become(a, Idle)
    /\ UNCHANGED <<limits, rpmVars, monthVars, tokens, spent, forgot, stale, faults>>

------------------------------------------------------------------------------
(* Time, Redis and faults *)

WindowEnds ==
    /\ "quota" \in limits /\ ~due
    /\ due' = TRUE
    /\ UNCHANGED <<limits, rpmVars, monthVars, tokens, used, spent, forgot, stale, at, faults>>

RpmExpires ==
    /\ rpmTtl
    /\ rpm' = 0 /\ rpmTtl' = FALSE
    /\ UNCHANGED <<limits, monthVars, quotaVars, at, faults>>

MonthEnds ==
    /\ monthTtl
    /\ month' = 0 /\ monthTtl' = FALSE
    /\ UNCHANGED <<limits, rpmVars, quotaVars, at, faults>>

(* A restart or an eviction: what the row does not have yet is lost. *)
Lose ==
    /\ tokens # None /\ faults < MaxFaults
    /\ faults' = faults + 1
    /\ tokens' = None
    /\ forgot' = (forgot \/ used # spent \/ \E a \in Actors : at[a].pc \in {"incr", "commit"})
    /\ spent' = IF forgot' THEN 0 ELSE spent
    /\ UNCHANGED <<limits, rpmVars, monthVars, used, due, stale, at>>

Crash(a) ==
    /\ ~At(a, "idle") /\ faults < MaxFaults
    /\ faults' = faults + 1
    /\ Become(a, Idle)
    /\ UNCHANGED <<limits, rpmVars, monthVars, quotaVars>>

Next ==
    \/ \E r \in Requests : Arrive(r) \/ Proceed(r)
    \/ \E a \in Resetters : ResetLoad(a) \/ Zero(a) \/ ResetCommit(a)
    \/ WindowEnds \/ RpmExpires \/ MonthEnds \/ Lose \/ \E a \in Actors : Crash(a)

(* Clients call again and again, a live process goes on, a TTL runs out. *)
Spec ==
    /\ Init /\ [][Next]_vars
    /\ WF_vars(RpmExpires)
    /\ \A r \in Requests : WF_vars(Arrive(r) \/ Proceed(r))

------------------------------------------------------------------------------
(* Properties *)

(* Every variable has its type, and only a key that exists has a TTL. *)
TypeOK ==
    /\ limits \in Configured
    /\ rpm \in 0..(RpmLimit + 1) /\ rpmTtl \in BOOLEAN /\ (rpmTtl => rpm > 0)
    /\ month \in Nat /\ monthTtl \in BOOLEAN /\ (monthTtl => month > 0)
    /\ tokens \in Nat \cup {None} /\ used \in Nat
    /\ {due, forgot, stale} \subseteq BOOLEAN
    /\ at \in [Actors -> [pc: PC, seen: Nat, sum: Nat, cost: 0..MaxUse]]
    /\ spent \in Nat /\ faults \in 0..MaxFaults

(* The monthly limit is read before the call and charged after it: it is   *)
(* exceeded by what was in flight when it was reached, and by no more.     *)
MonthBounded == month < MonthLimit + Cardinality(Requests) * MaxUse

(* The account's counter has every token of its window, also when Redis    *)
(* lost it, as long as the row had them and no window was reset twice:     *)
(* "re-seed it from the DB before incrementing".                           *)
QuotaReseeded == forgot \/ Counted = spent

(* The same, but for a counter that is seeded with the row as a request    *)
(* loaded it before its call, when the row has been written since.         *)
QuotaCounted == stale \/ QuotaReseeded

(* A key over its requests per minute is let in again, even if a process   *)
(* died before it had set the TTL.                                         *)
RpmRecovers == rpm > RpmLimit ~> rpm <= RpmLimit
==============================================================================
