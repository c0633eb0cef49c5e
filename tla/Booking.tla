------------------------------- MODULE Booking -------------------------------
(***************************************************************************)
(* Concurrency leases on upstream credentials: how the gateway's requests  *)
(* book a credential, use it, give it back and fail over to the next one.  *)
(*                                                                         *)
(*   backend/app/routing/selector.py   _select_without_session, _try_book, *)
(*                                     release, the credential state lock  *)
(*   backend/app/api/routers/v1/chat.py   the retry loops of the endpoints *)
(*   backend/app/redis_client.py       SET NX, compare_delete,             *)
(*                                     decrby_nonnegative, EXPIRE          *)
(*   backend/app/workers/worker.py     the quota reset that zeroes leases  *)
(*                                                                         *)
(* One action is one await of the code: the event loop may run any other   *)
(* request between two of them.  Redis is the real one: SET in the script  *)
(* of decrby_nonnegative drops the key's TTL.                              *)
(***************************************************************************)
EXTENDS Naturals, FiniteSets

CONSTANTS
    Requests,        \* the requests that ever arrive, each handled once
    Creds,           \* the user's credentials
    Rank,            \* their place in the sort by (priority, id)
    Limit,           \* concurrency_limit of each, or NoLimit (the column is nullable)
    NoLimit,
    None,            \* no request (a lock key that does not exist), no credential
    MaxRetries,      \* MAX_RETRIES of the endpoints
    \* What the deployment guarantees; each is an assumption a result may need.
    LockOutlivesSection,   \* a lock's TTL never fires inside the section it guards
    LeaseOutlivesRequest,  \* the 120 s TTL of the counter never fires on a live lease
    ResetsWhenIdle,        \* the quota reset zeroes a counter only without live leases
    NothingRaises,         \* no write around the upstream call raises
    CrashesBetweenSteps    \* the process never dies between INCRBY and EXPIRE

ASSUME CredsAssumption ==
    /\ Rank \in [Creds -> Nat]
    /\ \A c, d \in Creds : Rank[c] = Rank[d] => c = d
    /\ NoLimit \notin Nat
    /\ Limit \in [Creds -> Nat \cup {NoLimit}]
ASSUME RequestsAssumption ==
    /\ IsFiniteSet(Requests)
    /\ None \notin Requests \cup Creds
    /\ MaxRetries \in Nat
ASSUME GuaranteesAssumption ==
    {LockOutlivesSection, LeaseOutlivesRequest, ResetsWhenIdle,
     NothingRaises, CrashesBetweenSteps} \subseteq BOOLEAN

VARIABLES
    lock,    \* per credential: the request whose token the lock key holds, or None
    count,   \* per credential: the lease counter in Redis (0 when the key is absent)
    ttl,     \* per credential: what TTL says of that counter
    pc,      \* per request: where it is suspended
    at,      \* per request: the credential it is trying or using, or None
    todo,    \* per request: candidates the current scan has not tried yet
    tried,   \* per request: exclude_ids
    resume   \* per request: where the failure handler returns to

redisVars == <<lock, count, ttl>>
localVars == <<at, todo, tried, resume>>
vars      == <<lock, count, ttl, pc, at, todo, tried, resume>>

TTLState == {"absent", "none", "armed"}
Section  == {"read", "incr", "arm", "booked", "refused", "handling"}
Holding  == {"arm", "booked", "use", "stream"}
Final    == {"done", "abandoned", "orphan", "dead"}
PC       == {"idle", "select", "try", "settle", "lockstate"} \cup Section \cup Holding \cup Final

(* Requests whose lease is counted and still theirs, and those whose lease *)
(* nobody will release: a stream that was never iterated, a dead process.  *)
Holders(c) == {r \in Requests : at[r] = c /\ pc[r] \in Holding}
Ghosts(c)  == {r \in Requests : at[r] = c /\ pc[r] \in {"abandoned", "orphan"}}

Inside(r, c) == at[r] = c /\ pc[r] \in Section

(* Variants named after a mistake, like the next one, are not part of the  *)
(* specification: each breaks one definition and one property notices.     *)
AtLimitOffByOne(c) == Limit[c] # NoLimit /\ count[c] > Limit[c]

AtLimit(c) == Limit[c] # NoLimit /\ count[c] >= Limit[c]

(* The candidate the scan of a request comes to next. *)
NextUp(r, c) == c \in todo[r] /\ \A d \in todo[r] : Rank[c] <= Rank[d]

Goto(r, l) == pc' = [pc EXCEPT ![r] = l]

(* A request that ends takes its locals with it; a lease that is lost      *)
(* stays recorded by the credential it is on.                              *)
End(r, l) ==
    /\ Goto(r, l)
    /\ at'     = [at EXCEPT ![r] = IF l = "abandoned" THEN @ ELSE None]
    /\ todo'   = [todo EXCEPT ![r] = {}]
    /\ tried'  = [tried EXCEPT ![r] = {}]
    /\ resume' = [resume EXCEPT ![r] = "done"]

Init ==
    /\ lock   = [c \in Creds |-> None]
    /\ count  = [c \in Creds |-> 0]
    /\ ttl    = [c \in Creds |-> "absent"]
    /\ pc     = [r \in Requests |-> "idle"]
    /\ at     = [r \in Requests |-> None]
    /\ todo   = [r \in Requests |-> {}]
    /\ tried  = [r \in Requests |-> {}]
    /\ resume = [r \in Requests |-> "done"]

------------------------------------------------------------------------------
(* Selecting and booking *)

Arrive(r) ==
    /\ pc[r] = "idle"
    /\ Goto(r, "select")
    /\ UNCHANGED <<redisVars, localVars>>

(* One turn of the retry loop: get_active_credentials returns some of the  *)
(* credentials that are not excluded (which ones depends on their status). *)
Select(r) ==
    /\ pc[r] = "select"
    /\ Cardinality(tried[r]) < MaxRetries
    /\ \E S \in SUBSET (Creds \ tried[r]) : todo' = [todo EXCEPT ![r] = S]
    /\ Goto(r, "try")
    /\ UNCHANGED <<redisVars, at, tried, resume>>

RetriesSpent(r) ==
    /\ pc[r] = "select"
    /\ Cardinality(tried[r]) >= MaxRetries
    /\ End(r, "done")
    /\ UNCHANGED redisVars

NoCandidate(r) ==
    /\ pc[r] = "try"
    /\ todo[r] = {}
    /\ End(r, "done")
    /\ UNCHANGED redisVars

TryLockWithoutNX(r) == \E c \in Creds :
    /\ pc[r] = "try"
    /\ NextUp(r, c)
    /\ lock' = [lock EXCEPT ![c] = r]
    /\ at'   = [at EXCEPT ![r] = c]
    /\ todo' = [todo EXCEPT ![r] = @ \ {c}]
    /\ Goto(r, "read")
    /\ UNCHANGED <<count, ttl, tried, resume>>

(* SET lock NX EX 5 on the first candidate left. *)
TryLock(r) == \E c \in Creds :
    /\ pc[r] = "try"
    /\ NextUp(r, c)
    /\ lock[c] = None
    /\ lock' = [lock EXCEPT ![c] = r]
    /\ at'   = [at EXCEPT ![r] = c]
    /\ todo' = [todo EXCEPT ![r] = @ \ {c}]
    /\ Goto(r, "read")
    /\ UNCHANGED <<count, ttl, tried, resume>>

(* The lock is taken: _try_book returns False and the scan moves on. *)
SkipLocked(r) == \E c \in Creds :
    /\ pc[r] = "try"
    /\ NextUp(r, c)
    /\ lock[c] # None
    /\ todo' = [todo EXCEPT ![r] = @ \ {c}]
    /\ UNCHANGED <<redisVars, pc, at, tried, resume>>

(* GET the counter and compare.  The token window or the quota of the      *)
(* model, which this module does not hold, may refuse as well.             *)
ReadCounters(r) ==
    /\ pc[r] = "read"
    /\ \E verdict \in {"incr", "refused"} :
          /\ AtLimit(at[r]) => verdict = "refused"
          /\ Goto(r, verdict)
    /\ UNCHANGED <<redisVars, localVars>>

(* INCRBY keeps the TTL of a key and creates an absent key without one. *)
IncrLease(r) ==
    /\ pc[r] = "incr"
    /\ count' = [count EXCEPT ![at[r]] = @ + 1]
    /\ ttl'   = [ttl EXCEPT ![at[r]] = IF @ = "absent" THEN "none" ELSE @]
    /\ Goto(r, "arm")
    /\ UNCHANGED <<lock, localVars>>

ArmFirstLeaseOnly(r) ==
    /\ pc[r] = "arm"
    /\ ttl' = [ttl EXCEPT ![at[r]] = IF count[at[r]] = 1 THEN "armed" ELSE @]
    /\ Goto(r, "booked")
    /\ UNCHANGED <<lock, count, localVars>>

ArmNothing(r) ==
    /\ pc[r] = "arm"
    /\ Goto(r, "booked")
    /\ UNCHANGED <<redisVars, localVars>>

(* EXPIRE does nothing to an absent key. *)
ArmLease(r) ==
    /\ pc[r] = "arm"
    /\ ttl' = [ttl EXCEPT ![at[r]] = IF @ = "absent" THEN @ ELSE "armed"]
    /\ Goto(r, "booked")
    /\ UNCHANGED <<lock, count, localVars>>

DeleteAnyLock(r, c) == lock' = [lock EXCEPT ![c] = None]

(* compare_delete: only a lock that still holds the caller's token. *)
CompareDelete(r, c) ==
    lock' = [lock EXCEPT ![c] = IF @ = r THEN None ELSE @]

UnlockBooked(r) ==
    /\ pc[r] = "booked"
    /\ CompareDelete(r, at[r])
    /\ Goto(r, "use")
    /\ todo' = [todo EXCEPT ![r] = {}]
    /\ UNCHANGED <<count, ttl, at, tried, resume>>

UnlockRefused(r) ==
    /\ pc[r] = "refused"
    /\ CompareDelete(r, at[r])
    /\ Goto(r, "try")
    /\ at' = [at EXCEPT ![r] = None]
    /\ UNCHANGED <<count, ttl, todo, tried, resume>>

------------------------------------------------------------------------------
(* Using the credential.  Every path out of the upstream call starts with  *)
(* the release, so the two are one step.                                   *)

DecrByUnclamped(c) ==
    /\ count' = [count EXCEPT ![c] = @ - 1]
    /\ ttl'   = [ttl EXCEPT ![c] = "none"]

(* The script of decrby_nonnegative: SET drops the TTL. *)
DecrByNonnegative(c) ==
    /\ count' = [count EXCEPT ![c] = IF @ > 0 THEN @ - 1 ELSE 0]
    /\ ttl'   = [ttl EXCEPT ![c] = "none"]

Release(r) == DecrByNonnegative(at[r]) /\ UNCHANGED lock

(* Back to the retry loop: exclude_ids grows by the account that failed. *)
NextAccount(r) ==
    /\ Goto(r, "select")
    /\ tried'  = [tried EXCEPT ![r] = @ \cup {at[r]}]
    /\ at'     = [at EXCEPT ![r] = None]
    /\ resume' = [resume EXCEPT ![r] = "done"]
    /\ UNCHANGED todo

(* To _handle_credential_failure, and from there to l. *)
Handle(r, l) ==
    /\ Goto(r, "lockstate")
    /\ resume' = [resume EXCEPT ![r] = l]
    /\ UNCHANGED <<at, todo, tried>>

(* The address check, the commit or the tip between the booking and the    *)
(* try block raises: no handler of the endpoint releases the lease.        *)
SetupRaises(r) ==
    /\ ~ NothingRaises
    /\ pc[r] = "use"
    /\ End(r, "abandoned")
    /\ UNCHANGED redisVars

FailOverKeepingLease(r) == pc[r] = "use" /\ UNCHANGED redisVars /\ NextAccount(r)

(* An unsafe base_url, a secret that cannot be decrypted, or an upstream   *)
(* error that changes neither status nor binding: on to the next account.  *)
FailOver(r) == pc[r] = "use" /\ Release(r) /\ NextAccount(r)

(* An upstream error that may change the credential's status. *)
UpstreamError(r) == pc[r] = "use" /\ Release(r) /\ Handle(r, "select")

(* Released, and an error answered without a retry: a secret leaking in    *)
(* the request or the answer, a lost first bind of the conversation, or    *)
(* the usage event of a failure that cannot be written.                    *)
AnswersError(r) == pc[r] = "use" /\ Release(r) /\ End(r, "done")

(* The answer is there and its lease is given back. *)
Answered(r) ==
    /\ pc[r] = "use"
    /\ Release(r)
    /\ Goto(r, "settle")
    /\ UNCHANGED localVars

(* Monthly tokens, the usage event, the conversation tip. *)
Settle(r) ==
    /\ pc[r] = "settle"
    /\ End(r, "done")
    /\ UNCHANGED redisVars

(* One of them raises (or release itself does, after its decrement): the   *)
(* except branch releases the credential a second time; chat and           *)
(* embeddings then answer 500, images retries on another account.          *)
SettleRaises(r) ==
    /\ ~ NothingRaises
    /\ pc[r] = "settle"
    /\ Release(r)
    /\ End(r, "done") \/ NextAccount(r) \/ Handle(r, "select")

StreamOpensReleasing(r) ==
    /\ pc[r] = "use"
    /\ Release(r)
    /\ Goto(r, "stream")
    /\ UNCHANGED localVars

(* The first chunk is there and the StreamingResponse is handed over. *)
StreamOpens(r) ==
    /\ pc[r] = "use"
    /\ Goto(r, "stream")
    /\ UNCHANGED <<redisVars, localVars>>

(* The finally block of the generator, shielded from cancellation. *)
StreamEnds(r) == pc[r] = "stream" /\ Release(r) /\ End(r, "done")

StreamBreaks(r) == pc[r] = "stream" /\ Release(r) /\ Handle(r, "done")

(* The client is gone before the generator is first iterated: its finally  *)
(* block, and the release in it, never runs.                               *)
StreamNeverRead(r) ==
    /\ pc[r] = "stream"
    /\ End(r, "abandoned")
    /\ UNCHANGED redisVars

------------------------------------------------------------------------------
(* The failure handler takes the same lock key (EX 15) for its own writes  *)

Resume(r) == IF resume[r] = "select" THEN NextAccount(r) ELSE End(r, "done")

LockState(r) ==
    /\ pc[r] = "lockstate"
    /\ lock[at[r]] = None
    /\ lock' = [lock EXCEPT ![at[r]] = r]
    /\ Goto(r, "handling")
    /\ UNCHANGED <<count, ttl, localVars>>

(* A hundred tries, ten milliseconds apart, all found the lock taken. *)
GiveUpState(r) ==
    /\ pc[r] = "lockstate"
    /\ lock[at[r]] # None
    /\ Resume(r)
    /\ UNCHANGED redisVars

(* A write of the handler that raises unlocks in its finally, and the      *)
(* request ends with it.                                                   *)
UnlockState(r) ==
    /\ pc[r] = "handling"
    /\ CompareDelete(r, at[r])
    /\ Resume(r) \/ (~ NothingRaises /\ End(r, "done"))
    /\ UNCHANGED <<count, ttl>>

------------------------------------------------------------------------------
(* Redis, the worker and the process *)

LockWithoutTTL(c) == FALSE

LockTTL(c) ==
    /\ lock[c] # None
    /\ LockOutlivesSection => ~ Inside(lock[c], c)
    /\ lock' = [lock EXCEPT ![c] = None]
    /\ UNCHANGED <<count, ttl, pc, localVars>>

LeaseTTL(c) ==
    /\ ttl[c] = "armed"
    /\ LeaseOutlivesRequest => Holders(c) = {}
    /\ count' = [count EXCEPT ![c] = 0]
    /\ ttl'   = [ttl EXCEPT ![c] = "absent"]
    /\ UNCHANGED <<lock, pc, localVars>>

(* periodic_quota_resets: SET concurrency "0", without a TTL. *)
WorkerReset(c) ==
    /\ ResetsWhenIdle => Holders(c) = {}
    /\ count' = [count EXCEPT ![c] = 0]
    /\ ttl'   = [ttl EXCEPT ![c] = "none"]
    /\ UNCHANGED <<lock, pc, localVars>>

(* The one uvicorn process dies with every request in it; Redis survives. *)
Crash ==
    LET lost == {r \in Requests : pc[r] \in Holding}
        over == Final \cup {"idle"}
    IN
    /\ \E r \in Requests : pc[r] \notin over
    /\ CrashesBetweenSteps => \A r \in Requests : pc[r] # "arm"
    /\ pc' = [r \in Requests |->
                 IF r \in lost THEN "orphan" ELSE IF pc[r] \in over THEN pc[r] ELSE "dead"]
    /\ at' = [r \in Requests |-> IF r \in lost \/ pc[r] \in over THEN at[r] ELSE None]
    /\ todo'   = [r \in Requests |-> {}]
    /\ tried'  = [r \in Requests |-> {}]
    /\ resume' = [r \in Requests |-> "done"]
    /\ UNCHANGED redisVars

Book(r) ==
    \/ Arrive(r) \/ Select(r) \/ RetriesSpent(r) \/ NoCandidate(r)
    \/ TryLock(r) \/ SkipLocked(r) \/ ReadCounters(r)
    \/ IncrLease(r) \/ ArmLease(r) \/ UnlockBooked(r) \/ UnlockRefused(r)

Use(r) ==
    \/ SetupRaises(r) \/ FailOver(r) \/ UpstreamError(r) \/ AnswersError(r)
    \/ Answered(r) \/ Settle(r) \/ SettleRaises(r)
    \/ StreamOpens(r) \/ StreamEnds(r) \/ StreamBreaks(r) \/ StreamNeverRead(r)

HandleFailure(r) == LockState(r) \/ GiveUpState(r) \/ UnlockState(r)

Step(r) == Book(r) \/ Use(r) \/ HandleFailure(r)

Environment ==
    \/ \E c \in Creds : LockTTL(c) \/ LeaseTTL(c) \/ WorkerReset(c)
    \/ Crash

Next == (\E r \in Requests : Step(r)) \/ Environment

Spec == Init /\ [][Next]_vars

(* A request that arrived keeps running (every await of it is bounded by a *)
(* timeout of the HTTP client or of Redis) and Redis expires its keys.     *)
Fairness ==
    /\ \A r \in Requests : WF_vars(pc[r] # "idle" /\ Step(r))
    /\ \A c \in Creds : WF_vars(LockTTL(c)) /\ WF_vars(LeaseTTL(c))

FairSpec == Spec /\ Fairness

------------------------------------------------------------------------------
(* Properties *)

(* Every variable has its type; in particular the counter, which a release *)
(* clamps at zero (redis_client.decrby_nonnegative), is never negative.    *)
TypeOK ==
    /\ lock   \in [Creds -> Requests \cup {None}]
    /\ count  \in [Creds -> Nat]
    /\ ttl    \in [Creds -> TTLState]
    /\ pc     \in [Requests -> PC]
    /\ at     \in [Requests -> Creds \cup {None}]
    /\ todo   \in [Requests -> SUBSET Creds]
    /\ tried  \in [Requests -> SUBSET Creds]
    /\ resume \in [Requests -> {"done", "select"}]

(* A request never removes a lock that is another's: compare_delete in     *)
(* _try_book and in the failure handler, whatever the TTL did before.      *)
LockFreedByOwner ==
    [][\A c \in Creds, r \in Requests :
          pc'[r] # pc[r] /\ lock[c] # None /\ lock'[c] # lock[c] => lock[c] = r]_vars

(* Every lease in the counter is one a request still holds, or one that    *)
(* was lost for a known reason: no other path forgets to release.          *)
EveryLeaseAccounted ==
    \A c \in Creds : count[c] <= Cardinality(Holders(c)) + Cardinality(Ghosts(c))

(* concurrency_limit is kept: no more requests use a credential at a time. *)
WithinLimit ==
    \A c \in Creds : Limit[c] # NoLimit => Cardinality(Holders(c)) <= Limit[c]

(* Reading the counter and incrementing it, and the failure handler's      *)
(* writes, exclude each other on one credential.                           *)
SectionsExclusive ==
    \A c \in Creds, r, s \in Requests : Inside(r, c) /\ Inside(s, c) => r = s

(* A credential full of leases that nobody will release has its TTL armed: *)
(* the EXPIRE that follows every INCRBY of _try_book, although each        *)
(* release drops the TTL again.                                            *)
NeverBricked ==
    \A c \in Creds :
       AtLimit(c) /\ count[c] > 0 /\ Holders(c) = {} => ttl[c] = "armed"

(* The same as progress: such a credential becomes bookable again. *)
GhostsExpire ==
    \A c \in Creds : AtLimit(c) /\ Holders(c) = {} ~> ~ AtLimit(c)

(* A lock left behind, by a process that died in _try_book or in the       *)
(* failure handler, does not keep its credential unbookable.               *)
LocksExpire == \A c \in Creds : lock[c] # None ~> lock[c] = None

(* Leases implement the abstract limit. *)
Slots == INSTANCE ConcurrencyLimit WITH users <- [c \in Creds |-> Holders(c)]
RefinesConcurrencyLimit == Slots!Spec
==============================================================================
