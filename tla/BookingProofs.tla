---------------------------- MODULE BookingProofs ----------------------------
(***************************************************************************)
(* Theorems about Booking, for any number of requests and credentials.     *)
(***************************************************************************)
EXTENDS Booking, TLAPS, FiniteSetTheorems

(* Where a request is while its local cred names a credential. *)
Engaged == Section \cup Holding \cup {"settle", "lockstate", "abandoned", "orphan"}

AtOK == \A r \in Requests : pc[r] \in Engaged => at[r] \in Creds

TypeInv == TypeOK /\ AtOK

(* The frame of every step a request takes: the other requests stay where  *)
(* they are.                                                               *)
OthersStay(r) ==
    \A s \in Requests \ {r} : pc'[s] = pc[s] /\ at'[s] = at[s]

LEMMA TypeInit == Init => TypeInv
  BY CredsAssumption, RequestsAssumption
  DEF Init, TypeInv, TypeOK, AtOK, Engaged, Section, Holding, TTLState, PC, Final

(* Leaving the upstream call preserves the types, whichever way it goes on. *)
LEMMA ReleaseTypes ==
  ASSUME TypeInv, NEW r \in Requests, pc[r] \in {"use", "stream", "settle"}, Release(r)
  PROVE  /\ lock' = lock
         /\ count' \in [Creds -> Nat]
         /\ ttl' \in [Creds -> TTLState]
  <1>1. \A n \in Nat : (IF n > 0 THEN n - 1 ELSE 0) \in Nat
    OBVIOUS
  <1> QED BY <1>1 DEF TypeInv, TypeOK, Release, DecrByNonnegative, TTLState

LEMMA NextAccountTypes ==
  ASSUME TypeInv, NEW r \in Requests, pc[r] \in {"use", "settle", "lockstate", "handling"},
         NextAccount(r)
  PROVE  /\ pc' \in [Requests -> PC]
         /\ at' \in [Requests -> Creds \cup {None}]
         /\ todo' \in [Requests -> SUBSET Creds]
         /\ tried' \in [Requests -> SUBSET Creds]
         /\ resume' \in [Requests -> {"done", "select"}]
         /\ AtOK'
  BY DEF TypeInv, TypeOK, AtOK, NextAccount, Goto, Engaged, Section, Holding, PC, Final

LEMMA EndTypes ==
  ASSUME TypeInv, NEW r \in Requests, NEW l \in {"done", "abandoned"}, End(r, l),
         l = "abandoned" => pc[r] \in Engaged
  PROVE  /\ pc' \in [Requests -> PC]
         /\ at' \in [Requests -> Creds \cup {None}]
         /\ todo' \in [Requests -> SUBSET Creds]
         /\ tried' \in [Requests -> SUBSET Creds]
         /\ resume' \in [Requests -> {"done", "select"}]
         /\ AtOK'
  BY DEF TypeInv, TypeOK, AtOK, End, Goto, Engaged, Section, Holding, PC, Final

LEMMA HandleTypes ==
  ASSUME TypeInv, NEW r \in Requests, pc[r] \in {"use", "stream", "settle"},
         NEW l \in {"done", "select"}, Handle(r, l)
  PROVE  /\ pc' \in [Requests -> PC]
         /\ at' \in [Requests -> Creds \cup {None}]
         /\ todo' \in [Requests -> SUBSET Creds]
         /\ tried' \in [Requests -> SUBSET Creds]
         /\ resume' \in [Requests -> {"done", "select"}]
         /\ AtOK'
  BY DEF TypeInv, TypeOK, AtOK, Handle, Goto, Engaged, Section, Holding, PC, Final

LEMMA BookTypes ==
  ASSUME TypeInv, NEW r \in Requests, Book(r)
  PROVE  TypeInv'
  <1> USE DEF TypeInv, TypeOK, AtOK, Goto, Engaged, Section, Holding, PC, Final,
              TTLState, redisVars, localVars
  <1>1. CASE Arrive(r)        BY <1>1 DEF Arrive
  <1>2. CASE Select(r)        BY <1>2 DEF Select
  <1>3. CASE RetriesSpent(r)  BY <1>3, EndTypes DEF RetriesSpent
  <1>4. CASE NoCandidate(r)   BY <1>4, EndTypes DEF NoCandidate
  <1>5. CASE TryLock(r)       BY <1>5 DEF TryLock, NextUp
  <1>6. CASE SkipLocked(r)    BY <1>6 DEF SkipLocked, NextUp
  <1>7. CASE ReadCounters(r)  BY <1>7 DEF ReadCounters
  <1>8. CASE IncrLease(r)     BY <1>8 DEF IncrLease
  <1>9. CASE ArmLease(r)      BY <1>9 DEF ArmLease
  <1>10. CASE UnlockBooked(r) BY <1>10 DEF UnlockBooked, CompareDelete
  <1>11. CASE UnlockRefused(r) BY <1>11 DEF UnlockRefused, CompareDelete
  <1> QED BY <1>1, <1>2, <1>3, <1>4, <1>5, <1>6, <1>7, <1>8, <1>9, <1>10, <1>11 DEF Book

LEMMA UseTypes ==
  ASSUME TypeInv, NEW r \in Requests, Use(r)
  PROVE  TypeInv'
  <1>1. CASE SetupRaises(r)
    BY <1>1, EndTypes DEF SetupRaises, TypeInv, TypeOK, redisVars, Engaged, Holding
  <1>2. CASE FailOver(r)
    BY <1>2, ReleaseTypes, NextAccountTypes DEF FailOver, TypeInv, TypeOK
  <1>3. CASE UpstreamError(r)
    BY <1>3, ReleaseTypes, HandleTypes DEF UpstreamError, TypeInv, TypeOK
  <1>4. CASE AnswersError(r)
    BY <1>4, ReleaseTypes, EndTypes DEF AnswersError, TypeInv, TypeOK
  <1>5. CASE Answered(r)
    <2>1. /\ lock' = lock
          /\ count' \in [Creds -> Nat]
          /\ ttl' \in [Creds -> TTLState]
      BY <1>5, ReleaseTypes DEF Answered
    <2> QED
      BY <1>5, <2>1 DEF Answered, Goto, TypeInv, TypeOK, AtOK, localVars, Engaged, Section,
         Holding, PC, Final
  <1>6. CASE Settle(r)
    BY <1>6, EndTypes DEF Settle, TypeInv, TypeOK, redisVars
  <1>7. CASE SettleRaises(r)
    BY <1>7, ReleaseTypes, EndTypes, NextAccountTypes, HandleTypes
    DEF SettleRaises, TypeInv, TypeOK
  <1>8. CASE StreamOpens(r)
    BY <1>8 DEF StreamOpens, Goto, TypeInv, TypeOK, AtOK, redisVars, localVars, Engaged,
       Section, Holding, PC, Final
  <1>9. CASE StreamEnds(r)
    BY <1>9, ReleaseTypes, EndTypes DEF StreamEnds, TypeInv, TypeOK
  <1>10. CASE StreamBreaks(r)
    BY <1>10, ReleaseTypes, HandleTypes DEF StreamBreaks, TypeInv, TypeOK
  <1>11. CASE StreamNeverRead(r)
    BY <1>11, EndTypes DEF StreamNeverRead, TypeInv, TypeOK, redisVars, Engaged, Holding
  <1> QED BY <1>1, <1>2, <1>3, <1>4, <1>5, <1>6, <1>7, <1>8, <1>9, <1>10, <1>11 DEF Use

LEMMA HandleFailureTypes ==
  ASSUME TypeInv, NEW r \in Requests, HandleFailure(r)
  PROVE  TypeInv'
  <1>1. CASE LockState(r)
    BY <1>1 DEF LockState, Goto, TypeInv, TypeOK, AtOK, localVars, Engaged, Section,
       Holding, PC, Final
  <1>2. CASE GiveUpState(r)
    BY <1>2, EndTypes, NextAccountTypes DEF GiveUpState, Resume, TypeInv, TypeOK, redisVars
  <1>3. CASE UnlockState(r)
    <2>1. /\ lock' \in [Creds -> Requests \cup {None}]
          /\ count' \in [Creds -> Nat]
          /\ ttl' \in [Creds -> TTLState]
      BY <1>3 DEF UnlockState, CompareDelete, TypeInv, TypeOK
    <2> QED
      BY <1>3, <2>1, EndTypes, NextAccountTypes DEF UnlockState, Resume, TypeInv, TypeOK
  <1> QED BY <1>1, <1>2, <1>3 DEF HandleFailure

LEMMA EnvironmentTypes == TypeInv /\ Environment => TypeInv'
  <1> SUFFICES ASSUME TypeInv, Environment PROVE TypeInv'
    OBVIOUS
  <1> USE DEF TypeInv, TypeOK, AtOK, TTLState, localVars
  <1>1. ASSUME NEW c \in Creds, LockTTL(c) PROVE TypeInv'
    BY <1>1 DEF LockTTL
  <1>2. ASSUME NEW c \in Creds, LeaseTTL(c) PROVE TypeInv'
    BY <1>2 DEF LeaseTTL
  <1>3. ASSUME NEW c \in Creds, WorkerReset(c) PROVE TypeInv'
    BY <1>3 DEF WorkerReset
  <1>4. CASE Crash
    BY <1>4 DEF Crash, redisVars, Engaged, Section, Holding, PC, Final
  <1> QED BY <1>1, <1>2, <1>3, <1>4 DEF Environment

LEMMA TypeStep == TypeInv /\ [Next]_vars => TypeInv'
  <1> SUFFICES ASSUME TypeInv, [Next]_vars PROVE TypeInv'
    OBVIOUS
  <1>1. CASE \E r \in Requests : Step(r)
    BY <1>1, BookTypes, UseTypes, HandleFailureTypes DEF Step
  <1>2. CASE Environment
    BY <1>2, EnvironmentTypes
  <1>3. CASE UNCHANGED vars
    BY <1>3 DEF vars, TypeInv, TypeOK, AtOK
  <1> QED BY <1>1, <1>2, <1>3 DEF Next

LEMMA TypeInvariant == Spec => []TypeInv
  BY TypeInit, TypeStep, PTL DEF Spec

(* The variables keep their types whatever fails or expires: in particular *)
(* a lease counter is never negative.                                      *)
THEOREM TypeCorrect == Spec => []TypeOK
  <1>1. TypeInv => TypeOK
    BY DEF TypeInv
  <1> QED BY <1>1, TypeInvariant, PTL

------------------------------------------------------------------------------
(* Locks are freed by their owners *)

OnlyOwnFreed(r) ==
    \A c \in Creds : lock[c] # None /\ lock'[c] # lock[c] => lock[c] = r

LEMMA StepFreesOwn ==
  ASSUME TypeInv, NEW r \in Requests, Step(r)
  PROVE  OnlyOwnFreed(r) /\ OthersStay(r)
  <1> USE DEF TypeInv, TypeOK, OnlyOwnFreed, OthersStay, Goto, redisVars, localVars
  <1>1. CASE Book(r)
    BY <1>1 DEF Book, Arrive, Select, RetriesSpent, NoCandidate, TryLock, SkipLocked,
       ReadCounters, IncrLease, ArmLease, UnlockBooked, UnlockRefused, CompareDelete, End
  <1>2. CASE Use(r)
    BY <1>2 DEF Use, SetupRaises, FailOver, UpstreamError, AnswersError, Answered, Settle,
       SettleRaises, StreamOpens, StreamEnds, StreamBreaks, StreamNeverRead, Release,
       NextAccount, Handle, End
  <1>3. CASE HandleFailure(r)
    BY <1>3 DEF HandleFailure, LockState, GiveUpState, UnlockState, Resume, CompareDelete,
       NextAccount, End
  <1> QED BY <1>1, <1>2, <1>3 DEF Step

(* compare_delete keeps its promise without any assumption on the TTLs: no *)
(* step of a request removes a lock that another request holds.            *)
THEOREM LocksFreedByOwners == Spec => LockFreedByOwner
  <1> DEFINE Freed ==
        \A c \in Creds, r \in Requests :
           pc'[r] # pc[r] /\ lock[c] # None /\ lock'[c] # lock[c] => lock[c] = r
  <1>1. TypeInv /\ [Next]_vars => [Freed]_vars
    <2> SUFFICES ASSUME TypeInv, Next PROVE Freed
      OBVIOUS
    <2>1. CASE \E r \in Requests : Step(r)
      BY <2>1, StepFreesOwn DEF OnlyOwnFreed, OthersStay
    <2>2. CASE Environment
      BY <2>2 DEF Environment, LockTTL, LeaseTTL, WorkerReset, Crash, redisVars
    <2> QED BY <2>1, <2>2 DEF Next
  <1> QED BY <1>1, TypeInvariant, PTL DEF Spec, LockFreedByOwner

------------------------------------------------------------------------------
(* The limit is kept *)

Guarantees ==
    LockOutlivesSection /\ LeaseOutlivesRequest /\ ResetsWhenIdle /\ NothingRaises

(* A request inside a section holds the lock of its credential; one that   *)
(* found room still has it when it increments; so the counter stays within *)
(* the limit, and it counts at least the requests that use the credential. *)
Locked  == \A r \in Requests : pc[r] \in Section => lock[at[r]] = r
Room    == \A r \in Requests : pc[r] = "incr" => ~ AtLimit(at[r])
Bounded == \A c \in Creds : Limit[c] # NoLimit => count[c] <= Limit[c]
Counted == \A c \in Creds : Cardinality(Holders(c)) <= count[c]

LimitInv == TypeInv /\ Locked /\ Room /\ Bounded /\ Counted

LEMMA LimitInit == Init => LimitInv
  <1> SUFFICES ASSUME Init PROVE LimitInv
    OBVIOUS
  <1>1. TypeInv
    BY TypeInit
  <1>2. \A c \in Creds : Holders(c) = {}
    BY DEF Init, Holders, Holding
  <1>3. Counted
    BY <1>2, FS_EmptySet DEF Counted, Init
  <1>4. Locked /\ Room
    BY DEF Init, Locked, Room, Section
  <1>5. Bounded
    BY CredsAssumption DEF Init, Bounded
  <1> QED BY <1>1, <1>3, <1>4, <1>5 DEF LimitInv

LEMMA HoldersFinite == \A c : IsFiniteSet(Holders(c)) /\ Cardinality(Holders(c)) \in Nat
  <1> TAKE c
  <1>1. Holders(c) \in SUBSET Requests
    BY DEF Holders
  <1>2. IsFiniteSet(Holders(c))
    BY <1>1, RequestsAssumption, FS_Subset
  <1> QED BY <1>2, FS_CardinalityType

(* A step after which no more requests hold a lease than before, the       *)
(* counter of every credential being what it was.                          *)
LEMMA CountsKept ==
  ASSUME TypeInv, Counted, Bounded, count' = count,
         \A c \in Creds : Holders(c)' \subseteq Holders(c)
  PROVE  Counted' /\ Bounded'
  <1>1. ASSUME NEW c \in Creds PROVE Cardinality(Holders(c)') <= count[c]
    <2>1. /\ Cardinality(Holders(c)') <= Cardinality(Holders(c))
          /\ IsFiniteSet(Holders(c)')
      BY HoldersFinite, FS_Subset
    <2>2. Cardinality(Holders(c)') \in Nat
      BY <2>1, FS_CardinalityType
    <2> QED BY <2>1, <2>2, HoldersFinite DEF Counted, TypeInv, TypeOK
  <1> QED BY <1>1 DEF Counted, Bounded

(* A holder that releases takes one off the counter and itself off the     *)
(* holders, so the inequality between the two survives.                    *)
LEMMA ReleaseCounts ==
  ASSUME TypeInv, Counted, Bounded, NEW r \in Requests,
         pc[r] \in Holding, Release(r), OthersStay(r), pc'[r] \notin Holding
  PROVE  /\ Counted' /\ Bounded'
         /\ \A c \in Creds : count'[c] <= count[c]
  <1>1. PICK d \in Creds : d = at[r]
    BY DEF TypeInv, AtOK, Engaged
  <1>2. Holders(d)' = Holders(d) \ {r} /\ r \in Holders(d)
    BY <1>1 DEF Holders, OthersStay
  <1>3. ASSUME NEW c \in Creds, c # d
        PROVE  Holders(c)' = Holders(c) /\ count'[c] = count[c]
    BY <1>1, <1>3 DEF Holders, OthersStay, Release, DecrByNonnegative, TypeInv, TypeOK
  <1>4. Cardinality(Holders(d)') = Cardinality(Holders(d)) - 1
    BY <1>2, HoldersFinite, FS_RemoveElement
  <1>5. count'[d] = IF count[d] > 0 THEN count[d] - 1 ELSE 0
    BY <1>1 DEF Release, DecrByNonnegative, TypeInv, TypeOK
  <1>6. count[d] \in Nat /\ Cardinality(Holders(d)) \in Nat
        /\ Cardinality(Holders(d)) <= count[d]
    BY HoldersFinite DEF Counted, TypeInv, TypeOK
  <1>7. Cardinality(Holders(d)') <= count'[d] /\ count'[d] <= count[d]
    BY <1>4, <1>5, <1>6
  <1>8. Counted'
    BY <1>3, <1>7 DEF Counted
  <1>9. \A c \in Creds : count'[c] <= count[c]
    BY <1>3, <1>7 DEF TypeInv, TypeOK
  <1>10. \A c \in Creds : count'[c] \in Nat
    BY <1>3, <1>5, <1>6 DEF TypeInv, TypeOK
  <1>11. Bounded'
    <2> SUFFICES ASSUME NEW c \in Creds, Limit[c] # NoLimit PROVE count'[c] <= Limit[c]
      BY DEF Bounded
    <2>1. Limit[c] \in Nat /\ count[c] \in Nat /\ count[c] <= Limit[c]
      BY CredsAssumption DEF Bounded, TypeInv, TypeOK
    <2> QED BY <2>1, <1>9, <1>10
  <1> QED BY <1>8, <1>9, <1>11

(* INCRBY, by a request that found room. *)
LEMMA IncrCounts ==
  ASSUME LimitInv, NEW r \in Requests, IncrLease(r)
  PROVE  Counted' /\ Bounded'
  <1>1. at[r] \in Creds /\ at' = at /\ pc[r] \notin Holding /\ pc'[r] = "arm" /\ OthersStay(r)
    BY DEF LimitInv, TypeInv, TypeOK, AtOK, Engaged, Section, IncrLease, Goto, localVars,
       Holding, OthersStay
  <1>2. Holders(at[r])' = Holders(at[r]) \cup {r} /\ r \notin Holders(at[r])
    BY <1>1 DEF Holders, OthersStay, Holding
  <1>3. ASSUME NEW c \in Creds, c # at[r]
        PROVE  Holders(c)' = Holders(c) /\ count'[c] = count[c]
    BY <1>1, <1>3 DEF Holders, OthersStay, IncrLease, LimitInv, TypeInv, TypeOK
  <1>4. Cardinality(Holders(at[r])') = Cardinality(Holders(at[r])) + 1
    BY <1>2, HoldersFinite, FS_AddElement
  <1>5. count'[at[r]] = count[at[r]] + 1
    BY <1>1 DEF IncrLease, LimitInv, TypeInv, TypeOK
  <1>6. count[at[r]] \in Nat /\ Cardinality(Holders(at[r])) \in Nat
        /\ Cardinality(Holders(at[r])) <= count[at[r]]
    BY <1>1, HoldersFinite DEF Counted, LimitInv, TypeInv, TypeOK
  <1>7. Counted'
    BY <1>1, <1>3, <1>4, <1>5, <1>6 DEF Counted, LimitInv
  <1>8. Bounded'
    <2> SUFFICES ASSUME NEW c \in Creds, Limit[c] # NoLimit PROVE count'[c] <= Limit[c]
      BY DEF Bounded
    <2>1. Limit[c] \in Nat /\ count[c] \in Nat /\ count[c] <= Limit[c]
      BY CredsAssumption DEF LimitInv, Bounded, TypeInv, TypeOK
    <2>2. c = at[r] => count[c] < Limit[c]
      BY <2>1 DEF LimitInv, Room, AtLimit, IncrLease
    <2> QED BY <2>1, <2>2, <1>3, <1>5
  <1> QED BY <1>7, <1>8

------------------------------------------------------------------------------
LEMMA LockedStep ==
  ASSUME TypeInv, Locked, NEW r \in Requests, Step(r)
  PROVE  Locked'
  <1>1. OnlyOwnFreed(r) /\ OthersStay(r)
    BY StepFreesOwn
  <1>2. pc'[r] \in Section => lock'[at'[r]] = r
    <2> USE DEF TypeInv, TypeOK, AtOK, Locked, Engaged, Section, Goto, redisVars, localVars
    <2>1. CASE Book(r)
      BY <2>1 DEF Book, Arrive, Select, RetriesSpent, NoCandidate, TryLock, SkipLocked,
         ReadCounters, IncrLease, ArmLease, UnlockBooked, UnlockRefused, End
    <2>2. CASE Use(r)
      BY <2>2 DEF Use, SetupRaises, FailOver, UpstreamError, AnswersError, Answered, Settle,
         SettleRaises, StreamOpens, StreamEnds, StreamBreaks, StreamNeverRead, NextAccount,
         Handle, End
    <2>3. CASE HandleFailure(r)
      BY <2>3 DEF HandleFailure, LockState, GiveUpState, UnlockState, Resume, NextAccount, End
    <2> QED BY <2>1, <2>2, <2>3 DEF Step
  <1>3. ASSUME NEW s \in Requests, s # r, pc'[s] \in Section PROVE lock'[at'[s]] = s
    <2>1. pc[s] \in Section /\ at'[s] = at[s] /\ at[s] \in Creds /\ lock[at[s]] = s
      BY <1>1, <1>3 DEF OthersStay, Locked, TypeInv, AtOK, Engaged
    <2>2. s # None
      BY RequestsAssumption
    <2> QED BY <1>1, <1>3, <2>1, <2>2 DEF OnlyOwnFreed
  <1> QED BY <1>2, <1>3 DEF Locked

(* Only INCRBY adds to a counter; the lock keeps it away from a request    *)
(* that is about to do the same on that credential.                        *)
LEMMA RoomStep ==
  ASSUME LimitInv, NEW r \in Requests, Step(r),
         \A c \in Creds : count'[c] <= count[c] \/ (IncrLease(r) /\ c = at[r]),
         count' \in [Creds -> Nat]
  PROVE  Room'
  <1>1. OthersStay(r)
    BY StepFreesOwn DEF LimitInv
  <1>2. pc'[r] = "incr" => ReadCounters(r)
    <2> USE DEF LimitInv, TypeInv, TypeOK, Goto, redisVars, localVars
    <2>1. CASE Book(r)
      BY <2>1 DEF Book, Arrive, Select, RetriesSpent, NoCandidate, TryLock, SkipLocked,
         IncrLease, ArmLease, UnlockBooked, UnlockRefused, End
    <2>2. CASE Use(r)
      BY <2>2 DEF Use, SetupRaises, FailOver, UpstreamError, AnswersError, Answered, Settle,
         SettleRaises, StreamOpens, StreamEnds, StreamBreaks, StreamNeverRead, NextAccount,
         Handle, End
    <2>3. CASE HandleFailure(r)
      BY <2>3 DEF HandleFailure, LockState, GiveUpState, UnlockState, Resume, NextAccount, End
    <2> QED BY <2>1, <2>2, <2>3 DEF Step
  <1>3. ReadCounters(r) /\ pc'[r] = "incr" => ~ AtLimit(at[r])'
    BY DEF ReadCounters, Goto, AtLimit, redisVars, localVars, LimitInv, TypeInv, TypeOK
  <1>4. ReadCounters(r) => at' = at
    BY DEF ReadCounters, localVars
  <1>5. ASSUME NEW s \in Requests, s # r, pc'[s] = "incr" PROVE ~ AtLimit(at[s])'
    <2>1. pc[s] = "incr" /\ at[s] \in Creds /\ ~ AtLimit(at[s]) /\ lock[at[s]] = s
      BY <1>1, <1>5 DEF OthersStay, LimitInv, TypeInv, AtOK, Room, Locked, Engaged, Section
    <2>2. IncrLease(r) => at[r] # at[s]
      BY <1>5, <2>1 DEF IncrLease, LimitInv, Locked, Section
    <2>3. count'[at[s]] <= count[at[s]]
      BY <2>1, <2>2
    <2>4. Limit[at[s]] # NoLimit => Limit[at[s]] \in Nat
      BY <2>1, CredsAssumption
    <2>5. count[at[s]] \in Nat /\ count'[at[s]] \in Nat
      BY <2>1 DEF LimitInv, TypeInv, TypeOK
    <2>6. CASE Limit[at[s]] = NoLimit
      BY <1>1, <1>5, <2>6 DEF AtLimit, OthersStay
    <2>7. CASE Limit[at[s]] # NoLimit
      BY <1>1, <1>5, <2>1, <2>3, <2>4, <2>5, <2>7 DEF AtLimit, OthersStay
    <2> QED BY <2>6, <2>7
  <1> QED BY <1>1, <1>2, <1>3, <1>4, <1>5 DEF Room, OthersStay

LEMMA HoldersShrink ==
  ASSUME NEW r \in Requests, OthersStay(r),
         pc'[r] \in Holding => pc[r] \in Holding /\ at'[r] = at[r]
  PROVE  \A c \in Creds : Holders(c)' \subseteq Holders(c)
  BY DEF Holders, OthersStay

(* What a step of a request does to the counters, when nothing raises. *)
LEMMA CountStep ==
  ASSUME LimitInv, NothingRaises, NEW r \in Requests, Step(r)
  PROVE  /\ Counted' /\ Bounded'
         /\ \A c \in Creds : count'[c] <= count[c] \/ (IncrLease(r) /\ c = at[r])
  <1> DEFINE Quiet ==
        count' = count /\ (pc'[r] \in Holding => pc[r] \in Holding /\ at'[r] = at[r])
  <1> DEFINE Releases == pc[r] \in Holding /\ Release(r) /\ pc'[r] \notin Holding
  <1>1. OthersStay(r)
    BY StepFreesOwn DEF LimitInv
  <1>2. Quiet \/ Releases \/ IncrLease(r)
    <2> USE DEF LimitInv, TypeInv, TypeOK, Goto, redisVars, localVars, Holding
    <2>1. CASE Book(r)
      BY <2>1 DEF Book, Arrive, Select, RetriesSpent, NoCandidate, TryLock, SkipLocked,
         ReadCounters, ArmLease, UnlockBooked, UnlockRefused, End
    <2>2. CASE Use(r)
      BY <2>2, NothingRaises DEF Use, SetupRaises, FailOver, UpstreamError, AnswersError,
         Answered, Settle, SettleRaises, StreamOpens, StreamEnds, StreamBreaks,
         StreamNeverRead, NextAccount, Handle, End
    <2>3. CASE HandleFailure(r)
      BY <2>3 DEF HandleFailure, LockState, GiveUpState, UnlockState, Resume, NextAccount, End
    <2> QED BY <2>1, <2>2, <2>3 DEF Step
  <1>3. CASE Quiet
    <2>1. \A c \in Creds : count'[c] <= count[c]
      BY <1>3 DEF LimitInv, TypeInv, TypeOK
    <2> QED BY <1>1, <1>3, <2>1, HoldersShrink, CountsKept DEF LimitInv
  <1>4. CASE Releases
    BY <1>1, <1>4, ReleaseCounts DEF LimitInv
  <1>5. CASE IncrLease(r)
    <2>1. \A c \in Creds : count'[c] <= count[c] \/ c = at[r]
      BY <1>5 DEF IncrLease, LimitInv, TypeInv, TypeOK
    <2> QED BY <1>5, <2>1, IncrCounts
  <1> QED BY <1>2, <1>3, <1>4, <1>5

LEMMA EnvironmentLimit ==
  ASSUME LimitInv, Guarantees, Environment, TypeInv'
  PROVE  LimitInv'
  <1>1. ASSUME NEW c \in Creds, LockTTL(c) PROVE LimitInv'
    <2>1. ASSUME NEW s \in Requests, pc[s] \in Section PROVE lock'[at[s]] = s
      <3>1. at[s] \in Creds /\ lock[at[s]] = s
        BY <2>1 DEF LimitInv, TypeInv, AtOK, Engaged, Locked
      <3>2. at[s] # c
        BY <1>1, <2>1, <3>1 DEF LockTTL, Guarantees, Inside
      <3> QED BY <1>1, <3>1, <3>2 DEF LockTTL, LimitInv, TypeInv, TypeOK
    <2>2. pc' = pc /\ at' = at /\ count' = count
      BY <1>1 DEF LockTTL, localVars
    <2>3. Locked'
      BY <2>1, <2>2 DEF Locked
    <2>4. Room' /\ Bounded' /\ Counted'
      BY <2>2 DEF LimitInv, Room, Bounded, Counted, AtLimit, Holders
    <2> QED BY <2>3, <2>4 DEF LimitInv
  <1>2. ASSUME NEW c \in Creds, LeaseTTL(c) \/ WorkerReset(c) PROVE LimitInv'
    <2>1. /\ Holders(c) = {} /\ pc' = pc /\ at' = at /\ lock' = lock
          /\ count' = [count EXCEPT ![c] = 0]
      BY <1>2 DEF LeaseTTL, WorkerReset, localVars, Guarantees
    <2>2. \A d \in Creds : count'[d] \in Nat /\ count[d] \in Nat /\ count'[d] <= count[d]
      BY <2>1 DEF LimitInv, TypeInv, TypeOK
    <2>3. \A d \in Creds : Limit[d] # NoLimit => Limit[d] \in Nat
      BY CredsAssumption
    <2>4. Locked'
      BY <2>1 DEF LimitInv, Locked
    <2>5. Bounded'
      BY <2>2, <2>3 DEF LimitInv, Bounded
    <2>6. Room'
      BY <2>1, <2>2, <2>3 DEF LimitInv, Room, AtLimit, TypeInv, AtOK, Engaged, Section
    <2>7. \A d \in Creds : Holders(d)' = Holders(d)
      BY <2>1 DEF Holders
    <2>8. \A d \in Creds \ {c} : count'[d] = count[d]
      BY <2>1 DEF LimitInv, TypeInv, TypeOK
    <2>9. Cardinality(Holders(c)) <= count'[c]
      BY <2>1, <2>2, FS_EmptySet DEF LimitInv, TypeInv, TypeOK
    <2>10. Counted'
      BY <2>7, <2>8, <2>9 DEF LimitInv, Counted
    <2> QED BY <2>4, <2>5, <2>6, <2>10 DEF LimitInv
  <1>3. CASE Crash
    <2>1. /\ count' = count
          /\ \A s \in Requests : pc'[s] \notin Section \cup Holding
      BY <1>3 DEF Crash, redisVars, Section, Holding, Final, LimitInv, TypeInv, TypeOK
    <2>2. \A c \in Creds : Holders(c)' \subseteq Holders(c)
      BY <2>1 DEF Holders
    <2>3. Counted' /\ Bounded'
      BY <2>1, <2>2, CountsKept DEF LimitInv
    <2>4. Locked' /\ Room'
      BY <2>1 DEF Locked, Room, Section
    <2> QED BY <2>3, <2>4 DEF LimitInv
  <1> QED BY <1>1, <1>2, <1>3 DEF Environment

LEMMA LimitStep == Guarantees /\ LimitInv /\ [Next]_vars => LimitInv'
  <1> SUFFICES ASSUME Guarantees, LimitInv, [Next]_vars PROVE LimitInv'
    OBVIOUS
  <1>1. TypeInv'
    BY TypeStep DEF LimitInv
  <1>2. ASSUME NEW r \in Requests, Step(r) PROVE LimitInv'
    <2>1. Counted' /\ Bounded'
          /\ \A c \in Creds : count'[c] <= count[c] \/ (IncrLease(r) /\ c = at[r])
      BY <1>2, CountStep DEF Guarantees
    <2>2. Locked'
      BY <1>2, LockedStep DEF LimitInv
    <2>3. Room'
      BY <1>1, <1>2, <2>1, RoomStep DEF TypeInv, TypeOK
    <2> QED BY <1>1, <2>1, <2>2, <2>3 DEF LimitInv
  <1>3. CASE Environment
    BY <1>1, <1>3, EnvironmentLimit
  <1>4. CASE UNCHANGED vars
    BY <1>1, <1>4 DEF vars, LimitInv, Locked, Room, Bounded, Counted, AtLimit, Holders
  <1> QED BY <1>2, <1>3, <1>4 DEF Next

LEMMA LimitInvariant == ASSUME Guarantees PROVE Spec => []LimitInv
  <1>1. Guarantees
    OBVIOUS
  <1>2. LimitInv /\ [Next]_vars => LimitInv'
    BY <1>1, LimitStep
  <1> QED BY LimitInit, <1>2, PTL DEF Spec

(* concurrency_limit is never exceeded, across failovers, streams nobody   *)
(* reads and crashes of the process, as long as no TTL fires on a live     *)
(* section or lease, quota resets find the credential idle and the writes  *)
(* that follow a release succeed.                                          *)
THEOREM LimitKept == Guarantees => (Spec => []WithinLimit)
  <1> SUFFICES ASSUME Guarantees PROVE Spec => []WithinLimit
    OBVIOUS
  <1>1. LimitInv => WithinLimit
    <2> SUFFICES ASSUME LimitInv, NEW c \in Creds, Limit[c] # NoLimit
                 PROVE  Cardinality(Holders(c)) <= Limit[c]
      BY DEF WithinLimit
    <2>1. Limit[c] \in Nat /\ count[c] \in Nat /\ count[c] <= Limit[c]
      BY CredsAssumption DEF LimitInv, Bounded, TypeInv, TypeOK
    <2>2. Cardinality(Holders(c)) <= count[c] /\ Cardinality(Holders(c)) \in Nat
      BY HoldersFinite DEF LimitInv, Counted
    <2> QED BY <2>1, <2>2
  <1> QED BY <1>1, LimitInvariant, PTL

(* Booking on a credential and the failure handler's writes to it exclude  *)
(* each other: both hold the one lock key of the credential.               *)
THEOREM SectionsAreExclusive == Guarantees => (Spec => []SectionsExclusive)
  <1> SUFFICES ASSUME Guarantees PROVE Spec => []SectionsExclusive
    OBVIOUS
  <1>1. LimitInv => SectionsExclusive
    BY DEF LimitInv, Locked, SectionsExclusive, Inside
  <1> QED BY <1>1, LimitInvariant, PTL

------------------------------------------------------------------------------
(* Booking implements ConcurrencyLimit *)

Users == [c \in Creds |-> Holders(c)]

(* Who holds a lease changes by one request at a time. *)
LEMMA StepTakesOrGives ==
  ASSUME LimitInv, Guarantees, NEW r \in Requests, Step(r)
  PROVE  [Slots!Next]_Users
  <1>1. OthersStay(r)
    BY StepFreesOwn DEF LimitInv
  <1>2. \/ pc'[r] \in Holding /\ pc[r] \in Holding /\ at'[r] = at[r]
        \/ pc'[r] \notin Holding
        \/ IncrLease(r)
    <2> USE DEF LimitInv, TypeInv, TypeOK, Goto, redisVars, localVars, Holding
    <2>1. CASE Book(r)
      BY <2>1 DEF Book, Arrive, Select, RetriesSpent, NoCandidate, TryLock, SkipLocked,
         ReadCounters, ArmLease, UnlockBooked, UnlockRefused, End
    <2>2. CASE Use(r)
      BY <2>2 DEF Use, SetupRaises, FailOver, UpstreamError, AnswersError,
         Answered, Settle, SettleRaises, StreamOpens, StreamEnds, StreamBreaks,
         StreamNeverRead, NextAccount, Handle, End
    <2>3. CASE HandleFailure(r)
      BY <2>3 DEF HandleFailure, LockState, GiveUpState, UnlockState, Resume, NextAccount, End
    <2> QED BY <2>1, <2>2, <2>3 DEF Step
  <1>3. CASE pc'[r] \in Holding /\ pc[r] \in Holding /\ at'[r] = at[r]
    <2>1. \A c \in Creds : Holders(c)' = Holders(c)
      BY <1>1, <1>3 DEF Holders, OthersStay
    <2> QED BY <2>1 DEF Users
  <1>4. CASE pc'[r] \notin Holding
    <2>1. \A c \in Creds : Holders(c)' = Holders(c) \ {r}
      BY <1>1, <1>4 DEF Holders, OthersStay
    <2>2. CASE \A c \in Creds : r \notin Holders(c)
      <3>1. \A c \in Creds : Holders(c)' = Holders(c)
        BY <2>1, <2>2
      <3> QED BY <3>1 DEF Users
    <2>3. ASSUME NEW c \in Creds, r \in Holders(c) PROVE Slots!Give(r, c)
      <3>1. \A d \in Creds \ {c} : Holders(d)' = Holders(d)
        BY <2>1, <2>3 DEF Holders
      <3>2. Users' = [Users EXCEPT ![c] = @ \ {r}]
        BY <2>1, <3>1 DEF Users
      <3> QED BY <2>3, <3>2 DEF Slots!Give, Users
    <2> QED BY <2>2, <2>3 DEF Slots!Next
  <1>5. CASE IncrLease(r)
    <2>1. PICK c \in Creds : c = at[r]
      BY <1>5 DEF IncrLease, LimitInv, TypeInv, AtOK, Engaged, Section
    <2>2. pc[r] = "incr" /\ pc'[r] = "arm" /\ at' = at
      BY <1>5 DEF IncrLease, Goto, localVars, LimitInv, TypeInv, TypeOK
    <2>3. Holders(c)' = Holders(c) \cup {r} /\ \A d \in Creds \ {c} : Holders(d)' = Holders(d)
      BY <1>1, <2>1, <2>2 DEF Holders, OthersStay, Holding
    <2>4. \A d \in Creds : r \notin Holders(d)
      BY <2>2 DEF Holders, Holding
    <2>5. Limit[c] # NoLimit => Cardinality(Holders(c)) < Limit[c]
      <3> SUFFICES ASSUME Limit[c] # NoLimit PROVE Cardinality(Holders(c)) < Limit[c]
        OBVIOUS
      <3>1. Limit[c] \in Nat /\ count[c] \in Nat /\ ~ (count[c] >= Limit[c])
        BY <2>1, <2>2, CredsAssumption DEF LimitInv, Room, AtLimit, TypeInv, TypeOK
      <3>2. Cardinality(Holders(c)) <= count[c] /\ Cardinality(Holders(c)) \in Nat
        BY HoldersFinite DEF LimitInv, Counted
      <3> QED BY <3>1, <3>2
    <2>6. Users' = [Users EXCEPT ![c] = @ \cup {r}]
      BY <2>3 DEF Users
    <2>7. \A d \in Creds : Users[d] = Holders(d)
      BY DEF Users
    <2>8. Slots!HasSlot(c)
      <3>1. Slots!Cardinality(Holders(c)) = Cardinality(Holders(c))
        BY DEF Slots!Cardinality, Cardinality
      <3> QED BY <2>5, <2>7, <3>1 DEF Slots!HasSlot, Users
    <2>9. \A d \in Creds : r \notin Users[d]
      BY <2>4, <2>7
    <2>10. Slots!Take(r, c)
      BY <2>6, <2>8, <2>9 DEF Slots!Take, Users
    <2> QED BY <2>10 DEF Slots!Next
  <1> QED BY <1>2, <1>3, <1>4, <1>5

(* Leases are slots: a request takes one when its INCRBY is done, below    *)
(* the limit, and gives it back with its release; a crash clears them.     *)
THEOREM BookingImplementsLimit == Guarantees => (Spec => RefinesConcurrencyLimit)
  <1> SUFFICES ASSUME Guarantees PROVE Spec => Slots!Spec
    BY DEF RefinesConcurrencyLimit
  <1>1. Init => Slots!Init
    BY DEF Init, Slots!Init, Holders, Holding
  <1>2. LimitInv /\ [Next]_vars => [Slots!Next]_Users
    <2> SUFFICES ASSUME LimitInv, [Next]_vars PROVE [Slots!Next]_Users
      OBVIOUS
    <2>1. ASSUME NEW r \in Requests, Step(r) PROVE [Slots!Next]_Users
      BY <2>1, StepTakesOrGives
    <2>2. ASSUME NEW c \in Creds, LockTTL(c) \/ LeaseTTL(c) \/ WorkerReset(c)
          PROVE  Users' = Users
      BY <2>2 DEF LockTTL, LeaseTTL, WorkerReset, localVars, Users, Holders
    <2>3. CASE Crash
      <3>1. \A c \in Creds : Holders(c)' = {}
        BY <2>3 DEF Crash, Holders, Holding, Final, LimitInv, TypeInv, TypeOK
      <3> QED BY <3>1 DEF Slots!Next, Slots!Clear, Users
    <2>4. CASE UNCHANGED vars
      BY <2>4 DEF vars, Users, Holders
    <2> QED BY <2>1, <2>2, <2>3, <2>4 DEF Next, Environment
  <1>3. [Slots!Next]_Users => [Slots!Next]_[c \in Creds |-> Holders(c)]
    BY DEF Users
  <1> QED BY <1>1, <1>2, <1>3, LimitInvariant, PTL DEF Spec, Slots!Spec

------------------------------------------------------------------------------
(* No credential is bricked *)

(* A counter that is being armed exists, and a full one is armed or about  *)
(* to be.                                                                  *)
ArmExists == \A r \in Requests : pc[r] = "arm" => ttl[at[r]] # "absent"
FullArmed ==
    \A c \in Creds : AtLimit(c) /\ count[c] > 0 =>
       ttl[c] = "armed" \/ \E r \in Requests : at[r] = c /\ pc[r] = "arm"

ArmInv == ArmExists /\ FullArmed

LEMMA ArmInit == Init => ArmInv
  BY DEF Init, ArmInv, ArmExists, FullArmed, AtLimit

LEMMA ArmStep ==
  ASSUME Guarantees, LimitInv, ArmInv, NEW r \in Requests, Step(r)
  PROVE  ArmInv'
  <1>1. OthersStay(r)
    BY StepFreesOwn DEF LimitInv
  <1> DEFINE Same    == count' = count /\ ttl' = ttl /\ pc[r] # "arm" /\ pc'[r] # "arm"
  <1> DEFINE Leaves  == pc[r] \in Holding \ {"arm"} /\ Release(r) /\ pc'[r] # "arm"
  <1>2. Same \/ Leaves \/ IncrLease(r) \/ ArmLease(r)
    <2> USE DEF LimitInv, TypeInv, TypeOK, Goto, redisVars, localVars, Holding
    <2>1. CASE Book(r)
      BY <2>1 DEF Book, Arrive, Select, RetriesSpent, NoCandidate, TryLock, SkipLocked,
         ReadCounters, UnlockBooked, UnlockRefused, End
    <2>2. CASE Use(r)
      BY <2>2 DEF Use, SetupRaises, FailOver, UpstreamError, AnswersError, Guarantees,
         Answered, Settle, SettleRaises, StreamOpens, StreamEnds, StreamBreaks,
         StreamNeverRead, NextAccount, Handle, End
    <2>3. CASE HandleFailure(r)
      BY <2>3 DEF HandleFailure, LockState, GiveUpState, UnlockState, Resume, NextAccount, End
    <2> QED BY <2>1, <2>2, <2>3 DEF Step
  <1>3. CASE Same
    <2>1. ArmExists'
      BY <1>1, <1>3 DEF ArmInv, ArmExists, OthersStay
    <2>2. ASSUME NEW c \in Creds, AtLimit(c)', count'[c] > 0
          PROVE  ttl'[c] = "armed" \/ \E s \in Requests : at'[s] = c /\ pc'[s] = "arm"
      <3>1. ttl[c] = "armed" \/ \E s \in Requests : at[s] = c /\ pc[s] = "arm"
        BY <1>3, <2>2 DEF ArmInv, FullArmed, AtLimit
      <3> QED BY <1>1, <1>3, <3>1 DEF OthersStay
    <2> QED BY <2>1, <2>2 DEF ArmInv, FullArmed
  <1>4. CASE Leaves
    <2>1. PICK d \in Creds : d = at[r]
      BY <1>4 DEF LimitInv, TypeInv, AtOK, Engaged
    <2>2. /\ ttl' = [ttl EXCEPT ![d] = "none"]
          /\ count'[d] = IF count[d] > 0 THEN count[d] - 1 ELSE 0
          /\ \A c \in Creds \ {d} : count'[c] = count[c] /\ ttl'[c] = ttl[c]
          /\ count[d] \in Nat /\ ttl'[d] = "none"
      BY <1>4, <2>1 DEF Release, DecrByNonnegative, LimitInv, TypeInv, TypeOK
    <2>3. ArmExists'
      BY <1>1, <1>4, <2>2 DEF ArmInv, ArmExists, OthersStay, LimitInv, TypeInv, AtOK, Engaged, Section
    <2>4. ~ (AtLimit(d)' /\ count'[d] > 0)
      <3>1. Limit[d] # NoLimit => Limit[d] \in Nat /\ count[d] <= Limit[d]
        BY CredsAssumption DEF LimitInv, Bounded
      <3> QED BY <2>2, <3>1 DEF AtLimit
    <2>5. ASSUME NEW c \in Creds, AtLimit(c)', count'[c] > 0
          PROVE  ttl'[c] = "armed" \/ \E s \in Requests : at'[s] = c /\ pc'[s] = "arm"
      <3>1. c # d
        BY <2>4, <2>5
      <3>2. ttl[c] = "armed" \/ \E s \in Requests : at[s] = c /\ pc[s] = "arm"
        BY <2>2, <2>5, <3>1 DEF ArmInv, FullArmed, AtLimit
      <3> QED BY <1>1, <1>4, <2>1, <2>2, <3>1, <3>2 DEF OthersStay
    <2> QED BY <2>3, <2>5 DEF ArmInv, FullArmed
  <1>5. CASE IncrLease(r)
    <2>1. PICK d \in Creds : d = at[r]
      BY <1>5 DEF IncrLease, LimitInv, TypeInv, AtOK, Engaged, Section
    <2>2. /\ pc[r] = "incr" /\ pc'[r] = "arm" /\ at' = at
          /\ ttl'[d] # "absent"
          /\ \A c \in Creds \ {d} : count'[c] = count[c] /\ ttl'[c] = ttl[c]
      BY <1>5, <2>1 DEF IncrLease, Goto, localVars, LimitInv, TypeInv, TypeOK
    <2>3. ArmExists'
      BY <1>1, <2>1, <2>2 DEF ArmInv, ArmExists, OthersStay, LimitInv, TypeInv, AtOK, Engaged, Section
    <2>4. ASSUME NEW c \in Creds, AtLimit(c)', count'[c] > 0
          PROVE  ttl'[c] = "armed" \/ \E s \in Requests : at'[s] = c /\ pc'[s] = "arm"
      <3>1. CASE c = d
        BY <2>1, <2>2, <3>1
      <3>2. CASE c # d
        <4>1. ttl[c] = "armed" \/ \E s \in Requests : at[s] = c /\ pc[s] = "arm"
          BY <2>2, <2>4, <3>2 DEF ArmInv, FullArmed, AtLimit
        <4> QED BY <1>1, <2>2, <3>2, <4>1 DEF OthersStay
      <3> QED BY <3>1, <3>2
    <2> QED BY <2>3, <2>4 DEF ArmInv, FullArmed
  <1>6. CASE ArmLease(r)
    <2>1. PICK d \in Creds : d = at[r]
      BY <1>6 DEF ArmLease, LimitInv, TypeInv, AtOK, Engaged, Section
    <2>2. /\ pc[r] = "arm" /\ pc'[r] = "booked" /\ at' = at /\ count' = count
          /\ ttl'[d] = "armed"
          /\ \A c \in Creds \ {d} : ttl'[c] = ttl[c]
      BY <1>6, <2>1 DEF ArmLease, Goto, localVars, LimitInv, TypeInv, TypeOK, ArmInv, ArmExists
    <2>3. ArmExists'
      BY <1>1, <2>1, <2>2 DEF ArmInv, ArmExists, OthersStay, LimitInv, TypeInv, AtOK, Engaged, Section
    <2>4. ASSUME NEW c \in Creds, AtLimit(c)', count'[c] > 0
          PROVE  ttl'[c] = "armed" \/ \E s \in Requests : at'[s] = c /\ pc'[s] = "arm"
      <3>1. CASE c = d
        BY <2>2, <3>1
      <3>2. CASE c # d
        <4>1. ttl[c] = "armed" \/ \E s \in Requests : at[s] = c /\ pc[s] = "arm"
          BY <2>2, <2>4 DEF ArmInv, FullArmed, AtLimit
        <4> QED BY <1>1, <2>1, <2>2, <3>2, <4>1 DEF OthersStay
      <3> QED BY <3>1, <3>2
    <2> QED BY <2>3, <2>4 DEF ArmInv, FullArmed
  <1> QED BY <1>2, <1>3, <1>4, <1>5, <1>6

LEMMA ArmEnvironment ==
  ASSUME Guarantees, CrashesBetweenSteps, LimitInv, ArmInv, Environment
  PROVE  ArmInv'
  <1>1. ASSUME NEW c \in Creds, LockTTL(c) PROVE ArmInv'
    BY <1>1 DEF LockTTL, localVars, ArmInv, ArmExists, FullArmed, AtLimit
  <1>2. ASSUME NEW c \in Creds, LeaseTTL(c) \/ WorkerReset(c) PROVE ArmInv'
    <2>1. /\ Holders(c) = {} /\ pc' = pc /\ at' = at /\ count'[c] = 0
          /\ \A d \in Creds \ {c} : count'[d] = count[d] /\ ttl'[d] = ttl[d]
      BY <1>2 DEF LeaseTTL, WorkerReset, localVars, Guarantees, LimitInv, TypeInv, TypeOK
    <2>2. ArmExists'
      BY <2>1 DEF ArmInv, ArmExists, Holders, Holding, LimitInv, TypeInv, AtOK, Engaged, Section
    <2>3. FullArmed'
      BY <2>1 DEF ArmInv, FullArmed, AtLimit
    <2> QED BY <2>2, <2>3 DEF ArmInv
  <1>3. CASE Crash
    <2>1. /\ count' = count /\ ttl' = ttl
          /\ \A s \in Requests : pc[s] # "arm" /\ pc'[s] # "arm"
      BY <1>3 DEF Crash, redisVars, Final, LimitInv, TypeInv, TypeOK
    <2> QED BY <2>1 DEF ArmInv, ArmExists, FullArmed, AtLimit
  <1> QED BY <1>1, <1>2, <1>3 DEF Environment

(* A credential that is full although nobody uses it will be freed by its  *)
(* TTL: the EXPIRE of the last booking is never undone by a release that   *)
(* leaves the counter full.  A crash between INCRBY and EXPIRE would.      *)
THEOREM CredentialsNeverBricked ==
  Guarantees /\ CrashesBetweenSteps => (Spec => []NeverBricked)
  <1> SUFFICES ASSUME Guarantees, CrashesBetweenSteps PROVE Spec => []NeverBricked
    OBVIOUS
  <1>1. LimitInv /\ ArmInv /\ [Next]_vars => ArmInv'
    <2> SUFFICES ASSUME LimitInv, ArmInv, [Next]_vars PROVE ArmInv'
      OBVIOUS
    <2>1. CASE UNCHANGED vars
      BY <2>1 DEF vars, ArmInv, ArmExists, FullArmed, AtLimit
    <2> QED BY <2>1, ArmStep, ArmEnvironment DEF Next
  <1>2. ArmInv => NeverBricked
    BY DEF ArmInv, FullArmed, NeverBricked, Holders, Holding
  <1> QED BY <1>1, <1>2, ArmInit, LimitInvariant, PTL DEF Spec
------------------------------------------------------------------------------
(* Every lease is accounted for *)

(* The leases on a credential, held or lost. *)
Leases(c) == {r \in Requests : at[r] = c /\ pc[r] \in Holding \cup {"abandoned", "orphan"}}

Accounted == \A c \in Creds : count[c] <= Cardinality(Leases(c))

LEMMA LeasesFinite == \A c : IsFiniteSet(Leases(c)) /\ Cardinality(Leases(c)) \in Nat
  <1> TAKE c
  <1>1. Leases(c) \in SUBSET Requests
    BY DEF Leases
  <1>2. IsFiniteSet(Leases(c))
    BY <1>1, RequestsAssumption, FS_Subset
  <1> QED BY <1>2, FS_CardinalityType

(* No request is held and lost at once, so the two kinds add up. *)
LEMMA LeasesSplit ==
  \A c : Cardinality(Leases(c)) = Cardinality(Holders(c)) + Cardinality(Ghosts(c))
  <1> TAKE c
  <1>1. IsFiniteSet(Holders(c)) /\ Cardinality(Holders(c)) \in Nat
    BY HoldersFinite
  <1>2. Ghosts(c) \in SUBSET Leases(c)
    BY DEF Ghosts, Leases
  <1>3. IsFiniteSet(Ghosts(c))
    BY <1>2, LeasesFinite, FS_Subset
  <1>4. Cardinality(Ghosts(c)) \in Nat
    BY <1>3, FS_CardinalityType
  <1>5. Leases(c) = Holders(c) \cup Ghosts(c) /\ Holders(c) \cap Ghosts(c) = {}
    BY DEF Leases, Holders, Ghosts, Holding
  <1>6. Cardinality(Holders(c) \cup Ghosts(c))
           = Cardinality(Holders(c)) + Cardinality(Ghosts(c)) - Cardinality({})
    BY <1>1, <1>3, <1>5, FS_Union
  <1>7. Cardinality({}) = 0
    BY FS_EmptySet
  <1> QED BY <1>1, <1>4, <1>5, <1>6, <1>7

(* A step that loses no lease and raises no counter. *)
LEMMA LeasesKept ==
  ASSUME TypeInv, TypeInv', Accounted,
         \A c \in Creds : count'[c] <= count[c] /\ Leases(c) \subseteq Leases(c)'
  PROVE  Accounted'
  <1> SUFFICES ASSUME NEW c \in Creds PROVE count'[c] <= Cardinality(Leases(c)')
    BY DEF Accounted
  <1>1. IsFiniteSet(Leases(c)')
    <2>1. Leases(c)' \in SUBSET Requests
      BY DEF Leases
    <2> QED BY <2>1, RequestsAssumption, FS_Subset
  <1>2. Cardinality(Leases(c)) <= Cardinality(Leases(c)') /\ Cardinality(Leases(c)') \in Nat
    BY <1>1, FS_Subset, FS_CardinalityType
  <1>3. count[c] <= Cardinality(Leases(c)) /\ count'[c] <= count[c]
        /\ count[c] \in Nat /\ count'[c] \in Nat
    BY DEF Accounted, TypeInv, TypeOK
  <1> QED BY <1>2, <1>3, LeasesFinite

(* A release, by a request that holds a lease or has just given it back:   *)
(* one off the counter, at most one lease less.                            *)
LEMMA LeaseReleased ==
  ASSUME TypeInv, TypeInv', Accounted, NEW r \in Requests, OthersStay(r),
         pc[r] \in {"use", "stream", "settle"}, Release(r)
  PROVE  Accounted'
  <1>1. PICK d \in Creds : d = at[r]
    BY DEF TypeInv, AtOK, Engaged, Holding
  <1>2. count'[d] = IF count[d] > 0 THEN count[d] - 1 ELSE 0
    BY <1>1 DEF Release, DecrByNonnegative, TypeInv, TypeOK
  <1>3. ASSUME NEW c \in Creds \ {d} PROVE count'[c] <= Cardinality(Leases(c)')
    <2>1. count'[c] = count[c] /\ count[c] \in Nat /\ count[c] <= Cardinality(Leases(c))
      BY <1>1, <1>3 DEF Release, DecrByNonnegative, TypeInv, TypeOK, Accounted
    <2>2. Leases(c) \subseteq Leases(c)' /\ Leases(c)' \in SUBSET Requests
      BY <1>1, <1>3 DEF Leases, OthersStay
    <2>3. IsFiniteSet(Leases(c)')
      BY <2>2, RequestsAssumption, FS_Subset
    <2>4. Cardinality(Leases(c)) <= Cardinality(Leases(c)') /\ Cardinality(Leases(c)') \in Nat
      BY <2>2, <2>3, FS_Subset, FS_CardinalityType
    <2> QED BY <2>1, <2>4, LeasesFinite
  <1>4. count'[d] <= Cardinality(Leases(d)')
    <2>1. Leases(d) \ {r} \subseteq Leases(d)' /\ Leases(d)' \in SUBSET Requests
      BY DEF Leases, OthersStay
    <2>2. IsFiniteSet(Leases(d)')
      BY <2>1, RequestsAssumption, FS_Subset
    <2>3. Cardinality(Leases(d) \ {r}) <= Cardinality(Leases(d)')
          /\ Cardinality(Leases(d)') \in Nat
      BY <2>1, <2>2, FS_Subset, FS_CardinalityType
    <2>4. Cardinality(Leases(d) \ {r}) \in {Cardinality(Leases(d)), Cardinality(Leases(d)) - 1}
      BY LeasesFinite, FS_RemoveElement
    <2>5. count[d] \in Nat /\ count[d] <= Cardinality(Leases(d))
      BY DEF Accounted, TypeInv, TypeOK
    <2> QED BY <1>2, <2>3, <2>4, <2>5, LeasesFinite
  <1> QED BY <1>3, <1>4 DEF Accounted

(* INCRBY: the request that counts a lease is from then on its holder. *)
LEMMA LeaseTaken ==
  ASSUME TypeInv, Accounted, NEW r \in Requests, IncrLease(r)
  PROVE  Accounted'
  <1>1. PICK d \in Creds : d = at[r]
    BY DEF IncrLease, TypeInv, AtOK, Engaged, Section
  <1>2. /\ pc[r] = "incr" /\ pc'[r] = "arm" /\ at' = at /\ OthersStay(r)
        /\ count'[d] = count[d] + 1
        /\ \A c \in Creds \ {d} : count'[c] = count[c]
    BY <1>1 DEF IncrLease, Goto, localVars, TypeInv, TypeOK, OthersStay
  <1>3. Leases(d)' = Leases(d) \cup {r} /\ r \notin Leases(d)
    BY <1>1, <1>2 DEF Leases, OthersStay, Holding
  <1>4. Cardinality(Leases(d)') = Cardinality(Leases(d)) + 1
    BY <1>3, LeasesFinite, FS_AddElement
  <1>5. \A c \in Creds \ {d} : Leases(c)' = Leases(c)
    BY <1>1, <1>2 DEF Leases, OthersStay
  <1>6. count[d] \in Nat /\ count[d] <= Cardinality(Leases(d))
    BY DEF Accounted, TypeInv, TypeOK
  <1>7. count'[d] <= Cardinality(Leases(d)')
    BY <1>2, <1>4, <1>6, LeasesFinite
  <1> QED BY <1>2, <1>5, <1>7 DEF Accounted

LEMMA AccountedStep ==
  ASSUME TypeInv, TypeInv', Accounted, NEW r \in Requests, Step(r)
  PROVE  Accounted'
  <1> DEFINE Live == Holding \cup {"abandoned", "orphan"}
  <1> DEFINE Keeps == count' = count /\ (pc[r] \in Live => pc'[r] \in Live /\ at'[r] = at[r])
  <1> DEFINE Releases == pc[r] \in {"use", "stream", "settle"} /\ Release(r)
  <1>1. OthersStay(r)
    BY StepFreesOwn
  <1>2. Keeps \/ Releases \/ IncrLease(r)
    <2> USE DEF TypeInv, TypeOK, Goto, redisVars, localVars, Holding, Section
    <2>1. CASE Book(r)
      BY <2>1 DEF Book, Arrive, Select, RetriesSpent, NoCandidate, TryLock, SkipLocked,
         ReadCounters, ArmLease, UnlockBooked, UnlockRefused, End
    <2>2. CASE Use(r)
      BY <2>2 DEF Use, SetupRaises, FailOver, UpstreamError, AnswersError,
         Answered, Settle, SettleRaises, StreamOpens, StreamEnds, StreamBreaks,
         StreamNeverRead, NextAccount, Handle, End
    <2>3. CASE HandleFailure(r)
      BY <2>3 DEF HandleFailure, LockState, GiveUpState, UnlockState, Resume, NextAccount, End
    <2> QED BY <2>1, <2>2, <2>3 DEF Step
  <1>3. CASE Keeps
    <2>1. \A c \in Creds : Leases(c) \subseteq Leases(c)'
      BY <1>1, <1>3 DEF Leases, OthersStay
    <2>2. \A c \in Creds : count'[c] <= count[c]
      BY <1>3 DEF TypeInv, TypeOK
    <2> QED BY <2>1, <2>2, LeasesKept
  <1>4. CASE Releases
    BY <1>1, <1>4, LeaseReleased
  <1>5. CASE IncrLease(r)
    BY <1>5, LeaseTaken
  <1> QED BY <1>2, <1>3, <1>4, <1>5

(* A TTL or a reset only forgets leases, and a crash turns the leases of   *)
(* the dead process into lost ones.                                        *)
LEMMA AccountedEnvironment ==
  ASSUME TypeInv, TypeInv', Accounted, Environment
  PROVE  Accounted'
  <1>1. ASSUME NEW c \in Creds, LockTTL(c) \/ LeaseTTL(c) \/ WorkerReset(c) PROVE Accounted'
    <2>1. /\ pc' = pc /\ at' = at
          /\ count' = count \/ count' = [count EXCEPT ![c] = 0]
      BY <1>1 DEF LockTTL, LeaseTTL, WorkerReset, localVars
    <2>2. \A d \in Creds : count'[d] <= count[d]
      BY <2>1 DEF TypeInv, TypeOK
    <2>3. \A d \in Creds : Leases(d) \subseteq Leases(d)'
      BY <2>1 DEF Leases
    <2> QED BY <2>2, <2>3, LeasesKept
  <1>2. CASE Crash
    <2>1. \A s \in Requests : pc[s] \in Holding \cup {"abandoned", "orphan"} =>
             pc'[s] \in {"abandoned", "orphan"} /\ at'[s] = at[s]
      BY <1>2 DEF Crash, Final, Holding, TypeInv, TypeOK
    <2>2. \A d \in Creds : Leases(d) \subseteq Leases(d)'
      BY <2>1 DEF Leases
    <2>3. \A d \in Creds : count'[d] <= count[d]
      BY <1>2 DEF Crash, redisVars, TypeInv, TypeOK
    <2> QED BY <2>2, <2>3, LeasesKept
  <1> QED BY <1>1, <1>2 DEF Environment

(* No path but an abandoned stream, a failed setup and a crash forgets to  *)
(* release: without any guarantee of the deployment the counter stays      *)
(* within the leases that are held or were lost in one of these ways.      *)
THEOREM LeasesAccounted == Spec => []EveryLeaseAccounted
  <1>1. Init => Accounted
    <2>1. Init => \A c \in Creds : count[c] = 0
      BY DEF Init
    <2> QED BY <2>1, LeasesFinite DEF Accounted
  <1>2. TypeInv /\ TypeInv' /\ Accounted /\ [Next]_vars => Accounted'
    <2> SUFFICES ASSUME TypeInv, TypeInv', Accounted, [Next]_vars PROVE Accounted'
      OBVIOUS
    <2>1. CASE UNCHANGED vars
      BY <2>1 DEF vars, Accounted, Leases
    <2> QED BY <2>1, AccountedStep, AccountedEnvironment DEF Next
  <1>3. Accounted => EveryLeaseAccounted
    BY LeasesSplit DEF Accounted, EveryLeaseAccounted
  <1> QED BY <1>1, <1>2, <1>3, TypeInvariant, PTL DEF Spec
==============================================================================
