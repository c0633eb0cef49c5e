---------------------------- MODULE MeteringProofs ----------------------------
(***************************************************************************)
(* Theorems about Metering, for any number of requests and any limits.     *)
(***************************************************************************)
EXTENDS Metering, FiniteSetTheorems, TLAPS

Records == [pc: PC, seen: Nat, sum: Nat, cost: 0..MaxUse]

LEMMA Limited ==
    /\ RpmLimit \in Nat /\ MonthLimit \in Nat /\ MaxUse \in Nat /\ MaxFaults \in Nat
    /\ RpmLimit > 0 /\ MonthLimit > 0 /\ 0 \in 0..(RpmLimit + 1) /\ 0 \in 0..MaxFaults
  BY LimitsAssumption

LEMMA IdleType == Idle \in Records /\ \A l \in PC : [Idle EXCEPT !.pc = l] \in Records
  BY LimitsAssumption DEF Idle, Records, PC, Releasing

LEMMA BecomeType ==
    ASSUME at \in [Actors -> Records], NEW a \in Actors, NEW v \in Records, Become(a, v)
    PROVE  at' \in [Actors -> Records]
  BY DEF Become

LEMMA GotoType ==
    ASSUME at \in [Actors -> Records], NEW a \in Actors, NEW l \in PC, Goto(a, l)
    PROVE  at' \in [Actors -> Records]
  <1>1. [at[a] EXCEPT !.pc = l] \in Records
    BY DEF Records
  <1>2. QED  BY <1>1, BecomeType DEF Goto

(* Every action of a request keeps the types. *)
LEMMA RequestTypes ==
    ASSUME TypeOK, NEW r \in Requests, Arrive(r) \/ Proceed(r)
    PROVE  TypeOK'
  <1> USE DEF TypeOK, Records
  <1>0. /\ r \in Actors /\ at[r] \in Records /\ at \in [Actors -> Records]
        /\ RpmLimit \in Nat /\ MaxUse \in Nat
    BY LimitsAssumption DEF Actors
  <1>1. CASE Arrive(r)
    <2>1. CASE "rpm" \in limits
      <3>1. rpm' \in 0..(RpmLimit + 1)
        BY <1>0, <1>1, <2>1 DEF Arrive, Smaller
      <3>2. [Idle EXCEPT !.pc = "arm", !.sum = rpm'] \in Records
        <4>1. rpm' \in Nat
          BY <1>0, <3>1
        <4>2. QED  BY <4>1, IdleType DEF PC
      <3>3. rpmTtl' => rpm' > 0
        BY <1>0, <1>1, <2>1 DEF Arrive, Smaller
      <3>4. at' \in [Actors -> Records]
        BY <1>0, <1>1, <2>1, <3>2, BecomeType DEF Arrive
      <3>5. QED
        BY <1>1, <3>1, <3>3, <3>4 DEF Arrive, monthVars, quotaVars
    <2>2. CASE "rpm" \notin limits
      <3>1. at' \in [Actors -> Records]
        BY <1>0, <1>1, <2>2, GotoType DEF Arrive, PC
      <3>2. QED
        BY <1>1, <2>2, <3>1 DEF Arrive, monthVars, quotaVars
    <2>3. QED  BY <2>1, <2>2
  <1>2. CASE Arm(r)
    <2>1. at' \in [Actors -> Records]
      BY <1>0, <1>2, GotoType DEF Arm, PC
    <2>2. QED
      BY <1>2, <2>1 DEF Arm, Rearmed, monthVars, quotaVars
  <1>3. CASE Judge(r) \/ Book(r)
    <2>1. [at[r] EXCEPT !.pc = "call"] \in Records
      BY <1>0 DEF PC
    <2>2. at' \in [Actors -> Records]
      BY <1>0, <1>3, <2>1, IdleType, BecomeType DEF Judge, Book, PC
    <2>3. QED
      BY <1>3, <2>2 DEF Judge, Book, rpmVars, monthVars, quotaVars
  <1>4. CASE Scan(r) \/ Load(r)
    <2>1. \A row \in {used, at[r].seen} :
             /\ [at[r] EXCEPT !.pc = "book", !.seen = row] \in Records
             /\ [at[r] EXCEPT !.pc = "seed", !.seen = row] \in Records
      BY <1>0 DEF PC, Releasing
    <2>2. at' \in [Actors -> Records]
      BY <1>0, <1>4, <2>1, BecomeType DEF Scan, Load
    <2>3. QED
      BY <1>4, <2>2 DEF Scan, Load, rpmVars, monthVars, quotaVars
  <1>5. CASE Answer(r)
    <2>1. PICK cost \in 0..MaxUse : Become(r, Costs(r, cost))
      BY <1>5 DEF Answer
    <2>2. Costs(r, cost) \in Records
      BY <1>0, IdleType DEF Costs, PC, Releasing
    <2>3. at' \in [Actors -> Records]
      BY <1>0, <2>1, <2>2, BecomeType
    <2>4. QED
      BY <1>5, <2>3 DEF Answer, rpmVars, monthVars, quotaVars
  <1>6. CASE Seed(r)
    <2>1. at' \in [Actors -> Records]
      BY <1>0, <1>6, GotoType DEF Seed, PC, Releasing
    <2>2. QED
      BY <1>0, <1>6, <2>1 DEF Seed, SeedValue, rpmVars, monthVars
  <1>7. CASE Incr(r)
    <2>1. tokens' \in Nat
      BY <1>0, <1>7 DEF Incr
    <2>2. [at[r] EXCEPT !.pc = "commit", !.sum = tokens'] \in Records
      BY <1>0, <2>1 DEF PC, Releasing
    <2>3. at' \in [Actors -> Records]
      BY <1>0, <1>7, <2>2, BecomeType DEF Incr
    <2>4. spent' \in Nat
      BY <1>0, <1>7 DEF Incr
    <2>5. QED
      BY <1>7, <2>1, <2>3, <2>4 DEF Incr, rpmVars, monthVars
  <1>8. CASE Commit(r)
    <2>1. [Idle EXCEPT !.pc = "charge", !.cost = at[r].cost] \in Records
      BY <1>0 DEF Idle, PC
    <2>2. at' \in [Actors -> Records]
      BY <1>0, <1>8, <2>1, IdleType, BecomeType DEF Commit
    <2>3. QED
      BY <1>0, <1>8, <2>2 DEF Commit, rpmVars, monthVars
  <1>9. CASE Charge(r)
    <2>1. [Idle EXCEPT !.pc = "armMonth"] \in Records
      BY IdleType DEF PC
    <2>2. at' \in [Actors -> Records]
      BY <1>0, <1>9, <2>1, BecomeType DEF Charge
    <2>3. month' \in Nat /\ (month > 0 => month' > 0)
      BY <1>0, <1>9 DEF Charge
    <2>4. QED
      BY <1>9, <2>2, <2>3 DEF Charge, rpmVars, quotaVars
  <1>10. CASE ArmMonth(r)
    <2>1. at' \in [Actors -> Records]
      BY <1>0, <1>10, IdleType, BecomeType DEF ArmMonth
    <2>2. QED
      BY <1>10, <2>1 DEF ArmMonth, rpmVars, quotaVars
  <1>11. QED
    BY <1>1, <1>2, <1>3, <1>4, <1>5, <1>6, <1>7, <1>8, <1>9, <1>10 DEF Proceed

LEMMA MeteringTypes == TypeOK /\ [Next]_vars => TypeOK'
  <1> SUFFICES ASSUME TypeOK, [Next]_vars PROVE TypeOK'
    OBVIOUS
  <1> USE DEF TypeOK, Records
  <1>0. at \in [Actors -> Records] /\ Resetters \subseteq Actors /\ QuotaTotal \in Nat
    BY LimitsAssumption DEF Actors
  <1>1. ASSUME NEW r \in Requests, Arrive(r) \/ Proceed(r) PROVE TypeOK'
    BY <1>1, RequestTypes
  <1>2. ASSUME NEW a \in Resetters, ResetLoad(a) PROVE TypeOK'
    <2>1. [Idle EXCEPT !.pc = "zero", !.seen = Smaller(used, 1)] \in Records
      BY IdleType DEF PC, Smaller
    <2>2. at' \in [Actors -> Records]
      BY <1>0, <1>2, <2>1, BecomeType DEF ResetLoad
    <2>3. QED
      BY <1>2, <2>2 DEF ResetLoad, rpmVars, monthVars, quotaVars
  <1>3. ASSUME NEW a \in Resetters, Zero(a) PROVE TypeOK'
    <2>1. at' \in [Actors -> Records]
      BY <1>0, <1>3, GotoType DEF Zero, PC, Releasing
    <2>2. QED
      BY <1>3, <2>1 DEF Zero, rpmVars, monthVars
  <1>4. ASSUME NEW a \in Resetters, ResetCommit(a) PROVE TypeOK'
    <2>1. at' \in [Actors -> Records]
      BY <1>0, <1>4, IdleType, BecomeType DEF ResetCommit
    <2>2. QED
      BY <1>4, <2>1 DEF ResetCommit, rpmVars, monthVars
  <1>5. CASE WindowEnds
    BY <1>5 DEF WindowEnds, rpmVars, monthVars
  <1>6. CASE RpmExpires
    <2>1. rpm' \in 0..(RpmLimit + 1) /\ ~rpmTtl'
      BY <1>6, Limited DEF RpmExpires
    <2>2. QED
      BY <1>6, <2>1 DEF RpmExpires, monthVars, quotaVars
  <1>7. CASE MonthEnds
    BY <1>7 DEF MonthEnds, rpmVars, quotaVars
  <1>8. CASE Lose
    BY <1>8, LimitsAssumption DEF Lose, rpmVars, monthVars
  <1>9. ASSUME NEW a \in Actors, Crash(a) PROVE TypeOK'
    <2>1. at' \in [Actors -> Records]
      BY <1>0, <1>9, IdleType, BecomeType DEF Crash
    <2>2. QED
      BY <1>9, <2>1, LimitsAssumption DEF Crash, rpmVars, monthVars, quotaVars
  <1>10. CASE UNCHANGED vars
    BY <1>10 DEF vars, rpmVars, monthVars, quotaVars
  <1>11. QED
    BY <1>1, <1>2, <1>3, <1>4, <1>5, <1>6, <1>7, <1>8, <1>9, <1>10 DEF Next

LEMMA InitTypes == Init => TypeOK
  <1> SUFFICES ASSUME Init PROVE TypeOK
    OBVIOUS
  <1>1. at \in [Actors -> Records]
    BY IdleType DEF Init
  <1>2. rpm \in 0..(RpmLimit + 1) /\ ~rpmTtl /\ faults \in 0..MaxFaults
    BY Limited DEF Init
  <1>3. /\ month \in Nat /\ ~monthTtl /\ monthTtl \in BOOLEAN /\ rpmTtl \in BOOLEAN
        /\ tokens \in Nat \cup {None} /\ used \in Nat /\ spent \in Nat
    BY DEF Init
  <1>4. limits \in Configured /\ {due, forgot, stale} \subseteq BOOLEAN
    BY DEF Init
  <1>5. QED  BY <1>1, <1>2, <1>3, <1>4 DEF TypeOK, Records

(* Every counter and every TTL keeps its type, and only a key that exists  *)
(* has a TTL, for any number of requests and any limits.                   *)
THEOREM MeteringTypeCorrect == Spec => []TypeOK
  BY InitTypes, MeteringTypes, PTL DEF Spec

------------------------------------------------------------------------------
(* The monthly limit.  Who has been let in has not been charged yet; every *)
(* one of them adds at most MaxUse to a month that was below the limit.    *)

Admitted == {"scan", "book", "call", "load", "seed", "incr", "commit", "charge"}
InFlight == {r \in Requests : at[r].pc \in Admitted}
Room     == Cardinality(Requests) - Cardinality(InFlight)
MonthRoom ==
    /\ month <= MonthLimit - 1 + Room * MaxUse
    /\ "month" \notin limits => month = 0 /\ \A r \in Requests : at[r].pc # "charge"

LEMMA RoomIsNat ==
    ASSUME TypeOK
    PROVE  /\ IsFiniteSet(InFlight)
           /\ Cardinality(InFlight) \in Nat /\ Cardinality(Requests) \in Nat
           /\ Room \in 0..Cardinality(Requests)
  <1>1. InFlight \subseteq Requests
    BY DEF InFlight
  <1>2. QED
    BY <1>1, ActorsAssumption, FS_Subset, FS_CardinalityType DEF Room

(* Nobody enters or leaves. *)
LEMMA SameRoom ==
    ASSUME TypeOK, \A r \in Requests : at'[r].pc \in Admitted <=> at[r].pc \in Admitted
    PROVE  Room' = Room
  BY DEF Room, InFlight

(* One request enters. *)
LEMMA LessRoom ==
    ASSUME TypeOK, NEW r \in Requests, at[r].pc \notin Admitted, at'[r].pc \in Admitted,
           \A q \in Requests \ {r} : at'[q] = at[q]
    PROVE  Room' = Room - 1 /\ Room >= 1
  <1>1. InFlight' = InFlight \cup {r} /\ r \notin InFlight
    BY DEF InFlight
  <1>2. Cardinality(InFlight') = Cardinality(InFlight) + 1
    BY <1>1, RoomIsNat, FS_AddElement
  <1>3. InFlight \cup {r} \subseteq Requests
    BY DEF InFlight
  <1>4. Cardinality(InFlight \cup {r}) <= Cardinality(Requests)
    BY <1>3, ActorsAssumption, FS_Subset
  <1>5. QED  BY <1>1, <1>2, <1>4, RoomIsNat DEF Room

(* One request leaves. *)
LEMMA MoreRoom ==
    ASSUME TypeOK, NEW r \in Requests, at[r].pc \in Admitted, at'[r].pc \notin Admitted,
           \A q \in Requests \ {r} : at'[q] = at[q]
    PROVE  Room' = Room + 1
  <1>1. InFlight' = InFlight \ {r} /\ r \in InFlight
    BY DEF InFlight
  <1>2. Cardinality(InFlight') = Cardinality(InFlight) - 1
    BY <1>1, RoomIsNat, FS_RemoveElement
  <1>3. QED  BY <1>2, RoomIsNat DEF Room

LEMMA BecomeOthers ==
    ASSUME TypeOK, NEW a \in Actors, NEW v, Become(a, v)
    PROVE  at'[a] = v /\ \A b \in Actors \ {a} : at'[b] = at[b]
  BY DEF Become, TypeOK

LEMMA GotoOthers ==
    ASSUME TypeOK, NEW a \in Actors, NEW l, Goto(a, l)
    PROVE  at'[a].pc = l /\ \A b \in Actors \ {a} : at'[b] = at[b]
  <1>1. [at[a] EXCEPT !.pc = l].pc = l
    BY DEF TypeOK
  <1>2. QED  BY <1>1, BecomeOthers DEF Goto

(* The month is left alone, and nobody enters. *)
LEMMA NobodyEnters ==
    ASSUME TypeOK, TypeOK', MonthRoom, NEW a \in Actors,
           at'[a].pc \in Admitted => at[a].pc \in Admitted,
           "month" \notin limits => at'[a].pc # "charge",
           \A b \in Actors \ {a} : at'[b] = at[b],
           UNCHANGED <<limits, month>>
    PROVE  MonthRoom'
  <1>0. /\ Room \in Nat /\ MaxUse \in Nat /\ MonthLimit \in Nat
        /\ month \in Nat
    BY RoomIsNat, Limited DEF TypeOK
  <1>1. \A r \in Requests : "month" \notin limits => at'[r].pc # "charge"
    BY DEF MonthRoom, Actors
  <1>2. CASE a \in Requests /\ at[a].pc \in Admitted /\ at'[a].pc \notin Admitted
    <2>1. Room' = Room + 1
      BY <1>2, MoreRoom DEF Actors
    <2>2. (Room + 1) * MaxUse >= Room * MaxUse
      BY <1>0, SMT
    <2>3. QED
      BY <1>0, <1>1, <2>1, <2>2 DEF MonthRoom
  <1>3. CASE ~(a \in Requests /\ at[a].pc \in Admitted /\ at'[a].pc \notin Admitted)
    <2>1. Room' = Room
      BY <1>3, SameRoom DEF Actors
    <2>2. QED
      BY <1>1, <2>1 DEF MonthRoom
  <1>4. QED  BY <1>2, <1>3

LEMMA JudgeRoom ==
    ASSUME TypeOK, TypeOK', MonthRoom, NEW r \in Requests, Judge(r)
    PROVE  MonthRoom'
  <1>0. /\ Room \in Nat /\ MaxUse \in Nat /\ MonthLimit \in Nat /\ MonthLimit > 0
        /\ month \in Nat /\ r \in Actors
    BY RoomIsNat, Limited DEF TypeOK, Actors
  <1>1. CASE Become(r, Idle)
    <2>1. at'[r].pc = "idle" /\ \A b \in Actors \ {r} : at'[b] = at[b]
      BY <1>0, <1>1, BecomeOthers DEF Idle
    <2>2. QED
      BY <1>0, <2>1, NobodyEnters DEF Judge, monthVars, Admitted
  <1>2. CASE ~Become(r, Idle)
    <2> DEFINE v == [Idle EXCEPT !.pc = IF "quota" \in limits THEN "scan" ELSE "call"]
    <2>1. Become(r, v) /\ ("month" \in limits => month < MonthLimit)
      BY <1>2 DEF Judge, WithinMonth
    <2>2. v.pc \in {"scan", "call"}
      BY DEF Idle
    <2>3. at'[r] = v /\ \A b \in Actors \ {r} : at'[b] = at[b]
      BY <1>0, <2>1, BecomeOthers
    <2>4. Room' = Room - 1 /\ Room >= 1
      BY <2>2, <2>3, LessRoom DEF Judge, At, Admitted, Actors
    <2>5. month <= MonthLimit - 1
      BY <1>0, <2>1 DEF MonthRoom
    <2>6. (Room - 1) * MaxUse >= 0
      BY <1>0, <2>4, SMT
    <2>7. month' = month /\ limits' = limits
      BY DEF Judge, monthVars
    <2>8. \A q \in Requests : "month" \notin limits => at'[q].pc # "charge"
      BY <2>2, <2>3 DEF MonthRoom, Actors
    <2>9. QED
      BY <1>0, <2>4, <2>5, <2>6, <2>7, <2>8 DEF MonthRoom
  <1>3. QED  BY <1>1, <1>2

LEMMA ChargeRoom ==
    ASSUME TypeOK, TypeOK', MonthRoom, NEW r \in Requests, Charge(r)
    PROVE  MonthRoom'
  <1>0. /\ Room \in Nat /\ MaxUse \in Nat /\ MonthLimit \in Nat /\ month \in Nat
        /\ r \in Actors /\ at[r].cost \in 0..MaxUse
    BY RoomIsNat, Limited DEF TypeOK, Actors
  <1>1. at'[r].pc = "armMonth" /\ \A b \in Actors \ {r} : at'[b] = at[b]
    BY <1>0, BecomeOthers DEF Charge, Idle
  <1>2. Room' = Room + 1
    BY <1>1, MoreRoom DEF Charge, At, Admitted, Actors
  <1>3. (Room + 1) * MaxUse = Room * MaxUse + MaxUse
    BY <1>0, SMT
  <1>4. "month" \in limits
    BY DEF Charge, At, MonthRoom
  <1>5. month' = month + at[r].cost /\ limits' = limits
    BY DEF Charge
  <1>6. QED
    BY <1>0, <1>2, <1>3, <1>4, <1>5, SMT DEF MonthRoom

LEMMA RequestRoom ==
    ASSUME TypeOK, TypeOK', MonthRoom, NEW r \in Requests, Arrive(r) \/ Proceed(r)
    PROVE  MonthRoom'
  <1>0. r \in Actors
    BY DEF Actors
  <1> DEFINE Others == \A b \in Actors \ {r} : at'[b] = at[b]
  <1>1. CASE Arrive(r)
    <2>1. at'[r].pc \in {"arm", "judge"} /\ Others
      BY <1>0, <1>1, BecomeOthers, GotoOthers DEF Arrive, Idle
    <2>2. QED
      BY <1>0, <1>1, <2>1, NobodyEnters DEF Arrive, monthVars, Admitted
  <1>2. CASE Arm(r)
    <2>1. at'[r].pc = "judge" /\ Others
      BY <1>0, <1>2, GotoOthers DEF Arm
    <2>2. QED
      BY <1>0, <1>2, <2>1, NobodyEnters DEF Arm, monthVars, Admitted
  <1>3. CASE Judge(r)
    BY <1>3, JudgeRoom
  <1>4. CASE Scan(r) \/ Load(r)
    <2>1. \A row \in {used, at[r].seen} :
             /\ [at[r] EXCEPT !.pc = "book", !.seen = row].pc = "book"
             /\ [at[r] EXCEPT !.pc = "seed", !.seen = row].pc = "seed"
      BY <1>0 DEF TypeOK
    <2>2. at'[r].pc \in {"book", "seed"} /\ Others
      BY <1>0, <1>4, <2>1, BecomeOthers DEF Scan, Load
    <2>3. QED
      BY <1>0, <1>4, <2>2, NobodyEnters DEF Scan, Load, At, monthVars, Admitted
  <1>5. CASE Book(r)
    <2>1. [at[r] EXCEPT !.pc = "call"].pc = "call"
      BY <1>0 DEF TypeOK
    <2>2. at'[r].pc \in {"call", "idle"} /\ Others
      <3>1. Idle.pc = "idle"
        BY DEF Idle
      <3>2. QED  BY <1>0, <1>5, <2>1, <3>1, BecomeOthers DEF Book
    <2>3. QED
      BY <1>0, <1>5, <2>2, NobodyEnters DEF Book, At, monthVars, Admitted
  <1>6. CASE Answer(r)
    <2>1. PICK cost \in 0..MaxUse : Become(r, Costs(r, cost))
      BY <1>6 DEF Answer
    <2>2. /\ Costs(r, cost).pc \in {"idle", "load", "charge"}
          /\ Costs(r, cost).pc = "charge" => "month" \in limits
      BY <1>0 DEF Costs, Idle, TypeOK
    <2>3. at'[r] = Costs(r, cost) /\ Others
      BY <1>0, <2>1, BecomeOthers
    <2>4. QED
      BY <1>0, <1>6, <2>2, <2>3, NobodyEnters DEF Answer, At, monthVars, Admitted
  <1>7. CASE Seed(r)
    <2>1. at'[r].pc = "incr" /\ Others
      BY <1>0, <1>7, GotoOthers DEF Seed
    <2>2. QED
      BY <1>0, <1>7, <2>1, NobodyEnters DEF Seed, At, monthVars, Admitted
  <1>8. CASE Incr(r)
    <2>1. [at[r] EXCEPT !.pc = "commit", !.sum = tokens'].pc = "commit"
      BY <1>0 DEF TypeOK
    <2>2. at'[r].pc = "commit" /\ Others
      BY <1>0, <1>8, <2>1, BecomeOthers DEF Incr
    <2>3. QED
      BY <1>0, <1>8, <2>2, NobodyEnters DEF Incr, At, monthVars, Admitted
  <1>9. CASE Commit(r)
    <2> DEFINE v == IF "month" \in limits
                    THEN [Idle EXCEPT !.pc = "charge", !.cost = at[r].cost] ELSE Idle
    <2>0. v.pc \in {"charge", "idle"} /\ (v.pc = "charge" => "month" \in limits)
      BY DEF Idle
    <2>1. /\ at'[r].pc \in {"charge", "idle"} /\ Others
          /\ at'[r].pc = "charge" => "month" \in limits
      <3>1. at'[r] = v /\ Others
        BY <1>0, <1>9, BecomeOthers DEF Commit
      <3>2. QED  BY <2>0, <3>1
    <2>2. QED
      BY <1>0, <1>9, <2>1, NobodyEnters DEF Commit, At, monthVars, Admitted
  <1>10. CASE Charge(r)
    BY <1>10, ChargeRoom
  <1>11. CASE ArmMonth(r)
    <2>1. at'[r].pc = "idle" /\ Others
      BY <1>0, <1>11, BecomeOthers DEF ArmMonth, Idle
    <2>2. QED
      BY <1>0, <1>11, <2>1, NobodyEnters DEF ArmMonth, Admitted
  <1>12. QED
    BY <1>1, <1>2, <1>3, <1>4, <1>5, <1>6, <1>7, <1>8, <1>9, <1>10, <1>11 DEF Proceed

LEMMA MonthInvariant ==
    TypeOK /\ TypeOK' /\ MonthRoom /\ [Next]_vars => MonthRoom'
  <1> SUFFICES ASSUME TypeOK, TypeOK', MonthRoom, [Next]_vars PROVE MonthRoom'
    OBVIOUS
  <1>1. ASSUME NEW r \in Requests, Arrive(r) \/ Proceed(r) PROVE MonthRoom'
    BY <1>1, RequestRoom
  <1>2. ASSUME NEW a \in Resetters, ResetLoad(a) \/ Zero(a) \/ ResetCommit(a)
        PROVE  MonthRoom'
    <2>1. \A r \in Requests : at'[r] = at[r]
      BY <1>2, ActorsAssumption DEF ResetLoad, Zero, ResetCommit, Goto, Become, TypeOK, Actors
    <2>2. month' = month /\ limits' = limits
      BY <1>2 DEF ResetLoad, Zero, ResetCommit, monthVars
    <2>3. QED
      BY <2>1, <2>2, SameRoom DEF MonthRoom
  <1>3. CASE MonthEnds
    <2>1. Room' = Room
      BY <1>3, SameRoom DEF MonthEnds
    <2>2. Room * MaxUse >= 0 /\ MonthLimit - 1 >= 0 /\ Room * MaxUse \in Int
      BY RoomIsNat, Limited, SMT
    <2>3. QED
      BY <1>3, <2>1, <2>2, Limited DEF MonthEnds, MonthRoom
  <1>4. CASE WindowEnds \/ RpmExpires \/ Lose \/ UNCHANGED vars
    <2>1. month' = month /\ limits' = limits /\ at' = at
      BY <1>4 DEF WindowEnds, RpmExpires, Lose, vars, monthVars
    <2>2. QED
      BY <2>1, SameRoom DEF MonthRoom
  <1>5. ASSUME NEW a \in Actors, Crash(a) PROVE MonthRoom'
    <2>1. at'[a].pc = "idle" /\ \A b \in Actors \ {a} : at'[b] = at[b]
      BY <1>5, BecomeOthers DEF Crash, Idle
    <2>2. QED
      BY <1>5, <2>1, NobodyEnters DEF Crash, monthVars, Admitted
  <1>6. QED
    BY <1>1, <1>2, <1>3, <1>4, <1>5 DEF Next

(* The monthly limit is exceeded by at most what the requests in flight    *)
(* cost, for any number of requests, whatever crashes and expires.         *)
THEOREM MonthStaysBounded == Spec => []MonthBounded
  <1>1. Init => MonthRoom
    <2> SUFFICES ASSUME Init PROVE MonthRoom
      OBVIOUS
    <2>1. Room * MaxUse >= 0 /\ Room * MaxUse \in Int
      BY InitTypes, RoomIsNat, Limited, SMT
    <2>2. QED
      BY <2>1, Limited DEF Init, MonthRoom, Idle, Actors
  <1>2. TypeOK /\ MonthRoom => MonthBounded
    <2> SUFFICES ASSUME TypeOK, MonthRoom PROVE MonthBounded
      OBVIOUS
    <2> DEFINE All == Cardinality(Requests)
    <2>1. Room \in Nat /\ All \in Nat /\ Room <= All /\ MaxUse \in Nat
      BY RoomIsNat, Limited
    <2>2. Room * MaxUse <= All * MaxUse /\ Room * MaxUse \in Int /\ All * MaxUse \in Int
      <3> HIDE DEF All, Room
      <3>1. QED  BY <2>1, SMT
    <2>3. QED
      BY <2>2, Limited DEF MonthRoom, MonthBounded, TypeOK
  <1>3. QED
    BY <1>1, <1>2, MeteringTypeCorrect, MonthInvariant, PTL DEF Spec
------------------------------------------------------------------------------
(* The account's window.  While the counter is gone the row has all the    *)
(* tokens, and nobody is between the INCRBY or the SET and the commit.     *)

Clear(a)  == at[a].pc \notin {"incr", "commit"}
RowHasAll == used = spent /\ \A a \in Actors : Clear(a)
Window    == IF tokens = None THEN RowHasAll ELSE tokens = spent
QuotaInv  == forgot \/ stale \/ Window

(* An actor moves on; nothing that is counted changes. *)
LEMMA StaysClear ==
    ASSUME TypeOK, QuotaInv, NEW a \in Actors,
           tokens = None => Clear(a)',
           \A b \in Actors \ {a} : at'[b] = at[b],
           UNCHANGED <<tokens, used, spent, forgot, stale>>
    PROVE  QuotaInv'
  BY DEF QuotaInv, Window, RowHasAll, Clear

LEMMA RequestQuota ==
    ASSUME TypeOK, QuotaInv, NEW r \in Requests, Arrive(r) \/ Proceed(r)
    PROVE  QuotaInv'
  <1>0. r \in Actors /\ at[r] \in Records
    BY DEF Actors, TypeOK, Records
  <1> DEFINE Others == \A b \in Actors \ {r} : at'[b] = at[b]
  <1>1. CASE Arrive(r)
    <2>1. at'[r].pc \in {"arm", "judge"} /\ Others
      BY <1>0, <1>1, BecomeOthers, GotoOthers DEF Arrive, Idle
    <2>2. QED
      BY <1>0, <1>1, <2>1, StaysClear DEF Arrive, quotaVars, Clear
  <1>2. CASE Arm(r)
    <2>1. at'[r].pc = "judge" /\ Others
      BY <1>0, <1>2, GotoOthers DEF Arm
    <2>2. QED
      BY <1>0, <1>2, <2>1, StaysClear DEF Arm, quotaVars, Clear
  <1>3. CASE Judge(r) \/ Book(r)
    <2>1. at'[r].pc \in {"scan", "call", "idle"} /\ Others
      <3>1. /\ Idle.pc = "idle" /\ [Idle EXCEPT !.pc = "call"].pc = "call"
            /\ [Idle EXCEPT !.pc = "scan"].pc = "scan"
            /\ [at[r] EXCEPT !.pc = "call"].pc = "call"
        BY <1>0 DEF Idle, Records
      <3>2. QED
        BY <1>0, <1>3, <3>1, BecomeOthers DEF Judge, Book
    <2>2. QED
      BY <1>0, <1>3, <2>1, StaysClear DEF Judge, Book, quotaVars, Clear
  <1>4. CASE Scan(r)
    <2>1. [at[r] EXCEPT !.pc = "book", !.seen = used].pc = "book"
      BY <1>0 DEF Records
    <2>2. at'[r].pc = "book" /\ Others
      BY <1>0, <1>4, <2>1, BecomeOthers DEF Scan
    <2>3. QED
      BY <1>0, <1>4, <2>2, StaysClear DEF Scan, quotaVars, Clear
  <1>5. CASE Load(r)
    <2>1. \A row \in {used, at[r].seen} :
             [at[r] EXCEPT !.pc = "seed", !.seen = row].pc = "seed"
      BY <1>0 DEF Records
    <2>2. at'[r].pc = "seed" /\ Others
      BY <1>0, <1>5, <2>1, BecomeOthers DEF Load
    <2>3. QED
      BY <1>0, <1>5, <2>2, StaysClear DEF Load, quotaVars, Clear
  <1>6. CASE Answer(r)
    <2>1. PICK cost \in 0..MaxUse : Become(r, Costs(r, cost))
      BY <1>6 DEF Answer
    <2>2. Costs(r, cost).pc \in {"idle", "load", "charge"}
      BY <1>0 DEF Costs, Idle, Records
    <2>3. at'[r].pc \in {"idle", "load", "charge"} /\ Others
      BY <1>0, <2>1, <2>2, BecomeOthers
    <2>4. QED
      BY <1>0, <1>6, <2>3, StaysClear DEF Answer, quotaVars, Clear
  <1>7. CASE Seed(r)
    <2>1. at[r].seen \in Nat /\ at[r].seen # None
      BY <1>0, NoneAssumption DEF Records
    <2>2. CASE tokens = None
      BY <1>0, <1>7, <2>1, <2>2
      DEF Seed, SeedValue, At, QuotaInv, Window, RowHasAll, Clear
    <2>3. CASE tokens # None
      BY <1>7, <2>3 DEF Seed, QuotaInv, Window
    <2>4. QED  BY <2>2, <2>3
  <1>8. CASE Incr(r)
    <2>1. CASE forgot \/ stale
      BY <1>8, <2>1 DEF Incr, QuotaInv
    <2>2. CASE ~(forgot \/ stale)
      <3>1. tokens # None /\ tokens = spent
        BY <1>0, <1>8, <2>2 DEF Incr, At, QuotaInv, Window, RowHasAll, Clear
      <3>2. tokens' = tokens + at[r].cost /\ spent' = spent + at[r].cost
        BY <1>8, <2>2, <3>1 DEF Incr
      <3>3. spent + at[r].cost \in Nat
        BY <1>0, LimitsAssumption DEF TypeOK, Records
      <3>4. QED
        BY <3>1, <3>2, <3>3, NoneAssumption DEF QuotaInv, Window
    <2>3. QED  BY <2>1, <2>2
  <1>9. CASE Commit(r)
    <2>1. forgot \/ stale \/ tokens # None
      BY <1>0, <1>9 DEF Commit, At, QuotaInv, Window, RowHasAll, Clear
    <2>2. QED
      BY <1>9, <2>1 DEF Commit, QuotaInv, Window
  <1>10. CASE Charge(r) \/ ArmMonth(r)
    <2>1. Idle.pc = "idle" /\ [Idle EXCEPT !.pc = "armMonth"].pc = "armMonth"
      BY DEF Idle
    <2>2. at'[r].pc \in {"idle", "armMonth"} /\ Others
      BY <1>0, <1>10, <2>1, BecomeOthers DEF Charge, ArmMonth
    <2>3. QED
      BY <1>0, <1>10, <2>2, StaysClear DEF Charge, ArmMonth, quotaVars, Clear
  <1>11. QED
    BY <1>1, <1>2, <1>3, <1>4, <1>5, <1>6, <1>7, <1>8, <1>9, <1>10 DEF Proceed

LEMMA QuotaInvariant == TypeOK /\ QuotaInv /\ [Next]_vars => QuotaInv'
  <1> SUFFICES ASSUME TypeOK, QuotaInv, [Next]_vars PROVE QuotaInv'
    OBVIOUS
  <1>0. Resetters \subseteq Actors
    BY DEF Actors
  <1>1. ASSUME NEW r \in Requests, Arrive(r) \/ Proceed(r) PROVE QuotaInv'
    BY <1>1, RequestQuota
  <1>2. ASSUME NEW a \in Resetters, ResetLoad(a) PROVE QuotaInv'
    <2> DEFINE v == [Idle EXCEPT !.pc = "zero", !.seen = Smaller(used, 1)]
    <2>1. v.pc = "zero"
      BY DEF Idle
    <2>2. Become(a, v)
      BY <1>2 DEF ResetLoad
    <2>3. at'[a].pc = "zero" /\ \A b \in Actors \ {a} : at'[b] = at[b]
      <3> HIDE DEF v
      <3>1. QED  BY <1>0, <2>1, <2>2, BecomeOthers
    <2>4. Clear(a)'
      BY <2>3 DEF Clear
    <2>5. QED
      BY <1>0, <1>2, <2>3, <2>4, StaysClear DEF ResetLoad, quotaVars
  <1>3. ASSUME NEW a \in Resetters, Zero(a) PROVE QuotaInv'
    <2>1. forgot' \/ spent' = 0
      <3>1. CASE due
        BY <1>3, <3>1 DEF Zero
      <3>2. CASE ~due /\ spent > 0
        BY <1>3, <3>2 DEF Zero
      <3>3. CASE ~due /\ ~(spent > 0)
        <4>1. spent = 0
          BY <3>3 DEF TypeOK
        <4>2. QED  BY <1>3, <4>1 DEF Zero
      <3>4. QED  BY <3>1, <3>2, <3>3
    <2>2. tokens' = 0 /\ tokens' # None
      BY <1>3, NoneAssumption DEF Zero
    <2>3. QED  BY <2>1, <2>2 DEF QuotaInv, Window
  <1>4. ASSUME NEW a \in Resetters, ResetCommit(a) PROVE QuotaInv'
    <2>1. forgot \/ stale \/ tokens # None
      BY <1>0, <1>4 DEF ResetCommit, At, QuotaInv, Window, RowHasAll, Clear
    <2>2. QED
      BY <1>4, <2>1 DEF ResetCommit, QuotaInv, Window
  <1>5. CASE WindowEnds \/ RpmExpires \/ MonthEnds \/ UNCHANGED vars
    <2>1. UNCHANGED <<tokens, used, spent, forgot, stale, at>>
      BY <1>5 DEF WindowEnds, RpmExpires, MonthEnds, vars, quotaVars
    <2>2. QED  BY <2>1 DEF QuotaInv, Window, RowHasAll, Clear
  <1>6. CASE Lose
    <2>1. CASE forgot'
      BY <2>1 DEF QuotaInv
    <2>2. CASE ~forgot'
      <3>1. /\ used = spent /\ \A a \in Actors : at[a].pc \notin {"incr", "commit"}
            /\ spent' = spent /\ used' = used /\ at' = at /\ tokens' = None
        BY <1>6, <2>2 DEF Lose
      <3>2. QED
        BY <3>1 DEF QuotaInv, Window, RowHasAll, Clear
    <2>3. QED  BY <2>1, <2>2
  <1>7. ASSUME NEW a \in Actors, Crash(a) PROVE QuotaInv'
    <2>1. at'[a].pc = "idle" /\ \A b \in Actors \ {a} : at'[b] = at[b]
      BY <1>7, BecomeOthers DEF Crash, Idle
    <2>2. QED
      BY <1>7, <2>1, StaysClear DEF Crash, quotaVars, Clear
  <1>8. QED
    BY <1>1, <1>2, <1>3, <1>4, <1>5, <1>6, <1>7 DEF Next

(* For any number of requests, crashes and losses of Redis the account's   *)
(* counter, or the row when the counter is gone, has every token of its    *)
(* window, up to the first loss of what only Redis had, and up to a        *)
(* counter that was seeded with the row as it was before a call.           *)
THEOREM QuotaStaysCounted == Spec => []QuotaCounted
  <1>1. Init => QuotaInv
    BY DEF Init, QuotaInv, Window, RowHasAll, Clear, Idle
  <1>2. QuotaInv => QuotaCounted
    BY DEF QuotaInv, Window, RowHasAll, QuotaCounted, QuotaReseeded, Counted
  <1>3. QED
    BY <1>1, <1>2, QuotaInvariant, MeteringTypeCorrect, PTL DEF Spec
==============================================================================
