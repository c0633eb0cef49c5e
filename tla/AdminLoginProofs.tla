--------------------------- MODULE AdminLoginProofs ---------------------------
(***************************************************************************)
(* Theorems about AdminLogin, for any number of callers, flows and users   *)
(* and any limit.                                                          *)
(***************************************************************************)
EXTENDS AdminLogin, FiniteSetTheorems, TLAPS

LEMMA IdleType == Idle \in Calls
  BY EmailsAssumption DEF Idle, Calls, PC, Jobs

LEMMA BecomeType ==
    ASSUME at \in [Callers -> Calls], NEW c \in Callers, NEW v \in Calls, Become(c, v)
    PROVE  at' \in [Callers -> Calls]
  BY DEF Become

LEMMA GotoType ==
    ASSUME at \in [Callers -> Calls], NEW c \in Callers, NEW l \in PC, Goto(c, l)
    PROVE  at' \in [Callers -> Calls]
  <1>1. [at[c] EXCEPT !.pc = l] \in Calls
    BY DEF Calls
  <1>2. QED  BY <1>1, BecomeType DEF Goto

LEMMA SessionType ==
    ASSUME TypeOK, NEW c \in Callers, Session(c)
    PROVE  at' \in [Callers -> Calls] /\ {loggedIn', stuck', overlap'} \subseteq BOOLEAN
  <1>1. at' \in [Callers -> Calls]
    BY IdleType, BecomeType DEF Session, TypeOK
  <1>2. QED  BY <1>1 DEF Session, TypeOK

------------------------------------------------------------------------------
(* Types *)

LEMMA CounterTypes ==
    ASSUME TypeOK, NEW c \in Callers,
           TokenLogin(c) \/ CountFailure(c) \/ ReadTTL(c) \/ Arm(c) \/ Clear(c)
    PROVE  TypeOK'
  <1>0. at \in [Callers -> Calls]
    BY DEF TypeOK
  <1>1. CASE TokenLogin(c)
    <2>1. PICK right \in BOOLEAN : Become(c, [Idle EXCEPT !.pc = IF right THEN "clear" ELSE "fail"])
      BY <1>1 DEF TokenLogin
    <2>2. [Idle EXCEPT !.pc = IF right THEN "clear" ELSE "fail"] \in Calls
      BY IdleType DEF Calls, PC
    <2>3. at' \in [Callers -> Calls]
      BY <1>0, <2>1, <2>2, BecomeType
    <2>4. QED  BY <1>1, <2>3 DEF TokenLogin, TypeOK, counterVars, connectVars, history
  <1>2. CASE CountFailure(c)
    <2>1. at' \in [Callers -> Calls]
      BY <1>0, <1>2, GotoType DEF CountFailure, PC
    <2>2. QED  BY <1>2, <2>1 DEF CountFailure, TypeOK, connectVars, history
  <1>3. CASE ReadTTL(c)
    <2>1. at' \in [Callers -> Calls]
      BY <1>0, <1>3, GotoType, BecomeType, IdleType DEF ReadTTL, PC
    <2>2. QED  BY <1>3, <2>1 DEF ReadTTL, TypeOK, counterVars, connectVars, history
  <1>4. CASE Arm(c)
    <2>1. at' \in [Callers -> Calls]
      BY <1>0, <1>4, BecomeType, IdleType DEF Arm
    <2>2. QED  BY <1>4, <2>1 DEF Arm, Expire, TypeOK, connectVars, history
  <1>5. CASE Clear(c)
    <2>1. at' \in [Callers -> Calls]
      BY <1>0, <1>5, GotoType DEF Clear, PC
    <2>2. QED  BY <1>5, <2>1 DEF Clear, TypeOK, connectVars, history
  <1>6. QED  BY <1>1, <1>2, <1>3, <1>4, <1>5

LEMMA UserTypes ==
    ASSUME TypeOK, NEW c \in Callers,
           GoogleLogin(c) \/ MockLogin(c) \/ FindUser(c) \/ InsertUser(c) \/ Promote(c)
    PROVE  TypeOK'
  <1>0. at \in [Callers -> Calls] /\ at[c].email \in Emails
    BY DEF TypeOK, Calls
  <1>1. CASE GoogleLogin(c)
    <2>1. PICK e \in Emails :
              /\ Become(c, [Idle EXCEPT !.pc = "find", !.job = "google", !.email = e])
              /\ UNCHANGED <<counterVars, connectVars, users, history>>
      BY <1>1 DEF GoogleLogin
    <2>2. [Idle EXCEPT !.pc = "find", !.job = "google", !.email = e] \in Calls
      BY IdleType DEF Calls, PC, Jobs
    <2>3. at' \in [Callers -> Calls]
      BY <1>0, <2>1, <2>2, BecomeType
    <2>4. QED  BY <2>1, <2>3 DEF TypeOK, counterVars, connectVars, history
  <1>2. CASE MockLogin(c)
    <2>1. [Idle EXCEPT !.pc = "find", !.job = "mock"] \in Calls
      BY IdleType DEF Calls, PC, Jobs
    <2>2. at' \in [Callers -> Calls]
      BY <1>0, <1>2, <2>1, BecomeType DEF MockLogin
    <2>3. QED  BY <1>2, <2>2 DEF MockLogin, TypeOK, counterVars, connectVars, history
  <1>3. CASE FindUser(c)
    <2>1. CASE NothingToWrite(c)
      BY <1>3, <2>1, SessionType DEF FindUser, TypeOK, counterVars, connectVars
    <2>2. CASE ~NothingToWrite(c)
      <3>1. at' \in [Callers -> Calls]
        BY <1>0, <1>3, <2>2, GotoType DEF FindUser, PC
      <3>2. QED  BY <1>3, <2>2, <3>1 DEF FindUser, TypeOK, counterVars, connectVars, history
    <2>3. QED  BY <2>1, <2>2
  <1>4. CASE InsertUser(c)
    <2>1. NewRole(c) \in Roles
      BY DEF NewRole, Roles
    <2>2. CASE users[at[c].email] = "none"
      BY <1>0, <1>4, <2>1, <2>2, SessionType DEF InsertUser, TypeOK, counterVars, connectVars
    <2>3. CASE users[at[c].email] # "none"
      <3>1. at' \in [Callers -> Calls]
        BY <1>0, <1>4, <2>3, BecomeType, IdleType DEF InsertUser
      <3>2. QED  BY <1>4, <2>3, <3>1 DEF InsertUser, TypeOK, counterVars, connectVars, history
    <2>4. QED  BY <2>2, <2>3
  <1>5. CASE Promote(c)
    <2>1. users' \in [Emails -> Roles]
      BY <1>0, <1>5 DEF Promote, TypeOK, Roles
    <2>2. QED  BY <1>5, <2>1, SessionType DEF Promote, TypeOK, counterVars, connectVars
  <1>6. QED  BY <1>1, <1>2, <1>3, <1>4, <1>5

LEMMA ConnectTypes ==
    ASSUME TypeOK, NEW c \in Callers,
           Callback(c) \/ DropState(c) \/ Exchange(c) \/ SearchAccount(c) \/ SaveAccount(c)
    PROVE  TypeOK'
  <1>0. at \in [Callers -> Calls] /\ at[c] \in Calls
    BY DEF TypeOK
  <1>1. CASE Callback(c)
    <2>1. PICK f \in Flows :
              /\ Become(c, [Idle EXCEPT !.pc = "state", !.job = "connect", !.flow = f,
                                        !.known = f \in states])
              /\ UNCHANGED <<counterVars, connectVars, users, history>>
      BY <1>1 DEF Callback
    <2>2. ASSUME NEW k \in BOOLEAN
          PROVE  [Idle EXCEPT !.pc = "state", !.job = "connect", !.flow = f, !.known = k] \in Calls
      BY IdleType DEF Calls, PC, Jobs
    <2>3. [Idle EXCEPT !.pc = "state", !.job = "connect", !.flow = f, !.known = f \in states] \in Calls
      <3>1. (f \in states) \in BOOLEAN
        OBVIOUS
      <3>2. QED  BY <2>2, <3>1, Zenon
    <2>4. at' \in [Callers -> Calls]
      BY <1>0, <2>1, <2>3, BecomeType
    <2>5. QED  BY <2>1, <2>4 DEF TypeOK, counterVars, connectVars, history
  <1>2. CASE DropState(c)
    <2>1. at' \in [Callers -> Calls]
      BY <1>0, <1>2, GotoType DEF DropState, PC
    <2>2. QED  BY <1>2, <2>1 DEF DropState, TypeOK, counterVars, history
  <1>3. CASE Exchange(c)
    <2>1. [Idle EXCEPT !.pc = "search", !.job = "connect"] \in Calls
      BY IdleType DEF Calls, PC, Jobs
    <2>2. at' \in [Callers -> Calls]
      BY <1>0, <1>3, <2>1, BecomeType, IdleType DEF Exchange
    <2>3. QED  BY <1>3, <2>2 DEF Exchange, TypeOK, counterVars, history
  <1>4. CASE SearchAccount(c)
    <2>1. [at[c] EXCEPT !.pc = "save", !.known = ~Missing(c)] \in Calls
      BY <1>0 DEF Calls, PC, Missing
    <2>2. at' \in [Callers -> Calls]
      BY <1>0, <1>4, <2>1, BecomeType, IdleType DEF SearchAccount
    <2>3. overlap' \in BOOLEAN
      BY <1>4 DEF SearchAccount, TypeOK
    <2>4. QED  BY <1>4, <2>2, <2>3 DEF SearchAccount, TypeOK, counterVars, connectVars
  <1>5. CASE SaveAccount(c)
    <2>1. at' \in [Callers -> Calls]
      BY <1>0, <1>5, BecomeType, IdleType DEF SaveAccount
    <2>2. QED  BY <1>5, <2>1 DEF SaveAccount, TypeOK, counterVars, history
  <1>6. QED  BY <1>1, <1>2, <1>3, <1>4, <1>5

(* What the steps of time and faults do to the callers. *)
LEMMA CrashType ==
    ASSUME TypeOK, NEW c \in Callers, Crash(c)
    PROVE  TypeOK'
  <1>1. at' \in [Callers -> Calls]
    BY IdleType, BecomeType DEF Crash, TypeOK
  <1>2. QED  BY <1>1 DEF Crash, TypeOK, counterVars, connectVars

LEMMA LoginTypes == TypeOK /\ [Next]_vars => TypeOK'
  <1> SUFFICES ASSUME TypeOK, [Next]_vars PROVE TypeOK'
    OBVIOUS
  <1>1. ASSUME NEW c \in Callers,
               TokenLogin(c) \/ GoogleLogin(c) \/ MockLogin(c) \/ Callback(c) \/ Proceed(c) \/ Crash(c)
        PROVE TypeOK'
    BY <1>1, CounterTypes, UserTypes, ConnectTypes, CrashType DEF Proceed
  <1>2. ASSUME NEW f \in Flows, Visit(f) PROVE TypeOK'
    BY <1>2 DEF Visit, TypeOK, counterVars, history
  <1>3. CASE DeleteAccount
    BY <1>3 DEF DeleteAccount, TypeOK, counterVars, history
  <1>4. CASE AttemptsExpire
    BY <1>4 DEF AttemptsExpire, TypeOK, connectVars, history
  <1>5. CASE StateExpires
    BY <1>5 DEF StateExpires, TypeOK, counterVars, history
  <1>6. CASE UNCHANGED vars
    BY <1>6 DEF TypeOK, vars, counterVars, connectVars, history
  <1>7. QED  BY <1>1, <1>2, <1>3, <1>4, <1>5, <1>6 DEF Next

LEMMA InitTypes == Init => TypeOK
  <1> SUFFICES ASSUME Init PROVE TypeOK
    OBVIOUS
  <1>1. users \in [Emails -> Roles]
    BY DEF Init, Roles
  <1>2. at \in [Callers -> Calls]
    BY IdleType DEF Init
  <1>3. QED  BY <1>1, <1>2 DEF Init, TypeOK

(* Every variable of AdminLogin keeps its type, and a counter that does    *)
(* not exist has no TTL.                                                   *)
THEOREM LoginTypeCorrect == Spec => []TypeOK
  <1>1. QED  BY InitTypes, LoginTypes, PTL DEF Spec

------------------------------------------------------------------------------
(* Attempts *)

(* The callers whose failure is not yet counted. *)
Pending == {c \in Callers : at[c].pc = "fail"}

(* Every one of them found room when it looked. *)
Room == attempts + Cardinality(Pending) < AttemptLimit + Cardinality(Callers)

LEMMA PendingFinite ==
    ASSUME NEW S \in SUBSET Callers
    PROVE  IsFiniteSet(S) /\ Cardinality(S) \in Nat /\ Cardinality(S) <= Cardinality(Callers)
  BY CallersAssumption, FS_Subset, FS_CardinalityType

LEMMA CallersCount == Cardinality(Callers) \in Nat /\ AttemptLimit \in Nat /\ AttemptLimit > 0
  BY CallersAssumption, FS_CardinalityType

(* Nobody joins: the room does not shrink if the counter does not grow. *)
LEMMA NobodyJoins ==
    ASSUME TypeOK, TypeOK', Room, Pending' \subseteq Pending, attempts' = attempts \/ attempts' = 0
    PROVE  Room'
  <1>1. Cardinality(Pending') <= Cardinality(Pending)
    <2>1. Pending \in SUBSET Callers
      BY DEF Pending
    <2>2. QED  BY <2>1, PendingFinite, FS_Subset
  <1>2. Cardinality(Pending') \in Nat /\ Cardinality(Pending) \in Nat
    <2>1. Pending \in SUBSET Callers /\ Pending' \in SUBSET Callers
      BY DEF Pending
    <2>2. QED  BY <2>1, PendingFinite
  <1>3. attempts \in Nat /\ Room' = (attempts' + Cardinality(Pending') < AttemptLimit + Cardinality(Callers))
    BY DEF TypeOK, Room
  <1>4. QED  BY <1>1, <1>2, <1>3, CallersCount DEF Room

LEMMA BecomePending ==
    ASSUME TypeOK, NEW c \in Callers, NEW v \in Calls, Become(c, v), v.pc # "fail"
    PROVE  Pending' \subseteq Pending \ {c}
  BY DEF TypeOK, Become, Pending

LEMMA GotoPending ==
    ASSUME TypeOK, NEW c \in Callers, NEW l \in PC, Goto(c, l), l # "fail"
    PROVE  Pending' \subseteq Pending \ {c}
  <1>1. [at[c] EXCEPT !.pc = l] \in Calls /\ [at[c] EXCEPT !.pc = l].pc = l
    BY DEF TypeOK, Calls
  <1>2. QED  BY <1>1, BecomePending DEF Goto

LEMMA IdlePending ==
    ASSUME TypeOK, NEW c \in Callers, Become(c, Idle)
    PROVE  Pending' \subseteq Pending \ {c}
  <1>1. Idle.pc # "fail"
    BY DEF Idle
  <1>2. QED  BY <1>1, IdleType, BecomePending

LEMMA SessionPending ==
    ASSUME TypeOK, NEW c \in Callers, Session(c)
    PROVE  Pending' \subseteq Pending
  BY IdlePending DEF Session

(* A login that fails found attempts below the limit, and one caller fewer *)
(* than all of them is waiting to count.                                   *)
LEMMA LoginRoom ==
    ASSUME TypeOK, TypeOK', Room, NEW c \in Callers, TokenLogin(c)
    PROVE  Room'
  <1>1. PICK right \in BOOLEAN :
            /\ at[c].pc = "idle" /\ attempts < AttemptLimit
            /\ Become(c, [Idle EXCEPT !.pc = IF right THEN "clear" ELSE "fail"])
            /\ attempts' = attempts
    BY DEF TokenLogin, At, MayTry, counterVars
  <1>2. [Idle EXCEPT !.pc = "clear"] \in Calls /\ [Idle EXCEPT !.pc = "clear"].pc = "clear"
    BY IdleType DEF Calls, PC
  <1>3. CASE right
    <2>1. Pending' \subseteq Pending
      BY <1>1, <1>2, <1>3, BecomePending
    <2>2. QED  BY <1>1, <2>1, NobodyJoins
  <1>4. CASE ~right
    <2>1. Pending \in SUBSET (Callers \ {c}) /\ Pending' \subseteq Pending \cup {c}
      BY <1>1, <1>4 DEF TypeOK, Become, Pending
    <2>2. Cardinality(Callers \ {c}) = Cardinality(Callers) - 1 /\ IsFiniteSet(Callers \ {c})
      BY CallersAssumption, FS_RemoveElement
    <2>3. Cardinality(Pending) <= Cardinality(Callers) - 1 /\ IsFiniteSet(Pending)
      BY <2>1, <2>2, FS_Subset
    <2>4. Cardinality(Pending \cup {c}) <= Cardinality(Pending) + 1 /\ IsFiniteSet(Pending \cup {c})
      <3>1. c \notin Pending
        BY <1>1 DEF Pending
      <3>2. Cardinality(Pending \cup {c}) = Cardinality(Pending) + 1 /\ IsFiniteSet(Pending \cup {c})
        BY <2>3, <3>1, FS_AddElement
      <3>3. Cardinality(Pending) \in Nat
        BY <2>3, FS_CardinalityType
      <3>4. QED  BY <3>2, <3>3
    <2>5. Cardinality(Pending') <= Cardinality(Pending \cup {c})
      BY <2>1, <2>4, FS_Subset
    <2>6. /\ Cardinality(Pending') \in Nat /\ Cardinality(Pending) \in Nat
          /\ Cardinality(Pending \cup {c}) \in Nat
      <3>1. Pending' \in SUBSET Callers
        BY DEF Pending
      <3>2. QED  BY <2>3, <2>4, <3>1, PendingFinite, FS_CardinalityType
    <2>7. attempts \in Nat
      BY DEF TypeOK
    <2>8. attempts' + Cardinality(Pending') < AttemptLimit + Cardinality(Callers)
      BY <1>1, <2>3, <2>4, <2>5, <2>6, <2>7, CallersCount
    <2>9. QED  BY <2>8 DEF Room
  <1>5. QED  BY <1>3, <1>4

(* To count a failure takes one from the waiting. *)
LEMMA CountRoom ==
    ASSUME TypeOK, TypeOK', Room, NEW c \in Callers, CountFailure(c)
    PROVE  Room'
  <1>1. attempts' = attempts + 1 /\ c \in Pending /\ Goto(c, "ttl") /\ "ttl" \in PC
    BY DEF CountFailure, At, Pending, PC
  <1>2. Pending' \subseteq Pending \ {c} /\ Pending \in SUBSET Callers
    BY <1>1, GotoPending DEF Pending
  <1>3. IsFiniteSet(Pending) /\ Cardinality(Pending) \in Nat
    BY <1>2, PendingFinite
  <1>4. Cardinality(Pending \ {c}) = Cardinality(Pending) - 1 /\ IsFiniteSet(Pending \ {c})
    BY <1>1, <1>3, FS_RemoveElement
  <1>5. Cardinality(Pending') <= Cardinality(Pending) - 1 /\ IsFiniteSet(Pending')
    BY <1>2, <1>4, FS_Subset
  <1>6. Cardinality(Pending') \in Nat /\ attempts \in Nat
    BY <1>5, FS_CardinalityType DEF TypeOK
  <1>7. attempts' + Cardinality(Pending') < AttemptLimit + Cardinality(Callers)
    BY <1>1, <1>3, <1>5, <1>6, CallersCount DEF Room
  <1>8. QED  BY <1>7 DEF Room

(* Every other step of a caller leaves the counter alone or removes it. *)
LEMMA OtherRoom ==
    ASSUME TypeOK, NEW c \in Callers,
           \/ GoogleLogin(c) \/ MockLogin(c) \/ Callback(c) \/ Crash(c)
           \/ (Proceed(c) /\ ~CountFailure(c))
    PROVE  Pending' \subseteq Pending /\ (attempts' = attempts \/ attempts' = 0)
  <1>1. CASE GoogleLogin(c)
    <2>1. PICK e \in Emails : Become(c, [Idle EXCEPT !.pc = "find", !.job = "google", !.email = e])
      BY <1>1 DEF GoogleLogin
    <2>2. [Idle EXCEPT !.pc = "find", !.job = "google", !.email = e] \in Calls
      BY IdleType DEF Calls, PC, Jobs
    <2>3. [Idle EXCEPT !.pc = "find", !.job = "google", !.email = e].pc = "find"
      BY DEF Idle
    <2>4. QED  BY <1>1, <2>1, <2>2, <2>3, BecomePending DEF GoogleLogin, counterVars
  <1>2. CASE MockLogin(c)
    <2>1. [Idle EXCEPT !.pc = "find", !.job = "mock"] \in Calls
      BY IdleType DEF Calls, PC, Jobs
    <2>2. [Idle EXCEPT !.pc = "find", !.job = "mock"].pc = "find"
      BY DEF Idle
    <2>3. QED  BY <1>2, <2>1, <2>2, BecomePending DEF MockLogin, counterVars
  <1>3. CASE Callback(c)
    <2>1. PICK f \in Flows : Become(c, [Idle EXCEPT !.pc = "state", !.job = "connect", !.flow = f,
                                                   !.known = f \in states])
      BY <1>3 DEF Callback
    <2>2. at'[c].pc = "state" /\ \A d \in Callers \ {c} : at'[d] = at[d]
      BY <2>1 DEF Become, Idle, TypeOK
    <2>3. Pending' \subseteq Pending
      BY <2>2 DEF Pending
    <2>4. QED  BY <1>3, <2>3 DEF Callback, counterVars
  <1>4. CASE Crash(c)
    BY <1>4, IdlePending DEF Crash, counterVars
  <1>5. CASE ReadTTL(c)
    BY <1>5, IdlePending, GotoPending DEF ReadTTL, counterVars, PC
  <1>6. CASE Arm(c)
    BY <1>6, IdlePending DEF Arm
  <1>7. CASE Clear(c)
    BY <1>7, GotoPending DEF Clear, PC
  <1>8. CASE FindUser(c)
    <2>1. CASE NothingToWrite(c)
      BY <1>8, <2>1, SessionPending DEF FindUser, counterVars
    <2>2. CASE ~NothingToWrite(c)
      BY <1>8, <2>2, GotoPending DEF FindUser, counterVars, PC
    <2>3. QED  BY <2>1, <2>2
  <1>9. CASE InsertUser(c)
    <2>1. Pending' \subseteq Pending
      <3>1. CASE users[at[c].email] = "none"
        BY <1>9, <3>1, SessionPending DEF InsertUser
      <3>2. CASE users[at[c].email] # "none"
        BY <1>9, <3>2, IdlePending DEF InsertUser
      <3>3. QED  BY <3>1, <3>2
    <2>2. QED  BY <1>9, <2>1 DEF InsertUser, counterVars
  <1>10. CASE Promote(c)
    BY <1>10, SessionPending DEF Promote, counterVars
  <1>11. CASE DropState(c)
    BY <1>11, GotoPending DEF DropState, counterVars, PC
  <1>12. CASE Exchange(c)
    <2>1. [Idle EXCEPT !.pc = "search", !.job = "connect"] \in Calls
      BY IdleType DEF Calls, PC, Jobs
    <2>2. [Idle EXCEPT !.pc = "search", !.job = "connect"].pc = "search"
      BY DEF Idle
    <2>3. QED  BY <1>12, <2>1, <2>2, IdlePending, BecomePending DEF Exchange, counterVars
  <1>13. CASE SearchAccount(c)
    <2>1. [at[c] EXCEPT !.pc = "save", !.known = ~Missing(c)] \in Calls
      BY DEF TypeOK, Calls, PC, Missing
    <2>2. [at[c] EXCEPT !.pc = "save", !.known = ~Missing(c)].pc = "save"
      BY DEF TypeOK, Calls
    <2>3. QED  BY <1>13, <2>1, <2>2, IdlePending, BecomePending DEF SearchAccount, counterVars
  <1>14. CASE SaveAccount(c)
    BY <1>14, IdlePending DEF SaveAccount, counterVars
  <1>15. QED
    BY <1>1, <1>2, <1>3, <1>4, <1>5, <1>6, <1>7, <1>8, <1>9, <1>10, <1>11, <1>12, <1>13, <1>14
    DEF Proceed

LEMMA RoomStep == TypeOK /\ TypeOK' /\ Room /\ [Next]_vars => Room'
  <1> SUFFICES ASSUME TypeOK, TypeOK', Room, [Next]_vars PROVE Room'
    OBVIOUS
  <1>1. ASSUME NEW c \in Callers, TokenLogin(c) \/ GoogleLogin(c) \/ MockLogin(c) \/ Callback(c)
                                  \/ Proceed(c) \/ Crash(c)
        PROVE Room'
    BY <1>1, LoginRoom, CountRoom, OtherRoom, NobodyJoins
  <1>2. ASSUME NEW f \in Flows, Visit(f) PROVE Room'
    BY <1>2, NobodyJoins DEF Visit, counterVars, Pending
  <1>3. CASE DeleteAccount \/ AttemptsExpire \/ StateExpires
    BY <1>3, NobodyJoins DEF DeleteAccount, AttemptsExpire, StateExpires, counterVars, Pending
  <1>4. CASE UNCHANGED vars
    BY <1>4, NobodyJoins DEF vars, counterVars, Pending
  <1>5. QED  BY <1>1, <1>2, <1>3, <1>4 DEF Next

LEMMA InitRoom == Init => Room
  <1> SUFFICES ASSUME Init PROVE Room
    OBVIOUS
  <1>1. Pending = {}
    BY DEF Init, Pending, Idle
  <1>2. Cardinality(Pending) = 0
    BY <1>1, FS_EmptySet
  <1>3. QED  BY <1>2, CallersCount DEF Init, Room

LEMMA RoomBounds == TypeOK /\ Room => AttemptsBounded
  <1>1. Pending \in SUBSET Callers
    BY DEF Pending
  <1>2. Cardinality(Pending) \in Nat
    BY <1>1, PendingFinite
  <1>3. QED  BY <1>2, CallersCount DEF TypeOK, Room, AttemptsBounded

(* The failures counted never exceed the limit by more than the requests   *)
(* that were in flight when it was reached.                                *)
THEOREM AttemptsStayBounded == Spec => []AttemptsBounded
  <1>1. TypeOK /\ Room /\ [Next]_vars => TypeOK' /\ Room'
    BY LoginTypes, RoomStep
  <1>2. QED  BY <1>1, InitTypes, InitRoom, RoomBounds, PTL DEF Spec

------------------------------------------------------------------------------
(* Roles *)

(* A token login is always for the same user. *)
TokenJobs == \A c \in Callers : at[c].job = "token" => at[c].email = AdminEmail

AdminInv == TokenJobs /\ TokenMeansAdmin

LEMMA KeepsJob ==
    ASSUME TypeOK, TokenJobs, NEW c \in Callers, NEW v \in Calls, Become(c, v),
           v.job = "token" => v.email = AdminEmail
    PROVE  TokenJobs'
  BY DEF TypeOK, Become, TokenJobs

LEMMA GotoJob ==
    ASSUME TypeOK, TokenJobs, NEW c \in Callers, NEW l \in PC, Goto(c, l)
    PROVE  TokenJobs'
  <1>1. /\ [at[c] EXCEPT !.pc = l] \in Calls
        /\ [at[c] EXCEPT !.pc = l].job = at[c].job
        /\ [at[c] EXCEPT !.pc = l].email = at[c].email
    BY DEF TypeOK, Calls
  <1>2. QED  BY <1>1, KeepsJob DEF Goto, TokenJobs

LEMMA IdleJob ==
    ASSUME TypeOK, TokenJobs, NEW c \in Callers, Become(c, Idle)
    PROVE  TokenJobs'
  BY IdleType, KeepsJob DEF Idle

(* A session is handed out when the user has the role the login asks for. *)
LEMMA SessionAdmin ==
    ASSUME TypeOK, AdminInv, NEW c \in Callers, Session(c),
           users[AdminEmail] = "admin" => users'[AdminEmail] = "admin",
           at[c].job = "token" => users'[AdminEmail] = "admin"
    PROVE  AdminInv'
  <1>1. TokenJobs'
    BY IdleJob DEF Session, AdminInv
  <1>2. TokenMeansAdmin'
    BY DEF Session, AdminInv, TokenMeansAdmin
  <1>3. QED  BY <1>1, <1>2 DEF AdminInv

LEMMA NoSessionAdmin ==
    ASSUME TypeOK, AdminInv, TokenJobs', users' = users, loggedIn' = loggedIn
    PROVE  AdminInv'
  BY DEF AdminInv, TokenMeansAdmin

LEMMA UserAdmin ==
    ASSUME TypeOK, AdminInv, NEW c \in Callers, FindUser(c) \/ InsertUser(c) \/ Promote(c)
    PROVE  AdminInv'
  <1>0. at[c].job = "token" => at[c].email = AdminEmail
    BY DEF AdminInv, TokenJobs
  <1>1. CASE FindUser(c)
    <2>1. CASE NothingToWrite(c)
      <3>1. Session(c) /\ users' = users
        BY <1>1, <2>1 DEF FindUser
      <3>2. at[c].job = "token" => users[AdminEmail] = "admin"
        BY <1>0, <2>1 DEF NothingToWrite
      <3>3. QED  BY <3>1, <3>2, SessionAdmin
    <2>2. CASE ~NothingToWrite(c)
      <3>1. TokenJobs'
        BY <1>1, <2>2, GotoJob DEF FindUser, PC, AdminInv
      <3>2. QED  BY <1>1, <2>2, <3>1, NoSessionAdmin DEF FindUser, history
    <2>3. QED  BY <2>1, <2>2
  <1>2. CASE InsertUser(c)
    <2>1. CASE users[at[c].email] = "none"
      <3>1. Session(c) /\ users' = [users EXCEPT ![at[c].email] = NewRole(c)]
        BY <1>2, <2>1 DEF InsertUser
      <3>2. users[AdminEmail] = "admin" => users'[AdminEmail] = "admin"
        BY <2>1, <3>1 DEF TypeOK
      <3>3. at[c].job = "token" => users'[AdminEmail] = "admin"
        BY <1>0, <3>1, EmailsAssumption DEF NewRole, TypeOK
      <3>4. QED  BY <3>1, <3>2, <3>3, SessionAdmin
    <2>2. CASE users[at[c].email] # "none"
      <3>1. TokenJobs'
        BY <1>2, <2>2, IdleJob DEF InsertUser, AdminInv
      <3>2. QED  BY <1>2, <2>2, <3>1, NoSessionAdmin DEF InsertUser, history
    <2>3. QED  BY <2>1, <2>2
  <1>3. CASE Promote(c)
    <2>1. Session(c) /\ users' = [users EXCEPT ![at[c].email] = "admin"]
      BY <1>3 DEF Promote
    <2>2. /\ users[AdminEmail] = "admin" => users'[AdminEmail] = "admin"
          /\ at[c].job = "token" => users'[AdminEmail] = "admin"
      BY <1>0, <2>1, EmailsAssumption DEF TypeOK
    <2>3. QED  BY <2>1, <2>2, SessionAdmin
  <1>4. QED  BY <1>1, <1>2, <1>3

(* The steps that hand out no session. *)
LEMMA OtherAdmin ==
    ASSUME TypeOK, AdminInv, NEW c \in Callers,
           \/ TokenLogin(c) \/ GoogleLogin(c) \/ MockLogin(c) \/ Callback(c) \/ Crash(c)
           \/ CountFailure(c) \/ ReadTTL(c) \/ Arm(c) \/ Clear(c)
           \/ DropState(c) \/ Exchange(c) \/ SearchAccount(c) \/ SaveAccount(c)
    PROVE  AdminInv'
  <1>0. TokenJobs
    BY DEF AdminInv
  <1>1. CASE TokenLogin(c)
    <2>1. PICK right \in BOOLEAN :
              /\ Become(c, [Idle EXCEPT !.pc = IF right THEN "clear" ELSE "fail"])
              /\ UNCHANGED <<users, history>>
      BY <1>1 DEF TokenLogin
    <2>2. /\ [Idle EXCEPT !.pc = IF right THEN "clear" ELSE "fail"] \in Calls
          /\ [Idle EXCEPT !.pc = IF right THEN "clear" ELSE "fail"].email = AdminEmail
      BY IdleType DEF Idle, Calls, PC
    <2>3. TokenJobs'
      BY <1>0, <2>1, <2>2, KeepsJob
    <2>4. QED  BY <2>1, <2>3, NoSessionAdmin DEF history
  <1>2. CASE GoogleLogin(c)
    <2>1. PICK e \in Emails : /\ Become(c, [Idle EXCEPT !.pc = "find", !.job = "google", !.email = e])
                              /\ UNCHANGED <<users, history>>
      BY <1>2 DEF GoogleLogin
    <2>2. /\ [Idle EXCEPT !.pc = "find", !.job = "google", !.email = e] \in Calls
          /\ [Idle EXCEPT !.pc = "find", !.job = "google", !.email = e].job = "google"
      BY IdleType DEF Idle, Calls, PC, Jobs
    <2>3. TokenJobs'
      BY <1>0, <2>1, <2>2, KeepsJob
    <2>4. QED  BY <2>1, <2>3, NoSessionAdmin DEF history
  <1>3. CASE MockLogin(c)
    <2>1. /\ [Idle EXCEPT !.pc = "find", !.job = "mock"] \in Calls
          /\ [Idle EXCEPT !.pc = "find", !.job = "mock"].job = "mock"
      BY IdleType DEF Idle, Calls, PC, Jobs
    <2>2. TokenJobs'
      BY <1>0, <1>3, <2>1, KeepsJob DEF MockLogin
    <2>3. QED  BY <1>3, <2>2, NoSessionAdmin DEF MockLogin, history
  <1>4. CASE Callback(c)
    <2>1. PICK f \in Flows :
              /\ Become(c, [Idle EXCEPT !.pc = "state", !.job = "connect", !.flow = f,
                                        !.known = f \in states])
              /\ UNCHANGED <<users, history>>
      BY <1>4 DEF Callback
    <2>2. at'[c].job = "connect" /\ \A d \in Callers \ {c} : at'[d] = at[d]
      BY <2>1 DEF Become, Idle, TypeOK
    <2>3. TokenJobs'
      BY <1>0, <2>2 DEF TokenJobs
    <2>4. QED  BY <2>1, <2>3, NoSessionAdmin DEF history
  <1>5. CASE Crash(c)
    BY <1>0, <1>5, IdleJob, NoSessionAdmin DEF Crash
  <1>6. CASE CountFailure(c) \/ ReadTTL(c) \/ Arm(c) \/ Clear(c) \/ DropState(c)
    <2>1. TokenJobs'
      BY <1>0, <1>6, IdleJob, GotoJob DEF CountFailure, ReadTTL, Arm, Clear, DropState, PC
    <2>2. users' = users /\ loggedIn' = loggedIn
      BY <1>6 DEF CountFailure, ReadTTL, Arm, Clear, DropState, history
    <2>3. QED  BY <2>1, <2>2, NoSessionAdmin
  <1>7. CASE Exchange(c)
    <2>1. /\ [Idle EXCEPT !.pc = "search", !.job = "connect"] \in Calls
          /\ [Idle EXCEPT !.pc = "search", !.job = "connect"].job = "connect"
      BY IdleType DEF Idle, Calls, PC, Jobs
    <2>2. TokenJobs'
      BY <1>0, <1>7, <2>1, IdleJob, KeepsJob DEF Exchange
    <2>3. QED  BY <1>7, <2>2, NoSessionAdmin DEF Exchange, history
  <1>8. CASE SearchAccount(c)
    <2>1. /\ [at[c] EXCEPT !.pc = "save", !.known = ~Missing(c)] \in Calls
          /\ [at[c] EXCEPT !.pc = "save", !.known = ~Missing(c)].job = at[c].job
          /\ [at[c] EXCEPT !.pc = "save", !.known = ~Missing(c)].email = at[c].email
      BY DEF TypeOK, Calls, PC, Missing
    <2>2. at[c].job = "token" => at[c].email = AdminEmail
      BY <1>0 DEF TokenJobs
    <2>3. TokenJobs'
      BY <1>0, <1>8, <2>1, <2>2, IdleJob, KeepsJob DEF SearchAccount
    <2>4. QED  BY <1>8, <2>3, NoSessionAdmin DEF SearchAccount
  <1>9. CASE SaveAccount(c)
    BY <1>0, <1>9, IdleJob, NoSessionAdmin DEF SaveAccount, history
  <1>10. QED  BY <1>1, <1>2, <1>3, <1>4, <1>5, <1>6, <1>7, <1>8, <1>9

LEMMA AdminStep == TypeOK /\ AdminInv /\ [Next]_vars => AdminInv'
  <1> SUFFICES ASSUME TypeOK, AdminInv, [Next]_vars PROVE AdminInv'
    OBVIOUS
  <1>1. ASSUME NEW c \in Callers, TokenLogin(c) \/ GoogleLogin(c) \/ MockLogin(c) \/ Callback(c)
                                  \/ Proceed(c) \/ Crash(c)
        PROVE AdminInv'
    BY <1>1, UserAdmin, OtherAdmin DEF Proceed
  <1>2. CASE UNCHANGED <<at, users, history>>
    BY <1>2 DEF AdminInv, TokenJobs, TokenMeansAdmin, history
  <1>3. (\E f \in Flows : Visit(f)) \/ DeleteAccount \/ AttemptsExpire \/ StateExpires
            => UNCHANGED <<at, users, history>>
    BY DEF Visit, DeleteAccount, AttemptsExpire, StateExpires
  <1>4. UNCHANGED vars => UNCHANGED <<at, users, history>>
    BY DEF vars
  <1>5. QED  BY <1>1, <1>2, <1>3, <1>4 DEF Next

LEMMA InitAdmin == Init => AdminInv
  BY DEF Init, AdminInv, TokenJobs, TokenMeansAdmin, Idle

(* Whoever logs in by the admin token is an admin, whatever other logins   *)
(* of the same user happen before or at the same time.                     *)
THEOREM TokenLoginsAreAdmins == Spec => []TokenMeansAdmin
  <1>1. TypeOK /\ AdminInv /\ [Next]_vars => TypeOK' /\ AdminInv'
    BY LoginTypes, AdminStep
  <1>2. AdminInv => TokenMeansAdmin
    BY DEF AdminInv
  <1>3. QED  BY <1>1, <1>2, InitTypes, InitAdmin, PTL DEF Spec

------------------------------------------------------------------------------
(* Rows *)

(* A callback about to add the row that it did not find. *)
Adding(c) == at[c].pc = "save" /\ ~at[c].known

(* Without overlap there is one of them at most, and then no row. *)
RowInv == ~overlap =>
    /\ rows <= 1
    /\ \A c \in Callers : Adding(c) => rows = 0
    /\ \A c, d \in Callers : Adding(c) /\ Adding(d) => c = d

LEMMA FewerAdd ==
    ASSUME RowInv, rows' = rows, overlap' = overlap, \A c \in Callers : Adding(c)' => Adding(c)
    PROVE  RowInv'
  BY DEF RowInv, Adding

LEMMA BecomeAdds ==
    ASSUME TypeOK, NEW c \in Callers, NEW v \in Calls, Become(c, v), v.pc # "save"
    PROVE  \A d \in Callers : Adding(d)' => Adding(d) /\ d # c
  BY DEF TypeOK, Become, Adding

LEMMA GotoAdds ==
    ASSUME TypeOK, NEW c \in Callers, NEW l \in PC, Goto(c, l), l # "save"
    PROVE  \A d \in Callers : Adding(d)' => Adding(d) /\ d # c
  <1>1. [at[c] EXCEPT !.pc = l] \in Calls /\ [at[c] EXCEPT !.pc = l].pc = l
    BY DEF TypeOK, Calls
  <1>2. QED  BY <1>1, BecomeAdds DEF Goto

LEMMA IdleAdds ==
    ASSUME TypeOK, NEW c \in Callers, Become(c, Idle)
    PROVE  \A d \in Callers : Adding(d)' => Adding(d) /\ d # c
  BY IdleType, BecomeAdds DEF Idle

LEMMA SearchRow ==
    ASSUME TypeOK, RowInv, NEW c \in Callers, SearchAccount(c)
    PROVE  RowInv'
  <1>0. rows' = rows /\ rows \in Nat
    BY DEF SearchAccount, connectVars, TypeOK
  <1>1. CASE Become(c, Idle) /\ UNCHANGED overlap
    BY <1>0, <1>1, IdleAdds, FewerAdd
  <1>2. CASE /\ Missing(c) \/ rows = 1
             /\ Become(c, [at[c] EXCEPT !.pc = "save", !.known = ~Missing(c)])
             /\ overlap' = (overlap \/ \E d \in Callers \ {c} : At(d, "save") /\ ~at[d].known)
    <2> SUFFICES ASSUME ~overlap' PROVE RowInv'
      BY DEF RowInv
    <2>1. ~overlap /\ \A d \in Callers \ {c} : ~Adding(d)
      BY <1>2 DEF At, Adding
    <2>2. \A d \in Callers \ {c} : ~Adding(d)'
      BY <1>2, <2>1 DEF TypeOK, Become, Adding
    <2>3. Adding(c)' => rows = 0
      BY <1>2 DEF TypeOK, Calls, Become, Adding, Missing
    <2>4. rows' <= 1
      BY <1>0, <2>1 DEF RowInv
    <2>5. QED  BY <1>0, <2>2, <2>3, <2>4 DEF RowInv
  <1>3. QED  BY <1>1, <1>2 DEF SearchAccount

LEMMA SaveRow ==
    ASSUME TypeOK, RowInv, NEW c \in Callers, SaveAccount(c)
    PROVE  RowInv'
  <1>1. /\ at[c].pc = "save" /\ Become(c, Idle) /\ overlap' = overlap /\ rows \in Nat
        /\ rows' = IF at[c].known THEN rows ELSE rows + 1
    BY DEF SaveAccount, At, history, TypeOK
  <1>2. \A d \in Callers : Adding(d)' => Adding(d) /\ d # c
    BY <1>1, IdleAdds
  <1>3. CASE at[c].known
    BY <1>1, <1>2, <1>3, FewerAdd
  <1>4. CASE ~at[c].known
    <2>1. Adding(c)
      BY <1>1, <1>4 DEF Adding
    <2>2. ~overlap => rows' = 1 /\ \A d \in Callers : ~Adding(d)'
      BY <1>1, <1>2, <1>4, <2>1 DEF RowInv
    <2>3. QED  BY <1>1, <2>2 DEF RowInv
  <1>5. QED  BY <1>3, <1>4

(* The other steps of a caller touch neither the rows nor who adds one. *)
LEMMA OtherRow ==
    ASSUME TypeOK, RowInv, NEW c \in Callers,
           \/ TokenLogin(c) \/ GoogleLogin(c) \/ MockLogin(c) \/ Callback(c) \/ Crash(c)
           \/ CountFailure(c) \/ ReadTTL(c) \/ Arm(c) \/ Clear(c)
           \/ FindUser(c) \/ InsertUser(c) \/ Promote(c) \/ DropState(c) \/ Exchange(c)
    PROVE  RowInv'
  <1>1. CASE TokenLogin(c) \/ GoogleLogin(c) \/ MockLogin(c)
    <2>1. PICK v \in Calls : Become(c, v) /\ v.pc # "save" /\ UNCHANGED <<connectVars, history>>
      <3>1. CASE TokenLogin(c)
        <4>1. PICK right \in BOOLEAN :
                  /\ Become(c, [Idle EXCEPT !.pc = IF right THEN "clear" ELSE "fail"])
                  /\ UNCHANGED <<connectVars, history>>
          BY <3>1 DEF TokenLogin
        <4>2. /\ [Idle EXCEPT !.pc = IF right THEN "clear" ELSE "fail"] \in Calls
              /\ [Idle EXCEPT !.pc = IF right THEN "clear" ELSE "fail"].pc # "save"
          BY IdleType DEF Idle, Calls, PC
        <4>3. QED  BY <4>1, <4>2
      <3>2. CASE GoogleLogin(c)
        <4>1. PICK e \in Emails :
                  /\ Become(c, [Idle EXCEPT !.pc = "find", !.job = "google", !.email = e])
                  /\ UNCHANGED <<connectVars, history>>
          BY <3>2 DEF GoogleLogin
        <4>2. /\ [Idle EXCEPT !.pc = "find", !.job = "google", !.email = e] \in Calls
              /\ [Idle EXCEPT !.pc = "find", !.job = "google", !.email = e].pc # "save"
          BY IdleType DEF Idle, Calls, PC, Jobs
        <4>3. QED  BY <4>1, <4>2
      <3>3. CASE MockLogin(c)
        <4>1. /\ [Idle EXCEPT !.pc = "find", !.job = "mock"] \in Calls
              /\ [Idle EXCEPT !.pc = "find", !.job = "mock"].pc # "save"
          BY IdleType DEF Idle, Calls, PC, Jobs
        <4>2. QED  BY <3>3, <4>1 DEF MockLogin
      <3>4. QED  BY <1>1, <3>1, <3>2, <3>3
    <2>2. QED  BY <2>1, BecomeAdds, FewerAdd DEF connectVars, history
  <1>2. CASE Callback(c)
    <2>1. PICK f \in Flows :
              /\ Become(c, [Idle EXCEPT !.pc = "state", !.job = "connect", !.flow = f,
                                        !.known = f \in states])
              /\ UNCHANGED <<connectVars, history>>
      BY <1>2 DEF Callback
    <2>2. at'[c].pc = "state" /\ \A d \in Callers \ {c} : at'[d] = at[d]
      BY <2>1 DEF Become, Idle, TypeOK
    <2>3. \A d \in Callers : Adding(d)' => Adding(d)
      BY <2>2 DEF Adding
    <2>4. QED  BY <2>1, <2>3, FewerAdd DEF connectVars, history
  <1>3. CASE Crash(c)
    BY <1>3, IdleAdds, FewerAdd DEF Crash, connectVars
  <1>4. CASE CountFailure(c) \/ ReadTTL(c) \/ Arm(c) \/ Clear(c)
    <2>1. \A d \in Callers : Adding(d)' => Adding(d)
      BY <1>4, IdleAdds, GotoAdds DEF CountFailure, ReadTTL, Arm, Clear, PC
    <2>2. QED  BY <1>4, <2>1, FewerAdd DEF CountFailure, ReadTTL, Arm, Clear, connectVars, history
  <1>5. CASE FindUser(c) \/ InsertUser(c) \/ Promote(c)
    <2>1. Become(c, Idle) \/ Goto(c, "insert") \/ Goto(c, "promote")
      BY <1>5 DEF FindUser, InsertUser, Promote, Session
    <2>2. \A d \in Callers : Adding(d)' => Adding(d)
      BY <2>1, IdleAdds, GotoAdds DEF PC
    <2>3. rows' = rows
      BY <1>5 DEF FindUser, InsertUser, Promote, connectVars
    <2>4. overlap' = overlap
      BY <1>5 DEF FindUser, InsertUser, Promote, Session, history
    <2>5. QED  BY <2>2, <2>3, <2>4, FewerAdd
  <1>6. CASE DropState(c)
    BY <1>6, GotoAdds, FewerAdd DEF DropState, PC, history
  <1>7. CASE Exchange(c)
    <2>1. /\ [Idle EXCEPT !.pc = "search", !.job = "connect"] \in Calls
          /\ [Idle EXCEPT !.pc = "search", !.job = "connect"].pc # "save"
      BY IdleType DEF Idle, Calls, PC, Jobs
    <2>2. \A d \in Callers : Adding(d)' => Adding(d)
      BY <1>7, <2>1, IdleAdds, BecomeAdds DEF Exchange
    <2>3. QED  BY <1>7, <2>2, FewerAdd DEF Exchange, history
  <1>8. QED  BY <1>1, <1>2, <1>3, <1>4, <1>5, <1>6, <1>7

LEMMA RowStep == TypeOK /\ RowInv /\ [Next]_vars => RowInv'
  <1> SUFFICES ASSUME TypeOK, RowInv, [Next]_vars PROVE RowInv'
    OBVIOUS
  <1>1. ASSUME NEW c \in Callers, TokenLogin(c) \/ GoogleLogin(c) \/ MockLogin(c) \/ Callback(c)
                                  \/ Proceed(c) \/ Crash(c)
        PROVE RowInv'
    BY <1>1, SearchRow, SaveRow, OtherRow DEF Proceed
  <1>2. CASE DeleteAccount
    <2>1. rows \in Nat /\ rows > 0 /\ rows' = rows - 1 /\ at' = at /\ overlap' = overlap
      BY <1>2 DEF DeleteAccount, TypeOK, history
    <2>2. QED  BY <2>1 DEF RowInv, Adding
  <1>3. CASE UNCHANGED <<rows, at, overlap>>
    BY <1>3, FewerAdd DEF Adding
  <1>4. (\E f \in Flows : Visit(f)) \/ AttemptsExpire \/ StateExpires => UNCHANGED <<rows, at, overlap>>
    BY DEF Visit, AttemptsExpire, StateExpires, connectVars, history
  <1>5. UNCHANGED vars => UNCHANGED <<rows, at, overlap>>
    BY DEF vars, connectVars, history
  <1>6. QED  BY <1>1, <1>2, <1>3, <1>4, <1>5 DEF Next

LEMMA InitRow == Init => RowInv
  BY DEF Init, RowInv, Adding, Idle

(* As long as no two callbacks overlapped while there was no row, a Google *)
(* account has at most one.                                                *)
THEOREM RowsStaySingle == Spec => []OneRow
  <1>1. TypeOK /\ RowInv /\ [Next]_vars => TypeOK' /\ RowInv'
    BY LoginTypes, RowStep
  <1>2. RowInv => OneRow
    BY DEF RowInv, OneRow
  <1>3. QED  BY <1>1, <1>2, InitTypes, InitRow, PTL DEF Spec
==============================================================================
