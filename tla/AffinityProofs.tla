---------------------------- MODULE AffinityProofs ----------------------------
(***************************************************************************)
(* Theorems about SessionAffinity, for any number of requests, accounts,   *)
(* providers and models.                                                   *)
(***************************************************************************)
EXTENDS SessionAffinity, TLAPS

LEMMA ReadsType ==
    ASSUME NEW r \in Requests, NEW found \in Reads(r)
    PROVE  found[1] \in Models /\ found[2] \in SUBSET Creds
  BY ModelsAssumption DEF Reads

(* Whoever has an account in hand knows it, and the model of its binding.  *)
Carrying == {"bound", "renew", "check", "set", "winner", "undo", "use",
             "invalidate", "delete", "unlock"}

Placed == \A r \in Requests :
    /\ pc[r] \in Carrying => at[r] \in Creds
    /\ pc[r] \in {"idle", "select", "lock", "reread"} => at[r] = None
    /\ pc[r] \in Carrying \cup {"scan", "pick", "leave"} => model[r] \in Models
    /\ pc[r] \in Section \cup {"lock"} => lockOn[r] \in Models

TypeInv == TypeOK /\ Placed

LEMMA MineKey ==
    ASSUME TypeInv, NEW r \in Requests, at[r] \in Creds, model[r] \in Models
    PROVE  Mine(r) \in Namespaces \X Models /\ Mine(r)[1] = Namespace[at[r]]
  BY DEF Mine, Key, Namespaces

------------------------------------------------------------------------------
(* Types *)

LEMMA LookTypes ==
    ASSUME TypeInv, NEW r \in Requests, Look(r)
    PROVE  TypeInv'
  <1> USE DEF TypeInv, TypeOK, Placed, Carrying, PC, Section, Goto, redisVars, foundVars, history
  <1>1. CASE Arrive(r)
    BY <1>1 DEF Arrive
  <1>2. CASE Select(r)
    BY <1>2, ReadsType DEF Select
  <1>3. CASE NoCandidate(r)
    BY <1>3 DEF NoCandidate, End
  <1>4. CASE LockSession(r)
    BY <1>4 DEF LockSession
  <1>5. CASE GiveUpSession(r)
    BY <1>5 DEF GiveUpSession, End
  <1>6. CASE Reread(r)
    BY <1>6, ReadsType DEF Reread
  <1>7. QED  BY <1>1, <1>2, <1>3, <1>4, <1>5, <1>6 DEF Look

(* A write of None, or of an account under a key of its own provider. *)
LEMMA BindTypes ==
    ASSUME TypeInv, NEW k \in Namespaces \X Models, NEW v \in Creds \cup {None}, SetBind(k, v),
           v # None => Namespace[v] = k[1]
    PROVE  /\ bind' \in [Namespaces \X Models -> Creds \cup {None}]
           /\ \A l \in Namespaces \X Models : bind'[l] # None => Namespace[bind'[l]] = l[1]
  BY DEF TypeInv, TypeOK, SetBind

LEMMA FollowTypes ==
    ASSUME TypeInv, NEW r \in Requests, Follow(r)
    PROVE  TypeInv'
  <1>0. pc[r] = "bound" => at[r] \in Creds /\ Mine(r) \in Namespaces \X Models
    BY MineKey DEF TypeInv, Placed, Carrying
  <1> USE DEF TypeInv, TypeOK, Placed, Carrying, PC, Section, Goto, redisVars, foundVars, history
  <1>1. CASE ReadBinding(r)
    <2>1. PICK c \in todo[r] :
              /\ pc[r] = "scan"
              /\ \/ /\ todo' = [todo EXCEPT ![r] = {d \in @ : Namespace[d] # Namespace[c]}]
                    /\ UNCHANGED <<pc, at>>
                 \/ /\ bind[Key(c, model[r])] # None
                    /\ at' = [at EXCEPT ![r] = bind[Key(c, model[r])]]
                    /\ todo' = [todo EXCEPT ![r] = {}]
                    /\ Goto(r, "bound")
              /\ UNCHANGED <<redisVars, foundVars, tried, history>>
      BY <1>1 DEF ReadBinding
    <2>2. bind[Key(c, model[r])] \in Creds \cup {None}
      BY <2>1 DEF Key, Namespaces
    <2>3. {d \in todo[r] : Namespace[d] # Namespace[c]} \in SUBSET Creds
      OBVIOUS
    <2>4. QED  BY <2>1, <2>2, <2>3
  <1>2. CASE NotBound(r)
    BY <1>2 DEF NotBound, StartScan
  <1>3. CASE BoundExcluded(r)
    BY <1>3 DEF BoundExcluded, LeaveEmpty
  <1>4. CASE DropStale(r) \/ DropExhausted(r)
    <2>1. /\ bind' \in [Namespaces \X Models -> Creds \cup {None}]
          /\ \A l \in Namespaces \X Models : bind'[l] # None => Namespace[bind'[l]] = l[1]
      BY <1>0, <1>4, BindTypes DEF DropStale, DropExhausted
    <2>2. \E S \in SUBSET Creds : StartScan(r, S)
      BY <1>4 DEF DropStale, DropExhausted
    <2>3. pc[r] = "bound"
      BY <1>4 DEF DropStale, DropExhausted
    <2>4. QED  BY <2>1, <2>2, <2>3 DEF StartScan
  <1>5. CASE BookBound(r)
    BY <1>5 DEF BookBound, Slots!Take
  <1>6. CASE BoundBusy(r)
    BY <1>6 DEF BoundBusy, LeaveEmpty
  <1>7. CASE Renew(r)
    BY <1>7 DEF Renew
  <1>8. QED  BY <1>1, <1>2, <1>3, <1>4, <1>5, <1>6, <1>7 DEF Follow

LEMMA BindNewTypes ==
    ASSUME TypeInv, NEW r \in Requests, BindNew(r)
    PROVE  TypeInv'
  <1>0. pc[r] = "set" => /\ at[r] \in Creds /\ Mine(r) \in Namespaces \X Models
                         /\ Mine(r)[1] = Namespace[at[r]]
    BY MineKey DEF TypeInv, Placed, Carrying
  <1> USE DEF TypeInv, TypeOK, Placed, Carrying, PC, Section, Goto, redisVars, foundVars, history
  <1>1. CASE BookNext(r)
    BY <1>1 DEF BookNext, NextUp, Slots!Take
  <1>2. CASE SkipRefused(r)
    BY <1>2 DEF SkipRefused
  <1>3. CASE NothingBooked(r)
    BY <1>3 DEF NothingBooked, LeaveEmpty
  <1>4. CASE CheckExisting(r)
    BY <1>4 DEF CheckExisting
  <1>5. CASE BindFirst(r)
    <2>1. /\ bind' \in [Namespaces \X Models -> Creds \cup {None}]
          /\ \A l \in Namespaces \X Models : bind'[l] # None => Namespace[bind'[l]] = l[1]
      BY <1>0, <1>5, BindTypes DEF BindFirst
    <2>2. QED  BY <1>5, <2>1 DEF BindFirst
  <1>6. CASE ReadWinner(r)
    BY <1>6 DEF ReadWinner
  <1>7. CASE Undo(r)
    BY <1>7 DEF Undo, LeaveEmpty, Slots!Give
  <1>8. QED  BY <1>1, <1>2, <1>3, <1>4, <1>5, <1>6, <1>7 DEF BindNew

LEMMA UseTypes ==
    ASSUME TypeInv, NEW r \in Requests, Use(r)
    PROVE  TypeInv'
  <1>0. pc[r] = "delete" => at[r] \in Creds /\ Mine(r) \in Namespaces \X Models
    BY MineKey DEF TypeInv, Placed, Carrying
  <1> USE DEF TypeInv, TypeOK, Placed, Carrying, PC, Section, Goto, redisVars, foundVars, history,
              NextAccount, AfterFailure, End, Unlock
  <1>1. CASE Leave(r)
    <2>1. slock' \in [Models -> Requests \cup {None}]
      BY <1>1 DEF Leave
    <2>2. CASE at[r] = None
      <3>1. End(r) /\ UNCHANGED <<bind, users, lapsed>> /\ faded' = faded \ {r}
        BY <1>1, <2>2 DEF Leave
      <3>2. TypeOK'
        BY <2>1, <3>1
      <3>3. Placed'
        BY <3>1
      <3>4. QED  BY <3>2, <3>3
    <2>3. CASE at[r] # None
      <3>1. /\ pc' = [pc EXCEPT ![r] = "use"] /\ lockOn' = [lockOn EXCEPT ![r] = None]
            /\ cand' = [cand EXCEPT ![r] = {}] /\ pc[r] = "leave"
            /\ UNCHANGED <<bind, users, at, model, todo, tried, lapsed>> /\ faded' = faded \ {r}
        BY <1>1, <2>3 DEF Leave
      <3>2. TypeOK'
        BY <2>1, <3>1
      <3>3. Placed'
        BY <2>3, <3>1
      <3>4. QED  BY <3>2, <3>3
    <2>4. QED  BY <2>2, <2>3
  <1>2. CASE Finish(r)
    BY <1>2 DEF Finish, Slots!Give
  <1>3. CASE FailKeeping(r)
    BY <1>3 DEF FailKeeping, Slots!Give
  <1>4. CASE FailInvalidating(r)
    BY <1>4 DEF FailInvalidating, Slots!Give
  <1>5. CASE LockAgain(r)
    BY <1>5 DEF LockAgain
  <1>6. CASE GiveUpInvalidate(r)
    <2>1. CASE NextAccount(r)
      BY <1>6, <2>1 DEF GiveUpInvalidate
    <2>2. CASE End(r)
      BY <1>6, <2>2 DEF GiveUpInvalidate
    <2>3. QED  BY <1>6, <2>1, <2>2 DEF GiveUpInvalidate
  <1>7. CASE Delete(r)
    <2>1. /\ bind' \in [Namespaces \X Models -> Creds \cup {None}]
          /\ \A l \in Namespaces \X Models : bind'[l] # None => Namespace[bind'[l]] = l[1]
      BY <1>0, <1>7, BindTypes DEF Delete
    <2>2. QED  BY <1>7, <2>1 DEF Delete
  <1>8. CASE UnlockAgain(r)
    <2>1. slock' \in [Models -> Requests \cup {None}]
      BY <1>8 DEF UnlockAgain
    <2>2. CASE NextAccount(r)
      BY <1>8, <2>1, <2>2 DEF UnlockAgain
    <2>3. CASE End(r)
      BY <1>8, <2>1, <2>3 DEF UnlockAgain
    <2>4. QED  BY <1>8, <2>2, <2>3 DEF UnlockAgain
  <1>9. QED  BY <1>1, <1>2, <1>3, <1>4, <1>5, <1>6, <1>7, <1>8 DEF Use

LEMMA TypeStep == TypeInv /\ [Next]_vars => TypeInv'
  <1> SUFFICES ASSUME TypeInv, [Next]_vars PROVE TypeInv'
    OBVIOUS
  <1>1. ASSUME NEW r \in Requests, Step(r) PROVE TypeInv'
    BY <1>1, LookTypes, FollowTypes, BindNewTypes, UseTypes DEF Step
  <1>2. ASSUME NEW m \in Models, LockTTL(m) PROVE TypeInv'
    BY <1>2 DEF LockTTL, TypeInv, TypeOK, Placed, foundVars, history
  <1>3. ASSUME NEW k \in Namespaces \X Models, BindTTL(k) PROVE TypeInv'
    BY <1>3, BindTypes DEF BindTTL, TypeInv, TypeOK, Placed, foundVars, history
  <1>4. CASE UNCHANGED vars
    BY <1>4 DEF vars, history, TypeInv, TypeOK, Placed
  <1>5. QED  BY <1>1, <1>2, <1>3, <1>4 DEF Next

LEMMA InitTypes == Init => TypeInv
  <1> SUFFICES ASSUME Init PROVE TypeInv
    OBVIOUS
  <1>1. TypeOK
    BY DEF Init, TypeOK, PC
  <1>2. Placed
    BY DEF Init, Placed, Carrying, Section
  <1>3. QED  BY <1>1, <1>2 DEF TypeInv

(* Every variable keeps its type, and the key of a binding is always in    *)
(* the namespace of the account it names.                                  *)
THEOREM AffinityTypeCorrect == Spec => []TypeOK
  <1>1. TypeInv => TypeOK
    BY DEF TypeInv
  <1>2. QED  BY <1>1, InitTypes, TypeStep, PTL DEF Spec

------------------------------------------------------------------------------
(* A step of a request leaves the others where they are *)

Apart(r) == \A q \in Requests \ {r} :
    /\ pc'[q] = pc[q] /\ at'[q] = at[q] /\ lockOn'[q] = lockOn[q] /\ model'[q] = model[q]
    /\ q \in faded => q \in faded'

LEMMA StepApart ==
    ASSUME TypeInv, NEW r \in Requests, Step(r)
    PROVE  Apart(r)
  <1> USE DEF TypeInv, TypeOK, Apart, Goto, End, redisVars, foundVars, history
  <1>1. CASE Look(r)
    BY <1>1 DEF Look, Arrive, Select, NoCandidate, LockSession, GiveUpSession, Reread
  <1>2. CASE Follow(r)
    <2>1. CASE ReadBinding(r)
      BY <2>1 DEF ReadBinding
    <2>2. CASE NotBound(r) \/ DropStale(r) \/ DropExhausted(r)
      BY <2>2 DEF NotBound, DropStale, DropExhausted, StartScan
    <2>3. CASE BoundExcluded(r) \/ BookBound(r) \/ BoundBusy(r) \/ Renew(r)
      BY <2>3 DEF BoundExcluded, BookBound, BoundBusy, Renew, LeaveEmpty
    <2>4. QED  BY <1>2, <2>1, <2>2, <2>3 DEF Follow
  <1>3. CASE BindNew(r)
    BY <1>3 DEF BindNew, BookNext, SkipRefused, NothingBooked, CheckExisting, BindFirst,
                ReadWinner, Undo, LeaveEmpty
  <1>4. CASE Use(r)
    <2>1. CASE Leave(r) \/ Finish(r) \/ FailKeeping(r) \/ FailInvalidating(r)
      BY <2>1 DEF Leave, Finish, FailKeeping, FailInvalidating, NextAccount
    <2>2. CASE LockAgain(r) \/ GiveUpInvalidate(r) \/ Delete(r) \/ UnlockAgain(r)
      BY <2>2 DEF LockAgain, GiveUpInvalidate, Delete, UnlockAgain, AfterFailure, NextAccount
    <2>3. QED  BY <1>4, <2>1, <2>2 DEF Use
  <1>5. QED  BY <1>1, <1>2, <1>3, <1>4 DEF Step

------------------------------------------------------------------------------
(* Leases *)

LEMMA KeepsLease ==
    ASSUME LeasesAreUsed, TypeInv, NEW r \in Requests, Apart(r), users' = users,
           pc[r] \in Leased /\ at[r] \in Creds => pc'[r] \in Leased /\ at'[r] = at[r]
    PROVE  LeasesAreUsed'
  BY DEF LeasesAreUsed, Apart, TypeInv, TypeOK

LEMMA GivesLease ==
    ASSUME LeasesAreUsed, TypeInv, NEW r \in Requests, Apart(r), Slots!Give(r, at[r])
    PROVE  LeasesAreUsed'
  BY DEF LeasesAreUsed, Apart, TypeInv, TypeOK, Slots!Give

LEMMA TakesLease ==
    ASSUME LeasesAreUsed, TypeInv, NEW r \in Requests, Apart(r), NEW c \in Creds,
           Slots!Take(r, c), pc'[r] \in Leased, at'[r] = c
    PROVE  LeasesAreUsed'
  BY DEF LeasesAreUsed, Apart, TypeInv, TypeOK, Slots!Take

LEMMA LeaseStep ==
    ASSUME LeasesAreUsed, TypeInv, NEW r \in Requests, Step(r)
    PROVE  LeasesAreUsed'
  <1>0. Apart(r) /\ pc \in [Requests -> PC] /\ at \in [Requests -> Creds \cup {None}]
    BY StepApart DEF TypeInv, TypeOK
  <1> USE DEF Goto, Leased, redisVars, foundVars, history
  <1>1. CASE Look(r)
    BY <1>0, <1>1, KeepsLease
    DEF Look, Arrive, Select, NoCandidate, LockSession, GiveUpSession, Reread, End
  <1>2. CASE ReadBinding(r)
    BY <1>0, <1>2, KeepsLease DEF ReadBinding
  <1>3. CASE NotBound(r) \/ DropStale(r) \/ DropExhausted(r)
    BY <1>0, <1>3, KeepsLease DEF NotBound, DropStale, DropExhausted, StartScan
  <1>4. CASE BoundExcluded(r) \/ BoundBusy(r) \/ Renew(r)
    BY <1>0, <1>4, KeepsLease DEF BoundExcluded, BoundBusy, Renew, LeaveEmpty
  <1>5. CASE BookBound(r)
    <2>1. at[r] \in Creds /\ pc'[r] = "renew" /\ at'[r] = at[r] /\ Slots!Take(r, at[r])
      BY <1>0, <1>5 DEF BookBound, TypeInv, Placed, Carrying
    <2>2. QED  BY <1>0, <2>1, TakesLease
  <1>6. CASE BookNext(r)
    <2>1. PICK c \in Creds : Slots!Take(r, c) /\ at' = [at EXCEPT ![r] = c] /\ Goto(r, "check")
      BY <1>6 DEF BookNext
    <2>2. QED  BY <1>0, <2>1, TakesLease
  <1>7. CASE SkipRefused(r) \/ NothingBooked(r)
    BY <1>0, <1>7, KeepsLease DEF SkipRefused, NothingBooked, LeaveEmpty
  <1>8. CASE CheckExisting(r) \/ BindFirst(r) \/ ReadWinner(r)
    BY <1>0, <1>8, KeepsLease DEF CheckExisting, BindFirst, ReadWinner
  <1>9. CASE Undo(r) \/ Finish(r) \/ FailKeeping(r) \/ FailInvalidating(r)
    BY <1>0, <1>9, GivesLease DEF Undo, Finish, FailKeeping, FailInvalidating
  <1>10. CASE Leave(r)
    BY <1>0, <1>10, KeepsLease, NoneAssumption DEF Leave, End
  <1>11. CASE LockAgain(r) \/ GiveUpInvalidate(r) \/ Delete(r) \/ UnlockAgain(r)
    BY <1>0, <1>11, KeepsLease DEF LockAgain, GiveUpInvalidate, Delete, UnlockAgain
  <1>12. QED
    BY <1>1, <1>2, <1>3, <1>4, <1>5, <1>6, <1>7, <1>8, <1>9, <1>10, <1>11
    DEF Step, Follow, BindNew, Use

(* A request holds a lease on the account it is booked on and on no other, *)
(* so a request that loses the first bind has given its lease back.        *)
THEOREM AffinityLeasesUsed == Spec => []LeasesAreUsed
  <1>1. Init => LeasesAreUsed
    BY DEF Init, LeasesAreUsed
  <1>2. TypeInv /\ LeasesAreUsed /\ [Next]_vars => LeasesAreUsed'
    <2> SUFFICES ASSUME TypeInv, LeasesAreUsed, [Next]_vars PROVE LeasesAreUsed'
      OBVIOUS
    <2>1. ASSUME NEW r \in Requests, Step(r) PROVE LeasesAreUsed'
      BY <2>1, LeaseStep
    <2>2. CASE UNCHANGED <<users, pc, at>>
      BY <2>2 DEF LeasesAreUsed
    <2>3. (\E m \in Models : LockTTL(m)) \/ (\E k \in Namespaces \X Models : BindTTL(k))
              \/ UNCHANGED vars => UNCHANGED <<users, pc, at>>
      BY DEF LockTTL, BindTTL, vars, history
    <2>4. QED  BY <2>1, <2>2, <2>3 DEF Next
  <1>3. QED  BY <1>1, <1>2, InitTypes, TypeStep, PTL DEF Spec

------------------------------------------------------------------------------
(* Bindings *)

LEMMA SetBindSwitches ==
    ASSUME TypeInv, NEW k, NEW v, SetBind(k, v), v = None \/ bind[k] = None
    PROVE  \A l \in Namespaces \X Models : bind[l] # None /\ bind'[l] # None => bind'[l] = bind[l]
  BY DEF SetBind, TypeInv, TypeOK

LEMMA StepSwitches ==
    ASSUME TypeInv, [Next]_vars
    PROVE  \A l \in Namespaces \X Models : bind[l] # None /\ bind'[l] # None => bind'[l] = bind[l]
  <1>1. CASE bind' = bind
    BY <1>1
  <1>2. ASSUME NEW r \in Requests, DropStale(r) \/ DropExhausted(r) \/ BindFirst(r) \/ Delete(r)
        PROVE  bind' = bind \/ \E k, v : SetBind(k, v) /\ (v = None \/ bind[k] = None)
    BY <1>2 DEF DropStale, DropExhausted, BindFirst, Delete
  <1>3. ASSUME NEW k \in Namespaces \X Models, BindTTL(k)
        PROVE  SetBind(k, None)
    BY <1>3 DEF BindTTL
  <1>4. ASSUME NEW r \in Requests, Step(r)
        PROVE  DropStale(r) \/ DropExhausted(r) \/ BindFirst(r) \/ Delete(r) \/ bind' = bind
    <2>1. Look(r) => bind' = bind
      BY DEF Look, Arrive, Select, NoCandidate, LockSession, GiveUpSession, Reread, redisVars
    <2>2. Follow(r) => DropStale(r) \/ DropExhausted(r) \/ bind' = bind
      BY DEF Follow, ReadBinding, NotBound, BoundExcluded, BookBound, BoundBusy, Renew,
             LeaveEmpty, redisVars
    <2>3. BindNew(r) => BindFirst(r) \/ bind' = bind
      BY DEF BindNew, BookNext, SkipRefused, NothingBooked, CheckExisting, ReadWinner, Undo,
             LeaveEmpty, redisVars
    <2>4. Use(r) => Delete(r) \/ bind' = bind
      BY DEF Use, Leave, Finish, FailKeeping, FailInvalidating, LockAgain, GiveUpInvalidate,
             UnlockAgain, redisVars
    <2>5. QED  BY <1>4, <2>1, <2>2, <2>3, <2>4 DEF Step
  <1>5. (\E m \in Models : LockTTL(m)) \/ UNCHANGED vars => bind' = bind
    BY DEF LockTTL, vars, history
  <1>6. QED  BY <1>1, <1>2, <1>3, <1>4, <1>5, SetBindSwitches DEF Next

(* No step replaces one bound account by another, whether the session      *)
(* locks hold or not: SET NX and the removals are the only writes.         *)
THEOREM BindingsNeverSwitch == Spec => NeverSwitches
  <1>1. TypeInv /\ [Next]_vars =>
            [\A k \in Namespaces \X Models :
                bind[k] # None /\ bind'[k] # None => bind'[k] = bind[k]]_vars
    BY StepSwitches
  <1>2. QED  BY <1>1, InitTypes, TypeStep, PTL DEF Spec, NeverSwitches

------------------------------------------------------------------------------
(* Locks *)

(* Whoever is in its section holds the lock of the model it works on. *)
LockInv == ~ lapsed => \A r \in Requests :
    pc[r] \in Section => slock[lockOn[r]] = r /\ (pc[r] # "reread" => model[r] = lockOn[r])

LEMMA KeepsLock ==
    ASSUME LockInv, TypeInv, NEW r \in Requests, Apart(r), slock' = slock, lapsed' = lapsed,
           pc'[r] \in Section => /\ pc[r] \in Section /\ pc[r] # "reread"
                                 /\ lockOn'[r] = lockOn[r] /\ model'[r] = model[r]
    PROVE  LockInv'
  BY DEF LockInv, Apart

LEMMA TakesLock ==
    ASSUME LockInv, TypeInv, NEW r \in Requests, Apart(r), lapsed' = lapsed, NEW m \in Models,
           slock[m] = None, slock' = [slock EXCEPT ![m] = r], lockOn'[r] = m,
           pc'[r] = "reread" \/ model'[r] = m
    PROVE  LockInv'
  <1> SUFFICES ASSUME ~ lapsed, NEW q \in Requests, pc'[q] \in Section
               PROVE  slock'[lockOn'[q]] = q /\ (pc'[q] # "reread" => model'[q] = lockOn'[q])
    BY DEF LockInv
  <1>1. slock \in [Models -> Requests \cup {None}]
    BY DEF TypeInv, TypeOK
  <1>2. CASE q = r
    BY <1>1, <1>2
  <1>3. CASE q # r
    <2>1. pc[q] \in Section /\ lockOn'[q] = lockOn[q] /\ model'[q] = model[q] /\ pc'[q] = pc[q]
      BY <1>3 DEF Apart
    <2>2. slock[lockOn[q]] = q /\ lockOn[q] \in Models
      BY <2>1 DEF LockInv, TypeInv, Placed
    <2>3. lockOn[q] # m
      BY <2>2, NoneAssumption
    <2>4. QED  BY <1>1, <2>1, <2>2, <2>3 DEF LockInv
  <1>4. QED  BY <1>2, <1>3

LEMMA FreesLock ==
    ASSUME LockInv, TypeInv, NEW r \in Requests, Apart(r), lapsed' = lapsed, Unlock(r),
           pc'[r] \notin Section
    PROVE  LockInv'
  <1> SUFFICES ASSUME ~ lapsed, NEW q \in Requests, pc'[q] \in Section
               PROVE  slock'[lockOn'[q]] = q /\ (pc'[q] # "reread" => model'[q] = lockOn'[q])
    BY DEF LockInv
  <1>1. q # r /\ pc[q] \in Section /\ lockOn'[q] = lockOn[q] /\ model'[q] = model[q] /\ pc'[q] = pc[q]
    BY DEF Apart
  <1>2. slock[lockOn[q]] = q /\ lockOn[q] \in Models
    BY <1>1 DEF LockInv, TypeInv, Placed
  <1>3. slock'[lockOn[q]] = q
    BY <1>1, <1>2 DEF Unlock, TypeInv, TypeOK
  <1>4. QED  BY <1>1, <1>3 DEF LockInv

LEMMA LockStep ==
    ASSUME LockInv, TypeInv, NEW r \in Requests, Step(r)
    PROVE  LockInv'
  <1>0. /\ Apart(r) /\ pc \in [Requests -> PC] /\ lockOn \in [Requests -> Models \cup {None}]
        /\ model \in [Requests -> Models \cup {None}] /\ at \in [Requests -> Creds \cup {None}]
        /\ lapsed \in BOOLEAN
    BY StepApart DEF TypeInv, TypeOK
  <1> USE DEF Goto, Section, redisVars, foundVars, history
  <1>1. CASE Arrive(r) \/ Select(r) \/ NoCandidate(r) \/ GiveUpSession(r)
    BY <1>0, <1>1, KeepsLock DEF Arrive, Select, NoCandidate, GiveUpSession, End
  <1>2. CASE LockSession(r)
    <2>1. lockOn[r] \in Models
      BY <1>2 DEF LockSession, TypeInv, Placed
    <2>2. QED  BY <1>0, <1>2, <2>1, TakesLock DEF LockSession
  <1>3. CASE Reread(r)
    <2>1. PICK found \in Reads(r) :
              /\ pc[r] = "reread"
              /\ model' = [model EXCEPT ![r] = found[1]]
              /\ lapsed' = (lapsed \/ found[1] # lockOn[r])
              /\ slock' = slock /\ lockOn' = lockOn
      BY <1>3 DEF Reread
    <2> SUFFICES ASSUME ~ lapsed' PROVE LockInv'
      BY DEF LockInv
    <2>2. ~ lapsed /\ model'[r] = lockOn'[r] /\ slock'[lockOn'[r]] = r
      BY <1>0, <2>1 DEF LockInv
    <2>3. ASSUME NEW q \in Requests, pc'[q] \in Section
          PROVE  slock'[lockOn'[q]] = q /\ (pc'[q] # "reread" => model'[q] = lockOn'[q])
      <3>1. CASE q = r
        BY <2>2, <3>1
      <3>2. CASE q # r
        BY <1>0, <2>1, <2>2, <2>3, <3>2 DEF LockInv, Apart
      <3>3. QED  BY <3>1, <3>2
    <2>4. QED  BY <2>3 DEF LockInv
  <1>4. CASE ReadBinding(r)
    BY <1>0, <1>4, KeepsLock DEF ReadBinding
  <1>5. CASE NotBound(r) \/ DropStale(r) \/ DropExhausted(r)
    BY <1>0, <1>5, KeepsLock DEF NotBound, DropStale, DropExhausted, StartScan
  <1>6. CASE BoundExcluded(r) \/ BookBound(r) \/ BoundBusy(r) \/ Renew(r)
    BY <1>0, <1>6, KeepsLock DEF BoundExcluded, BookBound, BoundBusy, Renew, LeaveEmpty
  <1>7. CASE BindNew(r)
    BY <1>0, <1>7, KeepsLock
    DEF BindNew, BookNext, SkipRefused, NothingBooked, CheckExisting, BindFirst, ReadWinner,
        Undo, LeaveEmpty
  <1>8. CASE Leave(r)
    <2>1. pc'[r] \notin Section /\ Unlock(r) /\ lapsed' = lapsed
      BY <1>0, <1>8 DEF Leave, End
    <2>2. QED  BY <1>0, <2>1, FreesLock
  <1>9. CASE Finish(r) \/ FailKeeping(r) \/ FailInvalidating(r) \/ GiveUpInvalidate(r)
    BY <1>0, <1>9, KeepsLock
    DEF Finish, FailKeeping, FailInvalidating, GiveUpInvalidate, AfterFailure, NextAccount, End
  <1>10. CASE LockAgain(r)
    <2>1. model[r] \in Models
      BY <1>10 DEF LockAgain, TypeInv, Placed, Carrying
    <2>2. QED  BY <1>0, <1>10, <2>1, TakesLock DEF LockAgain
  <1>11. CASE Delete(r)
    BY <1>0, <1>11, KeepsLock DEF Delete
  <1>12. CASE UnlockAgain(r)
    <2>1. pc'[r] \notin Section /\ Unlock(r) /\ lapsed' = lapsed
      BY <1>0, <1>12 DEF UnlockAgain, AfterFailure, NextAccount, End
    <2>2. QED  BY <1>0, <2>1, FreesLock
  <1>13. QED
    BY <1>1, <1>2, <1>3, <1>4, <1>5, <1>6, <1>7, <1>8, <1>9, <1>10, <1>11, <1>12
    DEF Step, Look, Follow, Use

(* A lock that expires in a section makes lapsed true. *)
LEMMA ExpiryLock ==
    ASSUME LockInv, TypeInv, NEW m \in Models, LockTTL(m)
    PROVE  LockInv'
  <1> SUFFICES ASSUME ~ lapsed', NEW q \in Requests, pc[q] \in Section
               PROVE  slock'[lockOn[q]] = q /\ (pc[q] # "reread" => model[q] = lockOn[q])
    BY DEF LockInv, LockTTL, foundVars, history
  <1>1. ~ lapsed /\ pc[slock[m]] \notin Section /\ slock' = [slock EXCEPT ![m] = None]
    BY DEF LockTTL
  <1>2. slock[lockOn[q]] = q /\ lockOn[q] \in Models
    BY <1>1 DEF LockInv, TypeInv, Placed
  <1>3. lockOn[q] # m
    BY <1>1, <1>2
  <1>4. QED  BY <1>1, <1>2, <1>3 DEF LockInv, TypeInv, TypeOK

------------------------------------------------------------------------------
(* The account returned *)

(* An account found, renewed or about to be returned is the bound one,     *)
(* unless the binding ran out since; then no account is bound.             *)
Bound(r) == pc[r] \in {"bound", "renew"} \/ (pc[r] = "leave" /\ at[r] # None)

Kept(r) == bind[Mine(r)] = at[r] \/ (r \in faded /\ bind[Mine(r)] = None)

BoundInv == ~ lapsed => \A r \in Requests : Bound(r) => Kept(r)

LEMMA OthersMine ==
    ASSUME TypeInv, NEW r \in Requests, Apart(r), NEW q \in Requests, q # r
    PROVE  Mine(q)' = Mine(q) /\ (Bound(q)' <=> Bound(q))
  BY DEF Apart, Mine, Key, Bound

(* Two requests in their sections work on different keys. *)
LEMMA ApartKeys ==
    ASSUME TypeInv, LockInv, ~ lapsed, NEW r \in Requests, NEW q \in Requests, q # r,
           pc[r] \in Section \ {"reread"}, pc[q] \in Section \ {"reread"}
    PROVE  Mine(q) # Mine(r)
  <1>1. model[r] # model[q]
    BY DEF LockInv
  <1>2. QED  BY <1>1 DEF Mine, Key

LEMMA KeepsBound ==
    ASSUME BoundInv, TypeInv, NEW r \in Requests, Apart(r), bind' = bind, lapsed' => lapsed,
           lapsed => lapsed', Bound(r)' => Kept(r)'
    PROVE  BoundInv'
  <1> SUFFICES ASSUME ~ lapsed, NEW q \in Requests, Bound(q)' PROVE Kept(q)'
    BY DEF BoundInv
  <1>1. CASE q = r
    BY <1>1
  <1>2. CASE q # r
    BY <1>2, OthersMine DEF BoundInv, Apart, Kept
  <1>3. QED  BY <1>1, <1>2

LEMMA WritesBound ==
    ASSUME BoundInv, LockInv, TypeInv, NEW r \in Requests, Apart(r), lapsed' = lapsed,
           pc[r] \in Section \ {"reread"}, NEW v, SetBind(Mine(r), v),
           Bound(r)' => Kept(r)'
    PROVE  BoundInv'
  <1> SUFFICES ASSUME ~ lapsed, NEW q \in Requests, Bound(q)' PROVE Kept(q)'
    BY DEF BoundInv
  <1>1. CASE q = r
    BY <1>1
  <1>2. CASE q # r
    <2>1. Mine(q)' = Mine(q) /\ Bound(q) /\ at'[q] = at[q]
      BY <1>2, OthersMine DEF Apart
    <2>2. Mine(q) # Mine(r)
      BY <1>2, <2>1, ApartKeys DEF Bound, Section
    <2>3. Kept(q) /\ (q \in faded => q \in faded')
      BY <1>2, <2>1 DEF BoundInv, Apart
    <2>4. at[q] \in Creds
      BY <2>1 DEF Bound, TypeInv, TypeOK, Placed, Carrying
    <2>5. Mine(q) \in Namespaces \X Models
      BY <2>1, <2>4, MineKey DEF Bound, TypeInv, Placed, Carrying
    <2>6. bind'[Mine(q)] = bind[Mine(q)]
      BY <2>2, <2>5 DEF SetBind, TypeInv, TypeOK
    <2>7. QED  BY <2>1, <2>3, <2>6 DEF Kept
  <1>3. QED  BY <1>1, <1>2

(* A binding found is under the key of the account it names. *)
LEMMA ReadBound ==
    ASSUME BoundInv, TypeInv, NEW r \in Requests, Apart(r), ReadBinding(r)
    PROVE  BoundInv'
  <1>1. PICK c \in todo[r] :
            /\ pc[r] = "scan"
            /\ \/ UNCHANGED <<pc, at>>
               \/ /\ bind[Key(c, model[r])] # None
                  /\ at' = [at EXCEPT ![r] = bind[Key(c, model[r])]]
            /\ UNCHANGED <<bind, model, lapsed>>
    BY DEF ReadBinding, redisVars, foundVars, history
  <1>2. Key(c, model[r]) \in Namespaces \X Models
    BY <1>1 DEF Key, Namespaces, TypeInv, TypeOK, Placed
  <1>3. CASE UNCHANGED <<pc, at>>
    <2>1. pc' = pc /\ at' = at /\ model' = model /\ faded' = faded
      BY <1>3 DEF ReadBinding, foundVars, history
    <2>2. ~ Bound(r)'
      BY <1>1, <2>1 DEF Bound
    <2>3. QED  BY <1>1, <2>2, KeepsBound
  <1>4. CASE /\ bind[Key(c, model[r])] # None
             /\ at' = [at EXCEPT ![r] = bind[Key(c, model[r])]]
    <2>1. at'[r] = bind[Key(c, model[r])] /\ model'[r] = model[r]
      BY <1>1, <1>4 DEF TypeInv, TypeOK
    <2>2. Namespace[at'[r]] = Namespace[c]
      BY <1>2, <1>4, <2>1 DEF Key, TypeInv, TypeOK
    <2>3. Mine(r)' = Key(c, model[r])
      BY <2>1, <2>2 DEF Mine, Key
    <2>4. Kept(r)'
      BY <1>1, <2>1, <2>3 DEF Kept
    <2>5. QED  BY <1>1, <2>4, KeepsBound
  <1>5. QED  BY <1>1, <1>3, <1>4

LEMMA BoundStep ==
    ASSUME BoundInv, LockInv, TypeInv, NEW r \in Requests, Step(r)
    PROVE  BoundInv'
  <1>0. /\ Apart(r) /\ pc \in [Requests -> PC] /\ at \in [Requests -> Creds \cup {None}]
        /\ model \in [Requests -> Models \cup {None}]
        /\ lapsed \in BOOLEAN
    BY StepApart DEF TypeInv, TypeOK
  <1> USE DEF Goto, Bound, redisVars, foundVars, history
  <1>1. CASE Arrive(r) \/ Select(r) \/ NoCandidate(r) \/ LockSession(r) \/ GiveUpSession(r)
    BY <1>0, <1>1, KeepsBound DEF Arrive, Select, NoCandidate, LockSession, GiveUpSession, End
  <1>2. CASE Reread(r)
    <2>1. PICK found \in Reads(r) :
              /\ Goto(r, IF found[2] = {} THEN "leave" ELSE "scan")
              /\ lapsed' = (lapsed \/ found[1] # lockOn[r])
              /\ bind' = bind /\ at' = at /\ pc[r] = "reread"
      BY <1>2 DEF Reread
    <2>2. at'[r] = None
      BY <2>1 DEF TypeInv, Placed
    <2>3. CASE ~ lapsed'
      <3>1. ~ Bound(r)' /\ ~ lapsed
        BY <1>0, <2>1, <2>2, <2>3
      <3>2. QED  BY <1>0, <2>1, <2>3, <3>1, KeepsBound
    <2>4. QED  BY <2>3 DEF BoundInv
  <1>3. CASE ReadBinding(r)
    BY <1>0, <1>3, ReadBound
  <1>4. CASE NotBound(r)
    BY <1>0, <1>4, KeepsBound DEF NotBound, StartScan
  <1>5. CASE DropStale(r) \/ DropExhausted(r)
    <2>1. SetBind(Mine(r), None) /\ pc[r] = "bound" /\ ~ Bound(r)' /\ lapsed' = lapsed
      BY <1>0, <1>5 DEF DropStale, DropExhausted, StartScan
    <2>2. QED  BY <1>0, <2>1, WritesBound DEF Section
  <1>6. CASE BoundExcluded(r) \/ BoundBusy(r)
    BY <1>0, <1>6, KeepsBound DEF BoundExcluded, BoundBusy, LeaveEmpty
  <1>7. CASE BookBound(r) \/ Renew(r)
    <2>1. /\ pc[r] \in {"bound", "renew"} /\ at' = at /\ model' = model
          /\ bind' = bind /\ lapsed' = lapsed /\ faded' = faded
      BY <1>7 DEF BookBound, Renew
    <2>2. CASE lapsed
      BY <2>1, <2>2 DEF BoundInv
    <2>3. CASE ~ lapsed
      <3>1. Kept(r)
        BY <2>1, <2>3 DEF BoundInv
      <3>2. Kept(r)'
        BY <2>1, <3>1 DEF Kept, Mine, Key
      <3>3. QED  BY <1>0, <2>1, <3>1, <3>2, KeepsBound
    <2>4. QED  BY <1>0, <2>2, <2>3
  <1>8. CASE BookNext(r) \/ SkipRefused(r) \/ NothingBooked(r) \/ CheckExisting(r)
    BY <1>0, <1>8, KeepsBound
    DEF BookNext, SkipRefused, NothingBooked, CheckExisting, LeaveEmpty
  <1>9. CASE BindFirst(r)
    <2>1. /\ pc[r] = "set" /\ at' = at /\ model' = model /\ lapsed' = lapsed /\ Mine(r)' = Mine(r)
          /\ \/ SetBind(Mine(r), at[r])
             \/ pc'[r] = "winner" /\ bind' = bind
      BY <1>0, <1>9 DEF BindFirst, Mine, Key
    <2>2. CASE SetBind(Mine(r), at[r])
      <3>1. Kept(r)'
        BY <2>1, <2>2, MineKey DEF Kept, SetBind, TypeInv, TypeOK, Placed, Carrying
      <3>2. QED  BY <1>0, <2>1, <2>2, <3>1, WritesBound DEF Section
    <2>3. CASE pc'[r] = "winner" /\ bind' = bind
      BY <1>0, <2>1, <2>3, KeepsBound
    <2>4. QED  BY <2>1, <2>2, <2>3
  <1>10. CASE ReadWinner(r)
    <2>1. /\ at' = at /\ bind' = bind /\ lapsed' = lapsed /\ Mine(r)' = Mine(r)
          /\ pc'[r] = IF bind[Mine(r)] = at[r] THEN "leave" ELSE "undo"
      BY <1>0, <1>10 DEF ReadWinner, Mine, Key
    <2>2. Bound(r)' => Kept(r)'
      BY <2>1 DEF Kept
    <2>3. QED  BY <1>0, <2>1, <2>2, KeepsBound
  <1>11. CASE Undo(r)
    BY <1>0, <1>11, KeepsBound DEF Undo, LeaveEmpty
  <1>12. CASE Leave(r)
    BY <1>0, <1>12, KeepsBound DEF Leave, End
  <1>13. CASE Finish(r) \/ FailKeeping(r) \/ FailInvalidating(r) \/ GiveUpInvalidate(r)
    BY <1>0, <1>13, KeepsBound
    DEF Finish, FailKeeping, FailInvalidating, GiveUpInvalidate, AfterFailure, NextAccount, End
  <1>14. CASE LockAgain(r)
    BY <1>0, <1>14, KeepsBound DEF LockAgain
  <1>15. CASE Delete(r)
    <2>1. SetBind(Mine(r), None) /\ pc[r] = "delete" /\ ~ Bound(r)' /\ lapsed' = lapsed
      BY <1>0, <1>15 DEF Delete
    <2>2. QED  BY <1>0, <2>1, WritesBound DEF Section
  <1>16. CASE UnlockAgain(r)
    BY <1>0, <1>16, KeepsBound DEF UnlockAgain, AfterFailure, NextAccount, End
  <1>17. QED
    BY <1>1, <1>2, <1>3, <1>4, <1>5, <1>6, <1>7, <1>8, <1>9, <1>10, <1>11, <1>12, <1>13,
       <1>14, <1>15, <1>16
    DEF Step, Look, Follow, BindNew, Use

LEMMA EnvironmentBound ==
    ASSUME BoundInv, TypeInv,
           (\E m \in Models : LockTTL(m)) \/ (\E k \in Namespaces \X Models : BindTTL(k))
    PROVE  BoundInv'
  <1>1. ASSUME NEW m \in Models, LockTTL(m) PROVE BoundInv'
    BY <1>1 DEF LockTTL, BoundInv, Bound, Kept, Mine, Key, foundVars, history, TypeInv, TypeOK
  <1>2. ASSUME NEW k \in Namespaces \X Models, BindTTL(k) PROVE BoundInv'
    <2> SUFFICES ASSUME ~ lapsed, NEW q \in Requests, Bound(q) PROVE Kept(q)'
      BY <1>2 DEF BoundInv, BindTTL, Bound, foundVars
    <2>1. /\ SetBind(k, None) /\ Mine(q)' = Mine(q) /\ at'[q] = at[q]
          /\ faded' = faded \cup {r \in Requests : pc[r] \in Following /\ at[r] # None /\ Mine(r) = k}
      BY <1>2 DEF BindTTL, Mine, Key, foundVars
    <2>2. at[q] \in Creds /\ model[q] \in Models /\ pc[q] \in Following
      BY DEF Bound, Following, TypeInv, TypeOK, Placed, Carrying
    <2>3. Mine(q) \in Namespaces \X Models /\ at[q] # None
      BY <2>2, MineKey, NoneAssumption
    <2>4. CASE Mine(q) = k
      BY <2>1, <2>2, <2>3, <2>4 DEF Kept, SetBind, TypeInv, TypeOK
    <2>5. CASE Mine(q) # k
      <3>1. Kept(q)
        BY DEF BoundInv
      <3>2. bind'[Mine(q)] = bind[Mine(q)]
        BY <2>1, <2>3, <2>5 DEF SetBind, TypeInv, TypeOK
      <3>3. QED  BY <2>1, <3>1, <3>2 DEF Kept
    <2>6. QED  BY <2>4, <2>5
  <1>3. QED  BY <1>1, <1>2

Inv == TypeInv /\ LockInv /\ BoundInv

(* While every request holds its session lock, select_and_book returns the *)
(* account the conversation is bound to, whenever bindings run out; one    *)
(* that ran out under a request leaves the conversation without a binding. *)
THEOREM ReturnsBoundAccount == Spec => []ReturnedIsBound
  <1>1. Init => Inv
    BY InitTypes DEF Init, Inv, LockInv, BoundInv, Kept, Bound, Section
  <1>2. Inv /\ [Next]_vars => Inv'
    <2> SUFFICES ASSUME Inv, [Next]_vars PROVE Inv'
      OBVIOUS
    <2>0. TypeInv /\ LockInv /\ BoundInv /\ TypeInv'
      BY TypeStep DEF Inv
    <2>1. ASSUME NEW r \in Requests, Step(r) PROVE LockInv' /\ BoundInv'
      BY <2>0, <2>1, LockStep, BoundStep
    <2>2. ASSUME NEW m \in Models, LockTTL(m) PROVE LockInv' /\ BoundInv'
      BY <2>0, <2>2, ExpiryLock, EnvironmentBound
    <2>3. ASSUME NEW k \in Namespaces \X Models, BindTTL(k) PROVE LockInv' /\ BoundInv'
      <3>1. LockInv'
        BY <2>0, <2>3 DEF BindTTL, foundVars, LockInv, Section
      <3>2. QED  BY <2>0, <2>3, <3>1, EnvironmentBound
    <2>4. ASSUME UNCHANGED vars PROVE LockInv' /\ BoundInv'
      <3>1. LockInv'
        BY <2>0, <2>4 DEF vars, history, LockInv
      <3>2. BoundInv'
        BY <2>0, <2>4 DEF vars, history, BoundInv, Bound, Kept, Mine, Key
      <3>3. QED  BY <3>1, <3>2
    <2>5. LockInv' /\ BoundInv'
      BY <2>1, <2>2, <2>3, <2>4 DEF Next
    <2>6. QED  BY <2>0, <2>5 DEF Inv
  <1>3. Inv => ReturnedIsBound
    BY DEF Inv, BoundInv, Bound, Kept, ReturnedIsBound
  <1>4. QED  BY <1>1, <1>2, <1>3, PTL DEF Spec
==============================================================================
