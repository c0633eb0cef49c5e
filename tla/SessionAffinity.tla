--------------------------- MODULE SessionAffinity ---------------------------
(***************************************************************************)
(* Session affinity: the requests of one conversation stay on one account. *)
(*                                                                         *)
(*   backend/app/routing/selector.py   select_and_book, _read_binding,     *)
(*                                     invalidate_binding, session lock    *)
(*   backend/app/api/routers/v1/chat.py   the loop around it               *)
(*                                                                         *)
(* Conversations share nothing but leases, so one of them is modelled.     *)
(* Its binding is kept in Redis under a key per (provider namespace,       *)
(* matched model), its lock under a key per matched model.  Booking is one *)
(* step of ConcurrencyLimit, which module Booking implements; it may be    *)
(* refused at any time (lock taken, token window, limit).  Which accounts  *)
(* are eligible changes with every status write of the failure handler,    *)
(* the workers, the quota probe and the admin: each read finds any subset. *)
(***************************************************************************)
EXTENDS Naturals, FiniteSets

CONSTANTS
    Requests,     \* the requests of the conversation, each handled once
    Creds,
    Rank,         \* place of a credential in the sort by (priority, id)
    Namespace,    \* its type, as the place of the type in sorted order
    Limit, NoLimit,
    Models,       \* model names, as requested or as matched
    Asks,         \* the name each request asks for
    MapName,      \* map_model_name
    Serves,       \* the credentials that list a name among their models
    None,
    MaxRetries

ASSUME AccountsAssumption ==
    /\ Rank \in [Creds -> Nat]
    /\ \A c, d \in Creds : Rank[c] = Rank[d] => c = d
    /\ Namespace \in [Creds -> Nat]
    /\ Limit \in [Creds -> Nat \cup {NoLimit}]
ASSUME ModelsAssumption ==
    /\ Asks \in [Requests -> Models]
    /\ MapName \in [Models -> Models]
    /\ Serves \in [Models -> SUBSET Creds]
ASSUME NoneAssumption ==
    /\ None \notin Requests \cup Creds \cup Models
    /\ MaxRetries \in Nat
    /\ IsFiniteSet(Requests)

VARIABLES
    slock,    \* per model: the request whose token the session lock holds, or None
    bind,     \* per (namespace, model): the credential bound there, or None
    users,    \* per credential: the requests that hold a lease on it
    pc,       \* per request: where it is suspended
    at,       \* per request: the credential found, booked or used, or None
    lockOn,   \* per request: the model in its session lock key, or None
    model,    \* per request: matched_model, or None
    cand,     \* per request: the eligible credentials it read under the lock
    todo,     \* per request: those of them the current scan has not tried yet
    tried,    \* per request: exclude_ids
    lapsed,   \* history: some request worked on a binding without its lock
    faded     \* history: the requests whose binding ran out after they had found it

redisVars == <<slock, bind, users>>
foundVars == <<lockOn, model, cand>>
history   == <<lapsed, faded>>
vars      == <<slock, bind, users, pc, at, lockOn, model, cand, todo, tried, history>>

Namespaces == {Namespace[c] : c \in Creds}
Section == {"reread", "scan", "bound", "renew", "pick", "check",
            "set", "winner", "undo", "leave", "delete", "unlock"}
Following == {"bound", "renew", "leave"}
Leased  == {"renew", "check", "set", "winner", "undo", "leave", "use"}
PC      == {"idle", "select", "lock", "use", "invalidate", "done"} \cup Section

Slots == INSTANCE ConcurrencyLimit

KeyOfFirstNamespace(c, m) ==
    <<CHOOSE n \in Namespaces : \A o \in Namespaces : n <= o, m>>

Key(c, m) == <<Namespace[c], m>>
Mine(r)   == Key(at[r], model[r])

(* What get_active_credentials may return: eligible credentials for the    *)
(* name asked for or, when there are none, for the name it maps to.        *)
Reads(r) ==
    {found \in {Asks[r], MapName[Asks[r]]} \X SUBSET Creds :
        found[2] \subseteq Serves[found[1]] \ tried[r] /\ (found[2] = {} => found[1] = Asks[r])}

NextUp(r, c) == c \in todo[r] /\ \A d \in todo[r] : Rank[c] <= Rank[d]

Goto(r, l) == pc' = [pc EXCEPT ![r] = l]

(* compare_delete of the lock, with the caller's token. *)
Unlock(r) == slock' = [slock EXCEPT ![lockOn[r]] = IF @ = r THEN None ELSE @]

SetBind(k, v) == bind' = [bind EXCEPT ![k] = v]

End(r) ==
    /\ Goto(r, "done")
    /\ at'     = [at EXCEPT ![r] = None]
    /\ lockOn' = [lockOn EXCEPT ![r] = None]
    /\ model'  = [model EXCEPT ![r] = None]
    /\ cand'   = [cand EXCEPT ![r] = {}]
    /\ todo'   = [todo EXCEPT ![r] = {}]
    /\ tried'  = [tried EXCEPT ![r] = {}]

Init ==
    /\ slock  = [m \in Models |-> None]
    /\ bind   = [k \in Namespaces \X Models |-> None]
    /\ users  = [c \in Creds |-> {}]
    /\ pc     = [r \in Requests |-> "idle"]
    /\ at     = [r \in Requests |-> None]
    /\ lockOn = [r \in Requests |-> None]
    /\ model  = [r \in Requests |-> None]
    /\ cand   = [r \in Requests |-> {}]
    /\ todo   = [r \in Requests |-> {}]
    /\ tried  = [r \in Requests |-> {}]
    /\ lapsed = FALSE
    /\ faded  = {}

------------------------------------------------------------------------------
(* Up to the session lock *)

Arrive(r) ==
    /\ pc[r] = "idle"
    /\ Goto(r, "select")
    /\ UNCHANGED <<redisVars, at, foundVars, todo, tried, history>>

(* The first get_active_credentials only decides the lock key. *)
Select(r) == \E found \in Reads(r) :
    /\ pc[r] = "select"
    /\ Cardinality(tried[r]) < MaxRetries
    /\ found[2] # {}
    /\ lockOn' = [lockOn EXCEPT ![r] = found[1]]
    /\ Goto(r, "lock")
    /\ UNCHANGED <<redisVars, at, model, cand, todo, tried, history>>

(* Retries spent or no account eligible: 503, or the last error. *)
NoCandidate(r) ==
    /\ pc[r] = "select"
    /\ End(r)
    /\ UNCHANGED <<redisVars, history>>

LockSession(r) ==
    /\ pc[r] = "lock"
    /\ slock[lockOn[r]] = None
    /\ slock' = [slock EXCEPT ![lockOn[r]] = r]
    /\ Goto(r, "reread")
    /\ UNCHANGED <<bind, users, at, foundVars, todo, tried, history>>

(* A hundred tries, ten milliseconds apart, all found the lock taken. *)
GiveUpSession(r) ==
    /\ pc[r] = "lock"
    /\ slock[lockOn[r]] # None
    /\ End(r)
    /\ UNCHANGED <<redisVars, history>>

(* The second read may match another name than the one that is locked. *)
Reread(r) == \E found \in Reads(r) :
    /\ pc[r] = "reread"
    /\ model' = [model EXCEPT ![r] = found[1]]
    /\ cand'  = [cand EXCEPT ![r] = found[2]]
    /\ todo'  = [todo EXCEPT ![r] = found[2]]
    /\ Goto(r, IF found[2] = {} THEN "leave" ELSE "scan")
    /\ lapsed' = (lapsed \/ found[1] # lockOn[r])
    /\ UNCHANGED <<redisVars, at, lockOn, tried, faded>>

------------------------------------------------------------------------------
(* The binding *)

(* One GET per namespace of the eligible credentials, in sorted order. *)
ReadBinding(r) == \E c \in todo[r] :
    /\ pc[r] = "scan"
    /\ \A d \in todo[r] : Namespace[c] <= Namespace[d]
    /\ LET found == bind[Key(c, model[r])] IN
       \/ /\ found = None
          /\ todo' = [todo EXCEPT ![r] = {d \in @ : Namespace[d] # Namespace[c]}]
          /\ UNCHANGED <<pc, at>>
       \/ /\ found # None
          /\ at' = [at EXCEPT ![r] = found]
          /\ todo' = [todo EXCEPT ![r] = {}]
          /\ Goto(r, "bound")
    /\ UNCHANGED <<redisVars, foundVars, tried, history>>

StartScan(r, S) ==
    /\ Goto(r, "pick")
    /\ at'   = [at EXCEPT ![r] = None]
    /\ cand' = [cand EXCEPT ![r] = {}]
    /\ todo' = [todo EXCEPT ![r] = S]
    /\ faded' = faded \ {r}
    /\ UNCHANGED <<slock, users, lockOn, model, tried, lapsed>>

NotBound(r) ==
    /\ pc[r] = "scan"
    /\ todo[r] = {}
    /\ StartScan(r, cand[r])
    /\ UNCHANGED bind

LeaveEmpty(r) ==
    /\ Goto(r, "leave")
    /\ at' = [at EXCEPT ![r] = None]
    /\ todo' = [todo EXCEPT ![r] = {}]
    /\ UNCHANGED <<slock, bind, foundVars, tried, history>>

BoundExcluded(r) ==
    /\ pc[r] = "bound"
    /\ at[r] \in tried[r]
    /\ LeaveEmpty(r)
    /\ UNCHANGED users

(* Not eligible any more: the binding goes and the scan starts. *)
DropStale(r) ==
    /\ pc[r] = "bound"
    /\ at[r] \notin tried[r] \cup cand[r]
    /\ SetBind(Mine(r), None)
    /\ StartScan(r, cand[r])

(* The token window of the bound account is spent: it leaves the scan. *)
DropExhausted(r) ==
    /\ pc[r] = "bound"
    /\ at[r] \in cand[r]
    /\ SetBind(Mine(r), None)
    /\ StartScan(r, cand[r] \ {at[r]})

BookBound(r) ==
    /\ pc[r] = "bound"
    /\ at[r] \in cand[r]
    /\ Slots!Take(r, at[r])
    /\ Goto(r, "renew")
    /\ UNCHANGED <<slock, bind, at, foundVars, todo, tried, history>>

(* A bound account that is busy is no reason to rotate the conversation. *)
BoundBusy(r) ==
    /\ pc[r] = "bound"
    /\ at[r] \in cand[r]
    /\ LeaveEmpty(r)
    /\ UNCHANGED users

(* EXPIRE of the binding; nobody asks whether the key was still there. *)
Renew(r) ==
    /\ pc[r] = "renew"
    /\ Goto(r, "leave")
    /\ UNCHANGED <<redisVars, at, foundVars, todo, tried, history>>

------------------------------------------------------------------------------
(* The first bind *)

BookNext(r) == \E c \in Creds :
    /\ pc[r] = "pick"
    /\ NextUp(r, c)
    /\ Slots!Take(r, c)
    /\ at'   = [at EXCEPT ![r] = c]
    /\ todo' = [todo EXCEPT ![r] = {}]
    /\ Goto(r, "check")
    /\ UNCHANGED <<slock, bind, foundVars, tried, history>>

SkipRefused(r) == \E c \in Creds :
    /\ pc[r] = "pick"
    /\ NextUp(r, c)
    /\ todo' = [todo EXCEPT ![r] = @ \ {c}]
    /\ UNCHANGED <<redisVars, pc, at, foundVars, tried, history>>

NothingBooked(r) ==
    /\ pc[r] = "pick"
    /\ todo[r] = {}
    /\ LeaveEmpty(r)
    /\ UNCHANGED users

CheckExisting(r) ==
    /\ pc[r] = "check"
    /\ Goto(r, IF bind[Mine(r)] \in {None, at[r]} THEN "set" ELSE "undo")
    /\ UNCHANGED <<redisVars, at, foundVars, todo, tried, history>>

BindOverwriting(r) ==
    /\ pc[r] = "set"
    /\ SetBind(Mine(r), at[r])
    /\ Goto(r, "leave")
    /\ UNCHANGED <<slock, users, at, foundVars, todo, tried, history>>

(* SET NX *)
BindFirst(r) ==
    /\ pc[r] = "set"
    /\ IF bind[Mine(r)] = None
       THEN SetBind(Mine(r), at[r]) /\ Goto(r, "leave")
       ELSE UNCHANGED bind /\ Goto(r, "winner")
    /\ UNCHANGED <<slock, users, at, foundVars, todo, tried, history>>

ReadWinner(r) ==
    /\ pc[r] = "winner"
    /\ Goto(r, IF bind[Mine(r)] = at[r] THEN "leave" ELSE "undo")
    /\ UNCHANGED <<redisVars, at, foundVars, todo, tried, history>>

UndoKeepingLease(r) ==
    /\ pc[r] = "undo"
    /\ LeaveEmpty(r)
    /\ UNCHANGED users

(* _release_booked: another account won, give the speculative lease back. *)
Undo(r) ==
    /\ pc[r] = "undo"
    /\ Slots!Give(r, at[r])
    /\ LeaveEmpty(r)

(* The finally of select_and_book, and the return. *)
Leave(r) ==
    /\ pc[r] = "leave"
    /\ Unlock(r)
    /\ IF at[r] = None
       THEN End(r)
       ELSE /\ Goto(r, "use")
            /\ lockOn' = [lockOn EXCEPT ![r] = None]
            /\ cand'   = [cand EXCEPT ![r] = {}]
            /\ UNCHANGED <<at, model, todo, tried>>
    /\ faded' = faded \ {r}
    /\ UNCHANGED <<bind, users, lapsed>>

------------------------------------------------------------------------------
(* Using the account, and invalidate_binding *)

NextAccount(r) ==
    /\ Goto(r, "select")
    /\ tried'  = [tried EXCEPT ![r] = @ \cup {at[r]}]
    /\ at'     = [at EXCEPT ![r] = None]
    /\ lockOn' = [lockOn EXCEPT ![r] = None]
    /\ model'  = [model EXCEPT ![r] = None]
    /\ UNCHANGED <<cand, todo>>

(* An answer, or an error that is not retried. *)
Finish(r) ==
    /\ pc[r] = "use"
    /\ Slots!Give(r, at[r])
    /\ End(r)
    /\ UNCHANGED <<slock, bind, history>>

(* CLIENT, CONFIGURATION, UNKNOWN and TRANSIENT failures keep the binding. *)
FailKeeping(r) ==
    /\ pc[r] = "use"
    /\ Slots!Give(r, at[r])
    /\ NextAccount(r)
    /\ UNCHANGED <<slock, bind, history>>

(* QUOTA, RATE_LIMIT, AUTH, an unsafe base_url, or a stream that broke. *)
FailInvalidating(r) ==
    /\ pc[r] = "use"
    /\ Slots!Give(r, at[r])
    /\ Goto(r, "invalidate")
    /\ UNCHANGED <<slock, bind, at, foundVars, todo, tried, history>>

LockNothing(r) ==
    /\ pc[r] = "invalidate"
    /\ lockOn' = [lockOn EXCEPT ![r] = model[r]]
    /\ Goto(r, "delete")
    /\ UNCHANGED <<redisVars, at, model, cand, todo, tried, history>>

LockAgain(r) ==
    /\ pc[r] = "invalidate"
    /\ slock[model[r]] = None
    /\ slock'  = [slock EXCEPT ![model[r]] = r]
    /\ lockOn' = [lockOn EXCEPT ![r] = model[r]]
    /\ Goto(r, "delete")
    /\ UNCHANGED <<bind, users, at, model, cand, todo, tried, history>>

(* A stream has nobody left to retry for. *)
AfterFailure(r) == NextAccount(r) \/ End(r)

GiveUpInvalidate(r) ==
    /\ pc[r] = "invalidate"
    /\ slock[model[r]] # None
    /\ AfterFailure(r)
    /\ UNCHANGED <<redisVars, history>>

(* DEL of the key, whichever account it names by now. *)
Delete(r) ==
    /\ pc[r] = "delete"
    /\ SetBind(Mine(r), None)
    /\ Goto(r, "unlock")
    /\ UNCHANGED <<slock, users, at, foundVars, todo, tried, history>>

UnlockAgain(r) ==
    /\ pc[r] = "unlock"
    /\ Unlock(r)
    /\ AfterFailure(r)
    /\ UNCHANGED <<bind, users, history>>

------------------------------------------------------------------------------
(* Everyone else *)

LockTTL(m) ==
    /\ slock[m] # None
    /\ slock' = [slock EXCEPT ![m] = None]
    /\ lapsed' = (lapsed \/ pc[slock[m]] \in Section)
    /\ UNCHANGED <<bind, users, pc, at, foundVars, todo, tried, faded>>

(* 24 hours since the last EXPIRE, which may end between the GET of a      *)
(* request and its own EXPIRE.                                             *)
BindTTL(k) ==
    /\ bind[k] # None
    /\ SetBind(k, None)
    /\ faded' = faded \cup {r \in Requests : pc[r] \in Following /\ at[r] # None /\ Mine(r) = k}
    /\ UNCHANGED <<slock, users, pc, at, foundVars, todo, tried, lapsed>>

Look(r) == Arrive(r) \/ Select(r) \/ NoCandidate(r)
           \/ LockSession(r) \/ GiveUpSession(r) \/ Reread(r)

Follow(r) == ReadBinding(r) \/ NotBound(r) \/ BoundExcluded(r) \/ DropStale(r)
             \/ DropExhausted(r) \/ BookBound(r)
             \/ BoundBusy(r) \/ Renew(r)

BindNew(r) == BookNext(r) \/ SkipRefused(r) \/ NothingBooked(r) \/ CheckExisting(r)
              \/ BindFirst(r) \/ ReadWinner(r) \/ Undo(r)

Use(r) == Leave(r) \/ Finish(r) \/ FailKeeping(r) \/ FailInvalidating(r)
          \/ LockAgain(r) \/ GiveUpInvalidate(r) \/ Delete(r) \/ UnlockAgain(r)

Step(r) == Look(r) \/ Follow(r) \/ BindNew(r) \/ Use(r)

Next ==
    \/ \E r \in Requests : Step(r)
    \/ \E m \in Models : LockTTL(m)
    \/ \E k \in Namespaces \X Models : BindTTL(k)

Spec == Init /\ [][Next]_vars

------------------------------------------------------------------------------
(* Properties *)

(* Every variable has its type, and a key of a namespace names a           *)
(* credential of that namespace (get_session_binding_key).                 *)
TypeOK ==
    /\ slock  \in [Models -> Requests \cup {None}]
    /\ bind   \in [Namespaces \X Models -> Creds \cup {None}]
    /\ users  \in [Creds -> SUBSET Requests]
    /\ pc     \in [Requests -> PC]
    /\ at     \in [Requests -> Creds \cup {None}]
    /\ lockOn \in [Requests -> Models \cup {None}]
    /\ model  \in [Requests -> Models \cup {None}]
    /\ cand   \in [Requests -> SUBSET Creds]
    /\ todo   \in [Requests -> SUBSET Creds]
    /\ tried  \in [Requests -> SUBSET Creds]
    /\ lapsed \in BOOLEAN /\ faded \subseteq Requests
    /\ \A k \in Namespaces \X Models : bind[k] # None => Namespace[bind[k]] = k[1]

(* What select_and_book returns is the account the conversation is bound   *)
(* to, as long as every request held its session lock.  If the binding ran *)
(* out after it was found, the conversation is bound to no other account.  *)
ReturnedIsBound ==
    ~ lapsed => \A r \in Requests :
        pc[r] = "leave" /\ at[r] # None =>
           bind[Mine(r)] = at[r] \/ (r \in faded /\ bind[Mine(r)] = None)

(* A binding is dropped before another account takes its place: SET NX     *)
(* even when the session lock was lost.                                    *)
NeverSwitches ==
    [][\A k \in Namespaces \X Models :
          bind[k] # None /\ bind'[k] # None => bind'[k] = bind[k]]_vars

(* A lease is held on the account a request is booked on and on no other:  *)
(* a request that loses the first bind gives its speculative lease back.   *)
LeasesAreUsed ==
    \A c \in Creds : \A r \in users[c] : at[r] = c /\ pc[r] \in Leased

(* A request that failed on the account its conversation is bound to does  *)
(* not get another one while that binding stands.                          *)
NoSilentFailover ==
    [][\A r \in Requests :
          pc[r] = "leave" /\ pc'[r] = "use" =>
             \A n \in Namespaces : bind[<<n, model[r]>>] \notin tried[r]]_vars
==============================================================================
