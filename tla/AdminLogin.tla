------------------------------ MODULE AdminLogin ------------------------------
(***************************************************************************)
(* Who may use the dashboard: logins by the admin token with their counter *)
(* of failed attempts, logins by Google, and the Google account that an    *)
(* admin connects.                                                         *)
(*                                                                         *)
(*   backend/app/services/auth_service.py                                  *)
(*                                                                         *)
(* The counter is one client address's, the account is one Google account  *)
(* of one admin.  Users' emails are unique in the database, the names of   *)
(* accounts are not.  What a row holds once the account is connected is    *)
(* the matter of CredentialLifecycle and UpstreamCall.                     *)
(***************************************************************************)
EXTENDS Naturals, FiniteSets

CONSTANTS
    None,           \* no flow
    Callers,        \* requests at a time
    AttemptLimit,   \* 5 in the code
    Emails,         \* of users
    AdminEmail,     \* the user a token login, or a mock login, is for
    Allowed,        \* ALLOWED_ADMIN_EMAILS
    Flows           \* visits to Google's consent page, each with its state and code

ASSUME CallersAssumption == IsFiniteSet(Callers) /\ AttemptLimit \in Nat \ {0}
ASSUME EmailsAssumption  == AdminEmail \in Emails /\ None \notin Flows

VARIABLES
    attempts, ttl,  \* the counter, 0 if there is none, and whether it expires
    states,         \* the OAuth states in Redis
    codes,          \* the codes Google will still exchange
    rows,           \* how many rows the connected account has
    users,          \* the role of each user in the database
    at,             \* the callers
    loggedIn,       \* history: a token login has succeeded
    stuck,          \* history: a process died and left a full counter without a TTL
    overlap         \* history: a callback looked for the row while another was about to add it

counterVars == <<attempts, ttl>>
connectVars == <<states, codes, rows>>
history     == <<loggedIn, stuck, overlap>>
vars        == <<counterVars, connectVars, users, at, history>>

Roles == {"none", "user", "admin"}
Jobs  == {"token", "google", "mock", "connect"}
PC    == {"idle", "fail", "ttl", "arm", "clear", "find", "insert", "promote",
          "state", "exchange", "search", "save"}
Calls == [pc: PC, job: Jobs, email: Emails, flow: Flows \cup {None}, known: BOOLEAN]
Idle  == [pc |-> "idle", job |-> "token", email |-> AdminEmail, flow |-> None, known |-> FALSE]

At(c, l)     == at[c].pc = l
Become(c, v) == at' = [at EXCEPT ![c] = v]
Goto(c, l)   == Become(c, [at[c] EXCEPT !.pc = l])

Init ==
    /\ attempts = 0 /\ ttl = FALSE
    /\ states = {} /\ codes = {} /\ rows = 0
    /\ users = [e \in Emails |-> "none"]
    /\ at = [c \in Callers |-> Idle]
    /\ loggedIn = FALSE /\ stuck = FALSE /\ overlap = FALSE

------------------------------------------------------------------------------
(* handle_token_login *)

(* Variants named after a mistake are the module's own negative controls. *)
MayTryInclusive == attempts <= AttemptLimit

(* The counter is read; five failures, and it is 429 for any token. *)
MayTry == attempts < AttemptLimit

TokenLogin(c) == \E right \in BOOLEAN :
    /\ At(c, "idle")
    /\ MayTry
    /\ Become(c, [Idle EXCEPT !.pc = IF right THEN "clear" ELSE "fail"])
    /\ UNCHANGED <<counterVars, connectVars, users, history>>

CountFailure(c) ==
    /\ At(c, "fail")
    /\ attempts' = attempts + 1
    /\ Goto(c, "ttl")
    /\ UNCHANGED <<ttl, connectVars, users, history>>

ArmFirst  == attempts = 1
ArmNeeded == ~ttl

ReadTTL(c) ==
    /\ At(c, "ttl")
    /\ IF ArmNeeded THEN Goto(c, "arm") ELSE Become(c, Idle)
    /\ UNCHANGED <<counterVars, connectVars, users, history>>

ExpireAlways(key) == TRUE

(* EXPIRE needs a key. *)
Expire(key) == key > 0

Arm(c) ==
    /\ At(c, "arm")
    /\ ttl' = Expire(attempts)
    /\ Become(c, Idle)
    /\ UNCHANGED <<attempts, connectVars, users, history>>

Clear(c) ==
    /\ At(c, "clear")
    /\ attempts' = 0 /\ ttl' = FALSE
    /\ Goto(c, "find")
    /\ UNCHANGED <<connectVars, users, history>>

------------------------------------------------------------------------------
(* The user of a login *)

(* Google names the email; the mock login of a development setup does not. *)
GoogleLogin(c) == \E e \in Emails :
    /\ At(c, "idle")
    /\ Become(c, [Idle EXCEPT !.pc = "find", !.job = "google", !.email = e])
    /\ UNCHANGED <<counterVars, connectVars, users, history>>

MockLogin(c) ==
    /\ At(c, "idle")
    /\ Become(c, [Idle EXCEPT !.pc = "find", !.job = "mock"])
    /\ UNCHANGED <<counterVars, connectVars, users, history>>

(* The session token is signed. *)
Session(c) ==
    /\ Become(c, Idle)
    /\ loggedIn' = (loggedIn \/ at[c].job = "token")
    /\ UNCHANGED <<stuck, overlap>>

NeedsNothing(c) == users[at[c].email] # "none"

(* Nothing to write: a token login asks for an admin, the others for a user. *)
NothingToWrite(c) ==
    users[at[c].email] = "admin" \/ (at[c].job # "token" /\ users[at[c].email] = "user")

FindUser(c) ==
    /\ At(c, "find")
    /\ IF NothingToWrite(c) THEN Session(c)
       ELSE Goto(c, IF users[at[c].email] = "none" THEN "insert" ELSE "promote") /\ UNCHANGED history
    /\ UNCHANGED <<counterVars, connectVars, users>>

NewRole(c) == IF at[c].job = "google" /\ at[c].email \notin Allowed THEN "user" ELSE "admin"

(* The email is unique: who comes second fails. *)
InsertUser(c) ==
    /\ At(c, "insert")
    /\ IF users[at[c].email] = "none"
       THEN users' = [users EXCEPT ![at[c].email] = NewRole(c)] /\ Session(c)
       ELSE Become(c, Idle) /\ UNCHANGED <<users, history>>
    /\ UNCHANGED <<counterVars, connectVars>>

Promote(c) ==
    /\ At(c, "promote")
    /\ users' = [users EXCEPT ![at[c].email] = "admin"]
    /\ Session(c)
    /\ UNCHANGED <<counterVars, connectVars>>

------------------------------------------------------------------------------
(* get_login_url and handle_oauth_callback with action=add_credential *)

(* Google's page follows, and sends the browser back with a code. *)
Visit(f) ==
    /\ f \notin states \cup codes
    /\ \A c \in Callers : at[c].flow # f
    /\ states' = states \cup {f}
    /\ codes' = codes \cup {f}
    /\ UNCHANGED <<counterVars, rows, users, at, history>>

(* A browser may send the callback more than once. *)
Callback(c) == \E f \in Flows :
    /\ At(c, "idle")
    /\ f \in states \cup codes
    /\ Become(c, [Idle EXCEPT !.pc = "state", !.job = "connect", !.flow = f, !.known = f \in states])
    /\ UNCHANGED <<counterVars, connectVars, users, history>>

DropState(c) ==
    /\ At(c, "state")
    /\ states' = states \ {at[c].flow}
    /\ Goto(c, "exchange")
    /\ UNCHANGED <<counterVars, codes, rows, users, history>>

(* Google takes a code once.  Without the admin's session it is 401. *)
Exchange(c) ==
    /\ At(c, "exchange")
    /\ codes' = codes \ {at[c].flow}
    /\ \/ Become(c, Idle)
       \/ /\ at[c].flow \in codes /\ at[c].known
          /\ Become(c, [Idle EXCEPT !.pc = "search", !.job = "connect"])
    /\ UNCHANGED <<counterVars, states, rows, users, history>>

NoRow(c) == TRUE

(* A row to write anew; more than one is an error, and so is none without  *)
(* a refresh token.                                                        *)
Missing(c) == rows = 0

SearchAccount(c) ==
    /\ At(c, "search")
    /\ \/ /\ Missing(c) \/ rows > 1
          /\ Become(c, Idle) /\ UNCHANGED overlap
       \/ /\ Missing(c) \/ rows = 1
          /\ Become(c, [at[c] EXCEPT !.pc = "save", !.known = ~Missing(c)])
          /\ overlap' = (overlap \/ \E d \in Callers \ {c} : At(d, "save") /\ ~at[d].known)
    /\ UNCHANGED <<counterVars, connectVars, users, loggedIn, stuck>>

(* The new row, or a new secret for the one found if it is still there. *)
SaveAccount(c) ==
    /\ At(c, "save")
    /\ rows' = IF at[c].known THEN rows ELSE rows + 1
    /\ Become(c, Idle)
    /\ UNCHANGED <<counterVars, states, codes, users, history>>

(* delete_credential *)
DeleteAccount ==
    /\ rows > 0
    /\ rows' = rows - 1
    /\ UNCHANGED <<counterVars, states, codes, users, at, history>>

------------------------------------------------------------------------------
(* Time and faults *)

AttemptsExpire ==
    /\ ttl
    /\ attempts' = 0 /\ ttl' = FALSE
    /\ UNCHANGED <<connectVars, users, at, history>>

StateExpires == \E f \in states :
    /\ states' = states \ {f}
    /\ UNCHANGED <<counterVars, codes, rows, users, at, history>>

Crash(c) ==
    /\ ~At(c, "idle")
    /\ Become(c, Idle)
    /\ stuck' = (stuck \/ /\ ~MayTry /\ ~ttl
                          /\ \A d \in Callers \ {c} : at[d].pc \notin {"fail", "ttl", "arm", "clear"})
    /\ UNCHANGED <<counterVars, connectVars, users, loggedIn, overlap>>

Proceed(c) ==
    \/ CountFailure(c) \/ ReadTTL(c) \/ Arm(c) \/ Clear(c)
    \/ FindUser(c) \/ InsertUser(c) \/ Promote(c)
    \/ DropState(c) \/ Exchange(c) \/ SearchAccount(c) \/ SaveAccount(c)

Next ==
    \/ \E c \in Callers : TokenLogin(c) \/ GoogleLogin(c) \/ MockLogin(c) \/ Callback(c)
                          \/ Proceed(c) \/ Crash(c)
    \/ \E f \in Flows : Visit(f)
    \/ DeleteAccount \/ AttemptsExpire \/ StateExpires

(* A live process goes on, a TTL runs out. *)
Spec ==
    /\ Init /\ [][Next]_vars
    /\ WF_vars(AttemptsExpire)
    /\ \A c \in Callers : WF_vars(Proceed(c))

------------------------------------------------------------------------------
(* Properties *)

(* Every variable has its type, and only a counter that exists has a TTL. *)
TypeOK ==
    /\ attempts \in Nat /\ ttl \in BOOLEAN /\ (ttl => attempts > 0)
    /\ states \subseteq Flows /\ codes \subseteq Flows /\ rows \in Nat
    /\ users \in [Emails -> Roles]
    /\ at \in [Callers -> Calls]
    /\ {loggedIn, stuck, overlap} \subseteq BOOLEAN

(* Attempts are compared before and counted after the token is checked:    *)
(* what was in flight when the limit was reached is all that exceeds it.   *)
AttemptsBounded == attempts < AttemptLimit + Cardinality(Callers)

(* "Too many login attempts.  Please try again later": later it works      *)
(* again, unless a process died between the fifth failure's count and its  *)
(* TTL; then nobody gets as far as setting one.                            *)
LockoutEnds == attempts >= AttemptLimit ~> attempts < AttemptLimit \/ stuck

(* Whoever logs in by the admin token is an admin, also when the user was  *)
(* created, or is being created, by a Google login without that role.      *)
TokenMeansAdmin == loggedIn => users[AdminEmail] = "admin"

(* A Google account has one row, or none of its callbacks could ever find  *)
(* "the" row again, unless two callbacks overlapped when there was none.   *)
OneRow == overlap \/ rows <= 1
==============================================================================
