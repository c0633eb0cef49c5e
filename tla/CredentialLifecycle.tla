------------------------- MODULE CredentialLifecycle -------------------------
(***************************************************************************)
(* The status of one upstream account and everybody who writes it.         *)
(*                                                                         *)
(*   backend/app/api/routers/v1/chat.py        the failure handler         *)
(*   backend/app/routing/selector.py           the scan of the accounts    *)
(*   backend/app/workers/worker.py             resets, health, tokens      *)
(*   backend/app/providers/antigravity.py      the quota probe             *)
(*   backend/app/services/credential_service.py, auth_service.py    admin  *)
(*                                                                         *)
(* The row is one database row.  A writer loads it into a session of its   *)
(* own, changes its copy and commits: SQLAlchemy writes the columns that   *)
(* changed and no others, so two sessions may each overwrite what the      *)
(* other wrote.  The quota probe writes with one conditional UPDATE.  Only *)
(* the failure handler, the probe and the booking of module Booking take   *)
(* the credential state lock.  Time is relative: a reset_at lies in the    *)
(* future or is due (for Antigravity accounts nobody reads it and it is    *)
(* left out), the cooldown key has a TTL.                                  *)
(***************************************************************************)
EXTENDS Naturals, FiniteSets

CONSTANTS
    None,           \* the state lock is free
    MaxSessions,    \* sessions open at a time
    Answers         \* fractions per quota group a probe may find

Writers == {"handler", "scan", "reset", "health", "refresh", "probe", "admin"}
ASSUME SessionsAssumption == MaxSessions \in Nat \ {0} /\ None \notin Writers

Groups == {"gemini", "others"}
ASSUME AnswersAssumption == Answers \subseteq [Groups -> {"unknown", "zero", "some"}]

VARIABLES
    type,       \* "antigravity" or "byo" (a plain API key)
    row,        \* the row in the database
    cool,       \* the cooldown key exists
    lock,       \* who holds the credential state lock, or None
    pc,         \* per writer: where it is suspended
    copy,       \* per writer: its copy of the row, while it still reads it
    sets,       \* per writer: the columns it is going to write
    missed,     \* history, per writer: the columns written since it loaded the row
    kind        \* what the failure being handled was classified as

rowVars == <<type, row, missed>>
vars    == <<type, row, cool, lock, pc, copy, sets, missed, kind>>

Statuses == {"active", "exhausted", "cooldown", "degraded", "reauth_required", "disabled"}
Terminal == {"reauth_required", "disabled"}
Columns  == {"status", "reset", "quotas", "window"}
Rows     == [status: Statuses, reset: {"none", "future", "due"},
             quotas: [Groups -> {"unknown", "zero", "some"}], window: BOOLEAN]
Mutating == {"AUTH", "TRANSIENT", "QUOTA", "RATE_LIMIT"}
Kinds    == Mutating \cup {"CLIENT", "CONFIGURATION", "UNKNOWN"}
PC       == {"idle", "lock", "judge", "commit", "pick", "key", "write"}

AG         == type = "antigravity"
NoQuotas   == [g \in Groups |-> "unknown"]
Spent(q)   == \A g \in Groups : q[g] = "zero"
AnyLeft(q) == (\A g \in Groups : q[g] # "unknown") /\ \E g \in Groups : q[g] = "some"
Nothing    == [status |-> "active", reset |-> "none", quotas |-> NoQuotas, window |-> FALSE]

MayOpen(a) ==
    /\ pc[a] = "idle"
    /\ Cardinality({b \in Writers : pc[b] # "idle"}) < MaxSessions

Goto(a, l) == pc' = [pc EXCEPT ![a] = l]

Open(a, l) == Goto(a, l) /\ missed' = [missed EXCEPT ![a] = {}]

Close(a) ==
    /\ Goto(a, "idle")
    /\ copy' = [copy EXCEPT ![a] = Nothing]
    /\ sets' = [sets EXCEPT ![a] = <<>>]
    /\ kind' = IF a = "handler" THEN "UNKNOWN" ELSE kind

Leave(a) == Close(a) /\ missed' = [missed EXCEPT ![a] = {}] /\ UNCHANGED <<type, row>>

(* The columns a session will write: those that changed and those flagged. *)
Changed(old, new, flagged) ==
    [f \in flagged \cup {f \in Columns : new[f] # old[f]} |-> new[f]]

(* What the properties ask of a writer: the columns that matter to it. *)
Watched(a) == CASE a \in {"handler", "scan"}            -> {"status", "quotas"}
                [] a \in {"reset", "health", "refresh"} -> {"status"}
                [] OTHER                                -> {}

Write(a, values, l) ==
    /\ row' = values
    /\ missed' = [b \in Writers |->
          IF b = a THEN (IF l = "idle" THEN {} ELSE missed[a])
          ELSE missed[b] \cup {f \in Watched(b) :
                   pc[b] \in {"judge", "commit", "pick"} /\ values[f] # row[f]}]

(* What a session still needs of its copy: the scan goes on to book a      *)
(* plain account that it takes for active.                                 *)
Rest(a, new) == [Nothing EXCEPT !.status = IF a = "scan" /\ ~AG THEN new.status ELSE @]

(* The row is read and what to write decided, with nothing in between. *)
Decide(a, new, flagged) ==
    /\ sets' = [sets EXCEPT ![a] = Changed(row, new, flagged)]
    /\ copy' = [copy EXCEPT ![a] = Rest(a, new)]
    /\ Open(a, "commit")
    /\ UNCHANGED <<type, row>>

(* The row is read; what to write depends on an answer still to come. *)
Read(a, part) ==
    /\ copy' = [copy EXCEPT ![a] = part]
    /\ Open(a, "judge")
    /\ UNCHANGED <<type, row, sets>>

(* The answer is there; no change, no commit. *)
Judge(a, new) ==
    /\ pc[a] = "judge"
    /\ IF new = copy[a] THEN Leave(a)
       ELSE /\ sets' = [sets EXCEPT ![a] = Changed(copy[a], new, {})]
            /\ copy' = [copy EXCEPT ![a] = Rest(a, new)]
            /\ Goto(a, "commit")
            /\ UNCHANGED <<rowVars, kind>>

FreedOnCommit(a) == lock' = IF lock = a /\ pc[a] = "commit" THEN None ELSE lock

(* compare_delete of the state lock, for those who take it. *)
Freed(a) == lock' = IF lock = a THEN None ELSE lock

(* The commit, and the end of the section of who took the state lock. *)
Commit(a, l) ==
    /\ pc[a] = "commit"
    /\ Write(a, [f \in Columns |-> IF f \in DOMAIN sets[a] THEN sets[a][f] ELSE row[f]], l)
    /\ Goto(a, l)
    /\ sets' = [sets EXCEPT ![a] = <<>>]
    /\ copy' = [copy EXCEPT ![a] = Nothing]
    /\ UNCHANGED kind
    /\ Freed(a)
    /\ UNCHANGED <<type, cool>>

(* create_credential: a quota window sets reset_at. *)
Init ==
    /\ type \in {"antigravity", "byo"}
    /\ \E w \in BOOLEAN :
          /\ AG => ~w
          /\ row = [Nothing EXCEPT !.window = w, !.reset = IF w THEN "future" ELSE "none"]
    /\ cool = FALSE
    /\ lock = None
    /\ pc = [a \in Writers |-> "idle"]
    /\ copy = [a \in Writers |-> Nothing]
    /\ sets = [a \in Writers |-> <<>>]
    /\ missed = [a \in Writers |-> {}]
    /\ kind = "UNKNOWN"

------------------------------------------------------------------------------
(* The failure handler *)

(* RATE_LIMIT cools the account down as TRANSIENT does, only longer. *)
Effect(k) == IF k = "RATE_LIMIT" THEN "TRANSIENT" ELSE k

(* A request booked earlier fails.  Kinds that neither mutate the status    *)
(* nor drop the binding do nothing.                                        *)
Fail(k) ==
    /\ MayOpen("handler")
    /\ k \in Mutating
    /\ kind' = Effect(k)
    /\ Goto("handler", "lock")
    /\ UNCHANGED <<rowVars, cool, lock, copy, sets>>

LockState(a, l) ==
    /\ pc[a] = "lock"
    /\ lock = None
    /\ lock' = a
    /\ Goto(a, l)
    /\ UNCHANGED <<rowVars, cool, copy, sets, kind>>

(* A hundred tries: the failure, or the probe's result, is dropped. *)
GiveUp(a) ==
    /\ pc[a] = "lock"
    /\ lock # None
    /\ Leave(a)
    /\ UNCHANGED <<cool, lock>>

(* Variants named after a mistake are the module's own negative controls.  *)
KeepsExhaustedOnly(v) == v.status = "exhausted" /\ kind # "QUOTA"
MarkedAlone(v, g) ==
    [v EXCEPT !.quotas = [NoQuotas EXCEPT ![g] = "zero"], !.status = "active"]

(* What an earlier, stronger verdict protects from this failure. *)
Keeps(v) ==
    \/ v.status = "exhausted" /\ kind # "QUOTA"
    \/ v.status \in Terminal /\ kind # "AUTH"

(* _mark_antigravity_group_exhausted *)
Marked(v, g) ==
    LET q == [v.quotas EXCEPT ![g] = "zero"] IN
    [v EXCEPT !.quotas = q, !.status = IF Spent(q) THEN "exhausted" ELSE "active"]

(* Without a reset_at an exhausted account is tried again after a day. *)
Blamed(v, g) ==
    CASE kind = "AUTH"           -> [v EXCEPT !.status = "reauth_required", !.reset = "none"]
      [] kind = "QUOTA" /\ AG    -> Marked(v, g)
      [] kind = "QUOTA" /\ ~AG   -> [v EXCEPT !.status = "exhausted",
                                              !.reset = IF @ = "none" THEN "future" ELSE @]
      [] OTHER                   -> [v EXCEPT !.status = "cooldown"]

(* refresh reads the row again, under the lock.  The cooldown key is set   *)
(* before the commit; nobody can tell the two moments of reading apart.    *)
Handle == \E g \in Groups :
    /\ pc["handler"] = "judge"
    /\ IF Keeps(row)
       THEN Leave("handler") /\ Freed("handler")
       ELSE /\ Decide("handler", Blamed(row, g), IF AG /\ kind = "QUOTA" THEN {"quotas"} ELSE {})
            /\ kind' = "UNKNOWN"
            /\ UNCHANGED lock
    /\ cool' = (cool \/ (~Keeps(row) /\ kind = "TRANSIENT"))

HandlerCommit == Commit("handler", "idle")

HandlerStep ==
    \/ (\E k \in Kinds : Fail(k)) \/ Handle \/ HandlerCommit
    \/ LockState("handler", "judge") \/ GiveUp("handler")

------------------------------------------------------------------------------
(* The scan of get_active_credentials, and the booking that follows *)

NewWindow(v) == [v EXCEPT !.status = "active", !.reset = IF v.window THEN "future" ELSE "none"]

(* _refresh_expired_states: a cooldown is looked up in Redis and is over,  *)
Revived(v) ==
    IF v.status # "cooldown" THEN v
    ELSE [v EXCEPT !.status = IF AG /\ Spent(v.quotas) THEN "exhausted" ELSE "active"]

(* and then a window that has ended, or an exhaustion that has.            *)
Repaired(v) ==
    IF ~AG /\ v.reset = "due" /\ v.status \in {"active", "exhausted"} THEN NewWindow(v)
    ELSE IF AG /\ v.status = "exhausted" /\ AnyLeft(v.quotas)
         THEN [v EXCEPT !.status = "active"]
         ELSE v

ScanLoad ==
    /\ MayOpen("scan")
    /\ IF row.status = "cooldown" THEN Read("scan", row) ELSE Decide("scan", Repaired(row), {})
    /\ UNCHANGED <<cool, lock, kind>>

ScanJudge ==
    /\ Judge("scan", IF cool THEN copy["scan"] ELSE Repaired(Revived(copy["scan"])))
    /\ UNCHANGED <<cool, lock>>

Booking    == ~AG /\ copy["scan"].status = "active"
ScanCommit == \E l \in IF Booking THEN {"pick", "idle"} ELSE {"idle"} : Commit("scan", l)

(* The account is bound, and its token window turns out to be spent. *)
ExhaustBound ==
    /\ pc["scan"] = "pick"
    /\ sets' = [sets EXCEPT !["scan"] = [status |-> "exhausted"]]
    /\ copy' = [copy EXCEPT !["scan"].status = "exhausted"]
    /\ Goto("scan", "commit")
    /\ UNCHANGED <<rowVars, cool, lock, kind>>

ScanStep == ScanLoad \/ ScanJudge \/ ScanCommit \/ ExhaustBound

------------------------------------------------------------------------------
(* The workers *)

DueByWindow == ~AG /\ row.reset = "due"
DueWhenCooling == row.status = "cooldown"

(* The query of periodic_quota_resets. *)
Due == row.status = "cooldown" \/ (~AG /\ row.reset = "due")

(* From the old reset_at, in whole windows, until it is in the future. *)
Rolled(v) == NewWindow(v)

(* Whatever the status: a window that has ended makes a plain account active. *)
Reset(v) ==
    IF ~AG /\ v.reset = "due" THEN Rolled(v)
    ELSE [v EXCEPT !.status = IF @ = "cooldown" THEN "active" ELSE @]

ResetLoad ==
    /\ MayOpen("reset")
    /\ Due
    /\ IF row.status = "cooldown" THEN Read("reset", [row EXCEPT !.quotas = NoQuotas])
                                  ELSE Decide("reset", Reset(row), {})
    /\ UNCHANGED <<cool, lock, kind>>

ResetJudge ==
    /\ Judge("reset", IF cool THEN copy["reset"] ELSE Reset(copy["reset"]))
    /\ UNCHANGED <<cool, lock>>

ResetCommit == Commit("reset", "idle")

(* The health check of a plain account loads the row after its probe; for  *)
(* the others the probe is fetch_quota and no status is written here.      *)
HealthLoad == \E healthy \in BOOLEAN :
    /\ MayOpen("health")
    /\ ~AG
    /\ Decide("health", [row EXCEPT !.status =
                            IF ~healthy THEN "degraded"
                            ELSE IF @ = "degraded" THEN "active" ELSE @], {})
    /\ UNCHANGED <<cool, lock, kind>>

HealthCommit == Commit("health", "idle")

(* The token refresh of the worker failed; invalid_grant is final. *)
RefreshLoad == \E verdict \in {"reauth_required", "cooldown"} :
    /\ MayOpen("refresh")
    /\ AG
    /\ row.status \notin Terminal \cup {"exhausted"}
    /\ Decide("refresh", [row EXCEPT !.status = verdict], {})
    /\ UNCHANGED <<cool, lock, kind>>

RefreshFinal  == sets["refresh"] = [status |-> "reauth_required"]
RefreshCommit == Commit("refresh", IF RefreshFinal THEN "idle" ELSE "key")

(* Here the key comes after the commit. *)
RefreshKey ==
    /\ pc["refresh"] = "key"
    /\ cool' = TRUE
    /\ Leave("refresh")
    /\ UNCHANGED lock

WorkerStep == ResetLoad \/ ResetJudge \/ ResetCommit \/ HealthLoad \/ HealthCommit
              \/ RefreshLoad \/ RefreshCommit \/ RefreshKey

------------------------------------------------------------------------------
(* The quota probe: fetch_quota, from the health check, the admin, OAuth *)

ProbeStart == MayOpen("probe") /\ AG /\ Read("probe", row) /\ UNCHANGED <<cool, lock, kind>>

ProbeFailed(status) ==
    /\ pc["probe"] = "judge"
    /\ Write("probe", [row EXCEPT !.status = status], "idle")
    /\ Close("probe")
    /\ UNCHANGED <<type, cool, lock>>

(* _mark_reauth_required overwrites any status. *)
ProbeDenied == ProbeFailed("reauth_required")

(* No access token, no project, HTTP 403 on the second attempt. *)
ProbeBroken ==
    ProbeFailed(IF row.status \in Terminal \cup {"exhausted"} THEN row.status ELSE "degraded")

AnyGroupSpent(q) == IF \E g \in Groups : q[g] = "zero" THEN "exhausted" ELSE "active"
ByGroups(q)      == IF Spent(q) THEN "exhausted" ELSE "active"

Known(q, else) == IF q = NoQuotas THEN else ELSE q

(* The verdict on what the probe began with (v) and found; a cooldown that *)
(* is over hides a probe that did not succeed.                             *)
Probed(v, ok, found) ==
    CASE v.status \in Terminal \/ (v.status = "cooldown" /\ cool) ->
              [v EXCEPT !.quotas = Known(@, found)]
      [] v.status \notin Terminal \cup {"cooldown"} /\ ~ok ->
              [v EXCEPT !.status = "degraded"]
      [] OTHER ->
              [v EXCEPT !.status = ByGroups(found), !.quotas = found]

(* The answer: fractions per group, or none when a call did not succeed.   *)
(* The copy keeps the status the probe began with.                         *)
ProbeJudge == \E ok \in BOOLEAN, found \in Answers :
    /\ pc["probe"] = "judge"
    /\ ~ok => found = NoQuotas
    /\ LET v == copy["probe"] IN
          /\ sets' = [sets EXCEPT !["probe"] =
                         Changed(v, Probed(v, ok, found), {"status", "quotas"})]
          /\ copy' = [copy EXCEPT !["probe"] = [Nothing EXCEPT !.status = v.status]]
    /\ Goto("probe", "lock")
    /\ UNCHANGED <<rowVars, cool, lock, kind>>

ProbeValues ==
    [row EXCEPT !.status = sets["probe"].status, !.quotas = sets["probe"].quotas]

ProbeWriteBlind ==
    /\ pc["probe"] = "write"
    /\ Write("probe", ProbeValues, "idle")
    /\ Freed("probe")
    /\ Close("probe")
    /\ UNCHANGED <<type, cool>>

(* UPDATE ... WHERE status = the status the probe began with. *)
ProbeWrite ==
    /\ pc["probe"] = "write"
    /\ Write("probe", IF row.status = copy["probe"].status THEN ProbeValues ELSE row, "idle")
    /\ Freed("probe")
    /\ Close("probe")
    /\ UNCHANGED <<type, cool>>

ProbeStep == ProbeStart \/ ProbeDenied \/ ProbeBroken \/ ProbeJudge \/ ProbeWrite
             \/ LockState("probe", "write") \/ GiveUp("probe")

------------------------------------------------------------------------------
(* The admin, and time *)

(* update_credential: a status of the dashboard, or another quota window.  *)
(* Reactivating starts over; the OAuth callback only changes the status.   *)
AdminLoad ==
    /\ MayOpen("admin")
    /\ \/ Decide("admin", [row EXCEPT !.status = "disabled"], {})
       \/ row.status = "active" /\ Decide("admin", row, {})
       \/ row.status # "active"
          /\ Decide("admin", [row EXCEPT !.status = "active", !.reset = "none",
                                         !.quotas = NoQuotas], {"quotas"})
       \/ ~AG /\ \E w \in BOOLEAN :
             Decide("admin", [row EXCEPT !.window = w, !.reset = IF w THEN "future" ELSE "none"], {})
    /\ UNCHANGED <<cool, lock, kind>>

Reconnect ==
    /\ MayOpen("admin")
    /\ AG
    /\ Decide("admin", [row EXCEPT !.status = "active"], {})
    /\ UNCHANGED <<cool, lock, kind>>

AdminCommit == Commit("admin", "idle")

WindowEnds ==
    /\ row.reset = "future"
    /\ row' = [row EXCEPT !.reset = "due"]
    /\ UNCHANGED <<type, cool, lock, pc, copy, sets, missed, kind>>

CooldownExpires ==
    /\ cool
    /\ cool' = FALSE
    /\ UNCHANGED <<rowVars, lock, pc, copy, sets, kind>>

LockExpires ==
    /\ lock # None
    /\ lock' = None
    /\ UNCHANGED <<rowVars, cool, pc, copy, sets, kind>>

Next ==
    \/ HandlerStep \/ ScanStep \/ WorkerStep \/ ProbeStep
    \/ AdminLoad \/ Reconnect \/ AdminCommit
    \/ WindowEnds \/ CooldownExpires \/ LockExpires

(* What a session does once it is open. *)
Continue(a) ==
    \/ a = "handler" /\ (Handle \/ HandlerCommit)
    \/ a = "scan"    /\ (ScanJudge \/ ScanCommit)
    \/ a = "reset"   /\ (ResetJudge \/ ResetCommit)
    \/ a = "health"  /\ HealthCommit
    \/ a = "refresh" /\ (RefreshCommit \/ RefreshKey)
    \/ a = "probe"   /\ (ProbeJudge \/ ProbeWrite)
    \/ a = "admin"   /\ AdminCommit
    \/ LockState(a, IF a = "handler" THEN "judge" ELSE "write") \/ GiveUp(a)

(* Every session goes on until it closes; the reset worker comes by every  *)
(* ten seconds, whatever the others do.                                    *)
Fairness == SF_vars(ResetLoad) /\ \A a \in Writers : WF_vars(Continue(a))

Spec == Init /\ [][Next]_vars /\ Fairness

------------------------------------------------------------------------------
(* Properties *)

(* Every variable has its type, and the state lock is held by a session    *)
(* that is at work, never by one that has ended.                           *)
TypeOK ==
    /\ type \in {"antigravity", "byo"}
    /\ row \in Rows
    /\ cool \in BOOLEAN
    /\ \/ lock = None
       \/ lock = "handler" /\ pc["handler"] \in {"judge", "commit"}
       \/ lock = "probe" /\ pc["probe"] = "write"
    /\ pc \in [Writers -> PC]
    /\ copy \in [Writers -> Rows]
    /\ missed \in [Writers -> SUBSET {"status", "quotas"}]
    /\ kind \in Kinds
    /\ \A a \in Writers :
          /\ DOMAIN sets[a] \subseteq Columns
          /\ [f \in Columns |-> IF f \in DOMAIN sets[a] THEN sets[a][f] ELSE row[f]] \in Rows

Commits(a) == pc[a] \in {"commit", "write"} /\ pc'[a] # pc[a]

(* A gateway component that has seen an account disabled by the admin, or  *)
(* waiting for a new login, never takes it out of that state; only the     *)
(* admin does, and for plain accounts the two workers.                     *)
TerminalSticks ==
    [][row.status \in Terminal /\ row'.status \notin Terminal =>
          \E a \in Writers : Commits(a) /\
             (a = "admin" \/ "status" \in missed[a] \/ (~AG /\ a \in {"reset", "health"}))]_vars

(* Nobody who has seen the quotas as they are declares an Antigravity      *)
(* account exhausted while a quota group is left or unknown.               *)
ExhaustedIsSpent ==
    [][AG /\ row'.status = "exhausted" /\ row.status # "exhausted" =>
          \/ Spent(row'.quotas)
          \/ \E a \in Writers : Commits(a) /\ "quotas" \in missed[a]]_vars

(* A quota group found spent stays spent until a probe brings fractions or *)
(* the admin starts over: whoever marks one group, with the quotas as they *)
(* are before it, never forgets the other.                                 *)
SpentSticks ==
    [][\A g \in Groups : row.quotas[g] = "zero" /\ row'.quotas[g] # "zero" =>
          \E a \in Writers : Commits(a) /\ (a \in {"probe", "admin"} \/ "quotas" \in missed[a])]_vars

(* No account stays in cooldown once its key is gone. *)
CooldownEnds == row.status = "cooldown" /\ ~cool ~> row.status # "cooldown" \/ cool

(* No plain account stays exhausted once its quota window has ended. *)
ExhaustionEnds ==
    ~AG /\ row.status = "exhausted" /\ row.reset = "due" ~>
       row.status # "exhausted" \/ row.reset # "due"

(* The health check, which does not reset quotas, leaves an account alone  *)
(* that it has seen exhausted: "that requires quota reset".                *)
HealthKeepsExhausted ==
    [][row.status = "exhausted" /\ row'.status # "exhausted" =>
          ~(Commits("health") /\ "status" \notin missed["health"])]_vars
==============================================================================
