----------------------------- MODULE UpstreamCall -----------------------------
(***************************************************************************)
(* Calls to Google on one Antigravity account: the access token they share *)
(* and the attempts of one call.                                           *)
(*                                                                         *)
(*   backend/app/providers/antigravity.py   get_access_token, the attempts *)
(*       of chat_completion, the writes of the secret by fetch_quota       *)
(*   backend/app/core/error_classifier.py   the verdict on a failed call   *)
(*                                                                         *)
(* A caller is a provider object made for one chat request or one quota    *)
(* probe, with the copy of the secret that its session loaded.  Access     *)
(* tokens are cached in Redis; refresh tokens are in the secret, and       *)
(* Google may rotate one when it is used.  A rotated token may stay good   *)
(* for a while.  A chat leaves its own copy in the session of its request, *)
(* which writes it a second time, later and without the lock.  The TTL of  *)
(* the refresh lock (90 s) outlives the request it guards (30 s); it frees *)
(* the lock of a process that died.                                        *)
(***************************************************************************)
EXTENDS Naturals, ErrorClassifier

CONSTANTS
    None,       \* nobody, nothing
    Callers,    \* provider objects alive at a time
    GeoLimit,   \* _GEO_LOCATION_RETRY_LIMIT, 5 in the code
    Hosts,      \* the configured endpoint and its sibling, if it has one
    MaxToken,   \* bound: refresh tokens Google hands out after the first
    Replies     \* the answers other than 200

ASSUME CallersAssumption == None \notin Callers
ASSUME LoopAssumption == GeoLimit \in Nat /\ Hosts \in {1, 2} /\ MaxToken \in Nat
ASSUME RepliesAssumption == Replies \subseteq Errors /\ None \notin Replies

VARIABLES
    secret,     \* the row's encrypted_secret: a refresh token, and whether it has the project id
    good,       \* the refresh tokens Google accepts
    issued,     \* the newest refresh token
    cache,      \* an access token is cached
    lock,       \* who holds lock:token_refresh, or None
    call,       \* the callers
    ended,      \* history: how a call has just ended
    lost,       \* history: a process died between Google's answer and the row
    putBack     \* history: refused refresh tokens that a late flush wrote to the row

history   == <<lost, putBack>>
vars      == <<secret, good, issued, cache, lock, call, ended, history>>
tokenVars == <<secret, good, issued, cache, history>>

MaxAttempts == 2 + GeoLimit
Tokens  == 0..MaxToken
Secrets == [refresh: Tokens, project: BOOLEAN]
Section == {"refresh", "persist", "cache", "load", "write"}
PC      == Section \cup {"idle", "token", "wait", "send", "save", "flush"}
Kinds   == {"AUTH", "QUOTA", "RATE_LIMIT", "TRANSIENT", "CLIENT", "CONFIGURATION", "UNKNOWN"}
Results == Kinds \cup {"none", "answered", "unreadable", "silent"}

(* own: its copy of the secret; fresh: the rotated token, or the row as it *)
(* was read under the lock; force: the cached token is not to be used      *)
(* (auth_retried, or a probe's second round); found: the probe knows the   *)
(* project id; dirty: the session of the request has a secret to write.    *)
Calls == [pc: PC, job: {"chat", "probe"}, own: Secrets, fresh: Secrets, force: BOOLEAN,
          found: BOOLEAN, dirty: BOOLEAN, geo: Nat, host: 0..(Hosts - 1), tries: Nat]

NoSecret == [refresh |-> 0, project |-> FALSE]
Idle == [pc |-> "idle", job |-> "chat", own |-> NoSecret, fresh |-> NoSecret, force |-> FALSE,
         found |-> FALSE, dirty |-> FALSE, geo |-> 0, host |-> 0, tries |-> 0]

NoEnd == [result |-> "none", last |-> None, forced |-> FALSE]

Set(c, v) == call' = [call EXCEPT ![c] = v] /\ ended' = NoEnd

(* The call ends, with the reply that ended it, if there was one.  Release *)
(* and usage log follow on the request's session; those of a stream that   *)
(* had begun do not use it, and what it has to write is dropped.           *)
EndAs(c, v, result, last) ==
    /\ \/ v.dirty /\ call' = [call EXCEPT ![c] = [Idle EXCEPT !.pc = "flush", !.own = v.own]]
       \/ call' = [call EXCEPT ![c] = Idle]
    /\ ended' = [result |-> result, last |-> last, forced |-> v.force]

End(c, result, last) == EndAs(c, call[c], result, last)

Fails(c, e) == End(c, classify_upstream_error_kind(e), None)

(* compare_delete *)
Unlock(c) == lock' = IF lock = c THEN None ELSE lock

Goto(c, l) == Set(c, [call[c] EXCEPT !.pc = l])

Init ==
    /\ secret = NoSecret
    /\ good = {0}
    /\ issued = 0
    /\ cache \in BOOLEAN
    /\ lock = None
    /\ call = [c \in Callers |-> Idle]
    /\ ended = NoEnd
    /\ lost = FALSE
    /\ putBack = {}

(* The row is loaded; a provider is made of it. *)
Start(c, job) ==
    /\ call[c].pc = "idle"
    /\ Set(c, [Idle EXCEPT !.pc = "token", !.job = job, !.own = secret])
    /\ UNCHANGED <<tokenVars, lock>>

------------------------------------------------------------------------------
(* get_access_token *)

CacheHit(c) ==
    /\ call[c].pc = "token"
    /\ cache /\ ~call[c].force
    /\ Goto(c, "send")
    /\ UNCHANGED <<tokenVars, lock>>

(* SET NX: the one who gets it refreshes, the others poll the cache. *)
Contend(c) ==
    /\ call[c].pc = "token"
    /\ ~cache \/ call[c].force
    /\ IF lock = None THEN lock' = c /\ Goto(c, "refresh")
                      ELSE Goto(c, "wait") /\ UNCHANGED lock
    /\ UNCHANGED tokenVars

Served(c) ==
    /\ call[c].pc = "wait"
    /\ cache
    /\ Goto(c, "send")
    /\ UNCHANGED <<tokenVars, lock>>

(* What the caller makes of a token it could not get: a probe tries once   *)
(* more, without the cache, and then notes the failure in the secret,      *)
(* unless the grant is gone.                                               *)
WithoutToken(c, e) ==
    IF call[c].job = "chat" \/ (call[c].force /\ "hard_auth" \in e.marks) THEN Fails(c, e)
    ELSE IF ~call[c].force THEN Set(c, [call[c] EXCEPT !.pc = "token", !.force = TRUE])
         ELSE Goto(c, "save")

(* 950 polls: "timed out". *)
TimedOut(c) ==
    /\ call[c].pc = "wait"
    /\ ~cache
    /\ WithoutToken(c, [code |-> 0, marks |-> {"transient"}])
    /\ UNCHANGED <<tokenVars, lock>>

(* Google accepts the refresh token, and may send another one in its place. *)
Granted(c) ==
    /\ call[c].pc = "refresh"
    /\ call[c].own.refresh \in good
    /\ \/ Goto(c, "cache") /\ UNCHANGED <<good, issued>>
       \/ /\ issued < MaxToken
          /\ issued' = issued + 1
          /\ good' \in {good \cup {issued'}, (good \ {call[c].own.refresh}) \cup {issued'}}
          /\ Set(c, [call[c] EXCEPT !.pc = "persist", !.fresh = [call[c].own EXCEPT !.refresh = issued']])
    /\ UNCHANGED <<secret, cache, lock, history>>

(* The whole configuration, as this caller loaded it, with the new token.  *)
(* The credential that a chat sets it on belongs to the request's session. *)
Persist(c) ==
    /\ call[c].pc = "persist"
    /\ secret' = call[c].fresh
    /\ Set(c, [call[c] EXCEPT !.pc = "cache", !.own = call[c].fresh, !.fresh = NoSecret,
                              !.dirty = (call[c].job = "chat")])
    /\ UNCHANGED <<good, issued, cache, lock, history>>

CacheToken(c) ==
    /\ call[c].pc = "cache"
    /\ cache' = TRUE
    /\ Unlock(c)
    /\ Goto(c, "send")
    /\ UNCHANGED <<secret, good, issued, history>>

(* invalid_grant: reauth_required, and no cached token. *)
Refused(c) ==
    /\ call[c].pc = "refresh"
    /\ call[c].own.refresh \notin good
    /\ cache' = FALSE
    /\ Unlock(c)
    /\ WithoutToken(c, [code |-> 0, marks |-> {"hard_auth"}])
    /\ UNCHANGED <<secret, good, issued, history>>

(* Any other failure of the token endpoint. *)
TokenFails(c) ==
    /\ call[c].pc = "refresh"
    /\ Unlock(c)
    /\ \E e \in {[code |-> 503, marks |-> {"transient"}], [code |-> 0, marks |-> {}]} :
          WithoutToken(c, e)
    /\ UNCHANGED tokenVars

(* The next round of the loop, or its end without a word. *)
Again(c, v) == IF v.tries + 1 < MaxAttempts THEN Set(c, [v EXCEPT !.pc = "token", !.tries = @ + 1])
                                            ELSE EndAs(c, v, "silent", None)

(* 401 or 403 of the token endpoint: the one case in which a chat tries    *)
(* again without the cached token.                                         *)
Challenged(c) ==
    /\ call[c].pc = "refresh"
    /\ Unlock(c)
    /\ IF call[c].job = "chat" /\ ~call[c].force
       THEN cache' = FALSE /\ Again(c, [call[c] EXCEPT !.force = TRUE])
       ELSE /\ UNCHANGED cache
            /\ \E e \in {[code |-> 401, marks |-> {"unauthorized"}], [code |-> 403, marks |-> {"forbidden"}]} :
                  WithoutToken(c, e)
    /\ UNCHANGED <<secret, good, issued, history>>

TokenExpires ==
    /\ cache
    /\ cache' = FALSE
    /\ UNCHANGED <<secret, good, issued, lock, call, history>>
    /\ ended' = NoEnd

------------------------------------------------------------------------------
(* The attempts of chat_completion *)

(* Variants named after a mistake are the module's own negative controls. *)
HostBeyond(v, e) ==
    LET blocked == "geo" \in e.marks IN
    CASE blocked /\ v.geo < GeoLimit -> "geo"
      [] ~(blocked /\ v.geo < GeoLimit) /\ (e.code = 429 \/ blocked) /\ v.host < Hosts -> "sibling"
      [] OTHER -> "fail"

OneTooMany(v, e) ==
    LET blocked == "geo" \in e.marks IN
    CASE blocked /\ v.geo <= GeoLimit -> "geo"
      [] (~blocked \/ v.geo > GeoLimit) /\ (e.code = 429 \/ blocked) /\ v.host + 1 < Hosts -> "sibling"
      [] OTHER -> "fail"

(* _generate_retry_action *)
RetryAction(v, e) ==
    LET blocked == "geo" \in e.marks IN
    CASE blocked /\ v.geo < GeoLimit -> "geo"
      [] ~(blocked /\ v.geo < GeoLimit) /\ (e.code = 429 \/ blocked) /\ v.host + 1 < Hosts -> "sibling"
      [] OTHER -> "fail"

(* The exception raised has the reply and its code in its text, as         *)
(* "HTTP 403: ...", and no status code.                                    *)
Raised(e) == [code |-> 0, marks |-> e.marks \cup (CASE e.code = 429 -> {"429"}
                                                    [] e.code = 401 -> {"unauthorized"}
                                                    [] e.code = 403 -> {"forbidden"}
                                                    [] OTHER -> {})]

(* A 401 or 403 is a reply like others only with auth_retried set. *)
Reply(c, e) ==
    /\ call[c].pc = "send" /\ call[c].job = "chat"
    /\ e.code \in {401, 403} => call[c].force
    /\ LET v == call[c] action == RetryAction(v, e) IN
          CASE action = "geo"     -> Again(c, [v EXCEPT !.geo = @ + 1])
            [] action = "sibling" -> Again(c, [v EXCEPT !.host = @ + 1])
            [] action = "fail"    -> End(c, classify_upstream_error_kind(Raised(e)), e)
    /\ UNCHANGED <<tokenVars, lock>>

(* 401 or 403: the cached token goes.  The error raised carries a response *)
(* nobody has read, and reading its text makes the classifier raise; the   *)
(* loop does not try again, auth_retried being set already.                *)
Challenge(c) ==
    /\ call[c].pc = "send" /\ call[c].job = "chat"
    /\ ~call[c].force
    /\ cache' = FALSE
    /\ End(c, "unreadable", None)
    /\ UNCHANGED <<secret, good, issued, lock, history>>

Answer(c) ==
    /\ call[c].pc = "send" /\ call[c].job = "chat"
    /\ End(c, "answered", None)
    /\ UNCHANGED <<tokenVars, lock>>

(* The connection fails, before or during the answer. *)
Broken(c) ==
    /\ call[c].pc = "send" /\ call[c].job = "chat"
    /\ \E marks \in {{}, {"transient"}} : Fails(c, [code |-> 0, marks |-> marks])
    /\ UNCHANGED <<tokenVars, lock>>

(* The next query or commit of the request's session writes the secret     *)
(* that the call has set, whatever the row holds by now.                   *)
Flush(c) ==
    /\ call[c].pc = "flush"
    /\ secret' = call[c].own
    /\ putBack' = putBack \cup ({call[c].own.refresh} \ good)
    /\ Set(c, Idle)
    /\ UNCHANGED <<good, issued, cache, lock, lost>>

------------------------------------------------------------------------------
(* The probe: fetch_quota and its two writes of the secret *)

(* The first round fails, and with 401 or 403 the cached token goes. *)
ProbeAgain(c) ==
    /\ call[c].pc = "send" /\ call[c].job = "probe"
    /\ ~call[c].force
    /\ cache' \in {cache, FALSE}
    /\ Set(c, [call[c] EXCEPT !.pc = "token", !.force = TRUE])
    /\ UNCHANGED <<secret, good, issued, history, lock>>

(* There is something to save, or the second round is turned away. *)
ProbeAsks(c) ==
    /\ call[c].pc = "send" /\ call[c].job = "probe"
    /\ \/ Set(c, [call[c] EXCEPT !.pc = "save", !.found = TRUE])
       \/ call[c].force /\ (Goto(c, "save") \/ End(c, "AUTH", None))
    /\ UNCHANGED <<tokenVars, lock>>

(* _acquire_secret_write_lock: 950 tries. *)
SaveLock(c) ==
    /\ call[c].pc = "save"
    /\ \/ lock = None /\ lock' = c /\ Goto(c, "load")
       \/ lock # None /\ UNCHANGED lock /\ Fails(c, [code |-> 0, marks |-> {"transient"}])
    /\ UNCHANGED tokenVars

LoadOwn(c) ==
    /\ call[c].pc = "load"
    /\ Set(c, [call[c] EXCEPT !.pc = "write",
                              !.fresh = [call[c].own EXCEPT !.project = @ \/ call[c].found]])
    /\ UNCHANGED <<tokenVars, lock>>

(* The row is read again, under the lock. *)
Load(c) ==
    /\ call[c].pc = "load"
    /\ Set(c, [call[c] EXCEPT !.pc = "write",
                              !.fresh = [secret EXCEPT !.project = @ \/ call[c].found]])
    /\ UNCHANGED <<tokenVars, lock>>

(* The project id comes first, if the caller's copy lacks it, and then the *)
(* tier, unless the round fails in between.                                *)
Save(c) ==
    /\ call[c].pc = "write"
    /\ secret' = call[c].fresh
    /\ Unlock(c)
    /\ IF call[c].own.project \/ ~call[c].found THEN End(c, "answered", None)
       ELSE \E force \in {call[c].force, TRUE} :
               Set(c, [call[c] EXCEPT !.pc = IF force = call[c].force THEN "save" ELSE "token",
                                      !.own = call[c].fresh, !.fresh = NoSecret, !.force = force])
    /\ UNCHANGED <<good, issued, cache, history>>

------------------------------------------------------------------------------
(* update_credential and handle_oauth_callback: a new grant, without the lock. *)
NewGrant ==
    /\ issued < MaxToken
    /\ issued' = issued + 1
    /\ good' = good \cup {issued'}
    /\ secret' = [refresh |-> issued', project |-> FALSE]
    /\ UNCHANGED <<cache, lock, call, history>>
    /\ ended' = NoEnd

(* The process dies. *)
Crash(c) ==
    /\ call[c].pc # "idle"
    /\ lost' = (lost \/ call[c].pc = "persist")
    /\ Set(c, Idle)
    /\ UNCHANGED <<secret, good, issued, cache, lock, putBack>>

LockExpires ==
    /\ lock # None
    /\ call[lock].pc \notin Section
    /\ lock' = None
    /\ UNCHANGED <<tokenVars, call>>
    /\ ended' = NoEnd

Proceed(c) ==
    \/ CacheHit(c) \/ Contend(c) \/ Served(c) \/ TimedOut(c)
    \/ Granted(c) \/ Persist(c) \/ CacheToken(c) \/ Refused(c) \/ TokenFails(c) \/ Challenged(c)
    \/ (\E e \in Replies : Reply(c, e)) \/ Challenge(c) \/ Answer(c) \/ Broken(c)
    \/ Flush(c)
    \/ ProbeAgain(c) \/ ProbeAsks(c) \/ SaveLock(c) \/ Load(c) \/ Save(c)

Next ==
    \/ \E c \in Callers : Start(c, "chat") \/ Start(c, "probe") \/ Proceed(c) \/ Crash(c)
    \/ TokenExpires \/ NewGrant \/ LockExpires

Spec == Init /\ [][Next]_vars

------------------------------------------------------------------------------
(* Properties *)

(* Every variable has its type, and a lock belongs to a caller. *)
TypeOK ==
    /\ secret \in Secrets
    /\ good \subseteq Tokens
    /\ issued \in Tokens
    /\ cache \in BOOLEAN /\ lost \in BOOLEAN /\ putBack \subseteq Tokens
    /\ lock \in Callers \cup {None}
    /\ call \in [Callers -> Calls]
    /\ ended \in [result: Results, last: Replies \cup {None}, forced: BOOLEAN]

(* The row holds a refresh token that Google accepts, whoever refreshes,   *)
(* saves or reconnects meanwhile, unless a process died with the only copy *)
(* of it.  "Serialize encrypted-secret updates with OAuth refresh writes." *)
RowKept ==
    lost \/ secret.refresh \in good \/ \E c \in Callers : call[c].pc = "persist"

(* The writes under the secret write lock never cost the row its token: it *)
(* has a refused one only if the session of a chat put that very token     *)
(* back, after its call and without the lock.                              *)
RowGood == RowKept \/ secret.refresh \in putBack

(* The attempts last for the retries of blocked locations and the sibling  *)
(* host: only a call that also spent one on a new token falls silent.      *)
SilentOnlyForced == ended.result = "silent" => ended.forced /\ Hosts = 2

(* "Auth refresh gets one extra attempt": a call that ends because Google   *)
(* turned its access token away has tried a new one.                       *)
ChallengeRetried == ended.result = "unreadable" => ended.forced

(* An account is only called exhausted for a reply that names a spent      *)
(* quota.                                                                  *)
QuotaNamed == ended.last # None /\ ended.result = "QUOTA" =>
    "hard_quota" \in ended.last.marks \/ {"quota_context", "exceeded"} \subseteq ended.last.marks

(* A call that ends on a location block keeps the conversation's account.  *)
BlockKeepsAccount ==
    ended.last # None /\ "geo" \in ended.last.marks /\ ended.last.code # 429 =>
       ~should_invalidate_session_binding(ended.result)

(* What a failed call does to its account is what its last reply says.     *)
VerdictFair == QuotaNamed /\ BlockKeepsAccount
==============================================================================
