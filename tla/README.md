# Levitate API, verified

TLA+ modules, TLC configurations and TLAPS proofs for the gateway under
`src/backend/app`: an OpenAI-compatible API that spreads the requests of
virtual keys over a user's upstream credentials (API keys and OAuth
"antigravity" accounts), with limits and locks in Redis and durable state in a
database. One uvicorn process serves all requests (`src/backend/Dockerfile`),
so concurrency is what the event loop does between two awaits; Redis and the
database outlive the process.

## 1. Inventory

| component | state | operations | hard behaviour | what makes it correct |
|---|---|---|---|---|
| Credential booking, `routing/selector.py` | Redis: lock key and concurrency counter per credential, their TTLs | `_try_book`, `release`, `_select_without_session`, state lock | check-then-increment across awaits, TTLs firing early, lost leases, crash between INCRBY and EXPIRE | no more than `concurrency_limit` users; locks freed by their owner; counters that recover |
| Request loops, `api/routers/v1/chat.py`, `services/usage_service.py` | locals of a request: credential in use, `exclude_ids` | chat, embeddings, images, streaming generator, failure handler | every exit must release exactly once; streams nobody reads; writes that fail after the release | leases in the counter are leases someone holds or has lost for a known reason |
| Session affinity, `routing/selector.py` | Redis: binding per (provider, user, session, model), session lock | `select_and_book`, `_read_binding`, `invalidate_binding` | first-bind races, lock expiry, the matched model changing between two reads, late failures | a conversation stays on one account until that account fails it |
| Conversation, `routing/conversation_tip.py`, `providers/antigravity.py` | Redis: message hash to session id, thought signatures | `resolve_session_id_from_tips`, `remember_tip`, contents for Google, fold of the chunks | answers in pieces, clients that drop fields, disconnects | a follow-up finds its session; calls, results and signatures fit together |
| Credential lifecycle, `chat.py`, `selector.py`, `workers/worker.py`, `providers/antigravity.py`, `services/credential_service.py` | database: status, `reset_at`, model quotas; Redis: cooldown key | failure handler, `_refresh_expired_states`, three worker loops, `fetch_quota`, admin update | seven writers with snapshots of different age; commit and key in two steps | disabled, exhausted and reauth states end only as intended |
| Quota window, `selector.py`, `worker.py` | Redis token counter, database copy, `reset_at` | booking check, `release`, two reset paths | re-seeding, out-of-order commits, drift of the window | every token of a window is counted |
| Virtual key limits, `services/usage_service.py` | Redis: requests-per-minute and monthly counters | `check_key_limits`, `incr_vkey_monthly_tokens` | increment and TTL in two steps, check then charge | limits hold, and counters expire |
| OAuth tokens and quota probe, `providers/antigravity.py` | access token, refresh token, secret in the database | `get_access_token`, 401 retry, `fetch_quota` | single flight, rotated refresh tokens, compare-and-set of a status | one refresh at a time, a valid secret is never lost |
| Error classifier and model mapping, `core/` | none | pure functions | order of the rules | quota, auth and client errors are told apart |
| Admin login, `services/auth_service.py` | Redis: OAuth states, failed attempts; database: users, the connected account | token, Google and mock login, callback | compare then count, count then expire, find then insert | attempts stay bounded and are forgiven, an account has one row |
| Admin CRUD, statistics, schema, egress checks, encryption | database rows | single-row reads and writes, pure functions | none that a model checker reaches | not modelled |
| Redis fallback, `redis_client.py` | a private in-process store | every operation during an outage | two stores | assumed away: `REDIS_REQUIRED`, or no outage |
| Cloudflare worker, dashboard | none | proxy, user interface | none | not modelled |

Components meet in three places: the credential lock key, shared by booking, the
failure handler and the quota probe; the status column, written by nearly all of
them and read by `get_active_credentials`; and the concurrency counter, which
requests and the quota worker write.

## 2. Plan and order of the modules

| module | instance | proofs | builds on |
|---|---|---|---|
| `ConcurrencyLimit` | | | abstract specification |
| `Booking` | `MCBooking` | `BookingProofs` | implements `ConcurrencyLimit` |
| `SessionAffinity` | `MCSessionAffinity` | `AffinityProofs` | books by a step of `ConcurrencyLimit` |
| `CredentialLifecycle` | `MCCredentialLifecycle` | `LifecycleProofs` | |
| `ErrorClassifier`, `UpstreamCall` | `MCUpstreamCall` | `UpstreamProofs` | verdicts of `ErrorClassifier` |
| `Conversation` | `MCConversation` | `ConversationProofs` | |
| `Metering` | `MCMetering` | `MeteringProofs` | |
| `AdminLogin` | `MCAdminLogin` | `AdminLoginProofs` | |

Each module has one action per piece of code between two awaits that other tasks can
tell apart. What remains is the fallback store of `redis_client.py`.

## 3. Booking

`Booking.tla` models `_try_book`, `release`, the scan over sorted candidates, the
credential lock, and the retry loop of the three endpoints with streams and the
failure handler. One action is one await. `pc[r]` is where request `r` is
suspended:

    idle - select - try - read - incr - arm - booked - use - settle  - done
                     |      |                          |---- stream  - done
                     |<- refused                       |---- lockstate - handling - select / done

`todo[r]` are the candidates the scan still has, `tried[r]` is `exclude_ids`,
`at[r]` the credential being tried or used, `resume[r]` where the failure handler
returns to. `lock`, `count` and `ttl` are the keys in Redis. The counter's TTL has
three values: the key is absent, has no TTL, or has one armed. That matters because
INCRBY keeps a TTL, EXPIRE needs a key, and the script of `decrby_nonnegative`
drops it with SET. Durations are not modelled: a TTL may fire whenever it is armed.

Choices the module leaves open, so that every value the code may see is covered:
which credentials are eligible (any subset at each turn), whether token window or
model quota refuse a booking, how an upstream call ends. A request that loses its
lease for good ends as `abandoned` (the setup before the `try` raised, or the
streaming generator was never started) or `orphan` (the process died); these are
the `Ghosts` of a credential.

Deployment guarantees are Boolean constants. With all of them off the module has
every behaviour of the code; a result that needs one says so.

| constant | the code relies on it because |
|---|---|
| `LockOutlivesSection` | 5 s (15 s in the handler) must be longer than a few Redis and database calls |
| `LeaseOutlivesRequest` | 120 s must be longer than a request between two bookings; long streams break it |
| `ResetsWhenIdle` | `periodic_quota_resets` zeroes the counter whatever is live |
| `NothingRaises` | writes around the upstream call are followed by a second release, or by none |
| `CrashesBetweenSteps` | INCRBY and EXPIRE are two calls |

`ConcurrencyLimit.tla` is the abstract specification: sets of users per
credential, never larger than the limit. `Booking` implements it with
`users[c]` = the requests that hold a counted lease on `c`.

### Runs

Two credentials, `c1` with one slot and ranked first, `c2` with two, and two
retries (one in `booking_guaranteed`, whose liveness is checked without symmetry).
Three requests are enough for a full credential, a waiting request and a third that releases or fails at the wrong moment; every counter and lock is in
contention. Requests are interchangeable, which the runs without liveness use
(symmetry). Deadlock is not checked: requests are handled once, and
when all have ended the system has stopped.

| run | shows |
|---|---|
| `booking_guaranteed` | under all guarantees, crashes and lost streams included: sections of one credential exclude each other, the limit holds, a credential full of lost leases has its TTL armed, and leases implement `ConcurrencyLimit`; locks left behind expire, and so does the counter of a credential full of leases nobody will release |
| `booking_faults` | under none of them: the counter is never negative (it is clamped), never counts a lease nobody took, and a request never frees a lock of another |
| `booking_reset_violation` | finding: the quota reset zeroes live leases and the limit is exceeded |

Fairness in `booking_guaranteed`: a request that arrived keeps running, because each
await ends with an answer or a timeout of the HTTP or Redis client, and Redis
expires keys that have a TTL. Arrivals, resets and crashes are not fair.

## 4. Session affinity

`SessionAffinity.tla` models `select_and_book` with a session id: the first read
of the eligible accounts, which only decides the lock key; the session lock with
its bounded wait; the second read, which decides everything else; the search for a
binding, namespace by namespace; the four outcomes for a bound account (excluded,
not eligible, token window spent, busy or booked); the first bind with its check,
SET NX and second look; and `invalidate_binding` on the failure paths. Bindings of
different conversations share no key, so one conversation is modelled. A booking
is one `Take` of `ConcurrencyLimit`, which section 3 shows `_try_book` implements,
or a refusal. What the workers and the failure handler write to the status column
shows only as the subset of accounts each read finds. A crash is a request that
takes no further step; its lock is removed by `LockTTL`.

`lapsed` is a history variable: it becomes true when a session lock expires in its
section, or when the second read matches another model than the one that was
locked. `ReturnedIsBound` is stated for behaviours where that did not happen,
everything else for all of them. A binding may run out at any time, also between the
GET of a request and its EXPIRE, whose result the code ignores; `faded` remembers the
requests this happened to. Such a request returns an account to which the conversation
is no longer bound, and no other account is bound in its place.

| run | shows |
|---|---|
| `affinity` | the returned account is the one the conversation is bound to, or none is because the binding ran out under the request; a binding is never overwritten by another account, even without a lock; a request holds a lease only on the account it is booked on, so a lost first bind returns its lease |
| `affinity_failover_violation` | finding: when the failed account was the last eligible one of its provider, its binding is not looked at, and the request moves to another provider without invalidation |

Bounds: two requests of one conversation (the races are between two), three
accounts of two providers, two of them of one provider, and a mapped name served
by two of the accounts, so that every branch is taken; two retries.

## 5. Credential lifecycle

`CredentialLifecycle.tla` has one account, plain (`byo`) or Antigravity, and its seven
kinds of writer. A writer is a database session: it loads the row (`copy`), waits,
decides, and commits the columns it changed (`sets`), so that two sessions can overwrite
each other column by column. `missed[a]` is history: the columns somebody else wrote
since `a` loaded the row. The properties use it to tell a writer that acts on an old row,
which the code accepts, from one that acts on what it has seen.

| writer | actions | code |
|---|---|---|
| failure handler | `Fail`, `LockState`, `Handle`, `HandlerCommit`, `GiveUp` | `_handle_credential_failure` |
| scan | `ScanLoad`, `ScanJudge`, `ScanCommit`, `ExhaustBound` | `get_active_credentials`, `_refresh_expired_states` |
| reset, health, refresh | `Reset...`, `Health...`, `Refresh...` | the three loops of `worker.py` |
| probe | `Probe...` | `fetch_quota` |
| admin | `AdminLoad`, `Reconnect`, `AdminCommit` | `update_credential`, `handle_oauth_callback` |

`lifecycle` lets any two sessions overlap (`MaxSessions = 2`: every race here is between
two, and the safety properties are proved for any number), over the four answers of a
probe that matter. It shows that a terminal status is left only by
the admin or by a writer that has not seen it (`TerminalSticks`, with the exception below),
that an account is declared exhausted only with both groups spent, that a spent group is
not forgotten by who marks the other, and that cooldowns and exhaustions end.
Fairness: an open session goes on to its end, and the reset worker comes by every ten
seconds whatever else happens (strong fairness, since others disable its query for
moments). `lifecycle_exhausted_violation` is a finding.

## 6. Upstream calls and the error classifier

`UpstreamCall.tla` models the calls to Google on one Antigravity account: the cached
access token, the single flight around its refresh, the rotation of the refresh token and
the writes of the secret, and the attempts of `chat_completion` with their three kinds of
retry (a new token, another try after a location block, the sibling host). A caller is a
provider object with the secret its session loaded: a chat or a quota probe. `good` is
what Google accepts; a rotated token may stay good for a while or not.

The rotated secret is written twice. `Persist` is the UPDATE under the refresh lock, and
`antigravity.py:289` sets the same value on the credential the caller holds. A chat's
credential belongs to the session of its request, whose next flush writes it again:
the release of an answer (`selector.py:467`) or the usage log (`usage_service.py:98`),
without the lock and however long the call took. That is `dirty` and the action `Flush`.
A stream that had begun settles on a session of its own, and probes hold a copy or are in
a session that commits nothing more, so theirs is dropped. `putBack` is history: the
refused tokens that flushes wrote.

`ErrorClassifier.tla` is `classify_upstream_error_kind` over sets of marks: one mark stands
for a list of substrings that the code tests together. `MCReplies` leaves out replies that
both block the location and name a quota; for those the order of the rules decides, and
`VerdictFair` says nothing. A 401 or 403 that comes after a new token is a reply like the
others: its text may block a location or name a quota.

`upstream`: two callers, two rotations, one location retry and two hosts, so that both
callers can refresh, one with a token that the other rotated, and every retry can be the
last. It shows that the row holds a token that Google accepts unless a process died
with the only copy or a flush put an old one back (`RowGood`: the writes that the lock
serializes never do harm); that the attempts suffice for every combination of retries
but the one with a new token (`SilentOnlyForced`); and that verdicts have their reason
(`VerdictFair`). `upstream_challenge_violation` is a finding. Without the exception for
flushes (`RowKept` in place of `RowGood`) the run fails: one request rotates 0 to 1 and
waits for its answer, another rotates 1 to 2, and the flush of the first puts 1 back.

## 7. Conversation

`Conversation.tla` follows one client: the tips that find its session again, the contents
made of its messages for Google, and the message put together from Google's events. A hash
of a message list is the list; arguments of a call are the sequence of calls whose JSON
they hold, so joined arguments show. A call id is the pair of the answer and the place of
the call in it, as unique as the random ids of the code. Both folds of the code, messages
into contents and calls into the list of an answer, are recursive functions of the number
of elements taken (`ContentsUpTo`, `MergedUpTo`). The client is external: it echoes an answer in full
(`exact`) or without the fields the protocol does not name, answers all calls or speaks.
`extra` says that an answer has such fields: reasoning, or, without a stream, the null
fields of the message object. What is hashed of an answer without a stream is the dump of
litellm's `Message` (`chat.py:373`, `conversation_tip.py:99`), which has `tool_calls` and
`function_call` also when they are null; litellm is not in the repository, so this is
taken from its published behaviour.

`conversation`: two answered requests and the beginning of a third, up to two events each,
text, reasoning, single and parallel calls, signed or not, also two of one name. Two
answers are needed for a result that refers to an earlier turn, two events for calls that
come apart; lengths beyond these bounds are what the theorems add. It shows that function responses follow the calls they answer, that
signatures survive a client that drops them, that no call is lost or garbled, and that a
turn plus one message finds its session when nothing that was hashed is missing from the
echo. That leaves out every plain client of answers without a stream: without the conjunct
`exact \/ ~answer.extra` of `SessionKept` the run fails. Nothing here is concurrent, so there is no fairness and no liveness.

## 8. Metering

`Metering.tla` has the counters of a virtual key (requests per minute, tokens per month)
and the token window of a plain account, in Redis and in its row. A request goes through
`check_key_limits`, the scan, the booking, the call, the release (SET NX from the row,
INCRBY, commit) and the charge; the scan and the worker reset a window.

The release reads the row in a session. After a stream that is a new one, and the row is
the current one. Otherwise it is the request's own, and since a SELECT does not refresh an
object the session already has, the row is the one of the scan, before the call. `Load`
leaves open which. `stale` is history: a counter that Redis had lost was seeded with a row
that was no longer current.

`metering`: two requests under a rate, a monthly limit, both, or a token window (the theorems
have every combination); the rate and the window end at one, the month at two, an answer has
at most one token, and there is one fault (a process dies, Redis loses the counter). Two
requests suffice for a charge that passes the check of another, for two releases that
interleave with a reset, and for one that seeds what another made old. It shows that the
month is exceeded only by what was in flight, that the counter, or the row when there is none,
has every token of its window that the row had unless the seed was stale (`QuotaCounted`),
and that a key over its rate recovers even if a process died before EXPIRE. Without the
exception (`QuotaReseeded` in place of `QuotaCounted`) the run fails.
Fairness: keys with a TTL expire, and a request goes on and arrives again; without a later request nobody arms the TTL, and the code relies on that.

## 9. Admin login

`AdminLogin.tla` models `auth_service.py`: the counter of failed token logins of one
address, the users that logins create or promote, and the callback that connects a Google
account. `at[c]` is where a caller is between two calls to Redis, Google or the database.

    token:   idle - fail - ttl - arm      or   idle - clear - find - insert | promote
    google, mock:                              idle - find - insert
    connect: idle - state - exchange - search - save

`login`: two callers, two visits to Google, the admin's user and another, two failures
instead of five. Every property is about two callers at once or one that dies. It shows
that the attempts exceed the limit only by those in flight, that a lock-out ends, that a
token login leaves an admin, and that only callbacks that overlap make a second row.
Fairness: keys with a TTL expire and a caller goes on. `stuck` excuses the one case where
a lock-out does not end (section 10), `overlap` the one where a second row appears.

Abstractions: Google exchanges a code once; a callback without a refresh token is the
error branch; accounts that the admin creates by hand under the same name are left out;
the mock login belongs to a development setup, where it is the user of the token login.

## 10. Findings and observations

Findings, each a run that TLC ends with a counterexample:

1. `booking_reset_violation`, `worker.py:58`: the quota reset writes 0 to the concurrency
   counter of a credential in use; afterwards more than `concurrency_limit` requests use it.
2. `affinity_failover_violation`, `selector.py:274`: failover to another provider while the
   binding to the failed account stands.
3. `lifecycle_exhausted_violation`, `worker.py:159`: a failed health check makes an
   exhausted plain account degraded, the next good one active, without a quota reset.
4. `upstream_challenge_violation`, `antigravity.py:668`: the flag for the one retry with a
   new token is set before the 401 or 403 is raised, so the retry never happens.

Observations, which the models contain and no run is spent on. The first three are faults
that the properties name as exceptions:

- `antigravity.py:289`: the session of a chat writes the token of its rotation again after
  the call, without the lock that serializes the writes of the secret ("Serialize
  encrypted-secret updates with OAuth refresh writes", line 300). It can put back a token
  that another request has rotated; the account then needs a new login. To see it, put
  `RowKept` for `RowGood` in `upstream.cfg`.
- `selector.py:467`: a release without a stream seeds a lost counter with the row as it was
  before the call, and overwrites what others have committed since, in the row too. The
  comment at line 470 says that re-seeding prevents this. To see it, put `QuotaReseeded` for
  `QuotaCounted` in `metering.cfg`.
- `conversation_tip.py:99`: an answer without a stream is hashed with its null fields, so a
  client that sends role and content back starts a new session with every turn ("OpenAI-style
  multi-turn works by looking up hash(messages[:-1]) after each completed turn", line 3).
  To see it, drop `exact \/ ~answer.extra` from `SessionKept`.

- Booking. `chat.py:391`, `chat.py:711`: a write that fails behind a release leads to a
  second release of the lease; set `NothingRaises = FALSE` in `booking_guaranteed.cfg` and
  `WithinLimit` fails. `selector.py:437`: a lock held for a moment counts as "no capacity",
  so the first account is passed over although it has room.
- Affinity. `selector.py:307`: a late failure on the old account deletes the binding to the
  new one, since the value is not compared; the conversation binds again.
- Lifecycle. The reset and health workers take a disabled plain account out of that state
  (the exception in `TerminalSticks`). A probe that fails after its cooldown key is gone
  makes the account active with its quotas wiped. Reactivating a windowed plain account
  leaves `reset_at` empty. The probe's conditional update compares the status alone.
  `_trigger_cooldown` and `check_and_reset_quota` are never called.
- Upstream. A new token, all location retries and the sibling host together leave the loop
  without an answer or an error. `classify_upstream_error_kind` reads the text of a
  streamed response that was not read, which raises: no failover, no status. The admin and
  the OAuth callback write the secret without the lock that `fetch_quota` takes, and
  `get_access_token` writes all of it from its snapshot. A stale snapshot may present a
  rotated token, and the account is then marked for a new login. Who waits for a refresh
  that failed polls until its timeout.
- Conversation. Two tool results after one answer lose the session. Calls that a stream
  brings in separate events get the same index, and their arguments are joined.
  A client that drops reasoning loses the tip. A disconnect remembers a partial answer.
- Metering. A process that dies at the charge that reaches the monthly limit leaves a key
  without TTL, and nobody charges again to set it: the key stays blocked past the month.
  A second reset of one window forgets the tokens in between. Commits out of order leave
  the row behind the counter. Requests in flight together exceed a limit by their cost.
- Login. A process that dies between the count of the last failure allowed and its EXPIRE
  locks the address out for good. Two overlapping first callbacks leave two rows, and every
  later one fails in `scalar_one_or_none`.

## 11. Proofs

All theorems hold for every value of the constants that the named assumptions allow, from
`Spec` alone; no guarantee is assumed unless the table says so.

| module | theorem | statement |
|---|---|---|
| `BookingProofs` | `TypeCorrect` | `TypeOK` always holds, without any guarantee |
| | `LocksFreedByOwners` | no step of a request removes another's lock, without any guarantee |
| | `LimitKept` | under the guarantees, `concurrency_limit` is kept |
| | `SectionsAreExclusive` | under the guarantees, one request per section |
| | `LeasesAccounted` | the counter has no lease but those held or lost for a known reason, without any guarantee |
| | `CredentialsNeverBricked` | under the guarantees, a full counter without live leases is armed |
| | `BookingImplementsLimit` | under the guarantees, `Booking` implements `ConcurrencyLimit` |
| `AffinityProofs` | `AffinityTypeCorrect` | types; a binding lies under the provider of its account |
| | `BindingsNeverSwitch` | no step replaces one bound account by another |
| | `AffinityLeasesUsed` | leases are on the account a request is booked on |
| | `ReturnsBoundAccount` | while the locks hold the account returned is the bound one, or its binding ran out and no other is bound |
| `LifecycleProofs` | `LifecycleTypeCorrect` | types; a session at work holds the state lock |
| | `LifecycleTerminalSticks` | who has seen a terminal status leaves it |
| | `LifecycleExhaustedIsSpent` | who has seen a quota left declares nothing exhausted |
| | `LifecycleSpentSticks` | who has seen a quota spent does not forget it |
| `UpstreamProofs` | `CallTypeCorrect` | types; verdicts are kinds |
| | `SilentOnlyAfterNewToken` | the attempts suffice, but for a call that spent one on a new token |
| | `RowStaysGood` | the row holds a token that Google accepts, or a process died with it, or it is one that a flush put back |
| | `QuotaAlwaysNamed` | a call ends as exhausted quota only on a reply that names one |
| | `VerdictsAreFair` | under `PlainBlocks`, verdicts have their reason |
| `ConversationProofs` | `MessagesTypeCorrect` | messages are well formed, call ids differ |
| | `SessionsStay` | a turn plus one message is in the session of the turn, if all that was hashed comes back |
| | `ResponsesAlwaysMatch` | each function response follows its calls |
| | `SignaturesReturn` | a signed call goes back signed |
| | `CallsReturn` | an answer comes back with all its calls |
| `MeteringProofs` | `MeteringTypeCorrect` | types; only keys that exist have a TTL |
| | `MonthStaysBounded` | the month is exceeded by what was in flight at most |
| | `QuotaStaysCounted` | counter or row have every token of the window that the row had, unless the seed was stale |
| `AdminLoginProofs` | `LoginTypeCorrect` | types; only a counter that exists has a TTL |
| | `AttemptsStayBounded` | the failures exceed their limit by less than the callers |
| | `TokenLoginsAreAdmins` | who has logged in by the token is an admin |
| | `RowsStaySingle` | one row, unless callbacks overlapped |

The arguments. None of the invariants is inductive alone.

*Booking.* `WithinLimit` says nothing of a request about to increment. `LimitInv` adds
what that request relies on. `Locked`: a request in a section holds the lock of its
credential, so there is one of them. `Room`: a request that has compared and not yet
incremented finds the counter below the limit, because nobody else can increment.
`Bounded`: the counter is within the limit. `Counted`: live leases are at most the counter;
releases keep this since each takes one holder and one count, and resets and expiries
since they find no holder. `StepFreesOwn` says that a request changes only its own `pc` and
`at`, so each case looks at one request. `ArmInv` adds for `NeverBricked` that a full
counter is armed, or is about to be by a request that has just incremented it.
`LeasesAccounted` needs no guarantee: `Accounted` says that the counter is at most the
cardinality of `Leases`, the holders with the ghosts. A step that takes a lease adds a
request to them (`LeaseTaken`), one that lowers the counter removes at most one
(`LeaseReleased`), and everything else, a crash included, leaves the set or makes it larger
(`LeasesKept`).

*Affinity.* `Placed` says what a request carries where. `LockInv`: while nothing lapsed, a
request in its section holds the lock of the model it works on. Two requests in sections
thus work on different keys (`ApartKeys`), so the write of one leaves the other's binding
alone, and `BoundInv`, that an account found, renewed or returned is the bound one, is
kept; when a binding runs out the request that follows it is in `faded` and nobody else
binds that key while it holds the lock. `NeverSwitches` needs none of this: SET NX and removals are the only writes.

*Lifecycle.* `Facts` says, for each writer and as long as nobody wrote a column it minds,
what its copy and its pending columns have to do with the row: the scan never decides on a
terminal row, the handler never drops a zero group, the probe keeps a terminal status. A
step of one writer leaves the facts of the others alone, because what it writes is either
the same or in their `missed` (`FactsStay`, `Alone`); a writer's own step establishes its
facts (`HandlerLearns`, `ScanLearns`, ...); and a commit by a writer that knows them is one
the three properties allow (`CarefulCommit`).

*Upstream.* `Budgets` counts: the tries of a call are its location retries, its moves to the
sibling and one for a new token; the loop ends silently only when their sum is spent.
`SafeRow` adds to `RowGood` that sections of the refresh lock exclude each other
(`Exclusive`) and that what their owner is about to write is accepted, or what a flush put
back (`CarryGood`); a flush needs no lock, since it puts what it writes into `putBack` when
it is refused.
`FromReply`: a call that ends with a reply ends with the verdict on that reply, so the two
halves of `VerdictFair` are facts about the ten rules of the classifier in their order
(`VerdictIsFirst`). `QuotaNamed` holds for all replies. `BlockKeepsAccount` needs
`PlainBlocks`, that a reply which blocks a location, other than a 429, has no marks of
quota, rate or a revoked grant: the classifier looks for those first. `MCReplies`
satisfies it and has such replies.

*Conversation.* The provers cannot instantiate an induction theorem over an operator, but
`WFMin` of the library takes a set: a set of numbers that is not empty has a least element.
`SetInduction` and `BoundedInduction` follow, and with them both that the recursive
functions exist, hence unfold (`ContentsUnfold`, `MergedUnfold`), and every fact about all
their steps. `Numbered` says which ids the answer's calls have: without a stream they are
those that came (`MergeFresh`, `MergeKnown`: calls with new ids are appended, known ones
change nothing), with one a call never stands before its number, so overwriting events
leave ids distinct. Then `HistNumbered` keeps old ids apart from those of the answer being
made, `HistUnique` follows, and `Shaped` says which call each result belongs to. `Turns` and
`Sessions` carry what the tips remember. On these rests a second induction, over the
messages: `Good(n)` says that the contents of the first `n` messages are clean, responses
right after their calls and signatures in place, and how they end; each message keeps it
(`GoodStep`, `ResultStep`).

*Metering.* `MonthRoom`: the month is below its limit plus `MaxUse` for every request that is
not in flight. A request enters below the limit, and that restores its share; a charge
takes one share and makes one request leave. `QuotaInv`: either the counter has what was
spent, or it is gone and the row has all of it while nobody is between INCRBY and the
commit. A seed then is what was spent, or it is not the row's value and `stale` says so.

*Login.* `Room` counts the attempts plus the failures still to be counted, in the same way.
`AdminInv` says that a token login is for the admin's user and that its steps leave that user
an admin. `RowInv`: without overlap at most one callback is about to add, and then there is no row.

Assumptions on the constants are those of the modules, among them that `None` is no number
(`Metering`, where counters and TTLs share it) and that chunks have the fields of Google's
events (`Conversation`).

Only model-checked: the six liveness properties `LocksExpire`, `GhostsExpire`,
`CooldownEnds`, `ExhaustionEnds`, `RpmRecovers` and `LockoutEnds`, since fairness and
ENABLED are beyond the prover. Every invariant and every action property of a passing run
is a theorem, and so is the refinement.

## 12. Not modelled

Durations: a TTL fires at any time while it is armed, or not inside a section under a
guarantee or assumption named above: the constants of `Booking`, and in `UpstreamCall` the
refresh lock (90 s), which outlives the request to Google it guards (30 s). `FakeRedis`, the private store during an outage of
Redis (the models assume `REDIS_REQUIRED` or no outage). Administrators changing limits at
run time. Payloads, leak scanning, HTTP answers and the table of model names. Virtual key
and statistics endpoints, which read or write single rows. The database schema and its
migrations. Egress checks, encryption and token signatures: functions of strings, whose
verdicts are nondeterministic outcomes here. The Cloudflare worker, a stateless proxy,
and the dashboard.
