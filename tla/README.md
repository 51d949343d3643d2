# Verification of ledger-service

TLA+ model, TLC runs and TLAPS proofs for the ledger service: an HTTP service that books top-ups,
withdrawals, card allocations and returns, authorizations and authorization increments in
TigerBeetle. The service keeps no durable state. Its correctness rests on TigerBeetle's account
limits, on caller-generated transfer IDs, and on what each handler does between its ledger calls.

## The system

| Part | Code | State | Operations |
|---|---|---|---|
| Chart of accounts, recipes | `internal/ledger/model.go`, `internal/domain` | none | account record per kind, comparison of transfers |
| TigerBeetle (external) | used through `internal/ledger/client.go` | accounts, transfers, failed IDs, clock | create account, create transfer, lookups, expiry of holds |
| Financial operations | `internal/service/operations.go` | per request: goroutine locals | TopUp, Withdraw, AllocateToCard, ReturnFromCard, Authorize, IncrementAuthorization |
| Accounts | `internal/service/service.go` | none | CreateAccount, Balance, requireAccountKind, EnsureSystemAccounts |
| Metadata cache | `internal/service/cache.go` | entries, keys, next | Load, Store |
| Health tracking | `internal/service/health.go` | calls in flight, oldest, last success | begin, done, Health |
| Admission | `internal/httpapi/admission.go` | slots | Wrap |
| HTTP routes | `internal/httpapi/server.go` | none | one handler per route, health routes, panic recovery |
| Metrics, transaction log | `internal/observability/metrics.go`, `observeCompletion` | counters, gauges, log buffer | observe |
| Lifecycle, configuration | `cmd/ledger-service/main.go`, `internal/config` | environment | start, provision, serve, stop |
| Load generator | `cmd/loadtest/main.go` | worker pool | benchmark |

How they interact: a request passes the request counter, admission (which asks health tracking
whether the ledger is stalled) and a route handler. The handler validates, finds the accounts it
needs in the cache or the ledger, waits for the risk evaluation if it makes a hold, submits one
transfer and turns the ledger's status into an answer. Every ledger call goes through health
tracking. Several instances may run over one ledger.

The behaviours that are hard to test:

- a ledger call fails while its command commits, has committed, or commits much later, after a
  restart or a retry through another instance;
- the same request ID is used again, with the same or another payload, while the first attempt is
  still under way;
- the risk limit or the authorization timeout changes between a request and its retry;
- the clock is read in the service and a relative timeout starts in the ledger, on another clock,
  rounded to whole seconds and converted to `uint32`;
- what a cache or an earlier lookup said is used after other handlers have acted;
- provisioning stops half way, or meets an account another program made;
- calls register in another order than they read the clock, and panics unwind through slots, gauges
  and counters;
- a pool of workers and its channels are closed while results are still on their way.

`PROJECT.json` lists each of them with its line under `hazards`.

## Modules

| Module | Models |
|---|---|
| `LedgerModel` | account kinds, flags, `ledger.Account`, `metadataForAccount`, balances, `sameTransfer` |
| `TigerBeetle` | the ledger, external: one atomic step per command, since it is strictly serializable |
| `AccountCache` | what the service relies on the cache for: a bounded map that forgets some entry when full |
| `LedgerService` | handlers, instances and commands under way, over the three modules above; the properties |
| `Idempotency` | abstract: what callers are promised about request IDs; `LedgerService` implements it |
| `MCLedgerService` | constants for TLC: small ledgers and sets of requests |
| `CacheContract` | abstract: the map of `AccountCache` as a specification |
| `MetadataCache` | `cache.go`: map, key slice and round-robin index; implements `CacheContract` |
| `ObservedLedger` | `health.go`: the calls in flight, the oldest of them, and the verdict on the ledger |
| `FrontDoor` | admission, HTTP metrics and panic recovery around handlers, composed with `ObservedLedger` |
| `LoadTest`, `MCLoadTest` | the load generator: warm-up, runs, worker pool, summary, exit code |
| `LedgerServiceInv` | the inductive invariant and lemmas on the ledger, handlers and recipes |
| `LedgerServiceProofs` | one lemma per action, that the invariant is kept, and the theorems that follow from it |
| `LedgerServiceFunds` | theorems about money: conservation, booked holds, cash |
| `LedgerServicePromise` | theorems about what callers are promised: limits and expiry of holds, answers that stand, the refinement of `Idempotency` |
| `SumFacts` | lemmas on sums over finite sets |
| `MetadataCacheProofs`, `FrontDoorProofs`, `LoadTestProofs` | theorems about these three modules |

### State and actions of LedgerService

`accounts`, `transfers`, `failed`, `expired` and `now` belong to the ledger. `instance[i]` is a
process: its boot phase and its configuration. `cache[i]` is its metadata cache. `handler[p]` is a
request goroutine: where it is (`pc`), its request, the authorization it read, the transfer it
submitted and the status it got. `lateTransfers` and `lateAccounts` are commands whose caller has
given up. `reply` is the response written by the last step and `declined` remembers the watched
requests that were declined without a transfer; both only serve the properties.

| Action | Code |
|---|---|
| `Receive` | route handler and validation of the operation |
| `LoadMetadata`, `LookupAccount` | `requireAccountKind`: cache, then ledger |
| `LookupOriginal` | `IncrementAuthorization` reads the authorization |
| `EvaluateRisk`, `CancelRisk` | `evaluateRisk` and the step after it; for an increment the clock and the remaining time |
| `LookupReplay` | lookup of an earlier approval before a decline |
| `CommitTransfer`, `TransferResult` | `CreateTransfer` commits; its result is turned into the answer |
| `LookupDrift` | the lookup after `TransferExistsWithDifferentTimeout` |
| `CommitAccount`, `AccountResult` | `CreateAccount` |
| `ReadBalance` | `Balance` |
| `LookupFails`, `CallFails` | a ledger call returns an error |
| `CommitLateTransfer`, `CommitLateAccount` | a command commits after its caller gave up |
| `Start`, `Provision`, `ProvisionFails`, `Crash` | `run` with a configuration `config.Load` accepts (`Loads`), `New`, `EnsureSystemAccounts`, the end of a process |
| `LedgerStep` | a hold lapses, time passes |

### State and actions of the other modules

`MetadataCache` has the fields of `metadataCache`: `entries`, `keys`, `next`. `Store` replaces, adds
or evicts, all under one lock; `Load` changes nothing. `stores` and `serial` remember the order of
additions for the property. A cache of size zero is not created by the code and has no place here.

`ObservedLedger` has the fields of `observedLedger` and, per goroutine, its call and the time its
`Health` read. `begin` and `Health` read the clock before they take the lock, so each is two steps:
`ReadStart` and `Register`, `ReadNow` and `Health`. The deferred function is `Return` (the ledger's
answer and the clock) and `Unregister`. Times are natural numbers and 0 is the zero time.

`FrontDoor` follows one goroutine per request, through a `pc` that the module's head explains:

| Action | Code |
|---|---|
| `Arrive` | a ledger route or `GET /health/ready` is reached |
| `CheckLedger`, `TakeSlot`, `BeginAdmission` | `Wrap` up to the handler; two kinds of rejection |
| `BeginCall`, `RegisterCall`, `LedgerReturns`, `EndCall` | a ledger call of the handler |
| `CallPanics`, `EndHandler` | a panic in a ledger call, or between calls; the ordinary end |
| `ReleaseSlot`, `EndAdmission` | the deferred function of `Wrap` |
| `Count`, `Recover` | `HTTPMiddleware` after the handler; `recoverPanics` |
| `ReportReady` | `Server.ready` |

`LoadTest` has the workers, the feeder and the collector of `benchmark` and the channel between
them. Sending on the unbuffered `jobs` is a joint step of feeder and worker (`HandOver`). `After` is
what `main` does when a benchmark returns. `trouble` remembers whether any request failed.

### Abstractions

- Identifiers are model values; `None` stands for text that is empty, malformed, zero or the
  maximum. Merchants are compared by identity, so fingerprint collisions are left out.
- The ledger field and the pending ID of a transfer are the same in every transfer the service
  makes and are left out.
- Reading an account and storing its metadata is one step: what is read never changes.
- A handler that finds an earlier approval answers in the same step: a transfer never changes.
- `CreateTransfer` and its result are two steps, because the answer may be lost in between.
- A `timeout` is in seconds and `now` in ticks, `TicksPerSecond` of them to the second.
  `Loads` has the checks of `config.Load` on the risk limit and the timeout.
  Configured timeouts need no `% 2^32`: `config.Load` accepts at most 2^32-1 seconds. The
  remaining seconds of an increment do, and keep it (`Uint32Range`).
- 128-bit balances do not overflow: every amount is a uint64.
- `Crash` stands for every end of a serving process; a graceful shutdown is one in which no
  handler is busy. Its handlers, cache and unsent answers are gone, its commands are not.
- `Preexisting` is the set of ledgers the service may find: accounts of an earlier history, or of
  another program. No modelled request uses a transfer ID of that history.
- The risk delay may be cancelled whenever a handler is in it, as with any positive
  `RISK_EVALUATION_DELAY`; with no delay there are only fewer behaviours.
- `FrontDoor` leaves to `LedgerService` what a handler does between ledger calls, and
  `LedgerService` takes every request as admitted: a rejected one reaches no handler.
- The load generator's responses are what `execute` tells apart: delivered or not, status code,
  body readable or not, status in the body.

## Runs

Each run is `tlc -config <Run>.cfg <module>`, with `MCLedgerService` where no module is named.

| Run | Checks | Instance |
|---|---|---|
| `Money` | `TypeOK`, `SystemAccountsReady`, `FundsConserved`, `CashCoversWithdrawals`, `RejectionIsFinal`, `SuccessIsCommitted`, `SuccessStands`, `KeepsPromise` | two instances, top-up and withdrawals, an ID with two payloads, a settlement ID that is free or taken by a foreign account |
| `Cards` | `CacheCoherent`, `CardsHaveCorporateParent`, `MovesStayWithParent`, `NoOverspend`, `FundsConserved` | contended account IDs, one cache entry, competing moves and holds, a foreign account without limits |
| `Holds` | `HoldsLapse`, `IncrementsJoinAuthorization`, `NoOverspend`, `FundsConserved`, `RecipesAccepted`, `SuccessIsCommitted`, `SuccessStands` | half-second ticks, two-second authorizations, reused IDs, restarts with risk limit 1 or 2; a limit of 0 and a half-second timeout are refused at start |
| `Declines` | `DeclineSettles`, `HoldsWithinRiskLimit` | one limit, one fast service clock, two-second authorizations that expire, an authorization and an increment of it that are declined or not, retried, lost and committed late |
| `Eviction` (`MetadataCache`) | `KeysAreEntries`, `EvictsOldest`, `KeepsContract` | four accounts, three places, eight stores: the index wraps and an evicted account comes back |
| `FrontDoor` (`FrontDoor`) | `OldestTracked`, `CallsWithinSlots`, `SlotsAccounted`, `CountsComplete`, `StallNoticed`, `StallClears`, `NoneWaitsForAnother` | three goroutines, two slots, three requests, two or three ledger calls, a threshold of two ticks |
| `LoadTest` (`MCLoadTest`) | `ResultsClosedLast`, `SummaryAddsUp`, `ExitHonest`, `Terminates` | two workers, a warm-up of one request, two runs of five, seven kinds of response, a summary that is written or not |

What the properties say is stated where they are defined. Some deserve a word:

- `KeepsPromise` is refinement: the abstract `decision` of an ID is read off the ledger, a request is
  carried out when the transfer of its ID is the one it asked for, and the abstract answer is the
  response. Every step of every handler, instance, late command and restart must be a step of
  `Idempotency` or leave it alone.
- `KeepsContract` is the refinement that justifies the cache of `LedgerService`: it forgets some
  entry when full, and the real one forgets the oldest.
- `StallNoticed` is exact: admission lets a request pass if and only if no registered call was as
  old as the threshold at the time `Health` had read.
- `DeclineSettles` says that a decline closes a request: what was not with the ledger by then
  (`TakenUp`) never gets there. `LateDecline` shows why it cannot say that no hold follows: an
  attempt the ledger already has may still commit.
- `CountsComplete` is about the routes that are wrapped in `HTTPMiddleware`. A request that matches
  no route (404, 405) and `GET /metrics` are not counted by the code and have no place in the model.
- `ExitHonest`: the exit code is 0 if and only if no request failed and the summary was written.
  Encoding the summary may fail, as may any write to a closed standard output.

Five runs show where the code and its documentation disagree; each one's counterexample is a
finding in `PROJECT.json`.

| Run | Violated | What happens |
|---|---|---|
| `IncrementExpiry` | `IncrementEndsWithAuthorization` | rounding up, or a commit after the clock was read, lets an increment outlast its authorization |
| `TimeoutChange` | `ConflictMeansDifferentPayload` | after a change of `AUTHORIZATION_TIMEOUT` an identical authorization retry is a conflict |
| `LateDecline` | `DeclineIsStable` | an increment is declined as expired, then an earlier attempt of it commits |
| `Unlogged` | `AttemptsAreLogged` | the drift lookup fails and the attempt leaves no log line |
| `LongestTimeout` | `HoldsLapse` | 2^32 remaining seconds wrap to 0, a hold that never lapses |

`LongestTimeout` uses `Uint32Range = 4` and a timeout of 3: the largest value of the type, as
2^32-1 is of `uint32`. All other runs keep the range out of reach.

### Bounds

Two handlers: every race in the code is between two requests, or a request and its own retry.
Three transfer IDs: a request, a second one, and an increment of it. One command under way
(`MaxLate`): it can overtake, or be overtaken by, both handlers. Amounts up to 3
against balances up to 3 reach both sides of every limit. Clocks of at most four ticks cover an
authorization of one or two seconds, its expiry, and one tick after it. Cache sizes 0, 1 and 2
cover a disabled cache, eviction on every store, and room for one account of two.

In `FrontDoor` three requests for two slots let one be turned away, or find the ledger stalled by
the two others; a clock of three ticks lets a call start before another, register after it and
become stalled. `MaxClock`, `MaxCalls` and `MaxRequests` bound what is unbounded in the code;
`MaxCalls = 4` includes the two calls of provisioning, and a call that has read its clock may still
register beyond it. In
`LoadTest` five jobs and two workers fill the result buffer with both workers waiting to send.

Handlers of one instance are interchangeable, so runs with one instance use symmetry.

Deadlock is checked in the runs of `MCLedgerService` (a request can always arrive, or an instance
start). `FrontDoor` stops when its bounds are used up and `LoadTest` when the tool has
exited, so these two say `CHECK_DEADLOCK FALSE`; that they do not stop earlier is what
`NoneWaitsForAnother` and `Terminates` are about.

### Fairness

`LedgerService` states no liveness: its ledger calls have no timeout (ADR 001), so whether a
request ends is up to the ledger.

`FrontDoor` assumes weak fairness of `Serve(g)`: a goroutine that is not waiting for the ledger is
scheduled. Nothing is assumed of the ledger (`LedgerEnds`), of arrivals or of time. Under this,
`NoneWaitsForAnother` says that a request only ever waits for its own ledger call, however many
slots hang. `StallClears` has what it needs of the ledger as its hypothesis: if the ledger keeps
answering (`LedgerAnswers`), a stall is over in the end and admission opens again.

In `LoadTest` the feeder, the collector and each worker are scheduled, and a
request ends because the HTTP client has a timeout. `HandOver` is fair for the feeder and not for
each worker: a channel owes no worker a job.

## Proofs

For any numbers of instances, handlers, accounts, requests, any cache size, any clock skew and any
configuration values:

- `LedgerServiceProofs`: `TypeOK`, `SystemAccountsReady`, `CacheCoherent`,
  `CardsHaveCorporateParent`, `MovesStayWithParent`, `IncrementsJoinAuthorization`,
  `SuccessIsCommitted`, `RejectionIsFinal`, `NoOverspend` and `RecipesAccepted` hold in every
  reachable state of `Spec`;
- `LedgerServiceFunds`: `FundsConserved` holds always if it holds at first; so does
  `CashCoversWithdrawals` if, besides, nothing is held on cash at first; and the pending debits of an
  account always include every hold that stands on it (`HoldsBooked`);
- `LedgerServicePromise`: `HoldsWithinRiskLimit` holds always, and `Spec` implements `Idempotency`;
  `HoldsLapse`, `SuccessStands`, `ConflictMeansDifferentPayload` and `DeclineSettles` hold always
  under the conditions below;
- `MetadataCacheProofs`: `KeysAreEntries`, `EvictsOldest` and the refinement `KeepsContract`, for
  every cache size;
- `FrontDoorProofs`: `OldestTracked`, `StallNoticed`, `CallsWithinSlots`, `SlotsAccounted` and
  `CountsComplete`, for any number of goroutines and slots and any threshold;
- `LoadTestProofs`: `ResultsClosedLast`, `SummaryAddsUp` and `ExitHonest`, for any number of
  workers, requests, runs and kinds of response.

The assumptions are the named ones of the modules: system IDs are distinct and reserved, `None` is
no value of any other kind, every ledger the service may find is well formed and within its limits,
constants are of their types.

Some theorems have a hypothesis. On the ledger the service takes over:

- `FundsConserved` and, for `CashCoversWithdrawals`, `CashUnencumbered` in the initial state: another
  program may have left books that do not balance, or a hold on cash. Both hold in an empty ledger
  and in every ledger the runs start from.

On the configuration, where a run shows what happens without it:

| Hypothesis | Says | Needed by | Without it |
|---|---|---|---|
| `OneTimeout` | the authorization timeout is never reconfigured | `SuccessStands`, `ConflictMeansDifferentPayload` | `TimeoutChange` |
| `NoWrap` | the time left of a new authorization, on any instance's clock, fits a `uint32` of seconds | `HoldsLapse` | `LongestTimeout` |
| `OneLimit` | the risk limit is never reconfigured | `DeclineSettles` | a raised limit approves what a lower one declined |
| `OneClock` | the clocks of all instances show the same time, which may differ from the ledger's | `DeclineSettles` | an instance that is behind still takes up an increment that one ahead found expired |

`Money` and `Holds` satisfy the first two and `Declines` the last two. `AnswersAlwaysRight` needs
none of them: it says what every answer and every decline rests on, and so how far the
conditional properties can fail. A success can be taken back as an idempotency conflict of an
authorization, and in no other way and by no other operation.

None of the properties of `LedgerService` is inductive. A success is only true because of what the handler
submitted; that is only right because of what it had learnt from the cache or a lookup, possibly
many steps ago; and the cache is only right because the ledger never changes what was read. `IInv`
therefore says, besides the types:

- `LedgerOK`: accounts are filed under their IDs and within limits; every transfer follows the
  `Recipe` of its code; no ID is both failed and used;
- `LateOK`: every command under way is one a handler could have submitted;
- `HandlerOK`: a handler at a place serves an operation that gets there, what it has learnt is
  true of the ledger (`HandlerKnows`), and what it submitted is the transfer of its request
  (`HandlerSubmitted`);
- `CacheCoherent`, `SystemAccountsReady`, `CashProvisioned` (an instance past its first boot phase
  has the cash account), and the two properties of answers.

The argument has three layers. `LedgerGrows` is what every ledger command does: accounts keep what
is read of them, transfers and failed IDs stay. The `*Stable` lemmas show that each part of `IInv`
survives growth. `CreateTransferOK` and `CreateAccountOK` show that a command made by recipe keeps
`LedgerOK` and grows the ledger. Then each action has one `*Step` lemma; most follow from
`HandlerStepOK`, which reduces a step of one handler to that handler's new record and its answer.
`RecipesAccepted` needs one invariant more, that no handler holds a status of that kind, and is
proved in a second induction on top of `IInv`. `IInv` itself was checked with TLC on the passing
runs before it was proved.

`FundsConserved` is inductive on top of `IInv`, once every step is reduced to its effect on the
ledger: nothing, a new account, a transfer made by recipe, or a hold that lapses (`StepEffect`).
Each recipe moves what one side of the equation gains to the other, and a sum changes with one or
two of its terms (`SumFacts`). `CashCoversWithdrawals` follows from it and from `NoOverspend`: the
ledger checks the wallet's own limit first, and no wallet holds more than all of them together.
`HoldsBooked` sums over transfers instead, and says that a hold which lapses gives back what was
taken.

What callers are promised needs to know more of what can still commit, and when: a hold was within
the limit of the instance that submitted it, with the timeout of its configuration or the time its
clock saw left, and that instance may have restarted with another configuration since. `SubmitInv`
says that every transfer in the ledger, in a waiting handler or under way is `Sound` in this sense,
and what a handler carries along: that an amount it is about to decline exceeds a limit, that an
authorization it finds too late has run out on some clock, that a reported conflict is over an
existing transfer and, if that is the one asked for, over the timeout alone. `SubmitInv` is proved on
top of `IInv`; `HoldsWithinRiskLimit` and `HoldsLapse` follow from it.

`AnswerInv` is proved on top of both. Its first part concerns a request that was carried out. Such
a request is valid, the accounts and the authorization it names are what each check of the
handler asks for (`CarriedOutNames`, `CarriedOutKind`), and two transfers that carry out one request
differ in their timeout at most (`SameHold`, `SameRequest`), so that no check, lookup or status can turn it
away. Its second part says what a decline rests on. `SuccessStands`, `ConflictMeansDifferentPayload`
and `DeclineSettles` follow under their hypotheses. For the last, an authorization that some clock
has shown to have run out (`RunOut`) stays closed on the one clock there is (`ClosedForGood`), so that
whoever is about to submit an attempt is not submitting one that was declined (`DeclinedHeldBack`,
`ProgressSettled`); time passes freely and authorizations do expire under these hypotheses.

The refinement of `Idempotency` has three cases: committing a transfer is `Accept` or `Refuse`
(`CommitKeepsPromise`), an answer is a `Reply` (`AnswerKeepsPromise`, from the properties of answers
in `IInv`), and every other step leaves the decisions alone. `SubmitInv` and `AnswerInv`, too, were
checked with TLC on the runs of `MCLedgerService` before they were proved.

For the cache, `IInv` adds to `KeysAreEntries` that the map has as many entries as the slice has
keys, and that the slice, read from `next`, is in the order of addition. `EvictsOldest` follows from
the order and `KeepsContract` from the count.

For the front door, `Tracked` relates the tracker's fields to the calls the goroutines have
registered, with distinct IDs, and `Accounted` counts goroutines by place: slots, gauge and
counters are cardinalities, and each step moves one goroutine from one place to another.

For the load generator, `Accounted` says that jobs still to send, workers with a job, results in the
channel and counted results add up to the jobs of the stage, and `TroubleKnown` that a failed request
is still somewhere on this way or has been counted.

Only model-checked: `StallClears`, `NoneWaitsForAnother` and `Terminates`. They are liveness, which the
prover does not reach. The properties of the five violation runs do not hold of the code; two of them,
`IncrementEndsWithAuthorization` and `AttemptsAreLogged`, have no theorem.

## Not modelled

- Decoding of JSON, parsing of IDs, flags and environment variables: pure string handling. Of
  `config.Load` only the checks that bound the model's constants are taken over.
- Wording, HTTP status numbers, durations, `expires_at`: no property is about them.
- The operation and ledger call counters and the histograms: added to, never read by the program.
- The buffer of the transaction log. Its loss in a crash is documented, and whether an attempt
  emits its line is modelled.
- The wait of a graceful shutdown for its handlers: `net/http` does it. The outcomes, a stop with
  all requests answered or with some cut off after ten seconds, are both outcomes of `Crash`.
- `lastSuccess` is kept in `ObservedLedger` but has no property: two calls that end together may
  store it in either order, and it is only displayed.
- `GET /health/live`, `GET /metrics` and unmatched routes: they read no state of the service.
- Latencies and percentiles of the load generator: values no step depends on.
- Capture and void: not in the code.
