--------------------------- MODULE LedgerService ---------------------------
(***************************************************************************)
(* The financial operations of the service (internal/service): concurrent  *)
(* request handlers of one or more service instances over one ledger.      *)
(*                                                                         *)
(* A handler is a goroutine serving one request at a time.  It takes a     *)
(* step at every point where other goroutines, other instances, the ledger *)
(* or time can get in between: a cache access, each ledger call, the risk  *)
(* delay, and the moment a ledger command commits.  A ledger call may      *)
(* return an error before its command commits, after it, or with the       *)
(* command still under way; the last kind is kept in lateTransfers and     *)
(* lateAccounts and may commit at any later time, after a restart too.     *)
(*                                                                         *)
(* Callers are as free as they can be: any request of Requests may arrive  *)
(* at any time, any number of times, at any instance.                      *)
(***************************************************************************)
EXTENDS TigerBeetle, AccountCache, Functions

CONSTANTS
    Instances,      \* service processes
    Handlers,       \* request goroutines
    Home,           \* the instance a handler belongs to
    Requests,       \* the requests callers send
    RiskLimits,     \* configured RISK_AUTO_APPROVE_LIMIT_CENTS values
    AuthTimeouts,   \* configured AUTHORIZATION_TIMEOUT values, in ticks
    ClockSkew,      \* an instance's clock minus the ledger's, in ticks
    Uint32Range,    \* 2^32 in the code: the range of a uint32
    MaxLate,        \* bound on the commands under way with no one waiting
    Watched         \* the requests whose declines are remembered

VARIABLES
    lateTransfers, lateAccounts,
    instance,   \* per instance: boot phase and configuration
    cache,      \* per instance: account ID -> metadata, or None
    handler,    \* per handler: progress on its request
    reply,      \* the response written in the last step, or None
    declined    \* history: watched requests declined without a transfer

lateVars == <<lateTransfers, lateAccounts>>
vars == <<ledgerVars, lateVars, instance, cache, handler, reply, declined>>

Moves == {"card_allocation", "card_return"}
Operations == TransferCodes \cup {"create_account", "get_balance"}

Request == [op : Operations, id : TransferIDs \cup {None},
            account : AccountIDs \cup {None}, card : AccountIDs \cup {None},
            parent : AccountIDs \cup {None}, kind : Kinds \cup {None},
            merchant : Merchants \cup {None}, amount : Nat,
            auth : TransferIDs \cup {None}]

Phases == {"down", "cash", "settlement", "up"}

Places == {"idle", "account", "card", "lookup_account", "lookup_card",
           "original", "risk", "replay", "late", "waiting", "result",
           "drift", "create", "created", "balance"}

Statuses == {"created", "exists", "exists_with_different",
             "exists_with_different_timeout", "id_already_failed",
             "accounts_must_be_different", "account_not_found",
             "ledger_mismatch", "exceeds_credits", "exceeds_debits"}

Outcomes == {"invalid_request", "account_not_found", "authorization_not_found",
             "idempotency_conflict", "dependency_unavailable",
             "request_canceled", "created", "exists", "balance", "posted",
             "approved", "insufficient_funds", "previous_attempt_failed",
             "risk_limit_exceeded", "authorization_not_open",
             "ledger_invariant_violation"}

Idle == [pc |-> "idle", req |-> None, original |-> None, transfer |-> None,
         status |-> None]

ASSUME ServiceAssumption ==
    /\ Home \in [Handlers -> Instances]
    /\ Requests \subseteq Request
    /\ None \notin Request
    /\ None \notin Kinds \cup Statuses
    /\ RiskLimits \subseteq Nat
    /\ AuthTimeouts \subseteq Nat
    /\ ClockSkew \in [Instances -> Int]
    /\ Uint32Range \in Nat \ {0}
    /\ MaxLate \in Nat
    /\ Watched \subseteq Requests

-----------------------------------------------------------------------------
(***************************************************************************)
(* Validation and the transfer recipe of each operation.                   *)
(***************************************************************************)

\* A wallet ID that a caller may name: it parses and is not reserved.
IsAccountID(id) == id # None /\ ~IsSystemAccountID(id)

IsRequestID(id) == id # None

ValidCreateAccount(r) ==
    /\ IsAccountID(r.account)
    /\ r.kind \in {"corporate_wallet", "card_wallet"}
    /\ IF r.kind = "card_wallet"
       THEN IsAccountID(r.parent) /\ r.parent # r.account
       ELSE r.parent = None

ValidFunds(r) == IsAccountID(r.account) /\ r.amount # 0 /\ IsRequestID(r.id)

ValidMove(r) == ValidFunds(r) /\ IsAccountID(r.card)

ValidAuthorization(r) ==
    /\ IsAccountID(r.card)
    /\ r.merchant # None
    /\ r.amount # 0
    /\ IsRequestID(r.id)

ValidIncrement(r) ==
    /\ r.auth # None
    /\ r.amount # 0
    /\ IsRequestID(r.id)
    /\ r.id # r.auth

\* A balance may be asked of any account, the system accounts included.
ValidRequest(r) ==
    CASE r.op = "create_account" -> ValidCreateAccount(r)
      [] r.op = "get_balance" -> r.account # None
      [] r.op \in {"topup", "withdrawal"} -> ValidFunds(r)
      [] r.op \in Moves -> ValidMove(r)
      [] r.op = "authorization" -> ValidAuthorization(r)
      [] r.op = "authorization_increment" -> ValidIncrement(r)

\* A transfer posted at once.
PostedTransfer(r, debit, credit) ==
    [id |-> r.id, debit |-> debit, credit |-> credit, amount |-> r.amount,
     group |-> None, merchant |-> None, timeout |-> 0, code |-> r.op,
     pending |-> FALSE, timestamp |-> 0]

\* A hold on a card, grouped under an authorization.
Hold(r, debit, credit, group, merchant, timeout) ==
    [id |-> r.id, debit |-> debit, credit |-> credit, amount |-> r.amount,
     group |-> group, merchant |-> merchant, timeout |-> timeout,
     code |-> r.op, pending |-> TRUE, timestamp |-> 0]

TopUpTransfer(r) == PostedTransfer(r, Cash, r.account)

\* A withdrawal that credits the wallet it should debit.
WithdrawalAsTopUp(r) == PostedTransfer(r, Cash, r.account)

\* A withdrawal paid out of the settlement account.
WithdrawalToSettlement(r) == PostedTransfer(r, r.account, Settlement)

WithdrawalTransfer(r) == PostedTransfer(r, r.account, Cash)

\* The tail of moveCardFunds: allocations and returns mirror each other.
CardTransfer(r) ==
    IF r.op = "card_return" THEN PostedTransfer(r, r.card, r.account)
                            ELSE PostedTransfer(r, r.account, r.card)

\* New rounds the configured timeout up to whole seconds.
WholeSeconds(ticks) == (ticks + TicksPerSecond - 1) \div TicksPerSecond

\* A hold in favour of the cash account.
AuthorizationOnCash(r, seconds) ==
    Hold(r, r.card, Cash, r.id, r.merchant, seconds)

AuthorizationTransfer(r, seconds) ==
    Hold(r, r.card, Settlement, r.id, r.merchant, seconds)

\* What is left of an authorization, in ticks, on a clock showing clock.
Remaining(original, clock) == ExpiresAt(original) - clock

\* Rounding the remaining time down, to zero when less than a second is left.
RemainingSecondsDown(original, clock) ==
    LET seconds == (Remaining(original, clock) \div TicksPerSecond)
                       % Uint32Range
    IN  IF seconds > original.timeout THEN original.timeout ELSE seconds

\* The increment's timeout: rounded up, converted to a uint32, then capped.
RemainingSeconds(original, clock) ==
    LET seconds == WholeSeconds(Remaining(original, clock)) % Uint32Range
    IN  IF seconds > original.timeout THEN original.timeout ELSE seconds

\* An increment filed under its own ID.
IncrementOwnGroup(r, original, seconds) ==
    Hold(r, original.debit, original.credit, r.id, original.merchant, seconds)

IncrementTransfer(r, original, seconds) ==
    Hold(r, original.debit, original.credit, r.auth, original.merchant, seconds)

\* The recipe an authorization must have to be incremented.
IsAuthorization(t) ==
    /\ t.pending
    /\ t.code = "authorization"
    /\ t.credit = Settlement
    /\ t.group = t.id
    /\ t.timeout # 0

IsIdempotencyConflict(status) ==
    status \in {"exists_with_different", "exists_with_different_timeout"}

\* The ledger's own status handed to the caller.
ErrorCodeRaw(status) == status

ErrorCode(status) ==
    CASE status \in {"exceeds_credits", "exceeds_debits"} -> "insufficient_funds"
      [] status = "account_not_found" -> "account_not_found"
      [] status = "id_already_failed" -> "previous_attempt_failed"
      [] OTHER -> "ledger_invariant_violation"

\* What a success is called: funds are posted, a hold is approved.
SuccessOutcome(r) ==
    IF r.op \in {"authorization", "authorization_increment"}
    THEN "approved" ELSE "posted"

\* Any transfer under the ID taken for the request's own.
ResultOutcomeAnyExists(r, status) ==
    IF status \in {"created", "exists", "exists_with_different"}
    THEN SuccessOutcome(r) ELSE ErrorCode(status)

\* Any used ID taken for an earlier failure.
ResultOutcomeUsedID(r, status) ==
    IF status = "created" THEN SuccessOutcome(r)
    ELSE IF status \in {"exceeds_credits", "exceeds_debits"} THEN ErrorCode(status)
    ELSE "previous_attempt_failed"

\* An identical retry taken for a conflict.
ResultOutcomeExistsConflicts(r, status) ==
    IF IsIdempotencyConflict(status) \/ status = "exists" THEN "idempotency_conflict"
    ELSE IF status = "created" THEN SuccessOutcome(r)
    ELSE ErrorCode(status)

\* The answer the status of a submitted transfer leads to.
ResultOutcome(r, status) ==
    IF IsIdempotencyConflict(status) THEN "idempotency_conflict"
    ELSE IF status \in {"created", "exists"} THEN SuccessOutcome(r)
    ELSE ErrorCode(status)

-----------------------------------------------------------------------------
(***************************************************************************)
(* Steps of a handler.                                                     *)
(***************************************************************************)
Goto(p, place) == handler' = [handler EXCEPT ![p].pc = place]

Quiet == reply' = None /\ UNCHANGED declined

Respond(r, outcome, submitted, logged) ==
    reply' = [req |-> r, outcome |-> outcome,
              submitted |-> submitted, logged |-> logged]

\* The handler answers; logged says whether observeCompletion was called.
Answer(p, outcome, logged) ==
    /\ Respond(handler[p].req, outcome, handler[p].transfer # None, logged)
    /\ handler' = [handler EXCEPT ![p] = Idle]

Finish(p, outcome, logged) ==
    /\ Answer(p, outcome, logged)
    /\ UNCHANGED declined

\* A decline that is answered without submitting a transfer.
Decline(p, outcome, logged) ==
    /\ Answer(p, outcome, logged)
    /\ declined' = declined \cup ({handler[p].req} \cap Watched)

\* The transfer is handed to the ledger client.
Submit(p, t) ==
    /\ handler' = [handler EXCEPT ![p].pc = "waiting", ![p].transfer = t]
    /\ Quiet

\* rememberAccount: an account the service may not use is not cached.
Remember(i, account) ==
    LET metadata == MetadataForAccount(account) IN
    IF metadata = None THEN UNCHANGED cache
    ELSE \E c \in Stored(cache[i], account.id, metadata, None) :
             cache' = [cache EXCEPT ![i] = c]

\* A card created without a look at its corporate wallet.
FirstPlaceNoParentCheck(r) ==
    CASE r.op = "get_balance" -> "balance"
      [] r.op = "authorization" -> "card"
      [] r.op = "authorization_increment" -> "original"
      [] r.op = "create_account" -> "create"
      [] OTHER -> "account"

\* The first thing each operation does with a valid request.
FirstPlace(r) ==
    CASE r.op = "get_balance" -> "balance"
      [] r.op = "authorization" -> "card"
      [] r.op = "authorization_increment" -> "original"
      [] r.op = "create_account" /\ r.kind # "card_wallet" -> "create"
      [] OTHER -> "account"

\* A request arrives at a serving instance.
Receive(p, r) ==
    /\ instance[Home[p]].phase = "up"
    /\ handler[p].pc = "idle"
    /\ \/ /\ ValidRequest(r)
          /\ handler' = [handler EXCEPT ![p].pc = FirstPlace(r), ![p].req = r]
          /\ Quiet
       \/ /\ ~ValidRequest(r)
          /\ Respond(r, "invalid_request", FALSE, FALSE)
          /\ UNCHANGED <<handler, declined>>
    /\ UNCHANGED <<ledgerVars, lateVars, instance, cache>>

(***************************************************************************)
(* requireAccountKind: the account and kind a handler needs at its place,  *)
(* and how it goes on when the account is, or is not, of that kind.        *)
(***************************************************************************)
AtCard(h) == h.pc \in {"card", "lookup_card"}

Needed(h) ==
    IF AtCard(h)
    THEN IF h.req.op = "authorization_increment" THEN h.original.debit
                                                 ELSE h.req.card
    ELSE IF h.req.op = "create_account" THEN h.req.parent ELSE h.req.account

NeededKind(h) == IF AtCard(h) THEN "card_wallet" ELSE "corporate_wallet"

\* A move that does not look at the parent of the card.
CardLinkedToAny(r, metadata) == metadata.parent # None

\* The card belongs to the corporate account of the request.
CardLinked(r, metadata) == metadata.parent = r.account

KindKnown(p, metadata) ==
    LET h == handler[p]
        r == h.req
    IN  \/ r.op = "topup" /\ Submit(p, TopUpTransfer(r))
        \/ r.op = "withdrawal" /\ Submit(p, WithdrawalTransfer(r))
        \/ r.op = "create_account" /\ Goto(p, "create") /\ Quiet
        \/ r.op \in Moves /\ ~AtCard(h) /\ Goto(p, "card") /\ Quiet
        \/ /\ r.op \in Moves /\ AtCard(h) /\ CardLinked(r, metadata)
           /\ Submit(p, CardTransfer(r))
        \/ /\ r.op \in Moves /\ AtCard(h) /\ ~CardLinked(r, metadata)
           /\ Finish(p, "invalid_request", FALSE)
        \/ /\ r.op \in {"authorization", "authorization_increment"}
           /\ Goto(p, "risk") /\ Quiet

KindUnknown(p) ==
    IF handler[p].req.op = "authorization_increment"
    THEN Decline(p, "authorization_not_open", FALSE)
    ELSE Finish(p, "account_not_found", FALSE)

LoadMetadata(p) ==
    LET h == handler[p]
        metadata == cache[Home[p]][Needed(h)]
    IN  /\ h.pc \in {"account", "card"}
        /\ \/ /\ metadata = None
              /\ Goto(p, IF AtCard(h) THEN "lookup_card" ELSE "lookup_account")
              /\ Quiet
           \/ /\ metadata # None
              /\ metadata.kind = NeededKind(h)
              /\ KindKnown(p, metadata)
           \/ /\ metadata # None
              /\ metadata.kind # NeededKind(h)
              /\ KindUnknown(p)
        /\ UNCHANGED <<ledgerVars, lateVars, instance, cache>>

\* The account is read and, when it fits, cached.  What is read of an account
\* never changes, so reading it and storing it make one step.
LookupAccount(p) ==
    LET h == handler[p]
        account == accounts[Needed(h)]
        metadata == IF account = None THEN None ELSE MetadataForAccount(account)
    IN  /\ h.pc \in {"lookup_account", "lookup_card"}
        /\ \/ /\ metadata # None
              /\ metadata.kind = NeededKind(h)
              /\ Remember(Home[p], account)
              /\ KindKnown(p, metadata)
           \/ /\ ~(metadata # None /\ metadata.kind = NeededKind(h))
              /\ KindUnknown(p)
              /\ UNCHANGED cache
        /\ UNCHANGED <<ledgerVars, lateVars, instance>>

(***************************************************************************)
(* Authorizations and increments.                                          *)
(***************************************************************************)

\* An authorization that is not there yet declined like a closed one.
MissingOriginalIsClosed(p) ==
    LET original == transfers[handler[p].req.auth] IN
    /\ handler[p].pc = "original"
    /\ IF original # None /\ IsAuthorization(original)
       THEN /\ handler' = [handler EXCEPT ![p].pc = "card",
                                          ![p].original = original]
            /\ Quiet
       ELSE Decline(p, "authorization_not_open", FALSE)
    /\ UNCHANGED <<ledgerVars, lateVars, instance, cache>>

\* IncrementAuthorization reads the authorization it is to grow.
LookupOriginal(p) ==
    LET original == transfers[handler[p].req.auth] IN
    /\ handler[p].pc = "original"
    /\ \/ /\ original = None
          /\ Finish(p, "authorization_not_found", FALSE)
       \/ /\ original # None
          /\ ~IsAuthorization(original)
          /\ Decline(p, "authorization_not_open", FALSE)
       \/ /\ original # None
          /\ IsAuthorization(original)
          /\ handler' = [handler EXCEPT ![p].pc = "card",
                                        ![p].original = original]
          /\ Quiet
    /\ UNCHANGED <<ledgerVars, lateVars, instance, cache>>

\* The client goes away during the risk delay.
CancelRisk(p) ==
    /\ handler[p].pc = "risk"
    /\ Finish(p, "request_canceled", FALSE)
    /\ UNCHANGED <<ledgerVars, lateVars, instance, cache>>

\* An increment is too small to need the limit.
RiskSkipsIncrements(r, limit) ==
    r.op = "authorization_increment" \/ r.amount <= limit

RiskApproved(r, limit) == r.amount <= limit

\* The risk delay ends.  An approved increment reads the service's clock next.
EvaluateRisk(p) ==
    LET h == handler[p]
        i == Home[p]
        clock == now + ClockSkew[i]
    IN  /\ h.pc = "risk"
        /\ \/ /\ ~RiskApproved(h.req, instance[i].riskLimit)
              /\ Goto(p, "replay") /\ Quiet
           \/ /\ RiskApproved(h.req, instance[i].riskLimit)
              /\ h.req.op = "authorization"
              /\ Submit(p, AuthorizationTransfer(h.req, instance[i].timeout))
           \/ /\ RiskApproved(h.req, instance[i].riskLimit)
              /\ h.req.op = "authorization_increment"
              /\ Remaining(h.original, clock) <= 0
              /\ Goto(p, "late") /\ Quiet
           \/ /\ RiskApproved(h.req, instance[i].riskLimit)
              /\ h.req.op = "authorization_increment"
              /\ Remaining(h.original, clock) > 0
              /\ Submit(p, IncrementTransfer(h.req, h.original,
                               RemainingSeconds(h.original, clock)))
        /\ UNCHANGED <<ledgerVars, lateVars, instance, cache>>

\* Whether an existing transfer is the one the request would have created.
IsReplay(h, existing, seconds) ==
    IF h.req.op = "authorization"
    THEN SameTransfer(existing, AuthorizationTransfer(h.req, seconds))
    ELSE SameTransferExceptTimeout(existing,
             IncrementTransfer(h.req, h.original, 0))

\* Declining without a look for an earlier approval.
DeclineAtOnce(p) ==
    /\ handler[p].pc \in {"replay", "late"}
    /\ Decline(p, "risk_limit_exceeded", TRUE)
    /\ UNCHANGED <<ledgerVars, lateVars, instance, cache>>

\* Before declining, a handler looks for an earlier approval of the request.
LookupReplay(p) ==
    LET h == handler[p]
        existing == transfers[h.req.id]
        seconds == instance[Home[p]].timeout
    IN  /\ h.pc \in {"replay", "late"}
        /\ \/ /\ existing = None /\ h.pc = "replay"
              /\ Decline(p, "risk_limit_exceeded", TRUE)
           \/ /\ existing = None /\ h.pc = "late"
              /\ Decline(p, "authorization_not_open", FALSE)
           \/ /\ existing # None /\ IsReplay(h, existing, seconds)
              /\ Finish(p, "approved", TRUE)
           \/ /\ existing # None /\ ~IsReplay(h, existing, seconds)
              /\ Finish(p, "idempotency_conflict", TRUE)
        /\ UNCHANGED <<ledgerVars, lateVars, instance, cache>>

(***************************************************************************)
(* The ledger call of a transfer and what follows from its result.         *)
(***************************************************************************)
CommitTransfer(p) ==
    LET t == handler[p].transfer IN
    /\ handler[p].pc = "waiting"
    /\ CreateTransfer(t)
    /\ handler' = [handler EXCEPT ![p].pc = "result",
                                  ![p].status = TransferStatus(t)]
    /\ Quiet
    /\ UNCHANGED <<lateVars, instance, cache>>

\* An increment that exists with another timeout is looked at again.
NeedsDriftCheck(h) ==
    /\ h.req.op = "authorization_increment"
    /\ h.status = "exists_with_different_timeout"

TransferResult(p) ==
    LET h == handler[p] IN
    /\ h.pc = "result"
    /\ \/ /\ NeedsDriftCheck(h)
          /\ Goto(p, "drift") /\ Quiet
       \/ /\ ~NeedsDriftCheck(h)
          /\ Finish(p, ResultOutcome(h.req, h.status), TRUE)
    /\ UNCHANGED <<ledgerVars, lateVars, instance, cache>>

\* Every increment that exists with another timeout taken for a replay.
DriftUnchecked(existing, t) == TRUE

\* The existing increment differs in nothing but its timeout.
IsTimeoutDrift(existing, t) == SameTransferExceptTimeout(existing, t)

LookupDrift(p) ==
    LET h == handler[p]
        existing == transfers[h.req.id]
    IN  /\ h.pc = "drift"
        /\ \/ /\ existing # None /\ IsTimeoutDrift(existing, h.transfer)
              /\ Finish(p, "approved", TRUE)
           \/ /\ ~(existing # None /\ IsTimeoutDrift(existing, h.transfer))
              /\ Finish(p, "idempotency_conflict", TRUE)
        /\ UNCHANGED <<ledgerVars, lateVars, instance, cache>>

(***************************************************************************)
(* Accounts.                                                               *)
(***************************************************************************)
RequestedAccount(r) == NewAccount(r.kind, r.account, r.parent)

CommitAccount(p) ==
    LET account == RequestedAccount(handler[p].req) IN
    /\ handler[p].pc = "create"
    /\ CreateAccount(account)
    /\ handler' = [handler EXCEPT ![p].pc = "created",
                                  ![p].status = AccountStatus(account)]
    /\ Quiet
    /\ UNCHANGED <<transfers, failed, expired, now, lateVars, instance, cache>>

\* An account that exists under the ID counts as the one asked for.
AccountAlwaysUsable(status) == TRUE

AccountUsable(status) == status \in {"created", "exists"}

\* isAccountIdempotencyConflict, or any other status.
AccountError(status) ==
    IF status = "exists_with_different" THEN "idempotency_conflict"
                                        ELSE "dependency_unavailable"

AccountResult(p) ==
    LET h == handler[p] IN
    /\ h.pc = "created"
    /\ \/ /\ AccountUsable(h.status)
          /\ Remember(Home[p], RequestedAccount(h.req))
          /\ Finish(p, h.status, FALSE)
       \/ /\ ~AccountUsable(h.status)
          /\ Finish(p, AccountError(h.status), FALSE)
          /\ UNCHANGED cache
    /\ UNCHANGED <<ledgerVars, lateVars, instance>>

ReadBalance(p) ==
    LET account == accounts[handler[p].req.account] IN
    /\ handler[p].pc = "balance"
    /\ \/ /\ account # None
          /\ MetadataForAccount(account) # None
          /\ Remember(Home[p], account)
          /\ Finish(p, "balance", FALSE)
       \/ /\ ~(account # None /\ MetadataForAccount(account) # None)
          /\ Finish(p, "account_not_found", FALSE)
          /\ UNCHANGED cache
    /\ UNCHANGED <<ledgerVars, lateVars, instance>>

(***************************************************************************)
(* Failed ledger calls.  A command given up before it committed may still  *)
(* be under way.                                                           *)
(***************************************************************************)
LookupFails(p) ==
    /\ handler[p].pc \in {"lookup_account", "lookup_card", "original",
                          "replay", "late", "drift", "balance"}
    /\ Finish(p, "dependency_unavailable", FALSE)
    /\ UNCHANGED <<ledgerVars, lateVars, instance, cache>>

\* Some of the given commands stay under way, within the bound.
Abandon(ts, as) ==
    \E T \in SUBSET ts, A \in SUBSET as :
        /\ Cardinality(lateTransfers \cup T) + Cardinality(lateAccounts \cup A)
               <= MaxLate
        /\ lateTransfers' = lateTransfers \cup T
        /\ lateAccounts' = lateAccounts \cup A

PendingTransfers(P) ==
    {handler[p].transfer : p \in {q \in P : handler[q].pc = "waiting"}}

PendingAccounts(P) ==
    {RequestedAccount(handler[p].req) :
        p \in {q \in P : handler[q].pc = "create"}}

CallFails(p) ==
    /\ handler[p].pc \in {"waiting", "result", "create", "created"}
    /\ Abandon(PendingTransfers({p}), PendingAccounts({p}))
    /\ Finish(p, "dependency_unavailable",
              handler[p].pc \in {"waiting", "result"})
    /\ UNCHANGED <<ledgerVars, instance, cache>>

CommitLateTransfer(t) ==
    /\ CreateTransfer(t)
    /\ lateTransfers' = lateTransfers \ {t}
    /\ Quiet
    /\ UNCHANGED <<lateAccounts, instance, cache, handler>>

CommitLateAccount(account) ==
    /\ CreateAccount(account)
    /\ lateAccounts' = lateAccounts \ {account}
    /\ Quiet
    /\ UNCHANGED <<transfers, failed, expired, now, lateTransfers, instance,
                   cache, handler>>

(***************************************************************************)
(* The life of an instance.                                                *)
(***************************************************************************)
NoCache == [a \in AccountIDs |-> None]

\* config.Load: a positive limit, and a timeout of at least a second and no
\* more seconds than a uint32 counts.
Loads(limit, ticks) ==
    /\ limit # 0
    /\ ticks >= TicksPerSecond
    /\ ticks <= (Uint32Range - 1) * TicksPerSecond

\* A process starts with the configuration it is given, if that is valid.
Start(i) ==
    /\ instance[i].phase = "down"
    /\ \E limit \in RiskLimits, ticks \in AuthTimeouts :
        /\ Loads(limit, ticks)
        /\ instance' = [instance EXCEPT
               ![i] = [phase |-> "cash", riskLimit |-> limit,
                       timeout |-> WholeSeconds(ticks)]]
    /\ Quiet
    /\ UNCHANGED <<ledgerVars, lateVars, cache, handler>>

Provisioning(i) == instance[i].phase \in {"cash", "settlement"}

\* The system account an instance creates in a boot phase.
SystemAccount(phase) ==
    IF phase = "cash" THEN NewAccount("safeguarded_cash", Cash, None)
                      ELSE NewAccount("card_settlement_payable", Settlement, None)

\* Serving as soon as the first system account exists.
NextPhaseHasty(phase) == "up"

NextPhase(phase) == IF phase = "cash" THEN "settlement" ELSE "up"

\* EnsureSystemAccounts: one account per step; an unusable one ends the
\* process.
Provision(i) ==
    LET account == SystemAccount(instance[i].phase) IN
    /\ Provisioning(i)
    /\ CreateAccount(account)
    /\ \/ /\ AccountUsable(AccountStatus(account))
          /\ Remember(i, account)
          /\ instance' = [instance EXCEPT ![i].phase = NextPhase(@)]
       \/ /\ ~AccountUsable(AccountStatus(account))
          /\ instance' = [instance EXCEPT ![i].phase = "down"]
          /\ cache' = [cache EXCEPT ![i] = NoCache]
    /\ Quiet
    /\ UNCHANGED <<transfers, failed, expired, now, lateVars, handler>>

\* The call returns an error, after the commit or with the command under way.
ProvisionFails(i) ==
    LET account == SystemAccount(instance[i].phase) IN
    /\ Provisioning(i)
    /\ \/ CreateAccount(account) /\ UNCHANGED lateVars
       \/ UNCHANGED accounts /\ Abandon({}, {account})
    /\ instance' = [instance EXCEPT ![i].phase = "down"]
    /\ cache' = [cache EXCEPT ![i] = NoCache]
    /\ Quiet
    /\ UNCHANGED <<transfers, failed, expired, now, handler>>

\* A serving process stops.  Its handlers, its cache and every response it
\* had not sent are lost; the commands it had sent are not.
Crash(i) ==
    LET mine == {p \in Handlers : Home[p] = i} IN
    /\ instance[i].phase = "up"
    /\ Abandon(PendingTransfers(mine), PendingAccounts(mine))
    /\ instance' = [instance EXCEPT ![i].phase = "down"]
    /\ cache' = [cache EXCEPT ![i] = NoCache]
    /\ handler' = [p \in Handlers |-> IF p \in mine THEN Idle ELSE handler[p]]
    /\ Quiet
    /\ UNCHANGED ledgerVars

\* The ledger's own steps: a hold lapses, time passes.
LedgerStep ==
    /\ Tick \/ \E id \in TransferIDs : ExpireTransfer(id)
    /\ Quiet
    /\ UNCHANGED <<lateVars, instance, cache, handler>>

-----------------------------------------------------------------------------
Init ==
    /\ LedgerInit
    /\ lateTransfers = {}
    /\ lateAccounts = {}
    /\ instance = [i \in Instances |->
                      [phase |-> "down", riskLimit |-> 0, timeout |-> 0]]
    /\ cache = [i \in Instances |-> NoCache]
    /\ handler = [p \in Handlers |-> Idle]
    /\ reply = None
    /\ declined = {}

\* What a handler does for its request, on its own and with the ledger.
Progress(p) ==
    \/ LoadMetadata(p)
    \/ LookupAccount(p)
    \/ LookupOriginal(p)
    \/ EvaluateRisk(p)
    \/ LookupReplay(p)
    \/ CommitTransfer(p)
    \/ TransferResult(p)
    \/ LookupDrift(p)
    \/ CommitAccount(p)
    \/ AccountResult(p)
    \/ ReadBalance(p)

Failure(p) == CancelRisk(p) \/ LookupFails(p) \/ CallFails(p)

Lifecycle(i) == Start(i) \/ Provision(i) \/ ProvisionFails(i) \/ Crash(i)

Next ==
    \/ \E p \in Handlers, r \in Requests : Receive(p, r)
    \/ \E p \in Handlers : Progress(p) \/ Failure(p)
    \/ \E t \in lateTransfers : CommitLateTransfer(t)
    \/ \E a \in lateAccounts : CommitLateAccount(a)
    \/ \E i \in Instances : Lifecycle(i)
    \/ LedgerStep

Spec == Init /\ [][Next]_vars

-----------------------------------------------------------------------------
(***************************************************************************)
(* Properties.                                                             *)
(***************************************************************************)
Reply == [req : Requests, outcome : Outcomes, submitted : BOOLEAN,
          logged : BOOLEAN]

\* Every variable holds a value of its kind, whatever was answered, lost or
\* restarted on the way.
TypeOK ==
    /\ accounts \in [AccountIDs -> Account \cup {None}]
    /\ transfers \in [TransferIDs -> Transfer \cup {None}]
    /\ failed \subseteq TransferIDs
    /\ expired \subseteq TransferIDs
    /\ now \in Nat
    /\ lateTransfers \subseteq Transfer
    /\ lateAccounts \subseteq Account
    /\ instance \in [Instances -> [phase : Phases, riskLimit : Nat, timeout : Nat]]
    /\ cache \in [Instances -> [AccountIDs -> Metadata \cup {None}]]
    /\ handler \in [Handlers -> [pc : Places, req : Requests \cup {None},
                                 original : Transfer \cup {None},
                                 transfer : Transfer \cup {None},
                                 status : Statuses \cup {None}]]
    /\ reply \in Reply \cup {None}
    /\ declined \subseteq Requests

\* The metadata the service may use of an account, if any.
Usable(a) ==
    IF accounts[a] = None THEN None ELSE MetadataForAccount(accounts[a])

IsKind(a, kind) == Usable(a) # None /\ Usable(a).kind = kind

\* An instance that serves requests has both system accounts at its disposal.
SystemAccountsReady ==
    \A i \in Instances : instance[i].phase = "up" =>
        /\ IsKind(Cash, "safeguarded_cash")
        /\ IsKind(Settlement, "card_settlement_payable")

\* No wallet is ever overspent: holds and posted debits of a usable account
\* stay within its posted credits (and the other way round for cash), so the
\* available balance Balance reports is never negative.
NoOverspend ==
    \A a \in AccountIDs : Usable(a) # None =>
        /\ WithinLimits(accounts[a])
        /\ AvailableBalance(accounts[a]) >= 0

\* What a usable account holds, and what of it is held for a merchant.
FundsOf(a) == IF Usable(a) = None THEN 0 ELSE PostedBalance(accounts[a])

HeldOf(a) == IF Usable(a) = None THEN 0 ELSE accounts[a].debitsPending

\* Client funds are conserved: the wallets together hold exactly the
\* safeguarded cash, through top-ups, withdrawals and moves between them, and
\* every hold on a card is a hold in favour of settlement.
FundsConserved ==
    /\ SumFunction([a \in Wallets |-> FundsOf(a)]) = FundsOf(Cash)
    /\ SumFunction([a \in Wallets |-> HeldOf(a)]) =
           IF Usable(Settlement) = None THEN 0 ELSE accounts[Settlement].creditsPending

\* A withdrawal the wallet can pay is never refused for lack of cash: no
\* transfer is ever rejected for exceeding the debits of its credit account.
CashCoversWithdrawals ==
    \A p \in Handlers : handler[p].status # "exceeds_debits"

\* What the service has cached of an account, in any instance, is what the
\* ledger says about it, so a hit can stand for a lookup.
CacheCoherent ==
    \A i \in Instances, a \in AccountIDs :
        cache[i][a] # None => cache[i][a] = Usable(a)

\* Every card the service created hangs under an existing corporate wallet.
CardsHaveCorporateParent ==
    \A a \in AccountIDs :
        /\ \A found \in Preexisting : found[a] = None
        /\ IsKind(a, "card_wallet")
        => IsKind(accounts[a].parent, "corporate_wallet")

\* Allocations and returns only ever move funds between a card and its own
\* corporate wallet.
MovesStayWithParent ==
    \A id \in TransferIDs :
        LET t == transfers[id] IN
        /\ t # None => (t.code = "card_allocation" =>
              /\ IsKind(t.credit, "card_wallet")
              /\ IsKind(t.debit, "corporate_wallet")
              /\ accounts[t.credit].parent = t.debit)
        /\ t # None => (t.code = "card_return" =>
              /\ IsKind(t.debit, "card_wallet")
              /\ IsKind(t.credit, "corporate_wallet")
              /\ accounts[t.debit].parent = t.credit)

\* Every increment is a hold on the card, for the merchant and in the group
\* of a genuine authorization.
IncrementsJoinAuthorization ==
    \A id \in TransferIDs :
        LET t == transfers[id] IN
        t # None => (t.code = "authorization_increment" =>
            /\ t.pending
            /\ t.group # None
            /\ transfers[t.group] # None
            /\ transfers[t.group].pending
            /\ transfers[t.group].code = "authorization"
            /\ transfers[t.group].debit = t.debit
            /\ transfers[t.group].merchant = t.merchant)

\* What the service submits is never rejected for its shape: the accounts
\* exist, differ and are of the service's ledger.
RecipesAccepted ==
    \A p \in Handlers :
        handler[p].status \notin {"accounts_must_be_different",
                                 "account_not_found", "ledger_mismatch"}

\* The transfer that carries out a request.
Fulfils(t, r) ==
    /\ t.id = r.id /\ t.amount = r.amount /\ t.code = r.op
    /\ CASE r.op = "topup" -> t.debit = Cash /\ t.credit = r.account
         [] r.op = "withdrawal" -> t.debit = r.account /\ t.credit = Cash
         [] r.op = "card_allocation" -> t.debit = r.account /\ t.credit = r.card
         [] r.op = "card_return" -> t.debit = r.card /\ t.credit = r.account
         [] r.op = "authorization" ->
                /\ t.debit = r.card /\ t.credit = Settlement
                /\ t.pending /\ t.group = r.id /\ t.merchant = r.merchant
         [] r.op = "authorization_increment" ->
                t.pending /\ t.group = r.auth
         [] OTHER -> FALSE

\* An answer of success is true: the ledger holds exactly the transfer the
\* caller asked for, even when the answer comes from a replay or a lookup.
SuccessIsCommitted ==
    (reply # None /\ reply.outcome \in {"posted", "approved"}) =>
        /\ reply.req.id # None
        /\ transfers[reply.req.id] # None
        /\ Fulfils(transfers[reply.req.id], reply.req)

\* An answer of insufficient funds or of an earlier failure is final: the
\* request's ID is used up and no transfer exists, or ever will, under it.
RejectionIsFinal ==
    (reply # None /\ reply.outcome \in {"insufficient_funds",
                                        "previous_attempt_failed"}) =>
        /\ reply.req.id \in failed
        /\ transfers[reply.req.id] = None

\* A conflict is only reported to a caller whose payload differs from the one
\* the ID was first used with.
ConflictMeansDifferentPayload ==
    /\ reply # None
    /\ reply.outcome = "idempotency_conflict"
    /\ reply.req.op # "create_account"
    => ~Fulfils(transfers[reply.req.id], reply.req)

\* Success is never taken back: once the ledger holds the transfer of a request,
\* every answer to that request is the success, or an error that asks for a
\* retry; no later risk limit, expiry, restart or race turns it into a refusal.
SuccessStands ==
    /\ reply # None
    /\ reply.req.id # None
    /\ transfers[reply.req.id] # None
    /\ Fulfils(transfers[reply.req.id], reply.req)
    => reply.outcome \in {"posted", "approved", "dependency_unavailable",
                          "request_canceled"}

\* A request that was declined without a transfer never gets one: retrying,
\* or an attempt still running, does not turn the decline into a hold.
DeclineIsStable ==
    \A r \in declined :
        transfers[r.id] = None \/ ~Fulfils(transfers[r.id], r)

\* An attempt at the request is with the ledger, or was carried out by it.
TakenUp(r) ==
    \/ \E p \in Handlers : handler[p].pc = "waiting" /\ Fulfils(handler[p].transfer, r)
    \/ \E t \in lateTransfers : Fulfils(t, r)
    \/ transfers[r.id] # None /\ Fulfils(transfers[r.id], r)

\* A decline settles the request: no retry of it, and no attempt that was running
\* when it was declined, gets past the checks of IncrementAuthorization and
\* evaluateRisk later.  Only what was with the ledger by then can still become a
\* hold.
DeclineSettles == [][\A r \in declined : TakenUp(r)' => TakenUp(r)]_vars

\* No hold, increments included, is larger than the risk limit evaluateRisk
\* compares it with: some limit a process was configured with allows it.
HoldsWithinRiskLimit ==
    \A id \in TransferIDs :
        (transfers[id] # None /\ transfers[id].pending) =>
            \E limit \in RiskLimits : transfers[id].amount <= limit

\* Every hold lapses on its own, and no increment asks for more time than its
\* authorization was given.
HoldsLapse ==
    \A id \in TransferIDs :
        LET t == transfers[id] IN
        (t # None /\ t.pending) =>
            /\ t.timeout > 0
            /\ t.timeout <= transfers[t.group].timeout

\* An increment lapses no later than the authorization it extends.
IncrementEndsWithAuthorization ==
    \A id \in TransferIDs :
        LET t == transfers[id] IN
        (t # None /\ t.pending) => ExpiresAt(t) <= ExpiresAt(transfers[t.group])

\* Every attempt that reached the ledger leaves its line in the transaction log.
AttemptsAreLogged ==
    (reply # None /\ reply.submitted) => reply.logged

(***************************************************************************)
(* The promise of Idempotency, read off the ledger and the last answer.    *)
(***************************************************************************)
Decision(id) ==
    IF transfers[id] # None THEN "accepted"
    ELSE IF id \in failed THEN "refused" ELSE "open"

CarriedOut ==
    {r \in Requests :
        /\ r.id # None
        /\ transfers[r.id] # None
        /\ Fulfils(transfers[r.id], r)}

Promise == INSTANCE Idempotency WITH
    IDs <- TransferIDs, Answers <- Reply,
    decision <- [id \in TransferIDs |-> Decision(id)],
    carriedOut <- CarriedOut, answer <- reply

\* The service keeps the promise of Idempotency: across retries, instances, lost
\* answers, late commits and restarts an ID is decided once, by a transfer that
\* carries out a request made under it or by using the ID up, and what callers
\* are told agrees with it.
KeepsPromise == Promise!Spec
=============================================================================
