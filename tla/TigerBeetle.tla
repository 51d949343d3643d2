---------------------------- MODULE TigerBeetle ----------------------------
(***************************************************************************)
(* The ledger the service calls, external to the repository.  It is        *)
(* modelled from how internal/service uses its results and from the        *)
(* in-memory ledger of the service tests, plus the expiry of pending       *)
(* transfers, which that test double leaves out.  Every operation is one   *)
(* atomic step: TigerBeetle is strictly serializable.                      *)
(*                                                                         *)
(* Time passes in ticks; TicksPerSecond of them make the second in which   *)
(* timeouts are given, so that rounding to whole seconds is visible.       *)
(***************************************************************************)
EXTENDS LedgerModel

CONSTANTS
    Preexisting,    \* the ledgers this service may find when it first runs
    TicksPerSecond,
    MaxNow          \* bound on the ledger clock

VARIABLES
    accounts,   \* account ID -> record, or None
    transfers,  \* transfer ID -> record, or None
    failed,     \* IDs of transfers rejected for good
    expired,    \* pending transfers whose hold has lapsed
    now         \* the ledger clock, in ticks

ledgerVars == <<accounts, transfers, failed, expired, now>>

(***************************************************************************)
(* Limits the ledger enforces on an account, as the account stands.        *)
(***************************************************************************)
WithinLimits(account) ==
    /\ account.flags = "debits_must_not_exceed_credits" =>
           account.debitsPending + account.debitsPosted <= account.creditsPosted
    /\ account.flags = "credits_must_not_exceed_debits" =>
           account.creditsPending + account.creditsPosted <= account.debitsPosted

ASSUME PreexistingAssumption ==
    /\ Preexisting \subseteq [AccountIDs -> Account \cup {None}]
    /\ \A found \in Preexisting, a \in AccountIDs : found[a] # None =>
           /\ found[a].id = a
           /\ found[a].debitsPending >= 0 /\ found[a].creditsPending >= 0
           /\ WithinLimits(found[a])

ASSUME TimeAssumption ==
    /\ TicksPerSecond \in Nat \ {0}
    /\ MaxNow \in Nat

LedgerInit ==
    /\ accounts \in Preexisting
    /\ transfers = [id \in TransferIDs |-> None]
    /\ failed = {}
    /\ expired = {}
    /\ now = 0

(***************************************************************************)
(* Accounts.                                                               *)
(***************************************************************************)
SameAccount(left, right) ==
    /\ left.code = right.code
    /\ left.flags = right.flags
    /\ left.ledger = right.ledger
    /\ left.parent = right.parent
    /\ left.extra = right.extra

AccountStatus(account) ==
    IF accounts[account.id] = None THEN "created"
    ELSE IF SameAccount(accounts[account.id], account) THEN "exists"
    ELSE "exists_with_different"

CreateAccount(account) ==
    accounts' = IF AccountStatus(account) = "created"
                THEN [accounts EXCEPT ![account.id] = account]
                ELSE accounts

(***************************************************************************)
(* Transfers.  A timeout that differs is reported before any other field   *)
(* except the flags, whatever else differs.                                *)
(***************************************************************************)
Debited(account, t) ==
    IF t.pending
    THEN [account EXCEPT !.debitsPending = @ + t.amount]
    ELSE [account EXCEPT !.debitsPosted = @ + t.amount]

Credited(account, t) ==
    IF t.pending
    THEN [account EXCEPT !.creditsPending = @ + t.amount]
    ELSE [account EXCEPT !.creditsPosted = @ + t.amount]

ExceedsCredits(account, t) ==
    /\ account.flags = "debits_must_not_exceed_credits"
    /\ account.debitsPending + account.debitsPosted + t.amount
           > account.creditsPosted

ExceedsDebits(account, t) ==
    /\ account.flags = "credits_must_not_exceed_debits"
    /\ account.creditsPending + account.creditsPosted + t.amount
           > account.debitsPosted

ExistsStatus(existing, t) ==
    CASE existing.pending # t.pending -> "exists_with_different"
      [] existing.pending = t.pending /\ existing.timeout # t.timeout ->
             "exists_with_different_timeout"
      [] SameTransfer(existing, t) -> "exists"
      [] OTHER -> "exists_with_different"

NewStatus(t) ==
    IF t.debit = t.credit THEN "accounts_must_be_different"
    ELSE IF accounts[t.debit] = None \/ accounts[t.credit] = None
         THEN "account_not_found"
    ELSE IF \E a \in {t.debit, t.credit} : accounts[a].ledger # LedgerID
         THEN "ledger_mismatch"
    ELSE IF ExceedsCredits(accounts[t.debit], t) THEN "exceeds_credits"
    ELSE IF ExceedsDebits(accounts[t.credit], t) THEN "exceeds_debits"
    ELSE "created"

TransferStatus(t) ==
    IF t.id \in failed THEN "id_already_failed"
    ELSE IF transfers[t.id] # None THEN ExistsStatus(transfers[t.id], t)
    ELSE NewStatus(t)

\* Rejections that depend on the state of the ledger use the ID up.
Transient == {"account_not_found", "exceeds_credits", "exceeds_debits"}

CreateTransfer(t) ==
    LET status == TransferStatus(t) IN
    /\ accounts' =
          IF status = "created"
          THEN [accounts EXCEPT ![t.debit] = Debited(@, t),
                                ![t.credit] = Credited(@, t)]
          ELSE accounts
    /\ transfers' =
          IF status = "created"
          THEN [transfers EXCEPT ![t.id] = [t EXCEPT !.timestamp = now]]
          ELSE transfers
    /\ failed' = IF status \in Transient THEN failed \cup {t.id} ELSE failed
    /\ UNCHANGED <<expired, now>>

\* The first tick at which a pending transfer is due to lapse.
ExpiresAt(t) == t.timestamp + t.timeout * TicksPerSecond

\* The hold of a pending transfer lapses; a zero timeout never does.
ExpireTransfer(id) ==
    /\ transfers[id] # None
    /\ transfers[id].pending
    /\ transfers[id].timeout # 0
    /\ id \notin expired
    /\ now >= ExpiresAt(transfers[id])
    /\ accounts' =
          [accounts EXCEPT
              ![transfers[id].debit].debitsPending = @ - transfers[id].amount,
              ![transfers[id].credit].creditsPending = @ - transfers[id].amount]
    /\ expired' = expired \cup {id}
    /\ UNCHANGED <<transfers, failed, now>>

Tick ==
    /\ now < MaxNow
    /\ now' = now + 1
    /\ UNCHANGED <<accounts, transfers, failed, expired>>
=============================================================================
