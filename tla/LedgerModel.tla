---------------------------- MODULE LedgerModel ----------------------------
(***************************************************************************)
(* The chart of accounts and the records the service exchanges with        *)
(* TigerBeetle (internal/ledger/model.go, internal/service/service.go).    *)
(*                                                                         *)
(* Identifiers are abstract: a request field holds an account or transfer  *)
(* ID, or None when its text is empty, malformed, zero or the maximum      *)
(* 128-bit value.  A zero Uint128 in a ledger record is None as well.  The *)
(* account code is named after the kind it stands for.                     *)
(***************************************************************************)
EXTENDS Integers, FiniteSets

CONSTANTS
    Wallets,      \* caller-generated account IDs
    Cash,         \* SafeguardedCashAccountID
    Settlement,   \* CardSettlementPayableAccountID
    TransferIDs,  \* caller-generated transfer (request) IDs
    Merchants,
    Ledgers,      \* ledgers of the cluster
    LedgerID,     \* the ledger this service is configured with
    None

AccountIDs == Wallets \cup {Cash, Settlement}

(***************************************************************************)
(* Account kinds, their flags and the account record each kind needs.      *)
(***************************************************************************)
Kinds == {"safeguarded_cash", "corporate_wallet", "card_wallet",
          "card_settlement_payable"}

Flags == {"none", "debits_must_not_exceed_credits",
          "credits_must_not_exceed_debits"}

Account == [id : AccountIDs, code : Kinds \cup {"other"}, flags : Flags,
            ledger : Ledgers, parent : AccountIDs \cup {None},
            extra : BOOLEAN,
            debitsPending : Int, debitsPosted : Nat,
            creditsPending : Int, creditsPosted : Nat]

IsSystemAccountID(id) == id \in {Cash, Settlement}

\* Wallets without their limit, the mistake an overspend would follow from.
UnlimitedFlags(kind) ==
    IF kind = "safeguarded_cash" THEN "credits_must_not_exceed_debits"
                                 ELSE "none"

\* The flags of each kind of account.
FlagsOf(kind) ==
    IF kind = "safeguarded_cash" THEN "credits_must_not_exceed_debits"
                                 ELSE "debits_must_not_exceed_credits"

\* Only a card wallet has a corporate parent, and never itself.
ParentAllowed(kind, id, parent) ==
    IF kind = "card_wallet" THEN parent \notin {None, id} ELSE parent = None

\* ledger.Account: the record submitted to create an account.
NewAccount(kind, id, parent) ==
    [id |-> id, code |-> kind, flags |-> FlagsOf(kind), ledger |-> LedgerID,
     parent |-> parent, extra |-> FALSE,
     debitsPending |-> 0, debitsPosted |-> 0,
     creditsPending |-> 0, creditsPosted |-> 0]

(***************************************************************************)
(* What the service may use of an account it finds in the ledger.          *)
(***************************************************************************)
Metadata == [kind : Kinds, parent : AccountIDs \cup {None}]

\* The kind is right for the ID: singletons at their own ID only.
KindFitsID(kind, id) ==
    CASE kind = "safeguarded_cash" -> id = Cash
      [] kind = "card_settlement_payable" -> id = Settlement
      [] OTHER -> ~IsSystemAccountID(id)

\* A check that forgets the flags of the account it reads.
MetadataFlagsUnchecked(account) ==
    IF /\ account.code \in Kinds
       /\ account.ledger = LedgerID
       /\ KindFitsID(account.code, account.id)
       /\ ParentAllowed(account.code, account.id, account.parent)
    THEN [kind |-> account.code, parent |-> account.parent]
    ELSE None

\* metadataForAccount: None for an account the service must not use.
MetadataForAccount(account) ==
    IF /\ account.code \in Kinds
       /\ account.ledger = LedgerID
       /\ KindFitsID(account.code, account.id)
       /\ ParentAllowed(account.code, account.id, account.parent)
       /\ account.flags = FlagsOf(account.code)
       /\ ~account.extra
    THEN [kind |-> account.code, parent |-> account.parent]
    ELSE None

\* balances: the posted balance on the account's normal side, and what is
\* left of it after the pending amounts that will consume it.
PostedBalance(account) ==
    IF account.code = "safeguarded_cash"
    THEN account.debitsPosted - account.creditsPosted
    ELSE account.creditsPosted - account.debitsPosted

AvailableBalance(account) ==
    IF account.code = "safeguarded_cash"
    THEN PostedBalance(account) - account.creditsPending
    ELSE PostedBalance(account) - account.debitsPending

(***************************************************************************)
(* Transfers.  group is user_data_128, merchant the fingerprint in         *)
(* user_data_64 and user_data_32, timeout a number of seconds.             *)
(***************************************************************************)
TransferCodes == {"topup", "withdrawal", "card_allocation", "card_return",
                  "authorization", "authorization_increment"}

Transfer == [id : TransferIDs, debit : AccountIDs, credit : AccountIDs,
             amount : Nat, group : TransferIDs \cup {None},
             merchant : Merchants \cup {None}, timeout : Nat,
             code : TransferCodes, pending : BOOLEAN, timestamp : Nat]

\* sameTransferExceptTimeout.
SameTransferExceptTimeout(left, right) ==
    /\ left.id = right.id
    /\ left.debit = right.debit
    /\ left.credit = right.credit
    /\ left.amount = right.amount
    /\ left.group = right.group
    /\ left.merchant = right.merchant
    /\ left.code = right.code
    /\ left.pending = right.pending

\* sameTransfer.
SameTransfer(left, right) ==
    /\ left.timeout = right.timeout
    /\ SameTransferExceptTimeout(left, right)

\* IDs are 128-bit numbers.
ASSUME IDAssumption ==
    /\ IsFiniteSet(Wallets) /\ IsFiniteSet(TransferIDs)
    /\ Cash # Settlement
    /\ {Cash, Settlement} \cap Wallets = {}
    /\ LedgerID \in Ledgers

ASSUME NoneAssumption ==
    /\ None \notin AccountIDs \cup TransferIDs \cup Merchants
    /\ None \notin Account
    /\ None \notin Metadata
    /\ None \notin Transfer
=============================================================================
