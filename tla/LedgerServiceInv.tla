-------------------------- MODULE LedgerServiceInv --------------------------
(***************************************************************************)
(* The inductive invariant of LedgerService.                               *)
(*                                                                         *)
(* Besides the types it says what a handler has established at each place, *)
(* that every transfer in the ledger, in a handler or still under way      *)
(* follows the recipe of its operation, and that every account under way   *)
(* has a parent of the right kind. The lemmas say how the ledger, a        *)
(* handler and a recipe keep the parts of it; the actions are in the       *)
(* modules that extend this one.                                           *)
(***************************************************************************)
EXTENDS LedgerService, TLAPS

Holds == {"authorization", "authorization_increment"}

\* The recipe of each operation, over accounts and transfers in the ledger.
Recipe(t) ==
    /\ t.code = "topup" =>
           /\ t.debit = Cash /\ IsKind(Cash, "safeguarded_cash")
           /\ IsKind(t.credit, "corporate_wallet")
    /\ t.code = "withdrawal" =>
           /\ t.credit = Cash /\ IsKind(Cash, "safeguarded_cash")
           /\ IsKind(t.debit, "corporate_wallet")
    /\ t.code = "card_allocation" =>
           /\ IsKind(t.credit, "card_wallet")
           /\ IsKind(t.debit, "corporate_wallet")
           /\ accounts[t.credit].parent = t.debit
    /\ t.code = "card_return" =>
           /\ IsKind(t.debit, "card_wallet")
           /\ IsKind(t.credit, "corporate_wallet")
           /\ accounts[t.debit].parent = t.credit
    /\ t.pending <=> t.code \in Holds
    /\ t.code \in Holds =>
           /\ t.credit = Settlement
           /\ IsKind(Settlement, "card_settlement_payable")
           /\ IsKind(t.debit, "card_wallet")
    /\ t.code = "authorization_increment" =>
           /\ t.group \in TransferIDs
           /\ transfers[t.group] # None
           /\ IsAuthorization(transfers[t.group])
           /\ transfers[t.group].debit = t.debit
           /\ transfers[t.group].merchant = t.merchant

\* Accounts and transfers sit at their IDs, accounts are within their limits,
\* and a failed ID has no transfer.
LedgerOK ==
    /\ \A a \in AccountIDs : accounts[a] # None =>
           /\ accounts[a].id = a
           /\ WithinLimits(accounts[a])
    /\ \A id \in TransferIDs : transfers[id] # None =>
           /\ transfers[id].id = id
           /\ id \notin failed
           /\ Recipe(transfers[id])

\* An account that was submitted: new, and with a proper parent.
AccountRequestOK(account) ==
    /\ account.id \in AccountIDs
    /\ account \in Account
    /\ account.debitsPending = 0 /\ account.debitsPosted = 0
    /\ account.creditsPending = 0 /\ account.creditsPosted = 0
    /\ account.code = "card_wallet" =>
           account.parent \in AccountIDs /\ IsKind(account.parent, "corporate_wallet")

LateOK ==
    /\ \A t \in lateTransfers : Recipe(t)
    /\ \A account \in lateAccounts : AccountRequestOK(account)

\* The operations whose handlers can be at a place.
OperationsAt(place) ==
    CASE place \in {"account", "lookup_account"} ->
             {"topup", "withdrawal", "create_account"} \cup Moves
      [] place \in {"card", "lookup_card"} -> Moves \cup Holds
      [] place \in {"original", "late", "drift"} -> {"authorization_increment"}
      [] place \in {"risk", "replay"} -> Holds
      [] place \in {"waiting", "result"} -> TransferCodes
      [] place \in {"create", "created"} -> {"create_account"}
      [] place = "balance" -> {"get_balance"}
      [] OTHER -> {}

\* A handler serves a valid request, at a place of its operation, in a
\* serving instance.
HandlerServes(h, i) ==
    /\ h.req \in Requests
    /\ ValidRequest(h.req)
    /\ h.req.op \in OperationsAt(h.pc)
    /\ instance[i].phase = "up"

\* What the handler has found out about accounts and the authorization.
HandlerKnows(h) ==
    /\ h.req.op \in Moves /\ AtCard(h) => IsKind(h.req.account, "corporate_wallet")
    /\ /\ h.req.op = "create_account" /\ h.req.kind = "card_wallet"
       /\ h.pc \in {"create", "created"}
       => IsKind(h.req.parent, "corporate_wallet")
    /\ /\ h.req.op = "create_account"
       /\ h.pc \in {"account", "lookup_account"}
       => h.req.kind = "card_wallet"
    /\ h.req.op = "authorization" /\ h.pc \in {"risk", "replay"} =>
           IsKind(h.req.card, "card_wallet")
    /\ h.req.op = "authorization_increment" /\ h.pc # "original" =>
           /\ h.original # None
           /\ h.original = transfers[h.req.auth]
           /\ IsAuthorization(h.original)

\* What it has submitted, and what the ledger said.
HandlerSubmitted(h) ==
    /\ h.pc \in {"waiting", "result", "drift"} =>
           /\ h.transfer # None
           /\ Recipe(h.transfer)
           /\ Fulfils(h.transfer, h.req)
    /\ h.pc = "result" =>
           /\ h.status \in Statuses
           /\ h.status \in {"created", "exists"} =>
                  /\ transfers[h.req.id] # None
                  /\ Fulfils(transfers[h.req.id], h.req)
           /\ h.status \in {"exceeds_credits", "exceeds_debits",
                            "id_already_failed"} => h.req.id \in failed
           /\ h.status \notin {"accounts_must_be_different",
                               "account_not_found", "ledger_mismatch"}
    /\ h.pc = "created" =>
           /\ h.status \in {"created", "exists", "exists_with_different"}
           /\ h.status \in {"created", "exists"} =>
                  /\ accounts[h.req.account] # None
                  /\ SameAccount(accounts[h.req.account], RequestedAccount(h.req))

HandlerOK(h, i) ==
    IF h.pc = "idle" THEN h = Idle
    ELSE HandlerServes(h, i) /\ HandlerKnows(h) /\ HandlerSubmitted(h)

HandlersOK == \A p \in Handlers : HandlerOK(handler[p], Home[p])

\* EnsureSystemAccounts goes on to the settlement account with cash in place.
CashProvisioned ==
    \A i \in Instances : instance[i].phase = "settlement" =>
        IsKind(Cash, "safeguarded_cash")

IInv ==
    /\ TypeOK
    /\ LedgerOK
    /\ LateOK
    /\ CacheCoherent
    /\ SystemAccountsReady
    /\ CashProvisioned
    /\ CardsHaveCorporateParent
    /\ HandlersOK
    /\ SuccessIsCommitted
    /\ RejectionIsFinal

-----------------------------------------------------------------------------
(***************************************************************************)
(* Requests, accounts and transfers.                                       *)
(***************************************************************************)

\* A valid request names IDs that exist where its operation needs them.
LEMMA ValidRequestFacts ==
    ASSUME NEW r \in Requests, ValidRequest(r)
    PROVE  /\ r \in Request
           /\ r.op \in TransferCodes => r.id \in TransferIDs
           /\ r.op \in {"topup", "withdrawal"} \cup Moves => r.account \in Wallets
           /\ r.op \in Moves \cup {"authorization"} => r.card \in Wallets
           /\ r.op = "authorization" => r.merchant \in Merchants
           /\ r.op = "authorization_increment" => r.auth \in TransferIDs
           /\ r.op = "get_balance" => r.account \in AccountIDs
           /\ r.op = "create_account" =>
                  /\ r.account \in Wallets
                  /\ r.kind \in {"corporate_wallet", "card_wallet"}
                  /\ r.kind = "card_wallet" =>
                         r.parent \in Wallets /\ r.parent # r.account
                  /\ r.kind # "card_wallet" => r.parent = None
  <1>1. r \in Request
    BY ServiceAssumption
  <1>2. CASE r.op \in {"topup", "withdrawal"}
    BY Zenon, <1>1, <1>2, IDAssumption, NoneAssumption
    DEF Request, ValidRequest, ValidFunds, IsAccountID, IsRequestID,
        IsSystemAccountID, AccountIDs, Moves, TransferCodes
  <1>3. CASE r.op \in Moves
    BY Zenon, <1>1, <1>3, IDAssumption, NoneAssumption
    DEF Request, ValidRequest, ValidFunds, ValidMove, IsAccountID, IsRequestID,
        IsSystemAccountID, AccountIDs, Moves, TransferCodes
  <1>4. CASE r.op = "authorization"
    BY <1>1, <1>4, IDAssumption, NoneAssumption
    DEF Request, ValidRequest, ValidAuthorization, IsAccountID, IsRequestID,
        IsSystemAccountID, AccountIDs, Moves, TransferCodes
  <1>5. CASE r.op = "authorization_increment"
    BY <1>1, <1>5, NoneAssumption
    DEF Request, ValidRequest, ValidIncrement, IsRequestID, Moves, TransferCodes
  <1>6. CASE r.op = "create_account"
    <2>1. ValidCreateAccount(r)
      BY <1>6 DEF ValidRequest, Moves
    <2> QED
      BY <1>1, <1>6, <2>1, IDAssumption, NoneAssumption
      DEF Request, ValidCreateAccount, IsAccountID,
          IsSystemAccountID, AccountIDs, Moves, TransferCodes
  <1>7. CASE r.op = "get_balance"
    BY <1>1, <1>7 DEF Request, ValidRequest, Moves, TransferCodes
  <1> QED
    BY <1>1, <1>2, <1>3, <1>4, <1>5, <1>6, <1>7
    DEF Request, Operations, TransferCodes, Moves

\* What the metadata of an account says about it.
LEMMA MetadataFacts ==
    ASSUME NEW account \in Account
    PROVE  /\ MetadataForAccount(account) \in Metadata \cup {None}
           /\ MetadataForAccount(account) # None =>
                  /\ MetadataForAccount(account).kind = account.code
                  /\ MetadataForAccount(account).parent = account.parent
                  /\ account.code \in Kinds
                  /\ account.ledger = LedgerID
                  /\ account.flags = FlagsOf(account.code)
                  /\ KindFitsID(account.code, account.id)
                  /\ ParentAllowed(account.code, account.id, account.parent)
  BY NoneAssumption DEF MetadataForAccount, Metadata, Account

\* New accounts of the service are usable.
LEMMA NewAccountFacts ==
    ASSUME NEW kind \in Kinds, NEW id \in AccountIDs,
           NEW parent \in AccountIDs \cup {None},
           KindFitsID(kind, id), ParentAllowed(kind, id, parent)
    PROVE  /\ NewAccount(kind, id, parent) \in Account
           /\ MetadataForAccount(NewAccount(kind, id, parent))
                  = [kind |-> kind, parent |-> parent]
           /\ MetadataForAccount(NewAccount(kind, id, parent)) # None
  <1>1. NewAccount(kind, id, parent) \in Account
    BY IDAssumption DEF NewAccount, Account, FlagsOf, Flags, Kinds
  <1>2. MetadataForAccount(NewAccount(kind, id, parent))
            = [kind |-> kind, parent |-> parent]
    BY DEF MetadataForAccount, NewAccount
  <1>3. [kind |-> kind, parent |-> parent] \in Metadata
    BY DEF Metadata
  <1> QED
    BY <1>1, <1>2, <1>3, NoneAssumption

-----------------------------------------------------------------------------
(***************************************************************************)
(* Ledger operations.                                                      *)
(***************************************************************************)
LedgerTypeOK ==
    /\ accounts \in [AccountIDs -> Account \cup {None}]
    /\ transfers \in [TransferIDs -> Transfer \cup {None}]
    /\ failed \subseteq TransferIDs
    /\ expired \subseteq TransferIDs
    /\ now \in Nat

\* What the ledger never takes back: an account keeps everything but its
\* balances, a transfer keeps everything, a failed ID stays failed.
LedgerGrows ==
    /\ \A a \in AccountIDs : accounts[a] # None =>
           /\ accounts'[a] # None
           /\ accounts'[a].id = accounts[a].id
           /\ SameAccount(accounts'[a], accounts[a])
    /\ \A id \in TransferIDs : transfers[id] # None =>
           transfers'[id] = transfers[id]
    /\ failed \subseteq failed'

\* Debiting and crediting keep an account well formed and change neither its
\* identity nor what the service reads of it.
LEMMA DebitedFacts ==
    ASSUME NEW account \in Account, NEW t \in Transfer
    PROVE  /\ Debited(account, t) \in Account
           /\ Credited(account, t) \in Account
           /\ Debited(account, t).id = account.id
           /\ Credited(account, t).id = account.id
           /\ SameAccount(Debited(account, t), account)
           /\ SameAccount(Credited(account, t), account)
           /\ WithinLimits(account) /\ ~ExceedsCredits(account, t)
                  => WithinLimits(Debited(account, t))
           /\ WithinLimits(account) /\ ~ExceedsDebits(account, t)
                  => WithinLimits(Credited(account, t))
  BY DEF Account, Transfer, Debited, Credited, SameAccount, WithinLimits,
         ExceedsCredits, ExceedsDebits

\* A transfer that is created books its amount on two accounts within their
\* limits; every other outcome leaves accounts and transfers alone.
LEMMA CreateTransferFacts ==
    ASSUME LedgerTypeOK, NEW t \in Transfer, CreateTransfer(t),
           \A a \in AccountIDs : accounts[a] # None =>
               accounts[a].id = a /\ WithinLimits(accounts[a])
    PROVE  /\ LedgerTypeOK'
           /\ LedgerGrows
           /\ \A a \in AccountIDs : accounts'[a] # None =>
                  /\ accounts[a] # None
                  /\ accounts'[a].id = a
                  /\ WithinLimits(accounts'[a])
           /\ TransferStatus(t) = "created" =>
                  /\ t.id \notin failed
                  /\ transfers[t.id] = None
                  /\ failed' = failed
                  /\ transfers' = [transfers EXCEPT
                                      ![t.id] = [t EXCEPT !.timestamp = now]]
           /\ TransferStatus(t) # "created" => transfers' = transfers
           /\ \A id \in failed' : id \in failed \/ transfers'[id] = None
  <1>1. CASE TransferStatus(t) = "created"
    <2> DEFINE d == accounts[t.debit]
               c == accounts[t.credit]
    <2>1. /\ t.id \notin failed
          /\ transfers[t.id] = None
          /\ NewStatus(t) = "created"
      BY <1>1 DEF TransferStatus, ExistsStatus
    <2>2. /\ t.debit # t.credit
          /\ d # None /\ c # None
          /\ ~ExceedsCredits(d, t)
          /\ ~ExceedsDebits(c, t)
      BY <2>1 DEF NewStatus
    <2>3. /\ t.debit \in AccountIDs /\ t.credit \in AccountIDs
          /\ t.id \in TransferIDs
          /\ d \in Account /\ c \in Account
      BY <2>2 DEF Transfer, LedgerTypeOK
    <2>4. /\ accounts' = [accounts EXCEPT ![t.debit] = Debited(d, t),
                                          ![t.credit] = Credited(c, t)]
          /\ transfers' = [transfers EXCEPT
                              ![t.id] = [t EXCEPT !.timestamp = now]]
          /\ failed' = failed
          /\ expired' = expired
          /\ now' = now
      BY <1>1, <2>2, <2>3 DEF CreateTransfer, Transient, LedgerTypeOK
    <2>5. [t EXCEPT !.timestamp = now] \in Transfer
      BY DEF Transfer, LedgerTypeOK
    <2>6. /\ Debited(d, t) \in Account /\ Credited(c, t) \in Account
          /\ Debited(d, t).id = t.debit /\ Credited(c, t).id = t.credit
          /\ SameAccount(Debited(d, t), d) /\ SameAccount(Credited(c, t), c)
          /\ WithinLimits(Debited(d, t)) /\ WithinLimits(Credited(c, t))
      BY <2>2, <2>3, DebitedFacts
    <2>7. \A a \in AccountIDs : accounts[a] # None => SameAccount(accounts[a], accounts[a])
      BY DEF SameAccount
    <2>8. LedgerTypeOK'
      BY <2>3, <2>4, <2>5, <2>6 DEF LedgerTypeOK
    <2>9. \A a \in AccountIDs :
              accounts'[a] = IF a = t.debit THEN Debited(d, t)
                             ELSE IF a = t.credit THEN Credited(c, t)
                             ELSE accounts[a]
      BY <2>2, <2>3, <2>4 DEF LedgerTypeOK
    <2>10. Debited(d, t) # None /\ Credited(c, t) # None
      BY <2>6, NoneAssumption
    <2>11. LedgerGrows
      BY <2>1, <2>2, <2>3, <2>4, <2>6, <2>7, <2>9, <2>10
      DEF LedgerGrows, LedgerTypeOK
    <2>12. \A a \in AccountIDs : accounts'[a] # None =>
              accounts[a] # None /\ accounts'[a].id = a /\ WithinLimits(accounts'[a])
      BY <2>2, <2>6, <2>9
    <2> QED
      BY Zenon, <1>1, <2>1, <2>4, <2>8, <2>11, <2>12
  <1>2. CASE TransferStatus(t) # "created"
    <2>1. /\ accounts' = accounts
          /\ transfers' = transfers
          /\ failed' \in {failed, failed \cup {t.id}}
          /\ expired' = expired
          /\ now' = now
      BY <1>2 DEF CreateTransfer
    <2>2. t.id \in TransferIDs
      BY DEF Transfer
    <2>3. failed' # failed => transfers[t.id] = None
      BY <1>2 DEF CreateTransfer, TransferStatus, ExistsStatus, Transient
    <2> QED
      BY <1>2, <2>1, <2>2, <2>3 DEF LedgerTypeOK, LedgerGrows, SameAccount
  <1> QED
    BY <1>1, <1>2

-----------------------------------------------------------------------------
(***************************************************************************)
(* What a growing ledger leaves true.                                      *)
(***************************************************************************)
LEMMA UsableStable ==
    ASSUME LedgerTypeOK, LedgerGrows, NEW a \in AccountIDs, accounts[a] # None
    PROVE  /\ Usable(a)' = Usable(a)
           /\ accounts'[a].parent = accounts[a].parent
  <1>1. /\ accounts'[a] # None
        /\ accounts'[a].id = accounts[a].id
        /\ SameAccount(accounts'[a], accounts[a])
    BY DEF LedgerGrows
  <1>2. MetadataForAccount(accounts'[a]) = MetadataForAccount(accounts[a])
    BY <1>1 DEF MetadataForAccount, SameAccount
  <1> QED
    BY <1>1, <1>2 DEF Usable, SameAccount

\* The kind of an account never changes once the ledger holds it.
LEMMA IsKindStable ==
    ASSUME LedgerTypeOK, LedgerGrows, NEW a \in AccountIDs, NEW kind,
           IsKind(a, kind)
    PROVE  /\ accounts[a] # None
           /\ IsKind(a, kind)'
           /\ accounts'[a].parent = accounts[a].parent
  <1>1. accounts[a] # None
    BY DEF IsKind, Usable
  <1> QED
    BY <1>1, UsableStable DEF IsKind

\* A transfer that follows the recipe of its code still does when the ledger
\* has grown.
LEMMA RecipeStable ==
    ASSUME LedgerTypeOK, LedgerGrows, NEW t \in Transfer, Recipe(t)
    PROVE  Recipe(t)'
  <1>1. t.debit \in AccountIDs /\ t.credit \in AccountIDs
    BY DEF Transfer
  <1>2. Cash \in AccountIDs /\ Settlement \in AccountIDs
    BY DEF AccountIDs
  <1>3. \A a \in AccountIDs, kind \in Kinds : IsKind(a, kind) =>
            IsKind(a, kind)' /\ accounts'[a].parent = accounts[a].parent
    BY IsKindStable
  <1>4. t.code = "authorization_increment" =>
            transfers'[t.group] = transfers[t.group]
    BY DEF Recipe, LedgerGrows
  <1> QED
    BY <1>1, <1>2, <1>3, <1>4 DEF Recipe, Kinds

\* An account command that is fit to be submitted stays fit.
LEMMA AccountRequestStable ==
    ASSUME LedgerTypeOK, LedgerGrows, NEW account, AccountRequestOK(account)
    PROVE  AccountRequestOK(account)'
  BY IsKindStable DEF AccountRequestOK

HandlerRecord == [pc : Places, req : Requests \cup {None},
                  original : Transfer \cup {None},
                  transfer : Transfer \cup {None},
                  status : Statuses \cup {None}]

\* What a handler has learnt from the ledger stays true when the ledger grows.
LEMMA HandlerStable ==
    ASSUME LedgerTypeOK, LedgerGrows, NEW h \in HandlerRecord,
           NEW i \in Instances, HandlerOK(h, i),
           instance[i].phase = "up" => instance'[i].phase = "up"
    PROVE  HandlerOK(h, i)'
  <1>1. CASE h.pc = "idle"
    BY <1>1 DEF HandlerOK
  <1>2. CASE h.pc # "idle"
    <2> DEFINE r == h.req
    <2>1. HandlerServes(h, i) /\ HandlerKnows(h) /\ HandlerSubmitted(h)
      BY <1>2 DEF HandlerOK
    <2>2. HandlerServes(h, i)'
      BY <2>1 DEF HandlerServes
    <2>3. r \in Requests /\ ValidRequest(r)
      BY <2>1 DEF HandlerServes
    <2>4. \A a \in AccountIDs, kind \in Kinds : IsKind(a, kind) => IsKind(a, kind)'
      BY IsKindStable
    <2>5. HandlerKnows(h)'
      <3>1. r.op \in Moves => r.account \in AccountIDs
        BY <2>3, ValidRequestFacts DEF AccountIDs
      <3>2. r.op = "create_account" /\ r.kind = "card_wallet" => r.parent \in AccountIDs
        BY <2>3, ValidRequestFacts DEF AccountIDs
      <3>3. r.op = "authorization" => r.card \in AccountIDs
        BY <2>3, ValidRequestFacts DEF AccountIDs
      <3>4. r.op = "authorization_increment" => r.auth \in TransferIDs
        BY <2>3, ValidRequestFacts
      <3>5. r.op = "authorization_increment" /\ h.pc # "original" =>
                transfers'[r.auth] = transfers[r.auth]
        BY <2>1, <3>4 DEF HandlerKnows, LedgerGrows
      <3> QED
        BY <2>1, <2>4, <3>1, <3>2, <3>3, <3>5 DEF HandlerKnows, Kinds
    <2>6. HandlerSubmitted(h)'
      <3>1. h.pc \in {"waiting", "result", "drift"} => Recipe(h.transfer)'
        BY <2>1, RecipeStable DEF HandlerSubmitted, HandlerRecord
      <3>2. h.pc = "result" => r.id \in TransferIDs
        BY <2>1, <2>3, ValidRequestFacts DEF HandlerServes, OperationsAt
      <3>3. h.pc = "result" /\ transfers[r.id] # None =>
                transfers'[r.id] = transfers[r.id]
        BY <3>2 DEF LedgerGrows
      <3>4. h.pc = "created" => r.account \in AccountIDs
        BY <2>1, <2>3, ValidRequestFacts
        DEF HandlerServes, OperationsAt, AccountIDs
      <3>5. h.pc = "created" /\ accounts[r.account] # None =>
                /\ accounts'[r.account] # None
                /\ SameAccount(accounts'[r.account], accounts[r.account])
        BY <3>4 DEF LedgerGrows
      <3>6. h.pc \in {"waiting", "result", "drift"} =>
                h.transfer # None /\ Recipe(h.transfer)' /\ Fulfils(h.transfer, r)
        BY <2>1, <3>1 DEF HandlerSubmitted
      <3>7. h.pc = "result" =>
                /\ h.status \in Statuses
                /\ h.status \in {"created", "exists"} =>
                       transfers'[r.id] # None /\ Fulfils(transfers'[r.id], r)
                /\ h.status \in {"exceeds_credits", "exceeds_debits",
                                 "id_already_failed"} => r.id \in failed'
                /\ h.status \notin {"accounts_must_be_different",
                                    "account_not_found", "ledger_mismatch"}
        BY <2>1, <3>3 DEF HandlerSubmitted, LedgerGrows
      <3>8. h.pc = "created" =>
                /\ h.status \in {"created", "exists", "exists_with_different"}
                /\ h.status \in {"created", "exists"} =>
                       /\ accounts'[r.account] # None
                       /\ SameAccount(accounts'[r.account], RequestedAccount(r))
        BY <2>1, <3>5 DEF HandlerSubmitted, SameAccount
      <3> QED
        BY <3>6, <3>7, <3>8 DEF HandlerSubmitted
    <2> QED
      BY <1>2, <2>2, <2>5, <2>6 DEF HandlerOK
  <1> QED
    BY <1>1, <1>2

-----------------------------------------------------------------------------
(***************************************************************************)
(* Steps of the ledger keep its invariant.                                 *)
(***************************************************************************)
LedgerInv == LedgerTypeOK /\ LedgerOK /\ CardsHaveCorporateParent

\* No account appears.
LEMMA ParentsStable ==
    ASSUME LedgerTypeOK, LedgerGrows, CardsHaveCorporateParent,
           \A a \in AccountIDs : accounts'[a] # None => accounts[a] # None
    PROVE  CardsHaveCorporateParent'
  <1> SUFFICES ASSUME NEW a \in AccountIDs, \A found \in Preexisting : found[a] = None,
                      IsKind(a, "card_wallet")'
               PROVE  IsKind(accounts[a].parent, "corporate_wallet")'
    BY DEF CardsHaveCorporateParent
  <1>1. accounts[a] # None
    BY DEF IsKind, Usable
  <1>2. Usable(a)' = Usable(a) /\ accounts'[a].parent = accounts[a].parent
    BY <1>1, UsableStable
  <1>3. IsKind(a, "card_wallet")
    BY <1>2 DEF IsKind
  <1>4. IsKind(accounts[a].parent, "corporate_wallet")
    BY <1>3 DEF CardsHaveCorporateParent
  <1>5. accounts[a] \in Account
    BY <1>1 DEF LedgerTypeOK
  <1>6. ParentAllowed("card_wallet", accounts[a].id, accounts[a].parent)
    BY <1>1, <1>3, <1>5, MetadataFacts DEF IsKind, Usable
  <1>7. accounts[a].parent \in AccountIDs
    BY <1>5, <1>6 DEF ParentAllowed, Account
  <1> QED
    BY <1>2, <1>4, <1>7, IsKindStable

\* A step that leaves the ledger alone keeps its invariant.
LEMMA LedgerUnchanged ==
    ASSUME LedgerInv, UNCHANGED ledgerVars
    PROVE  LedgerInv' /\ LedgerGrows
  <1>1. LedgerGrows
    BY DEF LedgerGrows, ledgerVars, SameAccount
  <1>2. LedgerTypeOK'
    BY DEF LedgerInv, LedgerTypeOK, ledgerVars
  <1>3. LedgerOK'
    <2>1. \A id \in TransferIDs : transfers[id] # None => Recipe(transfers[id])'
      <3> TAKE id \in TransferIDs
      <3> HAVE transfers[id] # None
      <3>1. transfers[id] \in Transfer /\ Recipe(transfers[id])
        BY DEF LedgerInv, LedgerTypeOK, LedgerOK
      <3>2. PICK t \in Transfer : t = transfers[id]
        BY <3>1
      <3>3. t = transfers'[id]
        BY <3>2 DEF ledgerVars
      <3>4. Recipe(t)'
        BY <1>1, <3>1, <3>2, RecipeStable DEF LedgerInv
      <3> QED
        BY <3>2, <3>3, <3>4
    <2> QED
      BY <2>1 DEF LedgerInv, LedgerOK, ledgerVars
  <1>4. CardsHaveCorporateParent'
    BY <1>1, ParentsStable DEF LedgerInv, ledgerVars
  <1> QED
    BY <1>1, <1>2, <1>3, <1>4 DEF LedgerInv

\* The accounts of a recipe exist, differ and are of the service's ledger.
LEMMA RecipeAccounts ==
    ASSUME LedgerTypeOK, LedgerOK, NEW t \in Transfer, Recipe(t)
    PROVE  /\ t.debit # t.credit
           /\ accounts[t.debit] # None /\ accounts[t.credit] # None
           /\ accounts[t.debit].ledger = LedgerID
           /\ accounts[t.credit].ledger = LedgerID
  <1>1. t.debit \in AccountIDs /\ t.credit \in AccountIDs /\ t.code \in TransferCodes
    BY DEF Transfer
  <1>2. \A a \in AccountIDs, kind \in Kinds : IsKind(a, kind) =>
            /\ accounts[a] # None
            /\ accounts[a].ledger = LedgerID
            /\ KindFitsID(kind, a)
            /\ ParentAllowed(kind, a, accounts[a].parent)
    BY MetadataFacts DEF IsKind, Usable, LedgerTypeOK, LedgerOK
  <1>3. \E dk, ck \in Kinds :
            /\ IsKind(t.debit, dk) /\ IsKind(t.credit, ck) /\ dk # ck
    BY <1>1 DEF Recipe, TransferCodes, Kinds, Holds
  <1>4. \A a \in AccountIDs, j, k \in Kinds :
            IsKind(a, j) /\ IsKind(a, k) => j = k
    BY DEF IsKind
  <1> QED
    BY <1>1, <1>2, <1>3, <1>4

\* The ledger keeps its invariant when it commits a transfer made by recipe
\* (CreateTransfer in Authorize, IncrementAuthorization, executeTransaction).
LEMMA CreateTransferOK ==
    ASSUME LedgerInv, NEW t \in Transfer, Recipe(t), CreateTransfer(t)
    PROVE  /\ LedgerInv'
           /\ LedgerGrows
           /\ TransferStatus(t) \in Statuses
           /\ TransferStatus(t) \notin {"accounts_must_be_different",
                                        "account_not_found", "ledger_mismatch"}
           /\ TransferStatus(t) \in {"created", "exists"} =>
                  /\ transfers'[t.id] # None
                  /\ SameTransferExceptTimeout(transfers'[t.id], t)
           /\ TransferStatus(t) \in {"exceeds_credits", "exceeds_debits",
                                     "id_already_failed"} => t.id \in failed'
  <1>1. /\ LedgerTypeOK'
        /\ LedgerGrows
        /\ \A a \in AccountIDs : accounts'[a] # None =>
               accounts[a] # None /\ accounts'[a].id = a /\ WithinLimits(accounts'[a])
        /\ TransferStatus(t) = "created" =>
               /\ t.id \notin failed
               /\ transfers[t.id] = None
               /\ failed' = failed
               /\ transfers' = [transfers EXCEPT
                                   ![t.id] = [t EXCEPT !.timestamp = now]]
        /\ TransferStatus(t) # "created" => transfers' = transfers
        /\ \A id \in failed' : id \in failed \/ transfers'[id] = None
    BY CreateTransferFacts DEF LedgerInv, LedgerOK
  <1>2. CardsHaveCorporateParent'
    BY <1>1, ParentsStable DEF LedgerInv
  <1>3. t.id \in TransferIDs
    BY DEF Transfer
  <1>4. PICK n \in Nat : n = now
    BY DEF LedgerInv, LedgerTypeOK
  <1>5. [t EXCEPT !.timestamp = n] \in Transfer /\ Recipe([t EXCEPT !.timestamp = n])
    BY DEF Transfer, Recipe
  <1>6. Recipe([t EXCEPT !.timestamp = n])'
    BY <1>1, <1>5, RecipeStable DEF LedgerInv
  <1>7. ASSUME NEW id \in TransferIDs, transfers[id] # None
        PROVE  /\ transfers'[id] = transfers[id]
               /\ transfers[id].id = id
               /\ id \notin failed'
               /\ Recipe(transfers[id])'
    <2>1. transfers'[id] = transfers[id]
      BY <1>1, <1>7 DEF LedgerGrows
    <2>2. transfers[id] \in Transfer /\ Recipe(transfers[id])
          /\ id \notin failed /\ transfers[id].id = id
      BY <1>7 DEF LedgerInv, LedgerTypeOK, LedgerOK
    <2>3. PICK u \in Transfer : u = transfers[id]
      BY <2>2
    <2>4. Recipe(u)'
      BY <1>1, <2>2, <2>3, RecipeStable DEF LedgerInv
    <2> QED
      BY <1>1, <1>7, <2>1, <2>2, <2>3, <2>4
  <1>8. ASSUME NEW id \in TransferIDs, transfers[id] = None, transfers'[id] # None
        PROVE  /\ transfers'[id].id = id
               /\ id \notin failed'
               /\ Recipe(transfers[id])'
    <2>1. TransferStatus(t) = "created" /\ id = t.id
      BY <1>1, <1>3, <1>8 DEF LedgerInv, LedgerTypeOK
    <2>2. transfers'[id] = [t EXCEPT !.timestamp = n] /\ id \notin failed'
      BY <1>1, <1>3, <1>4, <2>1 DEF LedgerInv, LedgerTypeOK
    <2>3. transfers'[id].id = id
      BY <2>1, <2>2 DEF Transfer
    <2> QED
      BY <1>6, <2>2, <2>3
  <1>9. LedgerOK'
    BY <1>1, <1>7, <1>8 DEF LedgerOK
  <1>10. NewStatus(t) \in {"created", "exceeds_credits", "exceeds_debits"}
    BY RecipeAccounts DEF LedgerInv, NewStatus
  <1>11. \A u \in Transfer :
             /\ ExistsStatus(u, t) \in {"exists", "exists_with_different",
                                        "exists_with_different_timeout"}
             /\ ExistsStatus(u, t) = "exists" => SameTransferExceptTimeout(u, t)
    BY DEF ExistsStatus, SameTransfer
  <1>12. transfers[t.id] # None => transfers[t.id] \in Transfer
    BY <1>3 DEF LedgerInv, LedgerTypeOK
  <1>13. TransferStatus(t) \in {"created", "exceeds_credits", "exceeds_debits",
             "exists", "exists_with_different", "exists_with_different_timeout",
             "id_already_failed"}
    BY <1>10, <1>11, <1>12 DEF TransferStatus
  <1>14. TransferStatus(t) = "exists" =>
             transfers[t.id] # None /\ SameTransferExceptTimeout(transfers[t.id], t)
    BY <1>10, <1>11, <1>12 DEF TransferStatus
  <1>15. TransferStatus(t) = "created" =>
             /\ transfers'[t.id] # None
             /\ SameTransferExceptTimeout(transfers'[t.id], t)
    <2> SUFFICES ASSUME TransferStatus(t) = "created"
                 PROVE  /\ transfers'[t.id] # None
                        /\ SameTransferExceptTimeout(transfers'[t.id], t)
      OBVIOUS
    <2>1. transfers'[t.id] = [t EXCEPT !.timestamp = n]
      BY <1>1, <1>3, <1>4 DEF LedgerInv, LedgerTypeOK
    <2>2. SameTransferExceptTimeout([t EXCEPT !.timestamp = n], t)
      BY DEF SameTransferExceptTimeout, Transfer
    <2> QED
      BY <1>5, <2>1, <2>2, NoneAssumption
  <1>16. TransferStatus(t) \in {"exceeds_credits", "exceeds_debits"} => t.id \in failed'
    BY DEF CreateTransfer, Transient
  <1>17. TransferStatus(t) = "id_already_failed" => t.id \in failed'
    BY <1>1, <1>10, <1>11, <1>12 DEF TransferStatus, LedgerGrows
  <1> QED
    BY <1>1, <1>2, <1>9, <1>13, <1>14, <1>15, <1>16, <1>17
    DEF LedgerInv, Statuses

\* The ledger keeps its invariant when it commits an account fit to be
\* submitted (CreateAccount, EnsureSystemAccounts).
LEMMA CreateAccountOK ==
    ASSUME LedgerInv, NEW account, AccountRequestOK(account),
           CreateAccount(account), UNCHANGED <<transfers, failed, expired, now>>
    PROVE  /\ LedgerInv'
           /\ LedgerGrows
           /\ AccountStatus(account) \in {"created", "exists",
                                          "exists_with_different"}
           /\ AccountUsable(AccountStatus(account)) =>
                  /\ accounts'[account.id] # None
                  /\ SameAccount(accounts'[account.id], account)
  <1>1. account \in Account /\ account.id \in AccountIDs /\ account # None
    BY NoneAssumption DEF AccountRequestOK
  <1>2. WithinLimits(account)
    BY DEF AccountRequestOK, WithinLimits
  <1>3. \A a \in AccountIDs :
            accounts'[a] = IF AccountStatus(account) = "created" /\ a = account.id
                           THEN account ELSE accounts[a]
    BY <1>1 DEF CreateAccount, LedgerInv, LedgerTypeOK
  <1>4. AccountStatus(account) = "created" => accounts[account.id] = None
    BY DEF AccountStatus
  <1>5. LedgerTypeOK'
    BY <1>1 DEF CreateAccount, LedgerInv, LedgerTypeOK
  <1>6. LedgerGrows
    BY <1>3, <1>4 DEF LedgerGrows, SameAccount
  <1>7. \A a \in AccountIDs : accounts'[a] # None =>
            accounts'[a].id = a /\ WithinLimits(accounts'[a])
    BY <1>2, <1>3 DEF LedgerInv, LedgerOK
  <1>8. \A id \in TransferIDs : transfers[id] # None => Recipe(transfers[id])'
    <2> TAKE id \in TransferIDs
    <2> HAVE transfers[id] # None
    <2>1. transfers[id] \in Transfer /\ Recipe(transfers[id])
      BY DEF LedgerInv, LedgerTypeOK, LedgerOK
    <2>2. PICK t \in Transfer : t = transfers[id]
      BY <2>1
    <2>3. Recipe(t)'
      BY <1>6, <2>1, <2>2, RecipeStable DEF LedgerInv
    <2> QED
      BY <2>2, <2>3
  <1>9. LedgerOK'
    BY <1>7, <1>8 DEF LedgerInv, LedgerOK
  <1>10. CardsHaveCorporateParent'
    <2>1. CASE AccountStatus(account) # "created"
      <3>1. \A a \in AccountIDs : accounts'[a] # None => accounts[a] # None
        BY <1>3, <2>1
      <3> QED
        BY <1>6, <3>1, ParentsStable DEF LedgerInv
    <2>2. CASE AccountStatus(account) = "created"
      <3> SUFFICES ASSUME NEW a \in AccountIDs, \A found \in Preexisting : found[a] = None,
                          IsKind(a, "card_wallet")'
                   PROVE  IsKind(accounts[a].parent, "corporate_wallet")'
        BY DEF CardsHaveCorporateParent
      <3>1. CASE a = account.id
        <4>1. accounts'[a] = account
          BY <1>3, <2>2, <3>1
        <4>2. account.code = "card_wallet"
          BY <1>1, <4>1, MetadataFacts DEF IsKind, Usable
        <4>3. /\ account.parent \in AccountIDs
              /\ IsKind(account.parent, "corporate_wallet")
          BY <4>2 DEF AccountRequestOK
        <4>4. IsKind(account.parent, "corporate_wallet")'
          BY <1>6, <4>3, IsKindStable DEF LedgerInv
        <4> QED
          BY <4>1, <4>4
      <3>2. CASE a # account.id
        <4>1. accounts'[a] = accounts[a]
          BY <1>3, <3>2
        <4>2. IsKind(a, "card_wallet")
          BY <4>1 DEF IsKind, Usable
        <4>3. IsKind(accounts[a].parent, "corporate_wallet")
          BY <4>2 DEF LedgerInv, CardsHaveCorporateParent
        <4>4. accounts[a] \in Account /\ accounts[a] # None
          BY <4>2 DEF IsKind, Usable, LedgerInv, LedgerTypeOK
        <4>5. ParentAllowed("card_wallet", accounts[a].id, accounts[a].parent)
          BY <4>2, <4>4, MetadataFacts DEF IsKind, Usable
        <4>6. accounts[a].parent \in AccountIDs
          BY <4>4, <4>5 DEF ParentAllowed, Account
        <4> QED
          BY <1>6, <4>1, <4>3, <4>6, IsKindStable DEF LedgerInv
      <3> QED
        BY <3>1, <3>2
    <2> QED
      BY <2>1, <2>2
  <1>11. AccountStatus(account) \in {"created", "exists", "exists_with_different"}
    BY DEF AccountStatus
  <1>12. AccountUsable(AccountStatus(account)) =>
             /\ accounts'[account.id] # None
             /\ SameAccount(accounts'[account.id], account)
    BY <1>1, <1>3 DEF AccountUsable, AccountStatus, SameAccount
  <1> QED
    BY <1>5, <1>6, <1>9, <1>10, <1>11, <1>12 DEF LedgerInv

\* A hold that lapses gives back what it held; the balances stay in limits.
LEMMA LedgerStepOK ==
    ASSUME LedgerInv, LedgerStep
    PROVE  LedgerInv' /\ LedgerGrows
  <1>1. CASE Tick
    <2>1. LedgerGrows
      BY <1>1 DEF Tick, LedgerGrows, SameAccount
    <2>2. LedgerTypeOK'
      BY <1>1 DEF Tick, LedgerInv, LedgerTypeOK
    <2>3. \A t \in Transfer : Recipe(t) => Recipe(t)'
      BY <2>1, RecipeStable DEF LedgerInv
    <2>4. LedgerOK'
      BY <1>1, <2>3 DEF Tick, LedgerInv, LedgerTypeOK, LedgerOK
    <2> QED
      BY <1>1, <2>1, <2>2, <2>4, ParentsStable DEF Tick, LedgerInv
  <1>2. ASSUME NEW id \in TransferIDs, ExpireTransfer(id)
        PROVE  LedgerInv' /\ LedgerGrows
    <2> DEFINE t == transfers[id]
               d == accounts[t.debit]
               c == accounts[t.credit]
               nd == [d EXCEPT !.debitsPending = @ - t.amount]
               nc == [c EXCEPT !.creditsPending = @ - t.amount]
    <2>1. t # None /\ t \in Transfer /\ Recipe(t)
      BY <1>2 DEF ExpireTransfer, LedgerInv, LedgerTypeOK, LedgerOK
    <2>2. t.debit # t.credit /\ d # None /\ c # None
      BY <2>1, RecipeAccounts DEF LedgerInv
    <2>3. /\ t.debit \in AccountIDs /\ t.credit \in AccountIDs /\ t.amount \in Nat
          /\ d \in Account /\ c \in Account
      BY <2>1, <2>2 DEF Transfer, LedgerInv, LedgerTypeOK
    <2>4. /\ accounts' = [accounts EXCEPT ![t.debit] = nd, ![t.credit] = nc]
          /\ expired' = expired \cup {id}
          /\ UNCHANGED <<transfers, failed, now>>
      BY Zenon, <1>2, <2>2, <2>3 DEF ExpireTransfer, LedgerInv, LedgerTypeOK
    <2>5. WithinLimits(d) /\ WithinLimits(c) /\ d.id = t.debit /\ c.id = t.credit
      BY <2>2, <2>3 DEF LedgerInv, LedgerOK
    <2>6. /\ nd \in Account /\ nc \in Account
          /\ nd.id = t.debit /\ nc.id = t.credit
          /\ SameAccount(nd, d) /\ SameAccount(nc, c)
          /\ WithinLimits(nd) /\ WithinLimits(nc)
      BY SMTT(20), <2>3, <2>5 DEF Account, SameAccount, WithinLimits
    <2>7. \A a \in AccountIDs :
              accounts'[a] = IF a = t.debit THEN nd
                             ELSE IF a = t.credit THEN nc ELSE accounts[a]
      BY <2>2, <2>3, <2>4 DEF LedgerInv, LedgerTypeOK
    <2>8. nd # None /\ nc # None
      BY <2>6, NoneAssumption
    <2> HIDE DEF nd, nc
    <2>9. LedgerTypeOK'
      BY <2>3, <2>4, <2>6 DEF LedgerInv, LedgerTypeOK
    <2>10. \A a \in AccountIDs : SameAccount(accounts[a], accounts[a])
      BY DEF SameAccount
    <2>11. LedgerGrows
      BY Zenon, <2>4, <2>5, <2>6, <2>7, <2>8, <2>10 DEF LedgerGrows
    <2>12. \A a \in AccountIDs : accounts'[a] # None =>
               accounts[a] # None /\ accounts'[a].id = a /\ WithinLimits(accounts'[a])
      BY <2>2, <2>6, <2>7 DEF LedgerInv, LedgerOK
    <2>13. \A u \in Transfer : Recipe(u) => Recipe(u)'
      BY <2>11, RecipeStable DEF LedgerInv
    <2>14. LedgerOK'
      BY <2>4, <2>12, <2>13 DEF LedgerInv, LedgerTypeOK, LedgerOK
    <2> QED
      BY <2>9, <2>11, <2>12, <2>14, ParentsStable DEF LedgerInv
  <1> QED
    BY <1>1, <1>2 DEF LedgerStep

-----------------------------------------------------------------------------
(***************************************************************************)
(* The parts of the invariant a step is shown to keep one by one.          *)
(***************************************************************************)
LateInv ==
    /\ lateTransfers \subseteq Transfer
    /\ lateAccounts \subseteq Account
    /\ LateOK

CacheInv ==
    /\ cache \in [Instances -> [AccountIDs -> Metadata \cup {None}]]
    /\ CacheCoherent

InstanceInv ==
    /\ instance \in [Instances -> [phase : Phases, riskLimit : Nat, timeout : Nat]]
    /\ SystemAccountsReady
    /\ CashProvisioned

HandlerInv ==
    /\ handler \in [Handlers -> HandlerRecord]
    /\ HandlersOK

ReplyInv ==
    /\ reply \in Reply \cup {None}
    /\ declined \subseteq Requests
    /\ SuccessIsCommitted
    /\ RejectionIsFinal

\* The invariant is the conjunction of the invariants of its parts.
LEMMA Parts ==
    IInv <=> /\ LedgerInv /\ LateInv /\ CacheInv /\ InstanceInv
             /\ HandlerInv /\ ReplyInv
  BY DEF IInv, TypeOK, LedgerInv, LedgerTypeOK, LateInv, CacheInv, InstanceInv,
         HandlerInv, HandlerRecord, ReplyInv

\* The same of the next state.
LEMMA PartsNext ==
    ASSUME LedgerInv', LateInv', CacheInv', InstanceInv', HandlerInv', ReplyInv'
    PROVE  IInv'
  BY DEF IInv, TypeOK, LedgerInv, LedgerTypeOK, LateInv, CacheInv, InstanceInv,
         HandlerInv, HandlerRecord, ReplyInv

\* Commands still under way stay fit to commit when the ledger grows.
LEMMA LateStable ==
    ASSUME LedgerInv, LateInv, LedgerGrows,
           lateTransfers' \subseteq lateTransfers,
           lateAccounts' \subseteq lateAccounts
    PROVE  LateInv'
  <1>1. \A t \in lateTransfers : Recipe(t)'
    BY RecipeStable DEF LedgerInv, LateInv, LateOK
  <1>2. \A account \in lateAccounts : AccountRequestOK(account)'
    BY AccountRequestStable DEF LedgerInv, LateInv, LateOK
  <1> QED
    BY <1>1, <1>2 DEF LateInv, LateOK

\* What is cached stays right, whether or not some of it is forgotten.
LEMMA CacheStable ==
    ASSUME LedgerInv, CacheInv, LedgerGrows
    PROVE  \A i \in Instances, a \in AccountIDs :
               cache[i][a] # None => cache[i][a] = Usable(a)'
  <1> SUFFICES ASSUME NEW i \in Instances, NEW a \in AccountIDs,
                      cache[i][a] # None
               PROVE  cache[i][a] = Usable(a)'
    OBVIOUS
  <1>1. cache[i][a] = Usable(a)
    BY DEF CacheInv, CacheCoherent
  <1>2. accounts[a] # None
    BY <1>1 DEF Usable
  <1> QED
    BY <1>1, <1>2, UsableStable DEF LedgerInv

\* Storing into the cache leaves every entry as it was, forgets it, or makes it
\* the one stored.
LEMMA StoredFacts ==
    ASSUME NEW c \in [AccountIDs -> Metadata \cup {None}],
           NEW a \in AccountIDs, NEW m \in Metadata, NEW s \in Stored(c, a, m, None)
    PROVE  /\ s \in [AccountIDs -> Metadata \cup {None}]
           /\ \A b \in AccountIDs : s[b] \in {c[b], None} \/ (b = a /\ s[b] = m)
  BY DEF Stored, Cached

\* rememberAccount keeps the cache coherent with the ledger.
LEMMA RememberOK ==
    ASSUME LedgerInv, CacheInv, LedgerGrows, LedgerInv',
           NEW i \in Instances, NEW account \in Account,
           account.id \in AccountIDs,
           accounts'[account.id] # None,
           SameAccount(accounts'[account.id], account),
           Remember(i, account)
    PROVE  CacheInv'
  <1> DEFINE m == MetadataForAccount(account)
  <1>1. \A j \in Instances, a \in AccountIDs :
            cache[j][a] # None => cache[j][a] = Usable(a)'
    BY CacheStable
  <1>2. CASE m = None
    BY <1>1, <1>2 DEF Remember, CacheInv, CacheCoherent
  <1>3. CASE m # None
    <2>1. m \in Metadata
      BY <1>3, MetadataFacts
    <2>2. accounts'[account.id].id = account.id
      BY DEF LedgerInv, LedgerOK
    <2>3. Usable(account.id)' = m
      BY Zenon, <2>2 DEF Usable, MetadataForAccount, SameAccount
    <2>4. PICK s \in Stored(cache[i], account.id, m, None) :
              cache' = [cache EXCEPT ![i] = s]
      BY <1>3 DEF Remember
    <2>5. cache[i] \in [AccountIDs -> Metadata \cup {None}]
      BY DEF CacheInv
    <2> HIDE DEF m
    <2>6. /\ s \in [AccountIDs -> Metadata \cup {None}]
          /\ \A b \in AccountIDs :
                 s[b] \in {cache[i][b], None} \/ (b = account.id /\ s[b] = m)
      BY <2>1, <2>4, <2>5, StoredFacts
    <2>7. cache' \in [Instances -> [AccountIDs -> Metadata \cup {None}]]
      BY <2>4, <2>6 DEF CacheInv
    <2>8. CacheCoherent'
      <3> SUFFICES ASSUME NEW j \in Instances, NEW a \in AccountIDs,
                          cache'[j][a] # None
                   PROVE  cache'[j][a] = Usable(a)'
        BY DEF CacheCoherent
      <3>1. CASE j = i
        BY <1>1, <2>3, <2>4, <2>6, <3>1 DEF CacheInv
      <3>2. CASE j # i
        BY <1>1, <2>4, <3>2 DEF CacheInv
      <3> QED
        BY <3>1, <3>2
    <2> QED
      BY Zenon, <2>7, <2>8 DEF CacheInv
  <1> QED
    BY <1>2, <1>3

\* A serving instance keeps its system accounts when the ledger grows.
LEMMA InstanceStable ==
    ASSUME LedgerInv, InstanceInv, LedgerGrows, UNCHANGED instance
    PROVE  InstanceInv'
  <1>1. Cash \in AccountIDs /\ Settlement \in AccountIDs
    BY DEF AccountIDs
  <1>2. /\ IsKind(Cash, "safeguarded_cash") => IsKind(Cash, "safeguarded_cash")'
        /\ IsKind(Settlement, "card_settlement_payable") =>
               IsKind(Settlement, "card_settlement_payable")'
    BY <1>1, IsKindStable DEF LedgerInv
  <1> QED
    BY <1>2 DEF InstanceInv, SystemAccountsReady, CashProvisioned

\* A step of the handler p alone, to a record that is right for it.
HandlerMove(p) ==
    \E h \in HandlerRecord :
        /\ handler' = [handler EXCEPT ![p] = h]
        /\ HandlerOK(h, Home[p])'

\* Handlers that do not move keep their invariant when the ledger grows.
LEMMA HandlersStable ==
    ASSUME LedgerInv, HandlerInv, LedgerGrows, UNCHANGED instance,
           \/ UNCHANGED handler
           \/ \E p \in Handlers : HandlerMove(p)
    PROVE  HandlerInv'
  <1>1. \A p \in Handlers : HandlerOK(handler[p], Home[p]) /\ Home[p] \in Instances
                            /\ handler[p] \in HandlerRecord
    BY ServiceAssumption DEF HandlerInv, HandlersOK
  <1>2. \A h \in HandlerRecord, i \in Instances :
            HandlerOK(h, i) => HandlerOK(h, i)'
    BY HandlerStable DEF LedgerInv
  <1>3. CASE UNCHANGED handler
    BY <1>1, <1>2, <1>3 DEF HandlerInv, HandlersOK
  <1>4. ASSUME NEW p \in Handlers, HandlerMove(p)
        PROVE  HandlerInv'
    <2>1. PICK h \in HandlerRecord :
              handler' = [handler EXCEPT ![p] = h] /\ HandlerOK(h, Home[p])'
      BY Zenon, <1>4 DEF HandlerMove
    <2>2. handler' \in [Handlers -> HandlerRecord]
      BY <2>1 DEF HandlerInv
    <2>3. \A q \in Handlers : handler'[q] = IF q = p THEN h ELSE handler[q]
      BY <2>1 DEF HandlerInv
    <2>4. \A q \in Handlers : HandlerOK(handler[q], Home[q])'
      <3> TAKE q \in Handlers
      <3>1. CASE q = p
        BY <2>1, <2>3, <3>1
      <3>2. CASE q # p
        <4>1. PICK g \in HandlerRecord : g = handler[q]
          BY <1>1
        <4>2. HandlerOK(g, Home[q])'
          BY <1>1, <1>2, <4>1
        <4> QED
          BY <2>3, <3>2, <4>1, <4>2
      <3> QED
        BY <3>1, <3>2
    <2> QED
      BY <2>2, <2>4 DEF HandlerInv, HandlersOK
  <1> QED
    BY <1>3, <1>4

-----------------------------------------------------------------------------
(***************************************************************************)
(* Ways a handler goes on.                                                 *)
(***************************************************************************)
LEMMA HandlerFacts ==
    ASSUME IInv, NEW p \in Handlers, handler[p].pc # "idle"
    PROVE  /\ Home[p] \in Instances
           /\ handler[p] \in HandlerRecord
           /\ handler[p].req \in Requests
           /\ handler[p].req # None
           /\ handler[p].req \in Request
           /\ ValidRequest(handler[p].req)
           /\ HandlerServes(handler[p], Home[p])
           /\ HandlerKnows(handler[p])
           /\ HandlerSubmitted(handler[p])
           /\ IsKind(Cash, "safeguarded_cash")
           /\ IsKind(Settlement, "card_settlement_payable")
  <1>1. Home[p] \in Instances /\ handler[p] \in HandlerRecord
        /\ HandlerOK(handler[p], Home[p])
    BY ServiceAssumption, Parts DEF HandlerInv, HandlersOK
  <1>2. /\ HandlerServes(handler[p], Home[p])
        /\ HandlerKnows(handler[p])
        /\ HandlerSubmitted(handler[p])
    BY <1>1 DEF HandlerOK
  <1>3. /\ handler[p].req \in Requests /\ ValidRequest(handler[p].req)
        /\ instance[Home[p]].phase = "up"
    BY <1>2 DEF HandlerServes
  <1>4. handler[p].req \in Request /\ handler[p].req # None
    BY <1>3, ServiceAssumption
  <1>5. IsKind(Cash, "safeguarded_cash") /\ IsKind(Settlement, "card_settlement_payable")
    BY <1>1, <1>3, Parts DEF InstanceInv, SystemAccountsReady
  <1> QED
    BY Zenon, <1>1, <1>2, <1>3, <1>4, <1>5

\* A step that answers nobody leaves no answer to be wrong.
LEMMA QuietOK ==
    ASSUME ReplyInv, Quiet
    PROVE  ReplyInv'
  BY DEF ReplyInv, Quiet, SuccessIsCommitted, RejectionIsFinal

\* A handler that waits for a request satisfies the invariant.
LEMMA IdleOK == Idle \in HandlerRecord /\ \A i : HandlerOK(Idle, i)
  BY DEF Idle, HandlerRecord, Places, HandlerOK

\* The handler answers: an outcome the ledger bears out, then idle.
LEMMA AnswerOK ==
    ASSUME IInv, NEW p \in Handlers, handler[p].pc # "idle",
           NEW outcome \in Outcomes, NEW logged \in BOOLEAN,
           Finish(p, outcome, logged) \/ Decline(p, outcome, logged),
           outcome \in {"posted", "approved"} =>
               /\ transfers'[handler[p].req.id] # None
               /\ Fulfils(transfers'[handler[p].req.id], handler[p].req),
           outcome \in {"insufficient_funds", "previous_attempt_failed"} =>
               /\ handler[p].req.id \in failed'
               /\ transfers'[handler[p].req.id] = None
    PROVE  HandlerMove(p) /\ ReplyInv'
  <1> DEFINE r == handler[p].req
             answer == [req |-> r, outcome |-> outcome,
                        submitted |-> handler[p].transfer # None, logged |-> logged]
  <1>1. r \in Requests /\ r \in Request
    BY Zenon, HandlerFacts
  <1>2. /\ handler' = [handler EXCEPT ![p] = Idle]
        /\ reply' = answer
        /\ declined' \subseteq declined \cup {r}
    BY Zenon DEF Finish, Decline, Answer, Respond
  <1>3. answer \in Reply
    <2>1. (handler[p].transfer # None) \in BOOLEAN
      OBVIOUS
    <2> QED
      BY Zenon, <1>1, <2>1 DEF Reply
  <1>4. HandlerMove(p)
    <2>1. Idle \in HandlerRecord
      BY Zenon, IdleOK
    <2>2. HandlerOK(Idle, Home[p])'
      BY Zenon DEF HandlerOK, Idle
    <2> QED
      BY Zenon, <1>2, <2>1, <2>2 DEF HandlerMove
  <1>5. reply' \in Reply \cup {None} /\ declined' \subseteq Requests
    BY Zenon, <1>1, <1>2, <1>3, Parts DEF ReplyInv
  <1>6. reply'.req = r /\ reply'.outcome = outcome
    BY Zenon, <1>2
  <1>7. outcome \in {"posted", "approved"} => r.id # None
    <2>1. ASSUME NEW t, Fulfils(t, r) PROVE r.op \in TransferCodes
      BY <2>1 DEF Fulfils, TransferCodes
    <2>2. r.op \in TransferCodes => r.id \in TransferIDs
      BY Zenon, HandlerFacts, ValidRequestFacts
    <2> QED
      BY Zenon, <2>1, <2>2, NoneAssumption
  <1>8. SuccessIsCommitted' /\ RejectionIsFinal'
    BY Zenon, <1>6, <1>7 DEF SuccessIsCommitted, RejectionIsFinal
  <1> QED
    BY <1>4, <1>5, <1>8 DEF ReplyInv

\* The handler goes on to a record that is right for it in an unchanged ledger.
LEMMA MoveOK ==
    ASSUME IInv, NEW p \in Handlers, NEW h \in HandlerRecord,
           HandlerOK(h, Home[p]),
           handler' = [handler EXCEPT ![p] = h],
           UNCHANGED <<ledgerVars, instance>>
    PROVE  HandlerMove(p)
  <1>1. Home[p] \in Instances
    BY ServiceAssumption
  <1>2. LedgerInv /\ LedgerGrows
    BY Parts, LedgerUnchanged
  <1>3. HandlerOK(h, Home[p])'
    BY Zenon, <1>1, <1>2, HandlerStable DEF LedgerInv
  <1> QED
    BY Zenon, <1>3 DEF HandlerMove

\* A transfer of the request's recipe is submitted.
LEMMA SubmitOK ==
    ASSUME IInv, NEW p \in Handlers, handler[p].pc \notin {"idle", "original"},
           handler[p].req.op \in TransferCodes,
           NEW t \in Transfer, Recipe(t), Fulfils(t, handler[p].req),
           Submit(p, t), UNCHANGED <<ledgerVars, instance>>
    PROVE  HandlerMove(p) /\ ReplyInv'
  <1> DEFINE h == [handler[p] EXCEPT !.pc = "waiting", !.transfer = t]
  <1>1. /\ handler[p] \in HandlerRecord
        /\ HandlerServes(handler[p], Home[p])
        /\ HandlerKnows(handler[p])
    BY Zenon, HandlerFacts
  <1>2. handler' = [handler EXCEPT ![p] = h]
    BY Zenon, Parts DEF Submit, HandlerInv
  <1>3. h \in HandlerRecord
    BY Zenon, <1>1 DEF HandlerRecord, Places
  <1>4. /\ h.pc = "waiting" /\ h.req = handler[p].req
        /\ h.original = handler[p].original /\ h.transfer = t
    BY <1>1 DEF HandlerRecord
  <1> HIDE DEF h
  <1>5. HandlerServes(h, Home[p])
    BY <1>1, <1>4 DEF HandlerServes, OperationsAt
  <1>6. HandlerKnows(h)
    BY Zenon, <1>1, <1>4 DEF HandlerKnows, AtCard
  <1>7. HandlerSubmitted(h)
    BY Zenon, <1>4, NoneAssumption DEF HandlerSubmitted
  <1>8. HandlerOK(h, Home[p])
    BY Zenon, <1>4, <1>5, <1>6, <1>7 DEF HandlerOK
  <1> QED
    BY Zenon, <1>2, <1>3, <1>8, MoveOK, QuietOK, Parts DEF Submit

\* The handler changes its place and nothing else.
LEMMA GotoOK ==
    ASSUME IInv, NEW p \in Handlers, handler[p].pc # "idle",
           NEW place \in Places, Goto(p, place), Quiet,
           HandlerOK([handler[p] EXCEPT !.pc = place], Home[p]),
           UNCHANGED <<ledgerVars, instance>>
    PROVE  HandlerMove(p) /\ ReplyInv'
  <1> DEFINE h == [handler[p] EXCEPT !.pc = place]
  <1>1. h \in HandlerRecord
    BY HandlerFacts DEF HandlerRecord
  <1>2. handler' = [handler EXCEPT ![p] = h]
    BY Parts DEF Goto, HandlerInv
  <1> QED
    BY Zenon, <1>1, <1>2, MoveOK, QuietOK, Parts

\* The whole invariant, after a step of a handler.
LEMMA HandlerStepOK ==
    ASSUME IInv, NEW p \in Handlers, HandlerMove(p), ReplyInv',
           LedgerInv', LedgerGrows, LateInv', CacheInv', UNCHANGED instance
    PROVE  IInv'
  <1>1. InstanceInv'
    BY Parts, InstanceStable
  <1>2. HandlerInv'
    BY Parts, HandlersStable
  <1> QED
    BY <1>1, <1>2, PartsNext

\* ... that leaves the ledger and the commands under way alone.
LEMMA LocalStepOK ==
    ASSUME IInv, NEW p \in Handlers, HandlerMove(p), ReplyInv', 
           UNCHANGED <<ledgerVars, lateVars, instance, cache>>
    PROVE  IInv'
  <1>1. LedgerInv' /\ LedgerGrows
    BY Parts, LedgerUnchanged
  <1>2. LateInv'
    BY <1>1, Parts, LateStable DEF lateVars
  <1>3. CacheInv'
    BY <1>1, Parts, CacheStable DEF CacheInv, CacheCoherent
  <1> QED
    BY <1>1, <1>2, <1>3, HandlerStepOK

-----------------------------------------------------------------------------
(***************************************************************************)
(* The recipes of the requests.                                            *)
(***************************************************************************)
LEMMA PostedOK ==
    ASSUME NEW r \in Requests, ValidRequest(r),
           r.op \in {"topup", "withdrawal"} \cup Moves,
           NEW debit \in AccountIDs, NEW credit \in AccountIDs
    PROVE  PostedTransfer(r, debit, credit) \in Transfer
  <1>1. r \in Request /\ r.id \in TransferIDs /\ r.op \in TransferCodes
    BY ValidRequestFacts DEF TransferCodes, Moves
  <1> QED
    BY <1>1 DEF PostedTransfer, Transfer, Request

\* TopUp follows the recipe of a top-up.
LEMMA TopUpOK ==
    ASSUME NEW r \in Requests, ValidRequest(r), r.op = "topup",
           IsKind(Cash, "safeguarded_cash"),
           IsKind(r.account, "corporate_wallet")
    PROVE  /\ TopUpTransfer(r) \in Transfer
           /\ Recipe(TopUpTransfer(r))
           /\ Fulfils(TopUpTransfer(r), r)
  <1>1. TopUpTransfer(r) \in Transfer
    BY PostedOK, ValidRequestFacts DEF TopUpTransfer, AccountIDs
  <1> QED
    BY <1>1 DEF TopUpTransfer, PostedTransfer, Recipe, Fulfils, Holds

\* Withdraw follows the recipe of a withdrawal.
LEMMA WithdrawalOK ==
    ASSUME NEW r \in Requests, ValidRequest(r), r.op = "withdrawal",
           IsKind(Cash, "safeguarded_cash"),
           IsKind(r.account, "corporate_wallet")
    PROVE  /\ WithdrawalTransfer(r) \in Transfer
           /\ Recipe(WithdrawalTransfer(r))
           /\ Fulfils(WithdrawalTransfer(r), r)
  <1>1. WithdrawalTransfer(r) \in Transfer
    BY PostedOK, ValidRequestFacts DEF WithdrawalTransfer, AccountIDs
  <1> QED
    BY <1>1 DEF WithdrawalTransfer, PostedTransfer, Recipe, Fulfils, Holds

\* moveCardFunds follows the recipe of an allocation or a return.
LEMMA CardMoveOK ==
    ASSUME NEW r \in Requests, ValidRequest(r), r.op \in Moves,
           IsKind(r.account, "corporate_wallet"),
           IsKind(r.card, "card_wallet"),
           accounts[r.card].parent = r.account
    PROVE  /\ CardTransfer(r) \in Transfer
           /\ Recipe(CardTransfer(r))
           /\ Fulfils(CardTransfer(r), r)
  <1>1. CardTransfer(r) \in Transfer
    BY PostedOK, ValidRequestFacts DEF CardTransfer, AccountIDs
  <1>2. CASE r.op = "card_return"
    BY <1>1, <1>2 DEF CardTransfer, PostedTransfer, Recipe, Fulfils, Holds
  <1>3. CASE r.op = "card_allocation"
    BY <1>1, <1>3 DEF CardTransfer, PostedTransfer, Recipe, Fulfils, Holds
  <1> QED
    BY Zenon, <1>2, <1>3 DEF Moves

\* Authorize follows the recipe of an authorization.
LEMMA AuthorizationOK ==
    ASSUME NEW r \in Requests, ValidRequest(r), r.op = "authorization",
           NEW seconds \in Nat,
           IsKind(r.card, "card_wallet"),
           IsKind(Settlement, "card_settlement_payable")
    PROVE  /\ AuthorizationTransfer(r, seconds) \in Transfer
           /\ Recipe(AuthorizationTransfer(r, seconds))
           /\ Fulfils(AuthorizationTransfer(r, seconds), r)
  <1>1. /\ r \in Request /\ r.id \in TransferIDs /\ r.card \in AccountIDs
        /\ r.merchant \in Merchants /\ Settlement \in AccountIDs
        /\ r.op \in TransferCodes
    BY ValidRequestFacts DEF TransferCodes, Moves, AccountIDs
  <1>2. AuthorizationTransfer(r, seconds) \in Transfer
    BY <1>1 DEF AuthorizationTransfer, Hold, Transfer, Request
  <1> QED
    BY <1>2 DEF AuthorizationTransfer, Hold, Recipe, Fulfils, Holds

\* IncrementAuthorization follows the recipe of an increment.
LEMMA IncrementOK ==
    ASSUME LedgerTypeOK, LedgerOK, NEW r \in Requests, ValidRequest(r),
           r.op = "authorization_increment", NEW seconds \in Nat,
           NEW original \in Transfer, original = transfers[r.auth],
           IsAuthorization(original)
    PROVE  /\ IncrementTransfer(r, original, seconds) \in Transfer
           /\ Recipe(IncrementTransfer(r, original, seconds))
           /\ Fulfils(IncrementTransfer(r, original, seconds), r)
  <1>1. /\ r \in Request /\ r.id \in TransferIDs /\ r.auth \in TransferIDs
        /\ r.op \in TransferCodes
    BY ValidRequestFacts DEF TransferCodes
  <1>2. original # None /\ Recipe(original)
    BY <1>1, NoneAssumption DEF LedgerOK
  <1>3. IncrementTransfer(r, original, seconds) \in Transfer
    BY <1>1 DEF IncrementTransfer, Hold, Transfer, Request
  <1>4. /\ IsKind(original.debit, "card_wallet")
        /\ IsKind(Settlement, "card_settlement_payable")
        /\ original.credit = Settlement
    BY Zenon, <1>2 DEF Recipe, IsAuthorization, Holds
  <1> QED
    BY <1>1, <1>2, <1>3, <1>4
    DEF IncrementTransfer, Hold, Recipe, Fulfils, Holds

\* Rounding up, wrapping and capping leave a natural number of seconds.
LEMMA WholeSecondsNat ==
    ASSUME NEW ticks \in Nat
    PROVE  WholeSeconds(ticks) \in Nat
  <1>1. TicksPerSecond \in Nat \ {0}
    BY TimeAssumption
  <1>2. \A n \in Nat, d \in Nat \ {0} : n \div d \in Nat
    OBVIOUS
  <1>3. ticks + TicksPerSecond - 1 \in Nat
    BY <1>1
  <1> QED
    BY <1>1, <1>2, <1>3 DEF WholeSeconds

\* The timeout of an increment is a natural number.
LEMMA RemainingSecondsNat ==
    ASSUME NEW original \in Transfer, NEW clock \in Int,
           Remaining(original, clock) > 0
    PROVE  RemainingSeconds(original, clock) \in Nat
  <1>1. TicksPerSecond \in Nat /\ original.timestamp \in Nat /\ original.timeout \in Nat
    BY TimeAssumption DEF Transfer
  <1>2. \A a, b \in Nat : a * b \in Nat
    OBVIOUS
  <1>3. Remaining(original, clock) \in Nat
    BY <1>1, <1>2 DEF Remaining, ExpiresAt
  <1>4. PICK n \in Nat : n = WholeSeconds(Remaining(original, clock))
    BY <1>3, WholeSecondsNat
  <1>5. Uint32Range \in Nat \ {0}
    BY ServiceAssumption
  <1>6. \A d \in Nat \ {0} : n % d \in Nat
    OBVIOUS
  <1> QED
    BY <1>1, <1>4, <1>5, <1>6 DEF RemainingSeconds

=============================================================================
