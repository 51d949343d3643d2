------------------------- MODULE LedgerServiceFunds -------------------------
(***************************************************************************)
(* The money in the ledger: books that balance when the service first runs *)
(* always do, holds are booked until they lapse, and cash covers what      *)
(* wallets can pay.                                                        *)
(***************************************************************************)
EXTENDS LedgerServiceProofs, SumFacts

\* What the service does not find in the books it takes over: a hold on cash.
CashUnencumbered == Usable(Cash) # None => accounts[Cash].creditsPending = 0

\* What the hold under an ID takes from an account, while it stands.
HoldOn(a, id) ==
    IF /\ transfers[id] # None
       /\ transfers[id].pending
       /\ id \notin expired
       /\ transfers[id].debit = a
    THEN transfers[id].amount ELSE 0

StandingHolds(a) == SumFunction([id \in TransferIDs |-> HoldOn(a, id)])

\* The pending debits of an account include every hold that stands on it, so a
\* hold that lapses gives back what is there.
HoldsBooked ==
    \A a \in AccountIDs : accounts[a] # None =>
        accounts[a].debitsPending >= StandingHolds(a)

-----------------------------------------------------------------------------
(***************************************************************************)
(* What a step does to the ledger.                                         *)
(***************************************************************************)
LedgerEffect ==
    \/ UNCHANGED <<accounts, transfers, expired>>
    \/ \E account : /\ AccountRequestOK(account)
                    /\ CreateAccount(account)
                    /\ UNCHANGED <<transfers, expired>>
    \/ \E t \in Transfer : Recipe(t) /\ CreateTransfer(t)
    \/ \E id \in TransferIDs : ExpireTransfer(id)

\* Whatever a step does, the ledger books nothing but accounts and transfers
\* made by recipe, and holds that lapse.
LEMMA StepEffect ==
    ASSUME IInv, [Next]_vars
    PROVE  LedgerEffect
  <1>1. CASE UNCHANGED <<accounts, transfers, expired>>
    BY <1>1 DEF LedgerEffect
  <1>2. ASSUME NEW account, AccountRequestOK(account), CreateAccount(account),
               UNCHANGED <<transfers, expired>>
        PROVE  LedgerEffect
    BY Zenon, <1>2 DEF LedgerEffect
  <1>3. ASSUME NEW p \in Handlers, CommitTransfer(p) PROVE LedgerEffect
    <2>1. handler[p].pc = "waiting" /\ CreateTransfer(handler[p].transfer)
      BY <1>3 DEF CommitTransfer
    <2>2. handler[p].transfer \in Transfer /\ Recipe(handler[p].transfer)
      BY Zenon, <2>1, HandlerFacts DEF HandlerSubmitted, HandlerRecord
    <2> QED
      BY Zenon, <2>1, <2>2 DEF LedgerEffect
  <1>4. ASSUME NEW t \in lateTransfers, CommitLateTransfer(t) PROVE LedgerEffect
    <2>1. t \in Transfer /\ Recipe(t) /\ CreateTransfer(t)
      BY <1>4, Parts DEF LateInv, LateOK, CommitLateTransfer
    <2> QED
      BY Zenon, <2>1 DEF LedgerEffect
  <1>5. ASSUME NEW p \in Handlers, CommitAccount(p) PROVE LedgerEffect
    <2> DEFINE r == handler[p].req
    <2>1. handler[p].pc = "create" /\ CreateAccount(RequestedAccount(r))
          /\ UNCHANGED <<transfers, expired>>
      BY <1>5 DEF CommitAccount
    <2>2. r \in Requests /\ ValidRequest(r) /\ HandlerServes(handler[p], Home[p])
          /\ HandlerKnows(handler[p])
      BY Zenon, <2>1, HandlerFacts
    <2>3. r.op = "create_account"
          /\ (r.kind = "card_wallet" => IsKind(r.parent, "corporate_wallet"))
      BY <2>1, <2>2 DEF HandlerServes, HandlerKnows, OperationsAt
    <2>4. AccountRequestOK(RequestedAccount(r))
      BY <2>2, <2>3, RequestedAccountOK, Parts DEF LedgerInv
    <2> QED
      BY Zenon, <1>2, <2>1, <2>4
  <1>6. ASSUME NEW account \in lateAccounts, CommitLateAccount(account)
        PROVE  LedgerEffect
    <2>1. AccountRequestOK(account)
      BY Parts DEF LateInv, LateOK
    <2> QED
      BY Zenon, <1>2, <1>6, <2>1 DEF CommitLateAccount
  <1>7. ASSUME NEW i \in Instances, Provision(i) \/ ProvisionFails(i)
        PROVE  LedgerEffect
    <2>1. instance[i].phase \in {"cash", "settlement"}
      BY <1>7 DEF Provision, ProvisionFails, Provisioning
    <2>2. AccountRequestOK(SystemAccount(instance[i].phase))
      BY <2>1, SystemAccountOK
    <2>3. /\ UNCHANGED <<transfers, expired>>
          /\ UNCHANGED accounts \/ CreateAccount(SystemAccount(instance[i].phase))
      BY Zenon, <1>7 DEF Provision, ProvisionFails
    <2> QED
      BY Zenon, <1>1, <1>2, <2>2, <2>3
  <1>8. CASE LedgerStep
    BY Zenon, <1>1, <1>8 DEF LedgerStep, Tick, LedgerEffect
  <1>9. ASSUME NEW p \in Handlers, Progress(p), ~CommitTransfer(p), ~CommitAccount(p)
        PROVE  UNCHANGED <<accounts, transfers, expired>>
    BY Zenon, <1>9 DEF Progress, LoadMetadata, LookupAccount, LookupOriginal,
       EvaluateRisk, LookupReplay, TransferResult, LookupDrift,
       AccountResult, ReadBalance, ledgerVars
  <1>10. ASSUME NEW p \in Handlers, \/ Failure(p)
                                    \/ \E r \in Requests : Receive(p, r)
         PROVE  UNCHANGED <<accounts, transfers, expired>>
    BY Zenon, <1>10 DEF Failure, CancelRisk, LookupFails, CallFails, Receive, ledgerVars
  <1>11. ASSUME NEW i \in Instances, Start(i) \/ Crash(i)
         PROVE  UNCHANGED <<accounts, transfers, expired>>
    BY Zenon, <1>11 DEF Start, Crash, ledgerVars
  <1>12. CASE UNCHANGED vars
    BY Zenon, <1>1, <1>12 DEF vars, ledgerVars
  <1> QED
    BY Zenon, <1>1, <1>3, <1>4, <1>5, <1>6, <1>7, <1>8, <1>9, <1>10, <1>11, <1>12
    DEF Next, Lifecycle

-----------------------------------------------------------------------------
(***************************************************************************)
(* What is booked on the accounts.                                         *)
(***************************************************************************)

\* What a debit and a credit do to the balances of an account.
LEMMA BookedFacts ==
    ASSUME NEW account \in Account, NEW t \in Transfer
    PROVE  /\ PostedBalance(account) \in Int /\ t.amount \in Nat
           /\ account.debitsPending \in Int /\ account.creditsPending \in Int
           /\ PostedBalance(Debited(account, t)) =
                  IF t.pending THEN PostedBalance(account)
                  ELSE IF account.code = "safeguarded_cash"
                       THEN PostedBalance(account) + t.amount
                       ELSE PostedBalance(account) - t.amount
           /\ PostedBalance(Credited(account, t)) =
                  IF t.pending THEN PostedBalance(account)
                  ELSE IF account.code = "safeguarded_cash"
                       THEN PostedBalance(account) - t.amount
                       ELSE PostedBalance(account) + t.amount
           /\ Debited(account, t).debitsPending =
                  IF t.pending THEN account.debitsPending + t.amount
                               ELSE account.debitsPending
           /\ Credited(account, t).creditsPending =
                  IF t.pending THEN account.creditsPending + t.amount
                               ELSE account.creditsPending
           /\ Debited(account, t).creditsPending = account.creditsPending
           /\ Credited(account, t).debitsPending = account.debitsPending
  BY DEF Account, Transfer, PostedBalance, Debited, Credited

\* The kinds of accounts sit at IDs of their own.
LEMMA UsableFacts ==
    ASSUME LedgerInv, NEW a \in AccountIDs
    PROVE  /\ FundsOf(a) \in Int /\ HeldOf(a) \in Int
           /\ accounts[a] # None => accounts[a] \in Account
           /\ Usable(a) # None =>
                  /\ accounts[a] # None
                  /\ accounts[a].code = "safeguarded_cash" <=> a = Cash
           /\ \A kind \in {"corporate_wallet", "card_wallet"} :
                  IsKind(a, kind) => a \in Wallets
           /\ a \in Wallets => a # Cash /\ a # Settlement
  <1>1. accounts[a] # None => accounts[a] \in Account /\ accounts[a].id = a
    BY DEF LedgerInv, LedgerTypeOK, LedgerOK
  <1>2. ASSUME Usable(a) # None
        PROVE  /\ accounts[a] # None
               /\ Usable(a).kind = accounts[a].code
               /\ accounts[a].code \in Kinds
               /\ KindFitsID(accounts[a].code, a)
    <2>1. accounts[a] # None /\ Usable(a) = MetadataForAccount(accounts[a])
      BY <1>2 DEF Usable
    <2> QED
      BY <1>1, <1>2, <2>1, MetadataFacts
  <1>3. Usable(a) # None => (accounts[a].code = "safeguarded_cash" <=> a = Cash)
    BY <1>2, IDAssumption DEF KindFitsID, IsSystemAccountID, Kinds
  <1>4. \A kind \in {"corporate_wallet", "card_wallet"} : IsKind(a, kind) => a \in Wallets
    BY <1>2 DEF IsKind, KindFitsID, IsSystemAccountID, AccountIDs
  <1>5. a \in Wallets => a # Cash /\ a # Settlement
    BY IDAssumption
  <1>6. FundsOf(a) \in Int /\ HeldOf(a) \in Int
    <2>1. accounts[a] # None => /\ PostedBalance(accounts[a]) \in Int
                                /\ accounts[a].debitsPending \in Int
      BY <1>1 DEF PostedBalance, Account
    <2> QED
      BY <1>2, <2>1 DEF FundsOf, HeldOf
  <1> QED
    BY <1>1, <1>2, <1>3, <1>4, <1>5, <1>6

\* A transfer that is created is booked on its two accounts and nowhere else.
LEMMA TransferBooks ==
    ASSUME LedgerInv, NEW t \in Transfer, Recipe(t), CreateTransfer(t),
           TransferStatus(t) = "created"
    PROVE  /\ t.debit \in AccountIDs /\ t.credit \in AccountIDs /\ t.debit # t.credit
           /\ accounts[t.debit] # None /\ accounts[t.credit] # None
           /\ accounts'[t.debit] = Debited(accounts[t.debit], t)
           /\ accounts'[t.credit] = Credited(accounts[t.credit], t)
           /\ \A a \in AccountIDs \ {t.debit, t.credit} : accounts'[a] = accounts[a]
           /\ \A a \in AccountIDs : Usable(a)' = Usable(a)
  <1>1. t.debit \in AccountIDs /\ t.credit \in AccountIDs
    BY DEF Transfer
  <1>2. /\ t.debit # t.credit
        /\ accounts[t.debit] # None /\ accounts[t.credit] # None
    BY RecipeAccounts DEF LedgerInv
  <1>3. accounts' = [accounts EXCEPT ![t.debit] = Debited(@, t),
                                     ![t.credit] = Credited(@, t)]
    BY DEF CreateTransfer
  <1>4. LedgerTypeOK /\ LedgerGrows
    BY CreateTransferOK DEF LedgerInv
  <1>5. /\ accounts'[t.debit] = Debited(accounts[t.debit], t)
        /\ accounts'[t.credit] = Credited(accounts[t.credit], t)
        /\ \A a \in AccountIDs \ {t.debit, t.credit} : accounts'[a] = accounts[a]
    BY <1>1, <1>2, <1>3, <1>4 DEF LedgerTypeOK
  <1>6. ASSUME NEW a \in AccountIDs PROVE Usable(a)' = Usable(a)
    <2>1. CASE accounts[a] # None
      BY <1>4, <2>1, UsableStable
    <2>2. CASE accounts[a] = None
      BY <1>2, <1>5, <2>2 DEF Usable
    <2> QED
      BY <2>1, <2>2
  <1> QED
    BY <1>1, <1>2, <1>5, <1>6

\* A hold that lapses is taken off its two accounts and no others.
LEMMA LapseBooks ==
    ASSUME LedgerInv, NEW id \in TransferIDs, ExpireTransfer(id),
           NEW t \in Transfer, t = transfers[id]
    PROVE  /\ Recipe(t) /\ t.pending /\ id \notin expired
           /\ t.debit \in AccountIDs /\ t.credit \in AccountIDs /\ t.debit # t.credit
           /\ accounts[t.debit] # None /\ accounts[t.credit] # None
           /\ accounts'[t.debit] = [accounts[t.debit] EXCEPT !.debitsPending = @ - t.amount]
           /\ accounts'[t.credit] = [accounts[t.credit] EXCEPT !.creditsPending = @ - t.amount]
           /\ \A a \in AccountIDs \ {t.debit, t.credit} : accounts'[a] = accounts[a]
           /\ \A a \in AccountIDs : Usable(a)' = Usable(a)
  <1>1. t.debit \in AccountIDs /\ t.credit \in AccountIDs
    BY DEF Transfer
  <1>2. Recipe(t) /\ t.pending /\ id \notin expired
    BY DEF LedgerInv, LedgerOK, ExpireTransfer
  <1>3. /\ t.debit # t.credit
        /\ accounts[t.debit] # None /\ accounts[t.credit] # None
    BY <1>2, RecipeAccounts DEF LedgerInv
  <1>4. accounts \in [AccountIDs -> Account \cup {None}]
    BY DEF LedgerInv, LedgerTypeOK
  <1>5. accounts' = [accounts EXCEPT
                        ![t.debit] = [accounts[t.debit] EXCEPT !.debitsPending = @ - t.amount],
                        ![t.credit] = [accounts[t.credit] EXCEPT !.creditsPending = @ - t.amount]]
    BY Zenon, <1>1, <1>3, <1>4 DEF ExpireTransfer
  <1>6. /\ accounts'[t.debit] = [accounts[t.debit] EXCEPT !.debitsPending = @ - t.amount]
        /\ accounts'[t.credit] = [accounts[t.credit] EXCEPT !.creditsPending = @ - t.amount]
        /\ \A a \in AccountIDs \ {t.debit, t.credit} : accounts'[a] = accounts[a]
    BY Zenon, <1>1, <1>3, <1>4, <1>5
  <1>7. ASSUME NEW a \in AccountIDs PROVE Usable(a)' = Usable(a)
    <2>1. CASE a \notin {t.debit, t.credit}
      BY <1>6, <2>1 DEF Usable
    <2>2. CASE a \in {t.debit, t.credit}
      <3>1. accounts[a] # None /\ accounts[a] \in Account
        BY <1>1, <1>3, <1>4, <2>2
      <3>2. /\ accounts'[a] \in Account
            /\ accounts'[a].id = accounts[a].id
            /\ SameAccount(accounts'[a], accounts[a])
        BY <1>6, <2>2, <3>1 DEF SameAccount, Account, Transfer
      <3>3. MetadataForAccount(accounts'[a]) = MetadataForAccount(accounts[a])
        BY <3>2 DEF MetadataForAccount, SameAccount
      <3> QED
        BY <3>1, <3>2, <3>3, NoneAssumption DEF Usable
    <2> QED
      BY <2>1, <2>2
  <1> QED
    BY <1>1, <1>2, <1>3, <1>6, <1>7

\* Pending credits of a usable account.
DueTo(a) == IF Usable(a) = None THEN 0 ELSE accounts[a].creditsPending

\* The funds a created transfer moves: a debit is a loss for every account but
\* cash; a hold moves none.
LEMMA FundsAfterTransfer ==
    ASSUME LedgerInv, NEW t \in Transfer, Recipe(t), CreateTransfer(t),
           TransferStatus(t) = "created"
    PROVE  /\ \A a \in AccountIDs \ {t.debit, t.credit} :
                  /\ FundsOf(a)' = FundsOf(a)
                  /\ HeldOf(a)' = HeldOf(a)
                  /\ DueTo(a)' = DueTo(a)
           /\ Usable(t.debit) # None => FundsOf(t.debit)' =
                  IF t.pending THEN FundsOf(t.debit)
                  ELSE IF t.debit = Cash THEN FundsOf(t.debit) + t.amount
                                         ELSE FundsOf(t.debit) - t.amount
           /\ Usable(t.credit) # None => FundsOf(t.credit)' =
                  IF t.pending THEN FundsOf(t.credit)
                  ELSE IF t.credit = Cash THEN FundsOf(t.credit) - t.amount
                                          ELSE FundsOf(t.credit) + t.amount
           /\ Usable(t.debit) # None => HeldOf(t.debit)' =
                  IF t.pending THEN HeldOf(t.debit) + t.amount ELSE HeldOf(t.debit)
           /\ HeldOf(t.credit)' = HeldOf(t.credit)
           /\ DueTo(t.debit)' = DueTo(t.debit)
           /\ Usable(t.credit) # None => DueTo(t.credit)' =
                  IF t.pending THEN DueTo(t.credit) + t.amount ELSE DueTo(t.credit)
  <1> DEFINE d == accounts[t.debit]
             c == accounts[t.credit]
  <1>1. /\ t.debit \in AccountIDs /\ t.credit \in AccountIDs
        /\ accounts'[t.debit] = Debited(d, t)
        /\ accounts'[t.credit] = Credited(c, t)
        /\ \A a \in AccountIDs \ {t.debit, t.credit} : accounts'[a] = accounts[a]
        /\ \A a \in AccountIDs : Usable(a)' = Usable(a)
    BY TransferBooks
  <1>2. d \in Account /\ c \in Account
    BY <1>1, UsableFacts, TransferBooks
  <1>3. /\ Usable(t.debit) # None => (d.code = "safeguarded_cash" <=> t.debit = Cash)
        /\ Usable(t.credit) # None => (c.code = "safeguarded_cash" <=> t.credit = Cash)
    BY <1>1, UsableFacts
  <1>4. /\ PostedBalance(Debited(d, t)) =
               IF t.pending THEN PostedBalance(d)
               ELSE IF d.code = "safeguarded_cash" THEN PostedBalance(d) + t.amount
                                                   ELSE PostedBalance(d) - t.amount
        /\ PostedBalance(Credited(c, t)) =
               IF t.pending THEN PostedBalance(c)
               ELSE IF c.code = "safeguarded_cash" THEN PostedBalance(c) - t.amount
                                                   ELSE PostedBalance(c) + t.amount
        /\ Debited(d, t).debitsPending =
               IF t.pending THEN d.debitsPending + t.amount ELSE d.debitsPending
        /\ Credited(c, t).creditsPending =
               IF t.pending THEN c.creditsPending + t.amount ELSE c.creditsPending
        /\ Debited(d, t).creditsPending = d.creditsPending
        /\ Credited(c, t).debitsPending = c.debitsPending
    BY <1>2, BookedFacts
  <1> QED
    BY <1>1, <1>3, <1>4 DEF FundsOf, HeldOf, DueTo

\* A lapse moves no funds and frees what was held.
LEMMA FundsAfterLapse ==
    ASSUME LedgerInv, NEW id \in TransferIDs, ExpireTransfer(id),
           NEW t \in Transfer, t = transfers[id]
    PROVE  /\ \A a \in AccountIDs : FundsOf(a)' = FundsOf(a)
           /\ \A a \in AccountIDs \ {t.debit} : HeldOf(a)' = HeldOf(a)
           /\ \A a \in AccountIDs \ {t.credit} : DueTo(a)' = DueTo(a)
           /\ Usable(t.debit) # None => HeldOf(t.debit)' = HeldOf(t.debit) - t.amount
           /\ Usable(t.credit) # None => DueTo(t.credit)' = DueTo(t.credit) - t.amount
  <1> DEFINE d == accounts[t.debit]
             c == accounts[t.credit]
  <1>1. /\ t.debit \in AccountIDs /\ t.credit \in AccountIDs /\ t.debit # t.credit
        /\ accounts'[t.debit] = [d EXCEPT !.debitsPending = @ - t.amount]
        /\ accounts'[t.credit] = [c EXCEPT !.creditsPending = @ - t.amount]
        /\ \A a \in AccountIDs \ {t.debit, t.credit} : accounts'[a] = accounts[a]
        /\ \A a \in AccountIDs : Usable(a)' = Usable(a)
    BY LapseBooks
  <1>2. d \in Account /\ c \in Account
    BY <1>1, UsableFacts, LapseBooks
  <1>3. /\ PostedBalance(accounts'[t.debit]) = PostedBalance(d)
        /\ PostedBalance(accounts'[t.credit]) = PostedBalance(c)
        /\ accounts'[t.debit].debitsPending = d.debitsPending - t.amount
        /\ accounts'[t.credit].creditsPending = c.creditsPending - t.amount
        /\ accounts'[t.debit].creditsPending = d.creditsPending
        /\ accounts'[t.credit].debitsPending = c.debitsPending
    BY <1>1, <1>2 DEF PostedBalance, Account
  <1>4. /\ \A a \in AccountIDs \ {t.debit, t.credit} : accounts'[a] = accounts[a]
        /\ \A a \in AccountIDs : Usable(a)' = Usable(a)
    BY <1>1
  <1>5. \A a \in AccountIDs : FundsOf(a)' = FundsOf(a)
    BY <1>3, <1>4 DEF FundsOf
  <1>6. \A a \in AccountIDs \ {t.debit} : HeldOf(a)' = HeldOf(a)
    BY <1>3, <1>4 DEF HeldOf
  <1>7. \A a \in AccountIDs \ {t.credit} : DueTo(a)' = DueTo(a)
    BY <1>3, <1>4 DEF DueTo
  <1>8. Usable(t.debit) # None => HeldOf(t.debit)' = HeldOf(t.debit) - t.amount
    <2>1. Usable(t.debit)' = Usable(t.debit)
      BY <1>1
    <2> QED
      BY <1>3, <2>1 DEF HeldOf
  <1>9. Usable(t.credit) # None => DueTo(t.credit)' = DueTo(t.credit) - t.amount
    <2>1. Usable(t.credit)' = Usable(t.credit)
      BY <1>1
    <2> QED
      BY <1>3, <2>1 DEF DueTo
  <1> QED
    BY <1>5, <1>6, <1>7, <1>8, <1>9

-----------------------------------------------------------------------------
(***************************************************************************)
(* Totals.                                                                 *)
(***************************************************************************)
TotalFunds == SumFunction([a \in Wallets |-> FundsOf(a)])
TotalHeld == SumFunction([a \in Wallets |-> HeldOf(a)])

LEMMA WalletsAreAccounts == IsFiniteSet(Wallets) /\ Wallets \subseteq AccountIDs
  BY IDAssumption DEF AccountIDs

\* The totals change by what changes on one wallet, if it is the only one.
LEMMA TotalsChange ==
    ASSUME LedgerInv, LedgerInv', NEW w \in Wallets
    PROVE  /\ (\A a \in Wallets \ {w} : FundsOf(a)' = FundsOf(a)) =>
                  TotalFunds' = TotalFunds + FundsOf(w)' - FundsOf(w)
           /\ (\A a \in Wallets \ {w} : HeldOf(a)' = HeldOf(a)) =>
                  TotalHeld' = TotalHeld + HeldOf(w)' - HeldOf(w)
           /\ TotalFunds \in Int /\ TotalHeld \in Int
  <1>1. \A a \in Wallets : FundsOf(a) \in Int /\ HeldOf(a) \in Int
    BY WalletsAreAccounts, UsableFacts
  <1>2. \A a \in Wallets : FundsOf(a)' \in Int /\ HeldOf(a)' \in Int
    <2> TAKE a \in Wallets
    <2>1. accounts'[a] # None => accounts'[a] \in Account
      BY WalletsAreAccounts DEF LedgerInv, LedgerTypeOK
    <2>2. accounts'[a] # None =>
              PostedBalance(accounts'[a]) \in Int /\ accounts'[a].debitsPending \in Int
      BY <2>1 DEF PostedBalance, Account
    <2> QED
      BY <2>2 DEF FundsOf, HeldOf, Usable
  <1> DEFINE f == [a \in Wallets |-> FundsOf(a)]
             fn == [a \in Wallets |-> FundsOf(a)']
             h == [a \in Wallets |-> HeldOf(a)]
             hn == [a \in Wallets |-> HeldOf(a)']
  <1>3. /\ TotalFunds = SumFunctionOnSet(f, Wallets)
        /\ TotalFunds' = SumFunctionOnSet(fn, Wallets)
        /\ TotalHeld = SumFunctionOnSet(h, Wallets)
        /\ TotalHeld' = SumFunctionOnSet(hn, Wallets)
    BY DEF TotalFunds, TotalHeld, SumFunction
  <1>4. /\ \A a \in Wallets : f[a] = FundsOf(a) /\ fn[a] = FundsOf(a)'
        /\ \A a \in Wallets : h[a] = HeldOf(a) /\ hn[a] = HeldOf(a)'
    OBVIOUS
  <1>5. \A a \in Wallets : f[a] \in Int /\ fn[a] \in Int /\ h[a] \in Int /\ hn[a] \in Int
    BY <1>1, <1>2
  <1> HIDE DEF f, fn, h, hn
  <1>6. ASSUME \A a \in Wallets \ {w} : FundsOf(a)' = FundsOf(a)
        PROVE  SumFunctionOnSet(fn, Wallets) = SumFunctionOnSet(f, Wallets) + fn[w] - f[w]
    <2>1. /\ \A a \in Wallets : f[a] \in Int /\ fn[a] \in Int
          /\ \A a \in Wallets \ {w} : fn[a] = f[a]
      BY <1>4, <1>5, <1>6
    <2> QED
      BY ZenonT(30), <2>1, WalletsAreAccounts, SumChange
  <1>7. ASSUME \A a \in Wallets \ {w} : HeldOf(a)' = HeldOf(a)
        PROVE  SumFunctionOnSet(hn, Wallets) = SumFunctionOnSet(h, Wallets) + hn[w] - h[w]
    <2>1. /\ \A a \in Wallets : h[a] \in Int /\ hn[a] \in Int
          /\ \A a \in Wallets \ {w} : hn[a] = h[a]
      BY <1>4, <1>5, <1>7
    <2> QED
      BY ZenonT(30), <2>1, WalletsAreAccounts, SumChange
  <1>8. SumFunctionOnSet(f, Wallets) \in Int /\ SumFunctionOnSet(h, Wallets) \in Int
    BY <1>5, WalletsAreAccounts, SumType
  <1> QED
    BY <1>3, <1>4, <1>6, <1>7, <1>8

\* Wallets that keep what they have keep their total.
LEMMA TotalsSame ==
    /\ (\A a \in Wallets : FundsOf(a)' = FundsOf(a)) => TotalFunds' = TotalFunds
    /\ (\A a \in Wallets : HeldOf(a)' = HeldOf(a)) => TotalHeld' = TotalHeld
  <1>1. ASSUME \A a \in Wallets : FundsOf(a)' = FundsOf(a)
        PROVE  TotalFunds' = TotalFunds
    <2>1. [a \in Wallets |-> FundsOf(a)'] = [a \in Wallets |-> FundsOf(a)]
      BY <1>1
    <2> QED
      BY <2>1 DEF TotalFunds
  <1>2. ASSUME \A a \in Wallets : HeldOf(a)' = HeldOf(a)
        PROVE  TotalHeld' = TotalHeld
    <2>1. [a \in Wallets |-> HeldOf(a)'] = [a \in Wallets |-> HeldOf(a)]
      BY <1>2
    <2> QED
      BY <2>1 DEF TotalHeld
  <1> QED
    BY <1>1, <1>2

\* A move between two wallets leaves their total as it was.
LEMMA TotalAfterMove ==
    ASSUME LedgerInv, NEW x \in Wallets, NEW y \in Wallets, NEW n \in Int, x # y,
           FundsOf(x)' = FundsOf(x) - n, FundsOf(y)' = FundsOf(y) + n,
           \A a \in Wallets \ {x, y} : FundsOf(a)' = FundsOf(a)
    PROVE  TotalFunds' = TotalFunds
  <1> DEFINE f == [a \in Wallets |-> FundsOf(a)]
             fn == [a \in Wallets |-> FundsOf(a)']
  <1>1. \A a \in Wallets : FundsOf(a) \in Int
    BY WalletsAreAccounts, UsableFacts
  <1>2. /\ TotalFunds = SumFunctionOnSet(f, Wallets)
        /\ TotalFunds' = SumFunctionOnSet(fn, Wallets)
    BY DEF TotalFunds, SumFunction
  <1>3. /\ \A a \in Wallets : f[a] \in Int
        /\ fn[x] = f[x] - n /\ fn[y] = f[y] + n
        /\ \A a \in Wallets \ {x, y} : fn[a] = f[a]
    BY <1>1
  <1> HIDE DEF f, fn
  <1>4. SumFunctionOnSet(fn, Wallets) = SumFunctionOnSet(f, Wallets)
    BY <1>3, WalletsAreAccounts, SumMove
  <1> QED
    BY <1>2, <1>4

-----------------------------------------------------------------------------
(***************************************************************************)
(* Client funds are conserved.                                             *)
(***************************************************************************)
LEMMA ConservedTotals ==
    FundsConserved <=> TotalFunds = FundsOf(Cash) /\ TotalHeld = DueTo(Settlement)
  BY DEF FundsConserved, TotalFunds, TotalHeld, DueTo

LEMMA ConservedTotalsNext ==
    FundsConserved' <=> TotalFunds' = FundsOf(Cash)' /\ TotalHeld' = DueTo(Settlement)'
  BY DEF FundsConserved, TotalFunds, TotalHeld, DueTo

\* The kinds of the accounts a recipe books on.
LEMMA RecipeWallets ==
    ASSUME LedgerInv, NEW t \in Transfer, Recipe(t)
    PROVE  /\ Usable(t.debit) # None /\ Usable(t.credit) # None
           /\ t.code = "topup" => t.debit = Cash /\ t.credit \in Wallets
           /\ t.code = "withdrawal" => t.credit = Cash /\ t.debit \in Wallets
           /\ t.code \in Moves => t.credit \in Wallets /\ t.debit \in Wallets
           /\ t.code \in Holds => t.credit = Settlement /\ t.debit \in Wallets
  <1>1. t.debit \in AccountIDs /\ t.credit \in AccountIDs /\ t.code \in TransferCodes
    BY DEF Transfer
  <1>2. \A a \in AccountIDs, kind \in {"corporate_wallet", "card_wallet"} :
            IsKind(a, kind) => a \in Wallets
    BY UsableFacts
  <1>3. \A a, kind : IsKind(a, kind) => Usable(a) # None
    BY DEF IsKind
  <1> QED
    BY <1>1, <1>2, <1>3 DEF Recipe, TransferCodes, Moves, Holds

\* A transfer that commits (executeTransaction, Authorize,
\* IncrementAuthorization) takes from one side what it gives to the other.
LEMMA TransferConserves ==
    ASSUME LedgerInv, FundsConserved, NEW t \in Transfer, Recipe(t), CreateTransfer(t)
    PROVE  FundsConserved'
  <1>1. CASE TransferStatus(t) # "created"
    <2>1. accounts' = accounts
      BY <1>1 DEF CreateTransfer
    <2> QED
      BY <2>1 DEF FundsConserved, FundsOf, HeldOf, Usable
  <1>2. CASE TransferStatus(t) = "created"
    <2> DEFINE d == t.debit
               c == t.credit
    <2>1. /\ d \in AccountIDs /\ c \in AccountIDs /\ d # c
          /\ Usable(d) # None /\ Usable(c) # None
          /\ t.amount \in Int
      BY <1>2, TransferBooks, RecipeWallets DEF Transfer
    <2>2. LedgerInv'
      BY CreateTransferOK
    <2>3. TotalFunds = FundsOf(Cash) /\ TotalHeld = DueTo(Settlement)
      BY ConservedTotals
    <2>4. \A a \in AccountIDs \ {d, c} :
              FundsOf(a)' = FundsOf(a) /\ HeldOf(a)' = HeldOf(a) /\ DueTo(a)' = DueTo(a)
      BY <1>2, FundsAfterTransfer
    <2>5. ASSUME ~t.pending
          PROVE  TotalHeld' = DueTo(Settlement)'
      <3>1. \A a \in AccountIDs : HeldOf(a)' = HeldOf(a) /\ DueTo(a)' = DueTo(a)
        BY <1>2, <2>1, <2>4, <2>5, FundsAfterTransfer
      <3>2. TotalHeld' = TotalHeld
        BY <3>1, TotalsSame, WalletsAreAccounts
      <3> QED
        BY <2>3, <3>1, <3>2 DEF AccountIDs
    <2>6. CASE t.code = "topup"
      <3>1. d = Cash /\ c \in Wallets /\ c # Cash /\ ~t.pending
        BY <2>1, <2>6, RecipeWallets DEF Recipe, Holds
      <3>2. FundsOf(Cash)' = FundsOf(Cash) + t.amount
            /\ FundsOf(c)' = FundsOf(c) + t.amount
        BY <1>2, <2>1, <3>1, FundsAfterTransfer
      <3>3. \A a \in Wallets \ {c} : FundsOf(a)' = FundsOf(a)
        BY <2>4, <3>1, IDAssumption, WalletsAreAccounts
      <3>4. TotalFunds' = TotalFunds + FundsOf(c)' - FundsOf(c) /\ TotalFunds \in Int
        BY <2>2, <3>1, <3>3, TotalsChange
      <3>5. FundsOf(c) \in Int
        BY <2>1, UsableFacts
      <3>6. TotalFunds' = FundsOf(Cash)'
        BY <2>1, <2>3, <3>2, <3>4, <3>5
      <3> QED
        BY <2>5, <3>1, <3>6, ConservedTotalsNext
    <2>7. CASE t.code = "withdrawal"
      <3>1. c = Cash /\ d \in Wallets /\ d # Cash /\ ~t.pending
        BY <2>1, <2>7, RecipeWallets DEF Recipe, Holds
      <3>2. FundsOf(Cash)' = FundsOf(Cash) - t.amount
            /\ FundsOf(d)' = FundsOf(d) - t.amount
        BY <1>2, <2>1, <3>1, FundsAfterTransfer
      <3>3. \A a \in Wallets \ {d} : FundsOf(a)' = FundsOf(a)
        BY <2>4, <3>1, IDAssumption, WalletsAreAccounts
      <3>4. TotalFunds' = TotalFunds + FundsOf(d)' - FundsOf(d) /\ TotalFunds \in Int
        BY <2>2, <3>1, <3>3, TotalsChange
      <3>5. FundsOf(d) \in Int
        BY <2>1, UsableFacts
      <3>6. TotalFunds' = FundsOf(Cash)'
        BY <2>1, <2>3, <3>2, <3>4, <3>5
      <3> QED
        BY <2>5, <3>1, <3>6, ConservedTotalsNext
    <2>8. CASE t.code \in Moves
      <3>1. c \in Wallets /\ d \in Wallets /\ c # Cash /\ d # Cash /\ ~t.pending
        BY Zenon, <2>8, RecipeWallets, IDAssumption DEF Recipe, Moves, Holds
      <3>2. FundsOf(d)' = FundsOf(d) - t.amount /\ FundsOf(c)' = FundsOf(c) + t.amount
        BY <1>2, <2>1, <3>1, FundsAfterTransfer
      <3>3. /\ \A a \in Wallets \ {d, c} : FundsOf(a)' = FundsOf(a)
            /\ FundsOf(Cash)' = FundsOf(Cash)
        BY <2>4, <3>1, WalletsAreAccounts DEF AccountIDs
      <3>4. TotalFunds' = TotalFunds
        BY <2>1, <3>1, <3>2, <3>3, TotalAfterMove
      <3> QED
        BY <2>3, <2>5, <3>1, <3>3, <3>4, ConservedTotalsNext
    <2>9. CASE t.code \in Holds
      <3>1. c = Settlement /\ d \in Wallets /\ d # Settlement /\ t.pending
        BY Zenon, <2>1, <2>9, RecipeWallets DEF Recipe
      <3>2. \A a \in AccountIDs : FundsOf(a)' = FundsOf(a)
        BY <1>2, <2>1, <2>4, <3>1, FundsAfterTransfer
      <3>3. TotalFunds' = FundsOf(Cash)'
        BY <2>3, <3>2, TotalsSame, WalletsAreAccounts DEF AccountIDs
      <3>4. HeldOf(d)' = HeldOf(d) + t.amount
            /\ DueTo(Settlement)' = DueTo(Settlement) + t.amount
        BY Zenon, <1>2, <2>1, <3>1, FundsAfterTransfer
      <3>5. \A a \in Wallets \ {d} : HeldOf(a)' = HeldOf(a)
        BY <2>4, <3>1, IDAssumption, WalletsAreAccounts
      <3>6. TotalHeld' = TotalHeld + HeldOf(d)' - HeldOf(d) /\ TotalHeld \in Int
        BY <2>2, <3>1, <3>5, TotalsChange
      <3>7. HeldOf(d) \in Int
        BY <2>1, UsableFacts
      <3>8. TotalHeld' = DueTo(Settlement)'
        BY <2>1, <2>3, <3>4, <3>6, <3>7
      <3> QED
        BY <3>3, <3>8, ConservedTotalsNext
    <2>10. t.code \in TransferCodes
      BY DEF Transfer
    <2> QED
      BY <2>6, <2>7, <2>8, <2>9, <2>10 DEF TransferCodes, Moves, Holds
  <1> QED
    BY <1>1, <1>2

\* A hold that lapses is freed on the card and for settlement alike.
LEMMA LapseConserves ==
    ASSUME LedgerInv, LedgerInv', FundsConserved, NEW id \in TransferIDs, ExpireTransfer(id)
    PROVE  FundsConserved'
  <1>1. PICK t \in Transfer : t = transfers[id]
    BY DEF ExpireTransfer, LedgerInv, LedgerTypeOK
  <1> DEFINE d == t.debit
             c == t.credit
  <1>2. Recipe(t) /\ t.pending /\ d \in AccountIDs /\ t.amount \in Int
    <2>1. Recipe(t) /\ t.pending
      BY Zenon, <1>1, LapseBooks
    <2> QED
      BY <2>1 DEF Transfer
  <1>3. /\ Usable(d) # None /\ Usable(c) # None
        /\ c = Settlement /\ d \in Wallets
    BY <1>2, RecipeWallets DEF Recipe
  <1>4. /\ \A a \in AccountIDs : FundsOf(a)' = FundsOf(a)
        /\ \A a \in AccountIDs \ {d} : HeldOf(a)' = HeldOf(a)
        /\ HeldOf(d)' = HeldOf(d) - t.amount
        /\ DueTo(Settlement)' = DueTo(Settlement) - t.amount
    BY <1>1, <1>3, FundsAfterLapse
  <1>5. TotalFunds = FundsOf(Cash) /\ TotalHeld = DueTo(Settlement)
    BY ConservedTotals
  <1>6. TotalFunds' = FundsOf(Cash)'
    BY <1>4, <1>5, TotalsSame, WalletsAreAccounts DEF AccountIDs
  <1>7. TotalHeld' = TotalHeld + HeldOf(d)' - HeldOf(d) /\ TotalHeld \in Int
    BY <1>3, <1>4, TotalsChange, WalletsAreAccounts
  <1>8. HeldOf(d) \in Int
    BY <1>2, UsableFacts
  <1>9. TotalHeld' = DueTo(Settlement)'
    BY <1>2, <1>4, <1>5, <1>7, <1>8
  <1> QED
    BY <1>6, <1>9, ConservedTotalsNext

\* A new account brings nothing with it, and no other account changes.
LEMMA AccountBooks ==
    ASSUME LedgerInv, NEW account, AccountRequestOK(account), CreateAccount(account),
           NEW a \in AccountIDs
    PROVE  /\ FundsOf(a)' = FundsOf(a) /\ HeldOf(a)' = HeldOf(a) /\ DueTo(a)' = DueTo(a)
           /\ \/ accounts'[a] = accounts[a]
              \/ accounts[a] = None /\ accounts'[a] = account
  <1>1. account \in Account /\ account.id \in AccountIDs
    BY DEF AccountRequestOK
  <1>2. accounts'[a] = IF AccountStatus(account) = "created" /\ a = account.id
                       THEN account ELSE accounts[a]
    BY <1>1 DEF CreateAccount, LedgerInv, LedgerTypeOK
  <1>3. AccountStatus(account) = "created" => accounts[account.id] = None
    BY DEF AccountStatus
  <1>4. /\ PostedBalance(account) = 0
        /\ account.debitsPending = 0 /\ account.creditsPending = 0
    BY DEF AccountRequestOK, PostedBalance
  <1>5. CASE accounts'[a] = accounts[a]
    BY <1>5 DEF FundsOf, HeldOf, DueTo, Usable
  <1>6. CASE accounts'[a] = account /\ accounts[a] = None
    BY <1>4, <1>6 DEF FundsOf, HeldOf, DueTo, Usable
  <1> QED
    BY <1>2, <1>3, <1>5, <1>6

LEMMA AccountConserves ==
    ASSUME LedgerInv, FundsConserved, NEW account, AccountRequestOK(account),
           CreateAccount(account)
    PROVE  FundsConserved'
  <1>1. \A a \in AccountIDs :
            FundsOf(a)' = FundsOf(a) /\ HeldOf(a)' = HeldOf(a) /\ DueTo(a)' = DueTo(a)
    BY Zenon, AccountBooks
  <1>2. TotalFunds' = TotalFunds /\ TotalHeld' = TotalHeld
    BY <1>1, TotalsSame, WalletsAreAccounts
  <1> QED
    BY <1>1, <1>2, ConservedTotals, ConservedTotalsNext DEF AccountIDs

\* Every step conserves client funds.
LEMMA StepConserves ==
    ASSUME IInv, IInv', [Next]_vars, FundsConserved
    PROVE  FundsConserved'
  <1>1. LedgerInv'
    BY DEF IInv, TypeOK, LedgerInv, LedgerTypeOK
  <1>2. LedgerInv /\ LedgerEffect
    BY Parts, StepEffect
  <1>3. CASE UNCHANGED <<accounts, transfers, expired>>
    BY <1>3 DEF FundsConserved, FundsOf, HeldOf, Usable
  <1> QED
    BY Zenon, <1>1, <1>2, <1>3, AccountConserves, TransferConserves, LapseConserves
    DEF LedgerEffect

\* Client funds are conserved: if the wallets hold exactly the safeguarded cash
\* when the service first runs, as they do in an empty ledger, they always do.
THEOREM FundsAlwaysConserved == Spec /\ FundsConserved => []FundsConserved
  <1>1. IInv /\ IInv' /\ [Next]_vars /\ FundsConserved => FundsConserved'
    BY StepConserves
  <1> QED
    BY <1>1, Invariance, PTL DEF Spec

-----------------------------------------------------------------------------
(***************************************************************************)
(* Holds are booked for as long as they stand.                             *)
(***************************************************************************)
LEMMA HoldFacts ==
    ASSUME LedgerInv, NEW a \in AccountIDs
    PROVE  /\ \A id \in TransferIDs : HoldOn(a, id) \in Nat
           /\ StandingHolds(a) \in Nat
           /\ accounts[a] = None => StandingHolds(a) = 0
  <1> DEFINE f == [id \in TransferIDs |-> HoldOn(a, id)]
  <1>1. ASSUME NEW id \in TransferIDs
        PROVE  HoldOn(a, id) \in Nat /\ (accounts[a] = None => HoldOn(a, id) = 0)
    <2>1. CASE transfers[id] = None
      BY <2>1 DEF HoldOn
    <2>2. CASE transfers[id] # None
      <3>1. PICK t \in Transfer : t = transfers[id]
        BY <2>2 DEF LedgerInv, LedgerTypeOK
      <3>2. accounts[t.debit] # None
        BY <2>2, <3>1, RecipeAccounts DEF LedgerInv, LedgerOK
      <3>3. t.amount \in Nat
        BY DEF Transfer
      <3> QED
        BY <3>1, <3>2, <3>3 DEF HoldOn
    <2> QED
      BY <2>1, <2>2
  <1>2. StandingHolds(a) = SumFunctionOnSet(f, TransferIDs)
    BY DEF StandingHolds, SumFunction
  <1>3. \A id \in TransferIDs : f[id] \in Nat /\ (accounts[a] = None => f[id] = 0)
    BY <1>1
  <1> HIDE DEF f
  <1>4. IsFiniteSet(TransferIDs)
    BY IDAssumption
  <1>5. SumFunctionOnSet(f, TransferIDs) \in Nat
    BY <1>3, <1>4, SumBound
  <1>6. accounts[a] = None => SumFunctionOnSet(f, TransferIDs) = 0
    BY <1>3, <1>4, SumZero
  <1> QED
    BY <1>1, <1>2, <1>5, <1>6

\* What stands on an account changes with the one hold that does.
LEMMA StandingChange ==
    ASSUME LedgerInv, LedgerInv', NEW a \in AccountIDs, NEW x \in TransferIDs,
           \A id \in TransferIDs \ {x} : HoldOn(a, id)' = HoldOn(a, id)
    PROVE  /\ StandingHolds(a)' = StandingHolds(a) + HoldOn(a, x)' - HoldOn(a, x)
           /\ HoldOn(a, x)' \in Nat
  <1> DEFINE f == [id \in TransferIDs |-> HoldOn(a, id)]
             fn == [id \in TransferIDs |-> HoldOn(a, id)']
  <1>1. \A id \in TransferIDs : HoldOn(a, id) \in Int
    BY HoldFacts
  <1>2. HoldOn(a, x)' \in Nat
    <2>1. transfers'[x] # None => transfers'[x] \in Transfer
      BY DEF LedgerInv, LedgerTypeOK
    <2> QED
      BY <2>1 DEF HoldOn, Transfer
  <1>3. /\ StandingHolds(a) = SumFunctionOnSet(f, TransferIDs)
        /\ StandingHolds(a)' = SumFunctionOnSet(fn, TransferIDs)
    BY DEF StandingHolds, SumFunction
  <1>4. /\ \A id \in TransferIDs : f[id] \in Int /\ fn[id] \in Int
        /\ \A id \in TransferIDs \ {x} : fn[id] = f[id]
        /\ f[x] = HoldOn(a, x) /\ fn[x] = HoldOn(a, x)'
    BY <1>1, <1>2
  <1> HIDE DEF f, fn
  <1>5. SumFunctionOnSet(fn, TransferIDs) = SumFunctionOnSet(f, TransferIDs) + fn[x] - f[x]
    BY Zenon, <1>4, IDAssumption, SumChange
  <1> QED
    BY <1>2, <1>3, <1>4, <1>5

\* A step that leaves the holds alone leaves what stands alone.
LEMMA StandingSame ==
    ASSUME UNCHANGED <<transfers, expired>>, NEW a
    PROVE  StandingHolds(a)' = StandingHolds(a)
  BY DEF StandingHolds, HoldOn

\* A hold that commits is booked, and nothing else changes what stands.
LEMMA TransferKeepsBooked ==
    ASSUME LedgerInv, LedgerInv', HoldsBooked, NEW t \in Transfer, Recipe(t),
           CreateTransfer(t)
    PROVE  HoldsBooked'
  <1>1. CASE TransferStatus(t) # "created"
    <2>1. UNCHANGED <<accounts, transfers, expired>>
      BY <1>1 DEF CreateTransfer
    <2> QED
      BY <2>1 DEF HoldsBooked, StandingHolds, HoldOn
  <1>2. CASE TransferStatus(t) = "created"
    <2> SUFFICES ASSUME NEW a \in AccountIDs, accounts'[a] # None
                 PROVE  accounts'[a].debitsPending >= StandingHolds(a)'
      BY DEF HoldsBooked
    <2>1. /\ transfers[t.id] = None /\ expired' = expired /\ t.id \in TransferIDs
          /\ transfers' = [transfers EXCEPT ![t.id] = [t EXCEPT !.timestamp = now]]
          /\ transfers \in [TransferIDs -> Transfer \cup {None}]
      <3>1. t.id \in TransferIDs /\ transfers \in [TransferIDs -> Transfer \cup {None}]
        BY DEF LedgerInv, LedgerTypeOK, Transfer
      <3>2. transfers[t.id] = None
        BY <1>2 DEF TransferStatus, ExistsStatus
      <3> QED
        BY Zenon, <1>2, <3>1, <3>2 DEF CreateTransfer
    <2>2. \A id \in TransferIDs \ {t.id} : HoldOn(a, id)' = HoldOn(a, id)
      BY <2>1 DEF HoldOn
    <2>3. HoldOn(a, t.id) = 0
      BY <2>1 DEF HoldOn
    <2>4. HoldOn(a, t.id)' <= IF t.pending /\ t.debit = a THEN t.amount ELSE 0
      <3>1. /\ transfers'[t.id] = [t EXCEPT !.timestamp = now]
            /\ transfers'[t.id].pending = t.pending
            /\ transfers'[t.id].debit = t.debit
            /\ transfers'[t.id].amount = t.amount
            /\ t.amount \in Nat
        BY <2>1 DEF Transfer
      <3> QED
        BY <3>1 DEF HoldOn
    <2>5. /\ StandingHolds(a)' = StandingHolds(a) + HoldOn(a, t.id)' - HoldOn(a, t.id)
          /\ HoldOn(a, t.id)' \in Nat /\ StandingHolds(a) \in Nat
      BY <2>1, <2>2, StandingChange, HoldFacts
    <2>6. /\ accounts[a] # None /\ accounts[a] \in Account
          /\ accounts[a].debitsPending \in Int
          /\ accounts'[a].debitsPending = IF t.pending /\ t.debit = a
                                          THEN accounts[a].debitsPending + t.amount
                                          ELSE accounts[a].debitsPending
      <3>1. accounts[a] # None
        BY Zenon, <1>2, TransferBooks
      <3>2. accounts[a] \in Account
        BY <3>1, UsableFacts
      <3>3. \/ a = t.debit /\ accounts'[a] = Debited(accounts[a], t)
            \/ a = t.credit /\ a # t.debit /\ accounts'[a] = Credited(accounts[a], t)
            \/ a \notin {t.debit, t.credit} /\ accounts'[a] = accounts[a]
        BY Zenon, <1>2, TransferBooks
      <3> QED
        BY Zenon, <3>1, <3>2, <3>3, BookedFacts
    <2>7. accounts[a].debitsPending >= StandingHolds(a)
      BY Zenon, <2>6 DEF HoldsBooked
    <2>8. t.amount \in Nat
      BY DEF Transfer
    <2> QED
      BY <2>3, <2>4, <2>5, <2>6, <2>7, <2>8
  <1> QED
    BY <1>1, <1>2

\* A hold that lapses no longer stands.
LEMMA LapseKeepsBooked ==
    ASSUME LedgerInv, LedgerInv', HoldsBooked, NEW x \in TransferIDs, ExpireTransfer(x)
    PROVE  HoldsBooked'
  <1> SUFFICES ASSUME NEW a \in AccountIDs, accounts'[a] # None
               PROVE  accounts'[a].debitsPending >= StandingHolds(a)'
    BY DEF HoldsBooked
  <1>1. PICK t \in Transfer : t = transfers[x]
    BY Zenon DEF ExpireTransfer, LedgerInv, LedgerTypeOK
  <1>2. /\ transfers' = transfers /\ expired' = expired \cup {x}
        /\ transfers[x] # None /\ t.pending /\ x \notin expired
    BY Zenon, <1>1 DEF ExpireTransfer
  <1>3. \A id \in TransferIDs \ {x} : HoldOn(a, id)' = HoldOn(a, id)
    BY <1>2 DEF HoldOn
  <1>4. /\ HoldOn(a, x) = IF t.debit = a THEN t.amount ELSE 0
        /\ HoldOn(a, x)' = 0
    BY <1>1, <1>2 DEF HoldOn
  <1>5. /\ StandingHolds(a)' = StandingHolds(a) + HoldOn(a, x)' - HoldOn(a, x)
        /\ StandingHolds(a) \in Nat
    BY <1>3, StandingChange, HoldFacts
  <1>6. /\ accounts[a] # None
        /\ accounts[a].debitsPending \in Int
        /\ accounts'[a].debitsPending = IF t.debit = a
                                        THEN accounts[a].debitsPending - t.amount
                                        ELSE accounts[a].debitsPending
    <2>1. accounts[a] # None
      <3>1. /\ accounts[t.debit] # None /\ accounts[t.credit] # None
            /\ a \notin {t.debit, t.credit} => accounts'[a] = accounts[a]
        BY ZenonT(30), <1>1, LapseBooks
      <3> QED
        BY <3>1
    <2>2. accounts[a] \in Account
      BY <2>1, UsableFacts
    <2>3. \/ a = t.debit
             /\ accounts'[a] = [accounts[a] EXCEPT !.debitsPending = @ - t.amount]
          \/ a = t.credit /\ a # t.debit
             /\ accounts'[a] = [accounts[a] EXCEPT !.creditsPending = @ - t.amount]
          \/ a \notin {t.debit, t.credit} /\ accounts'[a] = accounts[a]
      BY Zenon, <1>1, LapseBooks
    <2> QED
      BY <2>1, <2>2, <2>3 DEF Account
  <1>7. accounts[a].debitsPending >= StandingHolds(a)
    BY <1>6 DEF HoldsBooked
  <1>8. t.amount \in Nat
    BY DEF Transfer
  <1> QED
    BY <1>4, <1>5, <1>6, <1>7, <1>8

\* On a new account nothing stands.
LEMMA AccountKeepsBooked ==
    ASSUME LedgerInv, HoldsBooked, NEW account, AccountRequestOK(account),
           CreateAccount(account), UNCHANGED <<transfers, expired>>
    PROVE  HoldsBooked'
  <1> SUFFICES ASSUME NEW a \in AccountIDs, accounts'[a] # None
               PROVE  accounts'[a].debitsPending >= StandingHolds(a)'
    BY DEF HoldsBooked
  <1>1. StandingHolds(a)' = StandingHolds(a)
    BY StandingSame
  <1>2. CASE accounts'[a] = accounts[a]
    BY <1>1, <1>2 DEF HoldsBooked
  <1>3. CASE accounts[a] = None /\ accounts'[a] = account
    <2>1. StandingHolds(a) = 0
      BY <1>3, HoldFacts
    <2> QED
      BY <1>1, <1>3, <2>1 DEF AccountRequestOK
  <1> QED
    BY Zenon, <1>2, <1>3, AccountBooks

\* Every step keeps what stands booked.
LEMMA StepKeepsBooked ==
    ASSUME IInv, IInv', [Next]_vars, HoldsBooked
    PROVE  HoldsBooked'
  <1>1. LedgerInv'
    BY DEF IInv, TypeOK, LedgerInv, LedgerTypeOK
  <1>2. LedgerInv /\ LedgerEffect
    BY Parts, StepEffect
  <1>3. CASE UNCHANGED <<accounts, transfers, expired>>
    BY <1>3 DEF HoldsBooked, StandingHolds, HoldOn
  <1> QED
    BY Zenon, <1>1, <1>2, <1>3, AccountKeepsBooked, TransferKeepsBooked, LapseKeepsBooked
    DEF LedgerEffect

\* The pending debits of an account always include every hold that stands on it:
\* a hold lapses once, and what it gives back was taken.
THEOREM HoldsAlwaysBooked == Spec => []HoldsBooked
  <1>1. Init => HoldsBooked
    <2> SUFFICES ASSUME Init, NEW a \in AccountIDs, accounts[a] # None
                 PROVE  accounts[a].debitsPending >= StandingHolds(a)
      BY DEF HoldsBooked
    <2> DEFINE f == [id \in TransferIDs |-> HoldOn(a, id)]
    <2>1. \A id \in TransferIDs : f[id] = 0
      BY DEF Init, LedgerInit, HoldOn
    <2>2. StandingHolds(a) = SumFunctionOnSet(f, TransferIDs)
      BY DEF StandingHolds, SumFunction
    <2> HIDE DEF f
    <2>3. StandingHolds(a) = 0
      BY <2>1, <2>2, SumZero, IDAssumption
    <2>4. accounts[a].debitsPending >= 0
      BY PreexistingAssumption DEF Init, LedgerInit
    <2> QED
      BY <2>3, <2>4
  <1>2. IInv /\ IInv' /\ [Next]_vars /\ HoldsBooked => HoldsBooked'
    BY StepKeepsBooked
  <1> QED
    BY <1>1, <1>2, Invariance, PTL DEF Spec

-----------------------------------------------------------------------------
(***************************************************************************)
(* Cash covers what wallets can pay.                                       *)
(***************************************************************************)

\* The service never books a hold on cash.
LEMMA StepLeavesCashFree ==
    ASSUME IInv, [Next]_vars, CashUnencumbered
    PROVE  CashUnencumbered'
  <1>1. LedgerInv /\ LedgerEffect /\ Cash \in AccountIDs
    BY Parts, StepEffect DEF AccountIDs
  <1>2. DueTo(Cash) = 0
    BY DEF CashUnencumbered, DueTo
  <1>3. CASE UNCHANGED <<accounts, transfers, expired>>
    BY <1>3 DEF CashUnencumbered, Usable
  <1>4. ASSUME NEW account, AccountRequestOK(account), CreateAccount(account)
        PROVE  DueTo(Cash)' = DueTo(Cash)
    BY Zenon, <1>1, <1>4, AccountBooks
  <1>5. ASSUME NEW t \in Transfer, Recipe(t), CreateTransfer(t),
               TransferStatus(t) = "created"
        PROVE  DueTo(Cash)' = DueTo(Cash)
    <2>1. Cash = t.credit => ~t.pending
      BY Zenon, <1>5, IDAssumption DEF Recipe
    <2>2. Usable(t.credit) # None
      BY <1>1, <1>5, RecipeWallets
    <2>3. /\ Cash \notin {t.debit, t.credit} => DueTo(Cash)' = DueTo(Cash)
          /\ DueTo(t.debit)' = DueTo(t.debit)
          /\ ~t.pending => DueTo(t.credit)' = DueTo(t.credit)
      BY Zenon, <1>1, <1>5, <2>2, FundsAfterTransfer
    <2>4. CASE Cash = t.debit
      BY Zenon, <2>3, <2>4
    <2>5. CASE Cash = t.credit
      BY Zenon, <2>1, <2>3, <2>5
    <2> QED
      BY <2>3, <2>4, <2>5
  <1>6. ASSUME NEW t \in Transfer, CreateTransfer(t), TransferStatus(t) # "created"
        PROVE  accounts' = accounts
    BY <1>6 DEF CreateTransfer
  <1>7. ASSUME NEW id \in TransferIDs, ExpireTransfer(id)
        PROVE  DueTo(Cash)' = DueTo(Cash)
    <2>1. PICK t \in Transfer : t = transfers[id]
      BY <1>1, <1>7 DEF ExpireTransfer, LedgerInv, LedgerTypeOK
    <2>2. Recipe(t) /\ t.pending
      BY Zenon, <1>1, <1>7, <2>1, LapseBooks
    <2>3. Cash # t.credit
      BY Zenon, <2>2, IDAssumption DEF Recipe
    <2> QED
      BY <1>1, <1>7, <2>1, <2>3, FundsAfterLapse
  <1>8. CASE DueTo(Cash)' = DueTo(Cash)
    BY <1>2, <1>8 DEF CashUnencumbered, DueTo
  <1>9. CASE accounts' = accounts
    BY <1>9 DEF CashUnencumbered, Usable
  <1> QED
    BY Zenon, <1>1, <1>3, <1>4, <1>5, <1>6, <1>7, <1>8, <1>9 DEF LedgerEffect

\* A wallet has at least what is held on it.
LEMMA WalletFunds ==
    ASSUME LedgerInv, HoldsBooked, NEW w \in Wallets
    PROVE  /\ FundsOf(w) \in Nat
           /\ Usable(w) # None =>
                  \A t \in Transfer : ~ExceedsCredits(accounts[w], t) => t.amount <= FundsOf(w)
  <1>1. CASE Usable(w) = None
    BY <1>1 DEF FundsOf
  <1>2. CASE Usable(w) # None
    <2> DEFINE account == accounts[w]
    <2>1. w \in AccountIDs /\ w # Cash
      BY WalletsAreAccounts, UsableFacts
    <2>2. account # None /\ account \in Account /\ account.code # "safeguarded_cash"
      BY <1>2, <2>1, UsableFacts
    <2>3. account.flags = "debits_must_not_exceed_credits"
      BY <1>2, <2>2, MetadataFacts DEF Usable, FlagsOf
    <2>4. WithinLimits(account)
      BY <2>1, <2>2 DEF LedgerInv, LedgerOK
    <2>5. account.debitsPending >= 0
      <3>1. StandingHolds(w) \in Nat /\ account.debitsPending >= StandingHolds(w)
        BY <2>1, <2>2, HoldFacts DEF HoldsBooked
      <3> QED
        BY <2>2, <3>1 DEF Account
    <2>6. FundsOf(w) = account.creditsPosted - account.debitsPosted
      BY <1>2, <2>2 DEF FundsOf, PostedBalance
    <2>7. /\ account.debitsPending \in Int
          /\ account.creditsPosted \in Nat /\ account.debitsPosted \in Nat
      BY <2>2 DEF Account
    <2> HIDE DEF account
    <2>8. FundsOf(w) \in Nat
      BY <2>3, <2>4, <2>5, <2>6, <2>7 DEF WithinLimits
    <2>9. ASSUME NEW t \in Transfer, ~ExceedsCredits(account, t)
          PROVE  t.amount <= FundsOf(w)
      <3>1. t.amount \in Nat
        BY DEF Transfer
      <3> QED
        BY <2>3, <2>5, <2>6, <2>7, <2>9, <3>1 DEF ExceedsCredits
    <2> QED
      BY <2>8, <2>9 DEF account
  <1> QED
    BY <1>1, <1>2

\* What a wallet can pay, cash can: the ledger never finds a withdrawal to
\* exceed the debits of cash.
LEMMA NeverExceedsDebits ==
    ASSUME LedgerInv, FundsConserved, HoldsBooked, CashUnencumbered,
           NEW t \in Transfer, Recipe(t)
    PROVE  TransferStatus(t) # "exceeds_debits"
  <1> SUFFICES ASSUME TransferStatus(t) = "exceeds_debits" PROVE FALSE
    OBVIOUS
  <1> DEFINE cash == accounts[Cash]
  <1>1. /\ ~ExceedsCredits(accounts[t.debit], t)
        /\ ExceedsDebits(accounts[t.credit], t)
    BY DEF TransferStatus, ExistsStatus, NewStatus
  <1>2. /\ t.debit \in AccountIDs /\ t.credit \in AccountIDs /\ t.amount \in Nat
        /\ t.code \in TransferCodes
    BY DEF Transfer
  <1>3. Usable(t.credit) # None /\ Usable(t.debit) # None
    BY RecipeWallets
  <1>4. accounts[t.credit] # None /\ accounts[t.credit] \in Account
    BY <1>2, <1>3, UsableFacts
  <1>5. t.credit = Cash
    <2>1. accounts[t.credit].flags = FlagsOf(accounts[t.credit].code)
      <3>1. MetadataForAccount(accounts[t.credit]) # None
        BY <1>3, <1>4 DEF Usable
      <3> QED
        BY Zenon, <1>4, <3>1, MetadataFacts
    <2>2. accounts[t.credit].code = "safeguarded_cash"
      BY Zenon, <1>1, <2>1 DEF ExceedsDebits, FlagsOf
    <2> QED
      BY <1>2, <1>3, <2>2, UsableFacts
  <1>6. t.debit \in Wallets
    BY <1>2, <1>5, RecipeWallets, IDAssumption DEF TransferCodes, Moves, Holds
  <1>7. t.amount <= FundsOf(t.debit)
    BY <1>1, <1>3, <1>6, WalletFunds
  <1>8. TotalFunds \in Int /\ FundsOf(t.debit) <= TotalFunds /\ FundsOf(t.debit) \in Int
    <2> DEFINE f == [a \in Wallets |-> FundsOf(a)]
    <2>1. \A a \in Wallets : f[a] \in Nat
      BY WalletFunds
    <2>2. TotalFunds = SumFunctionOnSet(f, Wallets) /\ f[t.debit] = FundsOf(t.debit)
      BY <1>6 DEF TotalFunds, SumFunction
    <2> HIDE DEF f
    <2>3. /\ SumFunctionOnSet(f, Wallets) \in Nat
          /\ f[t.debit] <= SumFunctionOnSet(f, Wallets) /\ f[t.debit] \in Nat
      BY <1>6, <2>1, SumBound, WalletsAreAccounts
    <2> QED
      BY <2>2, <2>3
  <1>9. TotalFunds = FundsOf(Cash)
    BY ConservedTotals
  <1>10. FundsOf(Cash) = cash.debitsPosted - cash.creditsPosted
    <2>1. cash.code = "safeguarded_cash"
      BY <1>2, <1>3, <1>5, UsableFacts
    <2> QED
      BY <1>3, <1>5, <2>1 DEF FundsOf, PostedBalance
  <1>11. cash.creditsPending = 0
    BY <1>3, <1>5 DEF CashUnencumbered
  <1>12. cash.debitsPosted \in Nat /\ cash.creditsPosted \in Nat
    BY <1>4, <1>5 DEF Account
  <1>13. cash.creditsPending + cash.creditsPosted + t.amount > cash.debitsPosted
    BY <1>1, <1>5 DEF ExceedsDebits
  <1> HIDE DEF cash
  <1> QED
    BY <1>2, <1>7, <1>8, <1>9, <1>10, <1>11, <1>12, <1>13

\* A withdrawal its wallet can pay is never refused for lack of cash, provided
\* the books balance and nothing is held on cash when the service first runs.
THEOREM CashAlwaysCovers ==
    Spec /\ FundsConserved /\ CashUnencumbered => []CashCoversWithdrawals
  <1>1. None # "exceeds_debits"
    BY ServiceAssumption DEF Statuses
  <1>2. Init => CashCoversWithdrawals
    BY <1>1 DEF Init, CashCoversWithdrawals, Idle
  <1>3. IInv /\ [Next]_vars /\ CashUnencumbered => CashUnencumbered'
    BY StepLeavesCashFree
  <1>4. /\ IInv /\ [Next]_vars /\ FundsConserved /\ HoldsBooked /\ CashUnencumbered
        /\ CashCoversWithdrawals
        => CashCoversWithdrawals'
    <2> SUFFICES ASSUME IInv, [Next]_vars, FundsConserved, HoldsBooked,
                        CashUnencumbered, CashCoversWithdrawals, NEW p \in Handlers
                 PROVE  handler'[p].status # "exceeds_debits"
      BY DEF CashCoversWithdrawals
    <2>1. handler[p].status # "exceeds_debits"
      BY DEF CashCoversWithdrawals
    <2>2. handler[p].pc = "waiting" => TransferStatus(handler[p].transfer) # "exceeds_debits"
      <3> SUFFICES ASSUME handler[p].pc = "waiting"
                   PROVE  TransferStatus(handler[p].transfer) # "exceeds_debits"
        OBVIOUS
      <3>1. handler[p].transfer \in Transfer /\ Recipe(handler[p].transfer)
        BY Zenon, HandlerFacts DEF HandlerSubmitted, HandlerRecord
      <3> QED
        BY Zenon, <3>1, NeverExceedsDebits, Parts
    <2> QED
      BY <1>1, <2>1, <2>2, StatusSource DEF StatusFromLedger
  <1> QED
    BY <1>2, <1>3, <1>4, FundsAlwaysConserved, HoldsAlwaysBooked, Invariance, PTL DEF Spec

=============================================================================
