-------------------------- MODULE MCLedgerService --------------------------
(***************************************************************************)
(* Small instances of LedgerService: accounts, callers' requests and       *)
(* configurations for the runs.                                            *)
(***************************************************************************)
EXTENDS LedgerService, TLC

CONSTANTS corp, corp2, card, card2,        \* wallets
          t1, t2, t3,                      \* transfer IDs
          m1,                              \* merchants
          i1, i2, h1, h2                   \* instances and handlers

Blank == [op |-> "get_balance", id |-> None, account |-> None, card |-> None,
          parent |-> None, kind |-> None, merchant |-> None, amount |-> 0,
          auth |-> None]

CreateCorporate(a) ==
    [Blank EXCEPT !.op = "create_account", !.account = a,
                  !.kind = "corporate_wallet"]
CreateCard(a, parent) ==
    [Blank EXCEPT !.op = "create_account", !.account = a,
                  !.kind = "card_wallet", !.parent = parent]
Balance(a) == [Blank EXCEPT !.account = a]
Funds(op, id, a, amount) ==
    [Blank EXCEPT !.op = op, !.id = id, !.account = a, !.amount = amount]
Move(op, id, a, c, amount) ==
    [Blank EXCEPT !.op = op, !.id = id, !.account = a, !.card = c,
                  !.amount = amount]
Authorize(id, c, m, amount) ==
    [Blank EXCEPT !.op = "authorization", !.id = id, !.card = c,
                  !.merchant = m, !.amount = amount]
Increment(id, auth, amount) ==
    [Blank EXCEPT !.op = "authorization_increment", !.id = id, !.auth = auth,
                  !.amount = amount]

OneInstance == [p \in Handlers |-> i1]
TwoInstances == [p \in Handlers |-> IF p = h1 THEN i1 ELSE i2]
SameClocks == [i \in Instances |-> 0]
SlowClocks == [i \in Instances |-> -1]
FastClocks == [i \in Instances |-> 1]

NoRequests == {}

\* Handlers of one instance are alike.
HandlerSymmetry == Permutations({h1, h2})

\* Cash and wallets as earlier top-ups and allocations left them.
With(account, credits, debits) ==
    [account EXCEPT !.creditsPosted = credits, !.debitsPosted = debits]

\* A corporate wallet holding 2, and the cash that backs it.
Corporate ==
    [a \in AccountIDs |->
        CASE a = Cash -> With(NewAccount("safeguarded_cash", Cash, None), 0, 2)
          [] a = corp -> With(NewAccount("corporate_wallet", corp, None), 2, 0)
          [] OTHER -> None]

\* A card wallet holding funds, its corporate wallet, and the cash.
Holder(funds) ==
    [a \in AccountIDs |->
        CASE a = Cash ->
                 With(NewAccount("safeguarded_cash", Cash, None), 0, funds)
          [] a = corp ->
                 With(NewAccount("corporate_wallet", corp, None), funds, funds)
          [] a = card ->
                 With(NewAccount("card_wallet", card, corp), funds, 0)
          [] OTHER -> None]

FundedHolder == {Holder(2)}
RichHolder == {Holder(3)}

\* A corporate wallet holding 2, and a card-like account another program
\* created without the limit a card wallet needs.
ForeignCard ==
    {[a \in AccountIDs |->
        IF a = card2
        THEN [NewAccount("card_wallet", card2, corp) EXCEPT !.flags = "none"]
        ELSE Corporate[a]]}

\* The settlement account's ID is free, or another program took it.
FreeOrTaken ==
    {Corporate,
     [Corporate EXCEPT ![Settlement] =
         [NewAccount("card_settlement_payable", Settlement, None)
             EXCEPT !.extra = TRUE]]}

\* Competing top-ups and withdrawals; t2 is used with two payloads.
\* One request names a reserved ID.
MoneyRequests ==
    {Funds("topup", t1, corp, 1), Funds("withdrawal", t2, corp, 3),
     Funds("withdrawal", t2, corp, 1), Funds("withdrawal", t3, corp, 2),
     Balance(corp), CreateCorporate(Cash)}

\* Account creation under contended IDs; an allocation, returns and a hold that
\* compete for a card's funds, one return to the wrong corporate wallet; a hold on
\* the foreign card.
CardRequests ==
    {CreateCorporate(corp2), CreateCard(card, corp), CreateCard(card, corp2),
     Move("card_allocation", t1, corp, card, 2),
     Move("card_return", t2, corp, card, 2),
     Move("card_return", t2, corp2, card, 1),
     Authorize(t3, card, m1, 1), Authorize(t3, card2, m1, 1)}

\* An authorization, its increments, and IDs used with other payloads.
HoldRequests ==
    {Authorize(t1, card, m1, 1), Increment(t2, t1, 1), Increment(t2, t1, 2),
     Increment(t3, t2, 1)}

\* One authorization and one increment of it.
IncrementRequests == {Authorize(t1, card, m1, 1), Increment(t2, t1, 1)}

\* Holds above and below the limit, and an increment of what is no authorization.
DeclineRequests ==
    {Authorize(t1, card, m1, 1), Authorize(t2, card, m1, 2),
     Increment(t3, t1, 1), Increment(t3, t1, 2), Increment(t2, t3, 1)}
=============================================================================
