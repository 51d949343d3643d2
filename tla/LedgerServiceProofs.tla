------------------------- MODULE LedgerServiceProofs ------------------------
(***************************************************************************)
(* Safety of LedgerService for every set of accounts, requests, instances  *)
(* and handlers, every cache size, clock skew and configuration: one lemma *)
(* for each action of a request, from Receive to the answer, then one for  *)
(* each background and lifecycle step shows that it keeps the inductive    *)
(* invariant, and the theorems follow from it.                             *)
(***************************************************************************)
EXTENDS LedgerServiceInv

\* Receive preserves the invariant.
LEMMA ReceiveStep ==
    ASSUME IInv, NEW p \in Handlers, NEW r \in Requests, Receive(p, r)
    PROVE  IInv'
  <1>1. handler[p] = Idle /\ instance[Home[p]].phase = "up"
    BY Parts DEF Receive, HandlerInv, HandlersOK, HandlerOK
  <1>2. UNCHANGED <<ledgerVars, lateVars, instance, cache>>
    BY DEF Receive
  <1>3. CASE /\ ValidRequest(r)
             /\ handler' = [handler EXCEPT ![p].pc = FirstPlace(r), ![p].req = r]
             /\ Quiet
    <2> DEFINE h == [Idle EXCEPT !.pc = FirstPlace(r), !.req = r]
    <2>1. handler' = [handler EXCEPT ![p] = h]
      BY Zenon, <1>1, <1>3, Parts DEF HandlerInv
    <2>2. /\ h.pc = FirstPlace(r) /\ h.req = r /\ h.original = None
          /\ h.transfer = None /\ h.status = None
      BY DEF Idle
    <2> HIDE DEF h
    <2>3. r.op \in Operations
      BY <1>3, ValidRequestFacts DEF Request
    <2>4. /\ FirstPlace(r) \in {"balance", "card", "original", "create", "account"}
          /\ r.op \in OperationsAt(FirstPlace(r))
      BY <2>3 DEF FirstPlace, OperationsAt, Operations, TransferCodes, Moves, Holds
    <2>5. h \in HandlerRecord
      BY Zenon, <2>4, IdleOK DEF h, HandlerRecord, Places
    <2>6. HandlerServes(h, Home[p])
      BY <1>1, <1>3, <2>2, <2>4 DEF HandlerServes
    <2>7. HandlerKnows(h)
      BY <2>2, <2>3 DEF HandlerKnows, FirstPlace, AtCard, Moves
    <2>8. HandlerSubmitted(h)
      BY Zenon, <2>2, <2>4 DEF HandlerSubmitted
    <2>9. HandlerOK(h, Home[p])
      BY <2>2, <2>4, <2>6, <2>7, <2>8 DEF HandlerOK
    <2>10. HandlerMove(p) /\ ReplyInv'
      BY Zenon, <1>2, <1>3, <2>1, <2>5, <2>9, MoveOK, QuietOK, Parts
    <2> QED
      BY <1>2, <2>10, LocalStepOK
  <1>4. CASE /\ Respond(r, "invalid_request", FALSE, FALSE)
             /\ UNCHANGED <<handler, declined>>
    <2>1. handler' = [handler EXCEPT ![p] = Idle]
      BY <1>1, <1>4, Parts DEF HandlerInv
    <2>2. HandlerMove(p)
      BY Zenon, <1>2, <2>1, IdleOK, MoveOK
    <2>3. r \in Request
      BY ServiceAssumption
    <2>4. ReplyInv'
      BY Zenon, <1>4, <2>3, Parts
      DEF ReplyInv, Respond, Reply, Outcomes, SuccessIsCommitted, RejectionIsFinal
    <2> QED
      BY <1>2, <2>2, <2>4, LocalStepOK
  <1> QED
    BY Zenon, <1>3, <1>4 DEF Receive

\* The account a handler needs at its place.
LEMMA NeededFacts ==
    ASSUME IInv, NEW p \in Handlers,
           handler[p].pc \in {"account", "card", "lookup_account", "lookup_card"}
    PROVE  /\ Needed(handler[p]) \in AccountIDs
           /\ NeededKind(handler[p]) \in Kinds
  <1> DEFINE h == handler[p]
             r == handler[p].req
  <1>1. /\ r \in Requests /\ ValidRequest(r) /\ h \in HandlerRecord
        /\ HandlerServes(h, Home[p]) /\ HandlerKnows(h)
    BY HandlerFacts
  <1>2. r.op \in OperationsAt(h.pc)
    BY <1>1 DEF HandlerServes
  <1>3. CASE AtCard(h)
    <2>1. r.op \in Moves \cup Holds
      BY <1>2, <1>3 DEF OperationsAt, AtCard
    <2>2. CASE r.op = "authorization_increment"
      <3>1. h.original \in Transfer
        BY Zenon, <1>1, <1>3, <2>2 DEF HandlerKnows, AtCard, HandlerRecord
      <3> QED
        BY <1>3, <2>2, <3>1 DEF Needed, NeededKind, Transfer, Kinds
    <2>3. CASE r.op # "authorization_increment"
      <3>1. r.card \in Wallets
        BY <1>1, <2>1, <2>3, ValidRequestFacts DEF Holds
      <3> QED
        BY <1>3, <2>3, <3>1 DEF Needed, NeededKind, AccountIDs, Kinds
    <2> QED
      BY <2>2, <2>3
  <1>4. CASE ~AtCard(h)
    <2>1. r.op \in {"topup", "withdrawal", "create_account"} \cup Moves
          /\ h.pc \in {"account", "lookup_account"}
      BY <1>2, <1>4 DEF OperationsAt, AtCard
    <2>2. CASE r.op = "create_account"
      <3>1. r.kind = "card_wallet"
        BY Zenon, <1>1, <2>1, <2>2 DEF HandlerKnows
      <3>2. r.parent \in Wallets
        BY <1>1, <2>2, <3>1, ValidRequestFacts
      <3> QED
        BY <1>4, <2>2, <3>2 DEF Needed, NeededKind, AccountIDs, Kinds
    <2>3. CASE r.op # "create_account"
      <3>1. r.account \in Wallets
        BY <1>1, <2>1, <2>3, ValidRequestFacts
      <3> QED
        BY <1>4, <2>3, <3>1 DEF Needed, NeededKind, AccountIDs, Kinds
    <2> QED
      BY <2>2, <2>3
  <1> QED
    BY Zenon, <1>3, <1>4

\* requireAccountKind found an account of the kind it wants.
LEMMA KindKnownOK ==
    ASSUME IInv, NEW p \in Handlers,
           handler[p].pc \in {"account", "card", "lookup_account", "lookup_card"},
           Usable(Needed(handler[p])) # None,
           Usable(Needed(handler[p])).kind = NeededKind(handler[p]),
           KindKnown(p, Usable(Needed(handler[p]))),
           UNCHANGED <<ledgerVars, instance>>
    PROVE  HandlerMove(p) /\ ReplyInv'
  <1> DEFINE h == handler[p]
             r == handler[p].req
             metadata == Usable(Needed(h))
  <1>1. /\ r \in Requests /\ ValidRequest(r) /\ h \in HandlerRecord
        /\ HandlerServes(h, Home[p]) /\ HandlerKnows(h) /\ h.pc # "idle"
        /\ IsKind(Cash, "safeguarded_cash")
    BY Zenon, HandlerFacts
  <1>2. /\ r.op \in OperationsAt(h.pc)
        /\ instance[Home[p]].phase = "up"
    BY <1>1 DEF HandlerServes
  <1>3. Needed(h) \in AccountIDs /\ IsKind(Needed(h), NeededKind(h))
    BY NeededFacts DEF IsKind
  <1>4. /\ AtCard(h) => NeededKind(h) = "card_wallet"
        /\ ~AtCard(h) => NeededKind(h) = "corporate_wallet"
        /\ h.pc \notin {"idle", "original"}
    BY DEF NeededKind
  <1>5. r.op \in {"topup", "withdrawal"} \cup Moves \cup Holds => r.op \in TransferCodes
    BY DEF TransferCodes, Moves, Holds
  <1>6. CASE r.op = "topup" /\ Submit(p, TopUpTransfer(r))
    <2>1. ~AtCard(h)
      BY <1>2, <1>6 DEF OperationsAt, AtCard, Moves, Holds
    <2>2. IsKind(r.account, "corporate_wallet")
      BY Zenon, <1>3, <1>4, <1>6, <2>1 DEF Needed
    <2> QED
      BY Zenon, <1>1, <1>4, <1>5, <1>6, <2>2, TopUpOK, SubmitOK
  <1>7. CASE r.op = "withdrawal" /\ Submit(p, WithdrawalTransfer(r))
    <2>1. ~AtCard(h)
      BY <1>2, <1>7 DEF OperationsAt, AtCard, Moves, Holds
    <2>2. IsKind(r.account, "corporate_wallet")
      BY Zenon, <1>3, <1>4, <1>7, <2>1 DEF Needed
    <2> QED
      BY Zenon, <1>1, <1>4, <1>5, <1>7, <2>2, WithdrawalOK, SubmitOK
  <1>8. CASE r.op = "create_account" /\ Goto(p, "create") /\ Quiet
    <2>1. ~AtCard(h)
      BY <1>2, <1>8 DEF OperationsAt, AtCard, Moves, Holds
    <2>2. IsKind(r.parent, "corporate_wallet")
      BY Zenon, <1>3, <1>4, <1>8, <2>1 DEF Needed
    <2> DEFINE n == [h EXCEPT !.pc = "create"]
    <2>3. n.pc = "create" /\ n.req = r
      BY <1>1 DEF HandlerRecord
    <2> HIDE DEF n
    <2>4. HandlerServes(n, Home[p])
      BY <1>1, <1>2, <1>8, <2>3 DEF HandlerServes, OperationsAt
    <2>5. HandlerKnows(n) /\ HandlerSubmitted(n)
      BY Zenon, <1>8, <2>2, <2>3 DEF HandlerKnows, HandlerSubmitted, Moves
    <2>6. HandlerOK(n, Home[p])
      BY <2>3, <2>4, <2>5 DEF HandlerOK
    <2> QED
      BY Zenon, <1>1, <1>8, <2>6, GotoOK DEF n, Places
  <1>9. CASE r.op \in Moves /\ ~AtCard(h) /\ Goto(p, "card") /\ Quiet
    <2>1. IsKind(r.account, "corporate_wallet")
      BY Zenon, <1>3, <1>4, <1>9 DEF Needed, Moves
    <2> DEFINE n == [h EXCEPT !.pc = "card"]
    <2>2. n.pc = "card" /\ n.req = r
      BY <1>1 DEF HandlerRecord
    <2> HIDE DEF n
    <2>3. HandlerServes(n, Home[p])
      BY <1>1, <1>2, <1>9, <2>2 DEF HandlerServes, OperationsAt
    <2>4. HandlerKnows(n) /\ HandlerSubmitted(n)
      BY Zenon, <1>9, <2>1, <2>2 DEF HandlerKnows, HandlerSubmitted, Moves
    <2>5. HandlerOK(n, Home[p])
      BY <2>2, <2>3, <2>4 DEF HandlerOK
    <2> QED
      BY Zenon, <1>1, <1>9, <2>5, GotoOK DEF n, Places
  <1>10. CASE /\ r.op \in Moves /\ AtCard(h) /\ CardLinked(r, metadata)
              /\ Submit(p, CardTransfer(r))
    <2>1. IsKind(r.account, "corporate_wallet")
      BY Zenon, <1>1, <1>10 DEF HandlerKnows
    <2>2. Needed(h) = r.card
      BY Zenon, <1>10 DEF Needed, Moves
    <2>3. IsKind(r.card, "card_wallet")
      BY <1>3, <1>4, <1>10, <2>2
    <2>4. metadata.parent = accounts[r.card].parent
      BY Zenon, <1>3, <2>2, MetadataFacts, Parts DEF IsKind, Usable, LedgerInv, LedgerTypeOK
    <2>5. accounts[r.card].parent = r.account
      BY Zenon, <1>10, <2>4 DEF CardLinked
    <2> QED
      BY Zenon, <1>1, <1>4, <1>5, <1>10, <2>1, <2>3, <2>5, CardMoveOK, SubmitOK
  <1>11. CASE Finish(p, "invalid_request", FALSE)
    BY Zenon, <1>1, <1>11, AnswerOK DEF Outcomes
  <1>12. CASE /\ r.op \in {"authorization", "authorization_increment"}
              /\ Goto(p, "risk") /\ Quiet
    <2> DEFINE n == [h EXCEPT !.pc = "risk"]
    <2>1. n.pc = "risk" /\ n.req = r /\ n.original = h.original
      BY <1>1 DEF HandlerRecord
    <2> HIDE DEF n
    <2>2. AtCard(h)
      BY <1>2, <1>12 DEF OperationsAt, AtCard, Moves
    <2>3. r.op = "authorization" => IsKind(r.card, "card_wallet")
      BY Zenon, <1>3, <1>4, <2>2 DEF Needed
    <2>4. HandlerServes(n, Home[p])
      BY <1>1, <1>2, <1>12, <2>1 DEF HandlerServes, OperationsAt, Holds
    <2>5. HandlerKnows(n) /\ HandlerSubmitted(n)
      BY Zenon, <1>1, <1>4, <1>12, <2>1, <2>3 DEF HandlerKnows, HandlerSubmitted, AtCard
    <2>6. HandlerOK(n, Home[p])
      BY Zenon, <2>1, <2>4, <2>5 DEF HandlerOK
    <2> QED
      BY Zenon, <1>1, <1>12, <2>6, GotoOK DEF n, Places
  <1> QED
    BY Zenon, <1>6, <1>7, <1>8, <1>9, <1>10, <1>11, <1>12 DEF KindKnown

\* requireAccountKind refusing an account keeps the invariant.
LEMMA KindUnknownOK ==
    ASSUME IInv, NEW p \in Handlers, handler[p].pc # "idle", KindUnknown(p)
    PROVE  HandlerMove(p) /\ ReplyInv'
  <1>1. CASE Decline(p, "authorization_not_open", FALSE)
    BY Zenon, <1>1, AnswerOK DEF Outcomes
  <1>2. CASE Finish(p, "account_not_found", FALSE)
    BY Zenon, <1>2, AnswerOK DEF Outcomes
  <1> QED
    BY Zenon, <1>1, <1>2 DEF KindUnknown

\* LoadMetadata preserves the invariant.
LEMMA LoadMetadataStep ==
    ASSUME IInv, NEW p \in Handlers, LoadMetadata(p)
    PROVE  IInv'
  <1> DEFINE h == handler[p]
             metadata == cache[Home[p]][Needed(h)]
             place == IF AtCard(h) THEN "lookup_card" ELSE "lookup_account"
  <1>1. /\ h.pc \in {"account", "card"} /\ h.pc # "idle"
        /\ UNCHANGED <<ledgerVars, lateVars, instance, cache>>
    BY DEF LoadMetadata
  <1>2. /\ h \in HandlerRecord /\ HandlerServes(h, Home[p]) /\ HandlerKnows(h)
        /\ Home[p] \in Instances
    BY <1>1, HandlerFacts
  <1>3. Needed(h) \in AccountIDs
    BY <1>1, NeededFacts
  <1>4. CASE Goto(p, place) /\ Quiet
    <2> DEFINE n == [h EXCEPT !.pc = place]
    <2>1. /\ n.pc = place /\ n.req = h.req /\ n.original = h.original
      BY <1>2 DEF HandlerRecord
    <2>2. /\ h.pc = "account" => place = "lookup_account"
          /\ h.pc = "card" => place = "lookup_card"
      BY DEF AtCard
    <2> HIDE DEF n, place
    <2>3. HandlerServes(n, Home[p])
      BY <1>1, <1>2, <2>1, <2>2 DEF HandlerServes, OperationsAt
    <2>4. HandlerKnows(n)
      BY Zenon, <1>1, <1>2, <2>1, <2>2 DEF HandlerKnows, AtCard
    <2>5. HandlerSubmitted(n) /\ place \in Places /\ place # "idle"
      BY Zenon, <1>1, <2>1, <2>2 DEF HandlerSubmitted, Places
    <2>6. HandlerOK(n, Home[p])
      BY <2>1, <2>3, <2>4, <2>5 DEF HandlerOK
    <2>7. HandlerMove(p) /\ ReplyInv'
      BY <1>1, <1>4, <2>5, <2>6, GotoOK DEF n
    <2> QED
      BY <1>1, <2>7, LocalStepOK
  <1>5. CASE metadata # None /\ metadata.kind = NeededKind(h) /\ KindKnown(p, metadata)
    <2>1. metadata = Usable(Needed(h))
      BY Zenon, <1>2, <1>3, <1>5, Parts DEF CacheInv, CacheCoherent
    <2>2. HandlerMove(p) /\ ReplyInv'
      BY Zenon, <1>1, <1>5, <2>1, KindKnownOK
    <2> QED
      BY <1>1, <2>2, LocalStepOK
  <1>6. CASE KindUnknown(p)
    BY Zenon, <1>1, <1>6, KindUnknownOK, LocalStepOK
  <1> QED
    BY Zenon, <1>4, <1>5, <1>6 DEF LoadMetadata

\* LookupAccount preserves the invariant.
LEMMA LookupAccountStep ==
    ASSUME IInv, NEW p \in Handlers, LookupAccount(p)
    PROVE  IInv'
  <1> DEFINE h == handler[p]
             account == accounts[Needed(h)]
             metadata == Usable(Needed(h))
  <1>1. /\ h.pc \in {"lookup_account", "lookup_card"} /\ h.pc # "idle"
        /\ UNCHANGED <<ledgerVars, lateVars, instance>>
    BY DEF LookupAccount
  <1>2. Home[p] \in Instances /\ Needed(h) \in AccountIDs
    BY <1>1, HandlerFacts, NeededFacts
  <1>3. LedgerInv' /\ LedgerGrows /\ LateInv'
    BY <1>1, Parts, LedgerUnchanged, LateStable DEF lateVars
  <1>4. CASE /\ metadata # None /\ metadata.kind = NeededKind(h)
             /\ Remember(Home[p], account) /\ KindKnown(p, metadata)
    <2>1. account # None /\ account \in Account /\ account.id = Needed(h)
      BY Zenon, <1>2, <1>4, Parts DEF Usable, LedgerInv, LedgerTypeOK, LedgerOK
    <2>2. accounts'[account.id] = account /\ SameAccount(account, account)
      BY <1>1, <2>1 DEF ledgerVars, SameAccount
    <2>3. CacheInv'
      BY <1>2, <1>3, <1>4, <2>1, <2>2, Parts, RememberOK
    <2>4. HandlerMove(p) /\ ReplyInv'
      BY Zenon, <1>1, <1>4, KindKnownOK
    <2> QED
      BY <1>1, <1>3, <2>3, <2>4, HandlerStepOK
  <1>5. CASE KindUnknown(p) /\ UNCHANGED cache
    BY <1>1, <1>5, KindUnknownOK, LocalStepOK
  <1> QED
    BY Zenon, <1>4, <1>5 DEF LookupAccount, Usable

\* LookupOriginal preserves the invariant.
LEMMA LookupOriginalStep ==
    ASSUME IInv, NEW p \in Handlers, LookupOriginal(p)
    PROVE  IInv'
  <1> DEFINE h == handler[p]
             original == transfers[h.req.auth]
  <1>1. /\ h.pc = "original" /\ h.pc # "idle"
        /\ UNCHANGED <<ledgerVars, lateVars, instance, cache>>
    BY DEF LookupOriginal
  <1>2. /\ h \in HandlerRecord /\ HandlerServes(h, Home[p])
        /\ h.req \in Requests /\ ValidRequest(h.req)
    BY <1>1, HandlerFacts
  <1>3. h.req.op = "authorization_increment"
    BY <1>1, <1>2 DEF HandlerServes, OperationsAt
  <1>4. h.req.auth \in TransferIDs
    BY <1>2, <1>3, ValidRequestFacts
  <1>5. CASE Finish(p, "authorization_not_found", FALSE)
    BY Zenon, <1>1, <1>5, AnswerOK, LocalStepOK DEF Outcomes
  <1>6. CASE Decline(p, "authorization_not_open", FALSE)
    BY Zenon, <1>1, <1>6, AnswerOK, LocalStepOK DEF Outcomes
  <1>7. CASE /\ original # None /\ IsAuthorization(original)
             /\ handler' = [handler EXCEPT ![p].pc = "card", ![p].original = original]
             /\ Quiet
    <2> DEFINE n == [h EXCEPT !.pc = "card", !.original = original]
    <2>1. original \in Transfer
      BY <1>4, <1>7, Parts DEF LedgerInv, LedgerTypeOK
    <2>2. handler' = [handler EXCEPT ![p] = n]
      BY Zenon, <1>7, Parts DEF HandlerInv
    <2>3. n \in HandlerRecord
      BY Zenon, <1>2, <2>1 DEF HandlerRecord, Places
    <2>4. n.pc = "card" /\ n.req = h.req /\ n.original = original
      BY <1>2 DEF HandlerRecord
    <2> HIDE DEF n
    <2>5. HandlerServes(n, Home[p])
      BY <1>2, <1>3, <2>4 DEF HandlerServes, OperationsAt, Holds
    <2>6. HandlerKnows(n) /\ HandlerSubmitted(n)
      BY <1>3, <1>7, <2>4 DEF HandlerKnows, HandlerSubmitted, Moves
    <2>7. HandlerOK(n, Home[p])
      BY <2>4, <2>5, <2>6 DEF HandlerOK
    <2>8. HandlerMove(p) /\ ReplyInv'
      BY Zenon, <1>1, <1>7, <2>2, <2>3, <2>7, MoveOK, QuietOK, Parts
    <2> QED
      BY <1>1, <2>8, LocalStepOK
  <1> QED
    BY Zenon, <1>5, <1>6, <1>7 DEF LookupOriginal

\* CancelRisk preserves the invariant.
LEMMA CancelRiskStep ==
    ASSUME IInv, NEW p \in Handlers, CancelRisk(p)
    PROVE  IInv'
  BY Zenon, AnswerOK, LocalStepOK DEF CancelRisk, Outcomes

\* EvaluateRisk preserves the invariant.
LEMMA EvaluateRiskStep ==
    ASSUME IInv, NEW p \in Handlers, EvaluateRisk(p)
    PROVE  IInv'
  <1> DEFINE h == handler[p]
             r == handler[p].req
             i == Home[p]
             clock == now + ClockSkew[i]
             seconds == RemainingSeconds(h.original, clock)
  <1>1. /\ h.pc = "risk" /\ h.pc \notin {"idle", "original"}
        /\ UNCHANGED <<ledgerVars, lateVars, instance, cache>>
    BY Zenon DEF EvaluateRisk
  <1>2. /\ h \in HandlerRecord /\ HandlerServes(h, i) /\ HandlerKnows(h)
        /\ r \in Requests /\ ValidRequest(r) /\ i \in Instances
        /\ IsKind(Settlement, "card_settlement_payable")
    BY <1>1, HandlerFacts
  <1>3. r.op \in Holds /\ r.op \in TransferCodes
    BY <1>1, <1>2 DEF HandlerServes, OperationsAt, Holds, TransferCodes
  <1>4. instance[i].timeout \in Nat /\ clock \in Int
    BY <1>2, Parts, ServiceAssumption DEF InstanceInv, LedgerInv, LedgerTypeOK
  <1>5. ASSUME NEW place \in {"replay", "late"}, Goto(p, place), Quiet,
               place = "late" => r.op = "authorization_increment"
        PROVE  IInv'
    <2> DEFINE n == [h EXCEPT !.pc = place]
    <2>1. n.pc = place /\ n.req = r /\ n.original = h.original
      BY <1>2 DEF HandlerRecord
    <2> HIDE DEF n
    <2>2. HandlerServes(n, i)
      BY <1>2, <1>3, <1>5, <2>1 DEF HandlerServes, OperationsAt
    <2>3. HandlerKnows(n) /\ HandlerSubmitted(n)
      BY Zenon, <1>1, <1>2, <1>3, <1>5, <2>1
      DEF HandlerKnows, HandlerSubmitted, Holds, Moves, AtCard
    <2>4. HandlerOK(n, i)
      BY Zenon, <2>1, <2>2, <2>3 DEF HandlerOK
    <2>5. HandlerMove(p) /\ ReplyInv'
      BY Zenon, <1>1, <1>5, <2>4, GotoOK DEF n, Places
    <2> QED
      BY <1>1, <2>5, LocalStepOK
  <1>6. CASE /\ r.op = "authorization"
             /\ Submit(p, AuthorizationTransfer(r, instance[i].timeout))
    <2>1. IsKind(r.card, "card_wallet")
      BY Zenon, <1>1, <1>2, <1>6 DEF HandlerKnows
    <2>2. /\ AuthorizationTransfer(r, instance[i].timeout) \in Transfer
          /\ Recipe(AuthorizationTransfer(r, instance[i].timeout))
          /\ Fulfils(AuthorizationTransfer(r, instance[i].timeout), r)
      BY Zenon, <1>2, <1>4, <1>6, <2>1, AuthorizationOK
    <2>3. HandlerMove(p) /\ ReplyInv'
      BY Zenon, <1>1, <1>3, <1>6, <2>2, SubmitOK
    <2> QED
      BY <1>1, <2>3, LocalStepOK
  <1>7. CASE /\ r.op = "authorization_increment"
             /\ Remaining(h.original, clock) > 0
             /\ Submit(p, IncrementTransfer(r, h.original, seconds))
    <2>1. /\ h.original \in Transfer /\ h.original = transfers[r.auth]
          /\ IsAuthorization(h.original)
      BY Zenon, <1>1, <1>2, <1>7 DEF HandlerKnows, HandlerRecord
    <2>2. seconds \in Nat
      BY Zenon, <1>4, <1>7, <2>1, RemainingSecondsNat
    <2> HIDE DEF seconds
    <2>3. /\ IncrementTransfer(r, h.original, seconds) \in Transfer
          /\ Recipe(IncrementTransfer(r, h.original, seconds))
          /\ Fulfils(IncrementTransfer(r, h.original, seconds), r)
      BY Zenon, <1>2, <1>7, <2>1, <2>2, IncrementOK, Parts DEF LedgerInv
    <2>4. HandlerMove(p) /\ ReplyInv'
      BY Zenon, <1>1, <1>3, <1>7, <2>3, SubmitOK
    <2> QED
      BY <1>1, <2>4, LocalStepOK
  <1> QED
    BY Zenon, <1>5, <1>6, <1>7 DEF EvaluateRisk

\* Fulfilling a request does not depend on the timeout.
LEMMA FulfilsSame ==
    ASSUME NEW u, NEW t, NEW r, SameTransferExceptTimeout(u, t), Fulfils(t, r)
    PROVE  Fulfils(u, r)
  BY DEF SameTransferExceptTimeout, Fulfils

\* LookupReplay preserves the invariant.
LEMMA LookupReplayStep ==
    ASSUME IInv, NEW p \in Handlers, LookupReplay(p)
    PROVE  IInv'
  <1> DEFINE h == handler[p]
             r == handler[p].req
             existing == transfers[r.id]
             seconds == instance[Home[p]].timeout
  <1>1. /\ h.pc \in {"replay", "late"} /\ h.pc \notin {"idle", "original"}
        /\ UNCHANGED <<ledgerVars, lateVars, instance, cache>>
    BY DEF LookupReplay
  <1>2. /\ h \in HandlerRecord /\ HandlerServes(h, Home[p]) /\ HandlerKnows(h)
        /\ r \in Requests /\ ValidRequest(r) /\ Home[p] \in Instances
        /\ IsKind(Settlement, "card_settlement_payable")
    BY Zenon, <1>1, HandlerFacts
  <1>3. r.op \in Holds
    BY <1>1, <1>2 DEF HandlerServes, OperationsAt, Holds
  <1>4. CASE \/ Decline(p, "risk_limit_exceeded", TRUE)
             \/ Decline(p, "authorization_not_open", FALSE)
             \/ Finish(p, "idempotency_conflict", TRUE)
    BY Zenon, <1>1, <1>4, AnswerOK, LocalStepOK DEF Outcomes
  <1>5. CASE /\ existing # None /\ IsReplay(h, existing, seconds)
             /\ Finish(p, "approved", TRUE)
    <2>1. Fulfils(existing, r)
      <3>1. CASE r.op = "authorization"
        <4>1. h.pc = "replay"
          BY <1>1, <1>2, <3>1 DEF HandlerServes, OperationsAt
        <4>2. IsKind(r.card, "card_wallet")
          BY Zenon, <1>2, <3>1, <4>1 DEF HandlerKnows
        <4>3. Fulfils(AuthorizationTransfer(r, seconds), r)
          BY Zenon, <1>2, <3>1, <4>2, AuthorizationOK, Parts DEF InstanceInv
        <4>4. SameTransferExceptTimeout(existing, AuthorizationTransfer(r, seconds))
          BY Zenon, <1>5, <3>1 DEF IsReplay, SameTransfer
        <4> QED
          BY <4>3, <4>4, FulfilsSame
      <3>2. CASE r.op = "authorization_increment"
        <4>1. /\ h.original \in Transfer /\ h.original = transfers[r.auth]
              /\ IsAuthorization(h.original)
          BY Zenon, <1>1, <1>2, <3>2 DEF HandlerKnows, HandlerRecord
        <4>2. Fulfils(IncrementTransfer(r, h.original, 0), r)
          BY Zenon, <1>2, <3>2, <4>1, IncrementOK, Parts DEF LedgerInv
        <4>3. SameTransferExceptTimeout(existing, IncrementTransfer(r, h.original, 0))
          BY Zenon, <1>5, <3>2 DEF IsReplay
        <4> QED
          BY <4>2, <4>3, FulfilsSame
      <3> QED
        BY <1>3, <3>1, <3>2 DEF Holds
    <2>2. transfers'[r.id] = existing
      BY <1>1 DEF ledgerVars
    <2>3. HandlerMove(p) /\ ReplyInv'
      BY Zenon, <1>1, <1>5, <2>1, <2>2, AnswerOK DEF Outcomes
    <2> QED
      BY <1>1, <2>3, LocalStepOK
  <1> QED
    BY Zenon, <1>4, <1>5 DEF LookupReplay

\* CommitTransfer preserves the invariant.
LEMMA CommitTransferStep ==
    ASSUME IInv, NEW p \in Handlers, CommitTransfer(p)
    PROVE  IInv'
  <1> DEFINE h == handler[p]
             r == handler[p].req
             t == handler[p].transfer
             status == TransferStatus(t)
             n == [h EXCEPT !.pc = "result", !.status = status]
  <1>1. /\ h.pc = "waiting" /\ CreateTransfer(t) /\ Quiet
        /\ UNCHANGED <<lateVars, instance, cache>>
    BY DEF CommitTransfer
  <1>2. /\ h \in HandlerRecord /\ HandlerServes(h, Home[p]) /\ HandlerKnows(h)
        /\ HandlerSubmitted(h) /\ r \in Requests /\ ValidRequest(r)
        /\ Home[p] \in Instances
    BY <1>1, HandlerFacts
  <1>3. t \in Transfer /\ Recipe(t) /\ Fulfils(t, r)
    BY Zenon, <1>1, <1>2 DEF HandlerSubmitted, HandlerRecord
  <1>4. /\ LedgerInv' /\ LedgerGrows
        /\ status \in Statuses
        /\ status \notin {"accounts_must_be_different", "account_not_found",
                          "ledger_mismatch"}
        /\ status \in {"created", "exists"} =>
               /\ transfers'[t.id] # None
               /\ SameTransferExceptTimeout(transfers'[t.id], t)
        /\ status \in {"exceeds_credits", "exceeds_debits",
                       "id_already_failed"} => t.id \in failed'
    BY Zenon, <1>1, <1>3, CreateTransferOK, Parts
  <1>5. t.id = r.id
    BY <1>3 DEF Fulfils
  <1>6. handler' = [handler EXCEPT ![p] = n]
    BY Zenon, Parts DEF CommitTransfer, HandlerInv
  <1> HIDE DEF status
  <1>7. n \in HandlerRecord
    BY Zenon, <1>2, <1>4 DEF HandlerRecord, Places
  <1>8. /\ n.pc = "result" /\ n.req = r /\ n.original = h.original
        /\ n.transfer = t /\ n.status = status
    BY <1>2 DEF HandlerRecord
  <1> HIDE DEF n
  <1>9. HandlerMove(p)
    <2>1. PICK g \in HandlerRecord : g = n
      BY <1>7
    <2>2. HandlerOK(h, Home[p])
      BY Zenon, <1>1, <1>2 DEF HandlerOK
    <2>3. PICK k \in HandlerRecord : k = h
      BY <1>2
    <2>4. HandlerOK(k, Home[p])'
      BY Zenon, <1>1, <1>2, <1>4, <2>2, <2>3, HandlerStable, Parts DEF LedgerInv
    <2>5. HandlerServes(k, Home[p])' /\ HandlerKnows(k)' /\ HandlerSubmitted(k)'
      BY <1>1, <2>3, <2>4 DEF HandlerOK
    <2>6. HandlerServes(g, Home[p])'
      BY <1>1, <1>8, <2>1, <2>3, <2>5 DEF HandlerServes, OperationsAt
    <2>7. HandlerKnows(g)'
      BY Zenon, <1>1, <1>8, <2>1, <2>3, <2>5 DEF HandlerKnows, AtCard
    <2>8. status \in {"created", "exists"} => Fulfils(transfers'[r.id], r)
      BY Zenon, <1>3, <1>4, <1>5, FulfilsSame
    <2>9. HandlerSubmitted(g)'
      <3>1. g.transfer # None /\ Recipe(g.transfer)' /\ Fulfils(g.transfer, g.req)
        BY Zenon, <1>1, <1>3, <1>8, <2>1, <2>3, <2>5, NoneAssumption DEF HandlerSubmitted
      <3> QED
        BY Zenon, <1>4, <1>5, <1>8, <2>1, <2>8, <3>1 DEF HandlerSubmitted
    <2>10. HandlerOK(g, Home[p])'
      BY Zenon, <1>8, <2>1, <2>6, <2>7, <2>9 DEF HandlerOK
    <2> QED
      BY Zenon, <1>6, <2>1, <2>10 DEF HandlerMove
  <1>10. LateInv'
    BY <1>1, <1>4, Parts, LateStable DEF lateVars
  <1>11. CacheInv'
    BY <1>1, <1>4, Parts, CacheStable DEF CacheInv, CacheCoherent
  <1>12. ReplyInv'
    BY <1>1, QuietOK, Parts
  <1> QED
    BY Zenon, <1>1, <1>4, <1>9, <1>10, <1>11, <1>12, HandlerStepOK

\* TransferResult preserves the invariant.
LEMMA TransferResultStep ==
    ASSUME IInv, NEW p \in Handlers, TransferResult(p)
    PROVE  IInv'
  <1> DEFINE h == handler[p]
             r == handler[p].req
             outcome == ResultOutcome(r, h.status)
  <1>1. /\ h.pc = "result" /\ h.pc # "idle"
        /\ UNCHANGED <<ledgerVars, lateVars, instance, cache>>
    BY DEF TransferResult
  <1>2. /\ h \in HandlerRecord /\ HandlerServes(h, Home[p]) /\ HandlerKnows(h)
        /\ HandlerSubmitted(h) /\ r \in Requests /\ ValidRequest(r)
    BY <1>1, HandlerFacts
  <1>3. CASE NeedsDriftCheck(h) /\ Goto(p, "drift") /\ Quiet
    <2> DEFINE n == [h EXCEPT !.pc = "drift"]
    <2>1. /\ n.pc = "drift" /\ n.req = r /\ n.original = h.original
          /\ n.transfer = h.transfer
      BY <1>2 DEF HandlerRecord
    <2> HIDE DEF n
    <2>2. HandlerServes(n, Home[p])
      BY <1>2, <1>3, <2>1 DEF HandlerServes, OperationsAt, NeedsDriftCheck
    <2>3. HandlerKnows(n) /\ HandlerSubmitted(n)
      BY Zenon, <1>1, <1>2, <1>3, <2>1
      DEF HandlerKnows, HandlerSubmitted, NeedsDriftCheck, Moves
    <2>4. HandlerOK(n, Home[p])
      BY <2>1, <2>2, <2>3 DEF HandlerOK
    <2>5. HandlerMove(p) /\ ReplyInv'
      BY Zenon, <1>1, <1>3, <2>4, GotoOK DEF n, Places
    <2> QED
      BY <1>1, <2>5, LocalStepOK
  <1>4. CASE Finish(p, outcome, TRUE)
    <2>1. r.op \in TransferCodes /\ r.id \in TransferIDs
      BY <1>1, <1>2, ValidRequestFacts DEF HandlerServes, OperationsAt
    <2>2. h.status \in Statuses \ {"accounts_must_be_different",
                                   "account_not_found", "ledger_mismatch"}
      BY Zenon, <1>1, <1>2 DEF HandlerSubmitted
    <2>3. outcome \in Outcomes
      BY <2>2 DEF ResultOutcome, IsIdempotencyConflict, SuccessOutcome, ErrorCode,
                  Statuses, Outcomes
    <2>4. outcome \in {"posted", "approved"} => h.status \in {"created", "exists"}
      BY <2>2 DEF ResultOutcome, IsIdempotencyConflict, ErrorCode, Statuses
    <2>5. outcome \in {"insufficient_funds", "previous_attempt_failed"} =>
              h.status \in {"exceeds_credits", "exceeds_debits", "id_already_failed"}
      BY <2>2 DEF ResultOutcome, IsIdempotencyConflict, ErrorCode, Statuses,
                  SuccessOutcome
    <2>6. outcome \in {"posted", "approved"} =>
              transfers'[r.id] # None /\ Fulfils(transfers'[r.id], r)
      BY Zenon, <1>1, <1>2, <2>4 DEF HandlerSubmitted, ledgerVars
    <2>7. outcome \in {"insufficient_funds", "previous_attempt_failed"} =>
              r.id \in failed' /\ transfers'[r.id] = None
      BY Zenon, <1>1, <1>2, <2>1, <2>5, Parts
      DEF HandlerSubmitted, ledgerVars, LedgerInv, LedgerOK
    <2> HIDE DEF outcome
    <2>8. HandlerMove(p) /\ ReplyInv'
      BY Zenon, <1>1, <1>4, <2>3, <2>6, <2>7, AnswerOK
    <2> QED
      BY <1>1, <2>8, LocalStepOK
  <1> QED
    BY Zenon, <1>3, <1>4 DEF TransferResult

\* LookupDrift preserves the invariant.
LEMMA LookupDriftStep ==
    ASSUME IInv, NEW p \in Handlers, LookupDrift(p)
    PROVE  IInv'
  <1> DEFINE h == handler[p]
             existing == transfers[h.req.id]
  <1>1. /\ h.pc = "drift" /\ h.pc # "idle"
        /\ UNCHANGED <<ledgerVars, lateVars, instance, cache>>
    BY DEF LookupDrift
  <1>2. CASE Finish(p, "idempotency_conflict", TRUE)
    BY Zenon, <1>1, <1>2, AnswerOK, LocalStepOK DEF Outcomes
  <1>3. CASE /\ existing # None /\ IsTimeoutDrift(existing, h.transfer)
             /\ Finish(p, "approved", TRUE)
    <2>1. Fulfils(h.transfer, h.req)
      BY Zenon, <1>1, HandlerFacts DEF HandlerSubmitted
    <2>2. Fulfils(existing, h.req)
      BY <1>3, <2>1, FulfilsSame DEF IsTimeoutDrift
    <2>3. transfers'[h.req.id] = existing
      BY <1>1 DEF ledgerVars
    <2>4. HandlerMove(p) /\ ReplyInv'
      BY Zenon, <1>1, <1>3, <2>2, <2>3, AnswerOK DEF Outcomes
    <2> QED
      BY <1>1, <2>4, LocalStepOK
  <1> QED
    BY Zenon, <1>2, <1>3 DEF LookupDrift

\* The account a create_account request asks for.
LEMMA RequestedAccountOK ==
    ASSUME LedgerTypeOK, NEW r \in Requests, ValidRequest(r),
           r.op = "create_account",
           r.kind = "card_wallet" => IsKind(r.parent, "corporate_wallet")
    PROVE  /\ AccountRequestOK(RequestedAccount(r))
           /\ RequestedAccount(r).id = r.account
           /\ r.account \in AccountIDs
  <1>1. /\ r.account \in Wallets
        /\ r.kind \in {"corporate_wallet", "card_wallet"}
        /\ r.kind = "card_wallet" => r.parent \in Wallets /\ r.parent # r.account
        /\ r.kind # "card_wallet" => r.parent = None
    BY Zenon, ValidRequestFacts
  <1>2. /\ r.account \in AccountIDs /\ r.kind \in Kinds
        /\ r.parent \in AccountIDs \cup {None}
    BY <1>1 DEF AccountIDs, Kinds
  <1>3. KindFitsID(r.kind, r.account) /\ ParentAllowed(r.kind, r.account, r.parent)
    BY <1>1, IDAssumption, NoneAssumption
    DEF KindFitsID, ParentAllowed, IsSystemAccountID, AccountIDs
  <1>4. RequestedAccount(r) \in Account
    BY <1>2, <1>3, NewAccountFacts DEF RequestedAccount
  <1> QED
    BY Zenon, <1>1, <1>2, <1>4 DEF AccountRequestOK, RequestedAccount, NewAccount, AccountIDs

\* CommitAccount preserves the invariant.
LEMMA CommitAccountStep ==
    ASSUME IInv, NEW p \in Handlers, CommitAccount(p)
    PROVE  IInv'
  <1> DEFINE h == handler[p]
             r == handler[p].req
             account == RequestedAccount(r)
             status == AccountStatus(account)
             n == [h EXCEPT !.pc = "created", !.status = status]
  <1>1. /\ h.pc = "create" /\ CreateAccount(account) /\ Quiet
        /\ UNCHANGED <<transfers, failed, expired, now, lateVars, instance, cache>>
    BY DEF CommitAccount
  <1>2. /\ h \in HandlerRecord /\ HandlerServes(h, Home[p]) /\ HandlerKnows(h)
        /\ r \in Requests /\ ValidRequest(r) /\ Home[p] \in Instances
    BY Zenon, <1>1, HandlerFacts
  <1>3. /\ r.op = "create_account"
        /\ r.kind = "card_wallet" => IsKind(r.parent, "corporate_wallet")
    BY <1>1, <1>2 DEF HandlerServes, OperationsAt, HandlerKnows
  <1>4. AccountRequestOK(account) /\ account.id = r.account
    BY Zenon, <1>2, <1>3, RequestedAccountOK, Parts DEF LedgerInv
  <1>5. handler' = [handler EXCEPT ![p] = n]
    BY Zenon, Parts DEF CommitAccount, HandlerInv
  <1> HIDE DEF account
  <1>6. /\ LedgerInv' /\ LedgerGrows
        /\ status \in {"created", "exists", "exists_with_different"}
        /\ AccountUsable(status) =>
               /\ accounts'[account.id] # None
               /\ SameAccount(accounts'[account.id], account)
    BY Zenon, <1>1, <1>4, CreateAccountOK, Parts
  <1> HIDE DEF status
  <1>7. n \in HandlerRecord
    BY Zenon, <1>2, <1>6 DEF HandlerRecord, Places, Statuses
  <1>8. /\ n.pc = "created" /\ n.req = r /\ n.original = h.original
        /\ n.status = status
    BY <1>2 DEF HandlerRecord
  <1> HIDE DEF n
  <1>9. HandlerMove(p)
    <2>1. PICK g \in HandlerRecord : g = n
      BY <1>7
    <2>2. PICK k \in HandlerRecord : k = h
      BY <1>2
    <2>3. HandlerOK(k, Home[p])
      BY Zenon, <1>1, <2>2, HandlerFacts DEF HandlerOK
    <2>4. HandlerOK(k, Home[p])'
      BY Zenon, <1>1, <1>2, <1>6, <2>3, HandlerStable, Parts DEF LedgerInv
    <2>5. HandlerServes(k, Home[p])' /\ HandlerKnows(k)'
      BY Zenon, <1>1, <2>2, <2>4 DEF HandlerOK
    <2>6. HandlerServes(g, Home[p])'
      BY <1>3, <1>8, <2>1, <2>2, <2>5 DEF HandlerServes, OperationsAt
    <2>7. HandlerKnows(g)'
      BY Zenon, <1>1, <1>3, <1>8, <2>1, <2>2, <2>5 DEF HandlerKnows, Moves
    <2>8. HandlerSubmitted(g)'
      BY Zenon, <1>4, <1>6, <1>8, <2>1 DEF HandlerSubmitted, AccountUsable, account
    <2>9. HandlerOK(g, Home[p])'
      BY Zenon, <1>8, <2>1, <2>6, <2>7, <2>8 DEF HandlerOK
    <2> QED
      BY Zenon, <1>5, <2>1, <2>9 DEF HandlerMove
  <1>10. LateInv'
    BY <1>1, <1>6, Parts, LateStable DEF lateVars
  <1>11. CacheInv'
    BY <1>1, <1>6, Parts, CacheStable DEF CacheInv, CacheCoherent
  <1>12. ReplyInv'
    BY <1>1, QuietOK, Parts
  <1> QED
    BY <1>1, <1>6, <1>9, <1>10, <1>11, <1>12, HandlerStepOK

\* AccountResult preserves the invariant.
LEMMA AccountResultStep ==
    ASSUME IInv, NEW p \in Handlers, AccountResult(p)
    PROVE  IInv'
  <1> DEFINE h == handler[p]
             r == handler[p].req
             account == RequestedAccount(r)
  <1>1. /\ h.pc = "created" /\ h.pc # "idle"
        /\ UNCHANGED <<ledgerVars, lateVars, instance>>
    BY DEF AccountResult
  <1>2. /\ HandlerServes(h, Home[p]) /\ HandlerKnows(h) /\ HandlerSubmitted(h)
        /\ r \in Requests /\ ValidRequest(r) /\ Home[p] \in Instances
    BY <1>1, HandlerFacts
  <1>3. LedgerInv' /\ LedgerGrows /\ LateInv'
    BY <1>1, Parts, LedgerUnchanged, LateStable DEF lateVars
  <1>4. CASE /\ AccountUsable(h.status)
             /\ Remember(Home[p], account)
             /\ Finish(p, h.status, FALSE)
    <2>1. /\ r.op = "create_account"
          /\ r.kind = "card_wallet" => IsKind(r.parent, "corporate_wallet")
      BY <1>1, <1>2 DEF HandlerServes, OperationsAt, HandlerKnows
    <2>2. AccountRequestOK(account) /\ account.id = r.account
      BY <1>2, <2>1, RequestedAccountOK, Parts DEF LedgerInv
    <2>3. account \in Account /\ account.id \in AccountIDs
      BY <2>2 DEF AccountRequestOK
    <2>4. h.status \in {"created", "exists"}
      BY <1>4 DEF AccountUsable
    <2>5. accounts'[account.id] # None /\ SameAccount(accounts'[account.id], account)
      BY Zenon, <1>1, <1>2, <2>2, <2>4 DEF HandlerSubmitted, ledgerVars
    <2>6. CacheInv'
      BY Zenon, <1>2, <1>3, <1>4, <2>3, <2>5, RememberOK, Parts
    <2>7. HandlerMove(p) /\ ReplyInv'
      BY Zenon, <1>1, <1>4, <2>4, AnswerOK DEF Outcomes
    <2> QED
      BY Zenon, <1>1, <1>3, <2>6, <2>7, HandlerStepOK
  <1>5. CASE Finish(p, AccountError(h.status), FALSE) /\ UNCHANGED cache
    <2>1. \/ Finish(p, "idempotency_conflict", FALSE)
          \/ Finish(p, "dependency_unavailable", FALSE)
      BY Zenon, <1>5 DEF AccountError
    <2>2. HandlerMove(p) /\ ReplyInv'
      BY Zenon, <1>1, <2>1, AnswerOK DEF Outcomes
    <2> QED
      BY Zenon, <1>1, <1>5, <2>2, LocalStepOK
  <1> QED
    BY Zenon, <1>4, <1>5 DEF AccountResult

\* ReadBalance preserves the invariant.
LEMMA ReadBalanceStep ==
    ASSUME IInv, NEW p \in Handlers, ReadBalance(p)
    PROVE  IInv'
  <1> DEFINE h == handler[p]
             account == accounts[h.req.account]
  <1>1. /\ h.pc = "balance" /\ h.pc # "idle"
        /\ UNCHANGED <<ledgerVars, lateVars, instance>>
    BY DEF ReadBalance
  <1>2. /\ HandlerServes(h, Home[p]) /\ h.req \in Requests /\ ValidRequest(h.req)
        /\ Home[p] \in Instances
    BY <1>1, HandlerFacts
  <1>3. LedgerInv' /\ LedgerGrows /\ LateInv'
    BY <1>1, Parts, LedgerUnchanged, LateStable DEF lateVars
  <1>4. CASE /\ account # None
             /\ Remember(Home[p], account)
             /\ Finish(p, "balance", FALSE)
    <2>1. h.req.account \in AccountIDs
      BY <1>1, <1>2, ValidRequestFacts DEF HandlerServes, OperationsAt
    <2>2. account \in Account /\ account.id = h.req.account
      BY <1>4, <2>1, Parts DEF LedgerInv, LedgerTypeOK, LedgerOK
    <2>3. accounts'[account.id] = account /\ SameAccount(account, account)
      BY <1>1, <2>2 DEF ledgerVars, SameAccount
    <2>4. CacheInv'
      BY Zenon, <1>2, <1>3, <1>4, <2>1, <2>2, <2>3, RememberOK, Parts
    <2>5. HandlerMove(p) /\ ReplyInv'
      BY Zenon, <1>1, <1>4, AnswerOK DEF Outcomes
    <2> QED
      BY <1>1, <1>3, <2>4, <2>5, HandlerStepOK
  <1>5. CASE Finish(p, "account_not_found", FALSE) /\ UNCHANGED cache
    BY Zenon, <1>1, <1>5, AnswerOK, LocalStepOK DEF Outcomes
  <1> QED
    BY Zenon, <1>4, <1>5 DEF ReadBalance

\* LookupFails preserves the invariant.
LEMMA LookupFailsStep ==
    ASSUME IInv, NEW p \in Handlers, LookupFails(p)
    PROVE  IInv'
  BY Zenon, AnswerOK, LocalStepOK DEF LookupFails, Outcomes

\* Commands left under way are the ones handlers had submitted.
LEMMA PendingOK ==
    ASSUME IInv, NEW P \in SUBSET Handlers
    PROVE  /\ \A t \in PendingTransfers(P) : t \in Transfer /\ Recipe(t)
           /\ \A a \in PendingAccounts(P) : AccountRequestOK(a)
  <1>1. ASSUME NEW p \in P, handler[p].pc = "waiting"
        PROVE  handler[p].transfer \in Transfer /\ Recipe(handler[p].transfer)
    BY Zenon, <1>1, HandlerFacts DEF HandlerSubmitted, HandlerRecord
  <1>2. ASSUME NEW p \in P, handler[p].pc = "create"
        PROVE  AccountRequestOK(RequestedAccount(handler[p].req))
    <2>1. /\ handler[p].req \in Requests /\ ValidRequest(handler[p].req)
          /\ HandlerServes(handler[p], Home[p]) /\ HandlerKnows(handler[p])
      BY Zenon, <1>2, HandlerFacts
    <2>2. /\ handler[p].req.op = "create_account"
          /\ handler[p].req.kind = "card_wallet" =>
                 IsKind(handler[p].req.parent, "corporate_wallet")
      BY <1>2, <2>1 DEF HandlerServes, OperationsAt, HandlerKnows
    <2> QED
      BY Zenon, <2>1, <2>2, RequestedAccountOK, Parts DEF LedgerInv
  <1> QED
    BY <1>1, <1>2 DEF PendingTransfers, PendingAccounts

\* Commands left under way by a failed call are fit to commit later.
LEMMA AbandonOK ==
    ASSUME LedgerInv, LateInv, LedgerGrows, NEW ts, NEW as,
           \A t \in ts : t \in Transfer /\ Recipe(t),
           \A a \in as : AccountRequestOK(a),
           Abandon(ts, as)
    PROVE  LateInv'
  <1>1. PICK T \in SUBSET ts, A \in SUBSET as :
            /\ lateTransfers' = lateTransfers \cup T
            /\ lateAccounts' = lateAccounts \cup A
    BY Zenon DEF Abandon
  <1>2. \A t \in lateTransfers' : t \in Transfer /\ Recipe(t)
    BY <1>1 DEF LateInv, LateOK
  <1>3. \A a \in lateAccounts' : a \in Account /\ AccountRequestOK(a)
    BY Zenon, <1>1 DEF LateInv, LateOK, AccountRequestOK
  <1>4. \A t \in lateTransfers' : Recipe(t)'
    <2>1. \A t \in Transfer : Recipe(t) => Recipe(t)'
      BY RecipeStable DEF LedgerInv
    <2> QED
      BY <1>2, <2>1
  <1>5. \A a \in lateAccounts' : AccountRequestOK(a)'
    <2>1. \A a \in Account : AccountRequestOK(a) => AccountRequestOK(a)'
      BY AccountRequestStable DEF LedgerInv
    <2> QED
      BY <1>3, <2>1
  <1> QED
    BY <1>2, <1>3, <1>4, <1>5 DEF LateInv, LateOK

\* CallFails preserves the invariant.
LEMMA CallFailsStep ==
    ASSUME IInv, NEW p \in Handlers, CallFails(p)
    PROVE  IInv'
  <1>1. /\ handler[p].pc # "idle" /\ UNCHANGED <<ledgerVars, instance, cache>>
        /\ Abandon(PendingTransfers({p}), PendingAccounts({p}))
    BY DEF CallFails
  <1>2. LedgerInv' /\ LedgerGrows
    BY <1>1, Parts, LedgerUnchanged
  <1>3. LateInv'
    BY <1>1, <1>2, PendingOK, AbandonOK, Parts
  <1>4. CacheInv'
    BY <1>1, <1>2, Parts, CacheStable DEF CacheInv, CacheCoherent
  <1> DEFINE logs == handler[p].pc \in {"waiting", "result"}
  <1>5. logs \in BOOLEAN /\ Finish(p, "dependency_unavailable", logs)
    BY DEF CallFails
  <1> HIDE DEF logs
  <1>6. HandlerMove(p) /\ ReplyInv'
    BY Zenon, <1>1, <1>5, AnswerOK DEF Outcomes
  <1> QED
    BY <1>1, <1>2, <1>3, <1>4, <1>6, HandlerStepOK

-----------------------------------------------------------------------------
\* Handlers that stay where they are, in instances that keep serving.
LEMMA HandlersKept ==
    ASSUME LedgerInv, HandlerInv, LedgerGrows, UNCHANGED handler,
           \A i \in Instances : instance[i].phase = "up" => instance'[i].phase = "up"
    PROVE  HandlerInv'
  <1>1. \A h \in HandlerRecord, i \in Instances : HandlerOK(h, i) => HandlerOK(h, i)'
    BY HandlerStable DEF LedgerInv
  <1>2. \A p \in Handlers : HandlerOK(handler[p], Home[p])'
    <2> TAKE p \in Handlers
    <2>1. PICK h \in HandlerRecord : h = handler[p]
      BY DEF HandlerInv
    <2>2. HandlerOK(h, Home[p]) /\ Home[p] \in Instances
      BY <2>1, ServiceAssumption DEF HandlerInv, HandlersOK
    <2>3. HandlerOK(h, Home[p])'
      BY <1>1, <2>2
    <2> QED
      BY <2>1, <2>3
  <1> QED
    BY <1>2 DEF HandlerInv, HandlersOK

\* A step of the ledger, or of a command under way, alone.
LEMMA BackgroundStepOK ==
    ASSUME IInv, LedgerInv', LedgerGrows, Quiet, UNCHANGED <<instance, cache, handler>>,
           lateTransfers' \subseteq lateTransfers,
           lateAccounts' \subseteq lateAccounts
    PROVE  IInv'
  <1>1. LateInv'
    BY Parts, LateStable
  <1>2. CacheInv'
    BY Parts, CacheStable DEF CacheInv, CacheCoherent
  <1>3. InstanceInv'
    BY Parts, InstanceStable
  <1>4. HandlerInv'
    BY Parts, HandlersKept
  <1>5. ReplyInv'
    BY Parts, QuietOK
  <1> QED
    BY <1>1, <1>2, <1>3, <1>4, <1>5, PartsNext

\* CommitLateTransfer preserves the invariant.
LEMMA CommitLateTransferStep ==
    ASSUME IInv, NEW t \in lateTransfers, CommitLateTransfer(t)
    PROVE  IInv'
  <1>1. t \in Transfer /\ Recipe(t)
    BY Parts DEF LateInv, LateOK
  <1>2. LedgerInv' /\ LedgerGrows
    BY <1>1, CreateTransferOK, Parts DEF CommitLateTransfer
  <1> QED
    BY <1>2, BackgroundStepOK DEF CommitLateTransfer

\* CommitLateAccount preserves the invariant.
LEMMA CommitLateAccountStep ==
    ASSUME IInv, NEW account \in lateAccounts, CommitLateAccount(account)
    PROVE  IInv'
  <1>1. AccountRequestOK(account)
    BY Parts DEF LateInv, LateOK
  <1>2. LedgerInv' /\ LedgerGrows
    BY <1>1, CreateAccountOK, Parts DEF CommitLateAccount
  <1> QED
    BY <1>2, BackgroundStepOK DEF CommitLateAccount

\* A hold lapsing, or time passing, preserves the invariant.
LEMMA LedgerStepStep ==
    ASSUME IInv, LedgerStep
    PROVE  IInv'
  <1>1. LedgerInv' /\ LedgerGrows
    BY LedgerStepOK, Parts
  <1> QED
    BY <1>1, BackgroundStepOK DEF LedgerStep, lateVars

\* EnsureSystemAccounts submits accounts of the right kind.
LEMMA SystemAccountOK ==
    ASSUME NEW phase \in {"cash", "settlement"}
    PROVE  /\ AccountRequestOK(SystemAccount(phase))
           /\ SystemAccount(phase).id = IF phase = "cash" THEN Cash ELSE Settlement
           /\ MetadataForAccount(SystemAccount(phase)) # None
           /\ MetadataForAccount(SystemAccount(phase)).kind =
                  IF phase = "cash" THEN "safeguarded_cash"
                                    ELSE "card_settlement_payable"
  <1>1. Cash \in AccountIDs /\ Settlement \in AccountIDs
    BY DEF AccountIDs
  <1>2. /\ KindFitsID("safeguarded_cash", Cash)
        /\ KindFitsID("card_settlement_payable", Settlement)
        /\ ParentAllowed("safeguarded_cash", Cash, None)
        /\ ParentAllowed("card_settlement_payable", Settlement, None)
    BY DEF KindFitsID, ParentAllowed
  <1>3. /\ SystemAccount(phase) \in Account
        /\ MetadataForAccount(SystemAccount(phase)) # None
        /\ MetadataForAccount(SystemAccount(phase)).kind =
               IF phase = "cash" THEN "safeguarded_cash"
                                 ELSE "card_settlement_payable"
    BY <1>1, <1>2, NewAccountFacts DEF SystemAccount, Kinds
  <1>4. /\ SystemAccount(phase).id = IF phase = "cash" THEN Cash ELSE Settlement
        /\ SystemAccount(phase).code # "card_wallet"
        /\ SystemAccount(phase).debitsPending = 0
        /\ SystemAccount(phase).debitsPosted = 0
        /\ SystemAccount(phase).creditsPending = 0
        /\ SystemAccount(phase).creditsPosted = 0
    BY DEF SystemAccount, NewAccount
  <1> QED
    BY <1>1, <1>3, <1>4 DEF AccountRequestOK

\* Start preserves the invariant.
LEMMA StartStep ==
    ASSUME IInv, NEW i \in Instances, Start(i)
    PROVE  IInv'
  <1>1. /\ instance[i].phase = "down" /\ Quiet
        /\ UNCHANGED <<ledgerVars, lateVars, cache, handler>>
    BY DEF Start
  <1>2. PICK limit \in RiskLimits, ticks \in AuthTimeouts :
            instance' = [instance EXCEPT
                ![i] = [phase |-> "cash", riskLimit |-> limit,
                        timeout |-> WholeSeconds(ticks)]]
    BY Zenon DEF Start
  <1>3. limit \in Nat /\ WholeSeconds(ticks) \in Nat
    BY ServiceAssumption, WholeSecondsNat
  <1>4. LedgerInv' /\ LedgerGrows
    BY <1>1, Parts, LedgerUnchanged
  <1>5. /\ instance' \in [Instances -> [phase : Phases, riskLimit : Nat, timeout : Nat]]
        /\ \A j \in Instances : instance'[j].phase =
               IF j = i THEN "cash" ELSE instance[j].phase
    BY <1>2, <1>3, Parts DEF InstanceInv, Phases
  <1>6. LateInv' /\ CacheInv'
    BY <1>1, <1>4, Parts, LateStable, CacheStable DEF lateVars, CacheInv, CacheCoherent
  <1>7. InstanceInv'
    <2>1. Cash \in AccountIDs /\ Settlement \in AccountIDs
      BY DEF AccountIDs
    <2>2. \A a \in AccountIDs, kind \in Kinds : IsKind(a, kind) => IsKind(a, kind)'
      BY <1>4, IsKindStable, Parts DEF LedgerInv
    <2> QED
      BY <1>5, <2>1, <2>2, Parts
      DEF Kinds, InstanceInv, SystemAccountsReady, CashProvisioned
  <1>8. HandlerInv'
    BY <1>1, <1>4, <1>5, Parts, HandlersKept
  <1> QED
    BY <1>1, <1>4, <1>6, <1>7, <1>8, Parts, PartsNext, QuietOK

\* An instance that ends loses its cache; what the others cached stays right.
LEMMA CacheDropped ==
    ASSUME LedgerInv, CacheInv, LedgerGrows, NEW i \in Instances,
           cache' = [cache EXCEPT ![i] = NoCache]
    PROVE  CacheInv'
  <1>1. cache' \in [Instances -> [AccountIDs -> Metadata \cup {None}]]
    BY DEF CacheInv, NoCache
  <1>2. \A j \in Instances, a \in AccountIDs :
            cache'[j][a] # None => cache'[j][a] = cache[j][a]
    BY DEF CacheInv, NoCache
  <1> QED
    BY <1>1, <1>2, CacheStable DEF CacheInv, CacheCoherent

\* The instances after one of them has changed its phase to down.
LEMMA InstanceDown ==
    ASSUME LedgerInv, InstanceInv, LedgerGrows, NEW i \in Instances,
           instance' = [instance EXCEPT ![i].phase = "down"]
    PROVE  /\ InstanceInv'
           /\ \A j \in Instances : j # i => instance'[j].phase = instance[j].phase
  <1>1. /\ instance' \in [Instances -> [phase : Phases, riskLimit : Nat, timeout : Nat]]
        /\ \A j \in Instances : instance'[j].phase =
               IF j = i THEN "down" ELSE instance[j].phase
    BY DEF InstanceInv, Phases
  <1>2. Cash \in AccountIDs /\ Settlement \in AccountIDs
    BY DEF AccountIDs
  <1>3. \A a \in AccountIDs, kind \in Kinds : IsKind(a, kind) => IsKind(a, kind)'
    BY IsKindStable DEF LedgerInv
  <1> QED
    BY <1>1, <1>2, <1>3 DEF InstanceInv, SystemAccountsReady, CashProvisioned, Kinds

\* Provision preserves the invariant.
LEMMA ProvisionStep ==
    ASSUME IInv, NEW i \in Instances, Provision(i)
    PROVE  IInv'
  <1> DEFINE phase == instance[i].phase
             account == SystemAccount(phase)
  <1>1. /\ phase \in {"cash", "settlement"} /\ CreateAccount(account) /\ Quiet
        /\ UNCHANGED <<transfers, failed, expired, now, lateVars, handler>>
    BY DEF Provision, Provisioning
  <1>2. /\ AccountRequestOK(account)
        /\ account.id = IF phase = "cash" THEN Cash ELSE Settlement
        /\ MetadataForAccount(account) # None
        /\ MetadataForAccount(account).kind =
               IF phase = "cash" THEN "safeguarded_cash"
                                 ELSE "card_settlement_payable"
    BY <1>1, SystemAccountOK
  <1>3. /\ LedgerInv' /\ LedgerGrows
        /\ AccountUsable(AccountStatus(account)) =>
               /\ accounts'[account.id] # None
               /\ SameAccount(accounts'[account.id], account)
    BY Zenon, <1>1, <1>2, CreateAccountOK, Parts
  <1>4. LateInv' /\ ReplyInv'
    BY Zenon, <1>1, <1>3, Parts, LateStable, QuietOK DEF lateVars
  <1>5. CASE /\ AccountUsable(AccountStatus(account))
             /\ Remember(i, account)
             /\ instance' = [instance EXCEPT ![i].phase = NextPhase(@)]
    <2>1. account \in Account /\ account.id \in AccountIDs
      BY Zenon, <1>2 DEF AccountRequestOK
    <2>2. CacheInv'
      BY <1>3, <1>5, <2>1, RememberOK, Parts
    <2>3. MetadataForAccount(accounts'[account.id]) = MetadataForAccount(account)
      <3>1. accounts'[account.id].id = account.id
        BY <1>3, <1>5, <2>1 DEF LedgerInv, LedgerOK
      <3>2. SameAccount(accounts'[account.id], account)
        BY Zenon, <1>3, <1>5
      <3> QED
        BY Zenon, <3>1, <3>2 DEF MetadataForAccount, SameAccount
    <2>4. /\ phase = "cash" => IsKind(Cash, "safeguarded_cash")'
          /\ phase = "settlement" => IsKind(Settlement, "card_settlement_payable")'
      BY <1>2, <1>3, <1>5, <2>3 DEF IsKind, Usable
    <2>5. /\ instance' \in [Instances -> [phase : Phases, riskLimit : Nat, timeout : Nat]]
          /\ \A j \in Instances : instance'[j].phase =
                 IF j # i THEN instance[j].phase
                 ELSE IF phase = "cash" THEN "settlement" ELSE "up"
      BY <1>5, Parts DEF InstanceInv, Phases, NextPhase
    <2>6. Cash \in AccountIDs /\ Settlement \in AccountIDs
      BY DEF AccountIDs
    <2>7. \A a \in AccountIDs, kind \in Kinds : IsKind(a, kind) => IsKind(a, kind)'
      BY Zenon, <1>3, IsKindStable, Parts DEF LedgerInv
    <2>8. phase = "settlement" => IsKind(Cash, "safeguarded_cash")'
      BY <2>6, <2>7, Parts DEF InstanceInv, CashProvisioned, Kinds
    <2>9. InstanceInv'
      BY Zenon, <1>1, <2>4, <2>5, <2>6, <2>7, <2>8, Parts
      DEF InstanceInv, SystemAccountsReady, CashProvisioned, Kinds
    <2>10. HandlerInv'
      BY Zenon, <1>1, <1>3, <2>5, HandlersKept, Parts
    <2> QED
      BY <1>3, <1>4, <2>2, <2>9, <2>10, PartsNext
  <1>6. CASE /\ instance' = [instance EXCEPT ![i].phase = "down"]
             /\ cache' = [cache EXCEPT ![i] = NoCache]
    <2>1. CacheInv'
      BY Zenon, <1>3, <1>6, CacheDropped, Parts
    <2>2. /\ InstanceInv'
          /\ \A j \in Instances : j # i => instance'[j].phase = instance[j].phase
      BY Zenon, <1>3, <1>6, InstanceDown, Parts
    <2>3. HandlerInv'
      BY Zenon, <1>1, <1>3, <2>2, HandlersKept, Parts
    <2> QED
      BY Zenon, <1>3, <1>4, <2>1, <2>2, <2>3, PartsNext
  <1> QED
    BY <1>5, <1>6 DEF Provision

\* ProvisionFails preserves the invariant.
LEMMA ProvisionFailsStep ==
    ASSUME IInv, NEW i \in Instances, ProvisionFails(i)
    PROVE  IInv'
  <1> DEFINE account == SystemAccount(instance[i].phase)
  <1>1. /\ instance[i].phase \in {"cash", "settlement"} /\ Quiet
        /\ instance' = [instance EXCEPT ![i].phase = "down"]
        /\ cache' = [cache EXCEPT ![i] = NoCache]
        /\ UNCHANGED <<transfers, failed, expired, now, handler>>
    BY DEF ProvisionFails, Provisioning
  <1>2. AccountRequestOK(account)
    BY <1>1, SystemAccountOK
  <1> HIDE DEF account
  <1>3. LedgerInv' /\ LedgerGrows /\ LateInv'
    <2>1. CASE CreateAccount(account) /\ UNCHANGED lateVars
      <3>1. LedgerInv' /\ LedgerGrows
        BY <1>1, <1>2, <2>1, CreateAccountOK, Parts
      <3> QED
        BY <2>1, <3>1, LateStable, Parts DEF lateVars
    <2>2. CASE UNCHANGED accounts /\ Abandon({}, {account})
      <3>1. LedgerInv' /\ LedgerGrows
        BY <1>1, <2>2, LedgerUnchanged, Parts DEF ledgerVars
      <3> QED
        BY <1>2, <2>2, <3>1, AbandonOK, Parts
    <2> QED
      BY <2>1, <2>2 DEF ProvisionFails, account
  <1>4. CacheInv'
    BY Zenon, <1>1, <1>3, CacheDropped, Parts
  <1>5. /\ InstanceInv'
        /\ \A j \in Instances : j # i => instance'[j].phase = instance[j].phase
    BY Zenon, <1>1, <1>3, InstanceDown, Parts
  <1>6. HandlerInv'
    BY <1>1, <1>3, <1>5, HandlersKept, Parts
  <1>7. ReplyInv'
    BY <1>1, QuietOK, Parts
  <1> QED
    BY Zenon, <1>3, <1>4, <1>5, <1>6, <1>7, PartsNext

\* Crash preserves the invariant.
LEMMA CrashStep ==
    ASSUME IInv, NEW i \in Instances, Crash(i)
    PROVE  IInv'
  <1> DEFINE mine == {p \in Handlers : Home[p] = i}
  <1>1. /\ Abandon(PendingTransfers(mine), PendingAccounts(mine))
        /\ instance' = [instance EXCEPT ![i].phase = "down"]
        /\ cache' = [cache EXCEPT ![i] = NoCache]
        /\ handler' = [p \in Handlers |-> IF p \in mine THEN Idle ELSE handler[p]]
        /\ Quiet
        /\ UNCHANGED ledgerVars
    BY DEF Crash
  <1>2. LedgerInv' /\ LedgerGrows
    BY <1>1, LedgerUnchanged, Parts
  <1>3. LateInv'
    <2>1. mine \in SUBSET Handlers
      OBVIOUS
    <2> QED
      BY <1>1, <1>2, <2>1, PendingOK, AbandonOK, Parts
  <1>4. CacheInv'
    BY Zenon, <1>1, <1>2, CacheDropped, Parts
  <1>5. /\ InstanceInv'
        /\ \A j \in Instances : j # i => instance'[j].phase = instance[j].phase
    BY Zenon, <1>1, <1>2, InstanceDown, Parts
  <1>6. HandlerInv'
    <2>1. handler' \in [Handlers -> HandlerRecord]
      BY <1>1, IdleOK, Parts DEF HandlerInv
    <2>2. \A p \in Handlers : HandlerOK(handler[p], Home[p])'
      <3> TAKE p \in Handlers
      <3>1. CASE Home[p] = i
        <4>1. handler'[p] = Idle
          BY <1>1, <3>1
        <4> QED
          BY <4>1 DEF HandlerOK, Idle
      <3>2. CASE Home[p] # i
        <4>1. PICK h \in HandlerRecord : h = handler[p]
          BY Parts DEF HandlerInv
        <4>2. Home[p] \in Instances /\ HandlerOK(h, Home[p])
          BY <4>1, ServiceAssumption, Parts DEF HandlerInv, HandlersOK
        <4>3. HandlerOK(h, Home[p])'
          BY <1>2, <1>5, <3>2, <4>2, HandlerStable, Parts DEF LedgerInv
        <4>4. handler'[p] = h
          BY <1>1, <3>2, <4>1
        <4> QED
          BY <4>3, <4>4
      <3> QED
        BY <3>1, <3>2
    <2> QED
      BY <2>1, <2>2 DEF HandlerInv, HandlersOK
  <1>7. ReplyInv'
    BY <1>1, QuietOK, Parts
  <1> QED
    BY <1>2, <1>3, <1>4, <1>5, <1>6, <1>7, PartsNext

-----------------------------------------------------------------------------
(***************************************************************************)
(* The theorems.                                                           *)
(***************************************************************************)

\* The invariant holds when no instance has started yet, whatever accounts the
\* ledger already holds.
LEMMA InitOK == Init => IInv
  <1> SUFFICES ASSUME Init PROVE IInv
    OBVIOUS
  <1>1. LedgerInv
    <2>1. LedgerTypeOK
      BY PreexistingAssumption DEF Init, LedgerInit, LedgerTypeOK
    <2>2. LedgerOK
      BY PreexistingAssumption DEF Init, LedgerInit, LedgerOK
    <2>3. CardsHaveCorporateParent
      BY DEF Init, LedgerInit, CardsHaveCorporateParent, IsKind, Usable
    <2> QED
      BY <2>1, <2>2, <2>3 DEF LedgerInv
  <1>2. LateInv
    BY DEF Init, LateInv, LateOK
  <1>3. CacheInv
    BY DEF Init, CacheInv, CacheCoherent, NoCache
  <1>4. InstanceInv
    BY DEF Init, InstanceInv, SystemAccountsReady, CashProvisioned, Phases
  <1>5. HandlerInv
    <2>1. Idle.pc = "idle"
      BY DEF Idle
    <2> QED
      BY <2>1, IdleOK DEF Init, HandlerInv, HandlersOK, HandlerOK
  <1>6. ReplyInv
    BY DEF Init, ReplyInv, SuccessIsCommitted, RejectionIsFinal
  <1> QED
    BY <1>1, <1>2, <1>3, <1>4, <1>5, <1>6, Parts

\* A step that changes nothing keeps the invariant.
LEMMA StutterOK ==
    ASSUME IInv, UNCHANGED vars
    PROVE  IInv'
  <1>1. LedgerInv' /\ LedgerGrows
    BY LedgerUnchanged, Parts DEF vars
  <1>2. LateInv' /\ CacheInv' /\ InstanceInv' /\ HandlerInv'
    BY <1>1, Parts, LateStable, CacheStable, InstanceStable, HandlersKept
    DEF vars, lateVars, CacheInv, CacheCoherent
  <1>3. ReplyInv'
    BY Parts DEF vars, ledgerVars, ReplyInv, SuccessIsCommitted, RejectionIsFinal
  <1> QED
    BY <1>1, <1>2, <1>3, PartsNext

\* Every step keeps the invariant.
LEMMA NextOK == IInv /\ [Next]_vars => IInv'
  <1> SUFFICES ASSUME IInv, [Next]_vars PROVE IInv'
    OBVIOUS
  <1>1. ASSUME NEW p \in Handlers, NEW r \in Requests, Receive(p, r) PROVE IInv'
    BY <1>1, ReceiveStep
  <1>2. ASSUME NEW p \in Handlers, Progress(p) PROVE IInv'
    BY <1>2, LoadMetadataStep, LookupAccountStep, LookupOriginalStep,
       EvaluateRiskStep, LookupReplayStep, CommitTransferStep,
       TransferResultStep, LookupDriftStep, CommitAccountStep,
       AccountResultStep, ReadBalanceStep DEF Progress
  <1>3. ASSUME NEW p \in Handlers, Failure(p) PROVE IInv'
    BY <1>3, CancelRiskStep, LookupFailsStep, CallFailsStep DEF Failure
  <1>4. ASSUME NEW t \in lateTransfers, CommitLateTransfer(t) PROVE IInv'
    BY <1>4, CommitLateTransferStep
  <1>5. ASSUME NEW a \in lateAccounts, CommitLateAccount(a) PROVE IInv'
    BY <1>5, CommitLateAccountStep
  <1>6. ASSUME NEW i \in Instances, Lifecycle(i) PROVE IInv'
    BY <1>6, StartStep, ProvisionStep, ProvisionFailsStep, CrashStep DEF Lifecycle
  <1>7. CASE LedgerStep
    BY <1>7, LedgerStepStep
  <1>8. CASE UNCHANGED vars
    BY <1>8, StutterOK
  <1> QED
    BY <1>1, <1>2, <1>3, <1>4, <1>5, <1>6, <1>7, <1>8 DEF Next

\* IInv is an invariant of the service.
THEOREM Invariance == Spec => []IInv
  BY InitOK, NextOK, PTL DEF Spec

\* Every variable keeps its type, for every configuration.
THEOREM TypeCorrect == Spec => []TypeOK
  <1>1. IInv => TypeOK
    BY DEF IInv
  <1> QED
    BY <1>1, Invariance, PTL

\* EnsureSystemAccounts before serving is enough: the system accounts are there,
\* and usable, for as long as an instance serves.
THEOREM SystemAccountsAlwaysReady == Spec => []SystemAccountsReady
  <1>1. IInv => SystemAccountsReady
    BY DEF IInv
  <1> QED
    BY <1>1, Invariance, PTL

\* The metadata cache of an instance never disagrees with the ledger, for every
\* cache size, with other instances, late commits and restarts around.
THEOREM CacheAlwaysCoherent == Spec => []CacheCoherent
  <1>1. IInv => CacheCoherent
    BY DEF IInv
  <1> QED
    BY <1>1, Invariance, PTL

\* The parent check of CreateAccount, made before the account is submitted,
\* still holds when the account is created.
THEOREM CardsAlwaysHaveCorporateParent == Spec => []CardsHaveCorporateParent
  <1>1. IInv => CardsHaveCorporateParent
    BY DEF IInv
  <1> QED
    BY <1>1, Invariance, PTL

\* moveCardFunds never moves funds between a card and a foreign corporate wallet.
THEOREM MovesAlwaysStayWithParent == Spec => []MovesStayWithParent
  <1>1. IInv => MovesStayWithParent
    BY Zenon DEF IInv, LedgerOK, Recipe, MovesStayWithParent
  <1> QED
    BY <1>1, Invariance, PTL

\* Every increment belongs to an authorization on the same card and merchant.
THEOREM IncrementsAlwaysJoinAuthorization == Spec => []IncrementsJoinAuthorization
  <1>1. IInv => IncrementsJoinAuthorization
    <2> SUFFICES ASSUME LedgerOK, NEW id \in TransferIDs, transfers[id] # None,
                        transfers[id].code = "authorization_increment"
                 PROVE  LET t == transfers[id] IN
                        /\ t.pending
                        /\ t.group # None
                        /\ transfers[t.group] # None
                        /\ transfers[t.group].pending
                        /\ transfers[t.group].code = "authorization"
                        /\ transfers[t.group].debit = t.debit
                        /\ transfers[t.group].merchant = t.merchant
      BY Zenon DEF IInv, IncrementsJoinAuthorization
    <2> DEFINE t == transfers[id]
    <2>1. Recipe(t) /\ t.code \in Holds
      BY Zenon DEF LedgerOK, Holds
    <2>2. /\ t.pending /\ t.group \in TransferIDs /\ transfers[t.group] # None
          /\ IsAuthorization(transfers[t.group])
          /\ transfers[t.group].debit = t.debit
          /\ transfers[t.group].merchant = t.merchant
      BY Zenon, <2>1 DEF Recipe
    <2>3. t.group # None
      BY Zenon, <2>2, NoneAssumption
    <2> QED
      BY Zenon, <2>2, <2>3 DEF IsAuthorization
  <1> QED
    BY <1>1, Invariance, PTL

\* A caller told posted or approved finds the transfer it asked for in the
\* ledger, however the answer came about.
THEOREM SuccessAlwaysCommitted == Spec => []SuccessIsCommitted
  <1>1. IInv => SuccessIsCommitted
    BY DEF IInv
  <1> QED
    BY <1>1, Invariance, PTL

\* A caller told of insufficient funds or an earlier failure may rely on it.
THEOREM RejectionAlwaysFinal == Spec => []RejectionIsFinal
  <1>1. IInv => RejectionIsFinal
    BY DEF IInv
  <1> QED
    BY <1>1, Invariance, PTL

\* No usable account is ever overspent, and Balance never reports a negative
\* available balance.
THEOREM NeverOverspent == Spec => []NoOverspend
  <1>1. IInv => NoOverspend
    <2> SUFFICES ASSUME IInv, NEW a \in AccountIDs, Usable(a) # None
                 PROVE  WithinLimits(accounts[a]) /\ AvailableBalance(accounts[a]) >= 0
      BY DEF NoOverspend
    <2>1. accounts[a] # None /\ MetadataForAccount(accounts[a]) # None
      BY DEF Usable
    <2>2. accounts[a] \in Account /\ WithinLimits(accounts[a])
      BY <2>1, Parts DEF LedgerInv, LedgerTypeOK, LedgerOK
    <2>3. accounts[a].flags = FlagsOf(accounts[a].code)
      BY <2>1, <2>2, MetadataFacts
    <2> QED
      BY <2>2, <2>3 DEF Account, WithinLimits, AvailableBalance, PostedBalance, FlagsOf
  <1> QED
    BY <1>1, Invariance, PTL

-----------------------------------------------------------------------------
(***************************************************************************)
(* The statuses the ledger returns for what the service submits.           *)
(***************************************************************************)

\* A step that gives no handler a new status.
StatusKept ==
    \A p \in Handlers : handler'[p].status \in {handler[p].status, None}

\* A handler that answers brings in no new ledger status.
LEMMA AnswerKeepsStatus ==
    ASSUME IInv, NEW p \in Handlers, NEW outcome, NEW logged,
           Finish(p, outcome, logged) \/ Decline(p, outcome, logged)
    PROVE  StatusKept
  BY Parts DEF Finish, Decline, Answer, StatusKept, HandlerInv, Idle

\* Neither does one that moves on to its next place.
LEMMA MoveKeepsStatus ==
    ASSUME IInv, NEW p \in Handlers, NEW t, NEW place,
           Submit(p, t) \/ Goto(p, place)
    PROVE  StatusKept
  BY Parts DEF Submit, Goto, StatusKept, HandlerInv, HandlerRecord

\* Neither does one that has found its account, or failed to.
LEMMA KindKeepsStatus ==
    ASSUME IInv, NEW p \in Handlers, NEW metadata,
           KindKnown(p, metadata) \/ KindUnknown(p)
    PROVE  StatusKept
  BY Zenon, AnswerKeepsStatus, MoveKeepsStatus DEF KindKnown, KindUnknown

\* Only a commit brings in a new ledger status.
LEMMA ProgressKeepsStatus ==
    ASSUME IInv, NEW p \in Handlers, Progress(p),
           ~CommitTransfer(p), ~CommitAccount(p)
    PROVE  StatusKept
  <1>1. CASE LoadMetadata(p)
    BY Zenon, <1>1, KindKeepsStatus, MoveKeepsStatus DEF LoadMetadata
  <1>2. CASE LookupAccount(p)
    BY Zenon, <1>2, KindKeepsStatus DEF LookupAccount
  <1>3. CASE LookupOriginal(p)
    <2>1. CASE \E o : handler' = [handler EXCEPT ![p].pc = "card", ![p].original = o]
      BY <2>1, Parts DEF StatusKept, HandlerInv, HandlerRecord
    <2> QED
      BY Zenon, <1>3, <2>1, AnswerKeepsStatus DEF LookupOriginal
  <1>4. CASE EvaluateRisk(p)
    BY Zenon, <1>4, MoveKeepsStatus DEF EvaluateRisk
  <1>5. CASE LookupReplay(p)
    BY Zenon, <1>5, AnswerKeepsStatus DEF LookupReplay
  <1>6. CASE TransferResult(p)
    BY Zenon, <1>6, AnswerKeepsStatus, MoveKeepsStatus DEF TransferResult
  <1>7. CASE LookupDrift(p)
    BY Zenon, <1>7, AnswerKeepsStatus DEF LookupDrift
  <1>8. CASE AccountResult(p)
    BY Zenon, <1>8, AnswerKeepsStatus DEF AccountResult
  <1>9. CASE ReadBalance(p)
    BY Zenon, <1>9, AnswerKeepsStatus DEF ReadBalance
  <1> QED
    BY <1>1, <1>2, <1>3, <1>4, <1>5, <1>6, <1>7, <1>8, <1>9 DEF Progress

\* A handler has no status but the ones the ledger gave it.
StatusFromLedger ==
    \A p \in Handlers :
        \/ handler'[p].status \in {handler[p].status, None}
        \/ handler'[p].status \in {"created", "exists", "exists_with_different"}
        \/ /\ handler[p].pc = "waiting"
           /\ CreateTransfer(handler[p].transfer)
           /\ handler'[p].status = TransferStatus(handler[p].transfer)

\* Where the status of a handler comes from, whatever step is taken.
LEMMA StatusSource ==
    ASSUME IInv, [Next]_vars
    PROVE  StatusFromLedger
  <1>1. CASE StatusKept
    BY <1>1 DEF StatusKept, StatusFromLedger
  <1>2. handler \in [Handlers -> HandlerRecord]
    BY Parts DEF HandlerInv
  <1>3. ASSUME NEW p \in Handlers, CommitTransfer(p) PROVE StatusFromLedger
    <2> DEFINE status == TransferStatus(handler[p].transfer)
    <2>1. /\ handler[p].pc = "waiting" /\ CreateTransfer(handler[p].transfer)
          /\ handler' = [handler EXCEPT ![p].pc = "result", ![p].status = status]
      BY <1>3 DEF CommitTransfer
    <2> HIDE DEF status
    <2>2. /\ handler'[p].status = status
          /\ \A q \in Handlers \ {p} : handler'[q] = handler[q]
      BY <1>2, <2>1 DEF HandlerRecord
    <2> QED
      BY Zenon, <2>1, <2>2 DEF StatusFromLedger, status
  <1>4. ASSUME NEW p \in Handlers, CommitAccount(p) PROVE StatusFromLedger
    <2> DEFINE status == AccountStatus(RequestedAccount(handler[p].req))
    <2>1. /\ handler' = [handler EXCEPT ![p].pc = "created", ![p].status = status]
          /\ status \in {"created", "exists", "exists_with_different"}
      BY Zenon, <1>4 DEF CommitAccount, AccountStatus
    <2> HIDE DEF status
    <2>2. /\ handler'[p].status = status
          /\ \A q \in Handlers \ {p} : handler'[q] = handler[q]
      BY <1>2, <2>1 DEF HandlerRecord
    <2> QED
      BY Zenon, <2>1, <2>2 DEF StatusFromLedger
  <1>5. ASSUME NEW p \in Handlers, Progress(p) PROVE StatusFromLedger
    BY <1>1, <1>3, <1>4, <1>5, ProgressKeepsStatus
  <1>6. ASSUME NEW p \in Handlers, Failure(p) PROVE StatusFromLedger
    BY Zenon, <1>1, <1>6, AnswerKeepsStatus DEF Failure, CancelRisk, LookupFails, CallFails
  <1>7. CASE UNCHANGED handler
    BY <1>7 DEF StatusFromLedger
  <1>8. ASSUME NEW p \in Handlers, NEW r \in Requests, Receive(p, r)
        PROVE  StatusFromLedger
    <2>1. CASE handler' = [handler EXCEPT ![p].pc = FirstPlace(r), ![p].req = r]
      BY <1>1, <1>2, <2>1 DEF StatusKept, HandlerRecord
    <2> QED
      BY Zenon, <1>7, <1>8, <2>1 DEF Receive
  <1>9. ASSUME NEW i \in Instances, Crash(i) PROVE StatusFromLedger
    BY <1>1, <1>9 DEF Crash, StatusKept, Idle
  <1> QED
    BY Zenon, <1>5, <1>6, <1>7, <1>8, <1>9
    DEF Next, Lifecycle, Start, Provision, ProvisionFails, CommitLateTransfer,
        CommitLateAccount, LedgerStep, vars

\* The service never submits a transfer the ledger rejects for its shape:
\* account checks made before the call, from the cache too, are still right at
\* the commit.
THEOREM RecipesAlwaysAccepted == Spec => []RecipesAccepted
  <1> DEFINE Shapes == {"accounts_must_be_different", "account_not_found",
                        "ledger_mismatch"}
  <1>1. None \notin Shapes
    BY ServiceAssumption DEF Statuses
  <1>2. Init => RecipesAccepted
    BY <1>1 DEF Init, RecipesAccepted, Idle
  <1>3. IInv /\ RecipesAccepted /\ [Next]_vars => RecipesAccepted'
    <2> SUFFICES ASSUME IInv, RecipesAccepted, [Next]_vars, NEW p \in Handlers
                 PROVE  handler'[p].status \notin Shapes
      BY DEF RecipesAccepted
    <2>1. handler[p].status \notin Shapes
      BY DEF RecipesAccepted
    <2>2. ASSUME handler[p].pc = "waiting", CreateTransfer(handler[p].transfer)
          PROVE  TransferStatus(handler[p].transfer) \notin Shapes
      <3>1. handler[p].transfer \in Transfer /\ Recipe(handler[p].transfer)
        BY Zenon, <2>2, HandlerFacts DEF HandlerSubmitted, HandlerRecord
      <3> QED
        BY Zenon, <2>2, <3>1, CreateTransferOK, Parts
    <2> QED
      BY <1>1, <2>1, <2>2, StatusSource DEF StatusFromLedger
  <1> QED
    BY <1>2, <1>3, Invariance, PTL DEF Spec

=============================================================================
