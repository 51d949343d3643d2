------------------------ MODULE LedgerServicePromise ------------------------
(***************************************************************************)
(* What the service promises the callers of LedgerService: no hold exceeds *)
(* every risk limit, holds lapse, success stands, conflicts are genuine,   *)
(* a decline settles its request, and LedgerService implements             *)
(* Idempotency.                                                            *)
(*                                                                         *)
(* All of it needs to know more than IInv of the transfers that can still  *)
(* commit: each was asked for by a request, has passed the risk limit and  *)
(* has a timeout that some configuration explains (SubmitInv); and of the  *)
(* answers: what each refusal rests on (AnswerInv).                        *)
(***************************************************************************)
EXTENDS LedgerServiceProofs

Asked(t) == \E r \in Requests : Fulfils(t, r)

\* The authorization timeouts, in seconds, of the configurations that load.
Timeouts ==
    {WholeSeconds(ticks) : ticks \in
        {x \in AuthTimeouts : \E limit \in RiskLimits : Loads(limit, x)}}

\* The authorization timeout is never reconfigured.
OneTimeout == \A a, b \in Timeouts : a = b

\* The risk limit is never reconfigured.
OneLimit == \A a, b \in RiskLimits : a = b

\* The time left of an authorization that has just been made, on the clock of
\* any instance, is a uint32 number of seconds.
NoWrap ==
    \A seconds \in Timeouts, i \in Instances :
        WholeSeconds(seconds * TicksPerSecond - ClockSkew[i]) < Uint32Range

OverLimit(r) == \E limit \in RiskLimits : r.amount > limit

\* The times so far.
Past == 0..now

\* By now some instance's clock has shown that authorization t has run out.
RunOut(t) ==
    \E i \in Instances, n \in Past : Remaining(t, n + ClockSkew[i]) <= 0

\* The clocks of all instances show the same time.
OneClock == \A i, j \in Instances : ClockSkew[i] = ClockSkew[j]

\* What the request, the configuration and the clock make of a transfer.
Sound(t) ==
    /\ t.amount # 0
    /\ ~t.pending => t.group = None /\ t.merchant = None /\ t.timeout = 0
    /\ t.pending => \E limit \in RiskLimits : t.amount <= limit
    /\ t.code = "authorization" =>
           /\ t.group = t.id
           /\ t.merchant # None
           /\ t.timeout \in Timeouts
    /\ t.code = "authorization_increment" =>
           /\ t.timeout <= transfers[t.group].timeout
           /\ NoWrap => t.timeout > 0

\* The ledger reported a conflict of request r: there is a transfer, and if it
\* is what r asks for, the timeout alone is different.
ConflictExplained(r, status) ==
    /\ transfers[r.id] # None
    /\ Fulfils(transfers[r.id], r) =>
           /\ status = "exists_with_different_timeout"
           /\ r.op = "authorization" => ~OneTimeout
           /\ r.op \in Holds

\* What a handler carries along.
Carries(h) ==
    /\ h.pc = "waiting" => Sound(h.transfer)
    /\ h.pc = "replay" => OverLimit(h.req)
    /\ h.pc = "late" => RunOut(h.original)
    /\ h.pc = "result" /\ IsIdempotencyConflict(h.status) =>
           ConflictExplained(h.req, h.status)
    /\ h.pc = "drift" => transfers[h.req.id] # None

HandlersCarry == \A p \in Handlers : Carries(handler[p])

InstancesConfigured ==
    \A i \in Instances : instance[i].phase # "down" =>
        instance[i].riskLimit \in RiskLimits /\ instance[i].timeout \in Timeouts

LateSound == \A t \in lateTransfers : Asked(t) /\ Sound(t)

LedgerSound ==
    \A id \in TransferIDs : transfers[id] # None =>
        Sound(transfers[id]) /\ transfers[id].timestamp <= now

SubmitInv ==
    /\ InstancesConfigured
    /\ HandlersCarry
    /\ LateSound
    /\ LedgerSound

-----------------------------------------------------------------------------
(***************************************************************************)
(* Timeouts.                                                               *)
(***************************************************************************)

\* A configured timeout is a positive number of seconds.
LEMMA TimeoutsPositive == \A seconds \in Timeouts : seconds \in Nat /\ seconds > 0
  <1> SUFFICES ASSUME NEW ticks \in AuthTimeouts, ticks >= TicksPerSecond
               PROVE  WholeSeconds(ticks) \in Nat /\ WholeSeconds(ticks) > 0
    BY DEF Timeouts, Loads
  <1>1. TicksPerSecond \in Nat \ {0} /\ ticks \in Nat
    BY TimeAssumption, ServiceAssumption
  <1>2. \A d \in Nat \ {0}, n \in Nat : n >= d => (n + d - 1) \div d \in Nat \ {0}
    OBVIOUS
  <1> QED
    BY <1>1, <1>2 DEF WholeSeconds

\* Rounding up keeps the order, and what is positive positive.
LEMMA WholeSecondsOrder ==
    ASSUME NEW a \in Int, NEW b \in Int, 0 < a, a <= b
    PROVE  /\ WholeSeconds(a) \in Nat \ {0} /\ WholeSeconds(b) \in Nat
           /\ WholeSeconds(a) <= WholeSeconds(b)
  <1>1. TicksPerSecond \in Nat \ {0}
    BY TimeAssumption
  <1>2. \A d \in Nat \ {0}, m, n \in Nat : 0 < m /\ m <= n =>
            /\ (m + d - 1) \div d \in Nat \ {0} /\ (n + d - 1) \div d \in Nat
            /\ (m + d - 1) \div d <= (n + d - 1) \div d
    OBVIOUS
  <1> QED
    BY <1>1, <1>2 DEF WholeSeconds

\* An increment asks for no more time than its authorization was given and,
\* where the conversion to a uint32 does not wrap, for some.
LEMMA RemainingBound ==
    ASSUME now \in Nat, NEW original \in Transfer, NEW i \in Instances,
           original.timeout \in Timeouts, original.timestamp <= now,
           Remaining(original, now + ClockSkew[i]) > 0
    PROVE  LET seconds == RemainingSeconds(original, now + ClockSkew[i])
           IN  seconds <= original.timeout /\ (NoWrap => seconds > 0)
  <1> DEFINE rem == Remaining(original, now + ClockSkew[i])
             most == original.timeout * TicksPerSecond - ClockSkew[i]
  <1>1. /\ original.timeout \in Nat /\ original.timeout > 0 /\ original.timestamp \in Nat
        /\ ClockSkew[i] \in Int /\ TicksPerSecond \in Nat /\ Uint32Range \in Nat \ {0}
    BY TimeoutsPositive, TimeAssumption, ServiceAssumption DEF Transfer
  <1>2. PICK w \in Int : w = original.timeout * TicksPerSecond
    BY <1>1
  <1>3. rem \in Int /\ most \in Int /\ 0 < rem /\ rem <= most
    BY <1>1, <1>2 DEF Remaining, ExpiresAt
  <1>4. NoWrap => WholeSeconds(most) < Uint32Range
    BY DEF NoWrap
  <1> HIDE DEF rem, most
  <1>5. /\ WholeSeconds(rem) \in Nat \ {0} /\ WholeSeconds(most) \in Nat
        /\ WholeSeconds(rem) <= WholeSeconds(most)
    BY <1>3, WholeSecondsOrder
  <1>6. PICK n \in Nat \ {0} : n = WholeSeconds(rem)
    BY <1>5
  <1>7. n % Uint32Range \in Nat /\ (n < Uint32Range => n % Uint32Range = n)
    BY <1>1
  <1>8. NoWrap => n % Uint32Range > 0
    BY <1>1, <1>4, <1>5, <1>6, <1>7
  <1> QED
    BY <1>1, <1>6, <1>7, <1>8 DEF RemainingSeconds, rem

-----------------------------------------------------------------------------
(***************************************************************************)
(* What handlers carry along.                                              *)
(***************************************************************************)

\* Time only moves on.
LEMMA TimePasses ==
    ASSUME IInv, [Next]_vars
    PROVE  Past \subseteq Past'
  <1>1. ASSUME NEW p \in Handlers, Progress(p) PROVE UNCHANGED now
    BY Zenon, <1>1 DEF Progress, LoadMetadata, LookupAccount, LookupOriginal,
       EvaluateRisk, LookupReplay, CommitTransfer, CreateTransfer, TransferResult,
       LookupDrift, CommitAccount, AccountResult, ReadBalance, ledgerVars
  <1>2. ASSUME NEW p \in Handlers, Failure(p) PROVE UNCHANGED now
    BY Zenon, <1>2 DEF Failure, CancelRisk, LookupFails, CallFails, ledgerVars
  <1>3. ASSUME NEW i \in Instances, Lifecycle(i) PROVE UNCHANGED now
    BY Zenon, <1>3 DEF Lifecycle, Start, Provision, ProvisionFails, Crash, ledgerVars
  <1>4. LedgerStep => UNCHANGED now \/ Tick
    BY Zenon DEF LedgerStep, ExpireTransfer
  <1>5. UNCHANGED now \/ Tick
    BY Zenon, <1>1, <1>2, <1>3, <1>4
    DEF Next, Receive, CommitLateTransfer, CreateTransfer, CommitLateAccount, vars, ledgerVars
  <1>6. now \in Nat /\ now' \in {now, now + 1}
    BY <1>5, Parts DEF Tick, LedgerInv, LedgerTypeOK
  <1> QED
    BY <1>6 DEF Past

\* What has run out stays so.
LEMMA RunOutStays ==
    ASSUME Past \subseteq Past'
    PROVE  \A t : RunOut(t) => RunOut(t)'
  BY Zenon DEF RunOut

\* Nothing changes for what was submitted while the transfers stay the same.
LEMMA SoundSame ==
    ASSUME UNCHANGED transfers, Past \subseteq Past'
    PROVE  /\ \A t : Sound(t)' <=> Sound(t)
           /\ \A h : Carries(h) => Carries(h)'
  <1>1. \A t : Sound(t)' <=> Sound(t)
    BY DEF Sound
  <1>2. \A r, status : ConflictExplained(r, status)' <=> ConflictExplained(r, status)
    BY DEF ConflictExplained
  <1> QED
    BY <1>1, <1>2, RunOutStays DEF Carries

\* One handler goes on, the others carry what they carried.
LEMMA OneMoves ==
    ASSUME Past \subseteq Past', IInv, HandlersCarry, UNCHANGED transfers,
           NEW p \in Handlers, NEW h,
           handler' = [handler EXCEPT ![p] = h], Carries(h)
    PROVE  HandlersCarry'
  <1>1. /\ handler'[p] = h
        /\ \A q \in Handlers \ {p} : handler'[q] = handler[q]
    BY Parts DEF HandlerInv
  <1> SUFFICES ASSUME NEW q \in Handlers PROVE Carries(handler[q])'
    BY DEF HandlersCarry
  <1>2. PICK g : g = handler'[q]
    OBVIOUS
  <1>3. Carries(g)
    BY <1>1, <1>2 DEF HandlersCarry
  <1>4. Carries(g)'
    BY <1>3, SoundSame
  <1> QED
    BY <1>2, <1>4

\* A handler that answers carries nothing on.
LEMMA AnswerCarries ==
    ASSUME Past \subseteq Past', IInv, HandlersCarry, UNCHANGED transfers,
           NEW p \in Handlers,
           NEW outcome, NEW logged,
           Finish(p, outcome, logged) \/ Decline(p, outcome, logged)
    PROVE  HandlersCarry'
  <1>1. Carries(Idle)
    BY DEF Carries, Idle
  <1> QED
    BY Zenon, <1>1, OneMoves DEF Finish, Decline, Answer

\* A handler that goes on to a place may carry what its record says there.
LEMMA GotoCarries ==
    ASSUME Past \subseteq Past', IInv, HandlersCarry, UNCHANGED transfers,
           NEW p \in Handlers,
           NEW place, place \notin {"waiting", "result"},
           place = "replay" => OverLimit(handler[p].req),
           place = "late" => RunOut(handler[p].original),
           place = "drift" => transfers[handler[p].req.id] # None,
           Goto(p, place)
    PROVE  HandlersCarry'
  <1> DEFINE h == [handler[p] EXCEPT !.pc = place]
  <1>1. handler \in [Handlers -> HandlerRecord]
    BY Parts DEF HandlerInv
  <1>2. handler' = [handler EXCEPT ![p] = h]
    BY Zenon, <1>1 DEF Goto
  <1>3. h.pc = place /\ h.req = handler[p].req /\ h.original = handler[p].original
    BY <1>1 DEF HandlerRecord
  <1> HIDE DEF h
  <1>4. Carries(h)
    BY <1>3 DEF Carries
  <1> QED
    BY Zenon, <1>2, <1>4, OneMoves

\* A handler that submits a sound transfer waits with it.
LEMMA SubmitCarries ==
    ASSUME Past \subseteq Past', IInv, HandlersCarry, UNCHANGED transfers,
           NEW p \in Handlers,
           NEW t, Sound(t), Submit(p, t)
    PROVE  HandlersCarry'
  <1> DEFINE h == [handler[p] EXCEPT !.pc = "waiting", !.transfer = t]
  <1>1. handler \in [Handlers -> HandlerRecord]
    BY Parts DEF HandlerInv
  <1>2. handler' = [handler EXCEPT ![p] = h]
    BY Zenon, <1>1 DEF Submit
  <1>3. h.pc = "waiting" /\ h.transfer = t
    BY <1>1 DEF HandlerRecord
  <1> HIDE DEF h
  <1>4. Carries(h)
    BY <1>3 DEF Carries
  <1> QED
    BY Zenon, <1>2, <1>4, OneMoves

\* What the service posts at once is sound.
LEMMA PostedSound ==
    ASSUME NEW r \in Requests, ValidRequest(r)
    PROVE  /\ r.op = "topup" => Sound(TopUpTransfer(r))
           /\ r.op = "withdrawal" => Sound(WithdrawalTransfer(r))
           /\ r.op \in Moves => Sound(CardTransfer(r))
  <1>1. r.op \in {"topup", "withdrawal"} \cup Moves => r.amount # 0
    <2>1. CASE r.op \in {"topup", "withdrawal"}
      BY Zenon, <2>1 DEF ValidRequest, ValidFunds, Moves
    <2>2. CASE r.op \in Moves
      BY Zenon, <2>2 DEF ValidRequest, ValidMove, ValidFunds, Moves
    <2> QED
      BY <2>1, <2>2
  <1>2. ASSUME NEW debit, NEW credit, r.op \in {"topup", "withdrawal"} \cup Moves
        PROVE  Sound(PostedTransfer(r, debit, credit))
    BY <1>1, <1>2 DEF PostedTransfer, Sound, Moves
  <1> QED
    BY Zenon, <1>2 DEF TopUpTransfer, WithdrawalTransfer, CardTransfer

\* What follows the check of an account.
LEMMA KindCarries ==
    ASSUME Past \subseteq Past', IInv, HandlersCarry, UNCHANGED transfers,
           NEW p \in Handlers,
           handler[p].pc # "idle", NEW metadata,
           KindKnown(p, metadata) \/ KindUnknown(p)
    PROVE  HandlersCarry'
  <1>1. handler[p].req \in Requests /\ ValidRequest(handler[p].req)
    BY Zenon, HandlerFacts
  <1>2. ASSUME NEW t, Sound(t), Submit(p, t) PROVE HandlersCarry'
    BY Zenon, <1>2, SubmitCarries
  <1>3. ASSUME NEW place \in {"create", "card", "risk"}, Goto(p, place)
        PROVE  HandlersCarry'
    BY <1>3, GotoCarries
  <1>4. ASSUME NEW outcome, NEW logged,
               Finish(p, outcome, logged) \/ Decline(p, outcome, logged)
        PROVE  HandlersCarry'
    BY Zenon, <1>4, AnswerCarries
  <1> QED
    BY Zenon, <1>1, <1>2, <1>3, <1>4, PostedSound DEF KindKnown, KindUnknown

\* evaluateRisk: a hold is submitted only within the instance's own limit, and
\* only a request beyond it goes on to be declined.
LEMMA RiskCarries ==
    ASSUME Past \subseteq Past', IInv, SubmitInv, NEW p \in Handlers, EvaluateRisk(p)
    PROVE  HandlersCarry'
  <1> DEFINE h == handler[p]
             i == Home[p]
             clock == now + ClockSkew[i]
             limit == instance[i].riskLimit
  <1>1. h.pc = "risk" /\ HandlersCarry /\ LedgerSound /\ UNCHANGED transfers
    BY DEF EvaluateRisk, SubmitInv, ledgerVars
  <1>2. /\ i \in Instances /\ HandlerServes(h, i) /\ HandlerKnows(h)
        /\ h \in HandlerRecord /\ h.req \in Request /\ ValidRequest(h.req)
    BY Zenon, <1>1, HandlerFacts
  <1>3. limit \in RiskLimits /\ limit \in Nat /\ instance[i].timeout \in Timeouts
    <2>1. instance[i].phase = "up" /\ InstancesConfigured
      BY Zenon, <1>2 DEF HandlerServes, SubmitInv
    <2>2. limit \in RiskLimits /\ instance[i].timeout \in Timeouts
      BY Zenon, <1>2, <2>1 DEF InstancesConfigured
    <2> QED
      BY Zenon, <2>2, ServiceAssumption
  <1>4. CASE ~RiskApproved(h.req, limit) /\ Goto(p, "replay")
    <2>1. OverLimit(h.req)
      BY <1>2, <1>3, <1>4 DEF OverLimit, RiskApproved, Request
    <2> QED
      BY Zenon, <1>1, <1>4, <2>1, GotoCarries
  <1>5. CASE Remaining(h.original, clock) <= 0 /\ Goto(p, "late")
    <2>1. now \in Past
      BY Parts DEF Past, LedgerInv, LedgerTypeOK
    <2>2. RunOut(h.original)
      BY Zenon, <1>2, <1>5, <2>1 DEF RunOut
    <2> QED
      BY <1>1, <1>5, <2>2, GotoCarries
  <1>6. CASE /\ RiskApproved(h.req, limit) /\ h.req.op = "authorization"
             /\ Submit(p, AuthorizationTransfer(h.req, instance[i].timeout))
    <2>1. h.req.amount # 0 /\ h.req.merchant # None
      BY <1>2, <1>6 DEF ValidRequest, ValidAuthorization, Moves
    <2>2. Sound(AuthorizationTransfer(h.req, instance[i].timeout))
      BY SMTT(20), <1>3, <1>6, <2>1 DEF Sound, AuthorizationTransfer, Hold, RiskApproved
    <2> QED
      BY Zenon, <1>1, <1>6, <2>2, SubmitCarries
  <1>7. CASE /\ RiskApproved(h.req, limit) /\ h.req.op = "authorization_increment"
             /\ Remaining(h.original, clock) > 0
             /\ Submit(p, IncrementTransfer(h.req, h.original,
                                            RemainingSeconds(h.original, clock)))
    <2> DEFINE seconds == RemainingSeconds(h.original, clock)
    <2>1. h.req.amount # 0
      BY <1>2, <1>7 DEF ValidRequest, ValidIncrement, Moves
    <2>2. /\ h.original \in Transfer /\ h.original = transfers[h.req.auth]
          /\ IsAuthorization(h.original) /\ h.req.auth \in TransferIDs
      <3>1. h.req \in Requests
        BY Zenon, <1>2 DEF HandlerServes
      <3>2. h.req.auth \in TransferIDs
        BY SMTT(20), <1>2, <1>7, <3>1, ValidRequestFacts
      <3> QED
        BY Zenon, <1>1, <1>2, <1>7, <3>2 DEF HandlerKnows, HandlerRecord
    <2>3. h.original.timeout \in Timeouts /\ h.original.timestamp <= now /\ now \in Nat
      BY Zenon, <1>1, <2>2, NoneAssumption, Parts
      DEF LedgerSound, Sound, IsAuthorization, LedgerInv, LedgerTypeOK
    <2>4. seconds <= h.original.timeout /\ (NoWrap => seconds > 0)
      BY Zenon, <1>2, <1>7, <2>2, <2>3, RemainingBound
    <2> HIDE DEF seconds
    <2>5. Sound(IncrementTransfer(h.req, h.original, seconds))
      <3> DEFINE t == IncrementTransfer(h.req, h.original, seconds)
      <3>1. /\ t.amount = h.req.amount /\ t.pending /\ t.timeout = seconds
            /\ t.code = "authorization_increment" /\ t.group = h.req.auth
        BY Zenon, <1>7 DEF IncrementTransfer, Hold
      <3>2. h.req.amount <= limit
        BY <1>7 DEF RiskApproved
      <3> HIDE DEF t
      <3>3. t.timeout <= transfers[t.group].timeout /\ (NoWrap => t.timeout > 0)
        BY <2>2, <2>4, <3>1
      <3>4. Sound(t)
        BY <1>3, <2>1, <3>1, <3>2, <3>3 DEF Sound
      <3> QED
        BY <3>4 DEF t
    <2> QED
      BY Zenon, <1>1, <1>7, <2>5, SubmitCarries DEF seconds
  <1> QED
    BY Zenon, <1>4, <1>5, <1>6, <1>7 DEF EvaluateRisk

\* Two holds that carry out one request differ in their timeout at most.
LEMMA SameHold ==
    ASSUME NEW t \in Transfer, NEW u \in Transfer, NEW r, r.op \in Holds,
           Recipe(t), Recipe(u), Fulfils(t, r), Fulfils(u, r)
    PROVE  SameTransferExceptTimeout(t, u)
  <1>1. t.id = u.id /\ t.amount = u.amount /\ t.code = u.code /\ t.code = r.op
    BY DEF Fulfils
  <1>2. t.pending /\ u.pending /\ t.credit = Settlement /\ u.credit = Settlement
    BY <1>1 DEF Recipe
  <1>3. t.group = u.group /\ t.debit = u.debit /\ t.merchant = u.merchant
    BY <1>1 DEF Recipe, Fulfils, Holds
  <1> QED
    BY <1>1, <1>2, <1>3 DEF SameTransferExceptTimeout, Transfer

\* Neither do two transfers posted for one request, and these have no timeout.
LEMMA SameRequest ==
    ASSUME NEW t \in Transfer, NEW u \in Transfer, NEW r,
           Recipe(t), Recipe(u), Sound(t), Sound(u), Fulfils(t, r), Fulfils(u, r)
    PROVE  /\ SameTransferExceptTimeout(t, u)
           /\ r.op \notin Holds => t.timeout = u.timeout
  <1>1. /\ t.id = u.id /\ t.amount = u.amount /\ t.code = u.code /\ t.code = r.op
        /\ r.op \in TransferCodes
    BY DEF Fulfils, TransferCodes
  <1>2. CASE r.op \notin Holds
    <2>1. ~t.pending /\ ~u.pending /\ t.pending = u.pending
      BY <1>1, <1>2 DEF Recipe, Transfer
    <2>2. t.debit = u.debit /\ t.credit = u.credit
      BY <1>1, <1>2 DEF Fulfils, TransferCodes, Holds
    <2> QED
      BY <1>1, <1>2, <2>1, <2>2 DEF SameTransferExceptTimeout, Sound
  <1> QED
    BY <1>2, SameHold

\* Every step of a handler that commits no transfer.
LEMMA ProgressCarries ==
    ASSUME Past \subseteq Past', IInv, SubmitInv, NEW p \in Handlers, Progress(p),
           ~CommitTransfer(p)
    PROVE  UNCHANGED transfers /\ HandlersCarry'
  <1>0. HandlersCarry
    BY DEF SubmitInv
  <1>1. UNCHANGED transfers
    BY Zenon DEF Progress, LoadMetadata, LookupAccount, LookupOriginal, EvaluateRisk,
       LookupReplay, TransferResult, LookupDrift, CommitAccount, AccountResult,
       ReadBalance, ledgerVars
  <1> SUFFICES HandlersCarry'
    BY <1>1
  <1>2. ASSUME NEW outcome, NEW logged,
               Finish(p, outcome, logged) \/ Decline(p, outcome, logged)
        PROVE  HandlersCarry'
    BY Zenon, <1>0, <1>1, <1>2, AnswerCarries
  <1>3. ASSUME handler[p].pc # "idle", NEW metadata,
               KindKnown(p, metadata) \/ KindUnknown(p)
        PROVE  HandlersCarry'
    BY Zenon, <1>0, <1>1, <1>3, KindCarries
  <1>4. CASE LoadMetadata(p)
    <2>1. handler[p].pc # "idle"
      BY <1>4 DEF LoadMetadata
    <2>2. ASSUME NEW place \in {"lookup_card", "lookup_account"}, Goto(p, place)
          PROVE  HandlersCarry'
      BY <1>0, <1>1, <2>2, GotoCarries
    <2> QED
      BY Zenon, <1>3, <1>4, <2>1, <2>2 DEF LoadMetadata
  <1>5. CASE LookupAccount(p)
    <2>1. handler[p].pc # "idle"
      BY <1>5 DEF LookupAccount
    <2> QED
      BY Zenon, <1>3, <1>5, <2>1 DEF LookupAccount
  <1>6. CASE LookupOriginal(p)
    <2> DEFINE h == [handler[p] EXCEPT !.pc = "card", !.original = transfers[handler[p].req.auth]]
    <2>1. handler[p] \in HandlerRecord /\ handler \in [Handlers -> HandlerRecord]
      BY Parts DEF HandlerInv
    <2>2. h.pc = "card"
      BY <2>1 DEF HandlerRecord
    <2>3. CASE handler' = [handler EXCEPT ![p].pc = "card",
                                          ![p].original = transfers[handler[p].req.auth]]
      <3>1. handler' = [handler EXCEPT ![p] = h]
        BY Zenon, <2>1, <2>3
      <3> HIDE DEF h
      <3>2. Carries(h)
        BY <2>2 DEF Carries
      <3> QED
        BY Zenon, <1>0, <1>1, <3>1, <3>2, OneMoves
    <2> QED
      BY Zenon, <1>2, <1>6, <2>3 DEF LookupOriginal
  <1>7. CASE EvaluateRisk(p)
    BY Zenon, <1>7, RiskCarries
  <1>8. CASE TransferResult(p)
    <2>1. CASE NeedsDriftCheck(handler[p]) /\ Goto(p, "drift")
      <3>1. transfers[handler[p].req.id] # None
        BY <1>0, <1>8, <2>1 DEF TransferResult, NeedsDriftCheck, HandlersCarry, Carries,
                                IsIdempotencyConflict, ConflictExplained
      <3> QED
        BY <1>0, <1>1, <2>1, <3>1, GotoCarries
    <2> QED
      BY Zenon, <1>2, <1>8, <2>1 DEF TransferResult
  <1>9. CASE CommitAccount(p)
    <2> DEFINE status == AccountStatus(RequestedAccount(handler[p].req))
               h == [handler[p] EXCEPT !.pc = "created", !.status = status]
    <2>1. handler[p] \in HandlerRecord /\ handler \in [Handlers -> HandlerRecord]
      BY Parts DEF HandlerInv
    <2>2. handler' = [handler EXCEPT ![p] = h]
      BY Zenon, <1>9, <2>1 DEF CommitAccount
    <2>3. h.pc = "created"
      BY <2>1 DEF HandlerRecord
    <2> HIDE DEF h
    <2>4. Carries(h)
      BY <2>3 DEF Carries
    <2> QED
      BY Zenon, <1>0, <1>1, <2>2, <2>4, OneMoves
  <1>10. CASE \/ LookupReplay(p) \/ LookupDrift(p) \/ AccountResult(p) \/ ReadBalance(p)
    BY Zenon, <1>2, <1>10 DEF LookupReplay, LookupDrift, AccountResult, ReadBalance
  <1> QED
    BY Zenon, <1>1, <1>4, <1>5, <1>6, <1>7, <1>8, <1>9, <1>10 DEF Progress

-----------------------------------------------------------------------------
(***************************************************************************)
(* What is left under way, and what commits.                               *)
(***************************************************************************)

\* What a failed call or a stopped process leaves under way was asked for.
LEMMA AbandonSound ==
    ASSUME Past \subseteq Past', IInv, SubmitInv, NEW P \in SUBSET Handlers, NEW as,
           UNCHANGED transfers,
           Abandon(PendingTransfers(P), as)
    PROVE  LateSound'
  <1>1. ASSUME NEW p \in P, handler[p].pc = "waiting"
        PROVE  Asked(handler[p].transfer) /\ Sound(handler[p].transfer)
    <2>1. handler[p].req \in Requests /\ Fulfils(handler[p].transfer, handler[p].req)
      BY Zenon, <1>1, HandlerFacts DEF HandlerSubmitted
    <2> QED
      BY Zenon, <1>1, <2>1 DEF Asked, SubmitInv, HandlersCarry, Carries
  <1>2. PICK T \in SUBSET PendingTransfers(P) :
            lateTransfers' = lateTransfers \cup T
    BY Zenon DEF Abandon
  <1>3. \A t \in T : Asked(t) /\ Sound(t)
    BY Zenon, <1>1, <1>2 DEF PendingTransfers
  <1>4. \A t \in lateTransfers' : Asked(t) /\ Sound(t)
    BY Zenon, <1>2, <1>3 DEF SubmitInv, LateSound
  <1> QED
    BY <1>4, SoundSame DEF LateSound

\* What is sound stays sound when the ledger grows.
LEMMA SoundGrows ==
    ASSUME LedgerGrows, NEW t \in Transfer, Recipe(t), Sound(t)
    PROVE  Sound(t)'
  <1>1. t.code = "authorization_increment" =>
            transfers'[t.group] = transfers[t.group]
    BY DEF Recipe, LedgerGrows
  <1> QED
    BY <1>1 DEF Sound

\* What a handler carries along stays right when the ledger grows.
LEMMA CarriesGrows ==
    ASSUME Past \subseteq Past', IInv, LedgerGrows, NEW p \in Handlers,
           Carries(handler[p]),
           NEW h, h = handler[p]
    PROVE  Carries(h)'
  <1>1. CASE h.pc = "waiting"
    <2>1. h.transfer \in Transfer /\ Recipe(h.transfer)
      BY Zenon, <1>1, HandlerFacts DEF HandlerSubmitted, HandlerRecord
    <2>2. Sound(h.transfer)'
      BY <1>1, <2>1, SoundGrows DEF Carries
    <2> QED
      BY <1>1, <2>2 DEF Carries
  <1>2. CASE h.pc \in {"result", "drift"}
    <2>1. h.req.id \in TransferIDs
      <3>1. /\ h.req \in Requests /\ ValidRequest(h.req)
            /\ HandlerServes(h, Home[p])
        BY Zenon, <1>2, HandlerFacts
      <3>2. h.req.op \in TransferCodes
        BY <1>2, <3>1 DEF HandlerServes, OperationsAt, TransferCodes
      <3> QED
        BY Zenon, <3>1, <3>2, ValidRequestFacts
    <2>2. transfers[h.req.id] # None => transfers'[h.req.id] = transfers[h.req.id]
      BY <2>1 DEF LedgerGrows
    <2>3. \A status : ConflictExplained(h.req, status) => ConflictExplained(h.req, status)'
      BY <2>2 DEF ConflictExplained
    <2> QED
      BY <1>2, <2>2, <2>3 DEF Carries
  <1>3. CASE h.pc \notin {"waiting", "result", "drift"}
    BY <1>3, RunOutStays DEF Carries
  <1> QED
    BY <1>1, <1>2, <1>3

\* A sound transfer that commits, or is refused, leaves sound transfers.
LEMMA CommitSound ==
    ASSUME IInv, SubmitInv, NEW t \in Transfer, Recipe(t), Sound(t), CreateTransfer(t)
    PROVE  LedgerGrows /\ LedgerSound'
  <1>1. /\ transfers \in [TransferIDs -> Transfer \cup {None}] /\ t.id \in TransferIDs
    BY Parts DEF LedgerInv, LedgerTypeOK, Transfer
  <1>2. PICK n \in Nat : n = now
    BY Parts DEF LedgerInv, LedgerTypeOK
  <1> DEFINE stored == [t EXCEPT !.timestamp = n]
  <1>3. LedgerGrows /\ now' = n
    BY Zenon, <1>2, CreateTransferOK, Parts DEF CreateTransfer
  <1>4. stored \in Transfer /\ stored.timestamp = n
    BY DEF Transfer
  <1>5. Recipe(stored) /\ Sound(stored)
    BY DEF Recipe, Sound, Transfer
  <1>6. \/ transfers' = transfers
        \/ transfers' = [transfers EXCEPT ![t.id] = stored]
    BY Zenon, <1>2 DEF CreateTransfer
  <1> HIDE DEF stored
  <1>7. PICK v \in Transfer : v = stored
    BY <1>4
  <1> SUFFICES ASSUME NEW id \in TransferIDs, transfers'[id] # None
               PROVE  Sound(transfers[id])' /\ transfers'[id].timestamp <= now'
    BY <1>2, <1>3 DEF LedgerSound, SubmitInv
  <1>8. CASE transfers'[id] = stored
    <2>1. Sound(v)'
      BY <1>3, <1>5, <1>7, SoundGrows
    <2> QED
      BY <1>3, <1>4, <1>7, <1>8, <2>1
  <1>9. CASE transfers'[id] = transfers[id]
    <2>1. PICK u \in Transfer : u = transfers[id]
      BY <1>1, <1>9
    <2>2. Recipe(u) /\ Sound(u) /\ u.timestamp <= n
      BY <1>2, <1>9, <2>1, Parts DEF SubmitInv, LedgerSound, LedgerInv, LedgerOK
    <2>3. Sound(u)'
      BY <1>3, <2>2, SoundGrows
    <2> QED
      BY <1>3, <1>9, <2>1, <2>2, <2>3
  <1> QED
    BY <1>1, <1>6, <1>8, <1>9

\* What the ledger says of a conflict, when a sound transfer of the request is
\* submitted.
LEMMA ConflictStatus ==
    ASSUME IInv, SubmitInv, NEW r \in Requests, NEW t \in Transfer,
           Recipe(t), Sound(t), Fulfils(t, r), CreateTransfer(t),
           IsIdempotencyConflict(TransferStatus(t))
    PROVE  ConflictExplained(r, TransferStatus(t)) /\ UNCHANGED transfers
  <1>1. /\ transfers \in [TransferIDs -> Transfer \cup {None}]
        /\ t.id \in TransferIDs /\ t.id = r.id
    BY Parts DEF LedgerInv, LedgerTypeOK, Transfer, Fulfils
  <1>2. NewStatus(t) \notin {"exists_with_different", "exists_with_different_timeout"}
    BY DEF NewStatus
  <1>3. /\ transfers[r.id] # None
        /\ TransferStatus(t) = ExistsStatus(transfers[r.id], t)
        /\ UNCHANGED transfers
    BY <1>1, <1>2 DEF TransferStatus, IsIdempotencyConflict, CreateTransfer
  <1>4. PICK u \in Transfer : u = transfers[r.id]
    BY <1>1, <1>3
  <1>5. Recipe(u) /\ Sound(u)
    BY <1>1, <1>3, <1>4, Parts DEF SubmitInv, LedgerSound, LedgerInv, LedgerOK
  <1>6. ASSUME Fulfils(u, r)
        PROVE  /\ ExistsStatus(u, t) = "exists_with_different_timeout"
               /\ r.op = "authorization" => ~OneTimeout
               /\ r.op \in Holds
    <2>1. /\ SameTransferExceptTimeout(u, t)
          /\ r.op \notin Holds => u.timeout = t.timeout
      BY <1>5, <1>6, SameRequest
    <2>2. u.pending = t.pending
      BY <2>1 DEF SameTransferExceptTimeout
    <2>3. u.timeout # t.timeout
      BY <1>3, <1>4, <2>1, <2>2 DEF ExistsStatus, SameTransfer, IsIdempotencyConflict
    <2>4. ExistsStatus(u, t) = "exists_with_different_timeout"
      BY <2>2, <2>3 DEF ExistsStatus, SameTransfer
    <2>5. r.op = "authorization" => u.timeout \in Timeouts /\ t.timeout \in Timeouts
      BY <1>5, <1>6 DEF Sound, Fulfils
    <2> QED
      BY <2>1, <2>3, <2>4, <2>5 DEF OneTimeout
  <1> QED
    BY <1>3, <1>4, <1>6 DEF ConflictExplained

\* The ledger commits or refuses the transfer of a handler.
LEMMA CommitCarries ==
    ASSUME Past \subseteq Past', IInv, SubmitInv, NEW p \in Handlers, CommitTransfer(p)
    PROVE  LedgerSound' /\ HandlersCarry'
  <1> DEFINE t == handler[p].transfer
             next == [handler[p] EXCEPT !.pc = "result", !.status = TransferStatus(t)]
  <1>1. handler[p].pc = "waiting" /\ CreateTransfer(t)
    BY DEF CommitTransfer
  <1>2. /\ t \in Transfer /\ Recipe(t) /\ Fulfils(t, handler[p].req)
        /\ handler[p].req \in Requests /\ handler[p] \in HandlerRecord
    BY Zenon, <1>1, HandlerFacts DEF HandlerSubmitted, HandlerRecord
  <1>3. Sound(t) /\ HandlersCarry
    BY Zenon, <1>1 DEF SubmitInv, HandlersCarry, Carries
  <1>4. LedgerGrows /\ LedgerSound'
    BY Zenon, <1>1, <1>2, <1>3, CommitSound
  <1>5. handler \in [Handlers -> HandlerRecord]
    BY Parts DEF HandlerInv
  <1>6. PICK h : h = next
    OBVIOUS
  <1>7. h.pc = "result" /\ h.req = handler[p].req /\ h.status = TransferStatus(t)
    BY <1>2, <1>6 DEF HandlerRecord
  <1>8. handler' = [handler EXCEPT ![p] = h]
    BY Zenon, <1>5, <1>6 DEF CommitTransfer
  <1> HIDE DEF next
  <1>9. Carries(h)'
    <2>1. ASSUME IsIdempotencyConflict(h.status)
          PROVE  ConflictExplained(h.req, h.status)'
      <3>1. ConflictExplained(h.req, h.status) /\ UNCHANGED transfers
        BY Zenon, <1>1, <1>2, <1>3, <1>7, <2>1, ConflictStatus
      <3> QED
        BY <3>1 DEF ConflictExplained
    <2> QED
      BY <1>7, <2>1 DEF Carries
  <1>10. ASSUME NEW q \in Handlers \ {p} PROVE Carries(handler[q])'
    <2>1. PICK g : g = handler[q]
      OBVIOUS
    <2>2. Carries(g)'
      BY <1>3, <1>4, <2>1, CarriesGrows DEF HandlersCarry
    <2> QED
      BY <1>5, <1>8, <2>1, <2>2
  <1>11. Carries(handler[p])'
    BY <1>5, <1>8, <1>9
  <1> QED
    BY <1>4, <1>10, <1>11 DEF HandlersCarry

\* A new configuration is one that loads.
LEMMA LifecycleConfigured ==
    ASSUME IInv, InstancesConfigured, NEW i \in Instances, Lifecycle(i)
    PROVE  InstancesConfigured'
  <1>1. instance \in [Instances -> [phase : Phases, riskLimit : Nat, timeout : Nat]]
    BY Parts DEF InstanceInv
  <1>2. CASE Start(i)
    <2>1. PICK limit \in RiskLimits, ticks \in AuthTimeouts :
              /\ Loads(limit, ticks)
              /\ instance' = [instance EXCEPT
                     ![i] = [phase |-> "cash", riskLimit |-> limit,
                             timeout |-> WholeSeconds(ticks)]]
      BY Zenon, <1>2 DEF Start
    <2>2. WholeSeconds(ticks) \in Timeouts
      BY <2>1 DEF Timeouts
    <2> QED
      BY <1>1, <2>1, <2>2 DEF InstancesConfigured
  <1>3. CASE instance[i].phase # "down" /\ \E phase :
                 instance' = [instance EXCEPT ![i].phase = phase]
    BY <1>1, <1>3 DEF InstancesConfigured
  <1>4. CASE Provision(i) \/ ProvisionFails(i) \/ Crash(i)
    <2>1. instance[i].phase # "down"
      BY <1>4 DEF Provision, ProvisionFails, Crash, Provisioning
    <2> QED
      BY Zenon, <1>3, <1>4, <2>1 DEF Provision, ProvisionFails, Crash
  <1> QED
    BY <1>2, <1>4 DEF Lifecycle

\* A step that commits no transfer leaves what is recorded of them right.
LEMMA LedgerSoundSame ==
    ASSUME Past \subseteq Past', IInv, SubmitInv, UNCHANGED transfers,
           now' \in {now, now + 1}
    PROVE  LedgerSound'
  <1> SUFFICES ASSUME NEW id \in TransferIDs, transfers'[id] # None
               PROVE  Sound(transfers[id])' /\ transfers'[id].timestamp <= now'
    BY DEF LedgerSound
  <1>1. PICK u \in Transfer : u = transfers[id]
    BY Zenon, Parts DEF LedgerInv, LedgerTypeOK
  <1>2. Sound(u) /\ u.timestamp <= now /\ u.timestamp \in Nat /\ now \in Nat
    BY <1>1, Parts DEF SubmitInv, LedgerSound, LedgerInv, LedgerTypeOK, Transfer
  <1>3. Sound(u)'
    BY <1>2, SoundSame
  <1> QED
    BY <1>1, <1>2, <1>3

\* Every step keeps SubmitInv.
LEMMA SubmitInvOK == IInv /\ SubmitInv /\ [Next]_vars => SubmitInv'
  <1> SUFFICES ASSUME IInv, SubmitInv, [Next]_vars, Past \subseteq Past' PROVE SubmitInv'
    BY TimePasses
  <1>0. InstancesConfigured /\ HandlersCarry /\ LateSound /\ LedgerSound
    BY DEF SubmitInv
  <1>1. ASSUME UNCHANGED instance PROVE InstancesConfigured'
    BY <1>0, <1>1 DEF InstancesConfigured
  <1>2. ASSUME UNCHANGED <<handler, transfers>> PROVE HandlersCarry'
    BY <1>0, <1>2, SoundSame DEF HandlersCarry
  <1>3. ASSUME UNCHANGED transfers, lateTransfers' \subseteq lateTransfers
        PROVE  LateSound'
    BY <1>0, <1>3, SoundSame DEF LateSound
  <1>4. ASSUME UNCHANGED <<transfers, now>> PROVE LedgerSound'
    BY <1>0, <1>4, LedgerSoundSame DEF LedgerSound
  <1>5. ASSUME LedgerGrows, lateTransfers' \subseteq lateTransfers PROVE LateSound'
    <2> SUFFICES ASSUME NEW t \in lateTransfers' PROVE Asked(t) /\ Sound(t)'
      BY DEF LateSound
    <2>1. t \in Transfer /\ Recipe(t) /\ Sound(t) /\ Asked(t)
      BY <1>0, <1>5, Parts DEF LateSound, LateInv, LateOK
    <2> QED
      BY <1>5, <2>1, SoundGrows
  <1>6. ASSUME NEW p \in Handlers, NEW r \in Requests, Receive(p, r) PROVE SubmitInv'
    <2>1. /\ InstancesConfigured' /\ LateSound' /\ LedgerSound' /\ UNCHANGED transfers
      BY <1>1, <1>3, <1>4, <1>6 DEF Receive, ledgerVars, lateVars
    <2>2. CASE handler' = [handler EXCEPT ![p].pc = FirstPlace(r), ![p].req = r]
      <3> DEFINE h == [handler[p] EXCEPT !.pc = FirstPlace(r), !.req = r]
      <3>1. handler \in [Handlers -> HandlerRecord]
        BY Parts DEF HandlerInv
      <3>2. handler' = [handler EXCEPT ![p] = h]
        BY Zenon, <2>2, <3>1
      <3>3. h.pc = FirstPlace(r)
        BY <3>1 DEF HandlerRecord
      <3>4. FirstPlace(r) \notin {"waiting", "replay", "late", "result", "drift"}
        BY DEF FirstPlace
      <3> HIDE DEF h
      <3>5. Carries(h)
        BY <3>3, <3>4 DEF Carries
      <3>6. HandlersCarry'
        BY Zenon, <1>0, <2>1, <3>2, <3>5, OneMoves
      <3> QED
        BY <2>1, <3>6 DEF SubmitInv
    <2>3. CASE UNCHANGED handler
      BY <1>2, <2>1, <2>3 DEF SubmitInv
    <2> QED
      BY Zenon, <1>6, <2>2, <2>3 DEF Receive
  <1>7. ASSUME NEW p \in Handlers, Progress(p) PROVE SubmitInv'
    <2>1. UNCHANGED <<instance, lateTransfers, now>>
      BY Zenon, <1>7 DEF Progress, LoadMetadata, LookupAccount, LookupOriginal,
         EvaluateRisk, LookupReplay, CommitTransfer, CreateTransfer, TransferResult,
         LookupDrift, CommitAccount, AccountResult, ReadBalance, lateVars, ledgerVars
    <2>2. CASE CommitTransfer(p)
      <3>1. LedgerSound' /\ HandlersCarry'
        BY <2>2, CommitCarries
      <3>2. LedgerGrows
        <4>1. handler[p].pc = "waiting" /\ CreateTransfer(handler[p].transfer)
          BY <2>2 DEF CommitTransfer
        <4>2. handler[p].transfer \in Transfer /\ Recipe(handler[p].transfer)
          BY Zenon, <4>1, HandlerFacts DEF HandlerSubmitted, HandlerRecord
        <4> QED
          BY Zenon, <4>1, <4>2, CreateTransferOK, Parts
      <3> QED
        BY <1>1, <1>5, <2>1, <3>1, <3>2 DEF SubmitInv
    <2>3. CASE ~CommitTransfer(p)
      BY <1>1, <1>3, <1>4, <1>7, <2>1, <2>3, ProgressCarries DEF SubmitInv
    <2> QED
      BY <2>2, <2>3
  <1>8. ASSUME NEW p \in Handlers, Failure(p) PROVE SubmitInv'
    <2>1. UNCHANGED <<instance, transfers, now>>
      BY Zenon, <1>8 DEF Failure, CancelRisk, LookupFails, CallFails, ledgerVars
    <2>2. HandlersCarry'
      BY Zenon, <1>0, <1>8, <2>1, AnswerCarries
      DEF Failure, CancelRisk, LookupFails, CallFails
    <2>3. LateSound'
      <3>1. CASE CallFails(p)
        <4>1. {p} \in SUBSET Handlers
          OBVIOUS
        <4> QED
          BY Zenon, <2>1, <3>1, <4>1, AbandonSound DEF CallFails
      <3>2. CASE CancelRisk(p) \/ LookupFails(p)
        <4>1. UNCHANGED lateTransfers
          BY Zenon, <3>2 DEF CancelRisk, LookupFails, lateVars
        <4> QED
          BY <1>3, <2>1, <4>1
      <3> QED
        BY <1>8, <3>1, <3>2 DEF Failure
    <2> QED
      BY <1>1, <1>4, <2>1, <2>2, <2>3 DEF SubmitInv
  <1>9. ASSUME NEW t \in lateTransfers, CommitLateTransfer(t) PROVE SubmitInv'
    <2>1. /\ CreateTransfer(t) /\ UNCHANGED <<instance, handler>>
          /\ lateTransfers' \subseteq lateTransfers
      BY <1>9 DEF CommitLateTransfer
    <2>2. t \in Transfer /\ Recipe(t) /\ Sound(t)
      BY <1>0, Parts DEF LateInv, LateOK, LateSound
    <2>3. LedgerGrows /\ LedgerSound'
      BY <2>1, <2>2, CommitSound
    <2>4. ASSUME NEW p \in Handlers PROVE Carries(handler[p])'
      <3>1. PICK g : g = handler[p]
        OBVIOUS
      <3>2. Carries(g)'
        BY <1>0, <2>3, <3>1, CarriesGrows DEF HandlersCarry
      <3> QED
        BY <2>1, <3>1, <3>2
    <2> QED
      BY <1>1, <1>5, <2>1, <2>3, <2>4 DEF SubmitInv, HandlersCarry
  <1>10. ASSUME NEW i \in Instances, Lifecycle(i) PROVE SubmitInv'
    <2>1. UNCHANGED <<transfers, now>>
      BY Zenon, <1>10 DEF Lifecycle, Start, Provision, ProvisionFails, Crash, ledgerVars
    <2>2. InstancesConfigured'
      BY <1>0, <1>10, LifecycleConfigured
    <2>3. HandlersCarry'
      <3>1. CASE Crash(i)
        <4>1. \A p \in Handlers : handler'[p] \in {handler[p], Idle}
          BY <3>1 DEF Crash
        <4>2. Carries(Idle)'
          BY DEF Carries, Idle
        <4>3. ASSUME NEW p \in Handlers PROVE Carries(handler[p])'
          <5>1. CASE handler'[p] = Idle
            BY <4>2, <5>1 DEF Idle
          <5>2. CASE handler'[p] = handler[p]
            BY <1>0, <2>1, <5>2, SoundSame DEF HandlersCarry
          <5> QED
            BY <4>1, <5>1, <5>2
        <4> QED
          BY <4>3 DEF HandlersCarry
      <3>2. CASE UNCHANGED handler
        BY <1>2, <2>1, <3>2
      <3> QED
        BY Zenon, <1>10, <3>1, <3>2 DEF Lifecycle, Start, Provision, ProvisionFails
    <2>4. LateSound'
      <3>1. CASE Crash(i)
        <4>1. {p \in Handlers : Home[p] = i} \in SUBSET Handlers
          OBVIOUS
        <4> QED
          BY Zenon, <2>1, <3>1, <4>1, AbandonSound DEF Crash
      <3>2. CASE lateTransfers' \subseteq lateTransfers
        BY <1>3, <2>1, <3>2
      <3>3. CASE ProvisionFails(i)
        <4>1. \/ UNCHANGED lateTransfers
              \/ \E T \in SUBSET {} : lateTransfers' = lateTransfers \cup T
          BY Zenon, <3>3 DEF ProvisionFails, Abandon, lateVars
        <4> QED
          BY <3>2, <4>1
      <3>4. CASE Start(i) \/ Provision(i)
        BY <3>2, <3>4 DEF Start, Provision, lateVars
      <3> QED
        BY <1>10, <3>1, <3>3, <3>4 DEF Lifecycle
    <2> QED
      BY <1>4, <2>1, <2>2, <2>3, <2>4 DEF SubmitInv
  <1>11. CASE /\ UNCHANGED <<transfers, lateTransfers, instance, handler>>
              /\ UNCHANGED now \/ Tick
    <2>1. CASE UNCHANGED now
      BY <1>1, <1>2, <1>3, <1>4, <1>11, <2>1 DEF SubmitInv
    <2>2. CASE Tick
      <3>1. now' = now + 1
        BY <2>2 DEF Tick
      <3> QED
        BY <1>1, <1>2, <1>3, <1>11, <3>1, LedgerSoundSame DEF SubmitInv
    <2> QED
      BY <1>11, <2>1, <2>2
  <1>12. CASE LedgerStep \/ \E a \in lateAccounts : CommitLateAccount(a)
    <2>1. CASE LedgerStep
      <3>1. UNCHANGED <<transfers, lateTransfers, instance, handler>>
        BY Zenon, <2>1 DEF LedgerStep, Tick, ExpireTransfer, lateVars
      <3>2. UNCHANGED now \/ Tick
        BY Zenon, <2>1 DEF LedgerStep, ExpireTransfer
      <3> QED
        BY <1>11, <3>1, <3>2
    <2>2. CASE \E a \in lateAccounts : CommitLateAccount(a)
      BY Zenon, <1>11, <2>2 DEF CommitLateAccount
    <2> QED
      BY <1>12, <2>1, <2>2
  <1>13. CASE UNCHANGED vars
    BY Zenon, <1>11, <1>13 DEF vars, ledgerVars, lateVars
  <1> QED
    BY <1>6, <1>7, <1>8, <1>9, <1>10, <1>12, <1>13 DEF Next

-----------------------------------------------------------------------------
(***************************************************************************)
(* The theorems.                                                           *)
(***************************************************************************)

\* Whatever can still commit was asked for, has passed evaluateRisk and has the
\* timeout of a configuration or of the authorization it extends; what the
\* ledger told a handler is still so.
THEOREM SubmittedInvariance == Spec => [](IInv /\ SubmitInv)
  <1>1. Init => SubmitInv
    BY TimeAssumption
    DEF Init, LedgerInit, Idle, SubmitInv, InstancesConfigured,
           HandlersCarry, Carries, LateSound, LedgerSound
  <1> QED
    BY <1>1, SubmitInvOK, Invariance, PTL DEF Spec

\* No hold, increments included, is ever larger than every risk limit a process
\* was configured with.
THEOREM HoldsAlwaysWithinRiskLimit == Spec => []HoldsWithinRiskLimit
  <1>1. SubmitInv => HoldsWithinRiskLimit
    BY SMTT(20) DEF SubmitInv, LedgerSound, Sound, HoldsWithinRiskLimit
  <1> QED
    BY <1>1, SubmittedInvariance, PTL

\* Every hold lapses: IncrementAuthorization never asks for a zero timeout, which
\* the ledger takes for none, nor for more time than the authorization was given,
\* if the time that is left fits a uint32 (remainingSeconds converts it unchecked).
THEOREM HoldsAlwaysLapse == Spec /\ NoWrap => []HoldsLapse
  <1>1. ASSUME IInv, SubmitInv, NoWrap PROVE HoldsLapse
    <2> SUFFICES ASSUME NEW id \in TransferIDs, transfers[id] # None,
                        transfers[id].pending
                 PROVE  /\ transfers[id].timeout > 0
                        /\ transfers[id].timeout <= transfers[transfers[id].group].timeout
      BY DEF HoldsLapse
    <2>1. PICK t \in Transfer : t = transfers[id]
      BY Zenon, <1>1, Parts DEF LedgerInv, LedgerTypeOK
    <2>2. Recipe(t) /\ Sound(t) /\ t.id = id
      BY <1>1, <2>1, Parts DEF LedgerInv, LedgerOK, SubmitInv, LedgerSound
    <2>3. CASE t.code = "authorization"
      <3>1. t.timeout \in Nat /\ t.timeout > 0
        BY <2>2, <2>3, TimeoutsPositive DEF Sound
      <3>2. t.group = id
        BY <2>2, <2>3 DEF Sound
      <3> QED
        BY <2>1, <3>1, <3>2
    <2>4. CASE t.code = "authorization_increment"
      BY <1>1, <2>1, <2>2, <2>4 DEF Sound
    <2> QED
      BY Zenon, <2>1, <2>2, <2>3, <2>4 DEF Recipe, Holds
  <1>2. NoWrap => NoWrap'
    OBVIOUS
  <1> QED
    BY <1>1, <1>2, SubmittedInvariance, PTL

-----------------------------------------------------------------------------
(***************************************************************************)
(* What callers are told of a request whose transfer the ledger holds.     *)
(***************************************************************************)
Stands ==
    {"posted", "approved", "dependency_unavailable", "request_canceled"}

\* A conflict is over a transfer that exists, and a request that was carried out
\* is refused only as an authorization, after the timeout was reconfigured.
ToldRight(r, outcome) ==
    /\ outcome = "idempotency_conflict" /\ r.op # "create_account" =>
           r.id # None /\ transfers[r.id] # None
    /\ r \in CarriedOut =>
           \/ outcome \in Stands
           \/ /\ outcome = "idempotency_conflict"
              /\ r.op = "authorization" /\ ~OneTimeout

ReplyRight == reply # None => ToldRight(reply.req, reply.outcome)

\* What a decline without a transfer rests on: the amount, or an authorization
\* that is none or has run out.
DeclinedRight(r) ==
    /\ r.op \in Holds /\ r.id \in TransferIDs
    /\ r.op = "authorization" => OverLimit(r)
    /\ r.op = "authorization_increment" =>
           \/ OverLimit(r)
           \/ /\ r.auth \in TransferIDs /\ transfers[r.auth] # None
              /\ ~IsAuthorization(transfers[r.auth]) \/ RunOut(transfers[r.auth])

DeclinesRight == \A r \in declined : DeclinedRight(r)

AnswerInv == ReplyRight /\ DeclinesRight

\* What the ledger holds of a request that was carried out.
LEMMA CarriedOutFacts ==
    ASSUME IInv, SubmitInv, NEW r \in CarriedOut
    PROVE  /\ r \in Requests /\ r.id \in TransferIDs /\ r.id \notin failed
           /\ r.op \in TransferCodes
           /\ transfers[r.id] \in Transfer /\ Fulfils(transfers[r.id], r)
           /\ Recipe(transfers[r.id]) /\ Sound(transfers[r.id])
  <1>1. /\ r \in Requests /\ r.id # None /\ transfers[r.id] # None
        /\ Fulfils(transfers[r.id], r)
    BY DEF CarriedOut
  <1>2. r.id \in TransferIDs
    BY <1>1, ServiceAssumption DEF Request
  <1>3. transfers[r.id] \in Transfer
    BY Zenon, <1>1, <1>2, Parts DEF LedgerInv, LedgerTypeOK
  <1>4. r.op \in TransferCodes
    BY <1>1, <1>3 DEF Fulfils, Transfer
  <1>5. Recipe(transfers[r.id]) /\ Sound(transfers[r.id]) /\ r.id \notin failed
    BY <1>1, <1>2, Parts DEF LedgerInv, LedgerOK, SubmitInv, LedgerSound
  <1> QED
    BY <1>1, <1>2, <1>3, <1>4, <1>5

\* The accounts and the authorization such a request names.
LEMMA CarriedOutNames ==
    ASSUME IInv, SubmitInv, NEW r \in CarriedOut
    PROVE  /\ r.op \in {"topup", "withdrawal"} \cup Moves =>
                  r.account \in AccountIDs /\ IsKind(r.account, "corporate_wallet")
           /\ r.op \in Moves \cup {"authorization"} =>
                  r.card \in AccountIDs /\ IsKind(r.card, "card_wallet")
           /\ r.op \in Moves => accounts[r.card].parent = r.account
           /\ r.op = "authorization_increment" =>
                  /\ r.auth \in TransferIDs /\ transfers[r.auth] # None
                  /\ IsAuthorization(transfers[r.auth])
                  /\ IsKind(transfers[r.auth].debit, "card_wallet")
  <1>1. PICK t \in Transfer : t = transfers[r.id]
    BY Zenon, CarriedOutFacts
  <1>2. Recipe(t) /\ Fulfils(t, r) /\ t.code = r.op /\ r.op \in TransferCodes
    BY <1>1, CarriedOutFacts DEF Fulfils
  <1>3. t.debit \in AccountIDs /\ t.credit \in AccountIDs
    BY DEF Transfer
  <1>4. CASE r.op = "topup"
    BY <1>2, <1>3, <1>4 DEF Recipe, Fulfils, Moves
  <1>5. CASE r.op = "withdrawal"
    BY <1>2, <1>3, <1>5 DEF Recipe, Fulfils, Moves
  <1>6. CASE r.op = "card_allocation"
    BY <1>2, <1>3, <1>6 DEF Recipe, Fulfils, Moves
  <1>7. CASE r.op = "card_return"
    BY <1>2, <1>3, <1>7 DEF Recipe, Fulfils, Moves
  <1>8. CASE r.op = "authorization"
    BY <1>2, <1>3, <1>8 DEF Recipe, Fulfils, Moves, Holds
  <1>9. CASE r.op = "authorization_increment"
    BY <1>2, <1>3, <1>9 DEF Recipe, Fulfils, Moves, Holds
  <1> QED
    BY Zenon, <1>2, <1>4, <1>5, <1>6, <1>7, <1>8, <1>9 DEF TransferCodes

\* Such a request passes validation.
LEMMA CarriedOutValid ==
    ASSUME IInv, SubmitInv, NEW r \in CarriedOut
    PROVE  ValidRequest(r)
  <1>1. PICK t \in Transfer : t = transfers[r.id]
    BY CarriedOutFacts
  <1>2. /\ Sound(t) /\ Fulfils(t, r) /\ r.op \in TransferCodes /\ r.id \in TransferIDs
    BY <1>1, CarriedOutFacts
  <1>3. r.amount # 0 /\ r.id # None
    BY <1>2, NoneAssumption DEF Fulfils, Sound
  <1>4. \A a \in AccountIDs, kind \in {"corporate_wallet", "card_wallet"} :
            IsKind(a, kind) => IsAccountID(a)
    <2>1. ASSUME NEW a \in AccountIDs, NEW kind \in {"corporate_wallet", "card_wallet"},
                 IsKind(a, kind)
          PROVE  KindFitsID(kind, a)
      BY SMTT(20), <2>1, MetadataFacts, Parts DEF IsKind, Usable, LedgerInv, LedgerTypeOK, LedgerOK
    <2> QED
      BY <2>1, NoneAssumption DEF KindFitsID, IsAccountID
  <1>5. CASE r.op \in {"topup", "withdrawal"} \cup Moves
    <2>1. IsAccountID(r.account) /\ (r.op \in Moves => IsAccountID(r.card))
      BY SMTT(20), <1>4, <1>5, CarriedOutNames
    <2>2. ValidFunds(r) /\ (r.op \in Moves => ValidMove(r))
      BY <1>3, <2>1 DEF ValidFunds, ValidMove, IsRequestID
    <2>3. CASE r.op \in Moves
      BY Zenon, <2>2, <2>3 DEF ValidRequest, Moves
    <2>4. CASE r.op \in {"topup", "withdrawal"}
      BY Zenon, <2>2, <2>4 DEF ValidRequest, Moves
    <2> QED
      BY <1>5, <2>3, <2>4
  <1>6. CASE r.op = "authorization"
    <2>1. IsAccountID(r.card)
      BY SMTT(20), <1>4, <1>6, CarriedOutNames
    <2>2. r.merchant # None
      BY <1>2, <1>6 DEF Fulfils, Sound
    <2>3. ValidAuthorization(r)
      BY <1>3, <2>1, <2>2 DEF ValidAuthorization, IsRequestID
    <2> QED
      BY Zenon, <1>6, <2>3 DEF ValidRequest, Moves
  <1>7. CASE r.op = "authorization_increment"
    <2>1. /\ r.auth \in TransferIDs
          /\ IsAuthorization(transfers[r.auth])
      BY <1>7, CarriedOutNames
    <2>2. r.id # r.auth
      BY <1>1, <1>2, <1>7, <2>1 DEF IsAuthorization, Fulfils
    <2>3. ValidIncrement(r)
      BY <1>3, <2>1, <2>2, NoneAssumption DEF ValidIncrement, IsRequestID
    <2> QED
      BY Zenon, <1>7, <2>3 DEF ValidRequest, Moves
  <1> QED
    BY <1>2, <1>5, <1>6, <1>7 DEF TransferCodes, Moves

\* The account check of a handler does not turn such a request away.
LEMMA CarriedOutKind ==
    ASSUME IInv, SubmitInv, NEW p \in Handlers, handler[p].req \in CarriedOut,
           handler[p].pc \in {"account", "card", "lookup_account", "lookup_card"}
    PROVE  /\ IsKind(Needed(handler[p]), NeededKind(handler[p]))
           /\ handler[p].req.op \in Moves /\ AtCard(handler[p]) =>
                  CardLinked(handler[p].req, Usable(Needed(handler[p])))
  <1> DEFINE h == handler[p]
             r == handler[p].req
  <1>1. /\ HandlerServes(h, Home[p]) /\ HandlerKnows(h)
        /\ r.op \in TransferCodes /\ h.pc # "original"
    BY Zenon, HandlerFacts, CarriedOutFacts
  <1>2. CASE AtCard(h)
    <2>1. r.op \in Moves \cup Holds
      BY <1>1, <1>2 DEF HandlerServes, OperationsAt, AtCard
    <2>2. CASE r.op = "authorization_increment"
      <3>1. h.original = transfers[r.auth]
        BY Zenon, <1>1, <2>2 DEF HandlerKnows
      <3>2. IsKind(transfers[r.auth].debit, "card_wallet")
        BY <2>2, CarriedOutNames
      <3> QED
        BY Zenon, <1>2, <2>2, <3>1, <3>2 DEF Needed, NeededKind, Moves
    <2>3. CASE r.op # "authorization_increment"
      <3>1. /\ r.card \in AccountIDs /\ IsKind(r.card, "card_wallet")
            /\ r.op \in Moves => accounts[r.card].parent = r.account
        BY <2>1, <2>3, CarriedOutNames DEF Holds
      <3>2. Usable(r.card).parent = accounts[r.card].parent
        BY Zenon, <3>1, MetadataFacts, Parts DEF IsKind, Usable, LedgerInv, LedgerTypeOK
      <3> QED
        BY Zenon, <1>2, <2>3, <3>1, <3>2 DEF Needed, NeededKind, CardLinked
    <2> QED
      BY Zenon, <2>2, <2>3
  <1>3. CASE ~AtCard(h)
    <2>1. r.op \in {"topup", "withdrawal"} \cup Moves /\ r.op # "create_account"
      BY <1>1, <1>3 DEF HandlerServes, OperationsAt, AtCard, TransferCodes, Moves
    <2> QED
      BY Zenon, <1>3, <2>1, CarriedOutNames DEF Needed, NeededKind
  <1> QED
    BY Zenon, <1>2, <1>3

\* What is told rightly stays right while the transfers stay the same.
LEMMA ToldSame ==
    ASSUME UNCHANGED transfers
    PROVE  \A r, outcome : ToldRight(r, outcome)' <=> ToldRight(r, outcome)
  <1>1. CarriedOut' = CarriedOut
    BY DEF CarriedOut
  <1> QED
    BY <1>1 DEF ToldRight

\* What a decline rests on stays so while the ledger keeps its transfers.
LEMMA DeclinedGrows ==
    ASSUME Past \subseteq Past',
           \A id \in TransferIDs : transfers[id] # None => transfers'[id] = transfers[id],
           NEW r, DeclinedRight(r)
    PROVE  DeclinedRight(r)'
  <1>1. PICK o : o = transfers[r.auth]
    OBVIOUS
  <1>2. RunOut(o) => RunOut(o)'
    BY RunOutStays
  <1> QED
    BY <1>1, <1>2 DEF DeclinedRight

\* A handler answers rightly.
LEMMA AnswerRight ==
    ASSUME Past \subseteq Past', DeclinesRight, UNCHANGED transfers, NEW p,
           NEW outcome, NEW logged,
           ToldRight(handler[p].req, outcome),
           \/ Finish(p, outcome, logged)
           \/ Decline(p, outcome, logged) /\ DeclinedRight(handler[p].req)
    PROVE  AnswerInv'
  <1>1. PICK r : r = handler[p].req
    OBVIOUS
  <1>2. reply'.req = r /\ reply'.outcome = outcome
    BY <1>1 DEF Finish, Decline, Answer, Respond
  <1>3. ToldRight(r, outcome)'
    BY <1>1, ToldSame
  <1>4. ReplyRight'
    BY <1>2, <1>3 DEF ReplyRight
  <1>5. \A q \in declined' : DeclinedRight(q)
    BY <1>1 DEF Finish, Decline, DeclinesRight
  <1>6. DeclinesRight'
    BY <1>5, DeclinedGrows DEF DeclinesRight
  <1> QED
    BY <1>4, <1>6 DEF AnswerInv

\* A step that answers nobody.
LEMMA QuietRight ==
    ASSUME Past \subseteq Past',
           \A id \in TransferIDs : transfers[id] # None => transfers'[id] = transfers[id],
           DeclinesRight, Quiet
    PROVE  AnswerInv'
  BY DeclinedGrows DEF Quiet, AnswerInv, ReplyRight, DeclinesRight

\* An answer that asks for a retry, or the success, is never wrong.
LEMMA StandsRight ==
    ASSUME NEW r, NEW outcome \in Stands PROVE ToldRight(r, outcome)
  BY DEF ToldRight, Stands

\* Neither is any other answer but a conflict to a request not carried out.
LEMMA RefusalRight ==
    ASSUME NEW r, r \notin CarriedOut, NEW outcome, outcome # "idempotency_conflict"
    PROVE  ToldRight(r, outcome)
  BY DEF ToldRight

\* The account an increment would debit is always a card: a handler that has
\* found an authorization does not decline for the account's kind.
LEMMA IncrementedCard ==
    ASSUME IInv, NEW p \in Handlers, handler[p].req.op = "authorization_increment",
           handler[p].pc \in {"account", "card", "lookup_account", "lookup_card"}
    PROVE  IsKind(Needed(handler[p]), NeededKind(handler[p]))
  <1> DEFINE h == handler[p]
  <1>1. /\ h \in HandlerRecord /\ HandlerServes(h, Home[p]) /\ HandlerKnows(h)
        /\ h.req \in Requests /\ ValidRequest(h.req) /\ h.pc # "original"
    BY Zenon, HandlerFacts
  <1>2. AtCard(h)
    BY <1>1 DEF HandlerServes, OperationsAt, AtCard, Moves
  <1>3. h.req.auth \in TransferIDs
    BY Zenon, <1>1, ValidRequestFacts
  <1>4. /\ h.original # None /\ h.original = transfers[h.req.auth]
        /\ IsAuthorization(h.original)
    BY Zenon, <1>1 DEF HandlerKnows
  <1>5. Recipe(h.original)
    BY Zenon, <1>3, <1>4, Parts DEF LedgerInv, LedgerOK
  <1>6. IsKind(h.original.debit, "card_wallet")
    BY Zenon, <1>4, <1>5 DEF Recipe, IsAuthorization, Holds
  <1> QED
    BY <1>2, <1>6 DEF Needed, NeededKind

\* LoadMetadata and LookupAccount answer rightly.
LEMMA KindRight ==
    ASSUME Past \subseteq Past', IInv, SubmitInv, AnswerInv, NEW p \in Handlers,
           LoadMetadata(p) \/ LookupAccount(p)
    PROVE  AnswerInv'
  <1> DEFINE h == handler[p]
             needed == Needed(h)
             found == Usable(needed)
  <1>0. /\ DeclinesRight /\ UNCHANGED transfers
        /\ h.pc \in {"account", "card", "lookup_account", "lookup_card"}
    BY Zenon DEF AnswerInv, LoadMetadata, LookupAccount, ledgerVars
  <1>1. /\ needed \in AccountIDs /\ Home[p] \in Instances
        /\ HandlerServes(h, Home[p])
    BY Zenon, <1>0, NeededFacts, HandlerFacts
  <1>2. cache[Home[p]][needed] # None => cache[Home[p]][needed] = found
    BY Zenon, <1>1, Parts DEF CacheInv, CacheCoherent
  <1> HIDE DEF h, needed, found
  <1>3. CASE ~(found # None /\ found.kind = NeededKind(h)) /\ KindUnknown(p)
    <2>1. h.req \notin CarriedOut
      BY Zenon, <1>0, <1>3, CarriedOutKind DEF IsKind, found, needed, h
    <2>2. h.req.op # "authorization_increment"
      BY Zenon, <1>0, <1>3, IncrementedCard DEF IsKind, found, needed, h
    <2>3. ToldRight(h.req, "account_not_found")
      BY <2>1, RefusalRight
    <2> QED
      BY Zenon, <1>0, <1>3, <2>2, <2>3, AnswerRight DEF KindUnknown, h
  <1>4. CASE found # None /\ KindKnown(p, found)
    <2>1. CASE Quiet
      BY Zenon, <1>0, <2>1, QuietRight
    <2>2. CASE /\ h.req.op \in Moves /\ AtCard(h) /\ ~CardLinked(h.req, found)
               /\ Finish(p, "invalid_request", FALSE)
      <3>1. h.req \notin CarriedOut
        BY Zenon, <1>0, <2>2, CarriedOutKind DEF found, needed, h
      <3>2. ToldRight(h.req, "invalid_request")
        BY <3>1, RefusalRight
      <3> QED
        BY Zenon, <1>0, <2>2, <3>2, AnswerRight DEF h
    <2> QED
      BY Zenon, <1>4, <2>1, <2>2 DEF KindKnown, Submit, h
  <1>5. CASE LoadMetadata(p)
    <2>1. CASE Quiet
      BY Zenon, <1>0, <2>1, QuietRight
    <2> QED
      BY Zenon, <1>2, <1>3, <1>4, <1>5, <2>1 DEF LoadMetadata, h, needed, found
  <1>6. CASE LookupAccount(p)
    BY Zenon, <1>3, <1>4, <1>6 DEF LookupAccount, Usable, h, needed, found
  <1> QED
    BY <1>5, <1>6

\* IncrementAuthorization answers rightly when it has read the authorization.
LEMMA OriginalRight ==
    ASSUME Past \subseteq Past', IInv, SubmitInv, AnswerInv, NEW p \in Handlers,
           LookupOriginal(p)
    PROVE  AnswerInv'
  <1> DEFINE r == handler[p].req
             original == transfers[r.auth]
  <1>0. DeclinesRight /\ UNCHANGED transfers /\ handler[p].pc = "original"
    BY DEF AnswerInv, LookupOriginal, ledgerVars
  <1>1. /\ r \in Requests /\ ValidRequest(r) /\ HandlerServes(handler[p], Home[p])
    BY Zenon, <1>0, HandlerFacts
  <1>2. r.op = "authorization_increment"
    BY <1>0, <1>1 DEF HandlerServes, OperationsAt
  <1>3. r.auth \in TransferIDs /\ r.id \in TransferIDs
    BY <1>1, <1>2, ValidRequestFacts DEF TransferCodes
  <1>4. CASE original = None /\ Finish(p, "authorization_not_found", FALSE)
    <2>1. r \notin CarriedOut
      BY Zenon, <1>2, <1>4, CarriedOutNames
    <2>2. ToldRight(r, "authorization_not_found")
      BY <2>1, RefusalRight
    <2> QED
      BY Zenon, <1>0, <1>4, <2>2, AnswerRight
  <1>5. CASE /\ original # None /\ ~IsAuthorization(original)
             /\ Decline(p, "authorization_not_open", FALSE)
    <2>1. r \notin CarriedOut
      BY Zenon, <1>2, <1>5, CarriedOutNames
    <2>2. ToldRight(r, "authorization_not_open")
      BY <2>1, RefusalRight
    <2>3. DeclinedRight(r)
      BY Zenon, <1>2, <1>3, <1>5 DEF DeclinedRight, Holds
    <2> QED
      BY Zenon, <1>0, <1>5, <2>2, <2>3, AnswerRight
  <1>6. CASE Quiet
    BY <1>0, <1>6, QuietRight
  <1> QED
    BY Zenon, <1>4, <1>5, <1>6 DEF LookupOriginal

\* A hold that was carried out is found to be a replay, unless it is an
\* authorization of another timeout.
LEMMA ReplayFound ==
    ASSUME IInv, SubmitInv, NEW p \in Handlers, handler[p].pc \in {"replay", "late"},
           handler[p].req \in CarriedOut
    PROVE  \/ IsReplay(handler[p], transfers[handler[p].req.id], instance[Home[p]].timeout)
           \/ handler[p].req.op = "authorization" /\ ~OneTimeout
  <1> DEFINE h == handler[p]
             r == handler[p].req
             seconds == instance[Home[p]].timeout
  <1>1. /\ h \in HandlerRecord /\ HandlerServes(h, Home[p]) /\ HandlerKnows(h)
        /\ r \in Requests /\ ValidRequest(r) /\ Home[p] \in Instances
        /\ IsKind(Settlement, "card_settlement_payable") /\ h.pc # "original"
    BY Zenon, HandlerFacts
  <1>2. r.op \in Holds
    BY <1>1 DEF HandlerServes, OperationsAt, Holds
  <1>3. PICK t \in Transfer : t = transfers[r.id]
    BY Zenon, CarriedOutFacts
  <1>4. Recipe(t) /\ Sound(t) /\ Fulfils(t, r)
    BY SMTT(20), <1>3, CarriedOutFacts
  <1>5. CASE r.op = "authorization"
    <2> DEFINE u == AuthorizationTransfer(r, seconds)
    <2>1. IsKind(r.card, "card_wallet")
      BY Zenon, <1>5, CarriedOutNames
    <2>2. seconds \in Nat /\ seconds \in Timeouts
      BY Zenon, <1>1, TimeoutsPositive DEF HandlerServes, SubmitInv, InstancesConfigured
    <2>3. u \in Transfer /\ Recipe(u) /\ Fulfils(u, r)
      BY Zenon, <1>1, <1>5, <2>1, <2>2, AuthorizationOK
    <2>4. u.timeout = seconds
      BY Zenon DEF AuthorizationTransfer, Hold
    <2> HIDE DEF u
    <2>5. SameTransferExceptTimeout(t, u)
      BY Zenon, <1>2, <1>4, <2>3, SameHold
    <2>6. t.timeout = seconds \/ ~OneTimeout
      BY <1>4, <1>5, <2>2 DEF Sound, Fulfils, OneTimeout
    <2> QED
      BY Zenon, <1>3, <1>5, <2>4, <2>5, <2>6 DEF IsReplay, SameTransfer, u
  <1>6. CASE r.op = "authorization_increment"
    <2> DEFINE u == IncrementTransfer(r, h.original, 0)
    <2>1. /\ h.original \in Transfer /\ h.original = transfers[r.auth]
          /\ IsAuthorization(h.original)
      BY Zenon, <1>1, <1>6 DEF HandlerKnows, HandlerRecord
    <2>2. u \in Transfer /\ Recipe(u) /\ Fulfils(u, r)
      BY Zenon, <1>1, <1>6, <2>1, IncrementOK, Parts DEF LedgerInv
    <2> HIDE DEF u
    <2>3. SameTransferExceptTimeout(t, u)
      BY Zenon, <1>2, <1>4, <2>2, SameHold
    <2> QED
      BY SMTT(20), <1>3, <1>6, <2>3 DEF IsReplay, u
  <1> QED
    BY Zenon, <1>2, <1>5, <1>6 DEF Holds

\* LookupReplay answers rightly.
LEMMA ReplayRight ==
    ASSUME Past \subseteq Past', IInv, SubmitInv, AnswerInv, NEW p \in Handlers,
           LookupReplay(p)
    PROVE  AnswerInv'
  <1> DEFINE h == handler[p]
             r == handler[p].req
             existing == transfers[r.id]
             seconds == instance[Home[p]].timeout
  <1>0. DeclinesRight /\ UNCHANGED transfers /\ h.pc \in {"replay", "late"}
    BY Zenon DEF AnswerInv, LookupReplay, ledgerVars
  <1>1. /\ r \in Requests /\ ValidRequest(r) /\ HandlerServes(h, Home[p])
        /\ HandlerKnows(h) /\ h.pc # "original" /\ h.pc # "idle"
    BY Zenon, <1>0, HandlerFacts
  <1>2. /\ r.op \in Holds /\ r.op \in TransferCodes
        /\ h.pc = "late" => r.op = "authorization_increment"
    BY <1>0, <1>1 DEF HandlerServes, OperationsAt, Holds, TransferCodes
  <1>3. /\ r.id \in TransferIDs /\ r.id # None
        /\ r.op = "authorization_increment" => r.auth \in TransferIDs
    BY Zenon, <1>1, <1>2, ValidRequestFacts, NoneAssumption
  <1>4. CASE existing = None /\ \E outcome \in {"risk_limit_exceeded", "authorization_not_open"},
                                   logged \in BOOLEAN : Decline(p, outcome, logged)
    <2>1. r \notin CarriedOut
      BY SMTT(20), <1>4 DEF CarriedOut
    <2>2. \A outcome \in {"risk_limit_exceeded", "authorization_not_open"} :
              ToldRight(r, outcome)
      BY <2>1, RefusalRight
    <2>3. DeclinedRight(r)
      <3>1. Carries(h)
        BY Zenon DEF SubmitInv, HandlersCarry
      <3>2. CASE h.pc = "replay"
        BY Zenon, <1>2, <1>3, <3>1, <3>2 DEF Carries, DeclinedRight, Holds
      <3>3. CASE h.pc = "late"
        <4>1. /\ RunOut(h.original) /\ h.original = transfers[r.auth]
              /\ h.original # None
          BY Zenon, <1>1, <1>2, <3>1, <3>3 DEF Carries, HandlerKnows
        <4> QED
          BY SMTT(20), <1>2, <1>3, <3>3, <4>1 DEF DeclinedRight, Holds
      <3> QED
        BY <1>0, <3>2, <3>3
    <2> QED
      BY Zenon, <1>0, <1>4, <2>2, <2>3, AnswerRight
  <1>5. CASE Finish(p, "approved", TRUE)
    <2>1. ToldRight(r, "approved")
      BY StandsRight DEF Stands
    <2> QED
      BY Zenon, <1>0, <1>5, <2>1, AnswerRight
  <1>6. CASE /\ existing # None /\ ~IsReplay(h, existing, seconds)
             /\ Finish(p, "idempotency_conflict", TRUE)
    <2>1. ToldRight(r, "idempotency_conflict")
      BY Zenon, <1>0, <1>3, <1>6, ReplayFound DEF ToldRight
    <2> QED
      BY Zenon, <1>0, <1>6, <2>1, AnswerRight
  <1> QED
    BY Zenon, <1>4, <1>5, <1>6 DEF LookupReplay

\* What the ledger said of a submitted transfer is passed on rightly.
LEMMA ResultRight ==
    ASSUME Past \subseteq Past', IInv, SubmitInv, AnswerInv, NEW p \in Handlers,
           TransferResult(p)
    PROVE  AnswerInv'
  <1> DEFINE h == handler[p]
             r == handler[p].req
  <1>0. DeclinesRight /\ UNCHANGED transfers /\ h.pc = "result"
    BY Zenon DEF AnswerInv, TransferResult, ledgerVars
  <1>1. /\ r \in Requests /\ ValidRequest(r) /\ HandlerServes(h, Home[p])
        /\ HandlerSubmitted(h)
    BY Zenon, <1>0, HandlerFacts
  <1>2. r.id \in TransferIDs /\ r.id # None
    <2>1. r.op \in TransferCodes
      BY <1>0, <1>1 DEF HandlerServes, OperationsAt
    <2> QED
      BY Zenon, <1>1, <2>1, ValidRequestFacts, NoneAssumption
  <1>3. CASE Quiet
    BY <1>0, <1>3, QuietRight
  <1>4. CASE ~NeedsDriftCheck(h) /\ Finish(p, ResultOutcome(r, h.status), TRUE)
    <2>1. CASE IsIdempotencyConflict(h.status)
      <3>1. ConflictExplained(r, h.status)
        BY Zenon, <1>0, <2>1 DEF SubmitInv, HandlersCarry, Carries
      <3>2. ResultOutcome(r, h.status) = "idempotency_conflict"
        BY Zenon, <2>1 DEF ResultOutcome
      <3>3. ASSUME r \in CarriedOut PROVE r.op = "authorization" /\ ~OneTimeout
        <4>1. Fulfils(transfers[r.id], r)
          BY <3>3 DEF CarriedOut
        <4> QED
          BY <1>4, <3>1, <4>1 DEF ConflictExplained, NeedsDriftCheck, Holds
      <3>4. ToldRight(r, "idempotency_conflict")
        BY <1>2, <3>1, <3>3 DEF ToldRight, ConflictExplained
      <3> QED
        BY Zenon, <1>0, <1>4, <3>2, <3>4, AnswerRight
    <2>2. CASE h.status \in {"created", "exists"}
      <3>1. ResultOutcome(r, h.status) \in Stands
        BY <2>2 DEF ResultOutcome, SuccessOutcome, IsIdempotencyConflict, Stands
      <3> QED
        BY Zenon, <1>0, <1>4, <3>1, StandsRight, AnswerRight
    <2>3. CASE ~IsIdempotencyConflict(h.status) /\ h.status \notin {"created", "exists"}
      <3>1. h.status \in {"exceeds_credits", "exceeds_debits", "id_already_failed"}
        BY Zenon, <1>0, <1>1, <2>3 DEF HandlerSubmitted, Statuses, IsIdempotencyConflict
      <3>2. r.id \in failed
        BY Zenon, <1>0, <1>1, <3>1 DEF HandlerSubmitted
      <3>3. r \notin CarriedOut
        BY Zenon, <3>2, CarriedOutFacts
      <3>4. ResultOutcome(r, h.status) # "idempotency_conflict"
        BY <2>3 DEF ResultOutcome, ErrorCode
      <3> QED
        BY Zenon, <1>0, <1>4, <3>3, <3>4, RefusalRight, AnswerRight
    <2> QED
      BY <2>1, <2>2, <2>3
  <1> QED
    BY Zenon, <1>3, <1>4 DEF TransferResult

\* LookupDrift answers rightly: an increment that was carried out differs from
\* the one submitted in its timeout at most.
LEMMA DriftRight ==
    ASSUME Past \subseteq Past', IInv, SubmitInv, AnswerInv, NEW p \in Handlers,
           LookupDrift(p)
    PROVE  AnswerInv'
  <1> DEFINE h == handler[p]
             r == handler[p].req
             existing == transfers[r.id]
  <1>0. /\ DeclinesRight /\ UNCHANGED transfers /\ h.pc = "drift"
        /\ transfers[r.id] # None
    BY Zenon DEF AnswerInv, LookupDrift, ledgerVars, SubmitInv, HandlersCarry, Carries
  <1>1. /\ r \in Requests /\ ValidRequest(r) /\ h \in HandlerRecord
        /\ HandlerServes(h, Home[p]) /\ HandlerSubmitted(h)
    BY Zenon, <1>0, HandlerFacts
  <1>2. r.op = "authorization_increment"
    BY <1>0, <1>1 DEF HandlerServes, OperationsAt
  <1>3. r.id \in TransferIDs /\ r.id # None
    BY Zenon, <1>1, <1>2, ValidRequestFacts, NoneAssumption DEF TransferCodes
  <1>4. CASE Finish(p, "approved", TRUE)
    <2>1. ToldRight(r, "approved")
      BY StandsRight DEF Stands
    <2> QED
      BY Zenon, <1>0, <1>4, <2>1, AnswerRight
  <1>5. CASE /\ ~(existing # None /\ IsTimeoutDrift(existing, h.transfer))
             /\ Finish(p, "idempotency_conflict", TRUE)
    <2>1. /\ h.transfer \in Transfer /\ Recipe(h.transfer) /\ Fulfils(h.transfer, r)
      BY Zenon, <1>0, <1>1 DEF HandlerSubmitted, HandlerRecord
    <2>2. ASSUME r \in CarriedOut PROVE FALSE
      <3>1. existing \in Transfer /\ Recipe(existing) /\ Fulfils(existing, r)
        BY Zenon, <2>2, CarriedOutFacts
      <3>2. SameTransferExceptTimeout(existing, h.transfer)
        BY SMTT(20), <1>2, <2>1, <3>1, SameHold DEF Holds
      <3> QED
        BY <1>0, <1>5, <3>2 DEF IsTimeoutDrift
    <2>3. ToldRight(r, "idempotency_conflict")
      BY <1>0, <1>3, <2>2 DEF ToldRight
    <2> QED
      BY Zenon, <1>0, <1>5, <2>3, AnswerRight
  <1> QED
    BY Zenon, <1>4, <1>5 DEF LookupDrift

\* Answers about accounts concern no transfer.
LEMMA AccountsRight ==
    ASSUME Past \subseteq Past', IInv, SubmitInv, AnswerInv, NEW p \in Handlers,
           AccountResult(p) \/ ReadBalance(p)
    PROVE  AnswerInv'
  <1> DEFINE h == handler[p]
             r == handler[p].req
  <1>0. DeclinesRight /\ UNCHANGED transfers /\ h.pc \in {"created", "balance"}
    BY Zenon DEF AnswerInv, AccountResult, ReadBalance, ledgerVars
  <1>1. HandlerServes(h, Home[p])
    BY Zenon, <1>0, HandlerFacts
  <1>2. /\ r.op \in {"create_account", "get_balance"}
        /\ h.pc = "created" => r.op = "create_account"
    BY <1>0, <1>1 DEF HandlerServes, OperationsAt
  <1>3. r \notin CarriedOut
    BY <1>2, CarriedOutFacts DEF TransferCodes
  <1>4. h.pc = "created" => \A outcome : ToldRight(r, outcome)
    BY <1>2, <1>3 DEF ToldRight
  <1>5. CASE AccountResult(p)
    BY Zenon, <1>0, <1>4, <1>5, AnswerRight DEF AccountResult
  <1>6. CASE ReadBalance(p)
    <2>1. ToldRight(r, "balance") /\ ToldRight(r, "account_not_found")
      BY <1>3, RefusalRight
    <2> QED
      BY Zenon, <1>0, <1>6, <2>1, AnswerRight DEF ReadBalance
  <1> QED
    BY <1>5, <1>6

\* Every step keeps AnswerInv.
LEMMA AnswerInvOK == IInv /\ SubmitInv /\ AnswerInv /\ [Next]_vars => AnswerInv'
  <1> SUFFICES ASSUME IInv, SubmitInv, AnswerInv, [Next]_vars, Past \subseteq Past'
               PROVE  AnswerInv'
    BY TimePasses
  <1>0. DeclinesRight /\ ReplyRight
    BY DEF AnswerInv
  <1>1. ASSUME UNCHANGED transfers, Quiet PROVE AnswerInv'
    BY <1>0, <1>1, QuietRight
  <1>2. ASSUME NEW t \in Transfer, Recipe(t), CreateTransfer(t), Quiet PROVE AnswerInv'
    <2>1. LedgerGrows
      BY Zenon, <1>2, CreateTransferOK, Parts
    <2> QED
      BY <1>0, <1>2, <2>1, QuietRight DEF LedgerGrows
  <1>3. ASSUME NEW p \in Handlers, NEW r \in Requests, Receive(p, r) PROVE AnswerInv'
    <2>1. UNCHANGED transfers
      BY <1>3 DEF Receive, ledgerVars
    <2>2. CASE /\ ~ValidRequest(r) /\ UNCHANGED declined
               /\ Respond(r, "invalid_request", FALSE, FALSE)
      <3>1. ToldRight(r, "invalid_request")
        <4>1. r \notin CarriedOut
          BY Zenon, <2>2, CarriedOutValid
        <4> QED
          BY <4>1, RefusalRight
      <3>2. ToldRight(r, "invalid_request")'
        BY <2>1, <3>1, ToldSame
      <3>3. ReplyRight'
        BY <2>2, <3>2 DEF Respond, ReplyRight
      <3>4. DeclinesRight'
        BY <1>0, <2>1, <2>2, DeclinedGrows DEF DeclinesRight
      <3> QED
        BY <3>3, <3>4 DEF AnswerInv
    <2> QED
      BY Zenon, <1>1, <1>3, <2>1, <2>2 DEF Receive
  <1>4. ASSUME NEW p \in Handlers, Progress(p) PROVE AnswerInv'
    <2>1. CASE EvaluateRisk(p) \/ CommitAccount(p)
      BY Zenon, <1>1, <2>1 DEF EvaluateRisk, CommitAccount, Submit, ledgerVars
    <2>2. CASE CommitTransfer(p)
      <3>1. /\ handler[p].pc = "waiting" /\ CreateTransfer(handler[p].transfer) /\ Quiet
        BY <2>2 DEF CommitTransfer
      <3>2. handler[p].transfer \in Transfer /\ Recipe(handler[p].transfer)
        BY Zenon, <3>1, HandlerFacts DEF HandlerSubmitted, HandlerRecord
      <3> QED
        BY Zenon, <1>2, <3>1, <3>2
    <2> QED
      BY Zenon, <1>4, <2>1, <2>2, KindRight, OriginalRight, ReplayRight, ResultRight,
         DriftRight, AccountsRight DEF Progress
  <1>5. ASSUME NEW p \in Handlers, Failure(p) PROVE AnswerInv'
    <2>1. UNCHANGED transfers
      BY Zenon, <1>5 DEF Failure, CancelRisk, LookupFails, CallFails, ledgerVars
    <2>2. \A r : ToldRight(r, "request_canceled") /\ ToldRight(r, "dependency_unavailable")
      BY StandsRight DEF Stands
    <2> QED
      BY Zenon, <1>0, <1>5, <2>1, <2>2, AnswerRight
      DEF Failure, CancelRisk, LookupFails, CallFails
  <1>6. ASSUME NEW t \in lateTransfers, CommitLateTransfer(t) PROVE AnswerInv'
    <2>1. t \in Transfer /\ Recipe(t)
      BY Parts DEF LateInv, LateOK
    <2> QED
      BY Zenon, <1>2, <1>6, <2>1 DEF CommitLateTransfer
  <1>7. ASSUME NEW i \in Instances, Lifecycle(i) PROVE AnswerInv'
    BY Zenon, <1>1, <1>7 DEF Lifecycle, Start, Provision, ProvisionFails, Crash, ledgerVars
  <1>8. CASE LedgerStep \/ \E a \in lateAccounts : CommitLateAccount(a)
    BY Zenon, <1>1, <1>8 DEF LedgerStep, Tick, ExpireTransfer, CommitLateAccount
  <1>9. CASE UNCHANGED vars
    <2>1. UNCHANGED <<transfers, reply, declined>>
      BY Zenon, <1>9 DEF vars, ledgerVars
    <2>2. ReplyRight' /\ DeclinesRight'
      BY <1>0, <2>1, ToldSame, DeclinedGrows DEF ReplyRight, DeclinesRight
    <2> QED
      BY <2>2 DEF AnswerInv
  <1> QED
    BY Zenon, <1>3, <1>4, <1>5, <1>6, <1>7, <1>8, <1>9 DEF Next

\* Whatever the interleaving of retries, restarts and late commits, a request that
\* was carried out is answered with its success or asked to retry; only Authorize,
\* after AUTHORIZATION_TIMEOUT was changed, may call it a conflict.  A decline
\* without a transfer is for a reason that still holds.
THEOREM AnswersAlwaysRight == Spec => [](IInv /\ SubmitInv /\ AnswerInv)
  <1>1. Init => AnswerInv
    BY DEF Init, AnswerInv, ReplyRight, DeclinesRight
  <1> QED
    BY <1>1, AnswerInvOK, SubmittedInvariance, PTL DEF Spec

\* Success is never taken back by any operation, if the authorization timeout is
\* not reconfigured (sameTransfer compares timeouts).
THEOREM SuccessAlwaysStands == Spec /\ OneTimeout => []SuccessStands
  <1>1. ASSUME IInv, AnswerInv, OneTimeout PROVE SuccessStands
    <2> SUFFICES ASSUME reply # None, reply.req.id # None,
                        transfers[reply.req.id] # None,
                        Fulfils(transfers[reply.req.id], reply.req)
                 PROVE  reply.outcome \in Stands
      BY DEF SuccessStands, Stands
    <2>1. reply.req \in Requests
      BY <1>1, Parts DEF ReplyInv, Reply
    <2>2. reply.req \in CarriedOut
      BY <2>1 DEF CarriedOut
    <2> QED
      BY <1>1, <2>2 DEF AnswerInv, ReplyRight, ToldRight
  <1>2. OneTimeout => OneTimeout'
    OBVIOUS
  <1> QED
    BY <1>1, <1>2, AnswersAlwaysRight, PTL

\* Under the same condition an idempotency conflict means a different payload,
\* whichever of the ledger, LookupReplay and LookupDrift has found it.
THEOREM ConflictsAlwaysDiffer == Spec /\ OneTimeout => []ConflictMeansDifferentPayload
  <1>1. ASSUME IInv, AnswerInv, OneTimeout PROVE ConflictMeansDifferentPayload
    <2> SUFFICES ASSUME reply # None, reply.outcome = "idempotency_conflict",
                        reply.req.op # "create_account",
                        Fulfils(transfers[reply.req.id], reply.req)
                 PROVE  FALSE
      BY DEF ConflictMeansDifferentPayload
    <2>1. ToldRight(reply.req, reply.outcome) /\ reply.req \in Requests
      BY <1>1, Parts DEF AnswerInv, ReplyRight, ReplyInv, Reply
    <2>2. reply.req \in CarriedOut
      BY <2>1 DEF ToldRight, CarriedOut
    <2> QED
      BY <1>1, <2>1, <2>2 DEF ToldRight, Stands
  <1>2. OneTimeout => OneTimeout'
    OBVIOUS
  <1> QED
    BY <1>1, <1>2, AnswersAlwaysRight, PTL

\* Where the clocks agree, an authorization that has run out stays closed.
LEMMA ClosedForGood ==
    ASSUME IInv, OneClock, NEW o \in Transfer, RunOut(o), NEW i \in Instances
    PROVE  ~(Remaining(o, now + ClockSkew[i]) > 0)
  <1>1. PICK ends \in Int : ends = ExpiresAt(o)
    <2>1. \A a, b \in Nat : a * b \in Nat
      OBVIOUS
    <2> QED
      BY <2>1, TimeAssumption DEF Transfer, ExpiresAt
  <1>2. PICK j \in Instances, n \in Past : Remaining(o, n + ClockSkew[j]) <= 0
    BY Zenon DEF RunOut
  <1>3. ClockSkew[i] \in Int /\ ClockSkew[j] = ClockSkew[i]
    BY ServiceAssumption DEF OneClock
  <1>4. n \in Nat /\ now \in Nat /\ n <= now
    BY Parts DEF Past, LedgerInv, LedgerTypeOK
  <1> QED
    BY <1>1, <1>2, <1>3, <1>4 DEF Remaining

\* evaluateRisk and the look at the clock hold back what was declined.
LEMMA DeclinedHeldBack ==
    ASSUME IInv, SubmitInv, AnswerInv, OneLimit, OneClock, NEW p \in Handlers,
           handler[p].pc = "risk",
           RiskApproved(handler[p].req, instance[Home[p]].riskLimit),
           NEW t, t.amount = handler[p].req.amount, t.code = handler[p].req.op,
           handler[p].req.op = "authorization_increment" =>
               /\ t.group = handler[p].req.auth
               /\ Remaining(handler[p].original, now + ClockSkew[Home[p]]) > 0,
           NEW r \in declined
    PROVE  ~Fulfils(t, r)
  <1> DEFINE h == handler[p]
             limit == instance[Home[p]].riskLimit
  <1> SUFFICES ASSUME Fulfils(t, r) PROVE FALSE
    OBVIOUS
  <1>1. /\ Home[p] \in Instances /\ HandlerServes(h, Home[p]) /\ HandlerKnows(h)
        /\ h \in HandlerRecord
    BY Zenon, HandlerFacts
  <1>2. r.amount = h.req.amount /\ r.op = h.req.op
    BY DEF Fulfils
  <1>3. DeclinedRight(r) /\ r \in Requests
    BY Zenon, Parts DEF AnswerInv, DeclinesRight, ReplyInv
  <1>4. ~OverLimit(r)
    <2>1. limit \in RiskLimits
      BY Zenon, <1>1 DEF HandlerServes, SubmitInv, InstancesConfigured
    <2>2. r.amount \in Nat /\ RiskLimits \subseteq Nat
      BY Zenon, <1>3, ServiceAssumption DEF Request
    <2>3. r.amount <= limit
      BY <1>2 DEF RiskApproved
    <2> HIDE DEF limit
    <2>4. \A other \in RiskLimits : other = limit
      BY Zenon, <2>1 DEF OneLimit
    <2> QED
      BY <2>1, <2>2, <2>3, <2>4 DEF OverLimit
  <1>5. /\ r.op = "authorization_increment"
        /\ r.auth \in TransferIDs /\ transfers[r.auth] # None
        /\ ~IsAuthorization(transfers[r.auth]) \/ RunOut(transfers[r.auth])
    BY <1>3, <1>4 DEF DeclinedRight, Holds
  <1>6. h.req.auth = r.auth
    BY <1>2, <1>5 DEF Fulfils
  <1>7. /\ h.original = transfers[r.auth] /\ h.original # None
        /\ IsAuthorization(h.original) /\ h.original \in Transfer
    BY Zenon, <1>1, <1>2, <1>5, <1>6 DEF HandlerKnows, HandlerRecord
  <1>8. Remaining(h.original, now + ClockSkew[Home[p]]) > 0 /\ RunOut(h.original)
    BY Zenon, <1>2, <1>5, <1>7
  <1> QED
    BY Zenon, <1>1, <1>7, <1>8, ClosedForGood

\* The attempts that wait for the ledger are no new ones at request r.
NoNewAttempt(r) ==
    \A q \in Handlers : handler'[q].pc = "waiting" =>
        handler'[q] = handler[q] \/ ~Fulfils(handler'[q].transfer, r)

\* No step of a handler begins a new attempt at a declined request.
LEMMA ProgressSettled ==
    ASSUME IInv, SubmitInv, AnswerInv, OneLimit, OneClock, NEW p \in Handlers,
           Progress(p), NEW r \in declined
    PROVE  NoNewAttempt(r)
  <1>0. handler \in [Handlers -> HandlerRecord] /\ r.op \in Holds
    BY Zenon, Parts DEF HandlerInv, AnswerInv, DeclinesRight, DeclinedRight
  <1>1. ASSUME NEW h, handler' = [handler EXCEPT ![p] = h],
               h.pc # "waiting" \/ ~Fulfils(h.transfer, r)
        PROVE  NoNewAttempt(r)
    <2>1. handler'[p] = h /\ \A q \in Handlers \ {p} : handler'[q] = handler[q]
      BY <1>0, <1>1
    <2> QED
      BY Zenon, <1>1, <2>1 DEF NoNewAttempt
  <1>2. ASSUME NEW outcome, NEW logged,
               Finish(p, outcome, logged) \/ Decline(p, outcome, logged)
        PROVE  NoNewAttempt(r)
    <2>0. PICK h : h = Idle
      OBVIOUS
    <2>1. h.pc # "waiting"
      BY <2>0 DEF Idle
    <2>2. handler' = [handler EXCEPT ![p] = h]
      BY <1>2, <2>0 DEF Finish, Decline, Answer
    <2> QED
      BY Zenon, <1>1, <2>1, <2>2
  <1>3. ASSUME NEW place, place # "waiting", Goto(p, place) PROVE NoNewAttempt(r)
    <2>1. PICK h : h = [handler[p] EXCEPT !.pc = place]
      OBVIOUS
    <2>2. h.pc # "waiting"
      BY <1>0, <1>3, <2>1 DEF HandlerRecord
    <2>3. handler' = [handler EXCEPT ![p] = h]
      BY Zenon, <1>0, <1>3, <2>1 DEF Goto
    <2> QED
      BY Zenon, <1>1, <2>2, <2>3
  <1>4. ASSUME NEW t, ~Fulfils(t, r), Submit(p, t) PROVE NoNewAttempt(r)
    <2>1. PICK h : h = [handler[p] EXCEPT !.pc = "waiting", !.transfer = t]
      OBVIOUS
    <2>2. h.transfer = t
      BY <1>0, <2>1 DEF HandlerRecord
    <2>3. handler' = [handler EXCEPT ![p] = h]
      BY Zenon, <1>0, <1>4, <2>1 DEF Submit
    <2> QED
      BY Zenon, <1>1, <1>4, <2>2, <2>3
  <1>5. ASSUME NEW metadata, KindKnown(p, metadata) \/ KindUnknown(p)
        PROVE  NoNewAttempt(r)
    <2>1. ASSUME NEW q, NEW debit, NEW credit, q.op \notin Holds
          PROVE  ~Fulfils(PostedTransfer(q, debit, credit), r)
      BY <1>0, <2>1 DEF PostedTransfer, Fulfils
    <2>2. "topup" \notin Holds /\ "withdrawal" \notin Holds /\ \A op \in Moves : op \notin Holds
      BY DEF Holds, Moves
    <2>3. ASSUME NEW place \in {"create", "card", "risk"}, Goto(p, place)
          PROVE  NoNewAttempt(r)
      BY <1>3, <2>3
    <2> QED
      BY Zenon, <1>2, <1>4, <1>5, <2>1, <2>2, <2>3
      DEF KindKnown, KindUnknown, TopUpTransfer, WithdrawalTransfer, CardTransfer
  <1>6. CASE LoadMetadata(p)
    <2>1. ASSUME NEW place \in {"lookup_card", "lookup_account"}, Goto(p, place)
          PROVE  NoNewAttempt(r)
      BY <1>3, <2>1
    <2> QED
      BY Zenon, <1>5, <1>6, <2>1 DEF LoadMetadata
  <1>7. CASE LookupAccount(p)
    BY Zenon, <1>5, <1>7 DEF LookupAccount
  <1>8. CASE LookupOriginal(p)
    <2>1. PICK h : h = [handler[p] EXCEPT !.pc = "card",
                                          !.original = transfers[handler[p].req.auth]]
      OBVIOUS
    <2>2. h.pc # "waiting"
      BY <1>0, <2>1 DEF HandlerRecord
    <2>3. CASE handler' = [handler EXCEPT ![p].pc = "card",
                                          ![p].original = transfers[handler[p].req.auth]]
      <3>1. handler' = [handler EXCEPT ![p] = h]
        BY Zenon, <1>0, <2>1, <2>3
      <3> QED
        BY Zenon, <1>1, <2>2, <3>1
    <2> QED
      BY Zenon, <1>2, <1>8, <2>3 DEF LookupOriginal
  <1>9. CASE EvaluateRisk(p)
    <2> DEFINE req == handler[p].req
               i == Home[p]
    <2>0. handler[p].pc = "risk"
      BY Zenon, <1>9 DEF EvaluateRisk
    <2>1. ASSUME NEW place \in {"replay", "late"}, Goto(p, place) PROVE NoNewAttempt(r)
      BY <1>3, <2>1
    <2>2. ASSUME RiskApproved(req, instance[i].riskLimit), req.op = "authorization",
                 NEW seconds
          PROVE  ~Fulfils(AuthorizationTransfer(req, seconds), r)
      <3>1. PICK t : t = AuthorizationTransfer(req, seconds)
        OBVIOUS
      <3>2. t.amount = req.amount /\ t.code = req.op
        BY <3>1 DEF AuthorizationTransfer, Hold
      <3>3. req.op # "authorization_increment"
        BY <2>2
      <3> QED
        BY Zenon, <2>0, <2>2, <3>1, <3>2, <3>3, DeclinedHeldBack
    <2>3. ASSUME RiskApproved(req, instance[i].riskLimit),
                 Remaining(handler[p].original, now + ClockSkew[i]) > 0, NEW seconds
          PROVE  ~Fulfils(IncrementTransfer(req, handler[p].original, seconds), r)
      <3>1. PICK t : t = IncrementTransfer(req, handler[p].original, seconds)
        OBVIOUS
      <3>2. t.amount = req.amount /\ t.code = req.op /\ t.group = req.auth
        BY <3>1 DEF IncrementTransfer, Hold
      <3> QED
        BY Zenon, <2>0, <2>3, <3>1, <3>2, DeclinedHeldBack
    <2> QED
      BY Zenon, <1>4, <1>9, <2>1, <2>2, <2>3 DEF EvaluateRisk
  <1>10. CASE TransferResult(p)
    <2>1. Goto(p, "drift") => NoNewAttempt(r)
      BY <1>3
    <2> QED
      BY Zenon, <1>2, <1>10, <2>1 DEF TransferResult
  <1>11. ASSUME NEW place \in {"created", "result"}, NEW status,
                handler' = [handler EXCEPT ![p].pc = place, ![p].status = status]
         PROVE  NoNewAttempt(r)
    <2>1. PICK h : h = [handler[p] EXCEPT !.pc = place, !.status = status]
      OBVIOUS
    <2>2. h.pc # "waiting"
      BY <1>0, <1>11, <2>1 DEF HandlerRecord
    <2>3. handler' = [handler EXCEPT ![p] = h]
      BY Zenon, <1>0, <1>11, <2>1
    <2> QED
      BY Zenon, <1>1, <2>2, <2>3
  <1>12. CASE CommitTransfer(p) \/ CommitAccount(p)
    BY Zenon, <1>11, <1>12 DEF CommitTransfer, CommitAccount
  <1>13. CASE \/ LookupReplay(p) \/ LookupDrift(p) \/ AccountResult(p) \/ ReadBalance(p)
    BY Zenon, <1>2, <1>13 DEF LookupReplay, LookupDrift, AccountResult, ReadBalance
  <1> QED
    BY Zenon, <1>6, <1>7, <1>8, <1>9, <1>10, <1>12, <1>13 DEF Progress

\* What commits was with the ledger.
LEMMA CommitTaken ==
    ASSUME IInv, NEW t \in Transfer, CreateTransfer(t), NEW r, r.id \in TransferIDs,
           transfers'[r.id] # None, Fulfils(transfers'[r.id], r)
    PROVE  (transfers[r.id] # None /\ Fulfils(transfers[r.id], r)) \/ Fulfils(t, r)
  <1> DEFINE stored == [t EXCEPT !.timestamp = now]
  <1>1. transfers \in [TransferIDs -> Transfer \cup {None}]
    BY Parts DEF LedgerInv, LedgerTypeOK
  <1>2. transfers' = transfers \/ transfers' = [transfers EXCEPT ![t.id] = stored]
    BY Zenon DEF CreateTransfer
  <1>3. Fulfils(stored, r) => Fulfils(t, r)
    BY DEF Fulfils, Transfer
  <1> HIDE DEF stored
  <1>4. transfers'[r.id] = transfers[r.id] \/ transfers'[r.id] = stored
    BY Zenon, <1>1, <1>2
  <1> QED
    BY Zenon, <1>3, <1>4

\* A request is not taken up by a step that begins no attempt at it and leaves
\* only what waited for the ledger under way.
LEMMA TakenKept ==
    ASSUME NEW r, NoNewAttempt(r), UNCHANGED transfers,
           \A t \in lateTransfers' : t \in lateTransfers \/ t \in PendingTransfers(Handlers),
           TakenUp(r)'
    PROVE  TakenUp(r)
  <1>1. ASSUME NEW q \in Handlers, handler'[q].pc = "waiting", Fulfils(handler'[q].transfer, r)
        PROVE  TakenUp(r)
    BY Zenon, <1>1 DEF NoNewAttempt, TakenUp
  <1>2. ASSUME NEW t \in lateTransfers', Fulfils(t, r) PROVE TakenUp(r)
    BY Zenon, <1>2 DEF PendingTransfers, TakenUp
  <1>3. CASE transfers'[r.id] # None /\ Fulfils(transfers'[r.id], r)
    BY SMTT(20), <1>3 DEF TakenUp
  <1> QED
    BY Zenon, <1>1, <1>2, <1>3 DEF TakenUp

\* No attempt at a declined request reaches the ledger any more, be it a retry or
\* one that was running, whatever expires, fails, commits late or restarts in
\* between, if the risk limit is not reconfigured and all clocks agree.
THEOREM DeclinesAlwaysSettle == Spec /\ OneLimit /\ OneClock => DeclineSettles
  <1> DEFINE Settles == \A r \in declined : TakenUp(r)' => TakenUp(r)
  <1>1. ASSUME IInv, SubmitInv, AnswerInv, OneLimit, OneClock, Next PROVE Settles
    <2> SUFFICES ASSUME NEW r \in declined, TakenUp(r)' PROVE TakenUp(r)
      OBVIOUS
    <2>0. r.id \in TransferIDs
      BY Zenon, <1>1 DEF AnswerInv, DeclinesRight, DeclinedRight
    <2>1. ASSUME NoNewAttempt(r), UNCHANGED transfers,
                 NEW P \in SUBSET Handlers, NEW T \in SUBSET PendingTransfers(P),
                 lateTransfers' = lateTransfers \cup T
          PROVE  TakenUp(r)
      <3>1. \A t \in lateTransfers' : t \in lateTransfers \/ t \in PendingTransfers(Handlers)
        BY Zenon, <2>1 DEF PendingTransfers
      <3> QED
        BY Zenon, <2>1, <3>1, TakenKept
    <2>2. ASSUME NoNewAttempt(r), UNCHANGED <<transfers, lateTransfers>> PROVE TakenUp(r)
      BY Zenon, <2>2, TakenKept
    <2>3. ASSUME \A q \in Handlers : handler'[q] \in {handler[q], Idle} PROVE NoNewAttempt(r)
      <3>1. Idle.pc # "waiting"
        BY DEF Idle
      <3> QED
        BY Zenon, <2>3, <3>1 DEF NoNewAttempt
    <2>4. handler \in [Handlers -> HandlerRecord]
      BY <1>1, Parts DEF HandlerInv
    <2>5. ASSUME NEW p \in Handlers, NEW q \in Requests, Receive(p, q) PROVE TakenUp(r)
      <3>1. ASSUME handler' = [handler EXCEPT ![p].pc = FirstPlace(q), ![p].req = q]
            PROVE  NoNewAttempt(r)
        <4>1. FirstPlace(q) # "waiting"
          BY DEF FirstPlace
        <4>2. handler'[p].pc # "waiting" /\ \A g \in Handlers \ {p} : handler'[g] = handler[g]
          BY <2>4, <3>1, <4>1 DEF HandlerRecord
        <4> QED
          BY Zenon, <4>2 DEF NoNewAttempt
      <3>2. UNCHANGED handler => NoNewAttempt(r)
        BY Zenon DEF NoNewAttempt
      <3>3. UNCHANGED <<transfers, lateTransfers>>
        BY Zenon, <2>5 DEF Receive, ledgerVars, lateVars
      <3> QED
        BY Zenon, <2>2, <2>5, <3>1, <3>2, <3>3 DEF Receive
    <2>6. ASSUME NEW p \in Handlers, Progress(p) PROVE TakenUp(r)
      <3>1. NoNewAttempt(r)
        BY Zenon, <1>1, <2>6, ProgressSettled
      <3>2. CASE CommitTransfer(p)
        <4>1. /\ handler[p].pc = "waiting" /\ CreateTransfer(handler[p].transfer)
              /\ UNCHANGED lateTransfers
          BY Zenon, <3>2 DEF CommitTransfer, lateVars
        <4>2. handler[p].transfer \in Transfer
          BY Zenon, <1>1, <4>1, HandlerFacts DEF HandlerSubmitted, HandlerRecord
        <4>3. CASE transfers'[r.id] # None /\ Fulfils(transfers'[r.id], r)
          BY Zenon, <1>1, <2>0, <4>1, <4>2, <4>3, CommitTaken DEF TakenUp
        <4>4. ASSUME NEW q \in Handlers, handler'[q].pc = "waiting",
                     Fulfils(handler'[q].transfer, r)
              PROVE  TakenUp(r)
          BY Zenon, <3>1, <4>4 DEF NoNewAttempt, TakenUp
        <4>5. ASSUME NEW t \in lateTransfers', Fulfils(t, r) PROVE TakenUp(r)
          BY Zenon, <4>1, <4>5 DEF TakenUp
        <4> QED
          BY Zenon, <4>3, <4>4, <4>5 DEF TakenUp
      <3>3. CASE ~CommitTransfer(p)
        <4>1. UNCHANGED <<transfers, lateTransfers>>
          BY Zenon, <2>6, <3>3 DEF Progress, LoadMetadata, LookupAccount, LookupOriginal,
             EvaluateRisk, LookupReplay, TransferResult, LookupDrift, CommitAccount,
             AccountResult, ReadBalance, ledgerVars, lateVars
        <4> QED
          BY Zenon, <2>2, <3>1, <4>1
      <3> QED
        BY <3>2, <3>3
    <2>7. ASSUME NEW p \in Handlers, Failure(p) PROVE TakenUp(r)
      <3>1. \A q \in Handlers : handler'[q] \in {handler[q], Idle}
        <4>1. handler' = [handler EXCEPT ![p] = Idle]
          BY Zenon, <2>7 DEF Failure, CancelRisk, LookupFails, CallFails, Finish, Answer
        <4> QED
          BY <2>4, <4>1
      <3>2. UNCHANGED transfers
        BY Zenon, <2>7 DEF Failure, CancelRisk, LookupFails, CallFails, ledgerVars
      <3>3. CASE CallFails(p)
        <4>1. {p} \in SUBSET Handlers
          OBVIOUS
        <4>2. \E T \in SUBSET PendingTransfers({p}) : lateTransfers' = lateTransfers \cup T
          BY Zenon, <3>3 DEF CallFails, Abandon
        <4> QED
          BY Zenon, <2>1, <2>3, <3>1, <3>2, <4>1, <4>2
      <3>4. CASE CancelRisk(p) \/ LookupFails(p)
        BY Zenon, <2>2, <2>3, <3>1, <3>2, <3>4 DEF CancelRisk, LookupFails, lateVars
      <3> QED
        BY Zenon, <2>7, <3>3, <3>4 DEF Failure
    <2>8. ASSUME NEW t \in lateTransfers, CommitLateTransfer(t) PROVE TakenUp(r)
      <3>1. /\ CreateTransfer(t) /\ UNCHANGED handler /\ t \in Transfer
            /\ lateTransfers' \subseteq lateTransfers
        BY <1>1, <2>8, Parts DEF CommitLateTransfer, LateInv, LateOK
      <3>2. CASE transfers'[r.id] # None /\ Fulfils(transfers'[r.id], r)
        BY Zenon, <1>1, <2>0, <3>1, <3>2, CommitTaken DEF TakenUp
      <3> QED
        BY Zenon, <3>1, <3>2 DEF TakenUp
    <2>9. ASSUME NEW i \in Instances, Lifecycle(i) PROVE TakenUp(r)
      <3>1. UNCHANGED transfers
        BY Zenon, <2>9 DEF Lifecycle, Start, Provision, ProvisionFails, Crash, ledgerVars
      <3>2. CASE Crash(i)
        <4> DEFINE mine == {p \in Handlers : Home[p] = i}
        <4>1. \A q \in Handlers : handler'[q] \in {handler[q], Idle}
          BY <3>2 DEF Crash
        <4>2. mine \in SUBSET Handlers
          OBVIOUS
        <4>3. \E T \in SUBSET PendingTransfers(mine) : lateTransfers' = lateTransfers \cup T
          BY Zenon, <3>2 DEF Crash, Abandon
        <4> HIDE DEF mine
        <4> QED
          BY Zenon, <2>1, <2>3, <3>1, <4>1, <4>2, <4>3
      <3>3. CASE ~Crash(i)
        <4>1. /\ UNCHANGED handler
              /\ \/ UNCHANGED lateTransfers
                 \/ \E T \in SUBSET {} : lateTransfers' = lateTransfers \cup T
          BY Zenon, <2>9, <3>3
          DEF Lifecycle, Start, Provision, ProvisionFails, Abandon, lateVars
        <4>2. UNCHANGED lateTransfers
          BY <4>1
        <4> QED
          BY Zenon, <2>2, <2>3, <3>1, <4>1, <4>2
      <3> QED
        BY <3>2, <3>3
    <2>10. CASE LedgerStep \/ \E a \in lateAccounts : CommitLateAccount(a)
      <3>1. UNCHANGED <<transfers, lateTransfers, handler>>
        BY Zenon, <2>10 DEF LedgerStep, Tick, ExpireTransfer, CommitLateAccount, lateVars
      <3> QED
        BY Zenon, <2>2, <2>3, <3>1
    <2> QED
      BY Zenon, <1>1, <2>5, <2>6, <2>7, <2>8, <2>9, <2>10 DEF Next
  <1>2. IInv /\ SubmitInv /\ AnswerInv /\ OneLimit /\ OneClock /\ [Next]_vars => [Settles]_vars
    <2> HIDE DEF Settles
    <2> QED
      BY <1>1
  <1>3. OneLimit /\ OneClock => OneLimit' /\ OneClock'
    OBVIOUS
  <1> QED
    BY <1>2, <1>3, AnswersAlwaysRight, PTL DEF Spec, DeclineSettles

-----------------------------------------------------------------------------
(***************************************************************************)
(* Idempotency.                                                            *)
(***************************************************************************)

\* A step that leaves the transfers alone answers, if anybody, honestly.
LEMMA AnswerKeepsPromise ==
    ASSUME IInv, IInv', UNCHANGED <<transfers, failed>>
    PROVE  Promise!Reply
  <1>1. reply' \in Reply \cup {None}
    BY SMTT(20), Parts DEF IInv, TypeOK
  <1>2. [id \in TransferIDs |-> Decision(id)]' = [id \in TransferIDs |-> Decision(id)]
        /\ CarriedOut' = CarriedOut
    BY DEF Decision, CarriedOut, Fulfils
  <1>3. ASSUME reply' # None, reply'.outcome \in {"posted", "approved"}
        PROVE  reply'.req \in CarriedOut
    <2>1. reply'.req \in Requests
      BY <1>1, <1>3 DEF Reply
    <2>2. /\ reply'.req.id # None /\ transfers[reply'.req.id] # None
          /\ Fulfils(transfers[reply'.req.id], reply'.req)
      BY Zenon, <1>3 DEF IInv, SuccessIsCommitted, Fulfils
    <2> QED
      BY <2>1, <2>2 DEF CarriedOut
  <1>4. ASSUME reply' # None,
               reply'.outcome \in {"insufficient_funds", "previous_attempt_failed"}
        PROVE  Decision(reply'.req.id) = "refused" /\ reply'.req.id \in TransferIDs
    BY SMTT(20), <1>3, <1>4 DEF IInv, RejectionIsFinal, TypeOK, Decision
  <1> QED
    BY <1>1, <1>2, <1>3, <1>4 DEF Promise!Reply, Promise!Honest

\* A step that commits a transfer decides the transfer's ID, or nothing.
LEMMA CommitKeepsPromise ==
    ASSUME IInv, NEW t \in Transfer, Asked(t), CreateTransfer(t), Quiet,
           TransferStatus(t) # "account_not_found"
    PROVE  Promise!Next
  <1> DEFINE stored == [t EXCEPT !.timestamp = now]
             decisions == [id \in TransferIDs |-> Decision(id)]
  <1>1. /\ transfers \in [TransferIDs -> Transfer \cup {None}] /\ t.id \in TransferIDs
        /\ failed \subseteq TransferIDs /\ stored \in Transfer
    BY Parts DEF LedgerInv, LedgerTypeOK, Transfer
  <1>2. CASE TransferStatus(t) = "created"
    <2> DEFINE same == {r \in Requests : r.id = t.id /\ Fulfils(stored, r)}
    <2>1. /\ transfers[t.id] = None /\ t.id \notin failed
          /\ transfers' = [transfers EXCEPT ![t.id] = stored]
          /\ failed' = failed
      BY <1>2 DEF CreateTransfer, TransferStatus, ExistsStatus, Transient
    <2>2. \A r : Fulfils(stored, r) <=> Fulfils(t, r)
      BY DEF Fulfils, Transfer
    <2>3. same # {}
      BY <2>2 DEF Asked, Fulfils
    <2>4. CarriedOut' = CarriedOut \cup same
      BY <1>1, <2>1, NoneAssumption DEF CarriedOut, Fulfils
    <2>5. decisions[t.id] = "open"
          /\ decisions' = [decisions EXCEPT ![t.id] = "accepted"]
      BY <1>1, <2>1, NoneAssumption DEF Decision
    <2>6. reply' = None /\ same \in SUBSET {r \in Requests : r.id = t.id}
      BY DEF Quiet
    <2> HIDE DEF same
    <2> QED
      BY Zenon, <1>1, <2>3, <2>4, <2>5, <2>6 DEF Promise!Next, Promise!Accept
  <1>3. CASE TransferStatus(t) \in {"exceeds_credits", "exceeds_debits"}
    <2>1. /\ transfers[t.id] = None /\ t.id \notin failed
          /\ transfers' = transfers
          /\ failed' = failed \cup {t.id}
      BY <1>3 DEF CreateTransfer, TransferStatus, ExistsStatus, Transient
    <2>2. CarriedOut' = CarriedOut
      BY <2>1 DEF CarriedOut, Fulfils
    <2>3. decisions[t.id] = "open"
          /\ decisions' = [decisions EXCEPT ![t.id] = "refused"]
      BY <1>1, <2>1 DEF Decision
    <2>4. reply' = None
      BY DEF Quiet
    <2> QED
      BY Zenon, <1>1, <2>2, <2>3, <2>4 DEF Promise!Next, Promise!Refuse
  <1>4. CASE TransferStatus(t) \notin {"created", "exceeds_credits", "exceeds_debits"}
    <2>1. transfers' = transfers /\ failed' = failed
      BY <1>4 DEF CreateTransfer, Transient
    <2>2. decisions' = decisions /\ CarriedOut' = CarriedOut /\ reply' = None
      BY <2>1 DEF Decision, CarriedOut, Fulfils, Quiet
    <2> QED
      BY <2>2 DEF Promise!Next, Promise!Reply
  <1> QED
    BY <1>2, <1>3, <1>4

\* Every step of the service is a step of Idempotency or changes nothing there.
LEMMA StepKeepsPromise ==
    ASSUME IInv, SubmitInv, IInv', [Next]_vars
    PROVE  [Promise!Next]_(Promise!vars)
  <1>1. CASE UNCHANGED <<transfers, failed>>
    BY <1>1, AnswerKeepsPromise DEF Promise!Next
  <1>2. ASSUME NEW p \in Handlers, CommitTransfer(p) PROVE Promise!Next
    <2> DEFINE t == handler[p].transfer
    <2>1. handler[p].pc = "waiting" /\ CreateTransfer(t) /\ Quiet
      BY <1>2 DEF CommitTransfer
    <2>2. t \in Transfer /\ Recipe(t) /\ Asked(t)
      BY Zenon, <2>1, HandlerFacts DEF HandlerSubmitted, HandlerRecord, Asked
    <2>3. TransferStatus(t) # "account_not_found"
      BY SMTT(20), <2>1, <2>2, CreateTransferOK, Parts
    <2> QED
      BY Zenon, <2>1, <2>2, <2>3, CommitKeepsPromise
  <1>3. ASSUME NEW t \in lateTransfers, CommitLateTransfer(t) PROVE Promise!Next
    <2>1. CreateTransfer(t) /\ Quiet
      BY <1>3 DEF CommitLateTransfer
    <2>2. t \in Transfer /\ Recipe(t) /\ Asked(t)
      BY Parts DEF LateInv, LateOK, SubmitInv, LateSound
    <2>3. TransferStatus(t) # "account_not_found"
      BY <2>1, <2>2, CreateTransferOK, Parts
    <2> QED
      BY <2>1, <2>2, <2>3, CommitKeepsPromise
  <1>4. ASSUME NEW p \in Handlers, Progress(p), ~CommitTransfer(p)
        PROVE  UNCHANGED <<transfers, failed>>
    BY Zenon, <1>4 DEF Progress, LoadMetadata, LookupAccount, LookupOriginal,
       EvaluateRisk, LookupReplay, TransferResult, LookupDrift, CommitAccount,
       AccountResult, ReadBalance, ledgerVars
  <1>5. ASSUME NEW p \in Handlers, \/ Failure(p)
                                   \/ \E r \in Requests : Receive(p, r)
        PROVE  UNCHANGED <<transfers, failed>>
    BY Zenon, <1>5 DEF Failure, CancelRisk, LookupFails, CallFails, Receive, ledgerVars
  <1>6. ASSUME NEW i \in Instances, Lifecycle(i) PROVE UNCHANGED <<transfers, failed>>
    BY Zenon, <1>6 DEF Lifecycle, Start, Provision, ProvisionFails, Crash, ledgerVars
  <1>7. CASE LedgerStep \/ UNCHANGED vars \/ \E a \in lateAccounts : CommitLateAccount(a)
    <2>1. UNCHANGED <<transfers, failed>>
      BY Zenon, <1>7
      DEF LedgerStep, Tick, ExpireTransfer, CommitLateAccount, vars, ledgerVars
    <2> QED
      BY <1>1, <2>1
  <1> QED
    BY Zenon, <1>1, <1>2, <1>3, <1>4, <1>5, <1>6, <1>7 DEF Next

\* LedgerService implements Idempotency: each request ID is decided once, by a
\* transfer that carries out a request made under it or by using the ID up, and
\* callers are answered accordingly.
THEOREM AlwaysKeepsPromise == Spec => KeepsPromise
  <1>1. Init => Promise!Init
    <2> SUFFICES ASSUME Init PROVE Promise!Init
      OBVIOUS
    <2>1. transfers = [id \in TransferIDs |-> None] /\ failed = {} /\ reply = None
      BY DEF Init, LedgerInit
    <2>2. \A r \in Requests : r.id # None => r.id \in TransferIDs
      BY ServiceAssumption DEF Request
    <2>3. CarriedOut = {}
      BY <2>1, <2>2 DEF CarriedOut
    <2>4. [id \in TransferIDs |-> Decision(id)] = [id \in TransferIDs |-> "open"]
      BY <2>1 DEF Decision
    <2> QED
      BY <2>1, <2>3, <2>4 DEF Promise!Init
  <1>2. IInv /\ SubmitInv /\ IInv' /\ [Next]_vars => [Promise!Next]_(Promise!vars)
    BY StepKeepsPromise
  <1> QED
    BY <1>1, <1>2, SubmittedInvariance, PTL DEF Spec, KeepsPromise, Promise!Spec
=============================================================================
