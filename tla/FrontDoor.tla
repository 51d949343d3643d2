----------------------------- MODULE FrontDoor -----------------------------
(***************************************************************************)
(* The way of an HTTP request to the service and back: the metrics, panic  *)
(* and admission middleware of internal/httpapi and internal/observability *)
(* around handlers that call the ledger, composed with the call tracking   *)
(* whose verdict admission asks for.                                       *)
(*                                                                         *)
(* pc of a goroutine, for a ledger route:                                  *)
(*   probing   in ledgerReady, the clock is read                           *)
(*   cleared   ledgerReady was true                                        *)
(*   entering  has a slot, the gauge does not count it yet                 *)
(*   serving   in the handler                                              *)
(*   leaving   the deferred function is to give the slot back              *)
(*   left      the slot is back, the gauge still counts the request        *)
(*   answered  next.ServeHTTP of the metrics middleware has returned       *)
(* and for GET /health/ready: asking, then answered.                       *)
(*                                                                         *)
(* What a handler does between its ledger calls is LedgerService's matter. *)
(* A panic may end it anywhere: recoverPanics answers 500, and the         *)
(* deferred functions on the way run.                                      *)
(***************************************************************************)
EXTENDS ObservedLedger

CONSTANTS
    MaxConcurrent,   \* MAX_CONCURRENT_REQUESTS
    MaxRequests      \* bound on the requests

ASSUME FrontDoorAssumption ==
    MaxConcurrent \in Nat \ {0} /\ MaxRequests \in Nat

VARIABLES
    pc,
    panicking,        \* goroutines unwinding a panic
    slots,            \* the length of the channel slots
    admitted,         \* the gauge ledger_admission_in_flight
    rejected,         \* the counters ledger_admission_rejected_total
    counted,          \* the counter ledger_http_requests_total
    arrived, panics   \* history: requests begun, requests ended by a panic

gateVars == <<slots, admitted, rejected>>

vars == <<observedVars, pc, panicking, gateVars, counted, arrived, panics>>

Reasons == {"ledger_stalled", "capacity"}

Init ==
    /\ ObservedInit
    /\ pc = [g \in Goroutines |-> "idle"]
    /\ panicking = {}
    /\ slots = 0
    /\ admitted = 0
    /\ rejected = [reason \in Reasons |-> 0]
    /\ counted = 0
    /\ arrived = 0
    /\ panics = 0

Goto(g, from, to) == pc[g] = from /\ pc' = [pc EXCEPT ![g] = to]

Reject(reason) == rejected' = [rejected EXCEPT ![reason] = @ + 1]

\* A request arrives; what it meets first is the clock of Health.
Arrive(g, entry) ==
    /\ arrived < MaxRequests
    /\ Goto(g, "idle", entry)
    /\ ReadNow(g)
    /\ arrived' = arrived + 1
    /\ UNCHANGED <<panicking, gateVars, counted, panics>>

\* Admission around the metrics middleware: what it rejects is not counted.
CheckBeforeMetrics(g) ==
    /\ \/ /\ Health(g, TRUE)
          /\ Goto(g, "probing", "cleared")
          /\ UNCHANGED rejected
       \/ /\ Health(g, FALSE)
          /\ Goto(g, "probing", "idle")
          /\ Reject("ledger_stalled")
    /\ UNCHANGED <<panicking, slots, admitted, counted, arrived, panics>>

\* Wrap asks whether the ledger answers.
CheckLedger(g) ==
    /\ \/ /\ Health(g, TRUE)
          /\ Goto(g, "probing", "cleared")
          /\ UNCHANGED rejected
       \/ /\ Health(g, FALSE)
          /\ Goto(g, "probing", "answered")
          /\ Reject("ledger_stalled")
    /\ UNCHANGED <<panicking, slots, admitted, counted, arrived, panics>>

\* GET /health/ready reports the verdict and takes no slot.
ReportReady(g) ==
    /\ Goto(g, "asking", "answered")
    /\ \E ready \in BOOLEAN : Health(g, ready)
    /\ UNCHANGED <<panicking, gateVars, counted, arrived, panics>>

\* A select whose send is possible up to one slot too many.
TakeOneTooMany(g) ==
    /\ \/ /\ slots <= MaxConcurrent
          /\ slots' = slots + 1
          /\ Goto(g, "cleared", "entering")
          /\ UNCHANGED rejected
       \/ /\ slots > MaxConcurrent
          /\ Goto(g, "cleared", "answered")
          /\ Reject("capacity")
          /\ UNCHANGED slots
    /\ UNCHANGED <<observedVars, panicking, admitted, counted, arrived, panics>>

\* A select without its default: the goroutine waits for a slot.
WaitForSlot(g) ==
    /\ slots < MaxConcurrent
    /\ slots' = slots + 1
    /\ Goto(g, "cleared", "entering")
    /\ UNCHANGED <<observedVars, panicking, admitted, rejected, counted, arrived, panics>>

\* The select: send to the channel if it has room, do not wait if it is full.
TakeSlot(g) ==
    /\ \/ /\ slots < MaxConcurrent
          /\ slots' = slots + 1
          /\ Goto(g, "cleared", "entering")
          /\ UNCHANGED rejected
       \/ /\ slots >= MaxConcurrent
          /\ Goto(g, "cleared", "answered")
          /\ Reject("capacity")
          /\ UNCHANGED slots
    /\ UNCHANGED <<observedVars, panicking, admitted, counted, arrived, panics>>

BeginAdmission(g) ==
    /\ Goto(g, "entering", "serving")
    /\ admitted' = admitted + 1
    /\ UNCHANGED <<observedVars, panicking, slots, rejected, counted, arrived, panics>>

\* The handler makes a ledger call.
BeginCall(g) ==
    /\ pc[g] = "serving"
    /\ g \notin panicking
    /\ ReadStart(g)
    /\ UNCHANGED <<pc, panicking, gateVars, counted, arrived, panics>>

RegisterCall(g) ==
    /\ Register(g)
    /\ UNCHANGED <<pc, panicking, gateVars, counted, arrived, panics>>

\* The ledger answers, or the client reports an error.
LedgerReturns(g) ==
    /\ \E failed \in BOOLEAN : Return(g, failed)
    /\ UNCHANGED <<pc, panicking, gateVars, counted, arrived, panics>>

\* The call panics: the deferred function runs with its error still nil.
CallPanics(g) ==
    /\ Return(g, FALSE)
    /\ panicking' = panicking \cup {g}
    /\ UNCHANGED <<pc, gateVars, counted, arrived, panics>>

EndCall(g) ==
    /\ Unregister(g)
    /\ pc' = [pc EXCEPT ![g] = IF g \in panicking THEN "leaving" ELSE @]
    /\ UNCHANGED <<panicking, gateVars, counted, arrived, panics>>

\* The handler has written its answer, or panics outside a ledger call.
EndHandler(g) ==
    /\ call[g] = NoCall
    /\ Goto(g, "serving", "leaving")
    /\ panicking' \in {panicking, panicking \cup {g}}
    /\ UNCHANGED <<observedVars, gateVars, counted, arrived, panics>>

\* Giving the slot back on the ordinary way out only.
ReleaseUnlessPanicking(g) ==
    /\ Goto(g, "leaving", "left")
    /\ slots' = IF g \in panicking THEN slots ELSE slots - 1
    /\ UNCHANGED <<observedVars, panicking, admitted, rejected, counted, arrived, panics>>

\* The deferred function of Wrap.
ReleaseSlot(g) ==
    /\ Goto(g, "leaving", "left")
    /\ slots' = slots - 1
    /\ UNCHANGED <<observedVars, panicking, admitted, rejected, counted, arrived, panics>>

EndAdmission(g) ==
    /\ Goto(g, "left", "answered")
    /\ admitted' = admitted - 1
    /\ UNCHANGED <<observedVars, panicking, slots, rejected, counted, arrived, panics>>

\* HTTPMiddleware counts the request after the handler has returned.
Count(g) ==
    /\ g \notin panicking
    /\ Goto(g, "answered", "idle")
    /\ counted' = counted + 1
    /\ UNCHANGED <<observedVars, panicking, gateVars, arrived, panics>>

\* A panic has passed HTTPMiddleware by and ends in recoverPanics.
Recover(g) ==
    /\ g \in panicking
    /\ Goto(g, "answered", "idle")
    /\ panicking' = panicking \ {g}
    /\ panics' = panics + 1
    /\ UNCHANGED <<observedVars, gateVars, counted, arrived>>

Pass ==
    /\ Tick
    /\ UNCHANGED <<pc, panicking, gateVars, counted, arrived, panics>>

\* The steps of a goroutine that has begun a request: the server's own,
Serve(g) ==
    \/ CheckLedger(g)
    \/ ReportReady(g)
    \/ TakeSlot(g)
    \/ BeginAdmission(g)
    \/ BeginCall(g)
    \/ RegisterCall(g)
    \/ EndCall(g)
    \/ EndHandler(g)
    \/ ReleaseSlot(g)
    \/ EndAdmission(g)
    \/ Count(g)
    \/ Recover(g)

\* and the end of a call, which is up to the ledger.
LedgerEnds(g) == LedgerReturns(g) \/ CallPanics(g)

Proceed(g) == Serve(g) \/ LedgerEnds(g)

Next ==
    \/ Pass
    \/ \E g \in Goroutines :
           \/ \E entry \in {"probing", "asking"} : Arrive(g, entry)
           \/ Proceed(g)

Spec == Init /\ [][Next]_vars

\* Goroutines are scheduled and handlers end.  Nothing is assumed of the ledger: a
\* call has no timeout and may never return.
FairSpec == Spec /\ \A g \in Goroutines : WF_vars(Serve(g))

-----------------------------------------------------------------------------
PCs ==
    {"idle", "probing", "asking", "cleared", "entering", "serving", "leaving", "left",
     "answered"}

TypeOK ==
    /\ clock \in Nat /\ nextID \in Nat /\ oldestID \in Nat
    /\ oldestStarted \in Nat /\ lastSuccess \in Nat /\ callsInFlight \in Nat
    /\ DOMAIN active \subseteq Nat /\ active = [id \in DOMAIN active |-> active[id]]
    /\ call \in [Goroutines -> Call]
    /\ probe \in [Goroutines -> Nat]
    /\ pc \in [Goroutines -> PCs]
    /\ panicking \subseteq Goroutines
    /\ slots \in Nat /\ admitted \in Nat
    /\ rejected \in [Reasons -> Nat]
    /\ counted \in Nat /\ arrived \in Nat /\ panics \in Nat

\* The goroutines with a registered ledger call.
InLedger == {g \in Goroutines : call[g].pc \in {"waiting", "returned"}}

\* The goroutines with an admission slot.
Holders == {g \in Goroutines : pc[g] \in {"entering", "serving", "leaving"}}

\* However the clock readings, registrations and returns of calls interleave,
\* oldestStarted is the start of the oldest call that has registered and not
\* returned, and the zero time exactly when there is none.
OldestTracked ==
    /\ oldestStarted = Zero <=> InLedger = {}
    /\ \A g \in InLedger : oldestStarted <= call[g].started
    /\ InLedger # {} => \E g \in InLedger :
           oldestID = call[g].id /\ oldestStarted = call[g].started

\* A request gets past ledgerReady exactly when no ledger call registered by
\* then was StallThreshold old at the time Health had read: a stall is never
\* missed and never made up.
StallNoticed ==
    [][\A g \in Goroutines : (pc[g] = "probing" /\ pc'[g] # "probing") =>
          (pc'[g] = "cleared" <=>
               \A h \in InLedger : probe[g] - call[h].started < StallThreshold)]_vars

\* The admission limit bounds the ledger calls in flight, and the gauge of these
\* calls never shows more: no request is in the ledger without a slot.
CallsWithinSlots ==
    /\ InLedger \subseteq Holders
    /\ slots <= MaxConcurrent
    /\ callsInFlight <= MaxConcurrent

\* Slots and the admission gauge are accounted for by the requests under way,
\* panics included: nothing is lost, and a server at rest has all slots free.
\* The gauge lags: a request enters it after it has its slot and leaves it
\* after it gave the slot back.
SlotsAccounted ==
    /\ slots = Cardinality(Holders)
    /\ admitted = Cardinality({g \in Goroutines : pc[g] \in {"serving", "leaving", "left"}})

\* Of the requests to the routes that HTTPMiddleware wraps,
\* ledger_http_requests_total misses the ones that end in a panic, and no others:
\* what admission turns away is counted.
CountsComplete ==
    arrived = counted + panics + Cardinality({g \in Goroutines : pc[g] # "idle"})

Stalled == oldestStarted # Zero /\ clock - oldestStarted >= StallThreshold

\* The ledger answers every call in the end.
LedgerAnswers == \A g \in Goroutines : []<>(call[g].pc # "waiting")

\* A stall ends if the ledger answers again: the calls that cause it return, and
\* none of them leaves a time behind that would keep admission rejecting.
StallClears == LedgerAnswers => []<>~Stalled

\* Calls that never return cost no one else an answer: every request comes to its
\* end unless its own call is with the ledger, even when such calls hold all slots
\* and stall the ledger for good.
NoneWaitsForAnother ==
    \A g \in Goroutines : []<>(pc[g] = "idle" \/ call[g].pc = "waiting")
=============================================================================
