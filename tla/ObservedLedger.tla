--------------------------- MODULE ObservedLedger ---------------------------
(***************************************************************************)
(* Ledger-call tracking, internal/service/health.go.  Every call to the    *)
(* ledger is registered with the time it started and taken off the list    *)
(* when it returns; Health compares the oldest with the stall threshold.   *)
(*                                                                         *)
(* A goroutine reads the clock before it takes the mutex: in begin, in the *)
(* function begin returns, and in Health.  Each of them is therefore two   *)
(* steps, and calls register and unregister in any order of their times.   *)
(*                                                                         *)
(* Zero stands for time.Time's zero value and for the call ID that no call *)
(* has.                                                                    *)
(***************************************************************************)
EXTENDS Integers, FiniteSets

CONSTANTS
    Goroutines,       \* one per HTTP request in progress
    StallThreshold,   \* LEDGER_STALL_THRESHOLD, in ticks of the clock
    MaxClock,         \* bound on the clock
    MaxCalls          \* bound on the ledger calls

ASSUME ObservedAssumption ==
    /\ StallThreshold \in Nat \ {0}
    /\ MaxClock \in Nat
    /\ MaxCalls \in Nat

VARIABLES
    clock,
    nextID, active, oldestID, oldestStarted, lastSuccess,   \* observedLedger
    callsInFlight,   \* the gauge ledger_dependency_calls_in_flight
    call,            \* the ledger call each goroutine is in
    probe            \* the time each goroutine has read in Health

trackerVars == <<nextID, active, oldestID, oldestStarted, lastSuccess, callsInFlight>>

observedVars == <<clock, trackerVars, call, probe>>

Zero == 0

NoCall == [pc |-> "none", id |-> Zero, started |-> Zero, completed |-> Zero, failed |-> FALSE]

Call ==
    [pc : {"none", "starting", "waiting", "returned"}, id : Nat,
     started : Nat, completed : Nat, failed : BOOLEAN]

\* The server listens after EnsureSystemAccounts has made its two calls.
ObservedInit ==
    /\ clock = 1
    /\ nextID = 2
    /\ active = [id \in {} |-> Zero]
    /\ oldestID = Zero
    /\ oldestStarted = Zero
    /\ lastSuccess = 1
    /\ callsInFlight = 0
    /\ call = [g \in Goroutines |-> NoCall]
    /\ probe = [g \in Goroutines |-> Zero]

Tick ==
    /\ clock < MaxClock
    /\ clock' = clock + 1
    /\ UNCHANGED <<trackerVars, call, probe>>

\* begin reads the clock.
ReadStart(g) ==
    /\ call[g] = NoCall
    /\ nextID < MaxCalls
    /\ call' = [call EXCEPT ![g] = [NoCall EXCEPT !.pc = "starting", !.started = clock]]
    /\ UNCHANGED <<clock, trackerVars, probe>>

\* Is a call that registers now the oldest?
IsOldest(started) == oldestStarted = Zero \/ started < oldestStarted

\* begin puts the call on the list, and the ledger call is made.
Register(g) ==
    LET id == nextID + 1
        started == call[g].started
    IN
    /\ call[g].pc = "starting"
    /\ nextID' = id
    /\ active' = [i \in DOMAIN active \cup {id} |-> IF i = id THEN started ELSE active[i]]
    /\ oldestID' = IF IsOldest(started) THEN id ELSE oldestID
    /\ oldestStarted' = IF IsOldest(started) THEN started ELSE oldestStarted
    /\ callsInFlight' = Cardinality(DOMAIN active')
    /\ call' = [call EXCEPT ![g].pc = "waiting", ![g].id = id]
    /\ UNCHANGED <<clock, lastSuccess, probe>>

\* The ledger call ends, with an error or not, and the deferred function reads
\* the clock.
Return(g, failed) ==
    /\ call[g].pc = "waiting"
    /\ call' = [call EXCEPT ![g].pc = "returned", ![g].completed = clock,
                            ![g].failed = failed]
    /\ UNCHANGED <<clock, trackerVars, probe>>

\* What findOldest may leave: the scan of a Go map has no order, so any call
\* with the least time.
FindOldest ==
    IF DOMAIN active' = {}
    THEN oldestID' = Zero /\ oldestStarted' = Zero
    ELSE \E id \in DOMAIN active' :
             /\ \A i \in DOMAIN active' : active'[id] <= active'[i]
             /\ oldestID' = id
             /\ oldestStarted' = active'[id]

\* Taking a failed call off the list without looking for the oldest.
UnregisterKeepsOldest(g) ==
    LET id == call[g].id IN
    /\ call[g].pc = "returned"
    /\ active' = [i \in DOMAIN active \ {id} |-> active[i]]
    /\ lastSuccess' = IF call[g].failed THEN lastSuccess ELSE call[g].completed
    /\ IF id = oldestID /\ ~call[g].failed
       THEN FindOldest
       ELSE UNCHANGED <<oldestID, oldestStarted>>
    /\ callsInFlight' = Cardinality(DOMAIN active')
    /\ call' = [call EXCEPT ![g] = NoCall]
    /\ UNCHANGED <<clock, nextID, probe>>

\* Taking a call off the list with a findOldest that waits for the mutex its
\* caller holds.
UnregisterSelfLocked(g) ==
    LET id == call[g].id IN
    /\ call[g].pc = "returned"
    /\ id # oldestID
    /\ active' = [i \in DOMAIN active \ {id} |-> active[i]]
    /\ lastSuccess' = IF call[g].failed THEN lastSuccess ELSE call[g].completed
    /\ UNCHANGED <<oldestID, oldestStarted>>
    /\ callsInFlight' = Cardinality(DOMAIN active')
    /\ call' = [call EXCEPT ![g] = NoCall]
    /\ UNCHANGED <<clock, nextID, probe>>

\* The deferred function takes the call off the list.
Unregister(g) ==
    LET id == call[g].id IN
    /\ call[g].pc = "returned"
    /\ active' = [i \in DOMAIN active \ {id} |-> active[i]]
    /\ lastSuccess' = IF call[g].failed THEN lastSuccess ELSE call[g].completed
    /\ IF id = oldestID THEN FindOldest ELSE UNCHANGED <<oldestID, oldestStarted>>
    /\ callsInFlight' = Cardinality(DOMAIN active')
    /\ call' = [call EXCEPT ![g] = NoCall]
    /\ UNCHANGED <<clock, nextID, probe>>

\* Health reads the clock.
ReadNow(g) ==
    /\ probe' = [probe EXCEPT ![g] = clock]
    /\ UNCHANGED <<clock, trackerVars, call>>

\* The age of the oldest call Health finds, at the time it has read.
Oldest(g) == IF oldestStarted = Zero THEN 0 ELSE probe[g] - oldestStarted

\* A verdict that lets a call of exactly the threshold pass.
ReadyAtThreshold(g) == Oldest(g) <= StallThreshold

\* The verdict of Health.
Ready(g) == Oldest(g) < StallThreshold

\* Health takes the mutex, copies what it needs and returns a verdict.
Health(g, ready) ==
    /\ ready = Ready(g)
    /\ probe' = [probe EXCEPT ![g] = Zero]
    /\ UNCHANGED <<clock, trackerVars, call>>
=============================================================================
