--------------------------- MODULE FrontDoorProofs ---------------------------
(***************************************************************************)
(* The safety properties of FrontDoor, for any set of goroutines, any      *)
(* admission limit, any threshold and any interleaving.                    *)
(*                                                                         *)
(* The invariant has two halves.  Tracked is about the observed ledger     *)
(* alone and is kept by its actions; Accounted is about the requests.      *)
(***************************************************************************)
EXTENDS FrontDoor, FiniteSetTheorems, FunctionTheorems, TLAPS

ObservedTypes ==
    /\ clock \in Nat \ {0}
    /\ nextID \in Nat
    /\ DOMAIN active \subseteq 1..nextID
    /\ oldestID \in Nat
    /\ oldestStarted \in Nat
    /\ call \in [Goroutines -> Call]
    /\ probe \in [Goroutines -> Nat]

\* A goroutine outside the ledger has no call; inside, it started at some time.
CallsHonest ==
    \A g \in Goroutines :
        /\ call[g].pc = "none" => call[g] = NoCall
        /\ call[g].pc # "none" => call[g].started # 0

\* The list holds the registered calls, each under an ID of its own.
ListHonest ==
    /\ \A g \in InLedger :
           call[g].id \in DOMAIN active /\ active[call[g].id] = call[g].started
    /\ \A id \in DOMAIN active : \E g \in InLedger : call[g].id = id
    /\ \A g, h \in InLedger : call[g].id = call[h].id => g = h

\* The least time on the list, or zero.
OldestHonest ==
    \/ DOMAIN active = {} /\ oldestID = 0 /\ oldestStarted = 0
    \/ /\ oldestID \in DOMAIN active
       /\ oldestStarted = active[oldestID]
       /\ \A id \in DOMAIN active : oldestStarted <= active[id]

GaugeHonest ==
    callsInFlight = Cardinality(DOMAIN active)

Tracked ==
    ObservedTypes /\ CallsHonest /\ ListHonest /\ OldestHonest /\ GaugeHonest

Gauged == {g \in Goroutines : pc[g] \in {"serving", "leaving", "left"}}

Busy == {g \in Goroutines : pc[g] # "idle"}

Accounted ==
    /\ pc \in [Goroutines -> PCs]
    /\ panicking \subseteq Goroutines
    /\ rejected \in [Reasons -> Nat]
    /\ counted \in Nat /\ arrived \in Nat /\ panics \in Nat
    /\ \A g \in Goroutines : call[g].pc # "none" => pc[g] = "serving"
    /\ IsFiniteSet(Holders) /\ IsFiniteSet(Gauged) /\ IsFiniteSet(Busy)
    /\ slots = Cardinality(Holders) /\ slots <= MaxConcurrent
    /\ admitted = Cardinality(Gauged)
    /\ arrived = counted + panics + Cardinality(Busy)

IInv == Tracked /\ Accounted

-----------------------------------------------------------------------------
(***************************************************************************)
(* The observed ledger.                                                    *)
(***************************************************************************)

LEMMA ObservedInitOK == ObservedInit => Tracked
  <1> SUFFICES ASSUME ObservedInit PROVE Tracked
    OBVIOUS
  <1>1. DOMAIN active = {} /\ InLedger = {}
    BY DEF ObservedInit, InLedger, NoCall
  <1>2. ObservedTypes
    BY <1>1 DEF ObservedInit, ObservedTypes, Call, NoCall, Zero
  <1>3. CallsHonest
    BY DEF ObservedInit, CallsHonest, NoCall
  <1>4. ListHonest /\ OldestHonest
    BY <1>1 DEF ObservedInit, ListHonest, OldestHonest, Zero
  <1>5. GaugeHonest
    BY <1>1, FS_EmptySet DEF ObservedInit, GaugeHonest
  <1> QED
    BY <1>2, <1>3, <1>4, <1>5 DEF Tracked

\* A step that leaves the list and the registered calls alone.
LEMMA ListUntouched ==
    ASSUME Tracked, UNCHANGED trackerVars, clock' \in Nat \ {0},
           call' \in [Goroutines -> Call], probe' \in [Goroutines -> Nat],
           CallsHonest', InLedger' = InLedger,
           \A g \in InLedger : call'[g].id = call[g].id /\ call'[g].started = call[g].started
    PROVE  Tracked'
  <1>1. ObservedTypes'
    BY DEF Tracked, ObservedTypes, trackerVars
  <1>2. ListHonest'
    BY DEF Tracked, ListHonest, trackerVars
  <1>3. OldestHonest' /\ GaugeHonest'
    BY DEF Tracked, OldestHonest, GaugeHonest, trackerVars
  <1> QED
    BY <1>1, <1>2, <1>3 DEF Tracked

LEMMA TickOK == ASSUME Tracked, Tick PROVE Tracked'
  <1>1. clock' \in Nat \ {0} /\ call' = call /\ probe' = probe
    BY DEF Tracked, ObservedTypes, Tick
  <1>2. CallsHonest' /\ InLedger' = InLedger
    BY <1>1 DEF Tracked, CallsHonest, InLedger
  <1> QED
    BY <1>1, <1>2, ListUntouched DEF Tracked, ObservedTypes, Tick

LEMMA ReadStartOK ==
    ASSUME Tracked, NEW g \in Goroutines, ReadStart(g)
    PROVE  Tracked'
  <1>1. call' \in [Goroutines -> Call]
    BY DEF Tracked, ObservedTypes, ReadStart, Call, NoCall, Zero
  <1>2. CallsHonest'
    BY DEF Tracked, ObservedTypes, CallsHonest, ReadStart, NoCall, Zero
  <1>3. InLedger' = InLedger /\ g \notin InLedger
    BY DEF Tracked, ObservedTypes, ReadStart, NoCall, Zero, InLedger
  <1>4. \A h \in InLedger : call'[h] = call[h]
    BY <1>3 DEF Tracked, ObservedTypes, ReadStart, InLedger
  <1> QED
    BY <1>1, <1>2, <1>3, <1>4, ListUntouched DEF Tracked, ObservedTypes, ReadStart

\* Whatever order calls register in, the oldest is the least of the list.
LEMMA RegisterOK ==
    ASSUME Tracked, NEW g \in Goroutines, Register(g)
    PROVE  Tracked'
  <1> DEFINE id == nextID + 1
             started == call[g].started
  <1>1. /\ nextID \in Nat /\ id \in Nat /\ id \notin DOMAIN active /\ id # 0
        /\ started \in Nat /\ started # 0
        /\ DOMAIN active' = DOMAIN active \cup {id}
        /\ active'[id] = started
        /\ \A i \in DOMAIN active : active'[i] = active[i] /\ i # id /\ i \in Nat /\ i # 0
    BY DEF Tracked, ObservedTypes, CallsHonest, Register, Call
  <1>2. /\ call' \in [Goroutines -> Call]
        /\ call'[g].pc = "waiting" /\ call'[g].id = id /\ call'[g].started = started
        /\ \A h \in Goroutines \ {g} : call'[h] = call[h]
    <2> DEFINE c == [call[g] EXCEPT !.pc = "waiting", !.id = id]
    <2>1. call \in [Goroutines -> Call] /\ call[g] \in Call
      BY DEF Tracked, ObservedTypes
    <2>2. c \in Call /\ c.pc = "waiting" /\ c.id = id /\ c.started = started
      BY <1>1, <2>1 DEF Call
    <2>3. call' = [call EXCEPT ![g] = c]
      BY <2>1 DEF Register, Call
    <2> HIDE DEF c, id, started
    <2> QED
      BY <2>1, <2>2, <2>3
  <1>3. g \notin InLedger /\ InLedger' = InLedger \cup {g}
    BY <1>2 DEF Register, InLedger
  <1>4. ObservedTypes'
    BY <1>1, <1>2 DEF Tracked, ObservedTypes, Register
  <1>5. CallsHonest'
    BY <1>1, <1>2 DEF Tracked, CallsHonest
  <1>6. ListHonest'
    <2>1. \A h \in InLedger : call[h].id \in DOMAIN active /\ active[call[h].id] = call[h].started
      BY DEF Tracked, ListHonest
    <2>2. \A h \in InLedger : call'[h] = call[h] /\ call[h].id # id
      BY <1>1, <1>2, <1>3, <2>1 DEF InLedger
    <2>3. \A h \in InLedger' :
              call'[h].id \in DOMAIN active' /\ active'[call'[h].id] = call'[h].started
      BY <1>1, <1>2, <1>3, <2>1, <2>2
    <2>4. \A i \in DOMAIN active' : \E h \in InLedger' : call'[h].id = i
      BY <1>1, <1>2, <1>3, <2>2 DEF Tracked, ListHonest
    <2>5. \A h, k \in InLedger' : call'[h].id = call'[k].id => h = k
      BY <1>2, <1>3, <2>2 DEF Tracked, ListHonest
    <2> QED
      BY <2>3, <2>4, <2>5 DEF ListHonest
  <1>7. \A i \in DOMAIN active : active[i] \in Nat /\ active[i] # 0
    <2> SUFFICES ASSUME NEW i \in DOMAIN active PROVE active[i] \in Nat /\ active[i] # 0
      OBVIOUS
    <2>1. PICK h \in InLedger : call[h].id = i
      BY DEF Tracked, ListHonest
    <2>2. active[i] = call[h].started /\ h \in Goroutines /\ call[h].pc # "none"
      BY <2>1 DEF Tracked, ListHonest, InLedger
    <2> QED
      BY <2>2 DEF Tracked, ObservedTypes, CallsHonest, Call
  <1>8. OldestHonest'
    <2>1. CASE IsOldest(started)
      <3>1. oldestID' = id /\ oldestStarted' = started
        BY <2>1 DEF Register
      <3>2. \A i \in DOMAIN active : started <= active[i]
        BY <1>1, <1>7, <2>1 DEF IsOldest, Zero, Tracked, OldestHonest, ObservedTypes
      <3> QED
        BY <1>1, <3>1, <3>2 DEF OldestHonest
    <2>2. CASE ~IsOldest(started)
      <3>1. oldestID' = oldestID /\ oldestStarted' = oldestStarted
        BY <2>2 DEF Register
      <3>2. oldestStarted # 0 /\ oldestStarted <= started
        BY <1>1, <2>2 DEF IsOldest, Zero, Tracked, ObservedTypes
      <3>3. /\ oldestID \in DOMAIN active
            /\ oldestStarted = active[oldestID]
            /\ \A i \in DOMAIN active : oldestStarted <= active[i]
        BY <3>2 DEF Tracked, OldestHonest
      <3> QED
        BY <1>1, <3>1, <3>2, <3>3 DEF OldestHonest
    <2> QED
      BY <2>1, <2>2
  <1>9. GaugeHonest'
    BY DEF Register, GaugeHonest
  <1> QED
    BY <1>4, <1>5, <1>6, <1>8, <1>9 DEF Tracked

LEMMA ReturnOK ==
    ASSUME Tracked, NEW g \in Goroutines, NEW failed \in BOOLEAN, Return(g, failed)
    PROVE  Tracked'
  <1> DEFINE c == [call[g] EXCEPT !.pc = "returned", !.completed = clock, !.failed = failed]
  <1>a. call \in [Goroutines -> Call] /\ call[g] \in Call /\ clock \in Nat
    BY DEF Tracked, ObservedTypes
  <1>b. /\ c \in Call /\ c.pc = "returned"
        /\ c.id = call[g].id /\ c.started = call[g].started
    BY <1>a DEF Call
  <1>c. call' = [call EXCEPT ![g] = c]
    BY <1>a DEF Return, Call
  <1> HIDE DEF c
  <1>1. call' \in [Goroutines -> Call]
    BY <1>a, <1>b, <1>c
  <1>2. /\ call'[g].pc = "returned" /\ call'[g].id = call[g].id
        /\ call'[g].started = call[g].started
        /\ \A h \in Goroutines \ {g} : call'[h] = call[h]
    BY <1>a, <1>b, <1>c
  <1>3. CallsHonest'
    BY <1>2 DEF Tracked, CallsHonest, Return
  <1>4. InLedger' = InLedger
    BY <1>2 DEF InLedger, Return
  <1>5. \A h \in InLedger : call'[h].id = call[h].id /\ call'[h].started = call[h].started
    BY <1>2 DEF InLedger
  <1> QED
    BY <1>1, <1>3, <1>4, <1>5, ListUntouched DEF Tracked, ObservedTypes, Return

\* Removing the oldest call leaves the least of the others; removing another
\* one leaves the oldest where it is.
LEMMA UnregisterOK ==
    ASSUME Tracked, NEW g \in Goroutines, Unregister(g)
    PROVE  Tracked'
  <1> DEFINE id == call[g].id
  <1>1. /\ DOMAIN active' = DOMAIN active \ {id}
        /\ \A i \in DOMAIN active' : active'[i] = active[i]
        /\ clock' = clock /\ nextID' = nextID /\ probe' = probe
    BY DEF Unregister
  <1>2. /\ call' \in [Goroutines -> Call]
        /\ call'[g] = NoCall
        /\ \A h \in Goroutines \ {g} : call'[h] = call[h]
    BY DEF Tracked, ObservedTypes, Unregister, Call, NoCall, Zero
  <1>3. g \in InLedger /\ InLedger' = InLedger \ {g}
    BY <1>2 DEF Unregister, InLedger, NoCall
  <1>4. CallsHonest'
    BY <1>2 DEF Tracked, CallsHonest, NoCall
  <1>5. ListHonest'
    BY <1>1, <1>2, <1>3 DEF Tracked, ListHonest, InLedger
  <1>6. \A i \in DOMAIN active : active[i] \in Nat
    <2> SUFFICES ASSUME NEW i \in DOMAIN active PROVE active[i] \in Nat
      OBVIOUS
    <2>1. PICK h \in InLedger : call[h].id = i
      BY DEF Tracked, ListHonest
    <2>2. active[i] = call[h].started /\ h \in Goroutines
      BY <2>1 DEF Tracked, ListHonest, InLedger
    <2> QED
      BY <2>2 DEF Tracked, ObservedTypes, Call
  <1>7. OldestHonest' /\ oldestID' \in Nat /\ oldestStarted' \in Nat
    <2>1. CASE id = oldestID
      <3>1. FindOldest
        BY <2>1 DEF Unregister
      <3>2. CASE DOMAIN active' = {}
        BY <3>1, <3>2 DEF FindOldest, OldestHonest, Zero
      <3>3. CASE DOMAIN active' # {}
        <4>1. PICK i \in DOMAIN active' :
                  /\ \A j \in DOMAIN active' : active'[i] <= active'[j]
                  /\ oldestID' = i
                  /\ oldestStarted' = active'[i]
          BY <3>1, <3>3 DEF FindOldest
        <4>2. OldestHonest'
          BY <4>1 DEF OldestHonest
        <4>3. i \in Nat /\ active'[i] \in Nat
          BY <1>1, <1>6 DEF Tracked, ObservedTypes
        <4> QED
          BY <4>1, <4>2, <4>3
      <3> QED
        BY Zenon, <3>2, <3>3
    <2>2. CASE id # oldestID
      <3>1. oldestID' = oldestID /\ oldestStarted' = oldestStarted
        BY <2>2 DEF Unregister
      <3>2. id \in DOMAIN active
        BY <1>3 DEF Tracked, ListHonest
      <3>3. OldestHonest'
        BY <1>1, <2>2, <3>1, <3>2 DEF Tracked, OldestHonest
      <3> QED
        BY <3>1, <3>3 DEF Tracked, ObservedTypes
    <2> QED
      BY <2>1, <2>2
  <1>8. ObservedTypes'
    BY <1>1, <1>2, <1>7 DEF Tracked, ObservedTypes
  <1>9. GaugeHonest'
    BY DEF Unregister, GaugeHonest
  <1> QED
    BY <1>4, <1>5, <1>7, <1>8, <1>9 DEF Tracked

\* Health changes nothing but what its caller remembers.
LEMMA ProbeOK ==
    ASSUME Tracked, NEW g \in Goroutines,
           ReadNow(g) \/ \E ready \in BOOLEAN : Health(g, ready)
    PROVE  Tracked'
  <1>1. /\ probe' \in [Goroutines -> Nat]
        /\ clock' = clock /\ call' = call /\ UNCHANGED trackerVars
    BY DEF Tracked, ObservedTypes, ReadNow, Health, Zero
  <1>2. CallsHonest' /\ InLedger' = InLedger
    BY <1>1 DEF Tracked, CallsHonest, InLedger
  <1> QED
    BY <1>1, <1>2, ListUntouched DEF Tracked, ObservedTypes

LEMMA ObservedUnchanged == ASSUME Tracked, UNCHANGED observedVars PROVE Tracked'
  <1>1. /\ clock' = clock /\ call' = call /\ probe' = probe /\ UNCHANGED trackerVars
    BY DEF observedVars
  <1>2. CallsHonest' /\ InLedger' = InLedger
    BY <1>1 DEF Tracked, CallsHonest, InLedger
  <1> QED
    BY <1>1, <1>2, ListUntouched DEF Tracked, ObservedTypes

-----------------------------------------------------------------------------
(***************************************************************************)
(* The requests.                                                           *)
(***************************************************************************)

\* By how much the number of goroutines at the places S grows when one goes from
\* one place to another.
Change(S, from, to) ==
    IF to \in S /\ from \notin S THEN 1 ELSE IF from \in S /\ to \notin S THEN -1 ELSE 0

At(S) == {g \in Goroutines : pc[g] \in S}

LEMMA Moves ==
    ASSUME NEW S, NEW from, NEW to, NEW g \in Goroutines, pc \in [Goroutines -> PCs],
           IsFiniteSet(At(S)), Goto(g, from, to)
    PROVE  /\ IsFiniteSet(At(S)')
           /\ Cardinality(At(S)') = Cardinality(At(S)) + Change(S, from, to)
           /\ Cardinality(At(S)) \in Nat
           /\ Cardinality(At(S)') \in Nat
  <1>1. Cardinality(At(S)) \in Nat
    BY FS_CardinalityType
  <1>2. pc[g] = from /\ pc'[g] = to /\ \A h \in Goroutines \ {g} : pc'[h] = pc[h]
    BY DEF Goto
  <1>3. CASE to \in S /\ from \notin S
    <2>1. At(S)' = At(S) \cup {g} /\ g \notin At(S)
      BY <1>2, <1>3 DEF At
    <2>2. IsFiniteSet(At(S) \cup {g}) /\ Cardinality(At(S) \cup {g}) = Cardinality(At(S)) + 1
      BY <2>1, FS_AddElement
    <2> QED
      BY <1>1, <1>3, <2>1, <2>2 DEF Change
  <1>4. CASE from \in S /\ to \notin S
    <2>1. At(S)' = At(S) \ {g} /\ g \in At(S)
      BY <1>2, <1>4 DEF At
    <2>2. IsFiniteSet(At(S) \ {g}) /\ Cardinality(At(S) \ {g}) = Cardinality(At(S)) - 1
      BY <2>1, FS_RemoveElement
    <2>3. Cardinality(At(S) \ {g}) \in Nat
      BY <2>2, FS_CardinalityType
    <2> QED
      BY <1>1, <1>4, <2>1, <2>2, <2>3 DEF Change
  <1>5. CASE to \in S <=> from \in S
    <2>1. At(S)' = At(S)
      BY <1>2, <1>5 DEF At
    <2> QED
      BY <1>1, <1>5, <2>1 DEF Change
  <1> QED
    BY <1>3, <1>4, <1>5

HolderPCs == {"entering", "serving", "leaving"}

GaugedPCs == {"serving", "leaving", "left"}

BusyPCs == PCs \ {"idle"}

\* What a step from one place to another does to the three counts.
LEMMA GotoFacts ==
    ASSUME Accounted, NEW g \in Goroutines, NEW from \in PCs, NEW to \in PCs, Goto(g, from, to)
    PROVE  /\ pc' \in [Goroutines -> PCs]
           /\ pc[g] = from /\ pc'[g] = to
           /\ \A h \in Goroutines \ {g} : pc'[h] = pc[h]
           /\ IsFiniteSet(Holders') /\ IsFiniteSet(Gauged') /\ IsFiniteSet(Busy')
           /\ Cardinality(Holders) \in Nat /\ Cardinality(Holders') \in Nat
           /\ Cardinality(Gauged) \in Nat /\ Cardinality(Gauged') \in Nat
           /\ Cardinality(Busy) \in Nat /\ Cardinality(Busy') \in Nat
           /\ Cardinality(Holders') = Cardinality(Holders) + Change(HolderPCs, from, to)
           /\ Cardinality(Gauged') = Cardinality(Gauged) + Change(GaugedPCs, from, to)
           /\ Cardinality(Busy') = Cardinality(Busy) + Change(BusyPCs, from, to)
  <1>1. /\ pc' \in [Goroutines -> PCs]
        /\ pc[g] = from /\ pc'[g] = to
        /\ \A h \in Goroutines \ {g} : pc'[h] = pc[h]
        /\ pc \in [Goroutines -> PCs]
    BY DEF Accounted, Goto
  <1>2. Holders = At(HolderPCs) /\ Holders' = At(HolderPCs)'
    BY DEF Holders, At, HolderPCs
  <1>3. Gauged = At(GaugedPCs) /\ Gauged' = At(GaugedPCs)'
    BY DEF Gauged, At, GaugedPCs
  <1>4. Busy = At(BusyPCs) /\ Busy' = At(BusyPCs)'
    BY <1>1 DEF Busy, At, BusyPCs
  <1>5. IsFiniteSet(At(HolderPCs)) /\ IsFiniteSet(At(GaugedPCs)) /\ IsFiniteSet(At(BusyPCs))
    BY <1>2, <1>3, <1>4 DEF Accounted
  <1>6. /\ IsFiniteSet(At(HolderPCs)')
        /\ Cardinality(At(HolderPCs)') = Cardinality(At(HolderPCs)) + Change(HolderPCs, from, to)
        /\ Cardinality(At(HolderPCs)) \in Nat /\ Cardinality(At(HolderPCs)') \in Nat
    BY <1>1, <1>5, Moves
  <1>7. /\ IsFiniteSet(At(GaugedPCs)')
        /\ Cardinality(At(GaugedPCs)') = Cardinality(At(GaugedPCs)) + Change(GaugedPCs, from, to)
        /\ Cardinality(At(GaugedPCs)) \in Nat /\ Cardinality(At(GaugedPCs)') \in Nat
    BY <1>1, <1>5, Moves
  <1>8. /\ IsFiniteSet(At(BusyPCs)')
        /\ Cardinality(At(BusyPCs)') = Cardinality(At(BusyPCs)) + Change(BusyPCs, from, to)
        /\ Cardinality(At(BusyPCs)) \in Nat /\ Cardinality(At(BusyPCs)') \in Nat
    BY <1>1, <1>5, Moves
  <1> QED
    BY <1>1, <1>2, <1>3, <1>4, <1>6, <1>7, <1>8

\* A step of one request that moves it from one place to another and leaves the
\* ledger calls alone.
LEMMA MoveOK ==
    ASSUME Accounted, NEW g \in Goroutines, NEW from \in PCs, NEW to \in PCs,
           Goto(g, from, to), call' = call, from = "serving" => call[g].pc = "none",
           panicking' \subseteq Goroutines, rejected' \in [Reasons -> Nat],
           counted' \in Nat, arrived' \in Nat, panics' \in Nat,
           slots' = slots + Change(HolderPCs, from, to), slots' <= MaxConcurrent,
           admitted' = admitted + Change(GaugedPCs, from, to),
           arrived' = arrived + (counted' - counted) + (panics' - panics)
                              + Change(BusyPCs, from, to)
    PROVE  Accounted'
  <1>1. /\ pc' \in [Goroutines -> PCs]
        /\ pc[g] = from /\ pc'[g] = to
        /\ \A h \in Goroutines \ {g} : pc'[h] = pc[h]
        /\ IsFiniteSet(Holders') /\ IsFiniteSet(Gauged') /\ IsFiniteSet(Busy')
        /\ Cardinality(Busy) \in Nat /\ Cardinality(Busy') \in Nat
        /\ Cardinality(Holders') = Cardinality(Holders) + Change(HolderPCs, from, to)
        /\ Cardinality(Gauged') = Cardinality(Gauged) + Change(GaugedPCs, from, to)
        /\ Cardinality(Busy') = Cardinality(Busy) + Change(BusyPCs, from, to)
    BY GotoFacts
  <1>2. \A h \in Goroutines : call'[h].pc # "none" => pc'[h] = "serving"
    BY <1>1 DEF Accounted
  <1>3. slots' = Cardinality(Holders')
    BY <1>1 DEF Accounted
  <1>4. admitted' = Cardinality(Gauged')
    BY <1>1 DEF Accounted
  <1>5. Change(BusyPCs, from, to) \in Int
    BY DEF Change
  <1>6. arrived' = counted' + panics' + Cardinality(Busy')
    BY <1>1, <1>5 DEF Accounted
  <1> QED
    BY <1>1, <1>2, <1>3, <1>4, <1>6 DEF Accounted

\* A step that moves no request and only changes the calls of those served.
LEMMA StayOK ==
    ASSUME Accounted, UNCHANGED <<pc, gateVars, counted, arrived, panics>>,
           panicking' \subseteq Goroutines,
           \A g \in Goroutines : call'[g].pc # "none" => pc[g] = "serving"
    PROVE  Accounted'
  <1>1. pc' = pc /\ Holders' = Holders /\ Gauged' = Gauged /\ Busy' = Busy
    BY DEF Holders, Gauged, Busy
  <1> QED
    BY <1>1 DEF Accounted, gateVars

-----------------------------------------------------------------------------
(***************************************************************************)
(* The actions.                                                            *)
(***************************************************************************)

\* The counters are numbers.
LEMMA Numbers ==
    ASSUME Accounted
    PROVE  /\ slots \in Nat /\ admitted \in Nat /\ slots <= MaxConcurrent
           /\ counted \in Nat /\ arrived \in Nat /\ panics \in Nat
           /\ panicking \subseteq Goroutines
           /\ rejected \in [Reasons -> Nat]
           /\ \A reason \in Reasons : [rejected EXCEPT ![reason] = @ + 1] \in [Reasons -> Nat]
  <1>1. slots \in Nat /\ admitted \in Nat
    BY FS_CardinalityType DEF Accounted
  <1> QED
    BY <1>1 DEF Accounted

LEMMA ArriveOK ==
    ASSUME IInv, NEW g \in Goroutines, NEW entry \in {"probing", "asking"}, Arrive(g, entry)
    PROVE  IInv'
  <1>1. /\ Change(HolderPCs, "idle", entry) = 0
        /\ Change(GaugedPCs, "idle", entry) = 0
        /\ Change(BusyPCs, "idle", entry) = 1
        /\ "idle" \in PCs /\ entry \in PCs
    BY DEF Change, HolderPCs, GaugedPCs, BusyPCs, PCs
  <1>2. Goto(g, "idle", entry) /\ call' = call
    BY DEF Arrive, ReadNow
  <1>3. Accounted'
    BY <1>1, <1>2, Numbers, MoveOK DEF IInv, Arrive, gateVars
  <1>4. Tracked'
    BY ProbeOK DEF IInv, Arrive
  <1> QED
    BY <1>3, <1>4 DEF IInv

LEMMA CheckLedgerOK ==
    ASSUME IInv, NEW g \in Goroutines, CheckLedger(g)
    PROVE  IInv'
  <1>1. /\ Change(HolderPCs, "probing", "cleared") = 0
        /\ Change(GaugedPCs, "probing", "cleared") = 0
        /\ Change(BusyPCs, "probing", "cleared") = 0
        /\ "probing" \in PCs /\ "cleared" \in PCs
    BY DEF Change, HolderPCs, GaugedPCs, BusyPCs, PCs
  <1>2. /\ Change(HolderPCs, "probing", "answered") = 0
        /\ Change(GaugedPCs, "probing", "answered") = 0
        /\ Change(BusyPCs, "probing", "answered") = 0
        /\ "probing" \in PCs /\ "answered" \in PCs
    BY DEF Change, HolderPCs, GaugedPCs, BusyPCs, PCs
  <1>3. CASE Goto(g, "probing", "cleared") /\ Health(g, TRUE) /\ UNCHANGED rejected
    <2>1. call' = call
      BY <1>3 DEF Health
    <2>2. Accounted'
      BY <1>1, <1>3, <2>1, Numbers, MoveOK DEF IInv, CheckLedger
    <2>3. Tracked'
      BY <1>3, ProbeOK DEF IInv
    <2> QED
      BY <2>2, <2>3 DEF IInv
  <1>4. CASE Goto(g, "probing", "answered") /\ Health(g, FALSE) /\ Reject("ledger_stalled")
    <2>1. call' = call /\ rejected' \in [Reasons -> Nat]
      BY <1>4, Numbers DEF Health, Reject, Reasons, IInv
    <2>2. Accounted'
      BY <1>2, <1>4, <2>1, Numbers, MoveOK DEF IInv, CheckLedger
    <2>3. Tracked'
      BY <1>4, ProbeOK DEF IInv
    <2> QED
      BY <2>2, <2>3 DEF IInv
  <1> QED
    BY <1>3, <1>4 DEF CheckLedger

LEMMA ReportReadyOK ==
    ASSUME IInv, NEW g \in Goroutines, ReportReady(g)
    PROVE  IInv'
  <1>1. /\ Change(HolderPCs, "asking", "answered") = 0
        /\ Change(GaugedPCs, "asking", "answered") = 0
        /\ Change(BusyPCs, "asking", "answered") = 0
        /\ "asking" \in PCs /\ "answered" \in PCs
    BY DEF Change, HolderPCs, GaugedPCs, BusyPCs, PCs
  <1>2. Goto(g, "asking", "answered") /\ call' = call
    BY DEF ReportReady, Health
  <1>3. Accounted'
    BY <1>1, <1>2, Numbers, MoveOK, FrontDoorAssumption DEF IInv, ReportReady, gateVars
  <1>4. Tracked'
    BY ProbeOK DEF IInv, ReportReady
  <1> QED
    BY <1>3, <1>4 DEF IInv

LEMMA TakeSlotOK ==
    ASSUME IInv, NEW g \in Goroutines, TakeSlot(g)
    PROVE  IInv'
  <1>1. /\ Change(HolderPCs, "cleared", "entering") = 1
        /\ Change(GaugedPCs, "cleared", "entering") = 0
        /\ Change(BusyPCs, "cleared", "entering") = 0
        /\ "cleared" \in PCs /\ "entering" \in PCs
    BY DEF Change, HolderPCs, GaugedPCs, BusyPCs, PCs
  <1>2. /\ Change(HolderPCs, "cleared", "answered") = 0
        /\ Change(GaugedPCs, "cleared", "answered") = 0
        /\ Change(BusyPCs, "cleared", "answered") = 0
        /\ "cleared" \in PCs /\ "answered" \in PCs
    BY DEF Change, HolderPCs, GaugedPCs, BusyPCs, PCs
  <1>3. call' = call /\ Tracked'
    BY ObservedUnchanged DEF TakeSlot, observedVars, IInv
  <1>4. CASE /\ Goto(g, "cleared", "entering") /\ slots < MaxConcurrent
             /\ slots' = slots + 1 /\ UNCHANGED rejected
    <2>1. slots' <= MaxConcurrent
      BY <1>4, Numbers, FrontDoorAssumption DEF IInv
    <2> QED
      BY <1>1, <1>3, <1>4, <2>1, Numbers, MoveOK DEF IInv, TakeSlot
  <1>5. CASE Goto(g, "cleared", "answered") /\ Reject("capacity") /\ UNCHANGED slots
    <2>1. rejected' \in [Reasons -> Nat]
      BY <1>5, Numbers DEF Reject, Reasons, IInv
    <2> QED
      BY <1>2, <1>3, <1>5, <2>1, Numbers, MoveOK DEF IInv, TakeSlot
  <1> QED
    BY <1>4, <1>5 DEF TakeSlot

LEMMA BeginAdmissionOK ==
    ASSUME IInv, NEW g \in Goroutines, BeginAdmission(g)
    PROVE  IInv'
  <1>1. /\ Change(HolderPCs, "entering", "serving") = 0
        /\ Change(GaugedPCs, "entering", "serving") = 1
        /\ Change(BusyPCs, "entering", "serving") = 0
        /\ "entering" \in PCs /\ "serving" \in PCs
    BY DEF Change, HolderPCs, GaugedPCs, BusyPCs, PCs
  <1>2. Goto(g, "entering", "serving") /\ call' = call
    BY DEF BeginAdmission, observedVars
  <1>3. Accounted'
    BY <1>1, <1>2, Numbers, MoveOK, FrontDoorAssumption DEF IInv, BeginAdmission, gateVars
  <1>4. Tracked'
    BY ObservedUnchanged DEF IInv, BeginAdmission
  <1> QED
    BY <1>3, <1>4 DEF IInv

LEMMA BeginCallOK ==
    ASSUME IInv, NEW g \in Goroutines, BeginCall(g)
    PROVE  IInv'
  <1>1. pc[g] = "serving" /\ \A h \in Goroutines \ {g} : call'[h] = call[h]
    BY DEF IInv, Accounted, Tracked, ObservedTypes, BeginCall, ReadStart
  <1>2. panicking' \subseteq Goroutines
    BY Numbers DEF BeginCall, IInv
  <1>3. Accounted'
    BY <1>1, <1>2, StayOK DEF IInv, Accounted, BeginCall, gateVars
  <1>4. Tracked'
    BY ReadStartOK DEF IInv, BeginCall
  <1> QED
    BY <1>3, <1>4 DEF IInv

LEMMA RegisterCallOK ==
    ASSUME IInv, NEW g \in Goroutines, RegisterCall(g)
    PROVE  IInv'
  <1>1. pc[g] = "serving" /\ \A h \in Goroutines \ {g} : call'[h] = call[h]
    BY DEF IInv, Accounted, Tracked, ObservedTypes, RegisterCall, Register
  <1>2. panicking' \subseteq Goroutines
    BY Numbers DEF RegisterCall, IInv
  <1>3. Accounted'
    BY <1>1, <1>2, StayOK DEF IInv, Accounted, RegisterCall, gateVars
  <1>4. Tracked'
    BY RegisterOK DEF IInv, RegisterCall
  <1> QED
    BY <1>3, <1>4 DEF IInv

LEMMA LedgerReturnsOK ==
    ASSUME IInv, NEW g \in Goroutines, LedgerReturns(g)
    PROVE  IInv'
  <1>1. pc[g] = "serving" /\ \A h \in Goroutines \ {g} : call'[h] = call[h]
    BY DEF IInv, Accounted, Tracked, ObservedTypes, LedgerReturns, Return
  <1>2. panicking' \subseteq Goroutines
    BY Numbers DEF LedgerReturns, IInv
  <1>3. Accounted'
    BY <1>1, <1>2, StayOK DEF IInv, Accounted, LedgerReturns, gateVars
  <1>4. Tracked'
    BY ReturnOK DEF IInv, LedgerReturns
  <1> QED
    BY <1>3, <1>4 DEF IInv

LEMMA CallPanicsOK ==
    ASSUME IInv, NEW g \in Goroutines, CallPanics(g)
    PROVE  IInv'
  <1>1. pc[g] = "serving" /\ \A h \in Goroutines \ {g} : call'[h] = call[h]
    BY DEF IInv, Accounted, Tracked, ObservedTypes, CallPanics, Return
  <1>2. panicking' \subseteq Goroutines
    BY Numbers DEF CallPanics, IInv
  <1>3. Accounted'
    BY <1>1, <1>2, StayOK DEF IInv, Accounted, CallPanics, gateVars
  <1>4. Tracked'
    BY ReturnOK DEF IInv, CallPanics
  <1> QED
    BY <1>3, <1>4 DEF IInv

LEMMA EndCallOK ==
    ASSUME IInv, NEW g \in Goroutines, EndCall(g)
    PROVE  IInv'
  <1>1. /\ Change(HolderPCs, "serving", "leaving") = 0
        /\ Change(GaugedPCs, "serving", "leaving") = 0
        /\ Change(BusyPCs, "serving", "leaving") = 0
        /\ "serving" \in PCs /\ "leaving" \in PCs
    BY DEF Change, HolderPCs, GaugedPCs, BusyPCs, PCs
  <1>2. /\ pc[g] = "serving" /\ call'[g].pc = "none"
        /\ \A h \in Goroutines \ {g} : call'[h] = call[h]
    BY DEF IInv, Accounted, Tracked, ObservedTypes, EndCall, Unregister, NoCall
  <1>3. Accounted'
    <2>1. CASE g \in panicking
      <3>1. Goto(g, "serving", "leaving")
        BY <1>2, <2>1 DEF EndCall, Goto
      <3>2. /\ pc' \in [Goroutines -> PCs]
            /\ \A h \in Goroutines \ {g} : pc'[h] = pc[h]
            /\ IsFiniteSet(Holders') /\ IsFiniteSet(Gauged') /\ IsFiniteSet(Busy')
            /\ Cardinality(Holders') = Cardinality(Holders)
            /\ Cardinality(Gauged') = Cardinality(Gauged)
            /\ Cardinality(Busy') = Cardinality(Busy)
        BY <1>1, <3>1, GotoFacts DEF IInv
      <3> QED
        BY <1>2, <3>2 DEF IInv, Accounted, EndCall, gateVars
    <2>2. CASE g \notin panicking
      <3>1. pc' = pc
        BY <2>2 DEF EndCall, IInv, Accounted
      <3> QED
        <4>1. \A h \in Goroutines : call'[h].pc # "none" => pc[h] = "serving"
          BY <1>2 DEF IInv, Accounted
        <4>2. /\ panicking' \subseteq Goroutines
              /\ UNCHANGED <<pc, gateVars, counted, arrived, panics>>
          BY <3>1, Numbers DEF IInv, EndCall
        <4> QED
          BY Zenon, <4>1, <4>2, StayOK DEF IInv
    <2> QED
      BY <2>1, <2>2
  <1>4. Tracked'
    BY UnregisterOK DEF IInv, EndCall
  <1> QED
    BY <1>3, <1>4 DEF IInv

LEMMA EndHandlerOK ==
    ASSUME IInv, NEW g \in Goroutines, EndHandler(g)
    PROVE  IInv'
  <1>1. /\ Change(HolderPCs, "serving", "leaving") = 0
        /\ Change(GaugedPCs, "serving", "leaving") = 0
        /\ Change(BusyPCs, "serving", "leaving") = 0
        /\ "serving" \in PCs /\ "leaving" \in PCs
    BY DEF Change, HolderPCs, GaugedPCs, BusyPCs, PCs
  <1>2. /\ Goto(g, "serving", "leaving") /\ call' = call /\ call[g].pc = "none"
        /\ panicking' \subseteq Goroutines
    <2>1. Goto(g, "serving", "leaving") /\ call' = call /\ call[g].pc = "none"
      BY DEF EndHandler, observedVars, NoCall
    <2>2. panicking \subseteq Goroutines
      BY Zenon, Numbers DEF IInv
    <2>3. panicking' \in {panicking, panicking \cup {g}}
      BY Zenon DEF EndHandler
    <2> QED
      BY <2>1, <2>2, <2>3
  <1>3. Accounted'
    BY <1>1, <1>2, Numbers, MoveOK DEF IInv, EndHandler, gateVars
  <1>4. Tracked'
    BY ObservedUnchanged DEF IInv, EndHandler
  <1> QED
    BY <1>3, <1>4 DEF IInv

LEMMA ReleaseSlotOK ==
    ASSUME IInv, NEW g \in Goroutines, ReleaseSlot(g)
    PROVE  IInv'
  <1>1. /\ Change(HolderPCs, "leaving", "left") = -1
        /\ Change(GaugedPCs, "leaving", "left") = 0
        /\ Change(BusyPCs, "leaving", "left") = 0
        /\ "leaving" \in PCs /\ "left" \in PCs
    BY DEF Change, HolderPCs, GaugedPCs, BusyPCs, PCs
  <1>2. Goto(g, "leaving", "left") /\ call' = call
    BY DEF ReleaseSlot, observedVars
  <1>3. Accounted'
    BY <1>1, <1>2, Numbers, MoveOK, FrontDoorAssumption DEF IInv, ReleaseSlot, gateVars
  <1>4. Tracked'
    BY ObservedUnchanged DEF IInv, ReleaseSlot
  <1> QED
    BY <1>3, <1>4 DEF IInv

LEMMA EndAdmissionOK ==
    ASSUME IInv, NEW g \in Goroutines, EndAdmission(g)
    PROVE  IInv'
  <1>1. /\ Change(HolderPCs, "left", "answered") = 0
        /\ Change(GaugedPCs, "left", "answered") = -1
        /\ Change(BusyPCs, "left", "answered") = 0
        /\ "left" \in PCs /\ "answered" \in PCs
    BY DEF Change, HolderPCs, GaugedPCs, BusyPCs, PCs
  <1>2. Goto(g, "left", "answered") /\ call' = call
    BY DEF EndAdmission, observedVars
  <1>3. Accounted'
    BY <1>1, <1>2, Numbers, MoveOK, FrontDoorAssumption DEF IInv, EndAdmission, gateVars
  <1>4. Tracked'
    BY ObservedUnchanged DEF IInv, EndAdmission
  <1> QED
    BY <1>3, <1>4 DEF IInv

LEMMA CountOK ==
    ASSUME IInv, NEW g \in Goroutines, Count(g) \/ Recover(g)
    PROVE  IInv'
  <1>1. /\ Change(HolderPCs, "answered", "idle") = 0
        /\ Change(GaugedPCs, "answered", "idle") = 0
        /\ Change(BusyPCs, "answered", "idle") = -1
        /\ "answered" \in PCs /\ "idle" \in PCs
    BY DEF Change, HolderPCs, GaugedPCs, BusyPCs, PCs
  <1>2. Goto(g, "answered", "idle") /\ call' = call /\ panicking' \subseteq Goroutines
    BY Numbers DEF Count, Recover, observedVars, IInv
  <1>3. /\ counted' \in Nat /\ panics' \in Nat
        /\ (counted' - counted) + (panics' - panics) = 1
    BY Numbers DEF Count, Recover, IInv
  <1>4. Accounted'
    BY <1>1, <1>2, <1>3, Numbers, MoveOK DEF IInv, Count, Recover, gateVars
  <1>5. Tracked'
    BY ObservedUnchanged DEF IInv, Count, Recover
  <1> QED
    BY <1>4, <1>5 DEF IInv

LEMMA InitOK == Init => IInv
  <1> SUFFICES ASSUME Init PROVE IInv
    OBVIOUS
  <1>1. Holders = {} /\ Gauged = {} /\ Busy = {}
    BY DEF Init, Holders, Gauged, Busy
  <1>2. Accounted
    BY <1>1, FS_EmptySet, FrontDoorAssumption
    DEF Init, Accounted, ObservedInit, NoCall, PCs, Reasons
  <1> QED
    BY <1>2, ObservedInitOK DEF Init, IInv

LEMMA NextOK == IInv /\ [Next]_vars => IInv'
  <1> SUFFICES ASSUME IInv, [Next]_vars PROVE IInv'
    OBVIOUS
  <1>1. CASE UNCHANGED vars
    <2>1. call' = call /\ UNCHANGED <<observedVars, pc, panicking, gateVars, counted, arrived, panics>>
      BY <1>1 DEF vars, observedVars
    <2> QED
      BY <2>1, StayOK, ObservedUnchanged DEF IInv, Accounted
  <1>2. CASE Pass
    <2>1. call' = call
      BY <1>2 DEF Pass, Tick
    <2> QED
      BY <1>2, <2>1, StayOK, TickOK DEF IInv, Accounted, Pass
  <1>3. ASSUME NEW g \in Goroutines, NEW entry \in {"probing", "asking"}, Arrive(g, entry)
        PROVE  IInv'
    BY <1>3, ArriveOK
  <1>4. ASSUME NEW g \in Goroutines, Proceed(g)
        PROVE  IInv'
    BY <1>4, CheckLedgerOK, ReportReadyOK, TakeSlotOK, BeginAdmissionOK, BeginCallOK,
       RegisterCallOK, LedgerReturnsOK, CallPanicsOK, EndCallOK, EndHandlerOK,
       ReleaseSlotOK, EndAdmissionOK, CountOK
    DEF Proceed, Serve, LedgerEnds
  <1> QED
    BY <1>1, <1>2, <1>3, <1>4 DEF Next

-----------------------------------------------------------------------------
(***************************************************************************)
(* The theorems.                                                           *)
(***************************************************************************)

\* The inductive invariant holds in every reachable state.
THEOREM Invariance == Spec => []IInv
  BY InitOK, NextOK, PTL DEF Spec

LEMMA TrackedOldest == Tracked => OldestTracked
  <1> SUFFICES ASSUME Tracked PROVE OldestTracked
    OBVIOUS
  <1>1. \A g \in InLedger :
            /\ call[g].started \in Nat /\ call[g].started # 0
            /\ call[g].id \in DOMAIN active /\ active[call[g].id] = call[g].started
    BY DEF Tracked, ObservedTypes, CallsHonest, ListHonest, InLedger, Call
  <1>2. CASE DOMAIN active = {} /\ oldestID = 0 /\ oldestStarted = 0
    BY <1>1, <1>2 DEF OldestTracked, Zero
  <1>3. CASE /\ oldestID \in DOMAIN active
             /\ oldestStarted = active[oldestID]
             /\ \A id \in DOMAIN active : oldestStarted <= active[id]
    <2>1. PICK g \in InLedger : call[g].id = oldestID
      BY <1>3 DEF Tracked, ListHonest
    <2>2. oldestStarted = call[g].started /\ oldestStarted # 0
      BY <1>1, <1>3, <2>1
    <2> QED
      BY <1>1, <1>3, <2>1, <2>2 DEF OldestTracked, Zero
  <1> QED
    BY <1>2, <1>3 DEF Tracked, OldestHonest

\* begin, the function it returns and findOldest of health.go keep the oldest
\* call exact under every interleaving of any number of calls.
THEOREM OldestAlwaysTracked == Spec => []OldestTracked
  <1>1. IInv => OldestTracked
    BY TrackedOldest DEF IInv
  <1> QED
    BY <1>1, Invariance, PTL

\* Health's verdict, by which admission turns requests away, is exact.
THEOREM StallAlwaysNoticed == Spec => StallNoticed
  <1> DEFINE Noticed ==
          \A g \in Goroutines : (pc[g] = "probing" /\ pc'[g] # "probing") =>
              (pc'[g] = "cleared" <=>
                   \A h \in InLedger : probe[g] - call[h].started < StallThreshold)
  <1>1. ASSUME IInv, NEW g \in Goroutines
        PROVE  Ready(g) <=> \A h \in InLedger : probe[g] - call[h].started < StallThreshold
    <2>1. OldestTracked
      BY <1>1, TrackedOldest DEF IInv
    <2>2. /\ probe[g] \in Nat /\ oldestStarted \in Nat
          /\ \A h \in InLedger : call[h].started \in Nat
      BY <1>1 DEF IInv, Tracked, ObservedTypes, InLedger, Call
    <2>3. CASE InLedger = {}
      BY <2>1, <2>3, ObservedAssumption DEF OldestTracked, Ready, Oldest
    <2>4. CASE InLedger # {}
      BY <2>1, <2>2, <2>4, ObservedAssumption DEF OldestTracked, Ready, Oldest
    <2> QED
      BY <2>3, <2>4
  <1>2. ASSUME IInv, Next PROVE Noticed
    <2> SUFFICES ASSUME NEW g \in Goroutines, pc[g] = "probing", pc'[g] # "probing"
                 PROVE  pc'[g] = "cleared" <=> Ready(g)
      BY <1>1, <1>2
    <2>1. ASSUME NEW h \in Goroutines, CheckLedger(h)
          PROVE  pc'[g] = "cleared" <=> Ready(g)
      BY <1>2, <2>1 DEF CheckLedger, Goto, Health, IInv, Accounted
    <2>2. ASSUME NEW h \in Goroutines, Proceed(h), ~CheckLedger(h)
          PROVE  FALSE
      <3>1. h # g => pc'[g] = pc[g]
        BY <1>2, <2>2
        DEF Proceed, Serve, LedgerEnds, Goto, ReportReady, TakeSlot, BeginAdmission, BeginCall, RegisterCall,
            LedgerReturns, CallPanics, EndCall, EndHandler, ReleaseSlot, EndAdmission, Count,
            Recover, IInv, Accounted
      <3>2. h = g
        BY <3>1
      <3> QED
        BY <1>2, <2>2, <3>2
        DEF Proceed, Serve, LedgerEnds, Goto, ReportReady, TakeSlot, BeginAdmission, BeginCall, RegisterCall,
            LedgerReturns, CallPanics, EndCall, Unregister, EndHandler, ReleaseSlot,
            EndAdmission, Count, Recover, IInv, Accounted
    <2>3. ASSUME NEW h \in Goroutines, NEW entry \in {"probing", "asking"}, Arrive(h, entry)
          PROVE  FALSE
      <3>1. pc[h] = "idle" /\ pc' = [pc EXCEPT ![h] = entry]
        BY Zenon, <2>3 DEF Arrive, Goto
      <3>2. h # g /\ pc \in [Goroutines -> PCs]
        BY <1>2, <3>1 DEF IInv, Accounted
      <3> QED
        BY <3>1, <3>2
    <2>4. ~Pass
      BY DEF Pass
    <2> QED
      BY <1>2, <2>1, <2>2, <2>3, <2>4 DEF Next
  <1>3. IInv /\ [Next]_vars => [Noticed]_vars
    <2> HIDE DEF Noticed
    <2> QED
      BY <1>2
  <1> QED
    BY <1>3, Invariance, PTL DEF Spec, StallNoticed

\* MAX_CONCURRENT_REQUESTS bounds the calls to the ledger, whatever the number
\* of requests: a call is only in flight for a request that has a slot.
THEOREM CallsAlwaysWithinSlots == Spec => []CallsWithinSlots
  <1>1. ASSUME IInv PROVE CallsWithinSlots
    <2>1. InLedger \subseteq Holders
      BY <1>1 DEF IInv, Accounted, InLedger, Holders
    <2>2. IsFiniteSet(Holders) /\ slots = Cardinality(Holders) /\ slots <= MaxConcurrent
      BY <1>1 DEF IInv, Accounted
    <2>3. /\ IsFiniteSet(InLedger) /\ Cardinality(InLedger) <= Cardinality(Holders)
      BY <2>1, <2>2, FS_Subset
    <2> DEFINE f == [g \in InLedger |-> call[g].id]
    <2>4. f \in Surjection(InLedger, DOMAIN active)
      BY <1>1 DEF IInv, Tracked, ListHonest, Surjection
    <2>5. IsFiniteSet(DOMAIN active) /\ Cardinality(DOMAIN active) <= Cardinality(InLedger)
      BY <2>3, <2>4, FS_Surjection
    <2>6. /\ Cardinality(DOMAIN active) \in Nat /\ Cardinality(InLedger) \in Nat
          /\ Cardinality(Holders) \in Nat
      BY <2>2, <2>3, <2>5, FS_CardinalityType
    <2>7. callsInFlight <= MaxConcurrent
      BY <1>1, <2>2, <2>3, <2>5, <2>6, FrontDoorAssumption DEF IInv, Tracked, GaugeHonest
    <2> QED
      BY <2>1, <2>2, <2>7 DEF CallsWithinSlots
  <1> QED
    BY <1>1, Invariance, PTL

\* The deferred functions of Wrap return every slot, after a panic too.
THEOREM SlotsAlwaysAccounted == Spec => []SlotsAccounted
  <1>1. IInv => SlotsAccounted
    BY DEF IInv, Accounted, SlotsAccounted, Gauged
  <1> QED
    BY <1>1, Invariance, PTL

\* HTTPMiddleware counts every request but those that panic.
THEOREM CountsAlwaysComplete == Spec => []CountsComplete
  <1>1. IInv => CountsComplete
    BY DEF IInv, Accounted, CountsComplete, Busy
  <1> QED
    BY <1>1, Invariance, PTL
=============================================================================
