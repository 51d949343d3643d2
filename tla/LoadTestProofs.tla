--------------------------- MODULE LoadTestProofs ---------------------------
(***************************************************************************)
(* The closing order of the load generator's channels, its bookkeeping and *)
(* its exit code, for every pool and every number of requests and runs.    *)
(***************************************************************************)
EXTENDS LoadTest, SumFacts

\* The workers with a request whose result is not in the channel yet.
Busy == {w \in Workers : worker[w] \in {"executing", "sending"}}

Failures == SumFunction(failureReasons)

\* Why the closing order holds: the feeder stops feeding with no job left.
InOrder ==
    /\ feeder # "feeding" => toSend = 0
    /\ feeder = "done" => \A w \in Workers : worker[w] = "done"
    /\ \A w \in Workers : worker[w] = "sending" => holding[w] \in Measurements

\* Every request of the stage is with the feeder, with a worker, in the channel
\* or collected.
Accounted ==
    toSend + Cardinality(Busy) + Len(results) + successful + Failures = JobsOf(stage)

\* A request that did not succeed is known somewhere on its way to main's failed.
FailureUnderWay ==
    \/ \E w \in Workers : worker[w] = "sending" /\ ~Successful(holding[w])
    \/ \E i \in 1..Len(results) : ~Successful(results[i])
    \/ Failures > 0

TroubleKnown ==
    /\ exit = -1 => (trouble <=> failed \/ FailureUnderWay)
    /\ exit # -1 => feeder = "done" /\ results = << >> /\ (exit = 1 <=> trouble \/ ~written)

IInv == TypeOK /\ InOrder /\ Accounted /\ TroubleKnown

-----------------------------------------------------------------------------
\* execute: an error, or the status of the body; the HTTP status if there is one.
LEMMA MeasuredFacts ==
    ASSUME NEW r \in Responses
    PROVE  /\ Measured(r) \in Measurements
           /\ Measured(r).err = (~r.delivered \/ ~r.readable \/ ~OK(r.code) \/ r.status = "malformed")
           /\ Measured(r).status = IF Measured(r).err THEN "" ELSE r.status
           /\ Measured(r).httpStatus = IF r.delivered THEN r.code ELSE 0
  <1> USE DEF Measured
  <1>1. r.delivered \in BOOLEAN
    BY LoadTestAssumption DEF Response
  <1>2. CASE ~r.delivered
    BY <1>1, <1>2 DEF Measurements
  <1>3. CASE r.delivered /\ (~r.readable \/ ~OK(r.code) \/ r.status = "malformed")
    BY <1>1, <1>3 DEF Measurements
  <1>4. CASE r.delivered /\ ~(~r.readable \/ ~OK(r.code) \/ r.status = "malformed")
    BY <1>1, <1>4 DEF Measurements
  <1> QED
    BY <1>1, <1>2, <1>3, <1>4

\* execute and the collector agree on what a success is.
LEMMA GoodIsSuccessful ==
    ASSUME NEW r \in Responses
    PROVE  Good(r) <=> Successful(Measured(r))
  <1>1. r.code \in 100..599
    BY LoadTestAssumption DEF Response
  <1>2. OK(r.code) <=> r.code \in 200..299
    BY <1>1 DEF OK
  <1> QED
    BY <1>2, MeasuredFacts DEF Good, Successful

LEMMA ImageFinite ==
    ASSUME NEW f, IsFiniteSet(DOMAIN f)
    PROVE  IsFiniteSet({f[x] : x \in DOMAIN f})
  <1> DEFINE T == {f[x] : x \in DOMAIN f}
             g == [x \in DOMAIN f |-> f[x]]
  <1>1. g \in Surjection(DOMAIN f, T)
    BY DEF Surjection
  <1> HIDE DEF T, g
  <1>2. IsFiniteSet(T)
    BY <1>1, FS_Surjection
  <1> QED
    BY <1>2 DEF T

\* The failure reasons a response can lead to are finitely many: the HTTP status
\* codes, and a few more.
LEMMA ReasonsFinite == IsFiniteSet(Reasons)
  <1> DEFINE http == [code \in 100..599 |-> <<"http", code>>]
             outcome == [status \in {"", "posted", "approved", "declined"} |-> <<"outcome", status>>]
             All == {http[code] : code \in DOMAIN http} \cup {outcome[s] : s \in DOMAIN outcome}
                        \cup {<<"request_error">>} \cup {<<"missing_outcome">>}
  <1>1. IsFiniteSet(DOMAIN http)
    <2>1. \A a, b \in Int : IsFiniteSet(a..b)
      BY FS_Interval
    <2>2. 100 \in Int /\ 599 \in Int /\ DOMAIN http = 100..599
      OBVIOUS
    <2> QED
      BY ZenonT(30), <2>1, <2>2
  <1>2. IsFiniteSet(DOMAIN outcome)
    <2>1. {"", "posted", "approved", "declined"} = (({""} \cup {"posted"}) \cup {"approved"}) \cup {"declined"}
      OBVIOUS
    <2>2. IsFiniteSet({""}) 
      BY FS_Singleton
    <2>3. IsFiniteSet((({""} \cup {"posted"}) \cup {"approved"}) \cup {"declined"})
      BY <2>2, FS_AddElement
    <2> QED
      BY <2>1, <2>3
  <1>3. IsFiniteSet(All)
    <2>1. /\ IsFiniteSet({http[code] : code \in DOMAIN http})
          /\ IsFiniteSet({outcome[s] : s \in DOMAIN outcome})
      <3> HIDE DEF http, outcome
      <3> QED
        BY <1>1, <1>2, ImageFinite
    <2> HIDE DEF http, outcome
    <2> QED
      BY <2>1, FS_Union, FS_AddElement
  <1>4. ASSUME NEW r \in Responses PROVE FailureReason(Measured(r)) \in All
    <2>1. /\ r.code \in 100..599
          /\ r.status \in {"malformed", "", "posted", "approved", "declined"}
      BY ZenonT(30), LoadTestAssumption DEF Response
    <2>2. \/ FailureReason(Measured(r)) = <<"http", r.code>>
          \/ FailureReason(Measured(r)) = <<"request_error">>
          \/ FailureReason(Measured(r)) = <<"missing_outcome">>
          \/ /\ FailureReason(Measured(r)) = <<"outcome", r.status>>
             /\ r.status # "malformed"
      BY MeasuredFacts DEF FailureReason
    <2>3. r.code \in DOMAIN http /\ http[r.code] = <<"http", r.code>>
      BY <2>1
    <2>4. r.status # "malformed" =>
              r.status \in DOMAIN outcome /\ outcome[r.status] = <<"outcome", r.status>>
      BY <2>1
    <2> HIDE DEF http, outcome
    <2>5. <<"http", r.code>> \in All
      BY Zenon, <2>3
    <2>6. r.status # "malformed" => <<"outcome", r.status>> \in All
      BY Zenon, <2>4
    <2>7. <<"request_error">> \in All /\ <<"missing_outcome">> \in All
      BY Zenon
    <2> HIDE DEF All
    <2> QED
      BY Zenon, <2>2, <2>5, <2>6, <2>7
  <1> HIDE DEF All
  <1>5. Reasons \subseteq All
    BY <1>4 DEF Reasons, Measurements
  <1> QED
    BY <1>3, <1>5, FS_Subset

LEMMA FailuresType ==
    ASSUME failureReasons \in [Reasons -> Nat]
    PROVE  Failures \in Nat
  BY ReasonsFinite, SumBound DEF Failures, SumFunction

Load(where) == IF where \in {"executing", "sending"} THEN 1 ELSE 0

\* A worker that takes a job or sends its result enters or leaves Busy.
LEMMA BusyCount ==
    ASSUME TypeOK, NEW w \in Workers, NEW where,
           worker' = [worker EXCEPT ![w] = where]
    PROVE  /\ Cardinality(Busy) \in Nat /\ Cardinality(Busy') \in Nat
           /\ Cardinality(Busy') = Cardinality(Busy) + Load(where) - Load(worker[w])
  <1>1. IsFiniteSet(Busy)
    BY LoadTestAssumption, FS_Subset DEF Busy, ValidOptions
  <1>2. /\ IsFiniteSet(Busy \cup {w}) /\ IsFiniteSet(Busy \ {w})
        /\ Cardinality(Busy \cup {w}) = IF w \in Busy THEN Cardinality(Busy) ELSE Cardinality(Busy) + 1
        /\ Cardinality(Busy \ {w}) = IF w \in Busy THEN Cardinality(Busy) - 1 ELSE Cardinality(Busy)
    BY <1>1, FS_AddElement, FS_RemoveElement
  <1>3. /\ Cardinality(Busy) \in Nat
        /\ Cardinality(Busy \cup {w}) \in Nat
        /\ Cardinality(Busy \ {w}) \in Nat
    BY <1>1, <1>2, FS_CardinalityType
  <1>4. w \in Busy <=> worker[w] \in {"executing", "sending"}
    BY DEF Busy
  <1>5. CASE where \in {"executing", "sending"}
    <2>1. Busy' = Busy \cup {w}
      BY <1>5 DEF Busy, TypeOK
    <2>2. Cardinality(Busy') = Cardinality(Busy \cup {w})
      BY <2>1
    <2> QED
      BY <1>2, <1>3, <1>4, <1>5, <2>2 DEF Load
  <1>6. CASE where \notin {"executing", "sending"}
    <2>1. Busy' = Busy \ {w}
      BY <1>6 DEF Busy, TypeOK
    <2>2. Cardinality(Busy') = Cardinality(Busy \ {w})
      BY <2>1
    <2> QED
      BY <1>2, <1>3, <1>4, <1>6, <2>2 DEF Load
  <1> QED
    BY <1>5, <1>6

\* The collector moves one result from the channel to the count of successes or
\* to its failure reason.
LEMMA Collected ==
    ASSUME TypeOK, Collect
    PROVE  /\ results' \in Seq(Measurements) /\ Len(results') = Len(results) - 1
           /\ successful' \in Nat /\ failureReasons' \in [Reasons -> Nat]
           /\ Failures \in Nat
           /\ IF Successful(Head(results))
              THEN successful' = successful + 1 /\ Failures' = Failures
              ELSE successful' = successful /\ Failures' = Failures + 1
  <1>1. /\ Head(results) \in Measurements
        /\ results' \in Seq(Measurements) /\ Len(results') = Len(results) - 1
    BY DEF Collect, TypeOK
  <1>2. Failures \in Nat
    BY FailuresType DEF TypeOK
  <1>3. CASE Successful(Head(results))
    BY <1>1, <1>2, <1>3 DEF Collect, TypeOK, Failures
  <1>4. CASE ~Successful(Head(results))
    <2> DEFINE reason == FailureReason(Head(results))
               more == [failureReasons EXCEPT ![reason] = @ + 1]
    <2>1. reason \in Reasons
      BY <1>1 DEF Reasons
    <2>2. failureReasons' = more /\ successful' = successful
      BY <1>4 DEF Collect
    <2>3. failureReasons \in [Reasons -> Nat] /\ successful \in Nat
      BY DEF TypeOK
    <2> HIDE DEF reason
    <2>4. more \in [Reasons -> Nat] /\ more[reason] = failureReasons[reason] + 1
      BY <2>1, <2>3
    <2>5. \A r \in Reasons \ {reason} : more[r] = failureReasons[r]
      BY <2>3
    <2>6. failureReasons[reason] \in Nat
      BY <2>1, <2>3
    <2> HIDE DEF more
    <2>7. SumFunctionOnSet(more, Reasons) =
              SumFunctionOnSet(failureReasons, Reasons) + more[reason] - failureReasons[reason]
      BY <2>1, <2>3, <2>4, <2>5, ReasonsFinite, SumChange
    <2>8. /\ Failures = SumFunctionOnSet(failureReasons, Reasons)
          /\ Failures' = SumFunctionOnSet(more, Reasons)
      BY <2>2, <2>3, <2>4 DEF Failures, SumFunction
    <2> QED
      BY <1>1, <1>2, <1>4, <2>2, <2>3, <2>4, <2>6, <2>7, <2>8
  <1> QED
    BY <1>3, <1>4

-----------------------------------------------------------------------------
\* The types and the closing order.
LEMMA TypesKept ==
    ASSUME TypeOK, InOrder, [Next]_vars
    PROVE  TypeOK' /\ InOrder'
  <1> USE DEF TypeOK, InOrder
  <1>0. Concurrency \in Nat
    BY LoadTestAssumption, FS_CardinalityType DEF Concurrency, ValidOptions
  <1>1. CASE UNCHANGED vars
    BY <1>1 DEF vars, pool, collected
  <1>2. ASSUME NEW w \in Workers, HandOver(w) PROVE TypeOK' /\ InOrder'
    BY <1>2 DEF HandOver, collected
  <1>3. ASSUME NEW w \in Workers, Execute(w) PROVE TypeOK' /\ InOrder'
    <2>1. PICK r \in Responses : /\ holding' = [holding EXCEPT ![w] = Measured(r)]
                                 /\ trouble' = (trouble \/ ~Good(r))
      BY <1>3 DEF Execute
    <2>2. Measured(r) \in Measurements
      BY MeasuredFacts
    <2> QED
      BY <1>3, <2>1, <2>2 DEF Execute, collected
  <1>4. ASSUME NEW w \in Workers, SendResult(w) PROVE TypeOK' /\ InOrder'
    BY <1>0, <1>4 DEF SendResult, collected
  <1>5. ASSUME NEW w \in Workers, WorkerDone(w) PROVE TypeOK' /\ InOrder'
    BY <1>5 DEF WorkerDone, collected
  <1>6. CASE CloseJobs \/ CloseResults
    BY <1>6 DEF CloseJobs, CloseResults, collected
  <1>7. CASE Collect
    BY <1>0, <1>7, Collected DEF Collect
  <1>8. CASE After
    <2>1. CASE /\ exit' = 1
               /\ UNCHANGED <<stage, pool, collected, failed, trouble, written>>
      BY <2>1 DEF pool, collected
    <2>2. CASE /\ Benchmark
               /\ failed' = (failed \/ Failed # 0)
               /\ UNCHANGED <<exit, trouble, written>>
      BY <1>0, <2>2, LoadTestAssumption DEF Benchmark, ValidOptions
    <2>3. CASE /\ failed' = (failed \/ Failed # 0)
               /\ written' \in BOOLEAN
               /\ exit' = IF ~written' \/ failed' THEN 1 ELSE 0
               /\ UNCHANGED <<stage, pool, collected, trouble>>
      BY <2>3 DEF pool, collected
    <2> QED
      BY <1>8, <2>1, <2>2, <2>3 DEF After
  <1> QED
    BY <1>1, <1>2, <1>3, <1>4, <1>5, <1>6, <1>7, <1>8 DEF Next

\* A benchmark begins with nothing collected.
LEMMA NothingCollected ==
    ASSUME failureReasons' = [r \in Reasons |-> 0]
    PROVE  Failures' = 0
  <1> DEFINE none == [r \in Reasons |-> 0]
  <1>1. DOMAIN none = Reasons /\ \A r \in Reasons : none[r] = 0
    OBVIOUS
  <1>2. failureReasons' = none
    OBVIOUS
  <1> HIDE DEF none
  <1>3. SumFunctionOnSet(none, Reasons) = 0
    BY <1>1, ReasonsFinite, SumZero
  <1> QED
    BY <1>1, <1>2, <1>3 DEF Failures, SumFunction

LEMMA NoneBusy ==
    ASSUME \A w \in Workers : worker[w] \notin {"executing", "sending"}
    PROVE  Cardinality(Busy) = 0
  <1>1. Busy = {}
    BY DEF Busy
  <1> QED
    BY <1>1, FS_EmptySet

\* benchmark's bookkeeping: a step moves a request along and loses none.
LEMMA AccountedKept ==
    ASSUME TypeOK, InOrder, Accounted, [Next]_vars
    PROVE  Accounted'
  <1>1. CASE UNCHANGED vars
    BY <1>1 DEF vars, pool, collected, Accounted, Busy, Failures, JobsOf
  <1>2. CASE UNCHANGED <<toSend, worker, results, successful, failureReasons, stage>>
    BY <1>2 DEF Accounted, Busy, Failures, JobsOf
  <1>3. /\ toSend \in Nat /\ Len(results) \in Nat /\ successful \in Nat /\ Failures \in Nat
        /\ JobsOf(stage) \in Nat
    BY FailuresType, LoadTestAssumption DEF TypeOK, JobsOf, ValidOptions
  <1>4. ASSUME NEW w \in Workers, HandOver(w) PROVE Accounted'
    <2>1. /\ Cardinality(Busy) \in Nat /\ Cardinality(Busy') = Cardinality(Busy) + 1
          /\ toSend' = toSend - 1
      <3>1. worker' = [worker EXCEPT ![w] = "executing"]
        BY <1>4 DEF HandOver
      <3>2. /\ Cardinality(Busy) \in Nat
            /\ Cardinality(Busy') = Cardinality(Busy) + Load("executing") - Load(worker[w])
        BY <3>1, BusyCount
      <3> QED
        BY <1>4, <3>2 DEF HandOver, Load
    <2>2. /\ Len(results') = Len(results) /\ successful' = successful /\ Failures' = Failures
          /\ JobsOf(stage') = JobsOf(stage)
      BY <1>4 DEF HandOver, collected, Failures
    <2> QED
      BY <1>3, <2>1, <2>2 DEF Accounted
  <1>5. ASSUME NEW w \in Workers, Execute(w) PROVE Accounted'
    <2>1. Cardinality(Busy) \in Nat /\ Cardinality(Busy') = Cardinality(Busy)
      <3>1. worker' = [worker EXCEPT ![w] = "sending"]
        BY <1>5 DEF Execute
      <3>2. /\ Cardinality(Busy) \in Nat
            /\ Cardinality(Busy') = Cardinality(Busy) + Load("sending") - Load(worker[w])
        BY <3>1, BusyCount
      <3> QED
        BY <1>5, <3>2 DEF Execute, Load
    <2>2. /\ Len(results') = Len(results) /\ successful' = successful /\ Failures' = Failures
          /\ JobsOf(stage') = JobsOf(stage) /\ toSend' = toSend
      BY <1>5 DEF Execute, collected, Failures
    <2> QED
      BY <1>3, <2>1, <2>2 DEF Accounted
  <1>6. ASSUME NEW w \in Workers, SendResult(w) PROVE Accounted'
    <2>1. Cardinality(Busy) \in Nat /\ Cardinality(Busy') = Cardinality(Busy) - 1
      <3>1. worker' = [worker EXCEPT ![w] = "ranging"]
        BY <1>6 DEF SendResult
      <3>2. /\ Cardinality(Busy) \in Nat
            /\ Cardinality(Busy') = Cardinality(Busy) + Load("ranging") - Load(worker[w])
        BY <3>1, BusyCount
      <3> QED
        BY <1>6, <3>2 DEF SendResult, Load
    <2>2. Len(results') = Len(results) + 1
      BY <1>6 DEF SendResult, TypeOK, InOrder
    <2>3. /\ successful' = successful /\ Failures' = Failures
          /\ JobsOf(stage') = JobsOf(stage) /\ toSend' = toSend
      BY <1>6 DEF SendResult, collected, Failures
    <2> QED
      BY <1>3, <2>1, <2>2, <2>3 DEF Accounted
  <1>7. ASSUME NEW w \in Workers, WorkerDone(w) PROVE Accounted'
    <2>1. Cardinality(Busy) \in Nat /\ Cardinality(Busy') = Cardinality(Busy)
      <3>1. worker' = [worker EXCEPT ![w] = "done"]
        BY <1>7 DEF WorkerDone
      <3>2. /\ Cardinality(Busy) \in Nat
            /\ Cardinality(Busy') = Cardinality(Busy) + Load("done") - Load(worker[w])
        BY <3>1, BusyCount
      <3> QED
        BY <1>7, <3>2 DEF WorkerDone, Load
    <2>2. /\ Len(results') = Len(results) /\ successful' = successful /\ Failures' = Failures
          /\ JobsOf(stage') = JobsOf(stage) /\ toSend' = toSend
      BY <1>7 DEF WorkerDone, collected, Failures
    <2> QED
      BY <1>3, <2>1, <2>2 DEF Accounted
  <1>8. CASE CloseJobs \/ CloseResults
    BY <1>2, <1>8 DEF CloseJobs, CloseResults, collected
  <1>9. CASE Collect
    <2>1. /\ toSend' = toSend /\ JobsOf(stage') = JobsOf(stage)
          /\ Cardinality(Busy') = Cardinality(Busy)
      BY <1>9 DEF Collect, Busy
    <2>2. Cardinality(Busy) \in Nat
      BY LoadTestAssumption, FS_Subset, FS_CardinalityType DEF Busy, ValidOptions
    <2>3. /\ Len(results') = Len(results) - 1
          /\ \/ successful' = successful + 1 /\ Failures' = Failures
             \/ successful' = successful /\ Failures' = Failures + 1
      BY <1>9, Collected
    <2>4. CASE successful' = successful + 1 /\ Failures' = Failures
      <3>1. toSend + Cardinality(Busy) + (Len(results) - 1) + (successful + 1) + Failures
                = JobsOf(stage)
        BY <1>3, <2>2 DEF Accounted
      <3> QED
        BY <2>1, <2>3, <2>4, <3>1 DEF Accounted
    <2>5. CASE successful' = successful /\ Failures' = Failures + 1
      <3>1. toSend + Cardinality(Busy) + (Len(results) - 1) + successful + (Failures + 1)
                = JobsOf(stage)
        BY <1>3, <2>2 DEF Accounted
      <3> QED
        BY <2>1, <2>3, <2>5, <3>1 DEF Accounted
    <2> QED
      BY <2>3, <2>4, <2>5
  <1>10. CASE After
    <2>1. CASE Benchmark
      <3>1. /\ toSend' = Requests /\ Len(results') = 0 /\ successful' = 0
            /\ JobsOf(stage') = Requests
        BY <2>1 DEF Benchmark, JobsOf, TypeOK
      <3>2. Failures' = 0
        BY <2>1, NothingCollected DEF Benchmark
      <3>3. Cardinality(Busy') = 0
        <4>1. \A w \in Workers : worker'[w] \notin {"executing", "sending"}
          BY <2>1 DEF Benchmark
        <4>2. Busy' = {}
          BY <4>1 DEF Busy
        <4> QED
          BY <4>2, FS_EmptySet
      <3> QED
        BY <3>1, <3>2, <3>3, LoadTestAssumption DEF Accounted, ValidOptions
    <2>2. CASE UNCHANGED <<stage, pool, collected>>
      BY <1>2, <2>2 DEF pool, collected
    <2> QED
      BY <1>10, <2>1, <2>2 DEF After
  <1> QED
    BY <1>1, <1>4, <1>5, <1>6, <1>7, <1>8, <1>9, <1>10 DEF Next

\* Trouble is passed on until it is main's failed or the exit code.
LEMMA TroubleKept ==
    ASSUME TypeOK, InOrder, Accounted, TroubleKnown, [Next]_vars
    PROVE  TroubleKnown'
  <1> DEFINE Held(w) == worker[w] = "sending" /\ ~Successful(holding[w])
             Sent(i) == ~Successful(results[i])
  <1>1. CASE UNCHANGED vars
    BY <1>1 DEF vars, pool, collected, TroubleKnown, FailureUnderWay, Failures
  <1>2. ASSUME NEW w \in Workers, HandOver(w) PROVE TroubleKnown'
    <2>1. exit = -1 /\ exit' = exit /\ trouble' = trouble /\ failed' = failed
      BY <1>2 DEF HandOver, TroubleKnown
    <2>2. (\E v \in Workers : Held(v)') <=> (\E v \in Workers : Held(v))
      BY <1>2 DEF HandOver, TypeOK
    <2>3. results' = results /\ Failures' = Failures
      BY <1>2 DEF HandOver, collected, Failures
    <2> QED
      BY <2>1, <2>2, <2>3 DEF TroubleKnown, FailureUnderWay
  <1>3. ASSUME NEW w \in Workers, Execute(w) PROVE TroubleKnown'
    <2>1. exit = -1 /\ exit' = exit /\ failed' = failed
      BY <1>3 DEF Execute, TroubleKnown, InOrder
    <2>2. PICK r \in Responses : /\ holding' = [holding EXCEPT ![w] = Measured(r)]
                                 /\ trouble' = (trouble \/ ~Good(r))
      BY <1>3 DEF Execute
    <2>3. Good(r) <=> Successful(Measured(r))
      BY GoodIsSuccessful
    <2>4. \A v \in Workers :
              Held(v)' <=> (IF v = w THEN ~Successful(Measured(r)) ELSE Held(v))
      BY <1>3, <2>2 DEF Execute, TypeOK
    <2>5. ~Held(w)
      BY <1>3 DEF Execute
    <2>6. results' = results /\ Failures' = Failures
      BY <1>3 DEF Execute, collected, Failures
    <2>7. trouble \in BOOLEAN
      BY DEF TypeOK
    <2> QED
      BY <2>1, <2>2, <2>3, <2>4, <2>5, <2>6, <2>7 DEF TroubleKnown, FailureUnderWay
  <1>4. ASSUME NEW w \in Workers, SendResult(w) PROVE TroubleKnown'
    <2>1. exit = -1 /\ exit' = exit /\ trouble' = trouble /\ failed' = failed
      BY <1>4 DEF SendResult, TroubleKnown, InOrder
    <2>2. \A v \in Workers : Held(v)' <=> v # w /\ Held(v)
      BY <1>4 DEF SendResult, TypeOK
    <2>3. Held(w) <=> ~Successful(holding[w])
      BY <1>4 DEF SendResult
    <2>4. /\ Len(results') = Len(results) + 1 /\ Len(results) \in Nat
          /\ \A i \in 1..Len(results) : results'[i] = results[i]
          /\ results'[Len(results) + 1] = holding[w]
      BY <1>4 DEF SendResult, TypeOK, InOrder
    <2>5. (\E i \in 1..Len(results') : Sent(i)') <=>
              (~Successful(holding[w]) \/ \E i \in 1..Len(results) : Sent(i))
      BY <2>4
    <2>6. Failures' = Failures
      BY <1>4 DEF SendResult, collected, Failures
    <2> QED
      BY <2>1, <2>2, <2>3, <2>5, <2>6 DEF TroubleKnown, FailureUnderWay
  <1>5. ASSUME NEW w \in Workers, WorkerDone(w) PROVE TroubleKnown'
    <2>1. exit = -1 /\ exit' = exit /\ trouble' = trouble /\ failed' = failed
      BY <1>5 DEF WorkerDone, TroubleKnown, InOrder
    <2>2. (\E v \in Workers : Held(v)') <=> (\E v \in Workers : Held(v))
      BY <1>5 DEF WorkerDone, TypeOK
    <2>3. results' = results /\ Failures' = Failures
      BY <1>5 DEF WorkerDone, collected, Failures
    <2> QED
      BY <2>1, <2>2, <2>3 DEF TroubleKnown, FailureUnderWay
  <1>6. CASE CloseJobs \/ CloseResults
    BY <1>6 DEF CloseJobs, CloseResults, collected, TroubleKnown, FailureUnderWay, Failures
  <1>7. CASE Collect
    <2>1. exit = -1 /\ exit' = exit /\ trouble' = trouble /\ failed' = failed
      BY <1>7 DEF Collect
    <2>2. \A v \in Workers : Held(v)' <=> Held(v)
      BY <1>7 DEF Collect
    <2>3. /\ Len(results) \in Nat \ {0} /\ Len(results') = Len(results) - 1
          /\ \A i \in 1..Len(results') : results'[i] = results[i + 1]
          /\ Head(results) = results[1]
      BY <1>7 DEF Collect, TypeOK
    <2>4. (\E i \in 1..Len(results) : Sent(i)) <=>
              (~Successful(Head(results)) \/ \E i \in 1..Len(results') : Sent(i)')
      <3>1. \A i \in 1..Len(results) : i = 1 \/ i - 1 \in 1..Len(results')
        BY <2>3
      <3>2. \A i \in 2..Len(results) : results'[i - 1] = results[i]
        BY <2>3
      <3> QED
        BY <2>3, <3>1, <3>2
    <2>5. /\ Failures \in Nat
          /\ Successful(Head(results)) => Failures' = Failures
          /\ ~Successful(Head(results)) => Failures' = Failures + 1
      BY <1>7, Collected
    <2> QED
      BY <2>1, <2>2, <2>4, <2>5 DEF TroubleKnown, FailureUnderWay
  <1>8. CASE After
    <2>1. exit = -1 /\ results = << >> /\ feeder = "done" /\ trouble' = trouble
      BY <1>8 DEF After, Returned
    <2>2. ~(\E v \in Workers : Held(v)) /\ ~(\E i \in 1..Len(results) : Sent(i))
      BY <2>1 DEF InOrder
    <2>3. Failures \in Nat /\ successful \in Nat /\ trouble \in BOOLEAN /\ failed \in BOOLEAN
      BY FailuresType DEF TypeOK
    <2>4. Failed = Failures
      <3>1. toSend = 0 /\ Cardinality(Busy) = 0 /\ Len(results) = 0
        BY <2>1, NoneBusy DEF InOrder
      <3> QED
        BY <2>3, <3>1 DEF Accounted, Failed
    <2>5. trouble <=> failed \/ Failed # 0
      BY <2>1, <2>2, <2>3, <2>4 DEF TroubleKnown, FailureUnderWay
    <2>6. CASE /\ Failed # 0
               /\ exit' = 1
               /\ UNCHANGED <<stage, pool, collected, failed, trouble, written>>
      BY <2>1, <2>5, <2>6 DEF pool, TroubleKnown
    <2>7. CASE /\ Benchmark
               /\ failed' = (failed \/ Failed # 0)
               /\ UNCHANGED <<exit, trouble, written>>
      <3>1. Failures' = 0
        BY <2>7, NothingCollected DEF Benchmark
      <3>2. ~(\E v \in Workers : Held(v)') /\ ~(\E i \in 1..Len(results') : Sent(i)')
        BY <2>7 DEF Benchmark
      <3> QED
        BY <2>1, <2>3, <2>5, <2>7, <3>1, <3>2 DEF TroubleKnown, FailureUnderWay
    <2>8. CASE /\ failed' = (failed \/ Failed # 0)
               /\ written' \in BOOLEAN
               /\ exit' = IF ~written' \/ failed' THEN 1 ELSE 0
               /\ UNCHANGED <<stage, pool, collected, trouble>>
      BY <2>1, <2>3, <2>5, <2>8 DEF pool, TroubleKnown
    <2> QED
      BY <1>8, <2>6, <2>7, <2>8 DEF After
  <1> QED
    BY <1>1, <1>2, <1>3, <1>4, <1>5, <1>6, <1>7, <1>8 DEF Next

-----------------------------------------------------------------------------
LEMMA InitOK == Init => IInv
  <1> SUFFICES ASSUME Init PROVE IInv
    OBVIOUS
  <1>1. Requests \in Nat /\ Warmup \in Nat /\ Runs \in Nat \ {0}
    BY LoadTestAssumption DEF ValidOptions
  <1>2. Concurrency \in Nat
    BY LoadTestAssumption, FS_CardinalityType DEF Concurrency, ValidOptions
  <1>3. TypeOK /\ InOrder
    <2>1. stage \in 0..Runs /\ toSend \in Nat
      BY <1>1 DEF Init, JobsOf
    <2>2. results \in Seq(Measurements) /\ Len(results) <= Concurrency
      BY <1>2 DEF Init
    <2>3. failureReasons \in [Reasons -> Nat] /\ successful \in Nat
      BY DEF Init
    <2>4. /\ worker \in [Workers -> {"ranging", "executing", "sending", "done"}]
          /\ holding \in [Workers -> Measurements \cup {None}]
      BY DEF Init
    <2> QED
      BY <2>1, <2>2, <2>3, <2>4 DEF Init, TypeOK, InOrder
  <1>4. Failures = 0
    <2> DEFINE none == [r \in Reasons |-> 0]
    <2>1. DOMAIN none = Reasons /\ \A r \in Reasons : none[r] = 0
      OBVIOUS
    <2>2. failureReasons = none
      BY DEF Init
    <2> HIDE DEF none
    <2>3. SumFunctionOnSet(none, Reasons) = 0
      BY <2>1, ReasonsFinite, SumZero
    <2> QED
      BY <2>1, <2>2, <2>3 DEF Failures, SumFunction
  <1>5. Cardinality(Busy) = 0
    BY NoneBusy DEF Init
  <1>6. Accounted
    BY <1>1, <1>4, <1>5 DEF Init, Accounted, JobsOf
  <1>7. TroubleKnown
    BY <1>4 DEF Init, TroubleKnown, FailureUnderWay
  <1> QED
    BY <1>3, <1>6, <1>7 DEF IInv

LEMMA NextOK == IInv /\ [Next]_vars => IInv'
  BY TypesKept, AccountedKept, TroubleKept DEF IInv

LEMMA AlwaysIInv == Spec => []IInv
  BY InitOK, NextOK, PTL DEF Spec

\* However many workers and requests there are, no worker of cmd/loadtest sends
\* on the closed channel results.
THEOREM ResultsAlwaysClosedLast == Spec => []ResultsClosedLast
  <1>1. IInv => ResultsClosedLast
    BY DEF IInv, InOrder, ResultsClosedLast
  <1> QED
    BY <1>1, AlwaysIInv, PTL

\* However the goroutines of benchmark interleave, its summary accounts for every
\* request of the warm-up and of each run.
THEOREM SummaryAlwaysAddsUp == Spec => []SummaryAddsUp
  <1>1. ASSUME IInv, Returned PROVE successful + SumFunction(failureReasons) = JobsOf(stage)
    <2>1. toSend = 0 /\ Len(results) = 0 /\ Cardinality(Busy) = 0
      BY <1>1, NoneBusy DEF IInv, InOrder, Returned
    <2>2. Failures \in Nat /\ successful \in Nat
      BY <1>1, FailuresType DEF IInv, TypeOK
    <2> QED
      BY <1>1, <2>1, <2>2 DEF IInv, Accounted, Failures
  <1>2. IInv => SummaryAddsUp
    BY <1>1 DEF SummaryAddsUp
  <1> QED
    BY <1>2, AlwaysIInv, PTL

\* The exit code of cmd/loadtest is zero exactly when every request succeeded and
\* the reports were written.
THEOREM ExitAlwaysHonest == Spec => []ExitHonest
  <1>1. IInv => ExitHonest
    BY DEF IInv, TypeOK, TroubleKnown, ExitHonest
  <1> QED
    BY <1>1, AlwaysIInv, PTL
=============================================================================
