------------------------------ MODULE LoadTest ------------------------------
(***************************************************************************)
(* The load generator, cmd/loadtest: a warm-up and a number of measured    *)
(* benchmarks, each a pool of workers between an unbuffered channel of     *)
(* jobs and a buffered channel of results.                                 *)
(*                                                                         *)
(* benchmark runs three kinds of goroutines: the workers; the feeder,      *)
(* which sends the jobs, closes jobs, waits for the workers and closes     *)
(* results; and the caller, which collects until results is closed.        *)
(* Latencies and their percentiles are left out.                           *)
(***************************************************************************)
EXTENDS Integers, Sequences, FiniteSets, Functions

CONSTANTS
    Workers,     \* -concurrency of them
    Requests,    \* -requests
    Warmup,      \* -warmup
    Runs,        \* -runs
    Responses    \* what a request to the service may end in

\* What validate accepts.
ValidOptions ==
    /\ Requests \in Nat \ {0}
    /\ Warmup \in Nat
    /\ Runs \in Nat \ {0}
    /\ IsFiniteSet(Workers) /\ Workers # {}

\* delivered: client.Do returned no error; readable: the body could be read;
\* status: the status of the JSON body, "" if there is none.
Response ==
    [delivered : BOOLEAN, code : 100..599, readable : BOOLEAN,
     status : {"malformed", "", "posted", "approved", "declined"}]

ASSUME LoadTestAssumption == ValidOptions /\ Responses \subseteq Response

VARIABLES
    stage,         \* 0 in the warm-up, then the number of the run
    toSend,        \* jobs the feeder has still to send
    feeder,        \* "feeding", "waiting" for the workers, "done"
    worker,        \* where each worker is
    holding,       \* the result a worker is about to send
    results,       \* the buffer of the channel results
    successful, failureReasons,   \* collected so far
    failed,        \* main's failed
    exit,          \* the exit code, -1 while running
    trouble,       \* history: some request did not succeed
    written        \* history: Encode wrote the reports

pool == <<toSend, feeder, worker, holding, results>>

collected == <<successful, failureReasons>>

vars == <<stage, pool, collected, failed, exit, trouble, written>>

OK(code) == 200 <= code /\ code < 300

\* execute: what is measured of a response.
Measured(r) ==
    IF ~r.delivered THEN [err |-> TRUE, httpStatus |-> 0, status |-> ""]
    ELSE IF ~r.readable \/ ~OK(r.code) \/ r.status = "malformed"
         THEN [err |-> TRUE, httpStatus |-> r.code, status |-> ""]
    ELSE [err |-> FALSE, httpStatus |-> r.code, status |-> r.status]

\* failureReason.
FailureReason(m) ==
    IF m.err
    THEN IF m.httpStatus # 0 /\ ~OK(m.httpStatus) THEN <<"http", m.httpStatus>>
                                                  ELSE <<"request_error">>
    ELSE IF m.status = "" THEN <<"missing_outcome">>
    ELSE <<"outcome", m.status>>

\* What the collector counts as successful.
Successful(m) == ~m.err /\ m.status \in {"posted", "approved"}

Measurements == {Measured(r) : r \in Responses}

Reasons == {FailureReason(m) : m \in Measurements}

None == [err |-> FALSE, httpStatus |-> 0, status |-> ""]

JobsOf(s) == IF s = 0 THEN Warmup ELSE Requests

Concurrency == Cardinality(Workers)

Init ==
    /\ stage = IF Warmup > 0 THEN 0 ELSE 1
    /\ toSend = JobsOf(stage)
    /\ feeder = "feeding"
    /\ worker = [w \in Workers |-> "ranging"]
    /\ holding = [w \in Workers |-> None]
    /\ results = << >>
    /\ successful = 0
    /\ failureReasons = [r \in Reasons |-> 0]
    /\ failed = FALSE
    /\ exit = -1
    /\ trouble = FALSE
    /\ written = FALSE

\* benchmark for the next run, up to its collecting loop.
Benchmark ==
    /\ stage < Runs
    /\ stage' = stage + 1
    /\ toSend' = Requests
    /\ feeder' = "feeding"
    /\ worker' = [w \in Workers |-> "ranging"]
    /\ holding' = [w \in Workers |-> None]
    /\ results' = << >>
    /\ successful' = 0
    /\ failureReasons' = [r \in Reasons |-> 0]

\* The channel jobs has no buffer: the feeder and a worker that ranges over it
\* meet.
HandOver(w) ==
    /\ feeder = "feeding"
    /\ toSend > 0
    /\ worker[w] = "ranging"
    /\ toSend' = toSend - 1
    /\ worker' = [worker EXCEPT ![w] = "executing"]
    /\ UNCHANGED <<stage, feeder, holding, results, collected, failed, exit, trouble, written>>

\* The feeder closes jobs.
CloseJobs ==
    /\ feeder = "feeding"
    /\ toSend = 0
    /\ feeder' = "waiting"
    /\ UNCHANGED <<stage, toSend, worker, holding, results, collected, failed, exit, trouble, written>>

\* History: the service did what the request asked for.
Good(r) ==
    /\ r.delivered /\ r.readable /\ r.code \in 200..299
    /\ r.status = "posted" \/ r.status = "approved"

\* The request is answered, refused, or times out.
Execute(w) ==
    /\ worker[w] = "executing"
    /\ worker' = [worker EXCEPT ![w] = "sending"]
    /\ \E r \in Responses :
           /\ holding' = [holding EXCEPT ![w] = Measured(r)]
           /\ trouble' = (trouble \/ ~Good(r))
    /\ UNCHANGED <<stage, toSend, feeder, results, collected, failed, exit, written>>

\* Sending to a full channel waits.
SendResult(w) ==
    /\ worker[w] = "sending"
    /\ Len(results) < Concurrency
    /\ results' = Append(results, holding[w])
    /\ worker' = [worker EXCEPT ![w] = "ranging"]
    /\ holding' = [holding EXCEPT ![w] = None]
    /\ UNCHANGED <<stage, toSend, feeder, collected, failed, exit, trouble, written>>

\* Leaving when jobs is closed, with a result not yet sent.
WorkerQuits(w) ==
    /\ worker[w] \in {"ranging", "sending"}
    /\ feeder # "feeding"
    /\ worker' = [worker EXCEPT ![w] = "done"]
    /\ UNCHANGED <<stage, toSend, feeder, holding, results, collected, failed, exit, trouble, written>>

\* The range over the closed channel ends.
WorkerDone(w) ==
    /\ worker[w] = "ranging"
    /\ feeder # "feeding"
    /\ worker' = [worker EXCEPT ![w] = "done"]
    /\ UNCHANGED <<stage, toSend, feeder, holding, results, collected, failed, exit, trouble, written>>

\* Closing results together with jobs.
CloseTooEarly ==
    /\ feeder = "waiting"
    /\ feeder' = "done"
    /\ UNCHANGED <<stage, toSend, worker, holding, results, collected, failed, exit, trouble, written>>

\* The feeder closes results when all workers are done.
CloseResults ==
    /\ feeder = "waiting"
    /\ \A w \in Workers : worker[w] = "done"
    /\ feeder' = "done"
    /\ UNCHANGED <<stage, toSend, worker, holding, results, collected, failed, exit, trouble, written>>

\* Collecting after all jobs are handed over, as if the feeder were not a
\* goroutine of its own.
CollectLate ==
    /\ feeder # "feeding"
    /\ results # << >>
    /\ exit = -1
    /\ results' = Tail(results)
    /\ IF Successful(Head(results))
       THEN successful' = successful + 1 /\ UNCHANGED failureReasons
       ELSE /\ failureReasons' = [failureReasons EXCEPT ![FailureReason(Head(results))] = @ + 1]
            /\ UNCHANGED successful
    /\ UNCHANGED <<stage, toSend, feeder, worker, holding, failed, exit, trouble, written>>

\* The collector counts one result.
Collect ==
    /\ results # << >>
    /\ exit = -1
    /\ results' = Tail(results)
    /\ IF Successful(Head(results))
       THEN successful' = successful + 1 /\ UNCHANGED failureReasons
       ELSE /\ failureReasons' = [failureReasons EXCEPT ![FailureReason(Head(results))] = @ + 1]
            /\ UNCHANGED successful
    /\ UNCHANGED <<stage, toSend, feeder, worker, holding, failed, exit, trouble, written>>

\* The range over results ends, and benchmark returns.
Returned == exit = -1 /\ feeder = "done" /\ results = << >>

\* The Failed of benchmark's summary.
Failed == JobsOf(stage) - successful

\* The exit of main that forgets the runs before the last.
AfterLastOnly ==
    /\ Returned
    /\ \/ /\ stage = 0 /\ Failed # 0
          /\ exit' = 1
          /\ UNCHANGED <<stage, pool, collected, failed, trouble, written>>
       \/ /\ ~(stage = 0 /\ Failed # 0)
          /\ Benchmark
          /\ UNCHANGED <<failed, exit, trouble, written>>
       \/ /\ stage = Runs
          /\ failed' = (Failed # 0)
          /\ written' \in BOOLEAN
          /\ exit' = IF ~written' \/ failed' THEN 1 ELSE 0
          /\ UNCHANGED <<stage, pool, collected, trouble>>

\* main: a failed warm-up ends it, a failed run only its success.  After the last
\* run it writes the reports to its standard output, which may fail.
After ==
    /\ Returned
    /\ \/ /\ stage = 0 /\ Failed # 0
          /\ exit' = 1
          /\ UNCHANGED <<stage, pool, collected, failed, trouble, written>>
       \/ /\ ~(stage = 0 /\ Failed # 0)
          /\ Benchmark
          /\ failed' = (failed \/ Failed # 0)
          /\ UNCHANGED <<exit, trouble, written>>
       \/ /\ stage = Runs
          /\ failed' = (failed \/ Failed # 0)
          /\ written' \in BOOLEAN
          /\ exit' = IF ~written' \/ failed' THEN 1 ELSE 0
          /\ UNCHANGED <<stage, pool, collected, trouble>>

Next ==
    \/ CloseJobs
    \/ CloseResults
    \/ Collect
    \/ After
    \/ \E w \in Workers : HandOver(w) \/ Execute(w) \/ SendResult(w) \/ WorkerDone(w)

Spec == Init /\ [][Next]_vars

\* Goroutines are scheduled, and a request ends at the latest with the timeout of
\* the HTTP client.  For the feeder it is enough that some worker takes a job.
FairSpec ==
    /\ Spec
    /\ WF_vars(CloseJobs) /\ WF_vars(CloseResults) /\ WF_vars(Collect) /\ WF_vars(After)
    /\ WF_vars(\E w \in Workers : HandOver(w))
    /\ \A w \in Workers : WF_vars(Execute(w) \/ SendResult(w) \/ WorkerDone(w))

-----------------------------------------------------------------------------
TypeOK ==
    /\ stage \in 0..Runs
    /\ toSend \in Nat
    /\ feeder \in {"feeding", "waiting", "done"}
    /\ worker \in [Workers -> {"ranging", "executing", "sending", "done"}]
    /\ holding \in [Workers -> Measurements \cup {None}]
    /\ results \in Seq(Measurements) /\ Len(results) <= Concurrency
    /\ successful \in Nat
    /\ failureReasons \in [Reasons -> Nat]
    /\ failed \in BOOLEAN /\ trouble \in BOOLEAN /\ written \in BOOLEAN
    /\ exit \in {-1, 0, 1}

\* results is closed after every job is handed over and every worker is done:
\* no worker can send to a closed channel, which would be a panic.
ResultsClosedLast ==
    feeder = "done" => toSend = 0 /\ \A w \in Workers : worker[w] = "done"

\* A summary accounts for every request: the successful ones and the failure
\* reasons add up to the requests made, none lost in the pool or counted twice.
SummaryAddsUp ==
    Returned => successful + SumFunction(failureReasons) = JobsOf(stage)

\* The tool exits with zero exactly when every request of the warm-up and of all
\* runs was answered with a posted or approved operation and the reports were
\* written.  In particular a failure in any run, not just the last, makes the exit
\* status non-zero (docs/performance.md), and a success leaves it zero.
ExitHonest == exit # -1 => (exit = 0 <=> ~trouble /\ written)

\* The tool ends: no goroutine of a pool waits for ever on a channel.
Terminates == <>(exit # -1)
=============================================================================
