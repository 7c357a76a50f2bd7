------------------------------ MODULE Sentinel ------------------------------
(***************************************************************************)
(* The health monitor (internal/sentinel/sentinel.go): a goroutine per     *)
(* check that probes and sends its result, a channel, and a collector that *)
(* stores results and raises alerts, all stopped by one context.  Patrol   *)
(* and status (cmd/glassfactory/main.go) read the stored results.          *)
(*                                                                         *)
(* Latencies and error texts are left out.  A service is up or down; some  *)
(* endpoints answer 200 when what they report is bad.                      *)
(***************************************************************************)
EXTENDS Integers, SequencesExt

CONSTANTS
  Checks,
  Mute,        \* checks whose endpoint answers 200 whatever it reports
  Exempt,      \* checks the patrol does not count: the King's own model
  NoResult,    \* no result
  MayStop,     \* the context may be cancelled
  MaxRuns      \* bound on the probes, by check

ASSUME SentinelAssumption ==
  /\ IsFiniteSet(Checks) /\ Mute \subseteq Checks /\ Exempt \subseteq Checks
  /\ MayStop \in BOOLEAN /\ MaxRuns \in [Checks -> Nat \ {0}]

VARIABLES
  pc,         \* where each check's goroutine is
  ticked,     \* a tick waits in the ticker's channel, which holds one
  pending,    \* the result each goroutine has yet to send
  runs,       \* probes so far, by check
  results,    \* the channel
  collector,  \* where the collector is: "select", "alert", "done"
  alert,      \* the result OnFailure is called with
  last,       \* lastResults
  cancelled

monitorVars == <<pc, ticked, pending, runs, results, collector, alert, last,
                 cancelled>>

-----------------------------------------------------------------------------
\* make(chan CheckResult, len(checks)*2)
Capacity == 2 * Cardinality(Checks)

MonitorInit == /\ pc = [c \in Checks |-> "probe"]
               /\ ticked = [c \in Checks |-> FALSE]
               /\ pending = [c \in Checks |-> NoResult]
               /\ runs = [c \in Checks |-> 0]
               /\ results = << >>
               /\ collector = "select"
               /\ alert = NoResult
               /\ last = [c \in Checks |-> NoResult]
               /\ cancelled = FALSE

\* RunCheck, of a service that is well or not.  It ends in time: the request
\* has a timeout, and a cancelled one fails.
RunCheck(c) ==
  /\ pc[c] = "probe"
  /\ runs' = [runs EXCEPT ![c] = @ + 1]
  /\ \E good \in BOOLEAN :
       pending' = [pending EXCEPT ![c] =
         [check |-> c, run |-> runs[c] + 1, good |-> good,
          ok |-> ~ cancelled /\ (good \/ c \in Mute)]]
  /\ pc' = [pc EXCEPT ![c] = "send"]
  /\ UNCHANGED <<ticked, results, collector, alert, last, cancelled>>

\* A bug: the newest result goes first.
SendFirst(c) ==
  /\ pc[c] = "send"
  /\ \/ /\ Len(results) < Capacity
        /\ results' = <<pending[c]>> \o results
        /\ pc' = [pc EXCEPT ![c] = "wait"]
     \/ /\ cancelled
        /\ pc' = [pc EXCEPT ![c] = "done"]
        /\ UNCHANGED results
  /\ pending' = [pending EXCEPT ![c] = NoResult]
  /\ UNCHANGED <<ticked, runs, collector, alert, last, cancelled>>

\* A bug: a plain send, which the context does not interrupt.
SendBlocking(c) ==
  /\ pc[c] = "send"
  /\ Len(results) < Capacity
  /\ results' = Append(results, pending[c])
  /\ pc' = [pc EXCEPT ![c] = "wait"]
  /\ pending' = [pending EXCEPT ![c] = NoResult]
  /\ UNCHANGED <<ticked, runs, collector, alert, last, cancelled>>

\* The select on the channel and the context: Go takes either when both are
\* ready.
Send(c) ==
  /\ pc[c] = "send"
  /\ \/ /\ Len(results) < Capacity
        /\ results' = Append(results, pending[c])
        /\ pc' = [pc EXCEPT ![c] = "wait"]
     \/ /\ cancelled
        /\ pc' = [pc EXCEPT ![c] = "done"]
        /\ UNCHANGED results
  /\ pending' = [pending EXCEPT ![c] = NoResult]
  /\ UNCHANGED <<ticked, runs, collector, alert, last, cancelled>>

\* A tick for a goroutine that is late is dropped.
Tick(c) ==
  /\ pc[c] \in {"wait", "probe", "send"}
  /\ runs[c] > 0 /\ runs[c] < MaxRuns[c]
  /\ ~ ticked[c]
  /\ ticked' = [ticked EXCEPT ![c] = TRUE]
  /\ UNCHANGED <<pc, pending, runs, results, collector, alert, last, cancelled>>

Wait(c) ==
  /\ pc[c] = "wait"
  /\ \/ /\ ticked[c] /\ runs[c] < MaxRuns[c]
        /\ ticked' = [ticked EXCEPT ![c] = FALSE]
        /\ pc' = [pc EXCEPT ![c] = "probe"]
     \/ /\ cancelled
        /\ pc' = [pc EXCEPT ![c] = "done"]
        /\ UNCHANGED ticked
  /\ UNCHANGED <<pending, runs, results, collector, alert, last, cancelled>>

\* The collector stores the oldest result, then calls OnFailure on a bad one.
Collect ==
  /\ collector = "select"
  /\ \/ /\ results # << >>
        /\ results' = Tail(results)
        /\ last' = [last EXCEPT ![Head(results).check] = Head(results)]
        /\ IF Head(results).ok THEN UNCHANGED <<collector, alert>>
                               ELSE collector' = "alert" /\ alert' = Head(results)
     \/ /\ cancelled
        /\ collector' = "done"
        /\ UNCHANGED <<results, last, alert>>
  /\ UNCHANGED <<pc, ticked, pending, runs, cancelled>>

\* A bug: the collector stops at the first failure.
OnFailureStops ==
  /\ collector = "alert"
  /\ collector' = "done"
  /\ alert' = NoResult
  /\ UNCHANGED <<pc, ticked, pending, runs, results, last, cancelled>>

OnFailure ==
  /\ collector = "alert"
  /\ collector' = "select"
  /\ alert' = NoResult
  /\ UNCHANGED <<pc, ticked, pending, runs, results, last, cancelled>>

Cancel == /\ MayStop /\ ~ cancelled
          /\ cancelled' = TRUE
          /\ UNCHANGED <<pc, ticked, pending, runs, results, collector, alert,
                         last>>

Checker(c) == RunCheck(c) \/ Send(c) \/ Wait(c)

MonitorNext == \/ \E c \in Checks : RunCheck(c) \/ Send(c) \/ Wait(c) \/ Tick(c)
               \/ Collect \/ OnFailure
               \/ Cancel

(***************************************************************************)
(* Goroutines run, the callback (which logs) returns, and a select that    *)
(* can proceed does; nothing makes it prefer either ready case.            *)
(***************************************************************************)
MonitorSpec == /\ MonitorInit /\ [][MonitorNext]_monitorVars
               /\ \A c \in Checks : WF_monitorVars(Checker(c))
               /\ WF_monitorVars(Collect) /\ WF_monitorVars(OnFailure)

\* What the King's patrol counts in LastResults, whenever it runs.
Failures == {c \in Checks \ Exempt : last[c] # NoResult /\ ~ last[c].ok}

-----------------------------------------------------------------------------
Result == [check : Checks, run : Nat, good : BOOLEAN, ok : BOOLEAN]

ASSUME NoResultAssumption == NoResult \notin Result

\* Every variable has its type; the channel holds no more than it can.
MonitorTypeOK == /\ pc \in [Checks -> {"probe", "send", "wait", "done"}]
                 /\ ticked \in [Checks -> BOOLEAN]
                 /\ pending \in [Checks -> Result \cup {NoResult}]
                 /\ results \in Seq(Result) /\ Len(results) =< Capacity
                 /\ last \in [Checks -> Result \cup {NoResult}]
                 /\ runs \in [Checks -> Nat] /\ \A c \in Checks : runs[c] =< MaxRuns[c]
                 /\ alert \in Result \cup {NoResult}
                 /\ collector \in {"select", "alert", "done"}
                 /\ cancelled \in BOOLEAN

\* No result is lost or overtaken: while the monitor runs, what is stored,
\* what is in the channel and what is about to be sent are the probes of a
\* check in the order they were made.
RunNumber(r) == IF r = NoResult THEN 0 ELSE r.run
InChannel(c) == {i \in DOMAIN results : results[i].check = c}

ResultsInOrder ==
  \A c \in Checks :
    LET stored == RunNumber(last[c])
        sent == stored + Cardinality(InChannel(c))
        made == IF pending[c] = NoResult THEN sent ELSE sent + 1
    IN  /\ \A i \in InChannel(c) :
             results[i].run = stored + Cardinality({j \in InChannel(c) : j =< i})
        /\ pending[c] # NoResult => pending[c].run = made
        /\ pc[c] # "done" => runs[c] = made

\* Run returns when its context is cancelled: no goroutine is left behind,
\* blocked on a channel nobody reads.
Stopped == collector = "done" /\ \A c \in Checks : pc[c] = "done"
RunReturns == cancelled ~> Stopped

\* While the monitor is not stopped, every probe's result is stored at last.
ResultsArrive ==
  \A c \in Checks : \A n \in 1..MaxRuns[c] :
    runs[c] >= n ~> RunNumber(last[c]) >= n \/ cancelled

\* What a stored result says is what the probe met.
TroubleIsSeen == \A c \in Checks : last[c] # NoResult /\ last[c].ok => last[c].good

\* main.go 1461, "All sentinel checks passing.": every check it counts
\* has passed.
PatrolSpeaksTrue ==
  Failures = {} => \A c \in Checks \ Exempt : last[c] # NoResult /\ last[c].ok
=============================================================================
