------------------------------- MODULE Builds -------------------------------
(***************************************************************************)
(* The build queue: POST /api/build/submit, claim and complete             *)
(* (cmd/glassfactory/main.go) over the builds table                        *)
(* (internal/persist/builds.go) and the signed chain.  Every request runs  *)
(* in a goroutine of its own.  Each store call is atomic, the request is   *)
(* not: between two of its calls any other request may run, a call may     *)
(* return an error, and the process may die.                               *)
(*                                                                         *)
(* The chain is projected on what the queue's properties read: the         *)
(* balances, what each key was charged for builds, and what was paid for   *)
(* each build.                                                             *)
(***************************************************************************)
EXTENDS Integers, FiniteSets, Functions

CONSTANTS
  Submitters,      \* keys that submit builds and hold obols
  Factories,       \* keys of registered factory nodes
  Unregistered,    \* keys of factories that never registered
  BuildIds,        \* what GenerateBuildID draws from
  Destinations,    \* "network" and others
  SpecLengths,     \* lengths of the submitted specs
  InitialBalance,  \* what every submitter holds at first
  Requests,        \* goroutines serving requests at a time
  NoKey,           \* the empty public_key
  None,            \* no build, no request, no reply
  StoreMayFail,    \* store calls may return errors
  MayCrash,        \* the process may die
  MaxRequests,     \* bound on the number of requests
  MaxFaults,       \* bound on store errors and crashes
  MaxTime          \* bound on the clock of submitted_at, in seconds

ASSUME BuildsAssumption ==
  /\ SpecLengths \subseteq Nat
  /\ \A n \in SpecLengths : 10 =< n /\ n =< 50000
  /\ InitialBalance \in Nat
  /\ MaxRequests \in Nat /\ MaxFaults \in Nat /\ MaxTime \in Nat
  /\ NoKey \notin Submitters \cup Factories \cup Unregistered
  /\ IsFiniteSet(BuildIds) /\ IsFiniteSet(Requests) /\ IsFiniteSet(Destinations)

ASSUME FaultsAssumption == StoreMayFail \in BOOLEAN /\ MayCrash \in BOOLEAN

VARIABLES
  builds,    \* the builds table: id -> row, None for no row
  balances,  \* the balances table
  charged,   \* obols each key was charged for build submissions
  paid,      \* obols paid for each build
  dropped,   \* builds whose status update failed without a word
  req,       \* the request each goroutine serves and its locals
  told,      \* the replies sent
  lost,      \* obols charged by submissions that then failed or died
  now,       \* the wall clock, in the seconds of submitted_at
  requests, faults

vars == <<builds, balances, charged, paid, dropped, req, told, lost, now, requests, faults>>
store == <<builds, balances, charged, paid, dropped>>

-----------------------------------------------------------------------------
Keys == Submitters \cup Factories \cup Unregistered
Status == {"queued", "assigned", "complete", "failed"}

\* 10 obols plus 1 per 100 characters, at most 200.
EstimateCost(chars) ==
  LET total == 10 + (chars \div 100) * 1
  IN  IF total > 200 THEN 200 ELSE total

\* What a factory earns for a build, in int64 arithmetic.
Payout(cost) == (cost * 80) \div 100

Exists(b) == builds[b] # None
HasStatus(b, s) == Exists(b) /\ builds[b].status = s

Init == /\ builds = [b \in BuildIds |-> None]
        /\ balances = [k \in Keys |-> IF k \in Submitters THEN InitialBalance ELSE 0]
        /\ charged = [k \in Keys |-> 0]
        /\ paid = [b \in BuildIds |-> 0]
        /\ dropped = {}
        /\ req = [r \in Requests |-> None]
        /\ told = {}
        /\ lost = [k \in Keys |-> 0]
        /\ now = 0 /\ requests = 0 /\ faults = 0

\* A goroutine takes up a request; at is the next store call it makes.
Start(r, request) ==
  /\ req[r] = None
  /\ requests < MaxRequests
  /\ req' = [req EXCEPT ![r] = request]
  /\ requests' = requests + 1
  /\ UNCHANGED <<builds, balances, charged, paid, dropped, told, lost, now, faults>>

At(r, op, place) == req[r] # None /\ req[r].op = op /\ req[r].at = place
Goto(r, place) == req' = [req EXCEPT ![r].at = place]

\* The request ends with an answer.
Answer(r, answer) == /\ req' = [req EXCEPT ![r] = None]
                     /\ told' = told \cup {answer}

\* The request ends with an error.
Fail(r) == /\ req' = [req EXCEPT ![r] = None]
           /\ UNCHANGED told

\* A store call returns an error.
StoreError == /\ StoreMayFail
              /\ faults < MaxFaults
              /\ faults' = faults + 1

-----------------------------------------------------------------------------
\* A bug: builds that stay at home are charged too.
SubmitCharged(r) ==
  \E k \in Submitters \cup {NoKey}, dest \in Destinations, n \in SpecLengths :
    Start(r, [op |-> "submit", at |-> IF k # NoKey THEN "check" ELSE "queue",
              key |-> k, dest |-> dest, cost |-> EstimateCost(n), since |-> now])

\* POST /api/build/submit
Submit(r) ==
  \E k \in Submitters \cup {NoKey}, dest \in Destinations, n \in SpecLengths :
    Start(r, [op |-> "submit",
              at |-> IF k # NoKey /\ dest = "network" THEN "check" ELSE "queue",
              key |-> k, dest |-> dest, cost |-> EstimateCost(n), since |-> now])

\* GetBalance: 402 if the submitter cannot pay, 500 on an error.
SubmitCheck(r) ==
  /\ At(r, "submit", "check")
  /\ \/ /\ balances[req[r].key] >= req[r].cost
        /\ Goto(r, "charge")
        /\ UNCHANGED <<told, faults>>
     \/ /\ balances[req[r].key] < req[r].cost
        /\ Fail(r)
        /\ UNCHANGED faults
     \/ StoreError /\ Fail(r)
  /\ UNCHANGED <<store, lost, now, requests>>

\* A bug: the charge trusts the check made a call ago.
SubmitChargeUnchecked(r) ==
  LET k == req[r].key
  IN  /\ At(r, "submit", "charge")
      /\ balances' = [balances EXCEPT ![k] = @ - req[r].cost]
      /\ charged' = [charged EXCEPT ![k] = @ + req[r].cost]
      /\ req' = [req EXCEPT ![r] = [@ EXCEPT !.at = "queue", !.since = now]]
      /\ UNCHANGED <<builds, paid, dropped, told, lost, now, requests, faults>>

\* AppendSignedEvent of -cost, which looks at the balance again; the request
\* ends on an error.
SubmitCharge(r) ==
  LET k == req[r].key
      newBal == balances[k] - req[r].cost
  IN  /\ At(r, "submit", "charge")
      /\ \/ /\ newBal >= 0
            /\ balances' = [balances EXCEPT ![k] = newBal]
            /\ charged' = [charged EXCEPT ![k] = @ + req[r].cost]
            /\ req' = [req EXCEPT ![r] = [@ EXCEPT !.at = "queue", !.since = now]]
            /\ UNCHANGED <<told, faults>>
         \/ /\ newBal < 0
            /\ Fail(r)
            /\ UNCHANGED <<balances, charged, faults>>
         \/ StoreError /\ Fail(r) /\ UNCHANGED <<balances, charged>>
      /\ UNCHANGED <<builds, paid, dropped, lost, now, requests>>

\* What a submission would leave charged without a build if it stopped here.
Unbacked(r, k) ==
  IF At(r, "submit", "queue") /\ req[r].key = k /\ req[r].dest = "network"
  THEN req[r].cost ELSE 0

AllUnbacked(k) == SumFunction([r \in Requests |-> Unbacked(r, k)])

\* SubmitBuild under a fresh random id; there is no refund on an error.  The
\* row carries the time at which the handler went on from its last call (or
\* from the request), not the time of the insert, which may wait for others.
SubmitQueue(r) ==
  /\ At(r, "submit", "queue")
  /\ \/ \E b \in {x \in BuildIds : ~ Exists(x)}, stamp \in req[r].since..now :
          /\ builds' = [builds EXCEPT ![b] =
               [publicKey |-> req[r].key, destination |-> req[r].dest,
                status |-> "queued", cost |-> req[r].cost, assignedTo |-> NoKey,
                submittedAt |-> stamp]]
          /\ Answer(r, [op |-> "submit", build |-> b, key |-> req[r].key])
          /\ UNCHANGED <<lost, faults>>
     \/ /\ StoreError
        /\ Fail(r)
        /\ lost' = [k \in Keys |-> lost[k] + Unbacked(r, k)]
        /\ UNCHANGED builds
  /\ UNCHANGED <<balances, charged, paid, dropped, now, requests>>

-----------------------------------------------------------------------------
\* POST /api/build/claim; waiting is what was queued when it arrived.
Claim(r) ==
  \E f \in Factories \cup Unregistered :
    Start(r, [op |-> "claim", at |-> "node", key |-> f, build |-> None,
              waiting |-> {b \in BuildIds : HasStatus(b, "queued")}])

\* GetNode: 403 unless the factory is registered.
ClaimNode(r) ==
  /\ At(r, "claim", "node")
  /\ \/ /\ req[r].key \in Factories
        /\ Goto(r, "next")
        /\ UNCHANGED <<told, faults>>
     \/ req[r].key \notin Factories /\ Fail(r) /\ UNCHANGED faults
     \/ StoreError /\ Fail(r)
  /\ UNCHANGED <<store, lost, now, requests>>

Queued == {b \in BuildIds : HasStatus(b, "queued")}
\* A bug: ORDER BY submitted_at DESC.
Newest == {b \in Queued : \A q \in Queued :
             builds[q].submittedAt =< builds[b].submittedAt}

Oldest == {b \in Queued : \A q \in Queued :
             builds[b].submittedAt =< builds[q].submittedAt}

\* NextQueuedBuild: one of the oldest; the order within a second is open.
ClaimNext(r) ==
  /\ At(r, "claim", "next")
  /\ \/ /\ \E b \in Oldest :
             req' = [req EXCEPT ![r].build = b, ![r].at = "assign"]
        /\ UNCHANGED <<told, faults>>
     \/ /\ Queued = {}
        /\ Answer(r, [op |-> "empty"])
        /\ UNCHANGED faults
     \/ StoreError /\ Fail(r)
  /\ UNCHANGED <<store, lost, now, requests>>

\* A bug: the update does not look at the status.
AssignBuildAnyway(b, f) ==
  builds' = [builds EXCEPT ![b].status = "assigned", ![b].assignedTo = f]

\* AssignBuild changes the row only if it is still queued, and does not say
\* whether it did.
AssignBuild(b, f) ==
  builds' = IF HasStatus(b, "queued")
            THEN [builds EXCEPT ![b].status = "assigned", ![b].assignedTo = f]
            ELSE builds

ClaimAssign(r) ==
  /\ At(r, "claim", "assign")
  /\ \/ /\ AssignBuild(req[r].build, req[r].key)
        /\ Answer(r, [op |-> "assigned", build |-> req[r].build, key |-> req[r].key])
        /\ UNCHANGED faults
     \/ StoreError /\ Fail(r) /\ UNCHANGED builds
  /\ UNCHANGED <<balances, charged, paid, dropped, lost, now, requests>>

-----------------------------------------------------------------------------
\* POST /api/build/complete.  The handler does not ask whose build it is: the
\* report may be of any build, in any state, under any key or none.
Complete(r) ==
  \E f \in Keys \cup {NoKey}, b \in BuildIds, success \in BOOLEAN :
    Start(r, [op |-> "complete", at |-> "get", key |-> f,
              build |-> b, success |-> success, cost |-> 0])

\* A bug: a success is paid and its status never written.
CompleteGetPays(r) ==
  /\ At(r, "complete", "get")
  /\ Exists(req[r].build)
  /\ req' = [req EXCEPT ![r].cost = builds[req[r].build].cost,
                        ![r].at = IF @ = "get" /\ req[r].success THEN "pay" ELSE "update"]
  /\ UNCHANGED <<store, told, lost, now, requests, faults>>

\* GetBuild: 404 if there is none; an error reads the same.
CompleteGet(r) ==
  /\ At(r, "complete", "get")
  /\ \/ /\ Exists(req[r].build)
        /\ req' = [req EXCEPT ![r].cost = builds[req[r].build].cost, ![r].at = "update"]
        /\ UNCHANGED <<told, faults>>
     \/ ~ Exists(req[r].build) /\ Fail(r) /\ UNCHANGED faults
     \/ StoreError /\ Fail(r)
  /\ UNCHANGED <<store, lost, now, requests>>

\* UpdateBuildStatus, whatever the status was; its error is dropped.
CompleteUpdate(r) ==
  LET b == req[r].build
      status == IF req[r].success THEN "complete" ELSE "failed"
  IN  /\ At(r, "complete", "update")
      /\ \/ /\ builds' = [builds EXCEPT ![b].status = status]
            /\ UNCHANGED <<dropped, faults>>
         \/ /\ StoreError
            /\ dropped' = dropped \cup {b}
            /\ UNCHANGED builds
      /\ IF req[r].success /\ req[r].key # NoKey /\ req[r].cost > 0
         THEN Goto(r, "pay") /\ UNCHANGED told
         ELSE Answer(r, [op |-> status, build |-> b, key |-> req[r].key])
      /\ UNCHANGED <<balances, charged, paid, lost, now, requests>>

\* AppendSignedEvent of 80% of the cost; an error is only logged.
CompletePay(r) ==
  LET b == req[r].build
      earned == Payout(req[r].cost)
  IN  /\ At(r, "complete", "pay")
      /\ \/ /\ balances' = [balances EXCEPT ![req[r].key] = @ + earned]
            /\ paid' = [paid EXCEPT ![b] = @ + earned]
            /\ UNCHANGED faults
         \/ StoreError /\ UNCHANGED <<balances, paid>>
      /\ Answer(r, [op |-> "complete", build |-> b, key |-> req[r].key])
      /\ UNCHANGED <<builds, charged, dropped, lost, now, requests>>

-----------------------------------------------------------------------------
Tick == /\ now < MaxTime
        /\ now' = now + 1
        /\ UNCHANGED <<store, req, told, lost, requests, faults>>

\* Every running request dies with the process; the tables stay.
Crash ==
  /\ MayCrash
  /\ faults < MaxFaults
  /\ faults' = faults + 1
  /\ lost' = [k \in Keys |-> lost[k] + AllUnbacked(k)]
  /\ req' = [r \in Requests |-> None]
  /\ UNCHANGED <<store, told, now, requests>>

Next == \/ \E r \in Requests :
             \/ Submit(r) \/ SubmitCheck(r) \/ SubmitCharge(r) \/ SubmitQueue(r)
             \/ Claim(r) \/ ClaimNode(r) \/ ClaimNext(r) \/ ClaimAssign(r)
             \/ Complete(r) \/ CompleteGet(r) \/ CompleteUpdate(r) \/ CompletePay(r)
        \/ Tick
        \/ Crash

Spec == Init /\ [][Next]_vars

-----------------------------------------------------------------------------
Rows == [publicKey : Submitters \cup {NoKey}, destination : Destinations,
         status : Status, cost : 10..200, assignedTo : Factories \cup {NoKey},
         submittedAt : 0..MaxTime]

\* What a goroutine knows at each call of a request: that a submission about
\* to be charged is a named key's, that whoever is past GetNode is
\* registered, that who is to be paid reported a success.
Submissions ==
  [op : {"submit"}, at : {"check", "charge"}, key : Submitters, dest : Destinations \cap {"network"},
   cost : 10..200, since : 0..MaxTime]
  \cup [op : {"submit"}, at : {"queue"}, key : Submitters \cup {NoKey},
        dest : Destinations, cost : 10..200, since : 0..MaxTime]
Claims ==
  [op : {"claim"}, at : {"node"}, key : Factories \cup Unregistered, build : {None},
   waiting : SUBSET BuildIds]
  \cup [op : {"claim"}, at : {"next"}, key : Factories, build : {None},
        waiting : SUBSET BuildIds]
  \cup [op : {"claim"}, at : {"assign"}, key : Factories, build : BuildIds,
        waiting : SUBSET BuildIds]
Reports ==
  [op : {"complete"}, at : {"get"}, key : Keys \cup {NoKey}, build : BuildIds,
   success : BOOLEAN, cost : {0}]
  \cup [op : {"complete"}, at : {"update"}, key : Keys \cup {NoKey},
        build : BuildIds, success : BOOLEAN, cost : 10..200]
  \cup [op : {"complete"}, at : {"pay"}, key : Keys, build : BuildIds,
        success : {TRUE}, cost : 10..200]

ASSUME NoneAssumption == None \notin Rows \cup Submissions \cup Claims \cup Reports

\* Every variable has its type: a build costs 10 to 200 obols, and only
\* registered factories are given one.
TypeOK ==
  /\ builds \in [BuildIds -> Rows \cup {None}]
  /\ balances \in [Keys -> Int]
  /\ charged \in [Keys -> Nat]
  /\ paid \in [BuildIds -> Nat]
  /\ dropped \subseteq BuildIds
  /\ lost \in [Keys -> Nat]
  /\ req \in [Requests -> Submissions \cup Claims \cup Reports \cup {None}]
  /\ now \in 0..MaxTime

\* Two submissions that both pass the balance check never overdraw the
\* account: the charge looks again.
NeverOverdrawn == \A k \in Keys : balances[k] >= 0

CostFor(b, k, dest) ==
  IF Exists(b) /\ builds[b].publicKey = k /\ builds[b].destination = dest
  THEN builds[b].cost ELSE 0

CostOfBuilds(k, dest) == SumFunction([b \in BuildIds |-> CostFor(b, k, dest)])

\* Every obol charged for a build is behind a build of that key on the
\* network, behind a submission still running, or was lost by one that
\* failed or died after the charge; and no network build of a named key
\* gets into the queue without its charge.
ChargesAccountedFor ==
  \A k \in Keys :
    charged[k] = CostOfBuilds(k, "network") + lost[k] + AllUnbacked(k)

\* The stage of the abstract queue a status stands for.
Stage(s) == IF s \in {"complete", "failed"} THEN "over" ELSE s
StageOf(b) == IF Exists(b) THEN Stage(builds[b].status) ELSE "none"
TakerOf(b) == IF Exists(b) THEN builds[b].assignedTo ELSE NoKey

\* Requests that take a build in several calls, overlap, fail and die still
\* make a queue in which every build is queued once, goes to one factory for
\* good, never comes back, and is paid for only when it is over: a late claim
\* changes nothing, although it read the build as queued some calls ago.
Queue == INSTANCE BuildQueue WITH
           Builds <- BuildIds, Takers <- Factories, Nobody <- NoKey,
           stage <- [b \in BuildIds |-> StageOf(b)],
           taker <- [b \in BuildIds |-> TakerOf(b)],
           unwritten <- dropped,
           pay <- paid

ImplementsBuildQueue == Queue!Spec

\* First come, first served across seconds: a claim never takes a build while
\* one submitted in an earlier second, queued when the claim arrived, is
\* still queued.
NoOvertaking ==
  [][\A r \in Requests : At(r, "claim", "assign") /\ req'[r] = None =>
       LET b == req[r].build
       IN  HasStatus(b, "queued") /\ builds'[b].status = "assigned" =>
             \A q \in req[r].waiting :
               builds'[q].status = "queued" =>
                 builds[b].submittedAt =< builds[q].submittedAt
    ]_vars

\* A factory is paid only for a build whose row says that it is over, and
\* is told that its report was taken only if the row says so too, wherever a
\* request stops, unless the store failed to write that row.
PaidBuildsAreOver ==
  \A b \in BuildIds \ dropped :
    \/ paid[b] > 0
    \/ \E a \in told : a.op \in {"complete", "failed"} /\ a.build = b
    => Stage(builds[b].status) = "over"

-----------------------------------------------------------------------------
(***************************************************************************)
(* What the documentation says and the code does not keep.                 *)
(***************************************************************************)
\* README 184: "a factory node on the network claims the job and builds it".
\* No two factories are answered "assigned" (main.go 1049) for one build.
OneFactoryIsTold ==
  \A a, c \in told :
    a.op = "assigned" /\ c.op = "assigned" /\ a.build = c.build => a.key = c.key

\* README 303: "A factory completing a build earns 80% of the build cost".
\* No build earns more than that.
PaidAtMostOnce ==
  \A b \in BuildIds : Exists(b) => paid[b] =< Payout(builds[b].cost)

\* The same sentence: a build that a factory reported complete, with no report
\* on it still running, has been paid for.
CompletedIsPaid ==
  \A b \in BuildIds :
    /\ HasStatus(b, "complete")
    /\ [op |-> "complete", build |-> b, key |-> NoKey] \notin told
    /\ \A r \in Requests : req[r] # None /\ req[r].op = "complete" => req[r].build # b
    => paid[b] >= Payout(builds[b].cost)

\* builds.go 33: Cost is what was charged: no submitter's builds cost more
\* than it was charged, and anonymous ones cost nothing.
CostIsCharged ==
  \A k \in Submitters \cup {NoKey} :
    SumFunction([d \in Destinations |-> CostOfBuilds(k, d)])
      =< IF k = NoKey THEN 0 ELSE charged[k]

\* main.go 1086 answers "complete": at that moment the row says so.
CompleteReplyIsTrue ==
  [][\A r \in Requests, b \in BuildIds :
       /\ req[r] # None /\ req'[r] = None
       /\ req[r].op = "complete" /\ req[r].build = b
       /\ [op |-> "complete", build |-> b, key |-> req[r].key] \in told' \ told
       => builds'[b].status = "complete"]_vars
=============================================================================
