---------------------------- MODULE BuildsProofs ----------------------------
(***************************************************************************)
(* Proofs about the build queue, for any keys, builds, prices and number   *)
(* of goroutines, and any faults.                                          *)
(***************************************************************************)
EXTENDS Builds, Sums, TLAPS

\* A price is never nothing and never above the cap.
LEMMA PriceRange == \A n \in SpecLengths : EstimateCost(n) \in 10..200
<1> SUFFICES ASSUME NEW n \in SpecLengths PROVE EstimateCost(n) \in 10..200
  OBVIOUS
<1>1. n \in Nat
  BY BuildsAssumption
<1>2. n \div 100 \in Nat
  BY <1>1
<1> QED
  BY <1>2 DEF EstimateCost

\* Whoever is paid is paid something.
LEMMA PayoutPositive == \A c \in 10..200 : Payout(c) \in Nat /\ Payout(c) > 0
  BY DEF Payout

\* What is known of a request at a store call, and what it may become.
LEMMA SubmissionAt ==
  ASSUME TypeOK, NEW r \in Requests, NEW place, At(r, "submit", place)
  PROVE  /\ req[r] \in Submissions
         /\ req[r].key \in Keys \cup {NoKey} /\ req[r].cost \in 10..200
         /\ req[r].since \in 0..MaxTime
         /\ place \in {"check", "charge"} =>
              /\ req[r].key \in Submitters
              /\ [req[r] EXCEPT !.at = "charge"] \in Submissions
              /\ [req[r] EXCEPT !.at = "queue", !.since = now] \in Submissions
         /\ place = "queue" =>
              req[r].key \in Submitters \cup {NoKey} /\ req[r].dest \in Destinations
<1>1. req[r] \in Submissions
  <2>1. req[r] \in Submissions \cup Claims \cup Reports
    BY DEF TypeOK, At
  <2>2. req[r].op = "submit"
    BY DEF At
  <2> QED
    BY <2>1, <2>2 DEF Claims, Reports
<1>2. req[r].at = place
  BY DEF At
<1>3. now \in 0..MaxTime
  BY DEF TypeOK
<1> QED
  BY <1>1, <1>2, <1>3 DEF Submissions, Keys

\* What a claim holds at each of its steps.
LEMMA ClaimAt ==
  ASSUME TypeOK, NEW r \in Requests, NEW place, At(r, "claim", place)
  PROVE  /\ req[r] \in Claims
         /\ req[r].waiting \subseteq BuildIds
         /\ place = "node" /\ req[r].key \in Factories =>
              [req[r] EXCEPT !.at = "next"] \in Claims
         /\ place = "next" =>
              \A b \in BuildIds : [req[r] EXCEPT !.build = b, !.at = "assign"] \in Claims
         /\ place = "assign" => req[r].build \in BuildIds /\ req[r].key \in Factories
<1>1. req[r] \in Claims
  <2>1. req[r] \in Submissions \cup Claims \cup Reports
    BY DEF TypeOK, At
  <2>2. req[r].op = "claim"
    BY DEF At
  <2> QED
    BY <2>1, <2>2 DEF Submissions, Reports
<1>2. req[r].at = place
  BY DEF At
<1> QED
  BY <1>1, <1>2 DEF Claims

\* What a report on a build holds at each of its steps.
LEMMA ReportAt ==
  ASSUME TypeOK, NEW r \in Requests, NEW place, At(r, "complete", place)
  PROVE  /\ req[r] \in Reports
         /\ req[r].build \in BuildIds /\ req[r].success \in BOOLEAN
         /\ req[r].key \in Keys \cup {NoKey}
         /\ place = "get" =>
              \A c \in 10..200 : [req[r] EXCEPT !.cost = c, !.at = "update"] \in Reports
         /\ place = "update" =>
              (req[r].success /\ req[r].key # NoKey
                 => [req[r] EXCEPT !.at = "pay"] \in Reports)
         /\ place \in {"update", "pay"} => req[r].cost \in 10..200
         /\ place = "pay" => req[r].key \in Keys
<1>1. req[r] \in Reports
  <2>1. req[r] \in Submissions \cup Claims \cup Reports
    BY DEF TypeOK, At
  <2>2. req[r].op = "complete"
    BY DEF At
  <2> QED
    BY <2>1, <2>2 DEF Submissions, Claims
<1>2. req[r].at = place
  BY DEF At
<1> QED
  BY <1>1, <1>2 DEF Reports, Keys

-----------------------------------------------------------------------------
(***************************************************************************)
(* The three calls that write rows.                                        *)
(***************************************************************************)
\* A build that a request goes on with is there.
TargetsExist ==
  \A r \in Requests :
    /\ \A place \in {"update", "pay"} : At(r, "complete", place) => Exists(req[r].build)
    /\ At(r, "claim", "assign") => Exists(req[r].build)
    /\ \A place \in {"node", "next", "assign"} :
         At(r, "claim", place) => \A b \in req[r].waiting : Exists(b)

\* SubmitBuild adds a queued row or none.
LEMMA QueueWrites ==
  ASSUME TypeOK, NEW r \in Requests, SubmitQueue(r)
  PROVE  \/ builds' = builds /\ lost' = [k \in Keys |-> lost[k] + Unbacked(r, k)]
         \/ \E b \in BuildIds, row \in Rows :
              /\ ~ Exists(b)
              /\ builds' = [builds EXCEPT ![b] = row]
              /\ row.status = "queued" /\ row.assignedTo = NoKey
              /\ row.publicKey = req[r].key /\ row.destination = req[r].dest
              /\ row.cost = req[r].cost
              /\ lost' = lost
<1> DEFINE row(stamp) == [publicKey |-> req[r].key, destination |-> req[r].dest,
                          status |-> "queued", cost |-> req[r].cost, assignedTo |-> NoKey,
                          submittedAt |-> stamp]
<1>1. req[r].key \in Submitters \cup {NoKey} /\ req[r].dest \in Destinations
      /\ req[r].cost \in 10..200 /\ req[r].since \in 0..MaxTime
  BY SubmissionAt DEF SubmitQueue
<1>2. ASSUME NEW stamp \in req[r].since..now
      PROVE  /\ row(stamp) \in Rows /\ row(stamp).status = "queued"
             /\ row(stamp).assignedTo = NoKey /\ row(stamp).publicKey = req[r].key
             /\ row(stamp).destination = req[r].dest /\ row(stamp).cost = req[r].cost
  <2>1. stamp \in 0..MaxTime
    BY <1>1, BuildsAssumption DEF TypeOK
  <2> QED
    BY <1>1, <2>1 DEF Rows, Status
<1>3. \/ builds' = builds /\ lost' = [k \in Keys |-> lost[k] + Unbacked(r, k)]
      \/ \E b \in BuildIds, stamp \in req[r].since..now :
           /\ ~ Exists(b) /\ builds' = [builds EXCEPT ![b] = row(stamp)]
           /\ lost' = lost
  BY DEF SubmitQueue
<1> HIDE DEF row
<1> QED
  BY <1>2, <1>3

\* AssignBuild gives a queued build to the claimer, or changes nothing.
LEMMA AssignWrites ==
  ASSUME TypeOK, NEW r \in Requests, ClaimAssign(r)
  PROVE  \/ builds' = builds
         \/ \E b \in BuildIds, row \in Rows :
              /\ b = req[r].build
              /\ HasStatus(b, "queued")
              /\ builds' = [builds EXCEPT ![b] = row]
              /\ row.status = "assigned" /\ row.assignedTo = req[r].key
              /\ row.submittedAt = builds[b].submittedAt
              /\ row.publicKey = builds[b].publicKey
              /\ row.destination = builds[b].destination
              /\ row.cost = builds[b].cost
<1>1. req[r].build \in BuildIds /\ req[r].key \in Factories
  BY ClaimAt DEF ClaimAssign
<1>2. PICK b \in BuildIds : b = req[r].build
  BY <1>1
<1> DEFINE row == [builds[b] EXCEPT !.status = "assigned", !.assignedTo = req[r].key]
<1>3. Exists(b) => /\ row \in Rows
                   /\ row.status = "assigned" /\ row.assignedTo = req[r].key
                   /\ row.submittedAt = builds[b].submittedAt
                   /\ row.publicKey = builds[b].publicKey
                   /\ row.destination = builds[b].destination
                   /\ row.cost = builds[b].cost
  <2>1. Exists(b) => builds[b] \in Rows
    BY DEF TypeOK, Exists
  <2> QED
    BY <1>1, <2>1 DEF Rows, Status
<1>4. \/ builds' = builds
      \/ HasStatus(b, "queued") /\ builds' = [builds EXCEPT ![b] = row]
  BY <1>2 DEF ClaimAssign, AssignBuild, HasStatus, TypeOK
<1>5. HasStatus(b, "queued") => Exists(b)
  BY DEF HasStatus
<1> HIDE DEF row
<1> QED
  BY <1>2, <1>3, <1>4, <1>5

\* UpdateBuildStatus ends a build, or fails without a word.
LEMMA UpdateWrites ==
  ASSUME TypeOK, TargetsExist, NEW r \in Requests, CompleteUpdate(r)
  PROVE  \/ /\ builds' = builds
            /\ dropped' = dropped \cup {req[r].build}
         \/ \E b \in BuildIds, row \in Rows :
              /\ b = req[r].build
              /\ builds' = [builds EXCEPT ![b] = row]
              /\ Stage(row.status) = "over"
              /\ row.assignedTo = builds[b].assignedTo
              /\ row.submittedAt = builds[b].submittedAt
              /\ row.publicKey = builds[b].publicKey
              /\ row.destination = builds[b].destination
              /\ row.cost = builds[b].cost
              /\ dropped' = dropped
<1>1. req[r].build \in BuildIds /\ Exists(req[r].build)
  BY ReportAt DEF CompleteUpdate, TargetsExist
<1>2. PICK b \in BuildIds : b = req[r].build
  BY <1>1
<1> DEFINE s == IF req[r].success THEN "complete" ELSE "failed"
           row == [builds[b] EXCEPT !.status = s]
<1>3. /\ row \in Rows
      /\ Stage(row.status) = "over"
      /\ row.assignedTo = builds[b].assignedTo
      /\ row.submittedAt = builds[b].submittedAt
      /\ row.publicKey = builds[b].publicKey
      /\ row.destination = builds[b].destination
      /\ row.cost = builds[b].cost
  <2>1. builds[b] \in Rows
    BY <1>1, <1>2 DEF TypeOK, Exists
  <2>2. s \in Status /\ s \in {"complete", "failed"}
    BY DEF Status
  <2> HIDE DEF s
  <2> QED
    BY <2>1, <2>2 DEF Rows, Stage
<1>4. \/ builds' = builds /\ dropped' = dropped \cup {b}
      \/ builds' = [builds EXCEPT ![b] = row] /\ dropped' = dropped
  <2>1. \/ builds' = [builds EXCEPT ![b].status = s] /\ dropped' = dropped
        \/ builds' = builds /\ dropped' = dropped \cup {b}
    BY <1>2 DEF CompleteUpdate
  <2> QED
    BY <2>1 DEF TypeOK
<1> HIDE DEF row
<1> QED
  BY <1>2, <1>3, <1>4

-----------------------------------------------------------------------------
\* What a submission has charged and not yet backed is a number of obols, and
\* so is the sum over all requests.
LEMMA UnbackedType ==
  ASSUME TypeOK, NEW k
  PROVE  /\ \A s \in Requests : Unbacked(s, k) \in Nat
         /\ AllUnbacked(k) \in Nat
<1>1. ASSUME NEW r \in Requests PROVE Unbacked(r, k) \in Nat
  <2>1. CASE At(r, "submit", "queue")
    <3>1. req[r].cost \in 10..200
      BY <2>1, SubmissionAt
    <3> QED
      BY <3>1 DEF Unbacked
  <2>2. CASE ~ At(r, "submit", "queue")
    BY <2>2 DEF Unbacked
  <2> QED
    BY <2>1, <2>2
<1> DEFINE f == [r \in Requests |-> Unbacked(r, k)]
<1>2. DOMAIN f = Requests /\ \A r \in Requests : f[r] \in Nat
  BY <1>1
<1>3. SumFunction(f) \in Nat
  <2> HIDE DEF f
  <2> QED
    BY <1>2, BuildsAssumption, SumInt
<1> QED
  BY <1>1, <1>3 DEF AllUnbacked

Pending == Submissions \cup Claims \cup Reports \cup {None}

\* A request that was taken up, moved on or ended leaves the others alone.
LEMMA ReqTypes ==
  ASSUME TypeOK, NEW r \in Requests, NEW q \in Pending, req' = [req EXCEPT ![r] = q]
  PROVE  req' \in [Requests -> Pending]
  BY DEF TypeOK, Pending

\* TypeOK is preserved by every store call of every request.
LEMMA TypeInductive == TypeOK /\ TargetsExist /\ [Next]_vars => TypeOK'
<1> SUFFICES ASSUME TypeOK, TargetsExist, [Next]_vars PROVE TypeOK'
  OBVIOUS
<1> USE DEF store
<1>0. None \in Pending /\ Submissions \subseteq Pending /\ Claims \subseteq Pending
      /\ Reports \subseteq Pending
  BY DEF Pending
<1>1. ASSUME NEW r \in Requests, Submit(r) PROVE TypeOK'
  <2>1. PICK k \in Submitters \cup {NoKey}, dest \in Destinations, n \in SpecLengths :
          Start(r, [op |-> "submit",
                    at |-> IF k # NoKey /\ dest = "network" THEN "check" ELSE "queue",
                    key |-> k, dest |-> dest, cost |-> EstimateCost(n), since |-> now])
    BY <1>1 DEF Submit
  <2> DEFINE q == [op |-> "submit",
                   at |-> IF k # NoKey /\ dest = "network" THEN "check" ELSE "queue",
                   key |-> k, dest |-> dest, cost |-> EstimateCost(n), since |-> now]
  <2>2. q \in Submissions
    <3>1. EstimateCost(n) \in 10..200
      BY PriceRange
    <3>2. now \in 0..MaxTime
      BY DEF TypeOK
    <3> QED
      BY <3>1, <3>2 DEF Submissions
  <2> HIDE DEF q
  <2>3. req' \in [Requests -> Pending]
    BY <2>1, <2>2, <1>0, ReqTypes DEF Start, q
  <2> QED
    BY <2>1, <2>3 DEF TypeOK, Pending, Start
<1>2. ASSUME NEW r \in Requests, SubmitCheck(r) PROVE TypeOK'
  <2>1. At(r, "submit", "check")
    BY <1>2 DEF SubmitCheck
  <2>2. [req[r] EXCEPT !.at = "charge"] \in Pending
    BY <2>1, <1>0, SubmissionAt
  <2>3. req' \in [Requests -> Pending]
    BY <1>2, <2>2, <1>0, ReqTypes DEF SubmitCheck, Goto, Fail
  <2> QED
    BY <1>2, <2>3 DEF SubmitCheck, TypeOK, Pending
<1>3. ASSUME NEW r \in Requests, SubmitCharge(r) PROVE TypeOK'
  <2>1. At(r, "submit", "charge")
    BY <1>3 DEF SubmitCharge
  <2>2. /\ [req[r] EXCEPT !.at = "queue", !.since = now] \in Pending
        /\ req[r].key \in Keys /\ req[r].cost \in Nat
    <3>1. /\ [req[r] EXCEPT !.at = "queue", !.since = now] \in Submissions
          /\ req[r].key \in Submitters /\ req[r].cost \in 10..200
      BY <2>1, SubmissionAt
    <3> QED
      BY <3>1, <1>0 DEF Keys
  <2>3. req' \in [Requests -> Pending]
    BY <1>3, <2>2, <1>0, ReqTypes DEF SubmitCharge, Fail
  <2>4. balances' \in [Keys -> Int] /\ charged' \in [Keys -> Nat]
    BY <1>3, <2>2 DEF SubmitCharge, TypeOK
  <2> QED
    BY <1>3, <2>3, <2>4 DEF SubmitCharge, TypeOK, Pending
<1>4. ASSUME NEW r \in Requests, SubmitQueue(r) PROVE TypeOK'
  <2>3. builds' \in [BuildIds -> Rows \cup {None}]
    BY <1>4, QueueWrites DEF TypeOK
  <2>4. req' \in [Requests -> Pending]
    BY <1>4, <1>0, ReqTypes DEF SubmitQueue, Answer, Fail
  <2>5. lost' \in [Keys -> Nat]
    <3>1. lost' = lost \/ lost' = [k \in Keys |-> lost[k] + Unbacked(r, k)]
      BY <1>4 DEF SubmitQueue
    <3>2. \A k \in Keys : lost[k] \in Nat /\ Unbacked(r, k) \in Nat
      BY UnbackedType DEF TypeOK
    <3> QED
      BY <3>1, <3>2 DEF TypeOK
  <2> QED
    BY <1>4, <2>3, <2>4, <2>5 DEF SubmitQueue, TypeOK, Pending
<1>5. ASSUME NEW r \in Requests, Claim(r) PROVE TypeOK'
  <2>1. PICK f \in Factories \cup Unregistered :
          Start(r, [op |-> "claim", at |-> "node", key |-> f, build |-> None,
                    waiting |-> {b \in BuildIds : HasStatus(b, "queued")}])
    BY <1>5 DEF Claim
  <2> DEFINE q == [op |-> "claim", at |-> "node", key |-> f, build |-> None,
                   waiting |-> {b \in BuildIds : HasStatus(b, "queued")}]
  <2>2. q \in Claims
    BY DEF Claims
  <2> HIDE DEF q
  <2>3. req' \in [Requests -> Pending]
    BY <2>1, <2>2, <1>0, ReqTypes DEF Start, q
  <2> QED
    BY <2>1, <2>3 DEF TypeOK, Pending, Start
<1>6. ASSUME NEW r \in Requests, ClaimNode(r) PROVE TypeOK'
  <2>1. At(r, "claim", "node")
    BY <1>6 DEF ClaimNode
  <2>2. req[r].key \in Factories => [req[r] EXCEPT !.at = "next"] \in Pending
    BY <2>1, <1>0, ClaimAt
  <2>3. req' \in [Requests -> Pending]
    BY <1>6, <2>2, <1>0, ReqTypes DEF ClaimNode, Goto, Fail
  <2> QED
    BY <1>6, <2>3 DEF ClaimNode, TypeOK, Pending
<1>7. ASSUME NEW r \in Requests, ClaimNext(r) PROVE TypeOK'
  <2>1. At(r, "claim", "next")
    BY <1>7 DEF ClaimNext
  <2>2. \A b \in BuildIds : [req[r] EXCEPT !.build = b, !.at = "assign"] \in Pending
    BY <2>1, <1>0, ClaimAt
  <2>3. \/ req' = [req EXCEPT ![r] = None]
        \/ \E b \in BuildIds : req' = [req EXCEPT ![r].build = b, ![r].at = "assign"]
    BY <1>7 DEF ClaimNext, Answer, Fail, Oldest, Queued
  <2>4. req' \in [Requests -> Pending]
    <3>1. CASE req' = [req EXCEPT ![r] = None]
      BY <3>1, <1>0, ReqTypes
    <3>2. ASSUME NEW b \in BuildIds, req' = [req EXCEPT ![r].build = b, ![r].at = "assign"]
          PROVE  req' \in [Requests -> Pending]
      <4>1. req' = [req EXCEPT ![r] = [req[r] EXCEPT !.build = b, !.at = "assign"]]
        BY <3>2 DEF TypeOK
      <4> QED
        BY <4>1, <2>2, ReqTypes
    <3> QED
      BY <2>3, <3>1, <3>2
  <2> QED
    BY <1>7, <2>4 DEF ClaimNext, TypeOK, Pending
<1>8. ASSUME NEW r \in Requests, ClaimAssign(r) PROVE TypeOK'
  <2>3. builds' \in [BuildIds -> Rows \cup {None}]
    BY <1>8, AssignWrites DEF TypeOK
  <2>4. req' \in [Requests -> Pending]
    BY <1>8, <1>0, ReqTypes DEF ClaimAssign, Answer, Fail
  <2> QED
    BY <1>8, <2>3, <2>4 DEF ClaimAssign, TypeOK, Pending
<1>9. ASSUME NEW r \in Requests, Complete(r) PROVE TypeOK'
  <2>1. PICK f \in Keys \cup {NoKey}, b \in BuildIds, success \in BOOLEAN :
          Start(r, [op |-> "complete", at |-> "get", key |-> f,
                    build |-> b, success |-> success, cost |-> 0])
    BY <1>9 DEF Complete
  <2> DEFINE q == [op |-> "complete", at |-> "get", key |-> f,
                   build |-> b, success |-> success, cost |-> 0]
  <2>2. q \in Reports
    BY DEF Reports
  <2> HIDE DEF q
  <2>3. req' \in [Requests -> Pending]
    BY <2>1, <2>2, <1>0, ReqTypes DEF Start, q
  <2> QED
    BY <2>1, <2>3 DEF TypeOK, Pending, Start
<1>10. ASSUME NEW r \in Requests, CompleteGet(r) PROVE TypeOK'
  <2>1. At(r, "complete", "get")
    BY <1>10 DEF CompleteGet
  <2>2. req[r].build \in BuildIds
    BY <2>1, ReportAt
  <2>3. req' \in [Requests -> Pending]
    <3> DEFINE c == builds[req[r].build].cost
    <3>1. Exists(req[r].build) => [req[r] EXCEPT !.cost = c, !.at = "update"] \in Pending
      <4>1. Exists(req[r].build) => c \in 10..200
        BY <2>2 DEF TypeOK, Rows, Exists
      <4> QED
        BY <2>1, <4>1, <1>0, ReportAt
    <3>2. \/ req' = [req EXCEPT ![r] = None]
          \/ /\ Exists(req[r].build)
             /\ req' = [req EXCEPT ![r] = [req[r] EXCEPT !.cost = c, !.at = "update"]]
      BY <1>10 DEF CompleteGet, Fail, TypeOK
    <3> HIDE DEF c
    <3> QED
      BY <3>1, <3>2, <1>0, ReqTypes
  <2> QED
    BY <1>10, <2>3 DEF CompleteGet, TypeOK, Pending
<1>11. ASSUME NEW r \in Requests, CompleteUpdate(r) PROVE TypeOK'
  <2>1. At(r, "complete", "update")
    BY <1>11 DEF CompleteUpdate
  <2>2. req[r].build \in BuildIds
    BY <2>1, ReportAt
  <2>3. builds' \in [BuildIds -> Rows \cup {None}]
    BY <1>11, UpdateWrites DEF TypeOK
  <2>4. req' \in [Requests -> Pending]
    <3>1. req[r].success /\ req[r].key # NoKey => [req[r] EXCEPT !.at = "pay"] \in Pending
      BY <2>1, <1>0, ReportAt
    <3> QED
      BY <1>11, <3>1, <1>0, ReqTypes DEF CompleteUpdate, Goto, Answer
  <2> QED
    BY <1>11, <2>2, <2>3, <2>4 DEF CompleteUpdate, TypeOK, Pending
<1>12. ASSUME NEW r \in Requests, CompletePay(r) PROVE TypeOK'
  <2>1. At(r, "complete", "pay")
    BY <1>12 DEF CompletePay
  <2>2. /\ req[r].build \in BuildIds /\ req[r].key \in Keys
        /\ Payout(req[r].cost) \in Nat
    BY <2>1, ReportAt, PayoutPositive DEF Keys
  <2>3. balances' \in [Keys -> Int] /\ paid' \in [BuildIds -> Nat]
    BY <1>12, <2>2 DEF CompletePay, TypeOK
  <2>4. req' \in [Requests -> Pending]
    BY <1>12, <1>0, ReqTypes DEF CompletePay, Answer
  <2> QED
    BY <1>12, <2>3, <2>4 DEF CompletePay, TypeOK, Pending
<1>13. CASE Tick
  BY <1>13, BuildsAssumption DEF Tick, TypeOK
<1>14. CASE Crash
  <2>1. lost' \in [Keys -> Nat]
    <3>1. lost' = [k \in Keys |-> lost[k] + AllUnbacked(k)]
      BY <1>14 DEF Crash
    <3>2. \A k \in Keys : lost[k] \in Nat /\ AllUnbacked(k) \in Nat
      BY UnbackedType DEF TypeOK
    <3> QED
      BY <3>1, <3>2
  <2> QED
    BY <1>14, <2>1 DEF Crash, TypeOK
<1>15. CASE UNCHANGED vars
  BY <1>15 DEF vars, TypeOK
<1> QED
  BY <1>1, <1>2, <1>3, <1>4, <1>5, <1>6, <1>7, <1>8, <1>9, <1>10, <1>11, <1>12,
     <1>13, <1>14, <1>15 DEF Next

-----------------------------------------------------------------------------
(***************************************************************************)
(* Every obol charged is accounted for.                                    *)
(***************************************************************************)
\* A step of one request changes what that request leaves unbacked.
LEMMA UnbackedMoves ==
  ASSUME TypeOK, TypeOK', NEW r \in Requests, NEW k,
         \A s \in Requests : s # r => req'[s] = req[s]
  PROVE  AllUnbacked(k)' = AllUnbacked(k) - Unbacked(r, k) + Unbacked(r, k)'
<1> DEFINE f == [s \in Requests |-> Unbacked(s, k)]
           g == [s \in Requests |-> Unbacked(s, k)']
<1>1. f \in [Requests -> Int] /\ f[r] = Unbacked(r, k)
  <2>1. \A s \in Requests : Unbacked(s, k) \in Nat
    BY UnbackedType, Zenon
  <2> QED
    BY <2>1
<1>2. g \in [Requests -> Int] /\ g[r] = Unbacked(r, k)'
  <2>1. (\A s \in Requests : Unbacked(s, k) \in Nat)'
    BY TypeOK', UnbackedType, PTL
  <2> QED
    BY <2>1
<1>3. \A s \in Requests : s # r => g[s] = f[s]
  BY DEF Unbacked, At
<1>4. SumFunction(g) = SumFunction(f) - f[r] + g[r]
  <2> HIDE DEF f, g
  <2> QED
    BY <1>1, <1>2, <1>3, BuildsAssumption, SumExcept
<1>5. AllUnbacked(k) = SumFunction(f) /\ AllUnbacked(k)' = SumFunction(g)
  BY DEF AllUnbacked
<1> QED
  BY <1>1, <1>2, <1>4, <1>5

\* What the rows of a key cost is a number, whatever rows there are.
LEMMA CostType ==
  ASSUME TypeOK, NEW k, NEW dest
  PROVE  /\ \A b \in BuildIds : CostFor(b, k, dest) \in Nat
         /\ CostOfBuilds(k, dest) \in Nat
<1>1. \A b \in BuildIds : CostFor(b, k, dest) \in Nat
  BY DEF TypeOK, Rows, CostFor, Exists
<1> DEFINE f == [b \in BuildIds |-> CostFor(b, k, dest)]
<1>2. DOMAIN f = BuildIds /\ \A b \in BuildIds : f[b] \in Nat
  BY <1>1
<1>3. SumFunction(f) \in Nat
  <2> HIDE DEF f
  <2> QED
    BY <1>2, BuildsAssumption, SumInt
<1> QED
  BY <1>1, <1>3 DEF CostOfBuilds

\* A row that is added or changed changes the cost by what it costs.
LEMMA CostsMove ==
  ASSUME TypeOK, TypeOK', NEW k, NEW dest, NEW c \in BuildIds,
         \A b \in BuildIds : b # c => builds'[b] = builds[b]
  PROVE  CostOfBuilds(k, dest)' =
           CostOfBuilds(k, dest) - CostFor(c, k, dest) + CostFor(c, k, dest)'
<1> DEFINE f == [b \in BuildIds |-> CostFor(b, k, dest)]
           g == [b \in BuildIds |-> CostFor(b, k, dest)']
<1>1. f \in [BuildIds -> Int] /\ f[c] = CostFor(c, k, dest)
  <2>1. \A b \in BuildIds : CostFor(b, k, dest) \in Int
    BY CostType
  <2> QED
    BY <2>1
<1>2. g \in [BuildIds -> Int] /\ g[c] = CostFor(c, k, dest)'
  <2>1. (\A b \in BuildIds : CostFor(b, k, dest) \in Nat)'
    BY CostType, PTL
  <2> QED
    BY <2>1
<1>3. \A b \in BuildIds : b # c => g[b] = f[b]
  BY DEF CostFor, Exists
<1>4. SumFunction(g) = SumFunction(f) - f[c] + g[c]
  <2> HIDE DEF f, g
  <2> QED
    BY <1>1, <1>2, <1>3, BuildsAssumption, SumExcept
<1>5. CostOfBuilds(k, dest) = SumFunction(f) /\ CostOfBuilds(k, dest)' = SumFunction(g)
  BY DEF CostOfBuilds
<1> QED
  BY <1>1, <1>2, <1>4, <1>5

\* Claims and reports change no cost: they write the status and the taker.
LEMMA CostsStay ==
  ASSUME TypeOK, TypeOK', TargetsExist, NEW r \in Requests,
         ClaimAssign(r) \/ CompleteUpdate(r) \/ builds' = builds, NEW k, NEW dest
  PROVE  CostOfBuilds(k, dest)' = CostOfBuilds(k, dest)
<1>1. CASE builds' = builds
  BY <1>1 DEF CostOfBuilds, CostFor, Exists
<1>2. ASSUME NEW c \in BuildIds, NEW row \in Rows, Exists(c),
             builds' = [builds EXCEPT ![c] = row],
             row.publicKey = builds[c].publicKey,
             row.destination = builds[c].destination, row.cost = builds[c].cost
      PROVE  CostOfBuilds(k, dest)' = CostOfBuilds(k, dest)
  <2>1. builds'[c] = row /\ \A b \in BuildIds : b # c => builds'[b] = builds[b]
    BY <1>2 DEF TypeOK
  <2>2. CostFor(c, k, dest)' = CostFor(c, k, dest)
    BY <1>2, <2>1, NoneAssumption DEF CostFor, Exists
  <2>3. CostFor(c, k, dest) \in Nat /\ CostOfBuilds(k, dest) \in Nat
    BY CostType
  <2> QED
    BY <2>1, <2>2, <2>3, CostsMove
<1>3. CASE ClaimAssign(r)
  BY <1>1, <1>2, <1>3, AssignWrites DEF HasStatus
<1>4. CASE CompleteUpdate(r)
  <2>1. Exists(req[r].build)
    BY <1>4 DEF CompleteUpdate, TargetsExist
  <2> QED
    BY <1>1, <1>2, <1>4, <2>1, UpdateWrites
<1> QED
  BY <1>1, <1>3, <1>4

\* A submission that is not about to queue its build leaves nothing unbacked.
LEMMA NothingUnbacked ==
  ASSUME NEW r \in Requests, NEW k, ~ At(r, "submit", "queue")
  PROVE  Unbacked(r, k) = 0
BY DEF Unbacked

\* Claims and reports charge nothing.
LEMMA OthersChargeNothing ==
  ASSUME TypeOK, NEW r \in Requests, NEW k,
         \/ Claim(r) \/ ClaimNode(r) \/ ClaimNext(r) \/ ClaimAssign(r)
         \/ Complete(r) \/ CompleteGet(r) \/ CompleteUpdate(r) \/ CompletePay(r)
  PROVE  /\ Unbacked(r, k) = 0 /\ Unbacked(r, k)' = 0
         /\ \A s \in Requests : s # r => req'[s] = req[s]
         /\ charged' = charged /\ lost' = lost
         /\ ClaimAssign(r) \/ CompleteUpdate(r) \/ builds' = builds
<1> DEFINE Idle == Claims \cup Reports \cup {None}
<1>1. \A q \in Idle : q # None => q.op # "submit"
  BY DEF Claims, Reports
<1>2. req[r] \in Idle
  BY ClaimAt, ReportAt DEF Claim, ClaimNode, ClaimNext, ClaimAssign, Complete,
     CompleteGet, CompleteUpdate, CompletePay, Start
<1>3. \E q \in Idle : req' = [req EXCEPT ![r] = q]
  <2>0. None \in Idle
    OBVIOUS
  <2>1. CASE Claim(r)
    <3>1. PICK f \in Factories \cup Unregistered :
            Start(r, [op |-> "claim", at |-> "node", key |-> f, build |-> None,
                      waiting |-> {b \in BuildIds : HasStatus(b, "queued")}])
      BY <2>1 DEF Claim
    <3>2. [op |-> "claim", at |-> "node", key |-> f, build |-> None,
           waiting |-> {b \in BuildIds : HasStatus(b, "queued")}] \in Claims
      BY DEF Claims
    <3> QED
      BY <3>1, <3>2 DEF Start
  <2>2. CASE ClaimNode(r)
    BY <2>2, <2>0, ClaimAt DEF ClaimNode, Goto, Fail
  <2>3. CASE ClaimNext(r)
    <3>1. \A b \in BuildIds : [req[r] EXCEPT !.build = b, !.at = "assign"] \in Idle
      BY <2>3, ClaimAt DEF ClaimNext
    <3>2. \/ req' = [req EXCEPT ![r] = None]
          \/ \E b \in BuildIds : req' = [req EXCEPT ![r] =
                                          [req[r] EXCEPT !.build = b, !.at = "assign"]]
      BY <2>3 DEF ClaimNext, Answer, Fail, Oldest, Queued, TypeOK
    <3> HIDE DEF Idle
    <3> QED
      BY <3>1, <3>2, <2>0
  <2>4. CASE ClaimAssign(r) \/ CompletePay(r)
    BY <2>4, <2>0 DEF ClaimAssign, CompletePay, Answer, Fail
  <2>5. CASE Complete(r)
    <3>1. PICK f \in Keys \cup {NoKey}, b \in BuildIds, success \in BOOLEAN :
            Start(r, [op |-> "complete", at |-> "get", key |-> f,
                      build |-> b, success |-> success, cost |-> 0])
      BY <2>5 DEF Complete
    <3>2. [op |-> "complete", at |-> "get", key |-> f,
           build |-> b, success |-> success, cost |-> 0] \in Reports
      BY DEF Reports
    <3> QED
      BY <3>1, <3>2 DEF Start
  <2>6. CASE CompleteGet(r)
    <3> DEFINE c == builds[req[r].build].cost
    <3>1. At(r, "complete", "get") /\ req[r].build \in BuildIds
      BY <2>6, ReportAt DEF CompleteGet
    <3>2. Exists(req[r].build) => c \in 10..200
      BY <3>1 DEF TypeOK, Rows, Exists
    <3>3. Exists(req[r].build) => [req[r] EXCEPT !.cost = c, !.at = "update"] \in Idle
      BY <3>1, <3>2, ReportAt
    <3>4. \/ req' = [req EXCEPT ![r] = None]
          \/ /\ Exists(req[r].build)
             /\ req' = [req EXCEPT ![r] = [req[r] EXCEPT !.cost = c, !.at = "update"]]
      BY <2>6 DEF CompleteGet, Fail, TypeOK
    <3> HIDE DEF c, Idle
    <3> QED
      BY <3>3, <3>4, <2>0
  <2>7. CASE CompleteUpdate(r)
    <3>1. req[r].success /\ req[r].key # NoKey => [req[r] EXCEPT !.at = "pay"] \in Idle
      BY <2>7, ReportAt DEF CompleteUpdate
    <3> HIDE DEF Idle
    <3> QED
      BY <2>7, <3>1, <2>0 DEF CompleteUpdate, Goto, Answer
  <2> QED
    BY <2>1, <2>2, <2>3, <2>4, <2>5, <2>6, <2>7
<1>4. PICK q \in Idle : req' = [req EXCEPT ![r] = q]
  BY <1>3
<1>5. req'[r] = q /\ \A s \in Requests : s # r => req'[s] = req[s]
  BY <1>4 DEF TypeOK
<1>6. Unbacked(r, k) = 0
  BY <1>1, <1>2 DEF Unbacked, At
<1>7. Unbacked(r, k)' = 0
  BY <1>1, <1>5 DEF Unbacked, At
<1>8. /\ charged' = charged /\ lost' = lost
      /\ ClaimAssign(r) \/ CompleteUpdate(r) \/ builds' = builds
  BY DEF Claim, ClaimNode, ClaimNext, ClaimAssign, Complete, CompleteGet,
     CompleteUpdate, CompletePay, Start, store
<1> QED
  BY <1>5, <1>6, <1>7, <1>8

\* ChargesAccountedFor is preserved: a charge becomes unbacked, then a row or
\* a loss; nothing else moves.
LEMMA ChargesInductive ==
  TypeOK /\ TypeOK' /\ TargetsExist /\ ChargesAccountedFor /\ [Next]_vars
    => ChargesAccountedFor'
<1> SUFFICES ASSUME TypeOK, TypeOK', TargetsExist, ChargesAccountedFor, [Next]_vars,
                    NEW k \in Keys
             PROVE  charged'[k] =
                      CostOfBuilds(k, "network")' + lost'[k] + AllUnbacked(k)'
  BY DEF ChargesAccountedFor
<1> DEFINE Goal == charged'[k] = CostOfBuilds(k, "network")' + lost'[k] + AllUnbacked(k)'
<1>1. charged[k] = CostOfBuilds(k, "network") + lost[k] + AllUnbacked(k)
  BY DEF ChargesAccountedFor
<1>2. /\ charged[k] \in Nat /\ lost[k] \in Nat
      /\ CostOfBuilds(k, "network") \in Nat /\ AllUnbacked(k) \in Nat
      /\ \A s \in Requests : Unbacked(s, k) \in Nat
  BY CostType, UnbackedType DEF TypeOK
<1>3. k # NoKey
  BY BuildsAssumption DEF Keys
<1>4. ASSUME NEW r \in Requests, Submit(r) PROVE Goal
  <2>1. PICK key \in Submitters \cup {NoKey}, dest \in Destinations, n \in SpecLengths :
          Start(r, [op |-> "submit",
                    at |-> IF key # NoKey /\ dest = "network" THEN "check" ELSE "queue",
                    key |-> key, dest |-> dest, cost |-> EstimateCost(n), since |-> now])
    BY <1>4 DEF Submit
  <2>2. /\ \A s \in Requests : s # r => req'[s] = req[s]
        /\ charged' = charged /\ lost' = lost /\ builds' = builds
        /\ req[r] = None
    BY <2>1 DEF Start, TypeOK
  <2>3. Unbacked(r, k) = 0
    BY <2>2 DEF Unbacked, At
  <2>4. Unbacked(r, k)' = 0
    <3> DEFINE x == [op |-> "submit",
                     at |-> IF key # NoKey /\ dest = "network" THEN "check" ELSE "queue",
                     key |-> key, dest |-> dest, cost |-> EstimateCost(n), since |-> now]
    <3>1. req'[r] = x
      BY <2>1 DEF Start, TypeOK
    <3>2. ~ (x.at = "queue" /\ x.key = k /\ x.dest = "network")
      BY <1>3
    <3> HIDE DEF x
    <3> QED
      BY <3>1, <3>2 DEF Unbacked, At
  <2>5. CostOfBuilds(k, "network")' = CostOfBuilds(k, "network")
    BY <2>2, CostsStay
  <2>6. AllUnbacked(k)' = AllUnbacked(k)
    BY <1>2, <2>2, <2>3, <2>4, UnbackedMoves
  <2> QED
    BY <1>1, <2>2, <2>5, <2>6
<1>5. ASSUME NEW r \in Requests, SubmitCheck(r) PROVE Goal
  <2>1. At(r, "submit", "check") /\ req[r] \in Submissions
    BY <1>5, SubmissionAt DEF SubmitCheck
  <2>2. /\ \A s \in Requests : s # r => req'[s] = req[s]
        /\ req'[r] \in {None, [req[r] EXCEPT !.at = "charge"]}
        /\ charged' = charged /\ lost' = lost /\ builds' = builds
    BY <1>5 DEF SubmitCheck, Goto, Fail, store, TypeOK
  <2>3. Unbacked(r, k) = 0
    BY <2>1 DEF Unbacked, At
  <2>4. Unbacked(r, k)' = 0
    BY <2>1, <2>2 DEF Unbacked, At, Submissions
  <2>5. CostOfBuilds(k, "network")' = CostOfBuilds(k, "network")
    BY <2>2, CostsStay
  <2>6. AllUnbacked(k)' = AllUnbacked(k)
    BY <1>2, <2>2, <2>3, <2>4, UnbackedMoves
  <2> QED
    BY <1>1, <2>2, <2>5, <2>6
<1>6. ASSUME NEW r \in Requests, SubmitCharge(r) PROVE Goal
  <2>1. /\ At(r, "submit", "charge") /\ req[r] \in Submissions
        /\ req[r].key \in Submitters /\ req[r].cost \in 10..200
        /\ req[r].dest = "network"
    <3>1. At(r, "submit", "charge") /\ req[r] \in Submissions
      BY <1>6, SubmissionAt DEF SubmitCharge
    <3> QED
      BY <3>1 DEF At, Submissions
  <2>2. /\ \A s \in Requests : s # r => req'[s] = req[s]
        /\ lost' = lost /\ builds' = builds
        /\ \/ /\ req'[r] = [req[r] EXCEPT !.at = "queue", !.since = now]
              /\ charged' = [charged EXCEPT ![req[r].key] = @ + req[r].cost]
           \/ req'[r] = None /\ charged' = charged
    BY <1>6 DEF SubmitCharge, Goto, Fail, store, TypeOK
  <2>3. Unbacked(r, k) = 0
    BY <2>1 DEF Unbacked, At
  <2>4. CostOfBuilds(k, "network")' = CostOfBuilds(k, "network")
    BY <2>2, CostsStay
  <2>5. AllUnbacked(k)' = AllUnbacked(k) + Unbacked(r, k)'
    BY <1>2, <2>2, <2>3, UnbackedMoves
  <2>6. charged'[k] = charged[k] + Unbacked(r, k)'
    <3>1. CASE /\ req'[r] = [req[r] EXCEPT !.at = "queue", !.since = now]
               /\ charged' = [charged EXCEPT ![req[r].key] = @ + req[r].cost]
      <4>1. /\ req'[r] # None
            /\ req'[r].op = "submit" /\ req'[r].at = "queue" /\ req'[r].key = req[r].key
            /\ req'[r].dest = "network" /\ req'[r].cost = req[r].cost
        <5>1. req'[r] \in Submissions
          BY <2>1, <3>1, SubmissionAt
        <5>2. req'[r] # None
          BY <5>1, NoneAssumption
        <5> QED
          BY <2>1, <3>1, <5>2 DEF At, Submissions
      <4>2. charged'[k] = IF k = req[r].key THEN charged[k] + req[r].cost ELSE charged[k]
        BY <3>1 DEF TypeOK
      <4>3. Unbacked(r, k)' = IF k = req[r].key THEN req[r].cost ELSE 0
        BY <4>1 DEF Unbacked, At
      <4> QED
        BY <1>2, <4>2, <4>3
    <3>2. CASE req'[r] = None /\ charged' = charged
      BY <1>2, <3>2 DEF Unbacked, At
    <3> QED
      BY <2>2, <3>1, <3>2
  <2>7. Unbacked(r, k)' \in Nat
    <3>1. (\A s \in Requests : Unbacked(s, k) \in Nat)'
      BY UnbackedType, PTL
    <3> QED
      BY <3>1
  <2> QED
    BY <1>1, <1>2, <2>2, <2>4, <2>5, <2>6, <2>7
<1>7. ASSUME NEW r \in Requests, SubmitQueue(r) PROVE Goal
  <2>1. /\ At(r, "submit", "queue")
        /\ req'[r] = None /\ charged' = charged
        /\ \A s \in Requests : s # r => req'[s] = req[s]
    BY <1>7 DEF SubmitQueue, Answer, Fail, TypeOK
  <2>2. AllUnbacked(k)' = AllUnbacked(k) - Unbacked(r, k)
    <3>1. Unbacked(r, k)' = 0
      BY <2>1 DEF Unbacked, At
    <3> QED
      BY <1>2, <2>1, <3>1, UnbackedMoves
  <2>3. CASE builds' = builds /\ lost' = [x \in Keys |-> lost[x] + Unbacked(r, x)]
    <3>1. CostOfBuilds(k, "network")' = CostOfBuilds(k, "network")
      BY <2>3, CostsStay
    <3>2. lost'[k] = lost[k] + Unbacked(r, k)
      BY <2>3
    <3> QED
      BY <1>1, <1>2, <2>1, <2>2, <3>1, <3>2
  <2>4. ASSUME NEW b \in BuildIds, NEW row \in Rows, ~ Exists(b),
               builds' = [builds EXCEPT ![b] = row],
               row.publicKey = req[r].key, row.destination = req[r].dest,
               row.cost = req[r].cost, lost' = lost
        PROVE  Goal
    <3>1. builds'[b] = row /\ \A c \in BuildIds : c # b => builds'[c] = builds[c]
      BY <2>4 DEF TypeOK
    <3>2. CostFor(b, k, "network") = 0
      BY <2>4 DEF CostFor
    <3>3. CostFor(b, k, "network")' = Unbacked(r, k)
      BY <2>1, <2>4, <3>1, NoneAssumption DEF CostFor, Exists, Unbacked
    <3>4. CostOfBuilds(k, "network")' =
            CostOfBuilds(k, "network") - CostFor(b, k, "network") + CostFor(b, k, "network")'
      BY <3>1, CostsMove
    <3> QED
      BY <1>1, <1>2, <2>1, <2>2, <2>4, <3>2, <3>3, <3>4
  <2> QED
    BY <1>7, <2>3, <2>4, QueueWrites
<1>8. ASSUME NEW r \in Requests,
             \/ Claim(r) \/ ClaimNode(r) \/ ClaimNext(r) \/ ClaimAssign(r)
             \/ Complete(r) \/ CompleteGet(r) \/ CompleteUpdate(r) \/ CompletePay(r)
      PROVE  Goal
  <2>1. /\ Unbacked(r, k) = 0 /\ Unbacked(r, k)' = 0
        /\ \A s \in Requests : s # r => req'[s] = req[s]
        /\ charged' = charged /\ lost' = lost
        /\ ClaimAssign(r) \/ CompleteUpdate(r) \/ builds' = builds
    BY <1>8, OthersChargeNothing
  <2>2. CostOfBuilds(k, "network")' = CostOfBuilds(k, "network")
    BY <2>1, CostsStay
  <2>3. AllUnbacked(k)' = AllUnbacked(k)
    BY <1>2, <2>1, UnbackedMoves
  <2> QED
    BY <1>1, <2>1, <2>2, <2>3
<1>9. CASE Crash
  <2>1. /\ lost' = [x \in Keys |-> lost[x] + AllUnbacked(x)]
        /\ req' = [r \in Requests |-> None]
        /\ builds' = builds /\ charged' = charged
    BY <1>9 DEF Crash, store
  <2>2. CostOfBuilds(k, "network")' = CostOfBuilds(k, "network")
    BY <2>1 DEF CostOfBuilds, CostFor, Exists
  <2>3. AllUnbacked(k)' = 0
    <3> DEFINE g == [r \in Requests |-> Unbacked(r, k)']
    <3>1. DOMAIN g = Requests /\ \A r \in Requests : g[r] = 0
      BY <2>1 DEF Unbacked, At
    <3>2. AllUnbacked(k)' = SumFunction(g)
      BY DEF AllUnbacked
    <3> HIDE DEF g
    <3> QED
      BY <3>1, <3>2, BuildsAssumption, SumZero
  <2>4. lost'[k] = lost[k] + AllUnbacked(k)
    BY <2>1
  <2> QED
    BY <1>1, <1>2, <2>1, <2>2, <2>3, <2>4
<1>10. CASE Tick \/ UNCHANGED vars
  <2>1. builds' = builds /\ charged' = charged /\ lost' = lost /\ req' = req
    BY <1>10 DEF Tick, vars, store
  <2>2. CostOfBuilds(k, "network")' = CostOfBuilds(k, "network")
    BY <2>1 DEF CostOfBuilds, CostFor, Exists
  <2>3. AllUnbacked(k)' = AllUnbacked(k)
    BY <2>1 DEF AllUnbacked, Unbacked, At
  <2> QED
    BY <1>1, <2>1, <2>2, <2>3
<1> QED
  BY <1>4, <1>5, <1>6, <1>7, <1>8, <1>9, <1>10 DEF Next

-----------------------------------------------------------------------------
(***************************************************************************)
(* How rows and requests change.                                           *)
(***************************************************************************)
Over(b) == Exists(b) /\ Stage(builds[b].status) = "over"

\* A row stays, keeps its time, never comes back into the queue, and once
\* over is over for good.
LEMMA RowsStay ==
  ASSUME TypeOK, TargetsExist, [Next]_vars, NEW b \in BuildIds, Exists(b)
  PROVE  /\ Exists(b)'
         /\ builds'[b].submittedAt = builds[b].submittedAt
         /\ HasStatus(b, "queued")' => HasStatus(b, "queued")
         /\ Over(b) => Over(b)'
<1>1. ASSUME NEW c \in BuildIds, NEW row \in Rows, builds' = [builds EXCEPT ![c] = row]
      PROVE  Exists(c)' /\ builds'[c] = row /\ (b # c => builds'[b] = builds[b])
  BY <1>1, NoneAssumption DEF TypeOK, Exists
<1>2. CASE builds' = builds
  BY <1>2 DEF Exists, HasStatus, Over
<1>3. CASE \E r \in Requests : SubmitQueue(r)
  <2>1. \/ builds' = builds
        \/ \E c \in BuildIds, row \in Rows :
              ~ Exists(c) /\ builds' = [builds EXCEPT ![c] = row]
    BY <1>3, QueueWrites
  <2> QED
    BY <1>1, <1>2, <2>1 DEF Exists, HasStatus, Over
<1>4. CASE \E r \in Requests : ClaimAssign(r)
  <2>1. \/ builds' = builds
        \/ \E c \in BuildIds, row \in Rows :
              /\ HasStatus(c, "queued") /\ builds' = [builds EXCEPT ![c] = row]
              /\ row.status = "assigned" /\ row.submittedAt = builds[c].submittedAt
    BY <1>4, AssignWrites
  <2>2. HasStatus(b, "queued") => ~ Over(b)
    BY DEF HasStatus, Over, Stage
  <2> QED
    BY <1>1, <1>2, <2>1, <2>2 DEF Exists, HasStatus, Over
<1>5. CASE \E r \in Requests : CompleteUpdate(r)
  <2>1. \/ builds' = builds
        \/ \E c \in BuildIds, row \in Rows :
              /\ builds' = [builds EXCEPT ![c] = row]
              /\ Stage(row.status) = "over" /\ row.submittedAt = builds[c].submittedAt
    BY <1>5, UpdateWrites
  <2>2. Stage("queued") # "over"
    BY DEF Stage
  <2> QED
    BY <1>1, <1>2, <2>1, <2>2 DEF Exists, HasStatus, Over
<1>6. \/ builds' = builds
      \/ \E r \in Requests : SubmitQueue(r) \/ ClaimAssign(r) \/ CompleteUpdate(r)
  BY DEF Next, vars, store, Submit, SubmitCheck, SubmitCharge, Claim, ClaimNode, ClaimNext,
         Complete, CompleteGet, CompletePay, Tick, Crash, Start
<1> QED
  BY <1>2, <1>3, <1>4, <1>5, <1>6

\* What a request may be after a step: what it was, over, new, or one call
\* further.
Moved(r) ==
  \/ req'[r] = req[r]
  \/ req'[r] = None
  \/ req'[r] \in Submissions
  \/ /\ req'[r].op = "claim" /\ req'[r].at = "node"
     /\ req'[r].waiting = Queued /\ builds' = builds
  \/ /\ At(r, "claim", "node")
     /\ req'[r] = [req[r] EXCEPT !.at = "next"]
  \/ /\ At(r, "claim", "next") /\ builds' = builds
     /\ \E b \in Oldest : req'[r] = [req[r] EXCEPT !.build = b, !.at = "assign"]
  \/ req'[r].op = "complete" /\ req'[r].at = "get"
  \/ /\ At(r, "complete", "get") /\ Exists(req[r].build)
     /\ \E c \in 10..200 : req'[r] = [req[r] EXCEPT !.cost = c, !.at = "update"]
  \/ /\ At(r, "complete", "update") /\ CompleteUpdate(r)
     /\ req'[r] = [req[r] EXCEPT !.at = "pay"]

\* Every step moves a request in one of these ways.
LEMMA Moves ==
  ASSUME TypeOK, [Next]_vars, NEW r \in Requests
  PROVE  Moved(r)
<1>1. req \in [Requests -> Pending]
  BY DEF TypeOK, Pending
<1>2. ASSUME NEW q \in Requests, NEW x, req' = [req EXCEPT ![q] = x]
      PROVE  req'[r] = IF r = q THEN x ELSE req[r]
  BY <1>1, <1>2
<1>3. ASSUME NEW q \in Requests, req' = [req EXCEPT ![q] = None] PROVE Moved(r)
  BY <1>2, <1>3 DEF Moved
<1>4. ASSUME NEW q \in Requests, Submit(q) PROVE Moved(r)
  <2>1. PICK k \in Submitters \cup {NoKey}, dest \in Destinations, n \in SpecLengths :
          req' = [req EXCEPT ![q] =
                   [op |-> "submit",
                    at |-> IF k # NoKey /\ dest = "network" THEN "check" ELSE "queue",
                    key |-> k, dest |-> dest, cost |-> EstimateCost(n), since |-> now]]
    BY <1>4 DEF Submit, Start
  <2>2. [op |-> "submit",
         at |-> IF k # NoKey /\ dest = "network" THEN "check" ELSE "queue",
         key |-> k, dest |-> dest, cost |-> EstimateCost(n), since |-> now] \in Submissions
    <3>1. EstimateCost(n) \in 10..200
      BY PriceRange
    <3>2. now \in 0..MaxTime
      BY DEF TypeOK
    <3> QED
      BY <3>1, <3>2 DEF Submissions
  <2>3. req'[r] = req[r] \/ req'[r] \in Submissions
    BY <1>2, <2>1, <2>2
  <2> QED
    BY <2>3 DEF Moved
<1>5. ASSUME NEW q \in Requests, SubmitCheck(q) \/ SubmitCharge(q) PROVE Moved(r)
  <2>1. PICK place \in {"check", "charge"} : At(q, "submit", place)
    BY <1>5 DEF SubmitCheck, SubmitCharge
  <2>2. /\ [req[q] EXCEPT !.at = "charge"] \in Submissions
        /\ [req[q] EXCEPT !.at = "queue", !.since = now] \in Submissions
    BY <2>1, SubmissionAt
  <2>3. \E x \in Submissions \cup {None} : req' = [req EXCEPT ![q] = x]
    BY <1>5, <2>2 DEF SubmitCheck, SubmitCharge, Goto, Fail
  <2> QED
    BY <1>2, <2>3 DEF Moved
<1>6. ASSUME NEW q \in Requests,
             SubmitQueue(q) \/ ClaimAssign(q) \/ CompletePay(q)
      PROVE Moved(r)
  BY <1>3, <1>6 DEF SubmitQueue, ClaimAssign, CompletePay, Answer, Fail
<1>7. ASSUME NEW q \in Requests, Claim(q) PROVE Moved(r)
  <2>1. PICK f \in Factories \cup Unregistered :
          Start(q, [op |-> "claim", at |-> "node", key |-> f, build |-> None,
                    waiting |-> Queued])
    BY <1>7 DEF Claim, Queued
  <2> DEFINE x == [op |-> "claim", at |-> "node", key |-> f, build |-> None,
                   waiting |-> Queued]
  <2>2. x.op = "claim" /\ x.at = "node" /\ x.waiting = Queued
    OBVIOUS
  <2>3. req' = [req EXCEPT ![q] = x] /\ builds' = builds
    BY <2>1 DEF Start
  <2> HIDE DEF x
  <2> QED
    BY <1>2, <2>2, <2>3 DEF Moved
<1>8. ASSUME NEW q \in Requests, ClaimNode(q) PROVE Moved(r)
  <2>1. /\ At(q, "claim", "node")
        /\ \E x \in {None, [req[q] EXCEPT !.at = "next"]} : req' = [req EXCEPT ![q] = x]
    BY <1>8 DEF ClaimNode, Goto, Fail
  <2> QED
    BY <1>2, <2>1 DEF Moved
<1>9. ASSUME NEW q \in Requests, ClaimNext(q) PROVE Moved(r)
  <2>1. /\ At(q, "claim", "next") /\ builds' = builds
        /\ \/ req' = [req EXCEPT ![q] = None]
           \/ \E b \in Oldest :
                req' = [req EXCEPT ![q] = [req[q] EXCEPT !.build = b, !.at = "assign"]]
    BY <1>9, <1>1 DEF ClaimNext, Answer, Fail, store
  <2> QED
    BY <1>2, <1>3, <2>1 DEF Moved
<1>10. ASSUME NEW q \in Requests, Complete(q) PROVE Moved(r)
  <2>1. PICK f \in Keys \cup {NoKey}, b \in BuildIds, success \in BOOLEAN :
          Start(q, [op |-> "complete", at |-> "get", key |-> f,
                    build |-> b, success |-> success, cost |-> 0])
    BY <1>10 DEF Complete
  <2> DEFINE x == [op |-> "complete", at |-> "get", key |-> f,
                   build |-> b, success |-> success, cost |-> 0]
  <2>2. x.op = "complete" /\ x.at = "get"
    OBVIOUS
  <2>3. req' = [req EXCEPT ![q] = x]
    BY <2>1 DEF Start
  <2> HIDE DEF x
  <2> QED
    BY <1>2, <2>2, <2>3 DEF Moved
<1>11. ASSUME NEW q \in Requests, CompleteGet(q) PROVE Moved(r)
  <2> DEFINE c == builds[req[q].build].cost
  <2>1. /\ At(q, "complete", "get")
        /\ \/ req' = [req EXCEPT ![q] = None]
           \/ /\ Exists(req[q].build)
              /\ req' = [req EXCEPT ![q] = [req[q] EXCEPT !.cost = c, !.at = "update"]]
    BY <1>11, <1>1 DEF CompleteGet, Fail
  <2>2. Exists(req[q].build) => c \in 10..200
    <3>1. req[q].build \in BuildIds
      BY <2>1, ReportAt
    <3> QED
      BY <3>1 DEF Exists, TypeOK, Rows
  <2> HIDE DEF c
  <2> QED
    BY <1>2, <1>3, <2>1, <2>2 DEF Moved
<1>12. ASSUME NEW q \in Requests, CompleteUpdate(q) PROVE Moved(r)
  <2>1. /\ At(q, "complete", "update")
        /\ \E x \in {None, [req[q] EXCEPT !.at = "pay"]} : req' = [req EXCEPT ![q] = x]
    BY <1>12 DEF CompleteUpdate, Goto, Answer
  <2> QED
    BY <1>2, <1>12, <2>1 DEF Moved
<1>13. CASE Tick \/ Crash \/ UNCHANGED vars
  BY <1>13 DEF Tick, Crash, vars, Moved
<1> QED
  BY <1>4, <1>5, <1>6, <1>7, <1>8, <1>9, <1>10, <1>11, <1>12, <1>13 DEF Next

\* The builds that requests go on with stay.
LEMMA TargetsInductive == TypeOK /\ TargetsExist /\ [Next]_vars => TargetsExist'
<1> SUFFICES ASSUME TypeOK, TargetsExist, [Next]_vars, NEW r \in Requests
             PROVE  /\ \A place \in {"update", "pay"} :
                         At(r, "complete", place)' => Exists(req[r].build)'
                    /\ At(r, "claim", "assign")' => Exists(req[r].build)'
                    /\ \A place \in {"node", "next", "assign"} :
                         At(r, "claim", place)' => \A b \in req'[r].waiting : Exists(b)'
  BY DEF TargetsExist
<1>1. \A b \in BuildIds : Exists(b) => Exists(b)'
  BY RowsStay
<1>2. /\ \A place : At(r, "claim", place) => req[r] \in Claims
      /\ \A place : At(r, "complete", place) => req[r] \in Reports
  BY ClaimAt, ReportAt
<1>3. CASE req'[r] = req[r]
  <2>1. /\ At(r, "claim", "assign") => req[r].build \in BuildIds
        /\ \A place \in {"update", "pay"} : At(r, "complete", place) => req[r].build \in BuildIds
        /\ \A place : At(r, "claim", place) => req[r].waiting \subseteq BuildIds
    BY ClaimAt, ReportAt
  <2> QED
    BY <1>1, <1>3, <2>1 DEF TargetsExist, At, Exists
<1>4. CASE req'[r] = None
  BY <1>4 DEF At
<1>5. CASE req'[r] \in Submissions
  <2>1. req'[r].op = "submit"
    BY <1>5 DEF Submissions
  <2> QED
    BY <2>1 DEF At
<1>6. CASE /\ req'[r].op = "claim" /\ req'[r].at = "node"
           /\ req'[r].waiting = Queued /\ builds' = builds
  BY <1>6 DEF At, Queued, HasStatus, Exists
<1>7. CASE At(r, "claim", "node") /\ req'[r] = [req[r] EXCEPT !.at = "next"]
  <2>1. /\ req'[r].op = "claim" /\ req'[r].at = "next" /\ req'[r].waiting = req[r].waiting
        /\ req[r].waiting \subseteq BuildIds
    BY <1>2, <1>7 DEF Claims, At
  <2> QED
    BY <1>1, <1>7, <2>1 DEF At, TargetsExist
<1>8. CASE /\ At(r, "claim", "next") /\ builds' = builds
           /\ \E b \in Oldest : req'[r] = [req[r] EXCEPT !.build = b, !.at = "assign"]
  <2>1. /\ req'[r].op = "claim" /\ req'[r].at = "assign" /\ req'[r].waiting = req[r].waiting
        /\ req[r].waiting \subseteq BuildIds /\ req'[r].build \in Oldest
    BY <1>2, <1>8 DEF Claims, At
  <2>2. \A b \in Oldest : Exists(b)'
    BY <1>8 DEF Oldest, Queued, HasStatus, Exists
  <2> QED
    BY <1>1, <1>8, <2>1, <2>2 DEF At, TargetsExist, Exists
<1>9. CASE req'[r].op = "complete" /\ req'[r].at = "get"
  BY <1>9 DEF At
<1>10. CASE /\ At(r, "complete", "get") /\ Exists(req[r].build)
            /\ \E c \in 10..200 : req'[r] = [req[r] EXCEPT !.cost = c, !.at = "update"]
  <2>1. /\ req'[r].op = "complete" /\ req'[r].at = "update" /\ req'[r].build = req[r].build
        /\ req[r].build \in BuildIds
    BY <1>2, <1>10 DEF Reports, At
  <2> QED
    BY <1>1, <1>10, <2>1 DEF At, Exists
<1>11. CASE /\ At(r, "complete", "update") /\ CompleteUpdate(r)
            /\ req'[r] = [req[r] EXCEPT !.at = "pay"]
  <2>1. /\ req'[r].op = "complete" /\ req'[r].at = "pay" /\ req'[r].build = req[r].build
        /\ req[r].build \in BuildIds
    BY <1>2, <1>11 DEF Reports, At
  <2>2. Exists(req[r].build)
    BY <1>11 DEF TargetsExist
  <2> QED
    BY <1>1, <2>1, <2>2 DEF At, Exists
<1> QED
  BY <1>3, <1>4, <1>5, <1>6, <1>7, <1>8, <1>9, <1>10, <1>11, Moves DEF Moved

-----------------------------------------------------------------------------
(***************************************************************************)
(* What a factory is paid for, or thanked for, is settled: the build is    *)
(* over, or the store failed to write that it is.  It rests on the same    *)
(* of requests that are about to pay.                                      *)
(***************************************************************************)
Settled(b) == b \in dropped \/ Over(b)

PayFollowsEnd ==
  /\ \A b \in BuildIds : paid[b] > 0 => Settled(b)
  /\ \A a \in told : a.op \in {"complete", "failed"} => a.build \in BuildIds /\ Settled(a.build)
  /\ \A r \in Requests : At(r, "complete", "pay") => Settled(req[r].build)

\* A build that is settled stays so.
LEMMA SettledStays ==
  ASSUME TypeOK, TargetsExist, [Next]_vars, NEW b \in BuildIds, Settled(b)
  PROVE  Settled(b)'
<1>1. dropped \subseteq dropped'
  BY DEF Next, vars, store, Submit, SubmitCheck, SubmitCharge, SubmitQueue, Claim, ClaimNode,
         ClaimNext, ClaimAssign, Complete, CompleteGet, CompleteUpdate, CompletePay, Tick,
         Crash, Start
<1> QED
  BY <1>1, RowsStay DEF Settled, Over

\* Once the status was written, or failed to be, the build is settled.
LEMMA UpdateSettles ==
  ASSUME TypeOK, TargetsExist, NEW r \in Requests, CompleteUpdate(r)
  PROVE  \E b \in BuildIds : b = req[r].build /\ Settled(b)'
<1>1. req[r].build \in BuildIds
  BY ReportAt DEF CompleteUpdate
<1>2. ASSUME NEW c \in BuildIds, NEW row \in Rows, builds' = [builds EXCEPT ![c] = row],
             Stage(row.status) = "over"
      PROVE  Over(c)'
  BY <1>2, NoneAssumption DEF TypeOK, Exists, Over
<1> QED
  BY <1>1, <1>2, UpdateWrites DEF Settled

\* Every step keeps pay behind the end of the build.
LEMMA PayInductive ==
  TypeOK /\ TargetsExist /\ PayFollowsEnd /\ [Next]_vars => PayFollowsEnd'
<1> SUFFICES ASSUME TypeOK, TargetsExist, PayFollowsEnd, [Next]_vars PROVE PayFollowsEnd'
  OBVIOUS
<1>1. \A b \in BuildIds : Settled(b) => Settled(b)'
  BY SettledStays
<1>2. ASSUME NEW r \in Requests, CompletePay(r)
      PROVE  req[r].build \in BuildIds /\ Settled(req[r].build)
  BY <1>2, ReportAt DEF CompletePay, PayFollowsEnd
<1>3. \A b \in BuildIds : paid'[b] > 0 => Settled(b)'
  <2>1. CASE \E r \in Requests : CompletePay(r)
    <3>1. PICK r \in Requests : CompletePay(r)
      BY <2>1
    <3>2. \A b \in BuildIds : b # req[r].build => paid'[b] = paid[b]
      BY <3>1 DEF CompletePay, TypeOK
    <3> QED
      BY <1>1, <1>2, <3>1, <3>2 DEF PayFollowsEnd
  <2>2. CASE paid' = paid
    BY <1>1, <2>2 DEF PayFollowsEnd
  <2> QED
    BY <2>1, <2>2 DEF Next, vars, store, Submit, SubmitCheck, SubmitCharge, SubmitQueue,
       Claim, ClaimNode, ClaimNext, ClaimAssign, Complete, CompleteGet, CompleteUpdate,
       Tick, Crash, Start
<1>4. ASSUME NEW a \in told', a.op \in {"complete", "failed"}
      PROVE  a.build \in BuildIds /\ Settled(a.build)'
  <2>1. CASE a \in told
    BY <1>1, <1>4, <2>1 DEF PayFollowsEnd
  <2>2. ASSUME NEW r \in Requests, CompletePay(r), a \notin told
        PROVE  a.build \in BuildIds /\ Settled(a.build)'
    <3>1. a.build = req[r].build
      BY <2>2 DEF CompletePay, Answer
    <3> QED
      BY <1>1, <1>2, <2>2, <3>1
  <2>3. ASSUME NEW r \in Requests, CompleteUpdate(r), a \notin told
        PROVE  a.build \in BuildIds /\ Settled(a.build)'
    <3>1. a.build = req[r].build
      BY <2>3 DEF CompleteUpdate, Answer
    <3> QED
      BY <2>3, <3>1, UpdateSettles
  <2>4. ASSUME NEW r \in Requests, SubmitQueue(r) \/ ClaimNext(r) \/ ClaimAssign(r)
        PROVE  a \in told
    <3>1. CASE SubmitQueue(r)
      <4>1. a \in told \/ a.op = "submit"
        BY <3>1 DEF SubmitQueue, Answer, Fail
      <4> QED
        BY <1>4, <4>1
    <3>2. CASE ClaimNext(r)
      <4>1. a \in told \/ a.op = "empty"
        BY <3>2 DEF ClaimNext, Answer, Fail
      <4> QED
        BY <1>4, <4>1
    <3>3. CASE ClaimAssign(r)
      <4>1. a \in told \/ a.op = "assigned"
        BY <3>3 DEF ClaimAssign, Answer, Fail
      <4> QED
        BY <1>4, <4>1
    <3> QED
      BY <2>4, <3>1, <3>2, <3>3
  <2>5. \/ told' = told
        \/ \E r \in Requests : \/ CompletePay(r) \/ CompleteUpdate(r)
                              \/ SubmitQueue(r) \/ ClaimNext(r) \/ ClaimAssign(r)
    BY DEF Next, vars, Submit, SubmitCheck, SubmitCharge, Claim, ClaimNode,
           Complete, CompleteGet, Tick, Crash, Start, Fail
  <2> QED
    BY <2>1, <2>2, <2>3, <2>4, <2>5
<1>5. ASSUME NEW r \in Requests, At(r, "complete", "pay")'
      PROVE  Settled(req[r].build)'
  <2>1. CASE req'[r] = req[r]
    <3>1. At(r, "complete", "pay")
      BY <1>5, <2>1 DEF At
    <3>2. req[r].build \in BuildIds
      BY <3>1, ReportAt
    <3>3. Settled(req[r].build)
      BY <3>1 DEF PayFollowsEnd
    <3> QED
      BY <1>1, <2>1, <3>2, <3>3 DEF Settled, Over, Exists
  <2>2. CASE /\ At(r, "complete", "update") /\ CompleteUpdate(r)
             /\ req'[r] = [req[r] EXCEPT !.at = "pay"]
    <3>1. req[r] \in Reports
      BY <2>2, ReportAt
    <3>2. req'[r].build = req[r].build
      BY <2>2, <3>1 DEF Reports
    <3>3. PICK b \in BuildIds : b = req[r].build /\ Settled(b)'
      BY <2>2, UpdateSettles
    <3> QED
      BY <3>2, <3>3 DEF Settled, Over, Exists
  <2>3. CASE req'[r] \in Submissions
    BY <1>5, <2>3 DEF At, Submissions
  <2>4. CASE /\ At(r, "claim", "node")
             /\ req'[r] = [req[r] EXCEPT !.at = "next"]
    BY <1>5, <2>4, ClaimAt DEF At, Claims
  <2>5. CASE /\ At(r, "claim", "next")
             /\ \E b \in Oldest : req'[r] = [req[r] EXCEPT !.build = b, !.at = "assign"]
    BY <1>5, <2>5, ClaimAt DEF At, Claims
  <2>6. CASE /\ At(r, "complete", "get")
             /\ \E c \in 10..200 : req'[r] = [req[r] EXCEPT !.cost = c, !.at = "update"]
    <3>1. PICK c \in 10..200 : req'[r] = [req[r] EXCEPT !.cost = c, !.at = "update"]
      BY <2>6
    <3>2. [req[r] EXCEPT !.cost = c, !.at = "update"].at = "update"
      <4>1. req[r] \in Reports
        BY <2>6, ReportAt
      <4> QED
        BY <4>1 DEF Reports
    <3> QED
      BY <1>5, <3>1, <3>2 DEF At
  <2>7. /\ req'[r] # None
        /\ ~ (req'[r].op = "claim" /\ req'[r].at = "node")
        /\ ~ (req'[r].op = "complete" /\ req'[r].at = "get")
    BY <1>5 DEF At
  <2> QED
    BY <2>1, <2>2, <2>3, <2>4, <2>5, <2>6, <2>7, Moves DEF Moved
<1> QED
  BY <1>3, <1>4, <1>5 DEF PayFollowsEnd

-----------------------------------------------------------------------------
(***************************************************************************)
(* Who is about to assign a build knows of none that waited longer: it was *)
(* one of the oldest when it was chosen, and what has come into the queue  *)
(* since was not there when the claim arrived.                             *)
(***************************************************************************)
ChosenIsOldest ==
  \A r \in Requests : At(r, "claim", "assign") =>
    \A q \in req[r].waiting :
      HasStatus(q, "queued") => builds[req[r].build].submittedAt =< builds[q].submittedAt

\* Every step keeps the chosen build the oldest of those that waited.
LEMMA ChosenInductive ==
  TypeOK /\ TargetsExist /\ ChosenIsOldest /\ [Next]_vars => ChosenIsOldest'
<1> SUFFICES ASSUME TypeOK, TargetsExist, ChosenIsOldest, [Next]_vars,
                    NEW r \in Requests, At(r, "claim", "assign")',
                    NEW q \in req'[r].waiting, HasStatus(q, "queued")'
             PROVE  builds'[req'[r].build].submittedAt =< builds'[q].submittedAt
  BY DEF ChosenIsOldest
<1>1. \A b \in BuildIds : Exists(b) =>
        /\ builds'[b].submittedAt = builds[b].submittedAt
        /\ HasStatus(b, "queued")' => HasStatus(b, "queued")
  BY RowsStay
<1>2. CASE req'[r] = req[r]
  <2>1. At(r, "claim", "assign")
    BY <1>2 DEF At
  <2>2. /\ req[r].build \in BuildIds /\ req[r].waiting \subseteq BuildIds
        /\ Exists(req[r].build) /\ Exists(q)
    BY <1>2, <2>1, ClaimAt DEF TargetsExist
  <2>3. HasStatus(q, "queued")
    BY <1>1, <1>2, <2>2
  <2>4. builds[req[r].build].submittedAt =< builds[q].submittedAt
    BY <1>2, <2>1, <2>3 DEF ChosenIsOldest
  <2> QED
    BY <1>1, <1>2, <2>2, <2>4
<1>3. CASE /\ At(r, "claim", "next") /\ builds' = builds
           /\ \E b \in Oldest : req'[r] = [req[r] EXCEPT !.build = b, !.at = "assign"]
  <2>1. req[r] \in Claims
    BY <1>3, ClaimAt
  <2>2. req'[r].build \in Oldest /\ req'[r].waiting \subseteq BuildIds
    BY <1>3, <2>1 DEF Claims
  <2>3. q \in Queued
    BY <1>3, <2>2 DEF Queued, HasStatus, Exists
  <2> QED
    BY <1>3, <2>2, <2>3 DEF Oldest
<1>4. CASE req'[r] \in Submissions
  BY <1>4 DEF At, Submissions
<1>5. CASE /\ At(r, "claim", "node")
           /\ req'[r] = [req[r] EXCEPT !.at = "next"]
  <2>1. req[r] \in Claims
    BY <1>5, ClaimAt
  <2> QED
    BY <1>5, <2>1 DEF At, Claims
<1>6. CASE /\ At(r, "complete", "get")
           /\ \E c \in 10..200 : req'[r] = [req[r] EXCEPT !.cost = c, !.at = "update"]
  <2>1. req[r] \in Reports
    BY <1>6, ReportAt
  <2> QED
    BY <1>6, <2>1 DEF At, Reports
<1>7. CASE /\ At(r, "complete", "update")
           /\ req'[r] = [req[r] EXCEPT !.at = "pay"]
  <2>1. req[r] \in Reports
    BY <1>7, ReportAt
  <2> QED
    BY <1>7, <2>1 DEF At, Reports
<1>8. /\ req'[r] # None
      /\ ~ (req'[r].op = "claim" /\ req'[r].at = "node")
      /\ ~ (req'[r].op = "complete" /\ req'[r].at = "get")
  BY DEF At
<1> QED
  BY <1>2, <1>3, <1>4, <1>5, <1>6, <1>7, <1>8, Moves DEF Moved

\* A charge looks at the balance again, and pay is never negative.
LEMMA BalancesInductive ==
  TypeOK /\ NeverOverdrawn /\ [Next]_vars => NeverOverdrawn'
<1> SUFFICES ASSUME TypeOK, NeverOverdrawn, [Next]_vars PROVE NeverOverdrawn'
  OBVIOUS
<1>1. ASSUME NEW r \in Requests, SubmitCharge(r) PROVE NeverOverdrawn'
  BY <1>1 DEF SubmitCharge, NeverOverdrawn, TypeOK
<1>2. ASSUME NEW r \in Requests, CompletePay(r) PROVE NeverOverdrawn'
  <2>1. Payout(req[r].cost) \in Nat
    BY <1>2, ReportAt, PayoutPositive DEF CompletePay
  <2> QED
    BY <1>2, <2>1 DEF CompletePay, NeverOverdrawn, TypeOK
<1>3. CASE balances' = balances
  BY <1>3 DEF NeverOverdrawn
<1> QED
  BY <1>1, <1>2, <1>3 DEF Next, vars, store, Submit, SubmitCheck, SubmitQueue, Claim,
     ClaimNode, ClaimNext, ClaimAssign, Complete, CompleteGet, CompleteUpdate, Tick,
     Crash, Start

-----------------------------------------------------------------------------
\* The inductive invariant.
IInv == /\ TypeOK /\ TargetsExist /\ PayFollowsEnd /\ ChosenIsOldest /\ NeverOverdrawn
        /\ ChargesAccountedFor

\* The invariant holds at the start.
LEMMA InvInit == Init => IInv
<1> SUFFICES ASSUME Init PROVE IInv
  OBVIOUS
<1>1. TypeOK
  BY BuildsAssumption DEF Init, TypeOK
<1>2. TargetsExist /\ PayFollowsEnd /\ ChosenIsOldest
  BY DEF Init, TargetsExist, PayFollowsEnd, ChosenIsOldest, At
<1>3. NeverOverdrawn
  BY BuildsAssumption DEF Init, NeverOverdrawn
<1>4. ChargesAccountedFor
  <2> SUFFICES ASSUME NEW k \in Keys
               PROVE  charged[k] = CostOfBuilds(k, "network") + lost[k] + AllUnbacked(k)
    BY DEF ChargesAccountedFor
  <2>1. charged[k] = 0 /\ lost[k] = 0
    BY DEF Init
  <2>2. CostOfBuilds(k, "network") = 0
    <3> DEFINE f == [b \in BuildIds |-> CostFor(b, k, "network")]
    <3>1. DOMAIN f = BuildIds /\ \A b \in BuildIds : f[b] = 0
      BY DEF Init, CostFor, Exists
    <3>2. CostOfBuilds(k, "network") = SumFunction(f)
      BY DEF CostOfBuilds
    <3> HIDE DEF f
    <3> QED
      BY <3>1, <3>2, BuildsAssumption, SumZero
  <2>3. AllUnbacked(k) = 0
    <3> DEFINE g == [r \in Requests |-> Unbacked(r, k)]
    <3>1. DOMAIN g = Requests /\ \A r \in Requests : g[r] = 0
      BY DEF Init, Unbacked, At
    <3>2. AllUnbacked(k) = SumFunction(g)
      BY DEF AllUnbacked
    <3> HIDE DEF g
    <3> QED
      BY <3>1, <3>2, BuildsAssumption, SumZero
  <2> QED
    BY <2>1, <2>2, <2>3
<1> QED
  BY <1>1, <1>2, <1>3, <1>4 DEF IInv

\* Every step keeps the invariant.
LEMMA InvInductive == IInv /\ [Next]_vars => IInv'
  BY TypeInductive, TargetsInductive, PayInductive, ChosenInductive, BalancesInductive,
     ChargesInductive DEF IInv

\* The invariant holds always.
LEMMA InvHolds == Spec => []IInv
  BY InvInit, InvInductive, PTL DEF Spec

\* Every variable keeps its type: builds cost what a price may be, and only
\* registered factories are ever given one.
THEOREM TypeCorrect == Spec => []TypeOK
<1>1. IInv => TypeOK
  BY DEF IInv
<1> QED
  BY <1>1, InvHolds, PTL

\* No account of the chain is ever overdrawn by submissions, however they
\* overlap.
THEOREM NobodyOverdraws == Spec => []NeverOverdrawn
<1>1. IInv => NeverOverdrawn
  BY DEF IInv
<1> QED
  BY <1>1, InvHolds, PTL

\* Every obol charged is behind a build on the network or a submission still
\* running, or was lost by one that failed or died; no network build of a
\* named key is queued without its charge.
THEOREM EveryChargeIsAccountedFor == Spec => []ChargesAccountedFor
<1>1. IInv => ChargesAccountedFor
  BY DEF IInv
<1> QED
  BY <1>1, InvHolds, PTL

\* Pay and thanks only for builds that are over, wherever requests stop.
THEOREM PayOnlyAfterTheEnd == Spec => []PaidBuildsAreOver
<1>1. IInv => PaidBuildsAreOver
  BY DEF IInv, PayFollowsEnd, PaidBuildsAreOver, Settled, Over
<1> QED
  BY <1>1, InvHolds, PTL

\* First come, first served across seconds.
THEOREM NobodyOvertakes == Spec => NoOvertaking
<1>1. ASSUME IInv, [Next]_vars, NEW r \in Requests, At(r, "claim", "assign"),
             NEW q \in req[r].waiting, builds'[q].status = "queued"
      PROVE  builds[req[r].build].submittedAt =< builds[q].submittedAt
  <2>1. q \in BuildIds /\ Exists(q)
    BY <1>1, ClaimAt DEF IInv, TargetsExist
  <2>2. HasStatus(q, "queued")'
    BY <1>1, <2>1, RowsStay DEF IInv, HasStatus
  <2>3. HasStatus(q, "queued")
    BY <1>1, <2>1, <2>2, RowsStay DEF IInv
  <2> QED
    BY <1>1, <2>3 DEF IInv, ChosenIsOldest
<1>2. IInv /\ [Next]_vars =>
        [\A r \in Requests : At(r, "claim", "assign") /\ req'[r] = None =>
           LET b == req[r].build
           IN  HasStatus(b, "queued") /\ builds'[b].status = "assigned" =>
                 \A q \in req[r].waiting :
                   builds'[q].status = "queued" =>
                     builds[b].submittedAt =< builds[q].submittedAt]_vars
  BY <1>1
<1> QED
  BY <1>2, InvHolds, PTL DEF Spec, NoOvertaking

-----------------------------------------------------------------------------
(***************************************************************************)
(* The handlers implement the abstract queue: each call is one of its      *)
(* steps for one build, or changes nothing of it.                          *)
(***************************************************************************)
\* Writing one row is changing the stage and the taker of one build.
LEMMA RowWritten ==
  ASSUME TypeOK, NEW b \in BuildIds, NEW row \in Rows, builds' = [builds EXCEPT ![b] = row]
  PROVE  /\ [x \in BuildIds |-> StageOf(x)]' =
              [[x \in BuildIds |-> StageOf(x)] EXCEPT ![b] = Stage(row.status)]
         /\ [x \in BuildIds |-> TakerOf(x)]' =
              [[x \in BuildIds |-> TakerOf(x)] EXCEPT ![b] = row.assignedTo]
<1>1. builds'[b] = row /\ row # None /\ \A x \in BuildIds \ {b} : builds'[x] = builds[x]
  BY NoneAssumption DEF TypeOK
<1>2. StageOf(b)' = Stage(row.status) /\ TakerOf(b)' = row.assignedTo
  BY <1>1 DEF StageOf, TakerOf, Exists
<1>3. \A x \in BuildIds \ {b} : StageOf(x)' = StageOf(x) /\ TakerOf(x)' = TakerOf(x)
  BY <1>1 DEF StageOf, TakerOf, Exists
<1> QED
  BY <1>2, <1>3

\* An empty builds table is an empty queue.
LEMMA QueueInit == Init => Queue!Init
  BY DEF Init, Queue!Init, StageOf, TakerOf, Exists

\* Every step of the handlers is a step of the queue or none.
LEMMA QueueStep == IInv /\ [Next]_vars => [Queue!Next]_(Queue!vars)
<1> SUFFICES ASSUME IInv, [Next]_vars PROVE Queue!Next \/ UNCHANGED Queue!vars
  OBVIOUS
<1>1. TypeOK /\ TargetsExist /\ PayFollowsEnd
  BY DEF IInv
<1>2. CASE UNCHANGED <<builds, dropped, paid>>
  BY <1>2 DEF Queue!vars, StageOf, TakerOf, Exists
<1>3. ASSUME NEW r \in Requests, SubmitQueue(r) PROVE Queue!Next \/ UNCHANGED Queue!vars
  <2>1. UNCHANGED <<dropped, paid>>
    BY <1>3 DEF SubmitQueue
  <2>2. CASE builds' = builds
    BY <1>2, <2>1, <2>2
  <2>3. ASSUME NEW b \in BuildIds, NEW row \in Rows, ~ Exists(b),
               builds' = [builds EXCEPT ![b] = row],
               row.status = "queued", row.assignedTo = NoKey
        PROVE  Queue!Enqueue(b)
    <3>1. StageOf(b) = "none" /\ TakerOf(b) = NoKey /\ Stage(row.status) = "queued"
      BY <2>3 DEF StageOf, TakerOf, Stage
    <3> QED
      BY <1>1, <2>1, <2>3, <3>1, RowWritten DEF Queue!Enqueue
  <2> QED
    BY <1>1, <1>3, <2>2, <2>3, QueueWrites DEF Queue!Next
<1>4. ASSUME NEW r \in Requests, ClaimAssign(r) PROVE Queue!Next \/ UNCHANGED Queue!vars
  <2>1. UNCHANGED <<dropped, paid>>
    BY <1>4 DEF ClaimAssign
  <2>2. req[r].key \in Factories
    BY <1>1, <1>4, ClaimAt DEF ClaimAssign
  <2>3. CASE builds' = builds
    BY <1>2, <2>1, <2>3
  <2>4. ASSUME NEW b \in BuildIds, NEW row \in Rows, HasStatus(b, "queued"),
               builds' = [builds EXCEPT ![b] = row],
               row.status = "assigned", row.assignedTo = req[r].key
        PROVE  Queue!Take(b, req[r].key)
    <3>1. StageOf(b) = "queued" /\ Stage(row.status) = "assigned"
      BY <2>4 DEF StageOf, Stage, HasStatus
    <3>2. /\ [x \in BuildIds |-> StageOf(x)]' =
               [[x \in BuildIds |-> StageOf(x)] EXCEPT ![b] = "assigned"]
          /\ [x \in BuildIds |-> TakerOf(x)]' =
               [[x \in BuildIds |-> TakerOf(x)] EXCEPT ![b] = req[r].key]
      <4>1. /\ [x \in BuildIds |-> StageOf(x)]' =
                 [[x \in BuildIds |-> StageOf(x)] EXCEPT ![b] = Stage(row.status)]
            /\ [x \in BuildIds |-> TakerOf(x)]' =
                 [[x \in BuildIds |-> TakerOf(x)] EXCEPT ![b] = row.assignedTo]
        BY <1>1, <2>4, RowWritten
      <4>2. Stage(row.status) = "assigned" /\ row.assignedTo = req[r].key
        BY <2>4, <3>1
      <4> QED
        BY <4>1, <4>2, Zenon
    <3> QED
      BY <2>1, <3>1, <3>2 DEF Queue!Take
  <2> QED
    BY <1>1, <1>4, <2>2, <2>3, <2>4, AssignWrites DEF Queue!Next
<1>5. ASSUME NEW r \in Requests, CompleteUpdate(r) PROVE Queue!Next \/ UNCHANGED Queue!vars
  <2>1. paid' = paid
    BY <1>5 DEF CompleteUpdate
  <2>2. req[r].build \in BuildIds /\ Exists(req[r].build)
    BY <1>1, <1>5, ReportAt DEF CompleteUpdate, TargetsExist
  <2>3. CASE builds' = builds /\ dropped' = dropped \cup {req[r].build}
    <3>1. StageOf(req[r].build) # "none"
      BY <1>1, <2>2 DEF StageOf, Stage, TypeOK, Rows, Status, Exists
    <3>2. Queue!FailToEnd(req[r].build)
      BY <2>1, <2>2, <2>3, <3>1 DEF Queue!FailToEnd, StageOf, TakerOf, Exists
    <3> QED
      BY <2>2, <3>2 DEF Queue!Next
  <2>4. ASSUME NEW b \in BuildIds, NEW row \in Rows, b = req[r].build,
               builds' = [builds EXCEPT ![b] = row], Stage(row.status) = "over",
               row.assignedTo = builds[b].assignedTo, dropped' = dropped
        PROVE  Queue!End(b) \/ UNCHANGED Queue!vars
    <3>1. TakerOf(b) = row.assignedTo
      BY <2>2, <2>4 DEF TakerOf
    <3>2. StageOf(b) \in {"queued", "assigned", "over"}
      <4>1. builds[b] \in Rows
        BY <1>1, <2>2, <2>4 DEF TypeOK, Exists
      <4> QED
        BY <2>2, <2>4, <4>1 DEF StageOf, Stage, Rows, Status
    <3>3. /\ [x \in BuildIds |-> StageOf(x)]' =
               [[x \in BuildIds |-> StageOf(x)] EXCEPT ![b] = "over"]
          /\ [x \in BuildIds |-> TakerOf(x)]' = [x \in BuildIds |-> TakerOf(x)]
      <4> DEFINE takers == [x \in BuildIds |-> TakerOf(x)]
      <4>1. [takers EXCEPT ![b] = row.assignedTo] = takers
        BY <3>1
      <4>2. takers' = [takers EXCEPT ![b] = row.assignedTo]
        BY <1>1, <2>4, RowWritten
      <4>3. [x \in BuildIds |-> StageOf(x)]' =
              [[x \in BuildIds |-> StageOf(x)] EXCEPT ![b] = "over"]
        <5>1. [x \in BuildIds |-> StageOf(x)]' =
                [[x \in BuildIds |-> StageOf(x)] EXCEPT ![b] = Stage(row.status)]
          BY <1>1, <2>4, RowWritten
        <5>2. Stage(row.status) = "over"
          BY <2>4
        <5> QED
          BY <5>1, <5>2, Zenon
      <4> QED
        BY <4>1, <4>2, <4>3
    <3>4. CASE StageOf(b) = "over"
      BY <2>1, <2>4, <3>3, <3>4 DEF Queue!vars
    <3>5. CASE StageOf(b) \in {"queued", "assigned"}
      BY <2>1, <2>4, <3>3, <3>5 DEF Queue!End
    <3> QED
      BY <3>2, <3>4, <3>5
  <2> QED
    BY <1>1, <1>5, <2>3, <2>4, UpdateWrites DEF Queue!Next
<1>6. ASSUME NEW r \in Requests, CompletePay(r) PROVE Queue!Next \/ UNCHANGED Queue!vars
  <2>1. UNCHANGED <<builds, dropped>>
    BY <1>6 DEF CompletePay
  <2>2. /\ req[r].build \in BuildIds /\ Payout(req[r].cost) \in Nat
        /\ Payout(req[r].cost) > 0 /\ Settled(req[r].build)
    BY <1>1, <1>6, ReportAt, PayoutPositive DEF CompletePay, PayFollowsEnd
  <2>3. CASE paid' = paid
    BY <1>2, <2>1, <2>3
  <2>4. CASE paid' = [paid EXCEPT ![req[r].build] = @ + Payout(req[r].cost)]
    <3>1. PICK b \in BuildIds : b = req[r].build
      BY <2>2
    <3>2. StageOf(b) = "over" \/ b \in dropped
      BY <2>2, <3>1 DEF Settled, Over, StageOf
    <3>3. paid'[b] > paid[b] /\ paid' = [paid EXCEPT ![b] = paid'[b]]
      <4> DEFINE p == Payout(req[r].cost)
      <4>1. paid \in [BuildIds -> Nat] /\ p \in Nat /\ p > 0
            /\ paid' = [paid EXCEPT ![b] = @ + p]
        BY <1>1, <2>2, <2>4, <3>1 DEF TypeOK
      <4> HIDE DEF p
      <4>2. paid'[b] = paid[b] + p /\ paid[b] \in Nat
        BY <4>1
      <4> QED
        BY <4>1, <4>2
    <3>4. Queue!Pay(b)
      BY <2>1, <3>2, <3>3 DEF Queue!Pay, StageOf, TakerOf, Exists
    <3> QED
      BY <3>4 DEF Queue!Next
  <2> QED
    BY <1>6, <2>3, <2>4 DEF CompletePay
<1> QED
  BY <1>2, <1>3, <1>4, <1>5, <1>6 DEF Next, vars, store, Submit, SubmitCheck, SubmitCharge,
     Claim, ClaimNode, ClaimNext, Complete, CompleteGet, Tick, Crash, Start

\* Requests that overlap, fail and die make a queue in which every build is
\* queued once, goes to one factory for good, never comes back, and is paid
\* for only when it is over.
THEOREM HandlersMakeAQueue == Spec => ImplementsBuildQueue
  BY QueueInit, QueueStep, InvHolds, PTL DEF Spec, ImplementsBuildQueue, Queue!Spec
=============================================================================
