--------------------------------- MODULE HQ ---------------------------------
(***************************************************************************)
(* Factory nodes and their tokens: the register, heartbeat, pair, earn,    *)
(* spend, lend, borrow and repay handlers (cmd/glassfactory/main.go) over  *)
(* the nodes table (internal/persist/store.go), the signed chain and the   *)
(* lending ledger, which HQ keeps in memory and fills from the balances    *)
(* table when it starts.  Every request runs in a goroutine of its own;    *)
(* each call of the store or the ledger is atomic, the request is not.     *)
(*                                                                         *)
(* The chain is projected on the balances, builds on what they cost.       *)
(***************************************************************************)
EXTENDS Integers, FiniteSets

CONSTANTS
  Keys,
  Handles,             \* what nodes call themselves
  Grant,               \* what pairing grants
  Amounts,             \* amounts earned and spent
  BuildCosts,          \* what builds cost
  LentAmounts, Interests, MinReputations,   \* what clients send with an offer
  OfferIds, LoanIds,
  MaxDebtToDeliveryPct, MaxActiveLoans, MaxNetworkDebtPct, MinBalanceAfterLend,
  DayStep, MaxAge,     \* days that pass at a time, and bound on an age
  Requests,            \* goroutines serving requests at a time
  None,                \* no node, row, request, offer, loan or record
  NoHandle,            \* the handle of a node that paired first
  StoreMayFail,        \* store calls may return errors
  MayCrash,            \* the process may die
  MaxRequests,         \* bound on the number of requests
  MaxFaults            \* bound on store errors and crashes

ASSUME HQAssumption ==
  /\ Grant \in Nat /\ Amounts \subseteq Nat \ {0} /\ BuildCosts \subseteq Nat
  /\ LentAmounts \subseteq Int /\ Interests \subseteq Int /\ MinReputations \subseteq Int
  /\ MinBalanceAfterLend \in Nat /\ DayStep \in Nat /\ MaxAge \in Nat
  /\ StoreMayFail \in BOOLEAN /\ MayCrash \in BOOLEAN
  /\ MaxRequests \in Nat /\ MaxFaults \in Nat
  /\ None \notin Nat /\ NoHandle \notin Handles

VARIABLES
  nodes,     \* the factory_nodes table
  balances,  \* the balances table, None for no row
  earned,    \* keys with an "earn" event
  history,   \* the balances each key has ever had, 0 before its first row
  costs,     \* what the builds in the builds table cost
  offers, loans, reputations,   \* the lending ledger
  ledger,    \* its balances
  moved,     \* what lending has changed each of them by since HQ last set it
  req,       \* the request each goroutine serves and its locals
  told,      \* keys that were told they are registered
  disturbed, \* keys with requests that overlapped, reads that failed or
             \* builds: see Disturb
  requests, faults

vars == <<nodes, balances, earned, history, costs, offers, loans, reputations, ledger,
          moved, req, told, disturbed, requests, faults>>
store == <<nodes, balances, earned, history, costs>>
memory == <<offers, loans, reputations, ledger, moved>>

L == INSTANCE Ledger WITH Makers <- Keys, balances <- ledger

-----------------------------------------------------------------------------
NodeRows == [handle : Handles \cup {NoHandle}, paired : BOOLEAN]

\* A request and what its goroutine has in its locals, by the call it makes next.
ToGet == [op : {"register"}, at : {"get"}, key : Keys, handle : Handles]
           \cup [op : {"heartbeat"}, at : {"get"}, key : Keys]
           \cup [op : {"pair", "earn"}, at : {"get"}, key : Keys, amount : Nat]
ToSave == [op : {"register", "heartbeat", "pair"}, at : {"save"}, key : Keys,
           row : NodeRows, amount : Nat]
ToAppend == [op : {"pair"}, at : {"append"}, key : Keys, row : NodeRows, amount : Nat]
              \cup [op : {"earn", "spend"}, at : {"append"}, key : Keys, amount : Int]
ToSync == [op : {"pair", "earn", "spend"}, key : Keys, balance : Nat, at : {"know", "set"}]

ASSUME NoneAssumption ==
  /\ None \notin NodeRows \cup ToGet \cup ToSave \cup ToAppend \cup ToSync
  /\ None \notin L!Offers \cup L!Loans \cup L!Reputations

Balance(k) == IF balances[k] = None THEN 0 ELSE balances[k]

\* What RegisterMaker and SetBalance leave of the rows of the table.
BalancesFrom(rows) == [k \in Keys |-> IF rows[k] = None THEN 0 ELSE rows[k]]
RecordsFrom(rows) == [k \in Keys |-> IF rows[k] = None THEN None ELSE L!NewReputation]
NoRows == [k \in Keys |-> None]

Init == /\ nodes = [k \in Keys |-> None]
        /\ balances = NoRows
        /\ earned = {}
        /\ history = [k \in Keys |-> {0}]
        /\ costs = {}
        /\ offers = [o \in OfferIds |-> None]
        /\ loans = [l \in LoanIds |-> None]
        /\ reputations = RecordsFrom(NoRows)
        /\ ledger = BalancesFrom(NoRows)
        /\ moved = [k \in Keys |-> 0]
        /\ req = [r \in Requests |-> None]
        /\ told = {}
        /\ disturbed = {}
        /\ requests = 0 /\ faults = 0

\* A goroutine is serving a request of the key.
Busy(k) == \E r \in Requests : req[r] # None /\ req[r].key = k

\* What the handlers do not coordinate with a key's other requests.
Disturb(K) == disturbed' = disturbed \cup K

Start(r, request) ==
  /\ req[r] = None
  /\ requests < MaxRequests
  /\ req' = [req EXCEPT ![r] = request]
  /\ requests' = requests + 1
  /\ Disturb({k \in {request.key} : Busy(k)})
  /\ UNCHANGED <<store, memory, told, faults>>

At(r, place) == req[r] # None /\ req[r].at = place
Goto(r, place) == req' = [req EXCEPT ![r].at = place]
End(r) == req' = [req EXCEPT ![r] = None]

StoreError == /\ StoreMayFail
              /\ faults < MaxFaults
              /\ faults' = faults + 1

-----------------------------------------------------------------------------
Receive(r) ==
  \E k \in Keys :
    \/ \E h \in Handles :
         Start(r, [op |-> "register", at |-> "get", key |-> k, handle |-> h])
    \/ Start(r, [op |-> "heartbeat", at |-> "get", key |-> k])
    \/ Start(r, [op |-> "pair", at |-> "get", key |-> k, amount |-> Grant])
    \/ \E n \in Amounts :
         \/ Start(r, [op |-> "earn", at |-> "get", key |-> k, amount |-> n])
         \/ Start(r, [op |-> "spend", at |-> "append", key |-> k, amount |-> -n])

\* A bug: registering again starts a new row.
EditedAnew(request, row) ==
  CASE request.op = "register" -> [handle |-> request.handle, paired |-> FALSE]
    [] request.op = "pair" /\ row = None -> [handle |-> NoHandle, paired |-> TRUE]
    [] request.op = "pair" /\ row # None -> [row EXCEPT !.paired = TRUE]
    [] OTHER -> row

\* What the handler makes of the row it read.
Edited(request, row) ==
  CASE request.op = "register" /\ row = None -> [handle |-> request.handle, paired |-> FALSE]
    [] request.op = "register" /\ row # None -> [row EXCEPT !.handle = request.handle]
    [] request.op = "pair" /\ row = None     -> [handle |-> NoHandle, paired |-> TRUE]
    [] request.op = "pair" /\ row # None     -> [row EXCEPT !.paired = TRUE]
    [] OTHER                                 -> row

\* What follows GetNode, given what it returned: 403 to an unknown node that
\* sends a heartbeat or earns, otherwise the rest of the handler.
AfterGet(r, row) ==
  IF row = None /\ req[r].op \in {"heartbeat", "earn"} THEN End(r)
  ELSE IF req[r].op = "earn" THEN Goto(r, "append")
  ELSE req' = [req EXCEPT ![r] =
                 [op |-> @.op, at |-> "save", key |-> @.key, row |-> Edited(@, row),
                  amount |-> IF @.op = "pair" THEN Grant ELSE 0]]

\* GetNode; the handlers drop its error and take it for an unknown node.
GetNode(r) ==
  /\ At(r, "get")
  /\ \/ AfterGet(r, nodes[req[r].key]) /\ UNCHANGED <<disturbed, faults>>
     \/ StoreError /\ AfterGet(r, None) /\ Disturb({req[r].key})
  /\ UNCHANGED <<store, memory, told, requests>>

\* SaveNode writes the whole row; its error is only logged.
SaveNode(r) ==
  /\ At(r, "save")
  /\ \/ nodes' = [nodes EXCEPT ![req[r].key] = req[r].row] /\ UNCHANGED faults
     \/ StoreError /\ UNCHANGED nodes
  /\ IF req[r].op = "pair" THEN Goto(r, "append") ELSE End(r)
  /\ told' = IF req[r].op = "register" THEN told \cup {req[r].key} ELSE told
  /\ UNCHANGED <<balances, earned, history, costs, memory, disturbed, requests>>

\* AppendSignedEvent; the request ends with an error on one, and on a
\* balance that would be negative.
AppendEvent(r) ==
  LET k == req[r].key
      newBal == Balance(k) + req[r].amount
  IN  /\ At(r, "append")
      /\ \/ /\ newBal >= 0
            /\ balances' = [balances EXCEPT ![k] = newBal]
            /\ history' = [history EXCEPT ![k] = @ \cup {newBal}]
            /\ earned' = IF req[r].op = "earn" THEN earned \cup {k} ELSE earned
            /\ req' = [req EXCEPT ![r] =
                 [op |-> @.op, key |-> k, balance |-> newBal,
                  at |-> IF @.op = "spend" THEN "set" ELSE "know"]]
            /\ UNCHANGED faults
         \/ /\ newBal < 0
            /\ End(r)
            /\ UNCHANGED <<balances, history, earned, faults>>
         \/ StoreError /\ End(r) /\ UNCHANGED <<balances, history, earned>>
      /\ UNCHANGED <<nodes, costs, memory, told, disturbed, requests>>

\* ledger.RegisterMaker: pair and earn register the key, spend does not.
RegisterMaker(r) ==
  /\ At(r, "know")
  /\ \/ L!RegisterMaker(req[r].key)
     \/ reputations[req[r].key] # None /\ UNCHANGED <<offers, loans, reputations, ledger>>
  /\ Goto(r, "set")
  /\ UNCHANGED <<store, moved, told, disturbed, requests, faults>>

\* A bug: the balance is added to the one that is there.
SetBalanceAdding(r) ==
  /\ At(r, "set")
  /\ L!SetBalance(req[r].key, ledger[req[r].key] + req[r].balance)
  /\ moved' = [moved EXCEPT ![req[r].key] = 0]
  /\ End(r)
  /\ UNCHANGED <<store, told, disturbed, requests, faults>>

\* ledger.SetBalance of the balance the event left, whatever lending did.
SetBalance(r) ==
  /\ At(r, "set")
  /\ L!SetBalance(req[r].key, req[r].balance)
  /\ moved' = [moved EXCEPT ![req[r].key] = 0]
  /\ End(r)
  /\ UNCHANGED <<store, told, disturbed, requests, faults>>

-----------------------------------------------------------------------------
\* The lending handlers: one call of the ledger each, with what the client
\* sent.  Nothing of it reaches the chain.
Lending ==
  /\ requests < MaxRequests
  /\ requests' = requests + 1
  /\ moved' = [k \in Keys |-> moved[k] + (ledger'[k] - ledger[k])]
  /\ UNCHANGED <<store, req, told, disturbed, faults>>

Lend(id, k, amount, minRep, interest) == L!Lend(id, k, amount, minRep, interest) /\ Lending
Borrow(l, id, k) == L!Borrow(l, id, k) /\ Lending
Repay(l) == L!Repay(l) /\ Lending

DaysPass == L!DaysPass /\ UNCHANGED <<store, moved, req, told, disturbed, requests, faults>>

\* A build handler appends to the chain and does not touch the ledger.
BuildEvent(k, delta) ==
  /\ requests < MaxRequests
  /\ requests' = requests + 1
  /\ Balance(k) + delta >= 0
  /\ balances' = [balances EXCEPT ![k] = Balance(k) + delta]
  /\ history' = [history EXCEPT ![k] = @ \cup {Balance(k) + delta}]
  /\ Disturb({k})
  /\ UNCHANGED <<nodes, memory, req, told>>

\* A submission that names a key and goes to the network costs, queued or not;
SubmitBuild(k, cost) ==
  /\ BuildEvent(k, -cost)
  /\ \/ costs' = costs \cup {cost} /\ UNCHANGED faults
     \/ StoreError /\ UNCHANGED costs
  /\ UNCHANGED earned

\* any other is queued with its price and charges nobody;
QueueBuild(cost) ==
  /\ requests < MaxRequests
  /\ requests' = requests + 1
  /\ costs' = costs \cup {cost}
  /\ UNCHANGED <<nodes, balances, earned, history, memory, req, told, disturbed, faults>>

\* a completion pays whoever reports it, registered or not.
CompleteBuild(k, cost) ==
  /\ cost \in costs /\ cost > 0
  /\ BuildEvent(k, (cost * 80) \div 100)
  /\ earned' = earned \cup {k}
  /\ UNCHANGED <<costs, faults>>

\* A bug: the ledger starts empty.
RestartEmpty ==
  /\ MayCrash
  /\ faults < MaxFaults
  /\ faults' = faults + 1
  /\ ledger' = BalancesFrom(NoRows) /\ reputations' = RecordsFrom(NoRows)
  /\ offers' = [o \in OfferIds |-> None]
  /\ loans' = [l \in LoanIds |-> None]
  /\ moved' = [k \in Keys |-> 0]
  /\ req' = [r \in Requests |-> None]
  /\ UNCHANGED <<store, told, disturbed, requests>>

\* The process dies and starts again: the tables stay, the ledger is filled
\* from them, or left empty if they cannot be read; offers and loans are gone.
Restart ==
  /\ MayCrash
  /\ faults < MaxFaults
  /\ faults' = faults + 1
  /\ \E rows \in {balances} \cup IF StoreMayFail THEN {NoRows} ELSE {} :
       /\ ledger' = BalancesFrom(rows) /\ reputations' = RecordsFrom(rows)
       /\ Disturb(IF rows = balances THEN {} ELSE Keys)
  /\ offers' = [o \in OfferIds |-> None]
  /\ loans' = [l \in LoanIds |-> None]
  /\ moved' = [k \in Keys |-> 0]
  /\ req' = [r \in Requests |-> None]
  /\ UNCHANGED <<store, told, requests>>

Next == \/ \E r \in Requests : \/ Receive(r) \/ GetNode(r) \/ SaveNode(r)
                               \/ AppendEvent(r) \/ RegisterMaker(r) \/ SetBalance(r)
        \/ \E id \in OfferIds, k \in Keys, amount \in LentAmounts,
              minRep \in MinReputations, interest \in Interests :
                Lend(id, k, amount, minRep, interest)
        \/ \E l \in LoanIds, id \in OfferIds, k \in Keys : Borrow(l, id, k)
        \/ \E l \in LoanIds : Repay(l)
        \/ DaysPass
        \/ \E k \in Keys, cost \in BuildCosts : SubmitBuild(k, cost) \/ CompleteBuild(k, cost)
        \/ \E cost \in BuildCosts : QueueBuild(cost)
        \/ Restart

Spec == Init /\ [][Next]_vars

-----------------------------------------------------------------------------
\* Every variable has its type; balances of the chain are never negative.
TypeOK ==
  /\ nodes \in [Keys -> NodeRows \cup {None}]
  /\ balances \in [Keys -> Nat \cup {None}]
  /\ history \in [Keys -> SUBSET Nat]
  /\ costs \subseteq BuildCosts
  /\ req \in [Requests -> ToGet \cup ToSave \cup ToAppend \cup ToSync \cup {None}]
  /\ earned \subseteq Keys /\ told \subseteq Keys /\ disturbed \subseteq Keys
  /\ offers \in [OfferIds -> L!Offers \cup {None}]
  /\ loans \in [LoanIds -> L!Loans \cup {None}]
  /\ reputations \in [Keys -> L!Reputations \cup {None}]
  /\ ledger \in [Keys -> Int] /\ moved \in [Keys -> Int]

\* Whatever order the calls of concurrent requests run in, and whatever is
\* lent, borrowed and repaid meanwhile, the ledger never holds a balance the
\* chain did not have at some time, changed by what lending moved since HQ
\* last wrote it.
LedgerBalanceWasReal == \A k \in Keys : ledger[k] - moved[k] \in history[k]

InStep(k) == ledger[k] - moved[k] = Balance(k)

\* main.go 770, "Sync into lending ledger": between the requests of a key the
\* ledger agrees with the chain but for what lending moved since, whatever
\* other keys do, requests failed and restarts cut short, as long as the key's
\* own requests take turns and it has no builds.
LedgerFollowsTurns == \A k \in Keys \ disturbed : ~ Busy(k) => InStep(k)

\* A node once paired stays paired, although every handler writes the whole
\* row it read some calls ago, under the same condition.
PairedStaysPaired ==
  [][\A k \in Keys \ disturbed' :
       nodes[k] # None /\ nodes[k].paired => nodes'[k].paired]_vars

-----------------------------------------------------------------------------
(***************************************************************************)
(* What the documentation says and the code does not keep.                 *)
(***************************************************************************)
\* main.go 770, "Sync into lending ledger": between requests the ledger
\* agrees with the chain, except for what lending moved.
LedgerFollowsChain == \A k \in Keys : ~ Busy(k) => InStep(k)

\* store.go 3: "HQ restarts do not lose registered nodes": a node told that
\* it is registered has its row.
RegisteredReplyIsTrue == \A k \in told : nodes[k] # None

\* main.go 756: "Only registered factories can earn".
EarnersAreRegistered == \A k \in earned : nodes[k] # None
=============================================================================
