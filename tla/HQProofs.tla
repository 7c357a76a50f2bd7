------------------------------ MODULE HQProofs ------------------------------
(***************************************************************************)
(* Proofs about nodes, tokens and the ledger's copy of the balances, for   *)
(* any number of keys, of concurrent requests, of failing store calls and  *)
(* of restarts.                                                            *)
(***************************************************************************)
EXTENDS HQ, TLAPS

Jobs == ToGet \cup ToSave \cup ToAppend \cup ToSync

Serves(r, k) == req[r] # None /\ req[r].key = k

\* The call a request makes next tells which locals it has.
LEMMA LocalsOf ==
  ASSUME TypeOK, NEW r \in Requests, req[r] # None
  PROVE  /\ req[r] \in Jobs /\ req[r].key \in Keys
         /\ req[r].at = "get" => req[r] \in ToGet
         /\ req[r].at = "save" => req[r] \in ToSave
         /\ req[r].at = "append" => req[r] \in ToAppend
         /\ req[r].at \in {"know", "set"} => req[r] \in ToSync
  BY DEF TypeOK, Jobs, ToGet, ToSave, ToAppend, ToSync

-----------------------------------------------------------------------------
(***************************************************************************)
(* What each call leaves in the locals of the request that makes it; the   *)
(* locals of the others stay.                                              *)
(***************************************************************************)
Leaves(r, job) == job \in Jobs \cup {None} /\ req' = [req EXCEPT ![r] = job]

\* A request that comes in disturbs the one that is served for its key.
LEMMA ReceiveEffect ==
  ASSUME TypeOK, NEW r \in Requests, Receive(r)
  PROVE  \E job \in Jobs :
           /\ Leaves(r, job) /\ req[r] = None
           /\ job.at \in {"get", "append"} /\ (job.at = "append" => job.op = "spend")
           /\ disturbed' = disturbed \cup {k \in {job.key} : Busy(k)}
           /\ UNCHANGED <<store, memory, told>>
<1>1. PICK k \in Keys :
        \/ \E h \in Handles :
             Start(r, [op |-> "register", at |-> "get", key |-> k, handle |-> h])
        \/ Start(r, [op |-> "heartbeat", at |-> "get", key |-> k])
        \/ Start(r, [op |-> "pair", at |-> "get", key |-> k, amount |-> Grant])
        \/ \E n \in Amounts :
             \/ Start(r, [op |-> "earn", at |-> "get", key |-> k, amount |-> n])
             \/ Start(r, [op |-> "spend", at |-> "append", key |-> k, amount |-> -n])
  BY DEF Receive
<1>2. \A h \in Handles : [op |-> "register", at |-> "get", key |-> k, handle |-> h] \in ToGet
  BY DEF ToGet
<1>3. [op |-> "heartbeat", at |-> "get", key |-> k] \in ToGet
  BY DEF ToGet
<1>4. [op |-> "pair", at |-> "get", key |-> k, amount |-> Grant] \in ToGet
  BY HQAssumption DEF ToGet
<1>5. \A n \in Amounts :
        /\ [op |-> "earn", at |-> "get", key |-> k, amount |-> n] \in ToGet
        /\ [op |-> "spend", at |-> "append", key |-> k, amount |-> -n] \in ToAppend
  <2>1. \A n \in Amounts : n \in Nat /\ -n \in Int
    BY HQAssumption
  <2> QED
    BY <2>1 DEF ToGet, ToAppend
<1> QED
  BY <1>1, <1>2, <1>3, <1>4, <1>5 DEF Start, Disturb, Leaves, Jobs

\* The row a request goes on with was read in this step, and stays paired.
LEMMA AfterGetEffect ==
  ASSUME TypeOK, NEW r \in Requests, At(r, "get"), NEW row \in NodeRows \cup {None},
         AfterGet(r, row)
  PROVE  \E job \in Jobs \cup {None} :
           /\ Leaves(r, job)
           /\ job # None =>
                /\ job.key = req[r].key
                /\ \/ job.at = "append" /\ job.op = "earn" /\ row # None
                   \/ /\ job.at = "save"
                      /\ row # None /\ row.paired => job.row.paired
<1>1. req[r] # None /\ req[r] \in ToGet /\ req[r].key \in Keys
  BY LocalsOf DEF At
<1>2. CASE End(r)
  BY <1>2 DEF End, Leaves
<1>3. CASE req[r].op = "earn" /\ row # None /\ Goto(r, "append")
  <2> DEFINE job == [req[r] EXCEPT !.at = "append"]
  <2>1. req[r] \in [op : {"pair", "earn"}, at : {"get"}, key : Keys, amount : Nat]
    BY <1>1, <1>3 DEF ToGet
  <2>2. /\ job \in [op : {"earn", "spend"}, at : {"append"}, key : Keys, amount : Int]
        /\ job.key = req[r].key /\ job.at = "append" /\ job.op = "earn"
    BY <1>3, <2>1
  <2>3. job \in Jobs
    BY <2>2 DEF Jobs, ToAppend
  <2>4. req' = [req EXCEPT ![r] = job]
    BY <1>3 DEF Goto
  <2> QED
    BY <1>3, <2>2, <2>3, <2>4 DEF Leaves
<1>4. CASE /\ req[r].op \in {"register", "heartbeat", "pair"}
           /\ row = None => req[r].op # "heartbeat"
           /\ req' = [req EXCEPT ![r] =
                 [op |-> @.op, at |-> "save", key |-> @.key, row |-> Edited(@, row),
                  amount |-> IF @.op = "pair" THEN Grant ELSE 0]]
  <2> DEFINE new == Edited(req[r], row)
             job == [op |-> req[r].op, at |-> "save", key |-> req[r].key, row |-> new,
                     amount |-> IF req[r].op = "pair" THEN Grant ELSE 0]
  <2>1. new \in NodeRows /\ (row # None /\ row.paired => new.paired)
    <3>1. CASE req[r].op = "register"
      <4>1. req[r].handle \in Handles
        BY <1>1, <3>1 DEF ToGet
      <4> QED
        BY <3>1, <4>1 DEF Edited, NodeRows
    <3>2. CASE req[r].op = "pair"
      BY <3>2 DEF Edited, NodeRows
    <3>3. CASE req[r].op = "heartbeat"
      BY <1>4, <3>3 DEF Edited
    <3> QED
      BY <1>4, <3>1, <3>2, <3>3
  <2> HIDE DEF new
  <2>2. job \in ToSave
    BY <1>1, <1>4, <2>1, HQAssumption DEF ToSave
  <2>3. job.key = req[r].key /\ job.at = "save" /\ job.row = new
    OBVIOUS
  <2>4. req' = [req EXCEPT ![r] = job]
    BY <1>4 DEF new
  <2> QED
    BY <2>1, <2>2, <2>3, <2>4 DEF Leaves, Jobs
<1>5. req[r].op \in {"register", "heartbeat", "pair", "earn"}
  BY <1>1 DEF ToGet
<1> QED
  BY <1>2, <1>3, <1>4, <1>5 DEF AfterGet

\* What reading the node's row leads to.
LEMMA GetNodeEffect ==
  ASSUME TypeOK, NEW r \in Requests, GetNode(r)
  PROVE  /\ req[r] # None /\ req[r].key \in Keys /\ req[r].at = "get"
         /\ disturbed' \in {disturbed, disturbed \cup {req[r].key}}
         /\ UNCHANGED <<store, memory, told>>
         /\ \E job \in Jobs \cup {None} :
              /\ Leaves(r, job)
              /\ job # None =>
                   /\ job.key = req[r].key
                   /\ \/ job.at = "append" /\ job.op = "earn" /\ nodes[job.key] # None
                      \/ /\ job.at = "save"
                         /\ job.key \notin disturbed' =>
                              (nodes[job.key] # None /\ nodes[job.key].paired => job.row.paired)
<1>1. req[r] # None /\ req[r].key \in Keys /\ req[r].at = "get" /\ At(r, "get")
  BY LocalsOf DEF GetNode, At
<1>2. nodes[req[r].key] \in NodeRows \cup {None}
  BY <1>1 DEF TypeOK
<1>3. CASE AfterGet(r, nodes[req[r].key]) /\ UNCHANGED <<disturbed, faults>>
  BY <1>1, <1>2, <1>3, AfterGetEffect DEF GetNode
<1>4. CASE AfterGet(r, None) /\ Disturb({req[r].key})
  BY <1>1, <1>4, AfterGetEffect DEF GetNode, Disturb
<1> QED
  BY <1>3, <1>4 DEF GetNode

\* What saving the node's row does.
LEMMA SaveNodeEffect ==
  ASSUME TypeOK, NEW r \in Requests, SaveNode(r)
  PROVE  /\ req[r] # None /\ req[r].key \in Keys /\ req[r].at = "save"
         /\ req[r].row \in NodeRows
         /\ nodes' \in {nodes, [nodes EXCEPT ![req[r].key] = req[r].row]}
         /\ told' \in {told, told \cup {req[r].key}}
         /\ UNCHANGED <<balances, earned, history, costs, memory, disturbed>>
         /\ \E job \in Jobs \cup {None} :
              /\ Leaves(r, job)
              /\ job # None => job.key = req[r].key /\ job.at = "append" /\ job.op = "pair"
<1>1. req[r] # None /\ req[r].key \in Keys /\ req[r].at = "save" /\ req[r] \in ToSave
  BY LocalsOf DEF SaveNode, At
<1>2. CASE End(r)
  BY <1>1, <1>2 DEF SaveNode, End, Leaves, ToSave
<1>3. CASE req[r].op = "pair" /\ Goto(r, "append")
  <2> DEFINE job == [req[r] EXCEPT !.at = "append"]
  <2>1. /\ job \in ToAppend
        /\ job.key = req[r].key /\ job.at = "append" /\ job.op = "pair"
    BY <1>1, <1>3 DEF ToSave, ToAppend
  <2>2. req' = [req EXCEPT ![r] = job]
    BY <1>3 DEF Goto
  <2> QED
    BY <1>1, <2>1, <2>2 DEF SaveNode, Leaves, Jobs, ToSave
<1> QED
  BY <1>2, <1>3 DEF SaveNode

\* What the signed append does.
LEMMA AppendEventEffect ==
  ASSUME TypeOK, NEW r \in Requests, AppendEvent(r)
  PROVE  /\ req[r] # None /\ req[r].key \in Keys /\ req[r].at = "append"
         /\ UNCHANGED <<nodes, costs, memory, told, disturbed>>
         /\ \/ Leaves(r, None) /\ UNCHANGED <<balances, history, earned>>
            \/ \E job \in Jobs :
                 /\ Leaves(r, job)
                 /\ job.key = req[r].key /\ job.at \in {"know", "set"} /\ job.balance \in Nat
                 /\ balances' = [balances EXCEPT ![job.key] = job.balance]
                 /\ history' = [history EXCEPT ![job.key] = @ \cup {job.balance}]
                 /\ earned' \in {earned, earned \cup {job.key}}
                 /\ earned' # earned => req[r].op = "earn"
<1>1. /\ req[r] # None /\ req[r].key \in Keys /\ req[r].at = "append"
      /\ req[r].op \in {"pair", "earn", "spend"} /\ req[r].amount \in Int
  BY LocalsOf DEF AppendEvent, At, ToAppend
<1> DEFINE k == req[r].key
           newBal == Balance(k) + req[r].amount
           job == [op |-> req[r].op, key |-> k, balance |-> newBal,
                   at |-> IF req[r].op = "spend" THEN "set" ELSE "know"]
<1>2. CASE End(r) /\ UNCHANGED <<balances, history, earned>>
  BY <1>1, <1>2 DEF AppendEvent, End, Leaves
<1>3. CASE /\ newBal >= 0
           /\ balances' = [balances EXCEPT ![k] = newBal]
           /\ history' = [history EXCEPT ![k] = @ \cup {newBal}]
           /\ earned' = IF req[r].op = "earn" THEN earned \cup {k} ELSE earned
           /\ req' = [req EXCEPT ![r] =
                 [op |-> @.op, key |-> k, balance |-> newBal,
                  at |-> IF @.op = "spend" THEN "set" ELSE "know"]]
  <2>1. newBal \in Nat
    BY <1>1, <1>3 DEF Balance, TypeOK
  <2> HIDE DEF newBal
  <2>2. /\ job \in ToSync /\ job.key = k /\ job.balance = newBal
        /\ job.at \in {"know", "set"}
    BY <1>1, <2>1 DEF ToSync
  <2>3. req' = [req EXCEPT ![r] = job]
    BY <1>3
  <2> QED
    BY <1>1, <1>3, <2>1, <2>2, <2>3 DEF AppendEvent, Leaves, Jobs
<1> QED
  BY <1>2, <1>3 DEF AppendEvent

-----------------------------------------------------------------------------
(***************************************************************************)
(* The lending ledger in HQ.  Its methods keep its types; what lending     *)
(* does to a balance is counted in moved, so that the two together stay.   *)
(***************************************************************************)
LedgerOK == /\ offers \in [OfferIds -> L!Offers \cup {None}]
            /\ loans \in [LoanIds -> L!Loans \cup {None}]
            /\ reputations \in [Keys -> L!Reputations \cup {None}]
            /\ ledger \in [Keys -> Int]

\* What the ledger has of a key but for what lending moved.
Net(k) == ledger[k] - moved[k]

\* The fields of the offers and the loans there are.
LEMMA LedgerFields ==
  ASSUME TypeOK
  PROVE  /\ LedgerOK
         /\ \A o \in OfferIds : offers[o] # None =>
              /\ offers[o] \in L!Offers /\ offers[o].lender \in Keys
              /\ offers[o].amount \in Int /\ offers[o].interestPct \in Int
         /\ \A l \in LoanIds : loans[l] # None =>
              /\ loans[l] \in L!Loans /\ loans[l].lender \in Keys
              /\ loans[l].borrower \in Keys
              /\ loans[l].amount \in Int /\ loans[l].repayAmount \in Int
<1>1. \A o \in OfferIds : offers[o] # None => offers[o] \in L!Offers
  BY DEF TypeOK
<1>2. \A l \in LoanIds : loans[l] # None => loans[l] \in L!Loans
  BY DEF TypeOK
<1> QED
  BY <1>1, <1>2 DEF L!Offers, L!Loans, TypeOK, LedgerOK

\* What Lend does to the ledger.
LEMMA LendEffect ==
  ASSUME TypeOK, NEW id \in OfferIds, NEW k \in Keys, NEW amount \in LentAmounts,
         NEW minRep \in MinReputations, NEW pct \in Interests,
         L!Lend(id, k, amount, minRep, pct)
  PROVE  LedgerOK'
<1>1. amount \in Int /\ minRep \in Int /\ pct \in Int
  BY HQAssumption
<1> DEFINE offer == [lender |-> k, amount |-> amount, minReputation |-> minRep,
                     interestPct |-> pct, status |-> "available"]
<1>2. offer \in L!Offers
  BY <1>1 DEF L!Offers
<1>3. /\ offers' = [offers EXCEPT ![id] = offer]
      /\ ledger' = [ledger EXCEPT ![k] = @ - amount]
      /\ UNCHANGED <<loans, reputations>>
  BY DEF L!Lend
<1> HIDE DEF offer
<1>4. offers' \in [OfferIds -> L!Offers \cup {None}]
  BY <1>2, <1>3 DEF TypeOK
<1>5. ledger' \in [Keys -> Int]
  BY <1>1, <1>3 DEF TypeOK
<1> QED
  BY <1>3, <1>4, <1>5 DEF TypeOK, LedgerOK

\* Interest is a whole number.
LEMMA InterestType == \A amount \in Int, pct \in Int : L!Interest(amount, pct) \in Int
<1> SUFFICES ASSUME NEW amount \in Int, NEW pct \in Int
             PROVE  L!Interest(amount, pct) \in Int
  OBVIOUS
<1>1. amount * pct \in Int
  OBVIOUS
<1>2. \A p \in Int : (IF p >= 0 THEN p \div 100 ELSE -((-p) \div 100)) \in Int
  OBVIOUS
<1> QED
  BY <1>1, <1>2 DEF L!Interest

\* What Borrow does to the ledger.
LEMMA BorrowEffect ==
  ASSUME TypeOK, NEW l \in LoanIds, NEW id \in OfferIds, NEW k \in Keys, L!Borrow(l, id, k)
  PROVE  LedgerOK'
<1>1. /\ offers[id] # None /\ reputations[k] # None
      /\ loans' = [loans EXCEPT ![l] = L!NewLoan(id, k)]
      /\ offers' = [offers EXCEPT ![id] = [@ EXCEPT !.status = "claimed"]]
      /\ ledger' = [ledger EXCEPT ![k] = @ + offers[id].amount]
      /\ reputations' = [reputations EXCEPT
                           ![k] = [reputations[k] EXCEPT !.totalLoans = @ + 1]]
  BY DEF L!Borrow, L!Available, L!Creditworthy
<1>2. /\ offers[id] \in L!Offers /\ offers[id].amount \in Int
      /\ offers[id].interestPct \in Int /\ offers[id].lender \in Keys
  BY <1>1, LedgerFields
<1>3. L!NewLoan(id, k) \in L!Loans
  <2>1. L!Interest(offers[id].amount, offers[id].interestPct) \in Int
    BY <1>2, InterestType
  <2>2. \A i \in Int : offers[id].amount + i \in Int
    BY <1>2
  <2>3. offers[id].amount + L!Interest(offers[id].amount, offers[id].interestPct) \in Int
    BY <2>1, <2>2
  <2> QED
    BY <1>2, <2>3 DEF L!NewLoan, L!Loans
<1>4. [offers[id] EXCEPT !.status = "claimed"] \in L!Offers
  BY <1>2 DEF L!Offers
<1>5. [reputations[k] EXCEPT !.totalLoans = @ + 1] \in L!Reputations
  <2>1. reputations[k] \in L!Reputations
    BY <1>1 DEF TypeOK
  <2> QED
    BY <2>1 DEF L!Reputations
<1>6. ledger' \in [Keys -> Int]
  BY <1>1, <1>2 DEF TypeOK
<1> QED
  BY <1>1, <1>3, <1>4, <1>5, <1>6 DEF TypeOK, LedgerOK

\* What Repay does to the ledger.
LEMMA RepayEffect ==
  ASSUME TypeOK, NEW l \in LoanIds, L!Repay(l)
  PROVE  LedgerOK'
<1> DEFINE b == loans[l].borrower
           n == loans[l].repayAmount
           paid == [ledger EXCEPT ![b] = @ - n]
           r == [reputations[b] EXCEPT !.successfulRepays = @ + 1,
                                       !.totalDelivered = @ + loans[l].amount]
<1>1. /\ loans[l] # None
      /\ ledger' = [paid EXCEPT ![loans[l].lender] = @ + n]
      /\ loans' = [loans EXCEPT ![l] = [@ EXCEPT !.status = "settled"]]
      /\ offers' = offers
      /\ reputations' = IF reputations[b] = None THEN reputations
                                                 ELSE [reputations EXCEPT ![b] = r]
  BY DEF L!Repay, L!Active, L!UpdateReputation
<1>2. /\ loans[l] \in L!Loans /\ loans[l].lender \in Keys /\ b \in Keys
      /\ loans[l].amount \in Int /\ n \in Int
  BY <1>1, LedgerFields
<1>3. paid \in [Keys -> Int]
  BY <1>2 DEF TypeOK
<1>4. ledger' \in [Keys -> Int]
  <2> HIDE DEF paid
  <2> QED
    BY <1>1, <1>2, <1>3
<1>5. [loans[l] EXCEPT !.status = "settled"] \in L!Loans
  BY <1>2 DEF L!Loans
<1>6. reputations[b] # None => r \in L!Reputations
  <2>1. ASSUME NEW old \in L!Reputations, NEW x \in Nat, NEW y \in Int
        PROVE  [old EXCEPT !.successfulRepays = x, !.totalDelivered = y] \in L!Reputations
    BY DEF L!Reputations
  <2>2. ASSUME reputations[b] \in L!Reputations
        PROVE  /\ reputations[b].successfulRepays + 1 \in Nat
               /\ reputations[b].totalDelivered + loans[l].amount \in Int
    BY <1>2, <2>2 DEF L!Reputations
  <2>3. reputations[b] # None => reputations[b] \in L!Reputations
    BY <1>2 DEF TypeOK
  <2> QED
    BY <2>1, <2>2, <2>3
<1> HIDE DEF r
<1>7. reputations' \in [Keys -> L!Reputations \cup {None}]
  BY <1>1, <1>2, <1>6 DEF TypeOK
<1> QED
  BY <1>1, <1>4, <1>5, <1>7 DEF TypeOK, LedgerOK

\* Lending keeps what the ledger has of a key but for what it moved.
LEMMA LendingEffect ==
  ASSUME TypeOK, LedgerOK', Lending
  PROVE  /\ moved' \in [Keys -> Int]
         /\ \A k \in Keys : Net(k)' = Net(k)
         /\ UNCHANGED <<store, req, told, disturbed>>
<1>1. /\ \A k \in Keys : /\ ledger[k] \in Int /\ moved[k] \in Int /\ ledger'[k] \in Int
      /\ moved' = [k \in Keys |-> moved[k] + (ledger'[k] - ledger[k])]
  BY DEF TypeOK, LedgerOK, Lending
<1> QED
  BY <1>1 DEF Net, Lending

\* The three handlers of lending, in one.
LEMMA LendingStep ==
  ASSUME TypeOK,
         \/ \E id \in OfferIds, k \in Keys, amount \in LentAmounts,
               minRep \in MinReputations, pct \in Interests : Lend(id, k, amount, minRep, pct)
         \/ \E l \in LoanIds, id \in OfferIds, k \in Keys : Borrow(l, id, k)
         \/ \E l \in LoanIds : Repay(l)
  PROVE  /\ LedgerOK' /\ moved' \in [Keys -> Int]
         /\ \A k \in Keys : Net(k)' = Net(k)
         /\ UNCHANGED <<store, req, told, disturbed>>
<1>1. LedgerOK' /\ Lending
  BY LendEffect, BorrowEffect, RepayEffect DEF Lend, Borrow, Repay
<1> QED
  BY <1>1, LendingEffect

\* Days change nothing but the records.
LEMMA DaysEffect ==
  ASSUME TypeOK, DaysPass
  PROVE  /\ LedgerOK' /\ UNCHANGED <<store, offers, loans, ledger, moved, req, told, disturbed>>
         /\ \A k \in Keys : Net(k)' = Net(k)
<1>1. /\ reputations' = [m \in Keys |->
           IF reputations[m] # None /\ reputations[m].age + DayStep =< MaxAge
           THEN [reputations[m] EXCEPT !.age = @ + DayStep] ELSE reputations[m]]
      /\ UNCHANGED <<store, offers, loans, ledger, moved, req, told, disturbed>>
  BY DEF DaysPass, L!DaysPass
<1>2. ASSUME NEW m \in Keys, reputations[m] # None
      PROVE  [reputations[m] EXCEPT !.age = @ + DayStep] \in L!Reputations
  <2>1. reputations[m] \in L!Reputations
    BY <1>2 DEF TypeOK
  <2>2. reputations[m].age + DayStep \in Nat
    BY <2>1, HQAssumption DEF L!Reputations
  <2> QED
    BY <2>1, <2>2 DEF L!Reputations
<1>3. reputations' \in [Keys -> L!Reputations \cup {None}]
  BY <1>1, <1>2 DEF TypeOK
<1> QED
  BY <1>1, <1>3 DEF TypeOK, LedgerOK, Net

\* What registering the maker with the ledger does.
LEMMA RegisterMakerEffect ==
  ASSUME TypeOK, NEW r \in Requests, RegisterMaker(r)
  PROVE  /\ req[r] # None /\ req[r].key \in Keys /\ req[r].at = "know"
         /\ LedgerOK' /\ \A k \in Keys : Net(k)' = Net(k)
         /\ UNCHANGED <<store, ledger, moved, told, disturbed>>
         /\ \E job \in Jobs : /\ Leaves(r, job) /\ job.key = req[r].key /\ job.at = "set"
                             /\ job.balance = req[r].balance
<1>1. req[r] # None /\ req[r].key \in Keys /\ req[r].at = "know" /\ req[r] \in ToSync
  BY LocalsOf DEF RegisterMaker, At
<1> DEFINE job == [req[r] EXCEPT !.at = "set"]
<1>2. job \in ToSync /\ job.key = req[r].key /\ job.at = "set" /\ job.balance = req[r].balance
  BY <1>1 DEF ToSync
<1>3. req' = [req EXCEPT ![r] = job]
  BY DEF RegisterMaker, Goto
<1>4. L!NewReputation \in L!Reputations
  BY DEF L!NewReputation, L!Reputations
<1>5. /\ UNCHANGED <<offers, loans, ledger, moved>>
      /\ reputations' \in {reputations, [reputations EXCEPT ![req[r].key] = L!NewReputation]}
  BY DEF RegisterMaker, L!RegisterMaker
<1>6. LedgerOK' /\ \A k \in Keys : Net(k)' = Net(k)
  BY <1>1, <1>4, <1>5 DEF TypeOK, LedgerOK, Net
<1> QED
  BY <1>1, <1>2, <1>3, <1>5, <1>6 DEF RegisterMaker, Leaves, Jobs

\* What writing the balance into the ledger does.
LEMMA SetBalanceEffect ==
  ASSUME TypeOK, NEW r \in Requests, SetBalance(r)
  PROVE  /\ req[r] # None /\ req[r].key \in Keys /\ req[r].at = "set"
         /\ LedgerOK' /\ moved' \in [Keys -> Int]
         /\ \A k \in Keys : Net(k)' = IF k = req[r].key THEN req[r].balance ELSE Net(k)
         /\ UNCHANGED <<store, told, disturbed>>
         /\ Leaves(r, None)
<1>1. /\ req[r] # None /\ req[r].key \in Keys /\ req[r].at = "set"
      /\ req[r].balance \in Nat
  BY LocalsOf DEF SetBalance, At, ToSync
<1>2. /\ ledger' = [ledger EXCEPT ![req[r].key] = req[r].balance]
      /\ moved' = [moved EXCEPT ![req[r].key] = 0]
      /\ UNCHANGED <<offers, loans, reputations>>
  BY DEF SetBalance, L!SetBalance
<1>3. LedgerOK' /\ moved' \in [Keys -> Int]
  BY <1>1, <1>2 DEF TypeOK, LedgerOK
<1>4. \A k \in Keys : Net(k)' = IF k = req[r].key THEN req[r].balance ELSE Net(k)
  BY <1>1, <1>2 DEF TypeOK, Net
<1> QED
  BY <1>1, <1>3, <1>4 DEF SetBalance, End, Leaves

\* What a build does to the chain.
LEMMA BuildEffect ==
  ASSUME TypeOK, NEW k \in Keys, NEW cost \in BuildCosts,
         SubmitBuild(k, cost) \/ CompleteBuild(k, cost)
  PROVE  \E delta \in Int :
           /\ Balance(k) + delta \in Nat
           /\ balances' = [balances EXCEPT ![k] = Balance(k) + delta]
           /\ history' = [history EXCEPT ![k] = @ \cup {Balance(k) + delta}]
           /\ disturbed' = disturbed \cup {k}
           /\ costs' \in {costs, costs \cup {cost}} /\ earned' \in {earned, earned \cup {k}}
           /\ UNCHANGED <<nodes, memory, req, told>>
<1>1. cost \in Nat /\ -cost \in Int
  BY HQAssumption
<1>2. (cost * 80) \div 100 \in Int
  BY <1>1
<1>3. PICK delta \in Int : BuildEvent(k, delta)
  BY <1>1, <1>2 DEF SubmitBuild, CompleteBuild
<1>4. /\ costs' \in {costs, costs \cup {cost}} /\ earned' \in {earned, earned \cup {k}}
  BY DEF SubmitBuild, CompleteBuild
<1>5. Balance(k) \in Nat
  BY DEF Balance, TypeOK
<1>6. Balance(k) + delta \in Nat
  BY <1>3, <1>5 DEF BuildEvent
<1> QED
  BY <1>3, <1>4, <1>6 DEF BuildEvent, Disturb

\* What a start does.
LEMMA RestartEffect ==
  ASSUME TypeOK, Restart
  PROVE  /\ LedgerOK' /\ moved' \in [Keys -> Int]
         /\ \A k \in Keys : /\ Net(k)' \in {0, Balance(k)}
                            /\ k \notin disturbed' => Net(k)' = Balance(k)
         /\ disturbed' \in {disturbed, disturbed \cup Keys}
         /\ \A r \in Requests : req'[r] = None
         /\ req' \in [Requests -> {None}]
         /\ UNCHANGED <<store, told>>
<1>1. PICK rows \in {balances, NoRows} :
         /\ ledger' = BalancesFrom(rows) /\ reputations' = RecordsFrom(rows)
         /\ disturbed' = disturbed \cup IF rows = balances THEN {} ELSE Keys
  BY DEF Restart, Disturb
<1>2. /\ offers' = [o \in OfferIds |-> None] /\ loans' = [l \in LoanIds |-> None]
      /\ moved' = [k \in Keys |-> 0]
      /\ req' = [r \in Requests |-> None]
      /\ UNCHANGED <<store, told>>
  BY DEF Restart
<1>3. rows \in [Keys -> Nat \cup {None}]
  BY DEF TypeOK, NoRows
<1>4. /\ BalancesFrom(rows) \in [Keys -> Int]
      /\ \A k \in Keys : BalancesFrom(rows)[k] = IF rows[k] = None THEN 0 ELSE rows[k]
  BY <1>3 DEF BalancesFrom
<1>5. RecordsFrom(rows) \in [Keys -> L!Reputations \cup {None}]
  <2>1. L!NewReputation \in L!Reputations
    BY DEF L!NewReputation, L!Reputations
  <2> QED
    BY <2>1 DEF RecordsFrom
<1>6. ASSUME NEW k \in Keys
      PROVE  Net(k)' \in {0, Balance(k)} /\ (k \notin disturbed' => Net(k)' = Balance(k))
  <2>1. Net(k)' = IF rows[k] = None THEN 0 ELSE rows[k]
    <3>1. moved'[k] = 0 /\ ledger'[k] = (IF rows[k] = None THEN 0 ELSE rows[k])
          /\ ledger'[k] \in Int
      BY <1>1, <1>2, <1>4
    <3> QED
      BY <3>1 DEF Net
  <2>2. CASE rows = balances
    BY <2>1, <2>2 DEF Balance
  <2>3. CASE rows # balances
    <3>1. rows[k] = None /\ k \in disturbed'
      BY <1>1, <2>3 DEF NoRows
    <3> QED
      BY <2>1, <3>1
  <2> QED
    BY <2>2, <2>3
<1>7. LedgerOK' /\ moved' \in [Keys -> Int]
  BY <1>1, <1>2, <1>4, <1>5 DEF LedgerOK
<1> QED
  BY <1>1, <1>2, <1>6, <1>7

-----------------------------------------------------------------------------
(***************************************************************************)
(* Type correctness.                                                       *)
(***************************************************************************)
LEMMA TypeInit == Init => TypeOK
<1> SUFFICES ASSUME Init PROVE TypeOK
  OBVIOUS
<1>1. balances \in [Keys -> Nat \cup {None}] /\ \A k \in Keys : balances[k] = None
  BY DEF Init, NoRows
<1>2. ledger \in [Keys -> Int] /\ moved \in [Keys -> Int]
  BY <1>1 DEF Init, BalancesFrom, NoRows
<1>3. reputations \in [Keys -> L!Reputations \cup {None}]
  BY DEF Init, RecordsFrom, NoRows
<1> QED
  BY <1>1, <1>2, <1>3 DEF Init, TypeOK

\* A request that goes on to a job of the right type has one.
LEMMA LeavesType ==
  ASSUME TypeOK, NEW r \in Requests, NEW job, Leaves(r, job)
  PROVE  /\ req' \in [Requests -> ToGet \cup ToSave \cup ToAppend \cup ToSync \cup {None}]
         /\ req'[r] = job /\ \A s \in Requests \ {r} : req'[s] = req[s]
  BY DEF TypeOK, Leaves, Jobs

\* Every step keeps the types.
LEMMA TypeNext == TypeOK /\ [Next]_vars => TypeOK'
<1> SUFFICES ASSUME TypeOK, [Next]_vars PROVE TypeOK'
  OBVIOUS
<1> USE DEF store, memory
<1>1. ASSUME NEW r \in Requests, Receive(r) PROVE TypeOK'
  <2>1. PICK job \in Jobs :
          /\ Leaves(r, job)
          /\ disturbed' = disturbed \cup {k \in {job.key} : Busy(k)}
          /\ UNCHANGED <<store, memory, told>>
    BY <1>1, ReceiveEffect
  <2>2. job.key \in Keys
    BY DEF Jobs, ToGet, ToSave, ToAppend, ToSync
  <2> QED
    BY <2>1, <2>2, LeavesType DEF TypeOK
<1>2. ASSUME NEW r \in Requests, GetNode(r) PROVE TypeOK'
  BY <1>2, GetNodeEffect, LeavesType DEF TypeOK
<1>3. ASSUME NEW r \in Requests, SaveNode(r) PROVE TypeOK'
  BY <1>3, SaveNodeEffect, LeavesType DEF TypeOK
<1>4. ASSUME NEW r \in Requests, AppendEvent(r) PROVE TypeOK'
  <2>1. CASE Leaves(r, None) /\ UNCHANGED <<balances, history, earned>>
    BY <1>4, <2>1, AppendEventEffect, LeavesType DEF TypeOK
  <2>2. CASE \E job \in Jobs :
               /\ Leaves(r, job)
               /\ job.key = req[r].key /\ job.at \in {"know", "set"} /\ job.balance \in Nat
               /\ balances' = [balances EXCEPT ![job.key] = job.balance]
               /\ history' = [history EXCEPT ![job.key] = @ \cup {job.balance}]
               /\ earned' \in {earned, earned \cup {job.key}}
    <3>1. PICK job \in Jobs :
               /\ Leaves(r, job)
               /\ job.key = req[r].key /\ job.balance \in Nat
               /\ balances' = [balances EXCEPT ![job.key] = job.balance]
               /\ history' = [history EXCEPT ![job.key] = @ \cup {job.balance}]
               /\ earned' \in {earned, earned \cup {job.key}}
      BY <2>2
    <3>2. /\ job.key \in Keys
          /\ UNCHANGED <<nodes, costs, memory, told, disturbed>>
      BY <1>4, <3>1, AppendEventEffect
    <3>3. balances' \in [Keys -> Nat \cup {None}] /\ history' \in [Keys -> SUBSET Nat]
      BY <3>1, <3>2 DEF TypeOK
    <3>4. earned' \subseteq Keys
      BY <3>1, <3>2 DEF TypeOK
    <3> QED
      BY <3>1, <3>2, <3>3, <3>4, LeavesType DEF TypeOK
  <2> QED
    BY <1>4, <2>1, <2>2, AppendEventEffect
<1>5. ASSUME NEW r \in Requests, RegisterMaker(r) PROVE TypeOK'
  BY <1>5, RegisterMakerEffect, LeavesType DEF TypeOK, LedgerOK
<1>6. ASSUME NEW r \in Requests, SetBalance(r) PROVE TypeOK'
  BY <1>6, SetBalanceEffect, LeavesType DEF TypeOK, LedgerOK
<1>7. ASSUME \/ \E id \in OfferIds, k \in Keys, amount \in LentAmounts,
                  minRep \in MinReputations, pct \in Interests :
                    Lend(id, k, amount, minRep, pct)
             \/ \E l \in LoanIds, id \in OfferIds, k \in Keys : Borrow(l, id, k)
             \/ \E l \in LoanIds : Repay(l)
      PROVE  TypeOK'
  <2>1. LedgerOK' /\ moved' \in [Keys -> Int] /\ UNCHANGED <<store, req, told, disturbed>>
    BY <1>7, LendingStep
  <2> QED
    BY <2>1 DEF TypeOK, LedgerOK
<1>8. CASE DaysPass
  BY <1>8, DaysEffect DEF TypeOK, LedgerOK
<1>9. ASSUME NEW k \in Keys, NEW cost \in BuildCosts,
             SubmitBuild(k, cost) \/ CompleteBuild(k, cost)
      PROVE  TypeOK'
  <2>1. PICK delta \in Int :
           /\ Balance(k) + delta \in Nat
           /\ balances' = [balances EXCEPT ![k] = Balance(k) + delta]
           /\ history' = [history EXCEPT ![k] = @ \cup {Balance(k) + delta}]
           /\ disturbed' = disturbed \cup {k}
           /\ costs' \in {costs, costs \cup {cost}} /\ earned' \in {earned, earned \cup {k}}
           /\ UNCHANGED <<nodes, memory, req, told>>
    BY <1>9, BuildEffect
  <2> QED
    BY <2>1 DEF TypeOK
<1>10. CASE Restart
  BY <1>10, RestartEffect DEF TypeOK, LedgerOK
<1>11. ASSUME NEW cost \in BuildCosts, QueueBuild(cost) PROVE TypeOK'
  BY <1>11 DEF QueueBuild, TypeOK
<1>12. CASE UNCHANGED vars
  BY <1>12 DEF vars, TypeOK
<1> QED
  BY <1>1, <1>2, <1>3, <1>4, <1>5, <1>6, <1>7, <1>8, <1>9, <1>10, <1>11, <1>12 DEF Next

\* Every variable keeps its type, the locals of every request among them,
\* whatever clients send to lend; balances of the chain are never negative.
THEOREM TypeCorrect == Spec => []TypeOK
  BY TypeInit, TypeNext, PTL DEF Spec

-----------------------------------------------------------------------------
(***************************************************************************)
(* The ledger's balances.  A request carries the balance its event left to *)
(* the ledger, two calls later, and a start reads it from its row: each    *)
(* must be one the chain had.                                              *)
(***************************************************************************)
SyncedBalanceWasReal ==
  \A r \in Requests : req[r] # None /\ req[r].at \in {"know", "set"}
                        => req[r].balance \in history[req[r].key]

HistoryIsKept == \A k \in Keys : 0 \in history[k] /\ Balance(k) \in history[k]

RealInv == SyncedBalanceWasReal /\ HistoryIsKept /\ LedgerBalanceWasReal

\* The ledger starts with real balances.
LEMMA RealInit == Init => RealInv
<1> SUFFICES ASSUME Init PROVE RealInv
  OBVIOUS
<1>1. \A k \in Keys : ledger[k] = 0 /\ moved[k] = 0 /\ history[k] = {0} /\ Balance(k) = 0
  BY DEF Init, BalancesFrom, NoRows, Balance
<1> QED
  BY <1>1 DEF Init, RealInv, SyncedBalanceWasReal, HistoryIsKept, LedgerBalanceWasReal

\* What the ledger has but for lending stays as real as it was.
LEMMA StaysReal ==
  ASSUME LedgerBalanceWasReal,
         \A k \in Keys : Net(k)' = Net(k) /\ history[k] \subseteq history'[k]
  PROVE  LedgerBalanceWasReal'
  BY DEF LedgerBalanceWasReal, Net

\* Every step keeps to balances that were real.
LEMMA RealInductive == TypeOK /\ RealInv /\ [Next]_vars => RealInv'
<1> SUFFICES ASSUME TypeOK, RealInv, [Next]_vars PROVE RealInv'
  OBVIOUS
<1> USE DEF store, memory
<1>1. \A r \in Requests : req[r] # None => req[r].key \in Keys
  BY LocalsOf
<1>2. ASSUME NEW r \in Requests, NEW job \in Jobs \cup {None}, Leaves(r, job),
             UNCHANGED <<balances, history>>,
             job # None /\ job.at \in {"know", "set"} => job.balance \in history[job.key]
      PROVE  SyncedBalanceWasReal' /\ HistoryIsKept'
  BY <1>1, <1>2, LeavesType DEF RealInv, SyncedBalanceWasReal, HistoryIsKept, Balance
<1>3. ASSUME UNCHANGED <<balances, history, req>>, \A k \in Keys : Net(k)' = Net(k)
      PROVE  RealInv'
  BY <1>3, StaysReal DEF RealInv, SyncedBalanceWasReal, HistoryIsKept, Balance
<1>4. ASSUME NEW r \in Requests, Receive(r) PROVE RealInv'
  BY <1>2, <1>4, ReceiveEffect, StaysReal DEF RealInv, Net
<1>5. ASSUME NEW r \in Requests, GetNode(r) PROVE RealInv'
  BY <1>2, <1>5, GetNodeEffect, StaysReal DEF RealInv, Net
<1>6. ASSUME NEW r \in Requests, SaveNode(r) PROVE RealInv'
  BY <1>2, <1>6, SaveNodeEffect, StaysReal DEF RealInv, Net
<1>7. ASSUME NEW r \in Requests, AppendEvent(r) PROVE RealInv'
  <2>1. CASE Leaves(r, None) /\ UNCHANGED <<balances, history, earned>>
    BY <1>2, <1>7, <2>1, AppendEventEffect, StaysReal DEF RealInv, Net
  <2>2. ASSUME NEW job \in Jobs, Leaves(r, job), job.key \in Keys, job.balance \in Nat,
               balances' = [balances EXCEPT ![job.key] = job.balance],
               history' = [history EXCEPT ![job.key] = @ \cup {job.balance}],
               UNCHANGED memory
        PROVE  RealInv'
    <3>1. \A k \in Keys : /\ history[k] \subseteq history'[k]
                          /\ balances'[k] = IF k = job.key THEN job.balance ELSE balances[k]
      BY <2>2 DEF TypeOK
    <3>2. job.balance \in history'[job.key] /\ job.balance # None
      BY <2>2, HQAssumption DEF TypeOK
    <3>3. HistoryIsKept'
      BY <3>1, <3>2 DEF RealInv, HistoryIsKept, Balance
    <3>4. SyncedBalanceWasReal'
      BY <1>1, <2>2, <3>1, <3>2, LeavesType DEF RealInv, SyncedBalanceWasReal
    <3> QED
      BY <2>2, <3>1, <3>3, <3>4, StaysReal DEF RealInv, Net
  <2> QED
    BY <1>7, <2>1, <2>2, AppendEventEffect
<1>8. ASSUME NEW r \in Requests, RegisterMaker(r) PROVE RealInv'
  <2>1. req[r].balance \in history[req[r].key]
    BY <1>8, RegisterMakerEffect DEF RealInv, SyncedBalanceWasReal
  <2> QED
    BY <1>2, <1>8, <2>1, RegisterMakerEffect, StaysReal DEF RealInv
<1>9. ASSUME NEW r \in Requests, SetBalance(r) PROVE RealInv'
  <2>1. LedgerBalanceWasReal'
    <3> SUFFICES ASSUME NEW k \in Keys PROVE Net(k)' \in history'[k]
      BY DEF LedgerBalanceWasReal, Net
    <3>1. CASE k = req[r].key
      BY <1>9, <3>1, SetBalanceEffect DEF RealInv, SyncedBalanceWasReal
    <3>2. CASE k # req[r].key
      BY <1>9, <3>2, SetBalanceEffect DEF RealInv, LedgerBalanceWasReal, Net
    <3> QED
      BY <3>1, <3>2
  <2> QED
    BY <1>2, <1>9, <2>1, SetBalanceEffect DEF RealInv
<1>10. ASSUME \/ \E id \in OfferIds, k \in Keys, amount \in LentAmounts,
                   minRep \in MinReputations, pct \in Interests :
                     Lend(id, k, amount, minRep, pct)
              \/ \E l \in LoanIds, id \in OfferIds, k \in Keys : Borrow(l, id, k)
              \/ \E l \in LoanIds : Repay(l)
       PROVE  RealInv'
  <2>1. UNCHANGED <<balances, history, req>> /\ \A k \in Keys : Net(k)' = Net(k)
    BY <1>10, LendingStep
  <2> QED
    BY <1>3, <2>1
<1>11. ASSUME NEW k \in Keys, NEW cost \in BuildCosts,
              SubmitBuild(k, cost) \/ CompleteBuild(k, cost)
       PROVE  RealInv'
  <2>1. PICK delta \in Int :
           /\ Balance(k) + delta \in Nat
           /\ balances' = [balances EXCEPT ![k] = Balance(k) + delta]
           /\ history' = [history EXCEPT ![k] = @ \cup {Balance(k) + delta}]
           /\ UNCHANGED <<nodes, memory, req, told>>
    BY <1>11, BuildEffect
  <2>2. \A j \in Keys : /\ history[j] \subseteq history'[j]
                        /\ balances'[j] = IF j = k THEN Balance(k) + delta ELSE balances[j]
                        /\ j = k => Balance(k) + delta \in history'[j]
    BY <2>1 DEF TypeOK
  <2>3. HistoryIsKept'
    <3> SUFFICES ASSUME NEW j \in Keys PROVE 0 \in history'[j] /\ Balance(j)' \in history'[j]
      BY DEF HistoryIsKept
    <3>1. CASE j = k
      BY <2>1, <2>2, <3>1, HQAssumption DEF RealInv, HistoryIsKept, Balance
    <3>2. CASE j # k
      BY <2>2, <3>2 DEF RealInv, HistoryIsKept, Balance
    <3> QED
      BY <3>1, <3>2
  <2>4. SyncedBalanceWasReal'
    BY <1>1, <2>1, <2>2 DEF RealInv, SyncedBalanceWasReal
  <2> QED
    BY <2>1, <2>2, <2>3, <2>4, StaysReal DEF RealInv, Net
<1>12. CASE Restart
  <2>1. \A k \in Keys : Net(k)' \in history'[k]
    BY <1>12, RestartEffect DEF RealInv, HistoryIsKept
  <2> QED
    BY <1>12, <2>1, RestartEffect
       DEF RealInv, SyncedBalanceWasReal, HistoryIsKept, Balance, LedgerBalanceWasReal, Net
<1>13. CASE DaysPass
  BY <1>3, <1>13, DaysEffect
<1>14. ASSUME NEW cost \in BuildCosts, QueueBuild(cost) PROVE RealInv'
  BY <1>3, <1>14 DEF QueueBuild, Net
<1>15. CASE UNCHANGED vars
  BY <1>3, <1>15 DEF vars, Net
<1> QED
  BY <1>4, <1>5, <1>6, <1>7, <1>8, <1>9, <1>10, <1>11, <1>12, <1>13, <1>14, <1>15 DEF Next

\* Whatever order the calls of concurrent requests run in, and whatever
\* clients lend, borrow and repay meanwhile, the ledger never holds a balance
\* the chain did not have at some time, but for what lending moved since.
THEOREM LedgerIsNeverInvented == Spec => []LedgerBalanceWasReal
<1>1. RealInv => LedgerBalanceWasReal
  BY DEF RealInv
<1> QED
  BY <1>1, RealInit, RealInductive, TypeCorrect, PTL DEF Spec

-----------------------------------------------------------------------------
(***************************************************************************)
(* Taking turns.  For a key whose requests never overlapped: only one is   *)
(* served at a time, between the event and SetBalance the request holds    *)
(* the balance of the chain and at any other time the ledger does, but for *)
(* what lending moved, and a row about to be written is as paired as the   *)
(* one that it replaces.                                                   *)
(***************************************************************************)
OneAtATime(k) == \A r, s \in Requests : Serves(r, k) /\ Serves(s, k) => r = s

CarriesBalance(k) ==
  \A r \in Requests : Serves(r, k) /\ req[r].at \in {"know", "set"}
                        => req[r].balance = Balance(k)

LedgerSettled(k) ==
  (\A r \in Requests : Serves(r, k) => req[r].at \notin {"know", "set"})
    => Net(k) = Balance(k)

RowIsCurrent(k) ==
  \A r \in Requests : Serves(r, k) /\ req[r].at = "save"
                        => (nodes[k] # None /\ nodes[k].paired => req[r].row.paired)

Turns(k) == /\ OneAtATime(k)
            /\ CarriesBalance(k)
            /\ LedgerSettled(k)
            /\ RowIsCurrent(k)

TurnsInv == \A k \in Keys \ disturbed : Turns(k)

\* Nobody has taken turns yet.
LEMMA TurnsInit == Init => TurnsInv
  BY DEF Init, BalancesFrom, NoRows, Net, Balance, Serves, TurnsInv, Turns, OneAtATime, CarriesBalance,
         LedgerSettled, RowIsCurrent

\* What is done for other keys leaves a key alone.
LEMMA OthersKeepTurns ==
  ASSUME NEW k \in Keys, Turns(k),
         nodes'[k] = nodes[k], balances'[k] = balances[k],
         Net(k)' = Net(k),
         \A s \in Requests : Serves(s, k) \/ Serves(s, k)' => req'[s] = req[s]
  PROVE  Turns(k)'
<1>1. \A s \in Requests : Serves(s, k) <=> Serves(s, k)'
  BY DEF Serves
<1>2. Balance(k)' = Balance(k)
  BY DEF Balance
<1> QED
  BY <1>1, <1>2 DEF Turns, OneAtATime, CarriesBalance, LedgerSettled, RowIsCurrent

\* The next call of a request of another key.
LEMMA OtherRequest ==
  ASSUME TypeOK, NEW k \in Keys, Turns(k), NEW r \in Requests, NEW job, Leaves(r, job),
         req[r] # None => req[r].key # k, job # None => job.key # k,
         nodes'[k] = nodes[k], balances'[k] = balances[k],
         Net(k)' = Net(k)
  PROVE  Turns(k)'
<1>1. req'[r] = job /\ \A s \in Requests \ {r} : req'[s] = req[s]
  BY LeavesType
<1>2. \A s \in Requests : Serves(s, k) \/ Serves(s, k)' => s # r
  BY <1>1 DEF Serves
<1> QED
  BY <1>1, <1>2, OthersKeepTurns

\* The next call of the one request of the key.
LEMMA OwnRequest ==
  ASSUME TypeOK, NEW k \in Keys, Turns(k), NEW r \in Requests, NEW job, Leaves(r, job),
         job # None => job.key = k,
         \A s \in Requests \ {r} : ~ Serves(s, k),
         job # None /\ job.at \in {"know", "set"} => job.balance = Balance(k)',
         job = None \/ job.at \notin {"know", "set"} => Net(k)' = Balance(k)',
         job # None /\ job.at = "save"
           => (nodes'[k] # None /\ nodes'[k].paired => job.row.paired)
  PROVE  Turns(k)'
<1>1. req'[r] = job /\ \A s \in Requests \ {r} : req'[s] = req[s]
  BY LeavesType
<1>2. \A s \in Requests : Serves(s, k)' <=> s = r /\ job # None
  BY <1>1 DEF Serves
<1>3. OneAtATime(k)'
  BY <1>2 DEF OneAtATime
<1>4. CarriesBalance(k)'
  BY <1>1, <1>2 DEF CarriesBalance
<1>5. LedgerSettled(k)'
  BY <1>1, <1>2 DEF LedgerSettled
<1>6. RowIsCurrent(k)'
  BY <1>1, <1>2 DEF RowIsCurrent
<1> QED
  BY <1>3, <1>4, <1>5, <1>6 DEF Turns

\* A request of a key is the only one, and unless it carries the balance
\* from its event to the ledger, the ledger has it.
LEMMA OnlyRequest ==
  ASSUME NEW k \in Keys, Turns(k), NEW r \in Requests, Serves(r, k)
  PROVE  /\ \A s \in Requests \ {r} : ~ Serves(s, k)
         /\ req[r].at \notin {"know", "set"} => Net(k) = Balance(k)
         /\ req[r].at \in {"know", "set"} => req[r].balance = Balance(k)
  BY DEF Turns, OneAtATime, LedgerSettled, CarriesBalance

\* Every step keeps the ledger in step with those who take turns.
LEMMA TurnsInductive == TypeOK /\ TurnsInv /\ [Next]_vars => TurnsInv'
<1> SUFFICES ASSUME TypeOK, TurnsInv, [Next]_vars, NEW k \in Keys, k \notin disturbed'
             PROVE  Turns(k)'
  BY DEF TurnsInv
<1> USE DEF store, memory
<1>1. k \notin disturbed
  <2>1. disturbed \subseteq disturbed'
    BY GetNodeEffect, ReceiveEffect, SaveNodeEffect, AppendEventEffect, RegisterMakerEffect,
       SetBalanceEffect, LendingStep, DaysEffect, BuildEffect, RestartEffect
       DEF Next, vars, QueueBuild
  <2> QED
    BY <2>1
<1>2. Turns(k)
  BY <1>1 DEF TurnsInv
<1>3. ASSUME NEW r \in Requests, Receive(r) PROVE Turns(k)'
  <2>1. PICK job \in Jobs :
          /\ Leaves(r, job) /\ req[r] = None
          /\ job.at \in {"get", "append"}
          /\ disturbed' = disturbed \cup {j \in {job.key} : Busy(j)}
          /\ UNCHANGED <<store, memory, told>>
    BY <1>3, ReceiveEffect
  <2>2. job # None
    BY NoneAssumption DEF Jobs
  <2>3. CASE job.key = k
    <3>1. \A s \in Requests : ~ Serves(s, k)
      BY <2>1, <2>3 DEF Busy, Serves
    <3>2. Net(k) = Balance(k)
      BY <1>2, <3>1 DEF Turns, LedgerSettled
    <3> QED
      BY <1>2, <2>1, <2>3, <3>1, <3>2, OwnRequest DEF Balance, Net
  <2>4. CASE job.key # k
    BY <1>2, <2>1, <2>4, OtherRequest DEF Net
  <2> QED
    BY <2>3, <2>4
<1>4. ASSUME NEW r \in Requests, GetNode(r) PROVE Turns(k)'
  <2>1. PICK job \in Jobs \cup {None} :
          /\ Leaves(r, job)
          /\ job # None =>
               /\ job.key = req[r].key
               /\ \/ job.at = "append"
                  \/ /\ job.at = "save"
                     /\ job.key \notin disturbed' =>
                          (nodes[job.key] # None /\ nodes[job.key].paired => job.row.paired)
    BY <1>4, GetNodeEffect
  <2>2. /\ req[r] # None /\ req[r].at = "get"
        /\ UNCHANGED <<nodes, balances, ledger, moved>>
    BY <1>4, GetNodeEffect
  <2>3. CASE req[r].key = k
    <3>1. Serves(r, k)
      BY <2>2, <2>3 DEF Serves
    <3>2. /\ \A s \in Requests \ {r} : ~ Serves(s, k)
          /\ Net(k)' = Balance(k)'
      BY <1>2, <2>2, <3>1, OnlyRequest DEF Balance, Net
    <3> QED
      BY <1>2, <2>1, <2>2, <2>3, <3>2, OwnRequest
  <2>4. CASE req[r].key # k
    BY <1>2, <2>1, <2>2, <2>4, OtherRequest DEF Net
  <2> QED
    BY <2>3, <2>4
<1>5. ASSUME NEW r \in Requests, SaveNode(r) PROVE Turns(k)'
  <2>1. PICK job \in Jobs \cup {None} :
          /\ Leaves(r, job)
          /\ job # None => job.key = req[r].key /\ job.at = "append"
    BY <1>5, SaveNodeEffect
  <2>2. /\ req[r] # None /\ req[r].at = "save"
        /\ nodes' \in {nodes, [nodes EXCEPT ![req[r].key] = req[r].row]}
        /\ UNCHANGED <<balances, ledger, moved>>
    BY <1>5, SaveNodeEffect
  <2>3. CASE req[r].key = k
    <3>1. Serves(r, k)
      BY <2>2, <2>3 DEF Serves
    <3>2. /\ \A s \in Requests \ {r} : ~ Serves(s, k)
          /\ Net(k)' = Balance(k)'
      BY <1>2, <2>2, <3>1, OnlyRequest DEF Balance, Net
    <3> QED
      BY <1>2, <2>1, <2>2, <2>3, <3>2, OwnRequest
  <2>4. CASE req[r].key # k
    <3>1. nodes'[k] = nodes[k]
      BY <2>2, <2>4 DEF TypeOK
    <3> QED
      BY <1>2, <2>1, <2>2, <2>4, <3>1, OtherRequest DEF Net
  <2> QED
    BY <2>3, <2>4
<1>6. ASSUME NEW r \in Requests, AppendEvent(r) PROVE Turns(k)'
  <2>1. /\ req[r] # None /\ req[r].at = "append"
        /\ UNCHANGED <<nodes, ledger, moved>>
    BY <1>6, AppendEventEffect
  <2>2. CASE Leaves(r, None) /\ UNCHANGED <<balances, history, earned>>
    <3>1. CASE req[r].key = k
      <4>1. Serves(r, k)
        BY <2>1, <3>1 DEF Serves
      <4>2. /\ \A s \in Requests \ {r} : ~ Serves(s, k)
            /\ Net(k)' = Balance(k)'
        BY <1>2, <2>1, <2>2, <4>1, OnlyRequest DEF Balance, Net
      <4> QED
        BY <1>2, <2>1, <2>2, <4>2, OwnRequest
    <3>2. CASE req[r].key # k
      BY <1>2, <2>1, <2>2, <3>2, OtherRequest DEF Net
    <3> QED
      BY <3>1, <3>2
  <2>3. ASSUME NEW job \in Jobs, Leaves(r, job), job.key = req[r].key,
               job.at \in {"know", "set"}, job.balance \in Nat,
               balances' = [balances EXCEPT ![job.key] = job.balance]
        PROVE  Turns(k)'
    <3>1. job # None
      BY NoneAssumption DEF Jobs
    <3>2. CASE req[r].key = k
      <4>1. Serves(r, k)
        BY <2>1, <3>2 DEF Serves
      <4>2. \A s \in Requests \ {r} : ~ Serves(s, k)
        BY <1>2, <4>1, OnlyRequest
      <4>3. job.balance = Balance(k)'
        BY <2>3, <3>2, HQAssumption DEF Balance, TypeOK
      <4> QED
        BY <1>2, <2>1, <2>3, <3>1, <3>2, <4>2, <4>3, OwnRequest
    <3>3. CASE req[r].key # k
      <4>1. balances'[k] = balances[k]
        BY <2>3, <3>3 DEF TypeOK
      <4> QED
        BY <1>2, <2>1, <2>3, <3>3, <4>1, OtherRequest DEF Net
    <3> QED
      BY <3>2, <3>3
  <2> QED
    BY <1>6, <2>2, <2>3, AppendEventEffect
<1>7. ASSUME NEW r \in Requests, RegisterMaker(r) PROVE Turns(k)'
  <2>1. PICK job \in Jobs : /\ Leaves(r, job) /\ job.key = req[r].key /\ job.at = "set"
                            /\ job.balance = req[r].balance
    BY <1>7, RegisterMakerEffect
  <2>2. /\ req[r] # None /\ req[r].at = "know" /\ job # None
        /\ Net(k)' = Net(k)
        /\ UNCHANGED <<nodes, balances>>
    BY <1>7, RegisterMakerEffect, NoneAssumption DEF Jobs
  <2>3. CASE req[r].key = k
    <3>1. Serves(r, k)
      BY <2>2, <2>3 DEF Serves
    <3>2. /\ \A s \in Requests \ {r} : ~ Serves(s, k)
          /\ job.balance = Balance(k)'
      BY <1>2, <2>1, <2>2, <3>1, OnlyRequest DEF Balance
    <3> QED
      BY <1>2, <2>1, <2>2, <2>3, <3>2, OwnRequest
  <2>4. CASE req[r].key # k
    BY <1>2, <2>1, <2>2, <2>4, OtherRequest
  <2> QED
    BY <2>3, <2>4
<1>8. ASSUME NEW r \in Requests, SetBalance(r) PROVE Turns(k)'
  <2>1. /\ req[r] # None /\ req[r].at = "set" /\ Leaves(r, None)
        /\ Net(k)' = IF k = req[r].key THEN req[r].balance ELSE Net(k)
        /\ UNCHANGED <<nodes, balances>>
    BY <1>8, SetBalanceEffect
  <2>2. CASE req[r].key = k
    <3>1. Serves(r, k)
      BY <2>1, <2>2 DEF Serves
    <3>2. /\ \A s \in Requests \ {r} : ~ Serves(s, k)
          /\ Net(k)' = Balance(k)'
      BY <1>2, <2>1, <2>2, <3>1, OnlyRequest DEF Balance
    <3> QED
      BY <1>2, <2>1, <3>2, OwnRequest
  <2>3. CASE req[r].key # k
    BY <1>2, <2>1, <2>3, OtherRequest
  <2> QED
    BY <2>2, <2>3
<1>9. ASSUME UNCHANGED <<nodes, balances, req>>, Net(k)' = Net(k) PROVE Turns(k)'
  BY <1>2, <1>9, OthersKeepTurns
<1>10. ASSUME \/ \E id \in OfferIds, j \in Keys, amount \in LentAmounts,
                   minRep \in MinReputations, pct \in Interests :
                     Lend(id, j, amount, minRep, pct)
              \/ \E l \in LoanIds, id \in OfferIds, j \in Keys : Borrow(l, id, j)
              \/ \E l \in LoanIds : Repay(l)
       PROVE  Turns(k)'
  <2>1. UNCHANGED <<nodes, balances, req>> /\ Net(k)' = Net(k)
    BY <1>10, LendingStep
  <2> QED
    BY <1>9, <2>1
<1>11. ASSUME NEW j \in Keys, NEW cost \in BuildCosts,
              SubmitBuild(j, cost) \/ CompleteBuild(j, cost)
       PROVE  Turns(k)'
  <2>1. PICK delta \in Int :
           /\ balances' = [balances EXCEPT ![j] = Balance(j) + delta]
           /\ disturbed' = disturbed \cup {j}
           /\ UNCHANGED <<nodes, memory, req, told>>
    BY <1>11, BuildEffect
  <2>2. j # k /\ balances'[k] = balances[k]
    BY <2>1 DEF TypeOK
  <2> QED
    BY <1>2, <2>1, <2>2, OthersKeepTurns DEF Net
<1>12. CASE Restart
  <2>1. /\ Net(k)' = Balance(k) /\ balances' = balances
        /\ \A r \in Requests : req'[r] = None
    BY <1>12, RestartEffect
  <2> QED
    BY <2>1 DEF Balance, Serves, Turns, OneAtATime, CarriesBalance, LedgerSettled, RowIsCurrent
<1>13. CASE DaysPass
  BY <1>9, <1>13, DaysEffect
<1>14. ASSUME NEW cost \in BuildCosts, QueueBuild(cost) PROVE Turns(k)'
  BY <1>9, <1>14 DEF QueueBuild, Net
<1>15. CASE UNCHANGED vars
  BY <1>9, <1>15 DEF vars, Net
<1> QED
  BY <1>3, <1>4, <1>5, <1>6, <1>7, <1>8, <1>10, <1>11, <1>12, <1>13, <1>14, <1>15 DEF Next

\* "Sync into lending ledger" (main.go 770): between the requests of a key
\* the ledger agrees with the chain but for what lending moved, whatever other
\* keys do, whatever anyone lends, borrows or repays and whatever failed, as
\* long as the key's own requests take turns and it has no builds.
THEOREM LedgerFollowsWhoTakesTurns == Spec => []LedgerFollowsTurns
<1>1. TypeOK /\ TurnsInv => LedgerFollowsTurns
  <2> SUFFICES ASSUME TypeOK, TurnsInv, NEW k \in Keys \ disturbed, ~ Busy(k)
               PROVE  InStep(k)
    BY DEF LedgerFollowsTurns
  <2> QED
    BY DEF TurnsInv, Turns, LedgerSettled, Busy, Serves, InStep, Net
<1> QED
  BY <1>1, TurnsInit, TurnsInductive, TypeCorrect, PTL DEF Spec

\* A node once paired stays paired, although every handler writes the whole
\* row it read some calls ago, under the same condition.
THEOREM PairingLasts == Spec => PairedStaysPaired
<1>1. ASSUME TypeOK, TurnsInv, [Next]_vars, NEW k \in Keys, k \notin disturbed',
             nodes[k] # None, nodes[k].paired
      PROVE  nodes'[k].paired
  <2>1. ASSUME NEW r \in Requests, SaveNode(r) PROVE nodes'[k].paired
    <3>1. /\ req[r] # None /\ req[r].at = "save" /\ k \notin disturbed
          /\ nodes' \in {nodes, [nodes EXCEPT ![req[r].key] = req[r].row]}
      BY <1>1, <2>1, SaveNodeEffect
    <3>2. req[r].key = k => req[r].row.paired
      BY <1>1, <3>1 DEF TurnsInv, Turns, RowIsCurrent, Serves
    <3> QED
      BY <1>1, <3>1, <3>2 DEF TypeOK
  <2>2. CASE UNCHANGED nodes
    BY <1>1, <2>2
  <2> QED
    BY <1>1, <2>1, <2>2, LendingStep, BuildEffect
       DEF Next, vars, store, Receive, Start, GetNode, AppendEvent, RegisterMaker, SetBalance,
           DaysPass, QueueBuild, Restart
<1>2. TypeOK /\ TurnsInv /\ [Next]_vars =>
        [\A k \in Keys \ disturbed' :
           nodes[k] # None /\ nodes[k].paired => nodes'[k].paired]_vars
  BY <1>1
<1> QED
  BY <1>2, TurnsInit, TurnsInductive, TypeCorrect, PTL DEF Spec, PairedStaysPaired
=============================================================================
