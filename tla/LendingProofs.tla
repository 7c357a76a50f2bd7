--------------------------- MODULE LendingProofs ---------------------------
(***************************************************************************)
(* Proofs about the lending ledger, for any makers, offers and limits, and *)
(* whatever the clients send.                                              *)
(***************************************************************************)
EXTENDS Lending, Sums, TLAPS

-----------------------------------------------------------------------------
\* What Repay and Default write into a record leaves it a record.
LEMMA RecordUpdates ==
  \A r \in Reputations, n \in Int :
    /\ [r EXCEPT !.successfulRepays = @ + 1, !.totalDelivered = @ + n] \in Reputations
    /\ [r EXCEPT !.defaults = @ + 1, !.penalty = @ + n] \in Reputations
<1>1. ASSUME NEW r \in Reputations, NEW x \in Nat, NEW y \in Int
      PROVE  /\ [r EXCEPT !.successfulRepays = x, !.totalDelivered = y] \in Reputations
             /\ [r EXCEPT !.defaults = x, !.penalty = y] \in Reputations
  BY DEF Reputations
<1>2. ASSUME NEW r \in Reputations, NEW n \in Int
      PROVE  /\ r.successfulRepays + 1 \in Nat /\ r.totalDelivered + n \in Int
             /\ r.defaults + 1 \in Nat /\ r.penalty + n \in Int
  BY DEF Reputations
<1> QED
  BY <1>1, <1>2

\* The fields of the offers and the loans there are.
LEMMA Fields ==
  ASSUME TypeOK
  PROVE  /\ \A o \in OfferIds : offers[o] # None =>
              /\ offers[o] \in Offers /\ offers[o].lender \in Makers
              /\ offers[o].amount \in Int /\ offers[o].interestPct \in Int
         /\ \A l \in LoanIds : loans[l] # None =>
              /\ loans[l] \in Loans /\ loans[l].offer \in OfferIds
              /\ loans[l].lender \in Makers /\ loans[l].borrower \in Makers
              /\ loans[l].amount \in Int /\ loans[l].repayAmount \in Int
<1>1. \A o \in OfferIds : offers[o] # None => offers[o] \in Offers
  BY DEF TypeOK
<1>2. \A l \in LoanIds : loans[l] # None => loans[l] \in Loans
  BY DEF TypeOK
<1> QED
  BY <1>1, <1>2 DEF Offers, Loans

\* What Lend writes.
LEMMA LendWrites ==
  ASSUME TypeOK, NEW id \in OfferIds, NEW m \in Makers, NEW amount \in Int,
         NEW minRep \in Int, NEW pct \in Int, Lend(id, m, amount, minRep, pct)
  PROVE  /\ \A o \in OfferIds : o # id => offers'[o] = offers[o]
         /\ offers'[id] \in Offers /\ offers'[id].lender = m
         /\ offers'[id].amount = amount /\ offers'[id].status = "available"
         /\ offers' \in [OfferIds -> Offers \cup {None}]
         /\ balances' = [balances EXCEPT ![m] = @ - amount]
         /\ balances[m] >= amount /\ balances[m] - amount >= MinBalanceAfterLend
         /\ ActiveLoans(m) = {}
         /\ UNCHANGED <<loans, reputations>>
<1> DEFINE offer == [lender |-> m, amount |-> amount, minReputation |-> minRep,
                     interestPct |-> pct, status |-> "available"]
<1>1. offer \in Offers /\ offer.lender = m /\ offer.amount = amount
      /\ offer.status = "available"
  BY DEF Offers
<1>2. offers' = [offers EXCEPT ![id] = offer]
  BY DEF Lend
<1> HIDE DEF offer
<1>3. offers \in [OfferIds -> Offers \cup {None}]
  BY DEF TypeOK
<1> QED
  BY <1>1, <1>2, <1>3 DEF Lend

\* What CancelOffer writes.
LEMMA CancelWrites ==
  ASSUME TypeOK, NEW id \in OfferIds, NEW m \in Makers, CancelOffer(id, m)
  PROVE  /\ Available(id) /\ offers[id].lender = m /\ offers[id].amount \in Int
         /\ \A o \in OfferIds : o # id => offers'[o] = offers[o]
         /\ offers'[id] \in Offers /\ offers'[id].status = "cancelled"
         /\ offers'[id].lender = m /\ offers'[id].amount = offers[id].amount
         /\ offers' \in [OfferIds -> Offers \cup {None}]
         /\ balances' = [balances EXCEPT ![m] = @ + offers[id].amount]
         /\ UNCHANGED <<loans, reputations>>
<1>1. Available(id) /\ offers[id].lender = m
      /\ offers' = [offers EXCEPT ![id] = [@ EXCEPT !.status = "cancelled"]]
      /\ balances' = [balances EXCEPT ![m] = @ + offers[id].amount]
      /\ UNCHANGED <<loans, reputations>>
  BY DEF CancelOffer
<1>2. offers[id] \in Offers /\ offers[id].amount \in Int
  BY <1>1, Fields DEF Available
<1>3. /\ [offers[id] EXCEPT !.status = "cancelled"] \in Offers
      /\ [offers[id] EXCEPT !.status = "cancelled"].status = "cancelled"
      /\ [offers[id] EXCEPT !.status = "cancelled"].lender = offers[id].lender
      /\ [offers[id] EXCEPT !.status = "cancelled"].amount = offers[id].amount
  BY <1>2 DEF Offers
<1> QED
  BY <1>1, <1>2, <1>3 DEF TypeOK

\* Interest is a whole number.
LEMMA InterestType == \A amount \in Int, pct \in Int : Interest(amount, pct) \in Int
<1> SUFFICES ASSUME NEW amount \in Int, NEW pct \in Int
             PROVE  Interest(amount, pct) \in Int
  OBVIOUS
<1>1. amount * pct \in Int
  OBVIOUS
<1>2. \A p \in Int : (IF p >= 0 THEN p \div 100 ELSE -((-p) \div 100)) \in Int
  OBVIOUS
<1> QED
  BY <1>1, <1>2 DEF Interest

\* What Borrow asks for, and what it writes into the balances and the records,
LEMMA BorrowWrites ==
  ASSUME TypeOK, NEW l \in LoanIds, NEW id \in OfferIds, NEW m \in Makers, Borrow(l, id, m)
  PROVE  /\ Available(id) /\ offers[id].lender # m /\ offers[id].amount \in Int
         /\ offers[id] \in Offers /\ offers[id].interestPct \in Int
         /\ offers[id].lender \in Makers
         /\ reputations[m] \in Reputations /\ reputations[m] # None
         /\ Creditworthy(m, offers[id]) /\ NetworkCanBear(offers[id].amount)
         /\ balances' = [balances EXCEPT ![m] = @ + offers[id].amount]
         /\ reputations' = [reputations EXCEPT
                              ![m] = [reputations[m] EXCEPT !.totalLoans = @ + 1]]
         /\ [reputations[m] EXCEPT !.totalLoans = @ + 1] \in Reputations
<1>1. /\ Available(id) /\ offers[id].lender # m /\ reputations[m] # None
      /\ Creditworthy(m, offers[id]) /\ NetworkCanBear(offers[id].amount)
      /\ balances' = [balances EXCEPT ![m] = @ + offers[id].amount]
      /\ reputations' = [reputations EXCEPT
                           ![m] = [reputations[m] EXCEPT !.totalLoans = @ + 1]]
  BY DEF Borrow, Creditworthy
<1>2. /\ offers[id] \in Offers /\ offers[id].amount \in Int
      /\ offers[id].interestPct \in Int /\ offers[id].lender \in Makers
  BY <1>1, Fields DEF Available
<1>3. reputations[m] \in Reputations
  BY <1>1 DEF TypeOK
<1>4. [reputations[m] EXCEPT !.totalLoans = @ + 1] \in Reputations
  BY <1>3 DEF Reputations
<1> QED
  BY <1>1, <1>2, <1>3, <1>4

\* into the loans,
LEMMA BorrowOpens ==
  ASSUME TypeOK, NEW l \in LoanIds, NEW id \in OfferIds, NEW m \in Makers, Borrow(l, id, m)
  PROVE  /\ \A k \in LoanIds : k # l => loans'[k] = loans[k]
         /\ loans'[l] \in Loans /\ loans'[l].offer = id /\ loans'[l].borrower = m
         /\ loans'[l].lender = offers[id].lender /\ loans'[l].amount = offers[id].amount
         /\ loans'[l].status = "active"
         /\ loans' \in [LoanIds -> Loans \cup {None}]
<1>1. loans' = [loans EXCEPT ![l] = NewLoan(id, m)]
  BY DEF Borrow
<1>2. /\ offers[id].amount \in Int /\ offers[id].interestPct \in Int
      /\ offers[id].lender \in Makers
  BY BorrowWrites
<1>3. /\ NewLoan(id, m) \in Loans
      /\ NewLoan(id, m).offer = id /\ NewLoan(id, m).borrower = m
      /\ NewLoan(id, m).lender = offers[id].lender
      /\ NewLoan(id, m).amount = offers[id].amount
      /\ NewLoan(id, m).status = "active"
  <2>1. Interest(offers[id].amount, offers[id].interestPct) \in Int
    BY <1>2, InterestType
  <2>2. \A i \in Int : offers[id].amount + i \in Int
    BY <1>2
  <2>3. offers[id].amount + Interest(offers[id].amount, offers[id].interestPct) \in Int
    BY <2>1, <2>2
  <2> QED
    BY <1>2, <2>3 DEF NewLoan, Loans
<1> QED
  BY <1>1, <1>3 DEF TypeOK

\* and into the offers.
LEMMA BorrowClaims ==
  ASSUME TypeOK, NEW l \in LoanIds, NEW id \in OfferIds, NEW m \in Makers, Borrow(l, id, m)
  PROVE  /\ \A o \in OfferIds : Available(o) => offers[o].lender # m
         /\ \A o \in OfferIds : o # id => offers'[o] = offers[o]
         /\ offers'[id] \in Offers /\ offers'[id].status = "claimed"
         /\ offers'[id].lender = offers[id].lender /\ offers'[id].amount = offers[id].amount
         /\ offers' \in [OfferIds -> Offers \cup {None}]
<1>1. /\ \A o \in OfferIds : Available(o) => offers[o].lender # m
      /\ offers' = [offers EXCEPT ![id] = [@ EXCEPT !.status = "claimed"]]
  BY DEF Borrow
<1>2. offers[id] \in Offers
  BY BorrowWrites
<1>3. /\ [offers[id] EXCEPT !.status = "claimed"] \in Offers
      /\ [offers[id] EXCEPT !.status = "claimed"].status = "claimed"
      /\ [offers[id] EXCEPT !.status = "claimed"].lender = offers[id].lender
      /\ [offers[id] EXCEPT !.status = "claimed"].amount = offers[id].amount
  BY <1>2 DEF Offers
<1> QED
  BY <1>1, <1>3 DEF TypeOK

\* What ending a loan does to it.
LEMMA EndWrites ==
  ASSUME TypeOK, NEW l \in LoanIds, Active(l), NEW status \in {"settled", "defaulted"},
         loans' = [loans EXCEPT ![l].status = status]
  PROVE  /\ \A k \in LoanIds : k # l => loans'[k] = loans[k]
         /\ loans'[l] \in Loans /\ loans'[l].status = status
         /\ loans'[l].offer = loans[l].offer /\ loans'[l].lender = loans[l].lender
         /\ loans'[l].borrower = loans[l].borrower /\ loans'[l].amount = loans[l].amount
         /\ loans' \in [LoanIds -> Loans \cup {None}]
<1>1. loans' = [loans EXCEPT ![l] = [@ EXCEPT !.status = status]]
  OBVIOUS
<1>2. loans[l] \in Loans
  BY Fields DEF Active
<1>3. /\ [loans[l] EXCEPT !.status = status] \in Loans
      /\ [loans[l] EXCEPT !.status = status].status = status
      /\ [loans[l] EXCEPT !.status = status].offer = loans[l].offer
      /\ [loans[l] EXCEPT !.status = status].lender = loans[l].lender
      /\ [loans[l] EXCEPT !.status = status].borrower = loans[l].borrower
      /\ [loans[l] EXCEPT !.status = status].amount = loans[l].amount
  BY <1>2 DEF Loans
<1> QED
  BY <1>1, <1>3 DEF TypeOK

\* What Repay writes, the balances apart.
LEMMA RepayWrites ==
  ASSUME TypeOK, NEW l \in LoanIds, Repay(l)
  PROVE  LET b == loans[l].borrower
             r == [reputations[b] EXCEPT !.successfulRepays = @ + 1,
                                         !.totalDelivered = @ + loans[l].amount]
         IN  /\ Active(l) /\ b \in Makers
             /\ loans' = [loans EXCEPT ![l].status = "settled"]
             /\ offers' = offers
             /\ balances[b] >= loans[l].repayAmount
             /\ reputations' = IF reputations[b] = None THEN reputations
                                                        ELSE [reputations EXCEPT ![b] = r]
             /\ reputations[b] # None => reputations[b] \in Reputations /\ r \in Reputations
<1> DEFINE b == loans[l].borrower
           r == [reputations[b] EXCEPT !.successfulRepays = @ + 1,
                                       !.totalDelivered = @ + loans[l].amount]
<1>1. /\ Active(l)
      /\ loans' = [loans EXCEPT ![l].status = "settled"]
      /\ offers' = offers
      /\ balances[b] >= loans[l].repayAmount
      /\ reputations' = IF reputations[b] = None THEN reputations
                                                 ELSE [reputations EXCEPT ![b] = r]
  BY DEF Repay, UpdateReputation
<1>2. b \in Makers /\ loans[l].amount \in Int
  BY <1>1, Fields DEF Active
<1>3. reputations[b] # None => reputations[b] \in Reputations
  BY <1>2 DEF TypeOK
<1>4. reputations[b] # None => r \in Reputations
  BY <1>2, <1>3, RecordUpdates
<1> HIDE DEF r
<1> QED
  BY <1>1, <1>2, <1>3, <1>4 DEF r

\* What Repay does to the balances.
LEMMA RepayMoves ==
  ASSUME TypeOK, NEW l \in LoanIds, Repay(l)
  PROVE  LET b == loans[l].borrower
             paid == [balances EXCEPT ![b] = @ - loans[l].repayAmount]
         IN  /\ paid \in [Makers -> Int]
             /\ balances' = [paid EXCEPT ![loans[l].lender] = @ + loans[l].repayAmount]
             /\ balances' \in [Makers -> Int]
<1> DEFINE b == loans[l].borrower
           paid == [balances EXCEPT ![b] = @ - loans[l].repayAmount]
<1>1. Active(l) /\ balances' = [paid EXCEPT ![loans[l].lender] = @ + loans[l].repayAmount]
  BY DEF Repay
<1>2. b \in Makers /\ loans[l].lender \in Makers /\ loans[l].repayAmount \in Int
  BY <1>1, Fields DEF Active
<1>3. paid \in [Makers -> Int]
  BY <1>2 DEF TypeOK
<1>4. balances' \in [Makers -> Int]
  <2> HIDE DEF paid
  <2> QED
    BY <1>1, <1>2, <1>3
<1> QED
  BY <1>1, <1>3, <1>4

\* What Default writes.
LEMMA DefaultWrites ==
  ASSUME TypeOK, NEW l \in LoanIds, Default(l)
  PROVE  LET b == loans[l].borrower
             r == [reputations[b] EXCEPT !.defaults = @ + 1,
                                         !.penalty = @ + loans[l].amount]
         IN  /\ Active(l) /\ b \in Makers
             /\ loans' = [loans EXCEPT ![l].status = "defaulted"]
             /\ UNCHANGED <<offers, balances>>
             /\ reputations' = IF reputations[b] = None THEN reputations
                                                        ELSE [reputations EXCEPT ![b] = r]
             /\ reputations[b] # None => reputations[b] \in Reputations /\ r \in Reputations
<1> DEFINE b == loans[l].borrower
           r == [reputations[b] EXCEPT !.defaults = @ + 1, !.penalty = @ + loans[l].amount]
<1>1. /\ Active(l)
      /\ loans' = [loans EXCEPT ![l].status = "defaulted"]
      /\ UNCHANGED <<offers, balances>>
      /\ reputations' = IF reputations[b] = None THEN reputations
                                                 ELSE [reputations EXCEPT ![b] = r]
  BY DEF Default, UpdateReputation
<1>2. b \in Makers /\ loans[l].amount \in Int
  BY <1>1, Fields DEF Active
<1>3. reputations[b] # None => reputations[b] \in Reputations
  BY <1>2 DEF TypeOK
<1>4. reputations[b] # None => r \in Reputations
  BY <1>2, <1>3, RecordUpdates
<1> HIDE DEF r
<1> QED
  BY <1>1, <1>2, <1>3, <1>4 DEF r

\* What a day does to a record.
LEMMA DaysWrite ==
  ASSUME TypeOK, DaysPass, NEW m \in Makers
  PROVE  /\ reputations'[m] \in Reputations \cup {None}
         /\ reputations'[m] = None <=> reputations[m] = None
         /\ reputations[m] # None =>
              \E a \in Nat : /\ reputations[m].age =< a
                             /\ reputations'[m] = [reputations[m] EXCEPT !.age = a]
<1>1. reputations'[m] = IF reputations[m] # None /\ reputations[m].age + DayStep =< MaxAge
                        THEN [reputations[m] EXCEPT !.age = @ + DayStep]
                        ELSE reputations[m]
  BY DEF DaysPass
<1>2. CASE reputations[m] = None
  BY <1>1, <1>2
<1>3. CASE reputations[m] # None
  <2>1. reputations[m] \in Reputations
    BY <1>3 DEF TypeOK
  <2>2. PICK a \in Nat : /\ reputations[m].age =< a
                         /\ reputations'[m] = [reputations[m] EXCEPT !.age = a]
    <3>1. reputations[m].age \in Nat /\ reputations[m].age + DayStep \in Nat
          /\ reputations[m].age =< reputations[m].age + DayStep
      BY <2>1, LedgerAssumption DEF Reputations
    <3>2. reputations[m] = [reputations[m] EXCEPT !.age = reputations[m].age]
      BY <2>1 DEF Reputations
    <3> QED
      BY <1>1, <3>1, <3>2
  <2>3. [reputations[m] EXCEPT !.age = a] \in Reputations
    BY <2>1 DEF Reputations
  <2> QED
    BY <1>3, <2>2, <2>3, LedgerAssumption
<1> QED
  BY <1>2, <1>3

\* TypeOK is preserved by every method of the ledger.
LEMMA TypeInductive == TypeOK /\ [Next]_vars => TypeOK'
<1> SUFFICES ASSUME TypeOK, [Next]_vars PROVE TypeOK'
  OBVIOUS
<1> USE LedgerAssumption
<1>1. ASSUME NEW m \in Makers, NEW amount \in Deposits, Deposit(m, amount) PROVE TypeOK'
  <2>1. /\ balances' = [balances EXCEPT ![m] = amount]
        /\ outside' = outside + amount - balances[m]
        /\ UNCHANGED <<offers, loans, reputations, lends, offerNo, loanNo, lost>>
    BY <1>1 DEF Deposit, SetBalance
  <2>2. amount \in Int /\ balances[m] \in Int
    BY LendingAssumption DEF TypeOK
  <2> QED
    BY <2>1, <2>2 DEF TypeOK
<1>2. ASSUME NEW id \in OfferIds, NEW m \in Makers, NEW amount \in Amounts,
             NEW minRep \in MinReputations, NEW pct \in Interests,
             MakeOffer(id, m, amount, minRep, pct)
      PROVE  TypeOK'
  <2>1. amount \in Int /\ minRep \in Int /\ pct \in Int
    BY LendingAssumption
  <2>2. /\ offers' \in [OfferIds -> Offers \cup {None}]
        /\ balances' = [balances EXCEPT ![m] = @ - amount]
        /\ UNCHANGED <<loans, reputations>>
    BY <1>2, <2>1, LendWrites DEF MakeOffer
  <2>3. /\ lends' = lends + 1
        /\ offerNo' = [offerNo EXCEPT ![id] = lends + 1]
        /\ lost' = lost + IF Available(id) THEN offers[id].amount ELSE 0
        /\ UNCHANGED <<loanNo, outside>>
    BY <1>2 DEF MakeOffer
  <2>4. Available(id) => offers[id].amount \in Int
    BY Fields DEF Available
  <2>5. lost' \in Int
    BY <2>3, <2>4 DEF TypeOK
  <2>6. lends' \in Nat /\ 0..lends \subseteq 0..lends' /\ lends + 1 \in 0..lends'
    BY <2>3 DEF TypeOK
  <2>7. offerNo' \in [OfferIds -> 0..lends'] /\ loanNo' \in [LoanIds -> 0..lends']
    BY <2>3, <2>6 DEF TypeOK
  <2>8. balances' \in [Makers -> Int]
    BY <2>1, <2>2 DEF TypeOK
  <2> QED
    BY <2>2, <2>3, <2>5, <2>6, <2>7, <2>8 DEF TypeOK
<1>3. ASSUME NEW l \in LoanIds, NEW id \in OfferIds, NEW m \in Makers, TakeOffer(l, id, m)
      PROVE  TypeOK'
  <2>1. /\ loans' \in [LoanIds -> Loans \cup {None}]
        /\ offers' \in [OfferIds -> Offers \cup {None}]
        /\ offers[id].amount \in Int
        /\ balances' = [balances EXCEPT ![m] = @ + offers[id].amount]
        /\ reputations' = [reputations EXCEPT
                             ![m] = [reputations[m] EXCEPT !.totalLoans = @ + 1]]
        /\ [reputations[m] EXCEPT !.totalLoans = @ + 1] \in Reputations
    BY <1>3, BorrowWrites, BorrowOpens, BorrowClaims DEF TakeOffer
  <2>2. balances' \in [Makers -> Int] /\ reputations' \in [Makers -> Reputations \cup {None}]
    BY <2>1 DEF TypeOK
  <2>3. loanNo' = [loanNo EXCEPT ![l] = offerNo[id]] /\ UNCHANGED <<lends, offerNo, lost, outside>>
    BY <1>3 DEF TakeOffer
  <2> QED
    BY <2>1, <2>2, <2>3 DEF TypeOK
<1>4. CASE Other /\ UNCHANGED <<lends, offerNo, loanNo, lost, outside>>
  <2>1. ASSUME NEW m \in Makers, RegisterMaker(m) PROVE TypeOK'
    <3>1. NewReputation \in Reputations
      BY DEF NewReputation, Reputations
    <3> QED
      BY <1>4, <2>1, <3>1 DEF TypeOK, RegisterMaker
  <2>2. ASSUME NEW id \in OfferIds, NEW m \in Makers, CancelOffer(id, m) PROVE TypeOK'
    BY <1>4, <2>2, CancelWrites DEF TypeOK
  <2>3. ASSUME NEW l \in LoanIds, Repay(l) PROVE TypeOK'
    <3>1. loans' \in [LoanIds -> Loans \cup {None}]
      BY <2>3, RepayWrites, EndWrites
    <3>2. reputations' \in [Makers -> Reputations \cup {None}]
      BY <2>3, RepayWrites DEF TypeOK
    <3>3. balances' \in [Makers -> Int] /\ offers' = offers
      BY <2>3, RepayWrites, RepayMoves
    <3> QED
      BY <1>4, <3>1, <3>2, <3>3 DEF TypeOK
  <2>4. ASSUME NEW l \in LoanIds, Default(l) PROVE TypeOK'
    <3>1. loans' \in [LoanIds -> Loans \cup {None}]
      BY <2>4, DefaultWrites, EndWrites
    <3>2. reputations' \in [Makers -> Reputations \cup {None}]
      BY <2>4, DefaultWrites DEF TypeOK
    <3>3. UNCHANGED <<offers, balances>>
      BY <2>4, DefaultWrites
    <3> QED
      BY <1>4, <3>1, <3>2, <3>3 DEF TypeOK
  <2>5. CASE DaysPass
    <3>1. reputations' \in [Makers -> Reputations \cup {None}]
      BY <2>5, DaysWrite DEF DaysPass
    <3> QED
      BY <1>4, <2>5, <3>1 DEF TypeOK, DaysPass
  <2> QED
    BY <1>4, <2>1, <2>2, <2>3, <2>4, <2>5 DEF Other
<1>5. CASE UNCHANGED vars
  BY <1>5 DEF TypeOK, vars
<1> QED
  BY <1>1, <1>2, <1>3, <1>4, <1>5 DEF Next

\* Every variable keeps its type, whatever the clients send: no record loses
\* its shape, counts of a history stay naturals, and no offer or loan is of a
\* call of Lend that was not made.  Balances are integers: they may be negative.
THEOREM TypeCorrect == Spec => []TypeOK
<1>1. Init => TypeOK
  BY LendingAssumption DEF Init, TypeOK
<1> QED
  BY <1>1, TypeInductive, PTL DEF Spec

-----------------------------------------------------------------------------
(***************************************************************************)
(* No leveraged lending and one loan per call of Lend are inductive        *)
(* together with the types, with this of the numbers: the offers there are *)
(* come from different calls of Lend, and so do the loans.                 *)
(***************************************************************************)
Numbered == /\ \A o \in OfferIds : offers[o] # None => offerNo[o] >= 1
            /\ \A l \in LoanIds : loans[l] # None => loanNo[l] >= 1
            /\ \A o1, o2 \in OfferIds :
                 offers[o1] # None /\ offers[o2] # None /\ offerNo[o1] = offerNo[o2] => o1 = o2
            /\ \A l \in LoanIds : loans[l] # None => offers[loans[l].offer] # None
LInv == TypeOK /\ NoLeveragedLending /\ OfferLentOnce /\ Numbered

\* What OfferLentOnce says of one loan.
LEMMA LoansOffer ==
  ASSUME LInv, NEW l \in LoanIds, loans[l] # None
  PROVE  /\ loans[l] \in Loans /\ loans[l].offer \in OfferIds
         /\ offers[loans[l].offer] # None
         /\ offerNo[loans[l].offer] = loanNo[l] =>
              /\ offers[loans[l].offer].status = "claimed"
              /\ offers[loans[l].offer].lender = loans[l].lender
              /\ offers[loans[l].offer].amount = loans[l].amount
         /\ \A o \in OfferIds : Available(o) => offerNo[o] # loanNo[l]
         /\ \A k \in LoanIds : loans[k] # None /\ loanNo[k] = loanNo[l] => k = l
<1>1. loans[l] \in Loans /\ loans[l].offer \in OfferIds
  BY Fields DEF LInv
<1> QED
  BY <1>1 DEF LInv, OfferLentOnce, Numbered

\* Lend keeps all of it: whoever lends has no active loan, and the number of
\* its offer is new.
LEMMA LendStep ==
  ASSUME LInv, TypeOK', NEW id \in OfferIds, NEW m \in Makers, NEW amount \in Amounts,
         NEW minRep \in MinReputations, NEW pct \in Interests,
         MakeOffer(id, m, amount, minRep, pct)
  PROVE  NoLeveragedLending' /\ OfferLentOnce' /\ Numbered'
<1>0. amount \in Int /\ minRep \in Int /\ pct \in Int
  BY LendingAssumption
<1>1. /\ \A o \in OfferIds : o # id => offers'[o] = offers[o]
      /\ offers'[id] \in Offers /\ offers'[id].lender = m
      /\ offers'[id].status = "available"
      /\ ActiveLoans(m) = {}
      /\ loans' = loans
  BY <1>0, LendWrites DEF LInv, MakeOffer
<1>2. offers'[id] # None
  BY <1>1, LedgerAssumption
<1>3. /\ \A o \in OfferIds : o # id => offerNo'[o] = offerNo[o]
      /\ offerNo'[id] = lends + 1
      /\ loanNo' = loanNo
      /\ \A o \in OfferIds : offerNo[o] \in Nat /\ offerNo[o] < lends + 1
      /\ \A l \in LoanIds : loanNo[l] \in Nat /\ loanNo[l] < lends + 1
  BY DEF MakeOffer, LInv, TypeOK
<1>4. \A l \in LoanIds : Active(l) => loans[l].borrower # m
  BY <1>1 DEF ActiveLoans
<1>5. NoLeveragedLending'
  <2> SUFFICES ASSUME NEW l \in LoanIds, NEW o \in OfferIds, Active(l), Available(o)'
               PROVE  loans[l].borrower # offers'[o].lender
    BY <1>1 DEF NoLeveragedLending, Active
  <2>1. CASE o = id
    BY <2>1, <1>1, <1>4
  <2>2. CASE o # id
    BY <2>2, <1>1 DEF LInv, NoLeveragedLending, Available
  <2> QED
    BY <2>1, <2>2
<1>6. OfferLentOnce'
  <2>1. ASSUME NEW l \in LoanIds, loans[l] # None, offerNo'[loans[l].offer] = loanNo[l]
        PROVE  /\ offers'[loans[l].offer].status = "claimed"
               /\ offers'[loans[l].offer].lender = loans[l].lender
               /\ offers'[loans[l].offer].amount = loans[l].amount
    <3>1. loans[l].offer # id
      BY <2>1, <1>3
    <3> QED
      BY <2>1, <3>1, <1>1, <1>3, LoansOffer
  <2>2. ASSUME NEW l \in LoanIds, NEW o \in OfferIds, loans[l] # None, Available(o)'
        PROVE  offerNo'[o] # loanNo[l]
    <3>1. CASE o = id
      BY <3>1, <1>3
    <3>2. CASE o # id
      <4>1. Available(o) /\ offerNo'[o] = offerNo[o]
        BY <2>2, <3>2, <1>1, <1>3 DEF Available
      <4> QED
        BY <2>2, <4>1, LoansOffer
    <3> QED
      BY <3>1, <3>2
  <2>3. \A l1, l2 \in LoanIds :
          loans[l1] # None /\ loans[l2] # None /\ loanNo[l1] = loanNo[l2] => l1 = l2
    BY DEF LInv, OfferLentOnce
  <2> QED
    BY <2>1, <2>2, <2>3, <1>1, <1>3 DEF OfferLentOnce
<1>7. Numbered'
  <2>1. \A o \in OfferIds : offers'[o] # None => offerNo'[o] >= 1
    <3> TAKE o \in OfferIds
    <3>1. lends + 1 >= 1
      BY DEF LInv, TypeOK
    <3> QED
      BY <3>1, <1>1, <1>3 DEF LInv, Numbered
  <2>2. ASSUME NEW o1 \in OfferIds, NEW o2 \in OfferIds, offers'[o1] # None,
               offers'[o2] # None, offerNo'[o1] = offerNo'[o2]
        PROVE  o1 = o2
    <3>1. CASE o1 # id /\ o2 # id
      BY <2>2, <3>1, <1>1, <1>3 DEF LInv, Numbered
    <3>2. CASE o1 = id /\ o2 # id
      BY <2>2, <3>2, <1>3
    <3>3. CASE o2 = id /\ o1 # id
      BY <2>2, <3>3, <1>3
    <3> QED
      BY <3>1, <3>2, <3>3
  <2>3. \A l \in LoanIds : loans[l] # None =>
          loanNo[l] >= 1 /\ offers'[loans[l].offer] # None
    BY <1>1, <1>2, LoansOffer DEF LInv, Numbered
  <2> QED
    BY <2>1, <2>2, <2>3, <1>1, <1>3 DEF Numbered
<1> QED
  BY <1>5, <1>6, <1>7

\* CancelOffer keeps all of it: it takes away an available offer, whose number
\* no loan has.
LEMMA CancelStep ==
  ASSUME LInv, NEW id \in OfferIds, NEW m \in Makers, CancelOffer(id, m),
         UNCHANGED <<lends, offerNo, loanNo, lost, outside>>
  PROVE  NoLeveragedLending' /\ OfferLentOnce' /\ Numbered'
<1>1. /\ Available(id)
      /\ \A o \in OfferIds : o # id => offers'[o] = offers[o]
      /\ offers'[id] \in Offers /\ offers'[id].status = "cancelled"
      /\ loans' = loans
  BY CancelWrites DEF LInv
<1>2. offers'[id] # None
  BY <1>1, LedgerAssumption
<1>3. \A o \in OfferIds : Available(o)' => Available(o) /\ offers'[o] = offers[o]
  BY <1>1 DEF Available
<1>4. NoLeveragedLending'
  BY <1>1, <1>3 DEF LInv, NoLeveragedLending, Active
<1>5. OfferLentOnce'
  <2>1. ASSUME NEW l \in LoanIds, loans[l] # None, offerNo[loans[l].offer] = loanNo[l]
        PROVE  /\ offers'[loans[l].offer].status = "claimed"
               /\ offers'[loans[l].offer].lender = loans[l].lender
               /\ offers'[loans[l].offer].amount = loans[l].amount
    <3>1. offers[loans[l].offer].status = "claimed" /\ loans[l].offer \in OfferIds
      BY <2>1, LoansOffer
    <3>2. loans[l].offer # id
      BY <3>1, <1>1 DEF Available
    <3> QED
      BY <2>1, <3>1, <3>2, <1>1, LoansOffer
  <2>2. \A l \in LoanIds, o \in OfferIds :
          loans[l] # None /\ Available(o)' => offerNo[o] # loanNo[l]
    BY <1>3, LoansOffer
  <2>3. \A l1, l2 \in LoanIds :
          loans[l1] # None /\ loans[l2] # None /\ loanNo[l1] = loanNo[l2] => l1 = l2
    BY DEF LInv, OfferLentOnce
  <2> QED
    BY <2>1, <2>2, <2>3, <1>1 DEF OfferLentOnce
<1>6. Numbered'
  <2>1. \A o \in OfferIds : offers'[o] # None <=> offers[o] # None
    BY <1>1, <1>2 DEF Available
  <2>2. \A l \in LoanIds : loans[l] # None => loans[l].offer \in OfferIds
    BY LoansOffer
  <2> QED
    BY <1>1, <2>1, <2>2 DEF LInv, Numbered
<1> QED
  BY <1>4, <1>5, <1>6

\* Borrow keeps all of it: the borrower has nothing on offer, and the number
\* of the offer it claims was no other loan's.
LEMMA BorrowStep ==
  ASSUME LInv, NEW k \in LoanIds, NEW id \in OfferIds, NEW m \in Makers,
         TakeOffer(k, id, m)
  PROVE  NoLeveragedLending' /\ OfferLentOnce' /\ Numbered'
<1>0. TypeOK /\ Borrow(k, id, m)
  BY DEF LInv, TakeOffer
<1>1. /\ Available(id) /\ \A o \in OfferIds : Available(o) => offers[o].lender # m
      /\ \A l \in LoanIds : l # k => loans'[l] = loans[l]
      /\ loans'[k] \in Loans /\ loans'[k].offer = id /\ loans'[k].borrower = m
      /\ loans'[k].lender = offers[id].lender /\ loans'[k].amount = offers[id].amount
      /\ \A o \in OfferIds : o # id => offers'[o] = offers[o]
      /\ offers'[id] \in Offers /\ offers'[id].status = "claimed"
      /\ offers'[id].lender = offers[id].lender /\ offers'[id].amount = offers[id].amount
  <2>1. /\ \A l \in LoanIds : l # k => loans'[l] = loans[l]
        /\ loans'[k] \in Loans /\ loans'[k].offer = id /\ loans'[k].borrower = m
        /\ loans'[k].lender = offers[id].lender /\ loans'[k].amount = offers[id].amount
    BY <1>0, BorrowOpens
  <2>2. /\ \A o \in OfferIds : Available(o) => offers[o].lender # m
        /\ \A o \in OfferIds : o # id => offers'[o] = offers[o]
        /\ offers'[id] \in Offers /\ offers'[id].status = "claimed"
        /\ offers'[id].lender = offers[id].lender /\ offers'[id].amount = offers[id].amount
    BY <1>0, BorrowClaims
  <2> QED
    BY <1>0, <2>1, <2>2, BorrowWrites
<1>2. offers'[id] # None /\ loans'[k] # None /\ offers[id] # None
  BY <1>1, LedgerAssumption DEF Available
<1>3. /\ \A l \in LoanIds : l # k => loanNo'[l] = loanNo[l]
      /\ loanNo'[k] = offerNo[id]
      /\ offerNo' = offerNo
  BY DEF TakeOffer, LInv, TypeOK
<1>4. \A o \in OfferIds : Available(o)' => Available(o) /\ offers'[o] = offers[o] /\ o # id
  BY <1>1 DEF Available
<1>5. NoLeveragedLending'
  <2> SUFFICES ASSUME NEW l \in LoanIds, NEW o \in OfferIds, Active(l)', Available(o)'
               PROVE  loans'[l].borrower # offers'[o].lender
    BY DEF NoLeveragedLending
  <2>1. CASE l = k
    BY <2>1, <1>1, <1>4
  <2>2. CASE l # k
    BY <2>2, <1>1, <1>4 DEF LInv, NoLeveragedLending, Active
  <2> QED
    BY <2>1, <2>2
<1>6. OfferLentOnce'
  <2>1. ASSUME NEW l \in LoanIds, loans'[l] # None, offerNo[loans'[l].offer] = loanNo'[l]
        PROVE  /\ offers'[loans'[l].offer].status = "claimed"
               /\ offers'[loans'[l].offer].lender = loans'[l].lender
               /\ offers'[loans'[l].offer].amount = loans'[l].amount
    <3>1. CASE l = k
      BY <3>1, <1>1
    <3>2. CASE l # k
      <4>1. loans'[l] = loans[l] /\ loans[l] # None /\ loanNo'[l] = loanNo[l]
        BY <2>1, <3>2, <1>1, <1>3
      <4>2. /\ loans[l].offer \in OfferIds
            /\ offers[loans[l].offer].status = "claimed"
            /\ offers[loans[l].offer].lender = loans[l].lender
            /\ offers[loans[l].offer].amount = loans[l].amount
        BY <2>1, <4>1, LoansOffer
      <4>3. offers'[loans[l].offer] = offers[loans[l].offer]
        BY <4>2, <1>1 DEF Available
      <4> QED
        BY <4>1, <4>2, <4>3
    <3> QED
      BY <3>1, <3>2
  <2>2. ASSUME NEW l \in LoanIds, NEW o \in OfferIds, loans'[l] # None, Available(o)'
        PROVE  offerNo[o] # loanNo'[l]
    <3>1. CASE l = k
      <4>1. offers[o] # None /\ o # id
        BY <2>2, <1>4 DEF Available
      <4> QED
        BY <3>1, <4>1, <1>2, <1>3 DEF LInv, Numbered
    <3>2. CASE l # k
      BY <2>2, <3>2, <1>1, <1>3, <1>4, LoansOffer
    <3> QED
      BY <3>1, <3>2
  <2>3. ASSUME NEW l1 \in LoanIds, NEW l2 \in LoanIds, loans'[l1] # None,
               loans'[l2] # None, loanNo'[l1] = loanNo'[l2]
        PROVE  l1 = l2
    <3>1. CASE l1 # k /\ l2 # k
      BY <2>3, <3>1, <1>1, <1>3 DEF LInv, OfferLentOnce
    <3>2. CASE l1 = k /\ l2 # k
      BY <2>3, <3>2, <1>1, <1>3, LoansOffer
    <3>3. CASE l2 = k /\ l1 # k
      BY <2>3, <3>3, <1>1, <1>3, LoansOffer
    <3> QED
      BY <3>1, <3>2, <3>3
  <2> QED
    BY <2>1, <2>2, <2>3, <1>3 DEF OfferLentOnce
<1>7. Numbered'
  <2>1. \A o \in OfferIds : offers'[o] # None <=> offers[o] # None
    BY <1>1, <1>2
  <2>2. ASSUME NEW l \in LoanIds, loans'[l] # None
        PROVE  loanNo'[l] >= 1 /\ offers'[loans'[l].offer] # None
    <3>1. CASE l = k
      BY <3>1, <1>1, <1>2, <1>3 DEF LInv, Numbered
    <3>2. CASE l # k
      <4>1. loans'[l] = loans[l] /\ loans[l] # None /\ loanNo'[l] = loanNo[l]
        BY <2>2, <3>2, <1>1, <1>3
      <4>2. loans[l].offer \in OfferIds /\ offers[loans[l].offer] # None
        BY <4>1, LoansOffer
      <4> QED
        BY <4>1, <4>2, <2>1 DEF LInv, Numbered
    <3> QED
      BY <3>1, <3>2
  <2> QED
    BY <2>1, <2>2, <1>3 DEF LInv, Numbered
<1> QED
  BY <1>5, <1>6, <1>7

\* A step that leaves the offers alone and only ends loans keeps all of it.
LEMMA EndLoanStep ==
  ASSUME LInv, NEW l \in LoanIds, NEW status \in {"settled", "defaulted"}, Active(l),
         loans' = [loans EXCEPT ![l].status = status],
         UNCHANGED <<offers, lends, offerNo, loanNo, lost, outside>>
  PROVE  NoLeveragedLending' /\ OfferLentOnce' /\ Numbered'
<1>1. /\ \A k \in LoanIds : k # l => loans'[k] = loans[k]
      /\ loans'[l] \in Loans /\ loans'[l].status = status
      /\ loans'[l].offer = loans[l].offer /\ loans'[l].lender = loans[l].lender
      /\ loans'[l].amount = loans[l].amount
  BY EndWrites DEF LInv
<1>2. \A k \in LoanIds : Active(k)' => Active(k) /\ loans'[k] = loans[k]
  BY <1>1 DEF Active
<1>3. \A k \in LoanIds : loans'[k] # None =>
        /\ loans[k] # None /\ loans'[k].offer = loans[k].offer
        /\ loans'[k].lender = loans[k].lender /\ loans'[k].amount = loans[k].amount
  BY <1>1 DEF Active
<1>4. offers' = offers /\ offerNo' = offerNo /\ loanNo' = loanNo
  OBVIOUS
<1>5. NoLeveragedLending'
  BY <1>2, <1>4 DEF LInv, NoLeveragedLending, Available
<1>6. OfferLentOnce'
  BY <1>3, <1>4 DEF LInv, OfferLentOnce, Available
<1>7. Numbered'
  BY <1>3, <1>4 DEF LInv, Numbered
<1> QED
  BY <1>5, <1>6, <1>7

\* Offers and loans keep them under every method.
LEMMA LInvInductive == LInv /\ [Next]_vars => LInv'
<1> SUFFICES ASSUME LInv, [Next]_vars PROVE NoLeveragedLending' /\ OfferLentOnce' /\ Numbered'
  BY TypeInductive DEF LInv
<1>1. TypeOK'
  BY TypeInductive DEF LInv
<1>2. ASSUME UNCHANGED <<offers, loans, offerNo, loanNo>>
      PROVE  NoLeveragedLending' /\ OfferLentOnce' /\ Numbered'
  BY <1>2 DEF LInv, NoLeveragedLending, OfferLentOnce, Numbered, Active, Available
<1>3. ASSUME NEW id \in OfferIds, NEW m \in Makers, NEW amount \in Amounts,
             NEW minRep \in MinReputations, NEW pct \in Interests,
             MakeOffer(id, m, amount, minRep, pct)
      PROVE  NoLeveragedLending' /\ OfferLentOnce' /\ Numbered'
  BY <1>1, <1>3, LendStep
<1>4. ASSUME NEW l \in LoanIds, NEW id \in OfferIds, NEW m \in Makers, TakeOffer(l, id, m)
      PROVE  NoLeveragedLending' /\ OfferLentOnce' /\ Numbered'
  BY <1>4, BorrowStep
<1>5. CASE Other /\ UNCHANGED <<lends, offerNo, loanNo, lost, outside>>
  <2>1. ASSUME NEW id \in OfferIds, NEW m \in Makers, CancelOffer(id, m)
        PROVE  NoLeveragedLending' /\ OfferLentOnce' /\ Numbered'
    BY <1>5, <2>1, CancelStep
  <2>2. ASSUME NEW l \in LoanIds, Repay(l)
        PROVE  NoLeveragedLending' /\ OfferLentOnce' /\ Numbered'
    BY <1>5, <2>2, RepayWrites, EndLoanStep DEF LInv
  <2>3. ASSUME NEW l \in LoanIds, Default(l)
        PROVE  NoLeveragedLending' /\ OfferLentOnce' /\ Numbered'
    BY <1>5, <2>3, DefaultWrites, EndLoanStep DEF LInv
  <2>4. CASE DaysPass \/ \E m \in Makers : RegisterMaker(m)
    BY <1>2, <1>5, <2>4 DEF DaysPass, RegisterMaker
  <2> QED
    BY <1>5, <2>1, <2>2, <2>3, <2>4 DEF Other
<1>6. CASE \/ \E m \in Makers, amount \in Deposits : Deposit(m, amount)
           \/ UNCHANGED vars
  BY <1>2, <1>6 DEF Deposit, SetBalance, vars
<1> QED
  BY <1>3, <1>4, <1>5, <1>6 DEF Next

\* LInv holds at all times.
LEMMA LInvariance == Spec => []LInv
<1>1. Init => TypeOK
  BY LendingAssumption DEF Init, TypeOK
<1>2. Init => NoLeveragedLending /\ OfferLentOnce /\ Numbered
  BY DEF Init, NoLeveragedLending, OfferLentOnce, Numbered, Active
<1>3. Init => LInv
  BY <1>1, <1>2 DEF LInv
<1> QED
  BY <1>3, LInvInductive, PTL DEF Spec

\* No leveraged lending: neither Lend nor Borrow, in whatever order and under
\* whatever ids, leaves a maker with an active loan and an open offer.
THEOREM NobodyLendsOnCredit == Spec => []NoLeveragedLending
<1>1. LInv => NoLeveragedLending
  BY DEF LInv
<1> QED
  BY <1>1, LInvariance, PTL

\* What a call of Lend puts on offer is lent at most once, however its offer
\* or the loan is replaced under its id later.
THEOREM OffersBackOneLoan == Spec => []OfferLentOnce
<1>1. LInv => OfferLentOnce
  BY DEF LInv
<1> QED
  BY <1>1, LInvariance, PTL

-----------------------------------------------------------------------------
(***************************************************************************)
(* What a step does to the loans and to the records of the makers: it      *)
(* opens one loan (Borrow), closes one (Repay or Default) or leaves the    *)
(* loans alone, and counts it in its borrower's record.                    *)
(***************************************************************************)
Opens(l, id, m) ==
  /\ Borrow(l, id, m)
  /\ loans'[l] \in Loans /\ loans'[l].borrower = m /\ loans'[l].status = "active"
  /\ loans'[l].amount = offers[id].amount /\ offers[id].amount \in Int
  /\ \A k \in LoanIds : k # l => loans'[k] = loans[k]

Closes(l, status) ==
  /\ \/ status = "settled" /\ Repay(l)
     \/ status = "defaulted" /\ Default(l)
  /\ Active(l) /\ loans[l] \in Loans /\ loans'[l] \in Loans
  /\ loans[l].borrower \in Makers /\ loans[l].amount \in Int
  /\ loans'[l].borrower = loans[l].borrower /\ loans'[l].amount = loans[l].amount
  /\ loans'[l].status = status
  /\ \A k \in LoanIds : k # l => loans'[k] = loans[k]

\* What a step does to the loans.
LEMMA LoanStep ==
  ASSUME TypeOK, [Next]_vars
  PROVE  /\ \/ loans' = loans
            \/ \E l \in LoanIds, id \in OfferIds, m \in Makers : Opens(l, id, m)
            \/ \E l \in LoanIds, status \in {"settled", "defaulted"} : Closes(l, status)
         /\ \A l \in LoanIds, id \in OfferIds, m \in Makers : Borrow(l, id, m) => Opens(l, id, m)
         /\ \A l \in LoanIds : /\ Repay(l) => Closes(l, "settled")
                               /\ Default(l) => Closes(l, "defaulted")
<1>1. ASSUME NEW l \in LoanIds, NEW id \in OfferIds, NEW m \in Makers, Borrow(l, id, m)
      PROVE  Opens(l, id, m)
  <2>1. /\ loans'[l] \in Loans /\ loans'[l].borrower = m /\ loans'[l].status = "active"
        /\ loans'[l].amount = offers[id].amount
        /\ \A k \in LoanIds : k # l => loans'[k] = loans[k]
    BY <1>1, BorrowOpens
  <2>2. offers[id].amount \in Int
    BY <1>1, BorrowWrites
  <2> QED
    BY <1>1, <2>1, <2>2 DEF Opens
<1>2. ASSUME NEW l \in LoanIds, NEW status \in {"settled", "defaulted"},
             \/ status = "settled" /\ Repay(l)
             \/ status = "defaulted" /\ Default(l)
      PROVE  Closes(l, status)
  <2>1. Active(l) /\ loans' = [loans EXCEPT ![l].status = status]
    BY <1>2 DEF Repay, Default
  <2>2. /\ \A k \in LoanIds : k # l => loans'[k] = loans[k]
        /\ loans'[l] \in Loans /\ loans'[l].status = status
        /\ loans'[l].borrower = loans[l].borrower /\ loans'[l].amount = loans[l].amount
    BY <2>1, EndWrites
  <2>3. /\ loans[l] \in Loans /\ loans[l].borrower \in Makers /\ loans[l].amount \in Int
    BY <2>1, Fields DEF Active
  <2> QED
    BY <1>2, <2>1, <2>2, <2>3 DEF Closes
<1>3. ASSUME \/ \E m \in Makers : RegisterMaker(m)
             \/ \E m \in Makers, amount \in Deposits : Deposit(m, amount)
             \/ \E id \in OfferIds, m \in Makers, amount \in Amounts,
                   minRep \in MinReputations, pct \in Interests :
                     MakeOffer(id, m, amount, minRep, pct)
             \/ \E id \in OfferIds, m \in Makers : CancelOffer(id, m)
             \/ DaysPass
             \/ UNCHANGED vars
      PROVE  loans' = loans
  BY <1>3 DEF RegisterMaker, Deposit, SetBalance, MakeOffer, Lend, CancelOffer, DaysPass, vars
<1>4. \A l \in LoanIds : /\ Repay(l) => Closes(l, "settled")
                         /\ Default(l) => Closes(l, "defaulted")
  BY <1>2, Zenon
<1>5. \/ loans' = loans
      \/ \E l \in LoanIds, id \in OfferIds, m \in Makers : Opens(l, id, m)
      \/ \E l \in LoanIds, status \in {"settled", "defaulted"} : Closes(l, status)
  <2>1. CASE \E l \in LoanIds, id \in OfferIds, m \in Makers : TakeOffer(l, id, m)
    BY <1>1, <2>1, Zenon DEF TakeOffer
  <2>2. CASE \E l \in LoanIds : Repay(l) \/ Default(l)
    <3>1. PICK l \in LoanIds : Repay(l) \/ Default(l)
      BY <2>2
    <3>2. Closes(l, "settled") \/ Closes(l, "defaulted")
      BY <1>4, <3>1, Zenon
    <3> QED
      BY <3>2
  <2> QED
    BY <1>3, <2>1, <2>2 DEF Next, Other
<1> QED
  BY <1>1, <1>4, <1>5, Zenon

SameCounts(r, s) ==
  /\ s.totalLoans = r.totalLoans /\ s.successfulRepays = r.successfulRepays
  /\ s.defaults = r.defaults /\ s.totalDelivered = r.totalDelivered
  /\ s.penalty = r.penalty

\* What Borrow, Repay and Default make of a record.
Made(r) == [r EXCEPT !.totalLoans = @ + 1]
Paid(r, n) == [r EXCEPT !.successfulRepays = @ + 1, !.totalDelivered = @ + n]
Failed(r, n) == [r EXCEPT !.defaults = @ + 1, !.penalty = @ + n]

\* What each of them makes of each counter.
LEMMA CountersWritten ==
  ASSUME NEW r \in Reputations, NEW n \in Int
  PROVE  /\ /\ Made(r) \in Reputations
            /\ Made(r).totalLoans = r.totalLoans + 1
            /\ Made(r).successfulRepays = r.successfulRepays
            /\ Made(r).defaults = r.defaults /\ Made(r).totalDelivered = r.totalDelivered
            /\ Made(r).penalty = r.penalty
         /\ /\ Paid(r, n) \in Reputations
            /\ Paid(r, n).totalLoans = r.totalLoans
            /\ Paid(r, n).successfulRepays = r.successfulRepays + 1
            /\ Paid(r, n).defaults = r.defaults
            /\ Paid(r, n).totalDelivered = r.totalDelivered + n
            /\ Paid(r, n).penalty = r.penalty
         /\ /\ Failed(r, n) \in Reputations
            /\ Failed(r, n).totalLoans = r.totalLoans
            /\ Failed(r, n).successfulRepays = r.successfulRepays
            /\ Failed(r, n).defaults = r.defaults + 1
            /\ Failed(r, n).totalDelivered = r.totalDelivered
            /\ Failed(r, n).penalty = r.penalty + n /\ Failed(r, n).age = r.age
<1>1. /\ r.totalLoans + 1 \in Nat /\ r.successfulRepays + 1 \in Nat
      /\ r.totalDelivered + n \in Int /\ r.defaults + 1 \in Nat /\ r.penalty + n \in Int
  BY DEF Reputations
<1>2. ASSUME NEW x \in Nat
      PROVE  LET s == [r EXCEPT !.totalLoans = x]
             IN  /\ s \in Reputations
                 /\ s.totalLoans = x /\ s.successfulRepays = r.successfulRepays
                 /\ s.defaults = r.defaults /\ s.totalDelivered = r.totalDelivered
                 /\ s.penalty = r.penalty
  BY DEF Reputations
<1>3. ASSUME NEW x \in Nat, NEW y \in Int
      PROVE  LET s == [r EXCEPT !.successfulRepays = x, !.totalDelivered = y]
             IN  /\ s \in Reputations
                 /\ s.totalLoans = r.totalLoans /\ s.successfulRepays = x
                 /\ s.defaults = r.defaults /\ s.totalDelivered = y
                 /\ s.penalty = r.penalty
  BY DEF Reputations
<1>4. ASSUME NEW x \in Nat, NEW y \in Int
      PROVE  LET s == [r EXCEPT !.defaults = x, !.penalty = y]
             IN  /\ s \in Reputations
                 /\ s.totalLoans = r.totalLoans /\ s.successfulRepays = r.successfulRepays
                 /\ s.defaults = x /\ s.totalDelivered = r.totalDelivered
                 /\ s.penalty = y /\ s.age = r.age
  BY DEF Reputations
<1>5. /\ Made(r) \in Reputations
      /\ Made(r).totalLoans = r.totalLoans + 1
      /\ Made(r).successfulRepays = r.successfulRepays
      /\ Made(r).defaults = r.defaults /\ Made(r).totalDelivered = r.totalDelivered
      /\ Made(r).penalty = r.penalty
  BY <1>1, <1>2 DEF Made
<1>6. /\ Paid(r, n) \in Reputations
      /\ Paid(r, n).totalLoans = r.totalLoans
      /\ Paid(r, n).successfulRepays = r.successfulRepays + 1
      /\ Paid(r, n).defaults = r.defaults
      /\ Paid(r, n).totalDelivered = r.totalDelivered + n
      /\ Paid(r, n).penalty = r.penalty
  BY <1>1, <1>3 DEF Paid
<1>7. /\ Failed(r, n) \in Reputations
      /\ Failed(r, n).totalLoans = r.totalLoans
      /\ Failed(r, n).successfulRepays = r.successfulRepays
      /\ Failed(r, n).defaults = r.defaults + 1
      /\ Failed(r, n).totalDelivered = r.totalDelivered
      /\ Failed(r, n).penalty = r.penalty + n /\ Failed(r, n).age = r.age
  BY <1>1, <1>4 DEF Failed
<1> QED
  BY <1>5, <1>6, <1>7, Zenon

\* Borrow writes the borrower's record and no other.
LEMMA RecordOpens ==
  ASSUME TypeOK, NEW l \in LoanIds, NEW id \in OfferIds, NEW m \in Makers, Borrow(l, id, m)
  PROVE  /\ reputations[m] # None /\ reputations[m] \in Reputations
         /\ reputations'[m] = Made(reputations[m])
         /\ \A k \in Makers : k # m => reputations'[k] = reputations[k]
<1>1. /\ reputations[m] \in Reputations /\ reputations[m] # None
      /\ reputations' = [reputations EXCEPT
                           ![m] = [reputations[m] EXCEPT !.totalLoans = @ + 1]]
  BY DEF TypeOK, Borrow, Creditworthy
<1> QED
  BY <1>1 DEF TypeOK, Made

\* So do Repay and Default, if there is one.
LEMMA RecordCloses ==
  ASSUME TypeOK, NEW l \in LoanIds, NEW b \in Makers, b = loans[l].borrower
  PROVE  /\ Repay(l) =>
              /\ reputations[b] # None =>
                   reputations'[b] = Paid(reputations[b], loans[l].amount)
              /\ reputations[b] = None => reputations'[b] = None
              /\ \A k \in Makers : k # b => reputations'[k] = reputations[k]
         /\ Default(l) =>
              /\ reputations[b] # None =>
                   reputations'[b] = Failed(reputations[b], loans[l].amount)
              /\ reputations[b] = None => reputations'[b] = None
              /\ \A k \in Makers : k # b => reputations'[k] = reputations[k]
BY DEF TypeOK, Repay, Default, UpdateReputation, Paid, Failed

\* The record of a maker whose loans the step leaves alone.
LEMMA RecordSame ==
  ASSUME TypeOK, [Next]_vars, NEW m \in Makers,
         \A l \in LoanIds, id \in OfferIds : ~ Borrow(l, id, m),
         \A l \in LoanIds : Repay(l) \/ Default(l) => loans[l].borrower # m
  PROVE  /\ reputations[m] = None =>
              reputations'[m] = None \/ reputations'[m] = NewReputation
         /\ reputations[m] # None =>
              reputations'[m] # None /\ SameCounts(reputations[m], reputations'[m])
<1> DEFINE Same == /\ reputations[m] = None =>
                        reputations'[m] = None \/ reputations'[m] = NewReputation
                   /\ reputations[m] # None =>
                        reputations'[m] # None /\ SameCounts(reputations[m], reputations'[m])
<1>0. reputations \in [Makers -> Reputations \cup {None}]
  BY DEF TypeOK
<1>1. ASSUME reputations'[m] = reputations[m] PROVE Same
  BY <1>1 DEF SameCounts
<1>2. ASSUME NEW k \in Makers, RegisterMaker(k) PROVE Same
  <2>1. reputations[k] = None /\ reputations' = [reputations EXCEPT ![k] = NewReputation]
    BY <1>2 DEF RegisterMaker
  <2>2. CASE k = m
    BY <1>0, <2>1, <2>2
  <2>3. CASE k # m
    <3>1. reputations'[m] = reputations[m]
      BY <1>0, <2>1, <2>3
    <3> QED
      BY <1>1, <3>1
  <2> QED
    BY <2>2, <2>3
<1>3. ASSUME NEW l \in LoanIds, NEW id \in OfferIds, NEW k \in Makers, TakeOffer(l, id, k)
      PROVE  Same
  <2>1. Borrow(l, id, k) /\ k # m
    BY <1>3 DEF TakeOffer
  <2>2. reputations'[m] = reputations[m]
    BY <2>1, RecordOpens
  <2> QED
    BY <1>1, <2>2
<1>4. ASSUME NEW l \in LoanIds, Repay(l) \/ Default(l) PROVE Same
  <2>1. loans[l].borrower \in Makers /\ loans[l].borrower # m
    BY <1>4, Fields DEF Repay, Default, Active
  <2>2. reputations'[m] = reputations[m]
    BY <1>4, <2>1, RecordCloses
  <2> QED
    BY <1>1, <2>2
<1>5. ASSUME DaysPass PROVE Same
  <2>1. CASE reputations[m] = None
    <3>1. reputations'[m] = None
      BY <1>5, <2>1, DaysWrite
    <3> QED
      BY <2>1, <3>1
  <2>2. CASE reputations[m] # None
    <3>1. PICK a \in Nat : reputations'[m] = [reputations[m] EXCEPT !.age = a]
      BY <1>5, <2>2, DaysWrite
    <3>2. reputations'[m] # None /\ reputations[m] \in Reputations
      BY <1>0, <1>5, <2>2, DaysWrite
    <3>3. SameCounts(reputations[m], [reputations[m] EXCEPT !.age = a])
      BY <3>2 DEF SameCounts, Reputations
    <3> QED
      BY <2>2, <3>1, <3>2, <3>3
  <2> QED
    BY <2>1, <2>2
<1>6. ASSUME \/ \E k \in Makers, amount \in Deposits : Deposit(k, amount)
             \/ \E id \in OfferIds, k \in Makers, amount \in Amounts,
                   minRep \in MinReputations, pct \in Interests :
                     MakeOffer(id, k, amount, minRep, pct)
             \/ \E id \in OfferIds, k \in Makers : CancelOffer(id, k)
             \/ UNCHANGED vars
      PROVE  Same
  <2>1. reputations' = reputations
    BY <1>6 DEF Deposit, SetBalance, MakeOffer, Lend, CancelOffer, vars
  <2> QED
    BY <1>1, <2>1
<1> HIDE DEF Same
<1>7. Same
  BY <1>2, <1>3, <1>4, <1>5, <1>6 DEF Next, Other
<1> QED
  BY <1>7 DEF Same

\* Every way a record comes to be what it is.
LEMMA RecordSteps ==
  ASSUME TypeOK, [Next]_vars, NEW m \in Makers
  PROVE  \/ reputations[m] = None /\ reputations'[m] \in {None, NewReputation}
         \/ /\ reputations[m] # None /\ reputations'[m] # None
            /\ SameCounts(reputations[m], reputations'[m])
         \/ /\ reputations[m] # None /\ reputations'[m] = Made(reputations[m])
            /\ \E l \in LoanIds, id \in OfferIds : Opens(l, id, m)
         \/ \E l \in LoanIds : /\ Closes(l, "settled") /\ loans[l].borrower = m
                               /\ reputations[m] # None
                               /\ reputations'[m] = Paid(reputations[m], loans[l].amount)
         \/ \E l \in LoanIds : /\ Closes(l, "defaulted") /\ loans[l].borrower = m
                               /\ reputations[m] # None
                               /\ reputations'[m] = Failed(reputations[m], loans[l].amount)
<1>1. CASE \E l \in LoanIds, id \in OfferIds : Borrow(l, id, m)
  <2>1. PICK l \in LoanIds, id \in OfferIds : Borrow(l, id, m)
    BY <1>1
  <2>2. Opens(l, id, m)
    BY <2>1, LoanStep
  <2> QED
    BY <2>1, <2>2, RecordOpens
<1>2. CASE \E l \in LoanIds : (Repay(l) \/ Default(l)) /\ loans[l].borrower = m
  <2>1. PICK l \in LoanIds : (Repay(l) \/ Default(l)) /\ loans[l].borrower = m
    BY <1>2
  <2>2. /\ Repay(l) => Closes(l, "settled")
        /\ Default(l) => Closes(l, "defaulted")
    BY LoanStep, Zenon
  <2>3. CASE reputations[m] = None
    BY <2>1, <2>3, RecordCloses
  <2>4. CASE reputations[m] # None
    <3>1. /\ Repay(l) => reputations'[m] = Paid(reputations[m], loans[l].amount)
          /\ Default(l) => reputations'[m] = Failed(reputations[m], loans[l].amount)
      BY <2>1, <2>4, RecordCloses
    <3> QED
      BY <2>1, <2>2, <2>4, <3>1
  <2> QED
    BY <2>3, <2>4
<1>3. CASE /\ \A l \in LoanIds, id \in OfferIds : ~ Borrow(l, id, m)
           /\ \A l \in LoanIds : Repay(l) \/ Default(l) => loans[l].borrower # m
  BY <1>3, RecordSame
<1> QED
  BY <1>1, <1>2, <1>3

\* Every borrower has a record, and no record goes away.
Recorded == \A l \in LoanIds : loans[l] # None => reputations[loans[l].borrower] # None

LEMMA RecordsStay ==
  ASSUME TypeOK, TypeOK', [Next]_vars, NEW m \in Makers, reputations[m] # None
  PROVE  /\ reputations[m] \in Reputations /\ reputations'[m] \in Reputations
         /\ reputations'[m] # None
<1>1. reputations[m] \in Reputations
  BY DEF TypeOK
<1>2. \A n \in Int : /\ Made(reputations[m]) \in Reputations
                     /\ Paid(reputations[m], n) \in Reputations
                     /\ Failed(reputations[m], n) \in Reputations
  BY <1>1, CountersWritten
<1>3. \A l \in LoanIds, s \in {"settled", "defaulted"} : Closes(l, s) => loans[l].amount \in Int
  BY DEF Closes
<1>4. \/ reputations'[m] # None
      \/ reputations'[m] \in Reputations
  BY <1>2, <1>3, RecordSteps
<1> QED
  BY <1>1, <1>4, LedgerAssumption DEF TypeOK

LEMMA RecordedStep ==
  ASSUME TypeOK, TypeOK', Recorded, [Next]_vars PROVE Recorded'
<1> SUFFICES ASSUME NEW l \in LoanIds, loans'[l] # None
             PROVE  reputations'[loans'[l].borrower] # None
  BY DEF Recorded
<1>1. CASE loans'[l] = loans[l]
  <2>1. loans[l].borrower \in Makers /\ reputations[loans[l].borrower] # None
    BY <1>1, Fields DEF Recorded
  <2>2. reputations'[loans[l].borrower] # None
    BY <2>1, RecordsStay
  <2> QED
    BY <1>1, <2>2
<1>2. ASSUME NEW k \in LoanIds, NEW id \in OfferIds, NEW m \in Makers, Opens(k, id, m)
      PROVE  loans'[l] = loans[l] \/ reputations'[loans'[l].borrower] # None
  <2>1. reputations'[m] # None
    BY <1>2, RecordOpens, RecordsStay DEF Opens
  <2> QED
    BY <1>2, <2>1 DEF Opens
<1>3. ASSUME NEW k \in LoanIds, NEW s \in {"settled", "defaulted"}, Closes(k, s)
      PROVE  loans'[l] = loans[l] \/ reputations'[loans'[l].borrower] # None
  <2>1. CASE k = l
    <3>1. loans[l].borrower \in Makers /\ loans[l] # None
      BY <1>3, <2>1 DEF Closes, Active
    <3>2. reputations'[loans[l].borrower] # None
      BY <3>1, RecordsStay DEF Recorded
    <3> QED
      BY <1>3, <2>1, <3>2 DEF Closes
  <2>2. CASE k # l
    BY <1>3, <2>2 DEF Closes
  <2> QED
    BY <2>1, <2>2
<1> QED
  BY <1>1, <1>2, <1>3, LoanStep

-----------------------------------------------------------------------------
(***************************************************************************)
(* Newcomers.  A score is at most what was delivered and repaid is worth:  *)
(* without deliveries, and without a penalty below zero, it is zero, and   *)
(* nothing may be borrowed on it.  What a newcomer can take is worth       *)
(* nothing or less, and to repay that delivers nothing or less.            *)
(***************************************************************************)

\* A record without deliveries is worth no loan at all.
LEMMA NoDeliveryNoCredit ==
  ASSUME NEW r \in Reputations, r.totalDelivered =< 0, r.penalty >= 0
  PROVE  MaxBorrow(r) = 0
<1>0. /\ r.totalLoans \in Nat /\ r.successfulRepays \in Nat /\ r.penalty \in Nat
      /\ r.age \in Nat /\ r.totalDelivered \in Int
  BY DEF Reputations
<1> DEFINE credit == r.successfulRepays * AtMost(10000, r.totalDelivered) * AtMost(90, r.age)
           loss == r.penalty * r.totalLoans * 90
<1>1. AtMost(10000, r.totalDelivered) \in Int /\ AtMost(10000, r.totalDelivered) =< 0
      /\ AtMost(90, r.age) \in Nat
  BY <1>0 DEF AtMost
<1>2. credit \in Int /\ credit =< 0
  <2>1. \A a \in Nat, x \in Int : x =< 0 => a * x \in Int /\ a * x =< 0
    <3> SUFFICES ASSUME NEW a \in Nat, NEW x \in Int, x =< 0
                 PROVE  a * x \in Int /\ a * x =< 0
      OBVIOUS
    <3>1. -x \in Nat /\ a * (-x) \in Nat /\ a * x = -(a * (-x))
      OBVIOUS
    <3> QED
      BY <3>1
  <2>2. /\ r.successfulRepays * AtMost(10000, r.totalDelivered) \in Int
        /\ r.successfulRepays * AtMost(10000, r.totalDelivered) =< 0
    BY <1>0, <1>1, <2>1
  <2>3. \A a \in Nat, x \in Int : x =< 0 => x * a \in Int /\ x * a =< 0
    BY <2>1
  <2> QED
    BY <1>1, <2>2, <2>3
<1>3. loss \in Nat
  <2>1. r.penalty * r.totalLoans \in Nat
    BY <1>0
  <2> QED
    BY <2>1
<1>4. ScoreNum(r) = 0
  <2>1. ScoreNum(r) = LET n == credit - loss IN IF n < 0 THEN 0 ELSE n
    BY DEF ScoreNum
  <2> HIDE DEF credit, loss
  <2> QED
    BY <1>2, <1>3, <2>1
<1>5. ASSUME NEW tenths \in Nat \ {0} PROVE ~ ScoreAtLeast(r, tenths)
  <2>1. CASE r.totalLoans = 0
    BY <2>1 DEF ScoreAtLeast
  <2>2. CASE r.totalLoans # 0
    <3>1. tenths * r.totalLoans \in Nat \ {0}
      BY <1>0, <2>2
    <3>2. tenths * r.totalLoans * ScoreUnit > 0
      <4> HIDE DEF ScoreUnit
      <4>1. ScoreUnit \in Nat \ {0}
        BY DEF ScoreUnit
      <4> QED
        BY <3>1, <4>1
    <3>3. tenths * r.totalLoans * ScoreUnit \in Int
      BY <3>1 DEF ScoreUnit
    <3>4. 10 * ScoreNum(r) = 0
      BY <1>4
    <3>5. ~ (10 * ScoreNum(r) >= tenths * r.totalLoans * ScoreUnit)
      BY <3>2, <3>3, <3>4
    <3> QED
      BY <2>2, <3>5, Zenon DEF ScoreAtLeast
  <2> QED
    BY <2>1, <2>2
<1>6. ~ ScoreAtLeast(r, 3) /\ ~ ScoreAtLeast(r, 5) /\ ~ ScoreAtLeast(r, 7) /\ ~ ScoreAtLeast(r, 9)
  BY <1>5
<1> QED
  BY <1>6 DEF MaxBorrow

Newcomer(m) == InitialReps[m] \in {None, NewReputation}

\* A newcomer that has not defaulted has delivered nothing, and has no penalty.
Unproven(m) == reputations[m].totalDelivered =< 0 /\ reputations[m].penalty = 0
HistoryInv == /\ TypeOK /\ Recorded /\ OnlyHistoryBorrows
              /\ \A m \in Makers :
                   /\ Newcomer(m) /\ reputations[m] # None /\ reputations[m].defaults = 0
                        => Unproven(m)
                   /\ reputations[m] = None => Newcomer(m)

\* What a newcomer takes is worth nothing or less.
LEMMA NewcomersTakeNothing ==
  ASSUME HistoryInv, NEW l \in LoanIds, NEW id \in OfferIds, NEW m \in Makers,
         Opens(l, id, m), Newcomer(m), reputations[m].defaults = 0
  PROVE  offers[id].amount =< 0
<1>1. /\ reputations[m] # None /\ reputations[m] \in Reputations
      /\ offers[id].amount =< MaxBorrow(reputations[m])
  BY BorrowWrites DEF Opens, HistoryInv, Creditworthy
<1>2. Unproven(m)
  BY <1>1 DEF HistoryInv
<1>3. MaxBorrow(reputations[m]) = 0
  BY <1>1, <1>2, NoDeliveryNoCredit DEF Unproven, Reputations
<1> QED
  BY <1>1, <1>3

\* Defaults are never taken back, and no other step makes a newcomer proven.
LEMMA NewcomersStay ==
  ASSUME HistoryInv, TypeOK', [Next]_vars, NEW m \in Makers, Newcomer(m),
         reputations'[m] # None, reputations'[m].defaults = 0
  PROVE  /\ Unproven(m)'
         /\ reputations[m] # None => reputations[m].defaults = 0
<1>0. TypeOK
  BY DEF HistoryInv
<1> DEFINE r == reputations[m]
<1>1. r # None => /\ r \in Reputations /\ r.defaults \in Nat /\ r.penalty \in Int
                  /\ r.totalDelivered \in Int
                  /\ r.defaults = 0 => r.totalDelivered =< 0 /\ r.penalty = 0
  BY <1>0 DEF TypeOK, Reputations, HistoryInv, Unproven
<1>2. CASE r = None /\ reputations'[m] \in {None, NewReputation}
  BY <1>2 DEF NewReputation, Unproven
<1>3. CASE r # None /\ SameCounts(r, reputations'[m])
  BY <1>1, <1>3 DEF SameCounts, Unproven
<1>4. CASE r # None /\ reputations'[m] = Made(r)
  <2> HIDE DEF r
  <2>1. Made(r).defaults = r.defaults /\ Made(r).totalDelivered = r.totalDelivered
        /\ Made(r).penalty = r.penalty
    BY <1>1, <1>4, CountersWritten
  <2> QED
    BY <1>1, <1>4, <2>1 DEF Unproven, r
<1>5. ASSUME NEW l \in LoanIds, Closes(l, "settled"), loans[l].borrower = m,
             r # None, reputations'[m] = Paid(r, loans[l].amount)
      PROVE  Unproven(m)' /\ r.defaults = 0
  <2> DEFINE n == loans[l].amount
  <2>1. n \in Int
    BY <1>5 DEF Closes
  <2>2. r.defaults = 0 => n =< 0
    BY <1>5 DEF HistoryInv, OnlyHistoryBorrows, Newcomer, Closes, Active
  <2>3. reputations'[m] = Paid(r, n)
    BY <1>5
  <2> HIDE DEF r, n
  <2>4. Paid(r, n).defaults = r.defaults /\ Paid(r, n).totalDelivered = r.totalDelivered + n
        /\ Paid(r, n).penalty = r.penalty
    BY <1>1, <1>5, <2>1, CountersWritten
  <2>5. r.defaults = 0
    BY <2>3, <2>4
  <2>6. r.totalDelivered + n =< 0
    BY <1>1, <1>5, <2>1, <2>2, <2>5
  <2> QED
    BY <1>1, <1>5, <2>3, <2>4, <2>5, <2>6 DEF Unproven
<1>6. ASSUME NEW l \in LoanIds, Closes(l, "defaulted"), loans[l].borrower = m,
             r # None, reputations'[m] = Failed(r, loans[l].amount)
      PROVE  FALSE
  <2> DEFINE n == loans[l].amount
  <2>1. n \in Int /\ reputations'[m] = Failed(r, n)
    BY <1>6 DEF Closes
  <2> HIDE DEF r, n
  <2>2. Failed(r, n).defaults = r.defaults + 1 /\ r.defaults \in Nat
    BY <1>1, <1>6, <2>1, CountersWritten
  <2> QED
    BY <2>1, <2>2
<1> QED
  BY <1>0, <1>2, <1>3, <1>4, <1>5, <1>6, RecordSteps

\* Every method keeps all of it.
LEMMA HistoryInductive == HistoryInv /\ [Next]_vars => HistoryInv'
<1> SUFFICES ASSUME HistoryInv, [Next]_vars PROVE HistoryInv'
  OBVIOUS
<1>0. TypeOK /\ TypeOK' /\ Recorded /\ Recorded'
  BY TypeInductive, RecordedStep DEF HistoryInv
<1>1. ASSUME NEW m \in Makers
      PROVE  /\ Newcomer(m) /\ reputations'[m] # None /\ reputations'[m].defaults = 0
                  => Unproven(m)'
             /\ reputations'[m] = None => Newcomer(m)
  <2>1. reputations'[m] = None => reputations[m] = None
    BY <1>0, RecordsStay
  <2> QED
    BY <1>0, <2>1, NewcomersStay DEF HistoryInv
<1>2. OnlyHistoryBorrows'
  <2> SUFFICES ASSUME NEW l \in LoanIds, loans'[l] # None,
                      Newcomer(loans'[l].borrower),
                      reputations'[loans'[l].borrower].defaults = 0
               PROVE  loans'[l].amount =< 0
    BY DEF OnlyHistoryBorrows, Newcomer
  <2> DEFINE m == loans'[l].borrower
  <2>1. m \in Makers /\ reputations'[m] # None
    BY <1>0 DEF TypeOK, Loans, Recorded
  <2>2. reputations[m] # None => reputations[m].defaults = 0
    BY <1>0, <2>1, NewcomersStay
  <2>3. ASSUME loans[l] # None, loans'[l].borrower = loans[l].borrower,
               loans'[l].amount = loans[l].amount
        PROVE  loans'[l].amount =< 0
    BY <2>2, <2>3 DEF HistoryInv, Recorded, OnlyHistoryBorrows, Newcomer
  <2>4. CASE loans' = loans
    BY <2>3, <2>4
  <2>5. ASSUME NEW k \in LoanIds, NEW id \in OfferIds, NEW b \in Makers, Opens(k, id, b)
        PROVE  loans'[l].amount =< 0
    <3>1. CASE k # l
      BY <2>3, <2>5, <3>1 DEF Opens
    <3>2. CASE k = l
      <4>1. b = m /\ loans'[l].amount = offers[id].amount
        BY <2>5, <3>2 DEF Opens
      <4>2. reputations[b] # None
        BY <1>0, <2>5, RecordOpens DEF Opens
      <4> QED
        BY <2>1, <2>2, <2>5, <4>1, <4>2, NewcomersTakeNothing
    <3> QED
      BY <3>1, <3>2
  <2>6. ASSUME NEW k \in LoanIds, NEW s \in {"settled", "defaulted"}, Closes(k, s)
        PROVE  loans'[l].amount =< 0
    <3>1. CASE k # l
      BY <2>3, <2>6, <3>1 DEF Closes
    <3>2. CASE k = l
      BY <2>3, <2>6, <3>2 DEF Closes, Active
    <3> QED
      BY <3>1, <3>2
  <2> QED
    BY <1>0, <2>4, <2>5, <2>6, LoanStep
<1> QED
  BY <1>0, <1>1, <1>2 DEF HistoryInv, Newcomer

\* Only a maker that starts with a history borrows tokens: a newcomer holds
\* no loan of a positive amount unless it has defaulted on one, whatever
\* offers, amounts and minimum reputations the clients send.
THEOREM NewcomersNeverBorrow == Spec => []OnlyHistoryBorrows
<1>1. Init => HistoryInv
  <2> SUFFICES ASSUME Init PROVE HistoryInv
    OBVIOUS
  <2>1. TypeOK
    BY LendingAssumption DEF Init, TypeOK
  <2>2. Recorded /\ OnlyHistoryBorrows
    BY DEF Init, Recorded, OnlyHistoryBorrows
  <2>3. reputations = InitialReps
    BY DEF Init
  <2> QED
    BY <2>1, <2>2, <2>3 DEF HistoryInv, Newcomer, Unproven, NewReputation
<1>2. HistoryInv => OnlyHistoryBorrows
  BY DEF HistoryInv
<1> QED
  BY <1>1, <1>2, HistoryInductive, PTL DEF Spec

-----------------------------------------------------------------------------
(***************************************************************************)
(* Tokens are conserved.  The sums are taken apart one summand at a time   *)
(* (module Sums): a step changes at most two balances, and adds, replaces  *)
(* or removes one offer.                                                   *)
(***************************************************************************)

\* The sum of the amounts of some of the entries of a table.
AmountOf(table, L) == SumFunction([x \in L |-> table[x].amount])

\* It is an integer, and a natural if no amount is negative.
LEMMA AmountType ==
  ASSUME NEW table, NEW L, IsFiniteSet(L), \A x \in L : table[x].amount \in Int
  PROVE  /\ AmountOf(table, L) \in Int
         /\ (\A x \in L : table[x].amount >= 0) => AmountOf(table, L) >= 0
<1> DEFINE f == [x \in L |-> table[x].amount]
<1>1. DOMAIN f = L /\ \A x \in L : f[x] \in Int
  OBVIOUS
<1>2. (\A x \in L : table[x].amount >= 0) => \A x \in L : f[x] \in Nat
  OBVIOUS
<1> HIDE DEF f
<1>3. SumFunction(f) \in Int /\ ((\A x \in L : f[x] \in Nat) => SumFunction(f) \in Nat)
  BY <1>1, SumInt
<1> QED
  BY <1>2, <1>3 DEF AmountOf, f

\* It counts each entry once,
LEMMA AmountSplit ==
  ASSUME NEW table, NEW L, IsFiniteSet(L), \A x \in L : table[x].amount \in Int, NEW y \in L
  PROVE  /\ AmountOf(table, L) = AmountOf(table, L \ {y}) + table[y].amount
         /\ AmountOf(table, L \ {y}) \in Int
<1> DEFINE f == [x \in L |-> table[x].amount]
           g == [x \in L \ {y} |-> table[x].amount]
<1>1. /\ DOMAIN g = L \ {y} /\ DOMAIN f = DOMAIN g \cup {y} /\ y \notin DOMAIN g
      /\ \A x \in DOMAIN g : g[x] \in Int /\ f[x] = g[x]
      /\ f[y] \in Int /\ f[y] = table[y].amount
  OBVIOUS
<1>2. IsFiniteSet(L \ {y})
  BY FS_Subset
<1>3. AmountOf(table, L) = SumFunction(f) /\ AmountOf(table, L \ {y}) = SumFunction(g)
  BY DEF AmountOf
<1> HIDE DEF f, g
<1>4. SumFunction(f) = SumFunction(g) + f[y]
  BY <1>1, <1>2, SumGrows
<1> QED
  BY <1>1, <1>2, <1>3, <1>4, AmountType

\* and is the same for tables that agree.
LEMMA AmountSame ==
  ASSUME NEW table, NEW other, NEW L, \A x \in L : table[x].amount = other[x].amount
  PROVE  AmountOf(table, L) = AmountOf(other, L)
BY DEF AmountOf

\* What there is of open offers, and of active loans.
AllActive == {l \in LoanIds : Active(l)}

LEMMA OpenSets ==
  ASSUME TypeOK
  PROVE  /\ IsFiniteSet(OpenOffers) /\ \A o \in OpenOffers : offers[o].amount \in Int
         /\ OnOffer = AmountOf(offers, OpenOffers) /\ OnOffer \in Int
         /\ IsFiniteSet(AllActive) /\ \A l \in AllActive : loans[l].amount \in Int
         /\ TotalOutstandingDebt = AmountOf(loans, AllActive) /\ TotalOutstandingDebt \in Int
         /\ TotalNetworkTokens \in Int
<1>1. OpenOffers \subseteq OfferIds /\ AllActive \subseteq LoanIds
  BY DEF OpenOffers, AllActive
<1>2. IsFiniteSet(OpenOffers) /\ IsFiniteSet(AllActive)
  BY <1>1, FS_Subset, LedgerAssumption
<1>3. /\ \A o \in OpenOffers : offers[o].amount \in Int
      /\ \A l \in AllActive : loans[l].amount \in Int
  BY Fields DEF OpenOffers, AllActive, Available, Active
<1>4. OnOffer = AmountOf(offers, OpenOffers)
  BY DEF OnOffer, AmountOf
<1>5. TotalOutstandingDebt = AmountOf(loans, AllActive)
  BY DEF TotalOutstandingDebt, AmountOf, AllActive
<1>6. TotalNetworkTokens \in Int
  <2>1. DOMAIN balances = Makers /\ \A m \in Makers : balances[m] \in Int
    BY DEF TypeOK
  <2> QED
    BY <2>1, SumInt, LedgerAssumption DEF TotalNetworkTokens
<1> QED
  BY <1>2, <1>3, <1>4, <1>5, <1>6, AmountType

\* Borrow and CancelOffer take one open offer away,
LEMMA OfferGone ==
  ASSUME TypeOK, TypeOK', NEW id \in OfferIds, Available(id), ~ Available(id)',
         \A o \in OfferIds : o # id => offers'[o] = offers[o]
  PROVE  OnOffer' = OnOffer - offers[id].amount
<1>1. OpenOffers' = OpenOffers \ {id} /\ id \in OpenOffers
  BY DEF OpenOffers, Available
<1>2. \A o \in OpenOffers \ {id} : offers'[o].amount = offers[o].amount
  BY DEF OpenOffers
<1>3. /\ IsFiniteSet(OpenOffers) /\ \A o \in OpenOffers : offers[o].amount \in Int
      /\ OnOffer = AmountOf(offers, OpenOffers)
  BY OpenSets
<1>4. OnOffer' = AmountOf(offers', OpenOffers \ {id})
  BY <1>1 DEF OnOffer, AmountOf
<1>5. OnOffer' = AmountOf(offers, OpenOffers \ {id})
  BY <1>2, <1>4, AmountSame
<1>6. /\ AmountOf(offers, OpenOffers) = AmountOf(offers, OpenOffers \ {id}) + offers[id].amount
      /\ AmountOf(offers, OpenOffers \ {id}) \in Int /\ offers[id].amount \in Int
  BY <1>1, <1>3, AmountSplit
<1> QED
  BY <1>3, <1>5, <1>6

\* and Lend adds one, in the place of the one that may have been there.
LEMMA OfferMade ==
  ASSUME TypeOK, TypeOK', NEW id \in OfferIds, Available(id)',
         \A o \in OfferIds : o # id => offers'[o] = offers[o]
  PROVE  /\ offers'[id].amount \in Int
         /\ OnOffer' = OnOffer + offers'[id].amount
                         - IF Available(id) THEN offers[id].amount ELSE 0
<1> DEFINE rest == OpenOffers \ {id}
<1>1. OpenOffers' = rest \cup {id} /\ OpenOffers' \ {id} = rest /\ id \in OpenOffers'
  BY DEF OpenOffers, Available
<1>2. \A o \in rest : offers'[o].amount = offers[o].amount
  BY DEF OpenOffers
<1>3. /\ IsFiniteSet(OpenOffers) /\ \A o \in OpenOffers : offers[o].amount \in Int
      /\ OnOffer = AmountOf(offers, OpenOffers) /\ OnOffer \in Int
  BY OpenSets
<1>4. /\ \A o \in OfferIds : offers'[o] # None => offers'[o].amount \in Int
      /\ offers'[id].amount \in Int
  BY DEF TypeOK, Offers, Available
<1>5. IsFiniteSet(rest)
  BY <1>3, FS_Subset
<1>6. AmountOf(offers', rest) = AmountOf(offers, rest) /\ AmountOf(offers, rest) \in Int
  BY <1>2, <1>3, <1>5, AmountSame, AmountType
<1>7. OnOffer' = AmountOf(offers', rest) + offers'[id].amount
  <2>1. OnOffer' = AmountOf(offers', OpenOffers')
    BY DEF OnOffer, AmountOf
  <2>2. IsFiniteSet(OpenOffers') /\ \A o \in OpenOffers' : offers'[o].amount \in Int
    BY <1>1, <1>4, <1>5, FS_AddElement DEF OpenOffers, Available
  <2>3. AmountOf(offers', OpenOffers') = AmountOf(offers', OpenOffers' \ {id}) + offers'[id].amount
    BY <1>1, <2>2, AmountSplit
  <2> QED
    BY <1>1, <2>1, <2>3
<1>8. OnOffer = AmountOf(offers, rest) + IF Available(id) THEN offers[id].amount ELSE 0
  <2>1. CASE Available(id)
    <3>1. id \in OpenOffers
      BY <2>1 DEF OpenOffers
    <3>2. AmountOf(offers, OpenOffers) = AmountOf(offers, rest) + offers[id].amount
      BY <1>3, <3>1, AmountSplit
    <3> QED
      BY <1>3, <2>1, <3>2
  <2>2. CASE ~ Available(id)
    <3>1. rest = OpenOffers
      BY <2>2 DEF OpenOffers
    <3> QED
      BY <1>3, <1>6, <2>2, <3>1
  <2> QED
    BY <2>1, <2>2
<1>9. Available(id) => offers[id].amount \in Int
  BY <1>3 DEF OpenOffers
<1> QED
  BY <1>3, <1>4, <1>6, <1>7, <1>8, <1>9

\* A sum over the makers, one summand changed.
LEMMA MakerSum ==
  ASSUME NEW f, NEW g, f \in [Makers -> Int], g \in [Makers -> Int],
         NEW m \in Makers, \A k \in Makers : k # m => g[k] = f[k]
  PROVE  SumFunction(g) = SumFunction(f) - f[m] + g[m]
BY SumExcept, LedgerAssumption

\* A sum over the makers is an integer.
LEMMA MakerSumType ==
  ASSUME NEW f, f \in [Makers -> Int] PROVE SumFunction(f) \in Int
<1>1. DOMAIN f = Makers /\ \A m \in Makers : f[m] \in Int
  OBVIOUS
<1> QED
  BY <1>1, SumInt, LedgerAssumption

\* One balance changes, and with it their sum.
LEMMA OneBalance ==
  ASSUME TypeOK, TypeOK', NEW m \in Makers, NEW d \in Int, balances'[m] = balances[m] + d,
         \A k \in Makers : k # m => balances'[k] = balances[k]
  PROVE  TotalNetworkTokens' = TotalNetworkTokens + d
<1>1. /\ balances \in [Makers -> Int] /\ balances' \in [Makers -> Int]
      /\ balances[m] \in Int
  BY DEF TypeOK
<1>2. SumFunction(balances') = SumFunction(balances) - balances[m] + balances'[m]
  BY <1>1, MakerSum
<1>3. SumFunction(balances) \in Int
  BY <1>1, MakerSumType
<1> QED
  BY <1>1, <1>2, <1>3 DEF TotalNetworkTokens

\* All tokens are a number, before a step and after it.
TokensTyped == TypeOK => AllTokens \in Int
LEMMA TokensType == TokensTyped /\ TokensTyped'
<1>1. TokensTyped
  BY OpenSets DEF TokensTyped, AllTokens, TypeOK
<1> QED
  BY <1>1, PTL

\* Each method keeps all tokens together, HQ's balances apart.
LEMMA TokensKept ==
  ASSUME TypeOK, TypeOK', [Next]_vars
  PROVE  AllTokens' - outside' = AllTokens - outside
<1> DEFINE Kept == AllTokens' - outside' = AllTokens - outside
<1>0. /\ TotalNetworkTokens \in Int /\ OnOffer \in Int /\ lost \in Int /\ outside \in Int
  BY OpenSets DEF TypeOK
<1>1. ASSUME NEW m \in Makers, NEW amount \in Deposits, Deposit(m, amount) PROVE Kept
  <2>1. /\ balances' = [balances EXCEPT ![m] = amount]
        /\ outside' = outside + amount - balances[m]
        /\ UNCHANGED <<offers, lost>>
    BY <1>1 DEF Deposit, SetBalance
  <2>2. amount \in Int /\ balances[m] \in Int /\ balances \in [Makers -> Int]
    BY LendingAssumption DEF TypeOK
  <2>3. /\ amount - balances[m] \in Int
        /\ balances'[m] = balances[m] + (amount - balances[m])
        /\ \A k \in Makers : k # m => balances'[k] = balances[k]
    BY <2>1, <2>2
  <2>4. TotalNetworkTokens' = TotalNetworkTokens + (amount - balances[m])
    BY <2>3, OneBalance
  <2>5. OnOffer' = OnOffer
    BY <2>1 DEF OnOffer, OpenOffers, Available
  <2> QED
    BY <1>0, <2>1, <2>2, <2>4, <2>5 DEF AllTokens
<1>2. ASSUME NEW id \in OfferIds, NEW m \in Makers, NEW amount \in Amounts,
             NEW minRep \in MinReputations, NEW pct \in Interests,
             MakeOffer(id, m, amount, minRep, pct)
      PROVE  Kept
  <2>1. amount \in Int /\ minRep \in Int /\ pct \in Int
    BY LendingAssumption
  <2>2. /\ \A o \in OfferIds : o # id => offers'[o] = offers[o]
        /\ offers'[id] \in Offers /\ offers'[id].amount = amount
        /\ offers'[id].status = "available"
        /\ balances' = [balances EXCEPT ![m] = @ - amount]
    BY <1>2, <2>1, LendWrites DEF MakeOffer
  <2>3. Available(id)'
    BY <2>2, LedgerAssumption DEF Available
  <2>4. OnOffer' = OnOffer + amount - IF Available(id) THEN offers[id].amount ELSE 0
    BY <2>2, <2>3, OfferMade
  <2>5. TotalNetworkTokens' = TotalNetworkTokens + (-amount)
    <3>1. /\ -amount \in Int /\ balances'[m] = balances[m] + (-amount)
          /\ \A k \in Makers : k # m => balances'[k] = balances[k]
      BY <2>1, <2>2 DEF TypeOK
    <3> QED
      BY <3>1, OneBalance
  <2>6. /\ lost' = lost + IF Available(id) THEN offers[id].amount ELSE 0
        /\ outside' = outside
    BY <1>2 DEF MakeOffer
  <2>7. Available(id) => offers[id].amount \in Int
    BY Fields DEF Available
  <2> QED
    BY <1>0, <2>1, <2>4, <2>5, <2>6, <2>7 DEF AllTokens
<1>3. ASSUME NEW l \in LoanIds, NEW id \in OfferIds, NEW m \in Makers, TakeOffer(l, id, m)
      PROVE  Kept
  <2>1. Borrow(l, id, m) /\ lost' = lost /\ outside' = outside
    BY <1>3 DEF TakeOffer
  <2>2. /\ Available(id) /\ offers[id].amount \in Int
        /\ balances' = [balances EXCEPT ![m] = @ + offers[id].amount]
    BY <2>1, BorrowWrites
  <2>3. ~ Available(id)' /\ \A o \in OfferIds : o # id => offers'[o] = offers[o]
    BY <2>1, BorrowClaims DEF Available
  <2>4. OnOffer' = OnOffer - offers[id].amount
    BY <2>2, <2>3, OfferGone
  <2>5. TotalNetworkTokens' = TotalNetworkTokens + offers[id].amount
    <3>1. /\ balances'[m] = balances[m] + offers[id].amount
          /\ \A k \in Makers : k # m => balances'[k] = balances[k]
      BY <2>2 DEF TypeOK
    <3> QED
      BY <2>2, <3>1, OneBalance
  <2> QED
    BY <1>0, <2>1, <2>2, <2>4, <2>5 DEF AllTokens
<1>4. ASSUME Other, UNCHANGED <<lends, offerNo, loanNo, lost, outside>> PROVE Kept
  <2>1. ASSUME NEW id \in OfferIds, NEW m \in Makers, CancelOffer(id, m) PROVE Kept
    <3>1. /\ Available(id) /\ offers[id].amount \in Int
          /\ ~ Available(id)' /\ \A o \in OfferIds : o # id => offers'[o] = offers[o]
          /\ balances' = [balances EXCEPT ![m] = @ + offers[id].amount]
      BY <2>1, CancelWrites DEF Available
    <3>2. OnOffer' = OnOffer - offers[id].amount
      BY <3>1, OfferGone
    <3>3. TotalNetworkTokens' = TotalNetworkTokens + offers[id].amount
      <4>1. /\ balances'[m] = balances[m] + offers[id].amount
            /\ \A k \in Makers : k # m => balances'[k] = balances[k]
        BY <3>1 DEF TypeOK
      <4> QED
        BY <3>1, <4>1, OneBalance
    <3> QED
      BY <1>0, <1>4, <3>1, <3>2, <3>3 DEF AllTokens
  <2>2. ASSUME NEW l \in LoanIds, Repay(l) PROVE Kept
    <3> DEFINE b == loans[l].borrower
               k == loans[l].lender
               n == loans[l].repayAmount
               paid == [balances EXCEPT ![b] = @ - n]
    <3>1. b \in Makers /\ k \in Makers /\ n \in Int /\ offers' = offers
      BY <2>2, Fields DEF Repay, Active
    <3>2. balances' = [paid EXCEPT ![k] = @ + n] /\ balances \in [Makers -> Int]
          /\ balances' \in [Makers -> Int]
      BY <2>2 DEF Repay, TypeOK
    <3> HIDE DEF b, k, n
    <3>3. /\ paid \in [Makers -> Int] /\ paid[b] = balances[b] - n /\ balances[b] \in Int
          /\ \A j \in Makers : j # b => paid[j] = balances[j]
      BY <3>1, <3>2
    <3> HIDE DEF paid
    <3>4. SumFunction(paid) = SumFunction(balances) - balances[b] + paid[b]
      BY <3>1, <3>2, <3>3, MakerSum
    <3>5. /\ balances'[k] = paid[k] + n /\ paid[k] \in Int
          /\ \A j \in Makers : j # k => balances'[j] = paid[j]
      BY <3>1, <3>2, <3>3
    <3>6. SumFunction(balances') = SumFunction(paid) - paid[k] + balances'[k]
      BY <3>1, <3>2, <3>3, <3>5, MakerSum
    <3>7. TotalNetworkTokens' = TotalNetworkTokens
      BY <1>0, <3>1, <3>3, <3>4, <3>5, <3>6 DEF TotalNetworkTokens
    <3>8. OnOffer' = OnOffer
      BY <3>1 DEF OnOffer, OpenOffers, Available
    <3> QED
      BY <1>4, <3>7, <3>8 DEF AllTokens
  <2>3. CASE \/ \E m \in Makers : RegisterMaker(m)
             \/ \E l \in LoanIds : Default(l)
             \/ DaysPass
    <3>1. balances' = balances /\ offers' = offers
      BY <2>3 DEF DaysPass, RegisterMaker, Default
    <3>2. TotalNetworkTokens' = TotalNetworkTokens /\ OnOffer' = OnOffer
      BY <3>1 DEF TotalNetworkTokens, OnOffer, OpenOffers, Available
    <3> QED
      BY <1>4, <3>2 DEF AllTokens
  <2> QED
    BY <1>4, <2>1, <2>2, <2>3 DEF Other
<1>5. ASSUME UNCHANGED vars PROVE Kept
  <2>1. TotalNetworkTokens' = TotalNetworkTokens /\ OnOffer' = OnOffer
        /\ lost' = lost /\ outside' = outside
    BY <1>5 DEF vars, TotalNetworkTokens, OnOffer, OpenOffers, Available
  <2> QED
    BY <2>1 DEF AllTokens
<1> HIDE DEF Kept
<1>6. Kept
  BY <1>1, <1>2, <1>3, <1>4, <1>5 DEF Next
<1> QED
  BY <1>6 DEF Kept

TInv == TypeOK /\ TokensConserved

\* Every method keeps both.
LEMMA TokensInductive == TInv /\ [Next]_vars => TInv'
<1> SUFFICES ASSUME TInv, [Next]_vars PROVE TInv'
  OBVIOUS
<1>1. TypeOK /\ TypeOK'
  BY TypeInductive DEF TInv
<1>2. AllTokens' = SumFunction(InitialBalances) + outside'
  <2>1. SumFunction(InitialBalances) \in Int
    <3>1. InitialBalances \in [Makers -> Int]
      BY LendingAssumption
    <3> QED
      BY <3>1, MakerSumType
  <2>2. AllTokens = SumFunction(InitialBalances) + outside
    BY DEF TInv, TokensConserved
  <2>3. AllTokens' - outside' = AllTokens - outside
    BY <1>1, TokensKept
  <2>4. AllTokens' \in Int /\ outside \in Int /\ outside' \in Int
    BY <1>1, TokensType DEF TokensTyped, TypeOK
  <2> HIDE DEF AllTokens
  <2> QED
    BY <2>1, <2>2, <2>3, <2>4
<1> QED
  BY <1>1, <1>2 DEF TInv, TokensConserved

\* Both hold at the start: nothing is on offer.
LEMMA TokensInit == Init => TInv
<1> SUFFICES ASSUME Init PROVE TInv
  OBVIOUS
<1>1. TypeOK
  BY LendingAssumption DEF Init, TypeOK
<1>2. OnOffer = 0
  <2>1. OpenOffers = {}
    BY DEF Init, OpenOffers, Available
  <2>2. OnOffer = SumFunctionOnSet([o \in OpenOffers |-> offers[o].amount], {})
    BY <2>1 DEF OnOffer, SumFunction
  <2> QED
    BY <2>2, SumEmpty
<1>3. TotalNetworkTokens \in Int
  BY <1>1, OpenSets
<1> QED
  BY <1>1, <1>2, <1>3 DEF Init, AllTokens, TotalNetworkTokens, TInv, TokensConserved

\* Lending moves tokens and makes or destroys none: what makers have and what
\* is on offer change together by what HQ sets, and by the open offers that
\* others replace, whatever amounts the clients send.
THEOREM TokensAreConserved == Spec => []TokensConserved
<1>1. TInv => TokensConserved
  BY DEF TInv
<1> QED
  BY <1>1, TokensInit, TokensInductive, PTL DEF Spec

-----------------------------------------------------------------------------
(***************************************************************************)
(* The network's debt.                                                     *)
(***************************************************************************)

\* A loan opened is active, in the place of the one that may have been there,
\* and its amount is added.
LEMMA DebtOpens ==
  ASSUME TypeOK, NEW l \in LoanIds, NEW id \in OfferIds, NEW m \in Makers, Opens(l, id, m),
         Active(l) => loans[l].amount >= 0
  PROVE  /\ TotalOutstandingDebt \in Int /\ TotalOutstandingDebt' \in Int
         /\ TotalOutstandingDebt' =< TotalOutstandingDebt + offers[id].amount
<1> DEFINE rest == AllActive \ {l}
<1>0. /\ IsFiniteSet(AllActive) /\ \A k \in AllActive : loans[k].amount \in Int
      /\ TotalOutstandingDebt = AmountOf(loans, AllActive) /\ TotalOutstandingDebt \in Int
  BY OpenSets
<1>1. /\ loans'[l] # None /\ loans'[l].status = "active"
      /\ loans'[l].amount = offers[id].amount /\ offers[id].amount \in Int
      /\ \A k \in LoanIds : k # l => loans'[k] = loans[k]
  BY LedgerAssumption DEF Opens
<1>2. AllActive' = rest \cup {l} /\ AllActive' \ {l} = rest /\ l \in AllActive'
  BY <1>1 DEF AllActive, Active
<1>3. \A k \in rest : loans'[k].amount = loans[k].amount
  BY <1>1 DEF AllActive
<1>4. IsFiniteSet(rest)
  BY <1>0, FS_Subset
<1>5. AmountOf(loans', rest) = AmountOf(loans, rest) /\ AmountOf(loans, rest) \in Int
  BY <1>0, <1>3, <1>4, AmountSame, AmountType
<1>6. TotalOutstandingDebt' = AmountOf(loans', rest) + offers[id].amount
  <2>1. TotalOutstandingDebt' = AmountOf(loans', AllActive')
    BY DEF TotalOutstandingDebt, AmountOf, AllActive
  <2>2. IsFiniteSet(AllActive') /\ \A k \in AllActive' : loans'[k].amount \in Int
    <3>1. IsFiniteSet(AllActive')
      BY <1>2, <1>4, FS_AddElement
    <3>2. \A k \in rest : loans'[k].amount \in Int
      BY <1>0, <1>3
    <3> QED
      BY <1>1, <1>2, <3>1, <3>2
  <2>3. AmountOf(loans', AllActive') = AmountOf(loans', AllActive' \ {l}) + loans'[l].amount
    BY <1>2, <2>2, AmountSplit
  <2> QED
    BY <1>1, <1>2, <2>1, <2>3
<1>7. AmountOf(loans, rest) =< TotalOutstandingDebt
  <2>1. CASE l \in AllActive
    <3>1. AmountOf(loans, AllActive) = AmountOf(loans, rest) + loans[l].amount
      BY <1>0, <2>1, AmountSplit
    <3>2. loans[l].amount >= 0 /\ loans[l].amount \in Int
      BY <1>0, <2>1 DEF AllActive
    <3> QED
      BY <1>0, <1>5, <3>1, <3>2
  <2>2. CASE l \notin AllActive
    <3>1. rest = AllActive
      BY <2>2
    <3> QED
      BY <1>0, <3>1
  <2> QED
    BY <2>1, <2>2
<1> QED
  BY <1>0, <1>1, <1>5, <1>6, <1>7

\* A loan closed is not.
LEMMA DebtCloses ==
  ASSUME TypeOK, NEW l \in LoanIds, NEW s \in {"settled", "defaulted"}, Closes(l, s)
  PROVE  /\ TotalOutstandingDebt \in Int /\ TotalOutstandingDebt' \in Int
         /\ TotalOutstandingDebt' = TotalOutstandingDebt - loans[l].amount
         /\ loans[l].amount \in Int
<1>0. /\ IsFiniteSet(AllActive) /\ \A k \in AllActive : loans[k].amount \in Int
      /\ TotalOutstandingDebt = AmountOf(loans, AllActive) /\ TotalOutstandingDebt \in Int
  BY OpenSets
<1>1. AllActive' = AllActive \ {l} /\ l \in AllActive
  BY DEF Closes, AllActive, Active
<1>2. \A k \in AllActive \ {l} : loans'[k].amount = loans[k].amount
  BY DEF Closes, AllActive
<1>3. TotalOutstandingDebt' = AmountOf(loans', AllActive \ {l})
  BY <1>1 DEF TotalOutstandingDebt, AmountOf, AllActive
<1>4. TotalOutstandingDebt' = AmountOf(loans, AllActive \ {l})
  BY <1>2, <1>3, AmountSame
<1>5. /\ AmountOf(loans, AllActive) = AmountOf(loans, AllActive \ {l}) + loans[l].amount
      /\ AmountOf(loans, AllActive \ {l}) \in Int
  BY <1>0, <1>1, AmountSplit
<1> QED
  BY <1>0, <1>1, <1>4, <1>5

\* Where HQ changes nothing, all tokens together stay what they were.
LEMMA TokensSame ==
  ASSUME TypeOK, TypeOK', [Next]_vars, outside' = outside
  PROVE  AllTokens' = AllTokens /\ AllTokens \in Int
<1>1. AllTokens \in Int /\ AllTokens' \in Int
  BY TokensType DEF TokensTyped
<1>2. AllTokens' - outside' = AllTokens - outside
  BY TokensKept
<1>3. \A a, b, c \in Int : a - c = b - c => a = b
  OBVIOUS
<1>4. outside \in Int
  BY DEF TypeOK
<1> HIDE DEF AllTokens
<1>5. AllTokens' - outside = AllTokens - outside
  BY <1>2, Zenon
<1> QED
  BY <1>1, <1>3, <1>4, <1>5

\* A share of more tokens is more.
LEMMA ShareMonotone ==
  ASSUME NEW p \in Nat, NEW x \in Int, NEW y \in Int, x =< y
  PROVE  p * x =< p * y
<1> DEFINE d == y - x
<1>1. d \in Nat /\ y = x + d
  OBVIOUS
<1> HIDE DEF d
<1>2. p * y = p * x + p * d
  BY <1>1
<1>3. p * d \in Nat
  BY <1>1
<1>4. p * x \in Int
  OBVIOUS
<1> QED
  BY <1>2, <1>3, <1>4

\* Once the network's debt is within its share of all tokens, no method of the
\* ledger takes it beyond, as long as no amount is negative.
LEMMA DebtContainedStep ==
  ASSUME TypeOK, TypeOK', [Next]_vars, NoNegatives, outside' = outside,
         TotalNetworkTokens > 0,
         100 * TotalOutstandingDebt =< MaxNetworkDebtPct * AllTokens
  PROVE  100 * TotalOutstandingDebt' =< MaxNetworkDebtPct * AllTokens'
<1>1. /\ TotalNetworkTokens \in Int /\ OnOffer \in Int /\ TotalOutstandingDebt \in Int
      /\ lost \in Int
  BY OpenSets DEF TypeOK
<1>2. OnOffer >= 0
  <2>1. \A o \in OpenOffers : offers[o].amount >= 0
    BY DEF NoNegatives
  <2> QED
    BY <2>1, OpenSets, AmountType
<1>3. AllTokens \in Int /\ TotalNetworkTokens =< AllTokens
  BY <1>1, <1>2 DEF AllTokens, NoNegatives
<1>4. AllTokens' = AllTokens
  BY TokensSame
<1>5. MaxNetworkDebtPct * AllTokens \in Int
  BY <1>3, LedgerAssumption
<1> HIDE DEF AllTokens
<1>6. CASE loans' = loans
  <2>1. TotalOutstandingDebt' = TotalOutstandingDebt
    BY <1>6 DEF TotalOutstandingDebt, Active
  <2> QED
    BY <1>4, <2>1
<1>7. ASSUME NEW l \in LoanIds, NEW s \in {"settled", "defaulted"}, Closes(l, s)
      PROVE  100 * TotalOutstandingDebt' =< MaxNetworkDebtPct * AllTokens'
  <2>1. /\ TotalOutstandingDebt' = TotalOutstandingDebt - loans[l].amount
        /\ loans[l].amount \in Int /\ TotalOutstandingDebt' \in Int
    BY <1>7, DebtCloses
  <2>2. loans[l].amount >= 0
    BY <1>7 DEF Closes, NoNegatives
  <2> QED
    BY <1>1, <1>4, <1>5, <2>1, <2>2
<1>8. ASSUME NEW l \in LoanIds, NEW id \in OfferIds, NEW m \in Makers, Opens(l, id, m)
      PROVE  100 * TotalOutstandingDebt' =< MaxNetworkDebtPct * AllTokens'
  <2>1. /\ TotalOutstandingDebt' =< TotalOutstandingDebt + offers[id].amount
        /\ TotalOutstandingDebt' \in Int /\ offers[id].amount \in Int
    BY <1>8, DebtOpens DEF NoNegatives, Opens
  <2>2. 100 * (TotalOutstandingDebt + offers[id].amount)
          =< MaxNetworkDebtPct * TotalNetworkTokens
    <3>1. NetworkCanBear(offers[id].amount)
      BY <1>8, BorrowWrites DEF Opens
    <3> QED
      BY <3>1 DEF NetworkCanBear
  <2>3. /\ MaxNetworkDebtPct * TotalNetworkTokens =< MaxNetworkDebtPct * AllTokens
        /\ MaxNetworkDebtPct * TotalNetworkTokens \in Int
    BY <1>1, <1>3, ShareMonotone, LedgerAssumption
  <2> QED
    BY <1>1, <1>4, <1>5, <2>1, <2>2, <2>3
<1> QED
  BY <1>6, <1>7, <1>8, LoanStep

\* The network's debt stays within its share of all tokens once it is, for any
\* limit, as long as no amount is negative: only HQ changing a balance pushes
\* it beyond, even where one loan replaces another.
THEOREM NetworkDebtStaysContained == Spec => NetworkDebtContained
<1>1. TypeOK /\ TypeOK' /\ [Next]_vars =>
        [/\ NoNegatives /\ TotalNetworkTokens > 0 /\ outside' = outside
         /\ 100 * TotalOutstandingDebt =< MaxNetworkDebtPct * AllTokens
         => 100 * TotalOutstandingDebt' =< MaxNetworkDebtPct * AllTokens']_vars
  BY DebtContainedStep
<1> QED
  BY <1>1, TypeCorrect, PTL DEF Spec, NetworkDebtContained

-----------------------------------------------------------------------------
(***************************************************************************)
(* The debt limits of a maker.  Borrow looks at the share of deliveries    *)
(* only for a maker that has delivered something; but one that has not     *)
(* scores nothing, and so is lent nothing.                                 *)
(***************************************************************************)

\* The loans of a maker in one state.
LoansIn(m, status) ==
  {l \in LoanIds : loans[l] # None /\ loans[l].borrower = m /\ loans[l].status = status}
Statuses == {"active", "settled", "defaulted"}

\* The loan opened is active, and its borrower's, and no longer what it was;
LEMMA OpensSets ==
  ASSUME TypeOK, NEW l \in LoanIds, NEW id \in OfferIds, NEW b \in Makers, Opens(l, id, b),
         NEW m \in Makers, NEW status \in Statuses
  PROVE  LoansIn(m, status)' = IF m = b /\ status = "active" THEN LoansIn(m, status) \cup {l}
                                                             ELSE LoansIn(m, status) \ {l}
<1>1. loans'[l] # None
  BY LedgerAssumption DEF Opens
<1> QED
  BY <1>1 DEF Opens, LoansIn, Statuses

\* the loan closed is no longer active.
LEMMA ClosesSets ==
  ASSUME TypeOK, NEW l \in LoanIds, NEW s \in {"settled", "defaulted"}, Closes(l, s),
         NEW m \in Makers, NEW status \in Statuses
  PROVE  /\ l \in LoansIn(loans[l].borrower, "active") /\ l \notin LoansIn(m, s)
         /\ LoansIn(m, status)' =
              CASE m = loans[l].borrower /\ status = "active" -> LoansIn(m, status) \ {l}
                [] m = loans[l].borrower /\ status = s -> LoansIn(m, status) \cup {l}
                [] OTHER -> LoansIn(m, status)
<1>1. loans'[l] # None /\ loans[l] # None /\ s # "active" /\ loans[l].status = "active"
  BY LedgerAssumption DEF Closes, Active
<1> QED
  BY <1>1 DEF Closes, Active, LoansIn, Statuses

\* What a maker owes is the sum of its active loans.
LEMMA BorrowedIsOwn ==
  ASSUME TypeOK, NEW m
  PROVE  /\ ActiveLoans(m) = LoansIn(m, "active") /\ ActiveLoans(m)' = LoansIn(m, "active")'
         /\ TotalBorrowedBy(m) = AmountOf(loans, LoansIn(m, "active"))
         /\ TotalBorrowedBy(m)' = AmountOf(loans', LoansIn(m, "active")')
         /\ IsFiniteSet(LoansIn(m, "active"))
         /\ \A l \in LoansIn(m, "active") : loans[l].amount \in Int
         /\ TotalBorrowedBy(m) \in Int
         /\ ActiveLoansFor(m) = Cardinality(LoansIn(m, "active")) /\ ActiveLoansFor(m) \in Nat
         /\ ActiveLoansFor(m)' = Cardinality(LoansIn(m, "active")')
<1>1. ActiveLoans(m) = LoansIn(m, "active") /\ ActiveLoans(m)' = LoansIn(m, "active")'
  BY DEF ActiveLoans, Active, LoansIn
<1>2. /\ TotalBorrowedBy(m) = AmountOf(loans, LoansIn(m, "active"))
      /\ TotalBorrowedBy(m)' = AmountOf(loans', LoansIn(m, "active")')
      /\ ActiveLoansFor(m) = Cardinality(LoansIn(m, "active"))
      /\ ActiveLoansFor(m)' = Cardinality(LoansIn(m, "active")')
  BY <1>1 DEF TotalBorrowedBy, AmountOf, ActiveLoansFor
<1>3. IsFiniteSet(LoansIn(m, "active")) /\ LoansIn(m, "active") \subseteq LoanIds
  BY FS_Subset, LedgerAssumption DEF LoansIn
<1>4. \A l \in LoansIn(m, "active") : loans[l].amount \in Int
  BY Fields DEF LoansIn
<1>5. TotalBorrowedBy(m) \in Int
  BY <1>2, <1>3, <1>4, AmountType
<1>6. ActiveLoansFor(m) \in Nat
  BY <1>2, <1>3, FS_CardinalityType
<1> QED
  BY <1>1, <1>2, <1>3, <1>4, <1>5, <1>6

\* What a maker owes without one of its loans is no more, if that is no less
\* than nothing.
LEMMA OwesLess ==
  ASSUME TypeOK, NEW m \in Makers, NEW l,
         \A k \in LoansIn(m, "active") \ {l} : loans'[k].amount = loans[k].amount,
         \A k \in LoansIn(m, "active") : loans[k].amount >= 0
  PROVE  /\ AmountOf(loans', LoansIn(m, "active") \ {l}) \in Int
         /\ AmountOf(loans', LoansIn(m, "active") \ {l}) =< TotalBorrowedBy(m)
<1> DEFINE L == LoansIn(m, "active")
<1>1. /\ IsFiniteSet(L) /\ \A k \in L : loans[k].amount \in Int
      /\ TotalBorrowedBy(m) = AmountOf(loans, L) /\ TotalBorrowedBy(m) \in Int
  BY BorrowedIsOwn
<1>2. \A k \in L \ {l} : loans'[k].amount = loans[k].amount
  OBVIOUS
<1>3. \A k \in L : loans[k].amount >= 0
  OBVIOUS
<1> HIDE DEF L
<1>4. AmountOf(loans', L \ {l}) = AmountOf(loans, L \ {l})
  BY <1>2, AmountSame
<1>5. CASE l \in L
  <2>1. /\ AmountOf(loans, L) = AmountOf(loans, L \ {l}) + loans[l].amount
        /\ AmountOf(loans, L \ {l}) \in Int
    BY <1>1, <1>5, AmountSplit
  <2> QED
    BY <1>1, <1>3, <1>4, <1>5, <2>1 DEF L
<1>6. CASE l \notin L
  <2>1. L \ {l} = L
    BY <1>6
  <2> QED
    BY <1>1, <1>4, <2>1 DEF L
<1> QED
  BY <1>5, <1>6

\* What a maker's limit is measured by.
Delivered(m) == IF reputations[m].totalDelivered > 0 THEN reputations[m].totalDelivered ELSE 0

\* It never falls while the maker's loans are worth something.
LEMMA DeliveredGrows ==
  ASSUME TypeOK, TypeOK', [Next]_vars, NEW m \in Makers, PlainBorrower(m)
  PROVE  /\ Delivered(m) \in Int /\ Delivered(m)' \in Int /\ Delivered(m) =< Delivered(m)'
<1> DEFINE r == reputations[m]
<1>1. /\ r \in Reputations /\ r # None /\ r.totalDelivered \in Int
      /\ reputations'[m] \in Reputations /\ reputations'[m].totalDelivered \in Int
  BY RecordsStay DEF PlainBorrower, Reputations
<1>2. reputations'[m].totalDelivered >= r.totalDelivered
  <2>1. CASE SameCounts(r, reputations'[m])
    BY <1>1, <2>1 DEF SameCounts
  <2>2. CASE reputations'[m] = Made(r)
    <3> HIDE DEF r
    <3>1. Made(r).totalDelivered = r.totalDelivered
      BY <1>1, CountersWritten
    <3> QED
      BY <1>1, <2>2, <3>1 DEF r
  <2>3. ASSUME NEW l \in LoanIds, Closes(l, "settled"), loans[l].borrower = m,
               reputations'[m] = Paid(r, loans[l].amount)
        PROVE  reputations'[m].totalDelivered >= r.totalDelivered
    <3> DEFINE n == loans[l].amount
    <3>1. n \in Int /\ n >= 0
      BY <2>3 DEF Closes, PlainBorrower, ActiveLoans
    <3>2. reputations'[m] = Paid(r, n)
      BY <2>3
    <3> HIDE DEF r, n
    <3>3. Paid(r, n).totalDelivered = r.totalDelivered + n
      BY <1>1, <3>1, CountersWritten
    <3> QED
      BY <1>1, <3>1, <3>2, <3>3
  <2>4. ASSUME NEW l \in LoanIds, Closes(l, "defaulted"),
               reputations'[m] = Failed(r, loans[l].amount)
        PROVE  reputations'[m].totalDelivered >= r.totalDelivered
    <3> DEFINE n == loans[l].amount
    <3>1. n \in Int /\ reputations'[m] = Failed(r, n)
      BY <2>4 DEF Closes
    <3> HIDE DEF r, n
    <3>2. Failed(r, n).totalDelivered = r.totalDelivered
      BY <1>1, <3>1, CountersWritten
    <3> QED
      BY <1>1, <3>1, <3>2
  <2> QED
    BY <1>1, <2>1, <2>2, <2>3, <2>4, RecordSteps
<1> QED
  BY <1>1, <1>2 DEF Delivered

\* A debt that was within the limit is within it after the step.
LEMMA LimitHoldsOn ==
  ASSUME TypeOK, TypeOK', [Next]_vars, NEW m \in Makers, PlainBorrower(m),
         NEW d \in Int, 100 * d =< MaxDebtToDeliveryPct * Delivered(m)
  PROVE  100 * d =< MaxDebtToDeliveryPct * Delivered(m)'
<1> DEFINE x == Delivered(m)
           y == Delivered(m)'
<1>1. x \in Int /\ y \in Int /\ x =< y
  BY DeliveredGrows
<1>2. 100 * d =< MaxDebtToDeliveryPct * x
  OBVIOUS
<1> HIDE DEF x, y
<1>3. /\ MaxDebtToDeliveryPct * x =< MaxDebtToDeliveryPct * y
      /\ MaxDebtToDeliveryPct * x \in Int /\ MaxDebtToDeliveryPct * y \in Int
  BY <1>1, ShareMonotone, LedgerAssumption
<1>4. 100 * d =< MaxDebtToDeliveryPct * y
  BY <1>2, <1>3
<1> QED
  BY <1>4 DEF y

\* The loan Borrow makes is within the limit, with what is owed already.
LEMMA BorrowWithin ==
  ASSUME TypeOK, NEW l \in LoanIds, NEW id \in OfferIds, NEW m \in Makers, Opens(l, id, m),
         PlainBorrower(m), DebtIsWithin(m)
  PROVE  100 * (TotalBorrowedBy(m) + offers[id].amount) =< MaxDebtToDeliveryPct * Delivered(m)
<1> DEFINE r == reputations[m]
           n == offers[id].amount
<1>1. /\ r \in Reputations /\ n \in Int /\ n =< MaxBorrow(r)
      /\ r.totalDelivered > 0 =>
           100 * (TotalBorrowedBy(m) + n) =< MaxDebtToDeliveryPct * r.totalDelivered
  <2>1. Borrow(l, id, m)
    BY DEF Opens
  <2>2. Creditworthy(m, offers[id]) /\ r \in Reputations /\ n \in Int
    BY <2>1, BorrowWrites
  <2> QED
    BY <2>2 DEF Creditworthy
<1>2. r.totalDelivered \in Int /\ r.penalty \in Int /\ TotalBorrowedBy(m) \in Int
  BY <1>1, BorrowedIsOwn DEF Reputations
<1>3. CASE r.totalDelivered > 0
  <2>1. Delivered(m) = r.totalDelivered
    BY <1>3 DEF Delivered
  <2> QED
    BY <1>1, <1>3, <2>1
<1>4. CASE ~ (r.totalDelivered > 0)
  <2>1. MaxBorrow(r) = 0
    BY <1>1, <1>2, <1>4, NoDeliveryNoCredit DEF PlainBorrower
  <2>2. Delivered(m) = 0 /\ MaxDebtToDeliveryPct * Delivered(m) = 0
    BY <1>4, LedgerAssumption DEF Delivered
  <2>3. 100 * TotalBorrowedBy(m) =< 0
    <3>1. 100 * TotalBorrowedBy(m) =< MaxDebtToDeliveryPct * Delivered(m)
      BY DEF DebtIsWithin, Delivered
    <3> QED
      BY <2>2, <3>1
  <2> HIDE DEF r, n
  <2>4. n =< 0
    BY <1>1, <2>1
  <2> QED
    BY <1>1, <1>2, <2>2, <2>3, <2>4 DEF n
<1> QED
  BY <1>3, <1>4

\* Every method keeps a maker within both limits, if it was.
LEMMA DebtLimitStep ==
  ASSUME TypeOK, TypeOK', [Next]_vars, NEW m \in Makers
  PROVE  /\ ActiveLoansFor(m) =< MaxActiveLoans => ActiveLoansFor(m)' =< MaxActiveLoans
         /\ PlainBorrower(m) /\ DebtIsWithin(m) => DebtIsWithin(m)'
<1> DEFINE L == LoansIn(m, "active")
           Count == ActiveLoansFor(m) =< MaxActiveLoans => ActiveLoansFor(m)' =< MaxActiveLoans
           Within == PlainBorrower(m) /\ DebtIsWithin(m) => DebtIsWithin(m)'
<1>0. /\ ActiveLoansFor(m) = Cardinality(L) /\ ActiveLoansFor(m) \in Nat
      /\ ActiveLoansFor(m)' = Cardinality(L')
      /\ TotalBorrowedBy(m) = AmountOf(loans, L) /\ TotalBorrowedBy(m) \in Int
      /\ TotalBorrowedBy(m)' = AmountOf(loans', L')
      /\ IsFiniteSet(L) /\ ActiveLoans(m) = L
      /\ MaxActiveLoans \in Nat
  BY BorrowedIsOwn, LedgerAssumption
<1>1. \A l : IsFiniteSet(L \ {l}) /\ Cardinality(L \ {l}) =< Cardinality(L)
             /\ Cardinality(L \ {l}) \in Nat /\ Cardinality(L) \in Nat
  <2> TAKE l
  <2>1. L \ {l} \subseteq L
    OBVIOUS
  <2> HIDE DEF L
  <2> QED
    BY <1>0, <2>1, FS_Subset, FS_CardinalityType
\* A debt no greater than before is within the limit.
<1>2. ASSUME TotalBorrowedBy(m)' \in Int, TotalBorrowedBy(m)' =< TotalBorrowedBy(m),
             PlainBorrower(m), DebtIsWithin(m)
      PROVE  DebtIsWithin(m)'
  <2>1. 100 * TotalBorrowedBy(m) =< MaxDebtToDeliveryPct * Delivered(m)
    BY <1>2 DEF DebtIsWithin, Delivered
  <2>2. 100 * TotalBorrowedBy(m)' =< MaxDebtToDeliveryPct * Delivered(m)
    <3>1. MaxDebtToDeliveryPct * Delivered(m) \in Int
      BY <1>2, DeliveredGrows, LedgerAssumption
    <3> QED
      BY <1>0, <1>2, <2>1, <3>1
  <2>3. 100 * TotalBorrowedBy(m)' =< MaxDebtToDeliveryPct * Delivered(m)'
    BY <1>2, <2>2, LimitHoldsOn
  <2> QED
    BY <2>3 DEF DebtIsWithin, Delivered
\* One loan of the maker's at most is gone.
<1>3. ASSUME NEW l, L' = L \ {l}, \A k \in L \ {l} : loans'[k].amount = loans[k].amount
      PROVE  Count /\ Within
  <2>1. Count
    BY <1>0, <1>1, <1>3
  <2>2. ASSUME PlainBorrower(m), DebtIsWithin(m) PROVE DebtIsWithin(m)'
    <3>1. \A k \in L : loans[k].amount >= 0
      BY <1>0, <2>2 DEF PlainBorrower
    <3>2. TotalBorrowedBy(m)' \in Int /\ TotalBorrowedBy(m)' =< TotalBorrowedBy(m)
      BY <1>0, <1>3, <3>1, OwesLess
    <3> QED
      BY <1>2, <2>2, <3>2
  <2> QED
    BY <2>1, <2>2
<1>4. ASSUME loans' = loans PROVE Count /\ Within
  <2>1. L' = L
    BY <1>4 DEF LoansIn
  <2>2. TotalBorrowedBy(m)' = TotalBorrowedBy(m) /\ ActiveLoansFor(m)' = ActiveLoansFor(m)
    BY <1>0, <1>4, <2>1
  <2> QED
    BY <1>0, <1>2, <2>2
<1>5. ASSUME NEW l \in LoanIds, NEW s \in {"settled", "defaulted"}, Closes(l, s)
      PROVE  Count /\ Within
  <2>1. L' = IF m = loans[l].borrower THEN L \ {l} ELSE L
    BY <1>5, ClosesSets DEF Statuses
  <2>2. m # loans[l].borrower => L = L \ {l}
    BY DEF LoansIn
  <2>3. L' = L \ {l}
    BY <2>1, <2>2
  <2>4. \A k \in L \ {l} : loans'[k].amount = loans[k].amount
    BY <1>5 DEF Closes, LoansIn
  <2> HIDE DEF Count, Within, L
  <2> QED
    BY <1>3, <2>3, <2>4
<1>6. ASSUME NEW l \in LoanIds, NEW id \in OfferIds, NEW b \in Makers, Opens(l, id, b)
      PROVE  Count /\ Within
  <2>1. L' = IF m = b THEN L \cup {l} ELSE L \ {l}
    BY <1>6, OpensSets DEF Statuses
  <2>2. \A k \in L \ {l} : loans'[k].amount = loans[k].amount
    BY <1>6 DEF Opens, LoansIn
  <2>3. CASE m # b
    <3>1. L' = L \ {l}
      BY <2>1, <2>3
    <3> HIDE DEF Count, Within, L
    <3> QED
      BY <1>3, <2>2, <3>1
  <2>4. CASE m = b
    <3>1. L' = (L \ {l}) \cup {l} /\ l \notin L \ {l} /\ L' \ {l} = L \ {l} /\ l \in L'
      BY <2>1, <2>4
    <3>2. loans'[l].amount = offers[id].amount /\ offers[id].amount \in Int
      BY <1>6 DEF Opens
    <3>3. Count
      <4>1. ActiveLoansFor(m) < MaxActiveLoans
        BY <1>6, <2>4, BorrowWrites DEF Opens, Creditworthy
      <4>2. Cardinality(L') = Cardinality(L \ {l}) + 1
        BY <1>1, <3>1, FS_AddElement
      <4>3. Cardinality(L \ {l}) \in Nat /\ Cardinality(L \ {l}) =< Cardinality(L)
        BY <1>1
      <4> QED
        BY <1>0, <4>1, <4>2, <4>3
    <3>4. ASSUME PlainBorrower(m), DebtIsWithin(m) PROVE DebtIsWithin(m)'
      <4>1. \A k \in L : loans[k].amount >= 0
        BY <1>0, <3>4 DEF PlainBorrower
      <4>2. /\ AmountOf(loans', L \ {l}) \in Int
            /\ AmountOf(loans', L \ {l}) =< TotalBorrowedBy(m)
        BY <2>2, <4>1, OwesLess
      <4>3. TotalBorrowedBy(m)' = AmountOf(loans', L \ {l}) + offers[id].amount
        <5>1. IsFiniteSet(L')
          <6> DEFINE rest == L \ {l}
          <6>1. L' = rest \cup {l} /\ IsFiniteSet(rest)
            BY <1>1, <3>1
          <6> HIDE DEF rest
          <6>2. IsFiniteSet(rest \cup {l})
            BY <6>1, FS_AddElement
          <6> QED
            BY <6>1, <6>2
        <5>2. \A k \in L' : loans'[k].amount \in Int
          <6>1. \A k \in L : loans[k].amount \in Int
            BY BorrowedIsOwn
          <6> QED
            BY <2>2, <3>1, <3>2, <6>1
        <5> DEFINE N == L'
        <5>3. IsFiniteSet(N) /\ l \in N /\ \A k \in N : loans'[k].amount \in Int
          BY <3>1, <5>1, <5>2
        <5> HIDE DEF N
        <5>4. AmountOf(loans', N) = AmountOf(loans', N \ {l}) + loans'[l].amount
          BY <5>3, AmountSplit
        <5> QED
          BY <1>0, <3>1, <3>2, <5>4 DEF N
      <4>4. 100 * (TotalBorrowedBy(m) + offers[id].amount) =< MaxDebtToDeliveryPct * Delivered(m)
        BY <1>6, <2>4, <3>4, BorrowWithin
      <4>5. MaxDebtToDeliveryPct * Delivered(m) \in Int
        BY <3>4, DeliveredGrows, LedgerAssumption
      <4>6. /\ TotalBorrowedBy(m)' \in Int
            /\ 100 * TotalBorrowedBy(m)' =< MaxDebtToDeliveryPct * Delivered(m)
        BY <1>0, <3>2, <4>2, <4>3, <4>4, <4>5
      <4>7. 100 * TotalBorrowedBy(m)' =< MaxDebtToDeliveryPct * Delivered(m)'
        BY <3>4, <4>6, LimitHoldsOn
      <4> QED
        BY <4>7 DEF DebtIsWithin, Delivered
    <3> QED
      BY <3>3, <3>4
  <2> QED
    BY <2>3, <2>4
<1> HIDE DEF Count, Within, L
<1>7. Count /\ Within
  BY <1>4, <1>5, <1>6, LoanStep
<1> QED
  BY <1>7 DEF Count, Within

\* A maker within its limits stays within them, whatever it and others do, for
\* any limits, and however one of its loans replaces another.
THEOREM DebtsStayWithinDelivery == Spec => DebtWithinDelivery
<1>1. TypeOK /\ TypeOK' /\ [Next]_vars =>
        [\A m \in Makers :
           /\ ActiveLoansFor(m) =< MaxActiveLoans => ActiveLoansFor(m)' =< MaxActiveLoans
           /\ PlainBorrower(m) /\ DebtIsWithin(m) => DebtIsWithin(m)']_vars
  BY DebtLimitStep
<1> QED
  BY <1>1, TypeCorrect, PTL DEF Spec, DebtWithinDelivery

-----------------------------------------------------------------------------
(***************************************************************************)
(* Histories.  A record counts the loans its maker opened, repaid and      *)
(* defaulted on since the ledger started, those another replaced included; *)
(* a maker without a record has no loans.                                  *)
(***************************************************************************)
Start(m) == IF InitialReps[m] = None THEN NewReputation ELSE InitialReps[m]
Count(m, status) == Cardinality(LoansIn(m, status))

\* m's record counts all its loans.
Matches(m) ==
  /\ reputations[m].successfulRepays - Start(m).successfulRepays >= Count(m, "settled")
  /\ reputations[m].defaults - Start(m).defaults >= Count(m, "defaulted")
  /\ reputations[m].totalLoans - Start(m).totalLoans
       >= (reputations[m].successfulRepays - Start(m).successfulRepays)
            + (reputations[m].defaults - Start(m).defaults) + Count(m, "active")

\* The property, maker by maker.
LEMMA MatchesAll == HistoryMatchesLoans <=> \A m \in Makers : reputations[m] # None => Matches(m)
<1>1. \A m : ActiveLoansFor(m) = Count(m, "active")
  BY DEF ActiveLoansFor, ActiveLoans, Active, Count, LoansIn
<1> QED
  BY <1>1 DEF HistoryMatchesLoans, Matches, Count, Start, LoansIn

\* Counts are naturals.
LEMMA CountNat ==
  ASSUME NEW m, NEW status
  PROVE  /\ IsFiniteSet(LoansIn(m, status)) /\ Count(m, status) \in Nat
         /\ IsFiniteSet(LoansIn(m, status)') /\ Count(m, status)' \in Nat
         /\ LoansIn(m, status) = {} => Count(m, status) = 0
<1>1. LoansIn(m, status) \subseteq LoanIds /\ LoansIn(m, status)' \subseteq LoanIds
  BY DEF LoansIn
<1> QED
  BY <1>1, FS_Subset, FS_CardinalityType, FS_EmptySet, LedgerAssumption DEF Count

\* Of a set without one element there is no more than of the set.
LEMMA WithoutOne ==
  ASSUME NEW S, IsFiniteSet(S), NEW x
  PROVE  /\ Cardinality(S \ {x}) =< Cardinality(S)
         /\ Cardinality((S \ {x}) \cup {x}) =< Cardinality(S) + 1
<1> DEFINE rest == S \ {x}
<1>1. IsFiniteSet(rest) /\ rest \subseteq S /\ x \notin rest
  BY FS_Subset
<1> HIDE DEF rest
<1>2. Cardinality(rest) =< Cardinality(S) /\ Cardinality(rest) \in Nat /\ Cardinality(S) \in Nat
  BY <1>1, FS_Subset, FS_CardinalityType
<1>3. Cardinality(rest \cup {x}) = Cardinality(rest) + 1
  BY <1>1, FS_AddElement
<1> QED
  BY <1>2, <1>3 DEF rest

\* Opening a loan adds at most one to what its borrower has active, and takes
\* away the loan it replaces.
LEMMA CountOpens ==
  ASSUME TypeOK, NEW l \in LoanIds, NEW id \in OfferIds, NEW b \in Makers, Opens(l, id, b),
         NEW m \in Makers
  PROVE  /\ Count(m, "settled")' =< Count(m, "settled")
         /\ Count(m, "defaulted")' =< Count(m, "defaulted")
         /\ m = b => Count(m, "active")' =< Count(m, "active") + 1
         /\ m # b => Count(m, "active")' =< Count(m, "active")
<1>1. /\ LoansIn(m, "settled")' = LoansIn(m, "settled") \ {l}
      /\ LoansIn(m, "defaulted")' = LoansIn(m, "defaulted") \ {l}
      /\ m # b => LoansIn(m, "active")' = LoansIn(m, "active") \ {l}
      /\ m = b => LoansIn(m, "active")' = (LoansIn(m, "active") \ {l}) \cup {l}
  BY OpensSets DEF Statuses
<1>2. \A status : /\ Cardinality(LoansIn(m, status) \ {l}) =< Count(m, status)
                  /\ Cardinality((LoansIn(m, status) \ {l}) \cup {l}) =< Count(m, status) + 1
  BY CountNat, WithoutOne DEF Count
<1> QED
  BY <1>1, <1>2 DEF Count

\* Closing a loan moves it to what its borrower has repaid, or defaulted on.
LEMMA CountCloses ==
  ASSUME TypeOK, NEW l \in LoanIds, NEW s \in {"settled", "defaulted"}, Closes(l, s),
         NEW other \in {"settled", "defaulted"}, other # s
  PROVE  \A m \in Makers :
           /\ Count(m, other)' = Count(m, other)
           /\ m = loans[l].borrower => /\ Count(m, s)' = Count(m, s) + 1
                                       /\ Count(m, "active")' = Count(m, "active") - 1
           /\ m # loans[l].borrower => /\ Count(m, s)' = Count(m, s)
                                       /\ Count(m, "active")' = Count(m, "active")
<1> TAKE m \in Makers
<1>1. /\ LoansIn(m, other)' = LoansIn(m, other)
      /\ m = loans[l].borrower => /\ LoansIn(m, s)' = LoansIn(m, s) \cup {l}
                                  /\ LoansIn(m, "active")' = LoansIn(m, "active") \ {l}
      /\ m # loans[l].borrower => /\ LoansIn(m, s)' = LoansIn(m, s)
                                  /\ LoansIn(m, "active")' = LoansIn(m, "active")
      /\ l \notin LoansIn(m, s)
      /\ m = loans[l].borrower => l \in LoansIn(m, "active")
  BY ClosesSets DEF Statuses
<1>2. /\ IsFiniteSet(LoansIn(m, "active")) /\ IsFiniteSet(LoansIn(m, s))
  BY CountNat
<1>3. CASE m = loans[l].borrower
  <2>1. Cardinality(LoansIn(m, s) \cup {l}) = Cardinality(LoansIn(m, s)) + 1
    BY <1>1, <1>2, FS_AddElement
  <2>2. Cardinality(LoansIn(m, "active") \ {l}) = Cardinality(LoansIn(m, "active")) - 1
    BY <1>1, <1>2, <1>3, FS_RemoveElement
  <2> QED
    BY <1>1, <1>3, <2>1, <2>2 DEF Count
<1>4. CASE m # loans[l].borrower
  BY <1>1, <1>4 DEF Count
<1> QED
  BY <1>3, <1>4

KInv == /\ TypeOK /\ Recorded /\ HistoryMatchesLoans
        /\ \A m \in Makers : reputations[m] = None => InitialReps[m] = None

\* KInv is inductive.
LEMMA MatchesInductive == KInv /\ [Next]_vars => KInv'
<1> SUFFICES ASSUME KInv, [Next]_vars PROVE KInv'
  OBVIOUS
<1>0. TypeOK /\ TypeOK' /\ Recorded
  BY TypeInductive DEF KInv
<1>1. Recorded'
  BY <1>0, RecordedStep
<1>2. \A m \in Makers : reputations'[m] = None => InitialReps[m] = None
  BY <1>0, RecordsStay DEF KInv
<1>3. ASSUME NEW m \in Makers, reputations[m] # None
      PROVE  /\ Matches(m) /\ reputations[m] \in Reputations
             /\ reputations[m].successfulRepays \in Nat /\ reputations[m].defaults \in Nat
             /\ reputations[m].totalLoans \in Nat
  BY <1>0, <1>3, MatchesAll DEF KInv, TypeOK, Reputations
<1>4. ASSUME NEW m \in Makers
      PROVE  /\ Count(m, "active") \in Nat /\ Count(m, "settled") \in Nat
             /\ Count(m, "defaulted") \in Nat /\ Count(m, "active")' \in Nat
             /\ Count(m, "settled")' \in Nat /\ Count(m, "defaulted")' \in Nat
             /\ Start(m).successfulRepays \in Nat /\ Start(m).defaults \in Nat
             /\ Start(m).totalLoans \in Nat
  <2>1. Start(m) \in Reputations
    BY LendingAssumption DEF Start, NewReputation, Reputations
  <2> QED
    BY <2>1, CountNat DEF Reputations
\* A new loan is one more in the record, and one more active at most.
<1>5. ASSUME NEW l \in LoanIds, NEW id \in OfferIds, NEW m \in Makers, Borrow(l, id, m)
      PROVE  Matches(m)'
  <2>1. Opens(l, id, m)
    BY <1>0, <1>5, LoanStep
  <2>2. /\ Count(m, "settled")' =< Count(m, "settled")
        /\ Count(m, "defaulted")' =< Count(m, "defaulted")
        /\ Count(m, "active")' =< Count(m, "active") + 1
    BY <1>0, <2>1, CountOpens
  <2>3. reputations[m] # None
    BY <1>0, <1>5, RecordOpens
  <2>4. /\ reputations'[m].totalLoans = reputations[m].totalLoans + 1
        /\ reputations'[m].successfulRepays = reputations[m].successfulRepays
        /\ reputations'[m].defaults = reputations[m].defaults
    <3>1. reputations'[m] = Made(reputations[m])
      BY <1>0, <1>5, RecordOpens
    <3>2. reputations[m] \in Reputations /\ 0 \in Int
      BY <1>3, <2>3
    <3>3. /\ Made(reputations[m]).totalLoans = reputations[m].totalLoans + 1
          /\ Made(reputations[m]).successfulRepays = reputations[m].successfulRepays
          /\ Made(reputations[m]).defaults = reputations[m].defaults
      BY <3>2, CountersWritten, Zenon
    <3> QED
      BY <3>1, <3>3
  <2>5. Matches(m)
    BY <1>3, <2>3
  <2> QED
    BY <1>3, <1>4, <2>2, <2>3, <2>4, <2>5 DEF Matches
\* A loan repaid moves from active to settled, a loan written off to defaulted.
<1>6. ASSUME NEW l \in LoanIds, NEW m \in Makers, Repay(l), loans[l].borrower = m
      PROVE  Matches(m)'
  <2>1. Closes(l, "settled") /\ reputations[m] # None
    BY <1>0, <1>6, LoanStep DEF Recorded, Repay, Active
  <2>2. /\ Count(m, "settled")' = Count(m, "settled") + 1
        /\ Count(m, "defaulted")' = Count(m, "defaulted")
        /\ Count(m, "active")' = Count(m, "active") - 1
    BY <1>0, <1>6, <2>1, CountCloses
  <2>3. loans[l].amount \in Int
    BY <1>0, <1>6, Fields DEF Repay, Active
  <2>4. /\ reputations'[m].totalLoans = reputations[m].totalLoans
        /\ reputations'[m].successfulRepays = reputations[m].successfulRepays + 1
        /\ reputations'[m].defaults = reputations[m].defaults
    <3>1. reputations'[m] = Paid(reputations[m], loans[l].amount)
      BY <1>0, <1>6, <2>1, RecordCloses
    <3> DEFINE r == reputations[m]
               n == loans[l].amount
    <3>2. r \in Reputations /\ n \in Int
      BY <1>3, <2>1, <2>3
    <3>3. reputations'[m] = Paid(r, n)
      BY <3>1
    <3> HIDE DEF r, n
    <3>4. /\ Paid(r, n).totalLoans = r.totalLoans
          /\ Paid(r, n).successfulRepays = r.successfulRepays + 1
          /\ Paid(r, n).defaults = r.defaults
      BY <3>2, CountersWritten
    <3> QED
      BY <3>3, <3>4 DEF r
  <2> QED
    BY <1>3, <1>4, <2>1, <2>2, <2>4 DEF Matches
<1>7. ASSUME NEW l \in LoanIds, NEW m \in Makers, Default(l), loans[l].borrower = m
      PROVE  Matches(m)'
  <2>1. Closes(l, "defaulted") /\ reputations[m] # None
    BY <1>0, <1>7, LoanStep DEF Recorded, Default, Active
  <2>2. /\ Count(m, "settled")' = Count(m, "settled")
        /\ Count(m, "defaulted")' = Count(m, "defaulted") + 1
        /\ Count(m, "active")' = Count(m, "active") - 1
    BY <1>0, <1>7, <2>1, CountCloses
  <2>3. loans[l].amount \in Int
    BY <1>0, <1>7, Fields DEF Default, Active
  <2>4. /\ reputations'[m].totalLoans = reputations[m].totalLoans
        /\ reputations'[m].successfulRepays = reputations[m].successfulRepays
        /\ reputations'[m].defaults = reputations[m].defaults + 1
    <3>1. reputations'[m] = Failed(reputations[m], loans[l].amount)
      BY <1>0, <1>7, <2>1, RecordCloses
    <3> DEFINE r == reputations[m]
               n == loans[l].amount
    <3>2. r \in Reputations /\ n \in Int
      BY <1>3, <2>1, <2>3
    <3>3. reputations'[m] = Failed(r, n)
      BY <3>1
    <3> HIDE DEF r, n
    <3>4. /\ Failed(r, n).totalLoans = r.totalLoans
          /\ Failed(r, n).successfulRepays = r.successfulRepays
          /\ Failed(r, n).defaults = r.defaults + 1
      BY <3>2, CountersWritten
    <3> QED
      BY <3>3, <3>4 DEF r
  <2> QED
    BY <1>3, <1>4, <2>1, <2>2, <2>4 DEF Matches
\* Every other step leaves the record and the loans of m alone, or starts a
\* record for a maker without loans.
<1>8. ASSUME NEW m \in Makers, reputations'[m] # None,
             \A l \in LoanIds, id \in OfferIds : ~ Borrow(l, id, m),
             \A l \in LoanIds : Repay(l) \/ Default(l) => loans[l].borrower # m
      PROVE  Matches(m)'
  <2>1. /\ Count(m, "settled")' =< Count(m, "settled")
        /\ Count(m, "defaulted")' =< Count(m, "defaulted")
        /\ Count(m, "active")' =< Count(m, "active")
    <3>1. CASE loans' = loans
      <4>1. \A status : LoansIn(m, status)' = LoansIn(m, status)
        BY <3>1 DEF LoansIn
      <4>2. \A status : Count(m, status)' = Count(m, status)
        BY <4>1 DEF Count
      <4> QED
        BY <1>4, <4>2
    <3>2. ASSUME NEW l \in LoanIds, NEW id \in OfferIds, NEW b \in Makers, Opens(l, id, b)
          PROVE  /\ Count(m, "settled")' =< Count(m, "settled")
                 /\ Count(m, "defaulted")' =< Count(m, "defaulted")
                 /\ Count(m, "active")' =< Count(m, "active")
      <4>1. b # m
        BY <1>8, <3>2 DEF Opens
      <4> QED
        BY <1>0, <3>2, <4>1, CountOpens
    <3>3. ASSUME NEW l \in LoanIds, NEW s \in {"settled", "defaulted"}, Closes(l, s)
          PROVE  /\ Count(m, "settled")' =< Count(m, "settled")
                 /\ Count(m, "defaulted")' =< Count(m, "defaulted")
                 /\ Count(m, "active")' =< Count(m, "active")
      <4>1. m # loans[l].borrower
        BY <1>8, <3>3 DEF Closes
      <4>2. PICK other \in {"settled", "defaulted"} : other # s
        OBVIOUS
      <4>3. /\ Count(m, other)' = Count(m, other) /\ Count(m, s)' = Count(m, s)
            /\ Count(m, "active")' = Count(m, "active")
        BY <1>0, <3>3, <4>1, <4>2, CountCloses
      <4> QED
        BY <1>4, <4>2, <4>3
    <3> QED
      BY <1>0, <3>1, <3>2, <3>3, LoanStep
  <2>2. CASE reputations[m] # None
    <3>1. SameCounts(reputations[m], reputations'[m])
      BY <1>0, <1>8, <2>2, RecordSame
    <3> QED
      BY <1>3, <1>4, <2>1, <2>2, <3>1 DEF Matches, SameCounts
  <2>3. CASE reputations[m] = None
    <3>1. reputations'[m] = NewReputation
      BY <1>0, <1>8, <2>3, RecordSame
    <3>2. Start(m) = NewReputation
      BY <2>3 DEF KInv, Start
    <3>3. \A status \in {"settled", "defaulted", "active"} : LoansIn(m, status) = {}
      BY <1>0, <2>3 DEF Recorded, LoansIn
    <3>4. Count(m, "settled") = 0 /\ Count(m, "defaulted") = 0 /\ Count(m, "active") = 0
      BY <3>3, CountNat
    <3> QED
      BY <1>4, <2>1, <3>1, <3>2, <3>4 DEF Matches, NewReputation
  <2> QED
    BY <2>2, <2>3
<1>9. ASSUME NEW m \in Makers, reputations'[m] # None PROVE Matches(m)'
  BY <1>5, <1>6, <1>7, <1>8, <1>9
<1>10. HistoryMatchesLoans'
  <2>1. \A m : ActiveLoansFor(m)' = Count(m, "active")'
    <3> TAKE m
    <3>1. ActiveLoans(m)' = LoansIn(m, "active")'
      BY DEF ActiveLoans, Active, LoansIn
    <3> QED
      BY <3>1 DEF ActiveLoansFor, Count
  <2> QED
    BY <1>9, <2>1 DEF HistoryMatchesLoans, Matches, Count, Start, LoansIn
<1> QED
  BY <1>0, <1>1, <1>2, <1>10 DEF KInv

\* Every loan is counted in its borrower's history and leaves it at most once,
\* repaid or defaulted, for any makers and any history they start with.
THEOREM HistoriesMatchLoans == Spec => []HistoryMatchesLoans
<1>1. Init => KInv
  <2> SUFFICES ASSUME Init PROVE KInv
    OBVIOUS
  <2>1. TypeOK
    BY LendingAssumption DEF Init, TypeOK
  <2>2. /\ \A l \in LoanIds : loans[l] = None
        /\ reputations = InitialReps
    BY DEF Init
  <2>3. ASSUME NEW m \in Makers, reputations[m] # None PROVE Matches(m)
    <3>1. Start(m) = reputations[m] /\ reputations[m] \in Reputations
      BY <2>1, <2>2, <2>3 DEF Start, TypeOK
    <3>2. \A status : LoansIn(m, status) = {}
      BY <2>2 DEF LoansIn
    <3>3. Count(m, "settled") = 0 /\ Count(m, "defaulted") = 0 /\ Count(m, "active") = 0
      BY <3>2, CountNat
    <3> QED
      BY <3>1, <3>3 DEF Matches, Reputations
  <2>4. HistoryMatchesLoans
    BY <2>3, MatchesAll
  <2> QED
    BY <2>1, <2>2, <2>4 DEF KInv, Recorded
<1>2. KInv => HistoryMatchesLoans
  BY DEF KInv
<1> QED
  BY <1>1, <1>2, MatchesInductive, PTL DEF Spec


-----------------------------------------------------------------------------
(***************************************************************************)
(* Overdrafts.  Lend and Repay look at the balance they take from, and the *)
(* other methods give; only a negative amount turns giving into taking.    *)
(***************************************************************************)

\* What puts a balance below zero, method by method.
LEMMA OverdraftStep ==
  ASSUME TypeOK, TypeOK', [Next]_vars, NEW m \in Makers, balances[m] >= 0, balances'[m] < 0
  PROVE  \/ \E o \in OpenOffers : offers[o].amount < 0 /\ offers'[o].status # "available"
         \/ \E l \in LoanIds : Active(l) /\ loans[l].repayAmount < 0
                                 /\ loans'[l].status = "settled"
<1> DEFINE Taken == \/ \E o \in OpenOffers : /\ offers[o].amount < 0
                                             /\ offers'[o].status # "available"
                    \/ \E l \in LoanIds : /\ Active(l) /\ loans[l].repayAmount < 0
                                          /\ loans'[l].status = "settled"
<1>0. /\ balances \in [Makers -> Int] /\ balances' \in [Makers -> Int]
      /\ balances[m] \in Int /\ balances'[m] \in Int
  BY DEF TypeOK
<1>1. ASSUME NEW k \in Makers, NEW amount \in Deposits, Deposit(k, amount) PROVE Taken
  <2>1. amount >= 0 /\ balances' = [balances EXCEPT ![k] = amount]
    BY <1>1, LendingAssumption DEF Deposit, SetBalance
  <2> QED
    BY <1>0, <2>1
<1>2. ASSUME NEW id \in OfferIds, NEW k \in Makers, NEW amount \in Amounts,
             NEW minRep \in MinReputations, NEW pct \in Interests,
             MakeOffer(id, k, amount, minRep, pct)
      PROVE  Taken
  <2>1. amount \in Int /\ minRep \in Int /\ pct \in Int /\ MinBalanceAfterLend \in Nat
    BY LedgerAssumption, LendingAssumption
  <2>2. /\ balances' = [balances EXCEPT ![k] = @ - amount]
        /\ balances[k] - amount >= MinBalanceAfterLend
    BY <1>2, <2>1, LendWrites DEF MakeOffer
  <2> QED
    BY <1>0, <2>1, <2>2
<1>3. ASSUME NEW id \in OfferIds, NEW k \in Makers, Available(id), offers[id].amount \in Int,
             balances' = [balances EXCEPT ![k] = @ + offers[id].amount],
             offers'[id].status # "available"
      PROVE  Taken
  <2>1. offers[id].amount < 0
    BY <1>0, <1>3
  <2> QED
    BY <1>3, <2>1 DEF OpenOffers
<1>4. ASSUME NEW id \in OfferIds, NEW k \in Makers, CancelOffer(id, k) PROVE Taken
  <2>1. /\ Available(id) /\ offers[id].amount \in Int /\ offers'[id].status # "available"
        /\ balances' = [balances EXCEPT ![k] = @ + offers[id].amount]
    BY <1>4, CancelWrites
  <2> HIDE DEF Taken
  <2> QED
    BY <1>3, <2>1
<1>5. ASSUME NEW l \in LoanIds, NEW id \in OfferIds, NEW k \in Makers, TakeOffer(l, id, k)
      PROVE  Taken
  <2>1. Borrow(l, id, k)
    BY <1>5 DEF TakeOffer
  <2>2. /\ Available(id) /\ offers[id].amount \in Int
        /\ balances' = [balances EXCEPT ![k] = @ + offers[id].amount]
    BY <2>1, BorrowWrites
  <2>3. offers'[id].status # "available"
    BY <2>1, BorrowClaims
  <2> HIDE DEF Taken
  <2> QED
    BY <1>3, <2>2, <2>3
\* A borrower has what it repays, and may be its own lender.
<1>6. ASSUME NEW l \in LoanIds, Repay(l) PROVE Taken
  <2> DEFINE b == loans[l].borrower
             k == loans[l].lender
             n == loans[l].repayAmount
             paid == [balances EXCEPT ![b] = @ - n]
  <2>1. Active(l) /\ balances[b] >= n /\ loans' = [loans EXCEPT ![l].status = "settled"]
    BY <1>6 DEF Repay
  <2>2. b \in Makers /\ k \in Makers /\ n \in Int
    BY <2>1, Fields DEF Active
  <2>3. paid \in [Makers -> Int] /\ balances' = [paid EXCEPT ![k] = @ + n]
    BY <1>6, RepayMoves
  <2>4. /\ paid[m] = IF m = b THEN balances[m] - n ELSE balances[m]
        /\ balances'[m] = IF m = k THEN paid[m] + n ELSE paid[m]
    BY <1>0, <2>3
  <2>5. loans'[l].status = "settled"
    BY <2>1, EndWrites
  <2> HIDE DEF paid
  <2>6. n < 0
    <3> HIDE DEF b, k, n
    <3> QED
      BY <1>0, <2>1, <2>2, <2>3, <2>4
  <2> QED
    BY <2>1, <2>5, <2>6
<1>7. ASSUME \/ \E k \in Makers : RegisterMaker(k)
             \/ \E l \in LoanIds : Default(l)
             \/ DaysPass
             \/ UNCHANGED vars
      PROVE  Taken
  <2>1. balances' = balances
    BY <1>7 DEF RegisterMaker, Default, DaysPass, vars
  <2> HIDE DEF Taken
  <2> QED
    BY <1>0, <2>1
<1> HIDE DEF Taken
<1>8. Taken
  BY <1>1, <1>2, <1>4, <1>5, <1>6, <1>7 DEF Next, Other
<1> QED
  BY <1>8 DEF Taken

\* Only a negative amount overdraws a balance, whatever clients send and
\* whatever replaces what.
THEOREM OverdraftsNeedNegatives == Spec => OverdraftsOnlyByNegatives
<1>1. TypeOK /\ TypeOK' /\ [Next]_vars =>
        [\A m \in Makers : balances[m] >= 0 /\ balances'[m] < 0 =>
           \/ \E o \in OpenOffers : offers[o].amount < 0 /\ offers'[o].status # "available"
           \/ \E l \in LoanIds : Active(l) /\ loans[l].repayAmount < 0
                                   /\ loans'[l].status = "settled"]_vars
  BY OverdraftStep
<1> QED
  BY <1>1, TypeCorrect, PTL DEF Spec, OverdraftsOnlyByNegatives

-----------------------------------------------------------------------------
(***************************************************************************)
(* What a default costs.  The score loses the amount defaulted on, unless  *)
(* that is negative, and the number of loans it is divided by stays, so no *)
(* threshold is reached that was not reached before.                       *)
(***************************************************************************)

\* The two terms of a score are integers.
LEMMA CreditInt ==
  ASSUME NEW r \in Reputations
  PROVE  /\ r.successfulRepays * AtMost(10000, r.totalDelivered) * AtMost(90, r.age) \in Int
         /\ r.penalty * r.totalLoans * 90 \in Int
<1>1. /\ r.totalLoans \in Int /\ r.successfulRepays \in Int /\ r.penalty \in Int
      /\ AtMost(10000, r.totalDelivered) \in Int /\ AtMost(90, r.age) \in Int
  BY DEF Reputations, AtMost
<1>2. \A a, b \in Int : a * b \in Int
  OBVIOUS
<1>3. r.successfulRepays * AtMost(10000, r.totalDelivered) \in Int
  BY <1>1, <1>2
<1>4. r.penalty * r.totalLoans \in Int
  BY <1>1, <1>2
<1> QED
  BY <1>1, <1>2, <1>3, <1>4

\* A score is not negative.
LEMMA ScoreNumNat ==
  ASSUME NEW r \in Reputations PROVE ScoreNum(r) \in Nat
<1> DEFINE credit == r.successfulRepays * AtMost(10000, r.totalDelivered) * AtMost(90, r.age)
           loss == r.penalty * r.totalLoans * 90
<1>1. credit \in Int /\ loss \in Int
  BY CreditInt
<1>2. ScoreNum(r) = IF credit - loss < 0 THEN 0 ELSE credit - loss
  BY DEF ScoreNum
<1> HIDE DEF credit, loss
<1> QED
  BY <1>1, <1>2

\* Scores that reach a threshold reach the ones below it,
LEMMA ThresholdsNested ==
  ASSUME NEW r \in Reputations, NEW s \in Nat \ {0}, NEW t \in Nat \ {0}, s =< t,
         ScoreAtLeast(r, t)
  PROVE  ScoreAtLeast(r, s)
<1> DEFINE base == r.totalLoans * ScoreUnit
<1>1. r.totalLoans \in Nat /\ r.totalLoans # 0
  BY DEF Reputations, ScoreAtLeast
<1>2. base \in Nat
  BY <1>1 DEF ScoreUnit
<1>3. s * r.totalLoans * ScoreUnit = base * s /\ t * r.totalLoans * ScoreUnit = base * t
  BY <1>1 DEF ScoreUnit
<1>4. base * s =< base * t /\ base * s \in Int /\ base * t \in Int
  <2> HIDE DEF base
  <2> QED
    BY <1>2, ShareMonotone
<1>5. ScoreNum(r) \in Int
  BY ScoreNumNat
<1>6. 10 * ScoreNum(r) >= base * t
  BY <1>1, <1>3 DEF ScoreAtLeast
<1> HIDE DEF base
<1>7. 10 * ScoreNum(r) >= base * s
  BY <1>4, <1>5, <1>6
<1> QED
  BY <1>1, <1>3, <1>7 DEF ScoreAtLeast

\* so what a maker may borrow follows from the thresholds it reaches.
LEMMA LimitByThreshold ==
  ASSUME NEW r \in Reputations
  PROVE  MaxBorrow(r) = IF ScoreAtLeast(r, 9) THEN 50000 ELSE
                        IF ScoreAtLeast(r, 7) THEN 10000 ELSE
                        IF ScoreAtLeast(r, 5) THEN 2000 ELSE
                        IF ScoreAtLeast(r, 3) THEN 500 ELSE 0
<1>1. /\ ScoreAtLeast(r, 9) => ScoreAtLeast(r, 7)
      /\ ScoreAtLeast(r, 7) => ScoreAtLeast(r, 5)
      /\ ScoreAtLeast(r, 5) => ScoreAtLeast(r, 3)
  BY ThresholdsNested
<1> QED
  BY <1>1 DEF MaxBorrow

\* A default leaves every threshold the maker does not reach out of reach.
LEMMA DefaultLowersScore ==
  ASSUME NEW r \in Reputations, NEW n \in Nat, NEW f, f = Failed(r, n)
  PROVE  MaxBorrow(f) =< MaxBorrow(r)
<1>1. /\ f \in Reputations
      /\ f.totalLoans = r.totalLoans /\ f.successfulRepays = r.successfulRepays
      /\ f.totalDelivered = r.totalDelivered /\ f.age = r.age
      /\ f.penalty = r.penalty + n
      /\ r.totalLoans \in Nat /\ r.penalty \in Int
  <2>1. /\ r.totalLoans \in Nat /\ r.penalty \in Int
    BY DEF Reputations
  <2>2. n \in Int
    OBVIOUS
  <2> QED
    BY <2>1, <2>2, CountersWritten
<1>2. ScoreNum(f) =< ScoreNum(r)
  <2> DEFINE credit == r.successfulRepays * AtMost(10000, r.totalDelivered) * AtMost(90, r.age)
             loss == r.penalty * r.totalLoans * 90
             more == (r.penalty + n) * r.totalLoans * 90
  <2>1. ScoreNum(r) = IF credit - loss < 0 THEN 0 ELSE credit - loss
    BY DEF ScoreNum
  <2>2. ScoreNum(f) = IF credit - more < 0 THEN 0 ELSE credit - more
    BY <1>1 DEF ScoreNum
  <2>3. credit \in Int
    BY CreditInt
  <2>4. loss \in Int /\ more \in Int /\ loss =< more
    <3> DEFINE k == r.totalLoans
               p == r.penalty
    <3>1. k \in Nat /\ p \in Int
      BY <1>1
    <3> HIDE DEF k, p
    <3>2. (p + n) * k = p * k + n * k
      BY <3>1
    <3>3. p * k \in Int /\ n * k \in Nat
      BY <3>1
    <3>4. /\ p * k * 90 \in Int /\ (p + n) * k * 90 \in Int
          /\ p * k * 90 =< (p + n) * k * 90
      BY <3>2, <3>3
    <3> QED
      BY <3>4 DEF k, p
  <2> HIDE DEF credit, loss, more
  <2> QED
    BY <2>1, <2>2, <2>3, <2>4
<1>3. \A t \in Nat \ {0} : ScoreAtLeast(f, t) => ScoreAtLeast(r, t)
  <2> SUFFICES ASSUME NEW t \in Nat \ {0}, ScoreAtLeast(f, t) PROVE ScoreAtLeast(r, t)
    OBVIOUS
  <2> DEFINE x == t * r.totalLoans * ScoreUnit
  <2>1. r.totalLoans # 0 /\ 10 * ScoreNum(f) >= x
    BY <1>1 DEF ScoreAtLeast
  <2>2. x \in Int
    <3>1. t * r.totalLoans \in Int
      BY <1>1
    <3> QED
      BY <3>1 DEF ScoreUnit
  <2>3. ScoreNum(f) \in Int /\ ScoreNum(r) \in Int
    BY <1>1, ScoreNumNat
  <2> HIDE DEF x
  <2>4. 10 * ScoreNum(r) >= x
    BY <1>2, <2>1, <2>2, <2>3
  <2> QED
    BY <2>1, <2>4 DEF ScoreAtLeast, x
<1>4. /\ ScoreAtLeast(f, 9) => ScoreAtLeast(r, 9)
      /\ ScoreAtLeast(f, 7) => ScoreAtLeast(r, 7)
      /\ ScoreAtLeast(f, 5) => ScoreAtLeast(r, 5)
      /\ ScoreAtLeast(f, 3) => ScoreAtLeast(r, 3)
  BY <1>3
<1>5. /\ ScoreAtLeast(r, 9) => ScoreAtLeast(r, 7)
      /\ ScoreAtLeast(r, 7) => ScoreAtLeast(r, 5)
      /\ ScoreAtLeast(r, 5) => ScoreAtLeast(r, 3)
  BY ThresholdsNested
<1> QED
  BY <1>1, <1>4, <1>5, LimitByThreshold
\* To default on a loan that is not of a negative amount never lets anyone
\* borrow more, whatever the history.
THEOREM DefaultsNeverHelp == Spec => DefaultsOnlyHurt
<1>1. TypeOK /\ TypeOK' /\ [Next]_vars =>
        [\A l \in LoanIds :
           Active(l) /\ loans[l].amount >= 0 /\ loans'[l].status = "defaulted" =>
             LET m == loans[l].borrower
             IN  reputations[m] # None
                   => MaxBorrow(reputations'[m]) =< MaxBorrow(reputations[m])]_vars
  <2> SUFFICES ASSUME TypeOK, TypeOK', [Next]_vars, NEW l \in LoanIds,
                      Active(l), loans[l].amount >= 0, loans'[l].status = "defaulted",
                      NEW m \in Makers, m = loans[l].borrower, reputations[m] # None
               PROVE  MaxBorrow(reputations'[m]) =< MaxBorrow(reputations[m])
    BY Fields DEF Active
  <2>1. Closes(l, "defaulted")
    <3>1. loans[l].status = "active"
      BY DEF Active
    <3>2. loans' # loans
      BY <3>1
    <3>3. \A k \in LoanIds, id \in OfferIds, b \in Makers : ~ Opens(k, id, b)
      BY <3>1 DEF Opens
    <3>4. \A k \in LoanIds, s \in {"settled", "defaulted"} :
            Closes(k, s) => k = l /\ s = "defaulted"
      BY <3>1 DEF Closes
    <3> QED
      BY <3>2, <3>3, <3>4, LoanStep
  <2>2. Default(l) /\ loans[l].amount \in Int
    BY <2>1 DEF Closes
  <2>3. reputations'[m] = Failed(reputations[m], loans[l].amount)
    BY <2>2, RecordCloses
  <2>4. reputations[m] \in Reputations /\ loans[l].amount \in Nat
    BY <2>2, RecordsStay
  <2> QED
    BY <2>3, <2>4, DefaultLowersScore
<1> QED
  BY <1>1, TypeCorrect, PTL DEF Spec, DefaultsOnlyHurt
=============================================================================
