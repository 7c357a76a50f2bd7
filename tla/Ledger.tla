------------------------------- MODULE Ledger -------------------------------
(***************************************************************************)
(* The methods of the lending ledger (internal/lending/lending.go): offers,*)
(* loans, reputations and balances in memory.  Every method holds the      *)
(* ledger's mutex from its first check to its last write, so a method is   *)
(* one step.  Ids, amounts and rates are the client's (main.go 426-466):   *)
(* any of them may be in use, or negative.                                 *)
(*                                                                         *)
(* Scores are compared exactly: a score is a fraction whose denominator    *)
(* is TotalLoans * ScoreUnit, thresholds are in tenths, ages in days.      *)
(* Amounts are integers without a width.                                   *)
(***************************************************************************)
EXTENDS Integers, FiniteSets, Functions

CONSTANTS
  Makers, OfferIds, LoanIds,
  MaxDebtToDeliveryPct, MaxActiveLoans, MaxNetworkDebtPct, MinBalanceAfterLend,
  DayStep,          \* days that pass at a time
  MaxAge,           \* bound on the age of a registration
  None              \* no offer, no loan, no reputation record

Offers == [lender : Makers, amount : Int, minReputation : Int, interestPct : Int,
           status : {"available", "claimed", "cancelled"}]
Loans == [offer : OfferIds, lender : Makers, borrower : Makers, amount : Int,
          repayAmount : Int, status : {"active", "settled", "defaulted"}]
Reputations == [totalLoans : Nat, successfulRepays : Nat, defaults : Nat,
                totalDelivered : Int, penalty : Int, age : Nat]

ASSUME LedgerAssumption ==
  /\ IsFiniteSet(Makers) /\ IsFiniteSet(OfferIds) /\ IsFiniteSet(LoanIds)
  /\ MaxActiveLoans \in Nat /\ MinBalanceAfterLend \in Nat
  /\ MaxDebtToDeliveryPct \in Nat /\ MaxNetworkDebtPct \in Nat
  /\ DayStep \in Nat /\ MaxAge \in Nat
  /\ None \notin Offers \cup Loans \cup Reputations

VARIABLES
  offers,       \* id -> offer, None if there is none
  loans,        \* id -> loan, None if there is none
  reputations,  \* maker -> record, None if not registered
  balances      \* maker -> tokens, 0 if never set

-----------------------------------------------------------------------------
AtMost(cap, n) == IF n < cap THEN n ELSE cap

\* ComputeScore = ScoreNum / (TotalLoans * ScoreUnit), and 0 without loans.
\* penalty is in 1/10000: the sum of the amounts defaulted on.
ScoreUnit == 10000 * 90
\* A bug: defaults add to the score.
ScoreNumRewarding(r) ==
  r.successfulRepays * AtMost(10000, r.totalDelivered) * AtMost(90, r.age)
    + r.penalty * r.totalLoans * 90

ScoreNum(r) ==
  LET n == r.successfulRepays * AtMost(10000, r.totalDelivered) * AtMost(90, r.age)
             - r.penalty * r.totalLoans * 90
  IN  IF n < 0 THEN 0 ELSE n

\* A bug: no loans, no blemish.
ScoreAtLeastTrusting(r, tenths) ==
  r.totalLoans = 0 \/ 10 * ScoreNum(r) >= tenths * r.totalLoans * ScoreUnit

ScoreAtLeast(r, tenths) ==
  IF r.totalLoans = 0 THEN tenths =< 0
                      ELSE 10 * ScoreNum(r) >= tenths * r.totalLoans * ScoreUnit

MaxBorrow(r) == CASE ~ ScoreAtLeast(r, 3) -> 0
                  [] ScoreAtLeast(r, 3) /\ ~ ScoreAtLeast(r, 5) -> 500
                  [] ScoreAtLeast(r, 5) /\ ~ ScoreAtLeast(r, 7) -> 2000
                  [] ScoreAtLeast(r, 7) /\ ~ ScoreAtLeast(r, 9) -> 10000
                  [] ScoreAtLeast(r, 9) -> 50000

\* "grace" is a status the code tests for and never sets.
Active(l) == loans[l] # None /\ loans[l].status = "active"
Available(o) == offers[o] # None /\ offers[o].status = "available"

ActiveLoans(m) == {l \in LoanIds : Active(l) /\ loans[l].borrower = m}
ActiveLoansFor(m) == Cardinality(ActiveLoans(m))
TotalBorrowedBy(m) == SumFunction([l \in ActiveLoans(m) |-> loans[l].amount])
TotalOutstandingDebt ==
  SumFunction([l \in {k \in LoanIds : Active(k)} |-> loans[l].amount])
TotalNetworkTokens == SumFunction(balances)

-----------------------------------------------------------------------------
NewReputation == [totalLoans |-> 0, successfulRepays |-> 0, defaults |-> 0,
                  totalDelivered |-> 0, penalty |-> 0, age |-> 0]

RegisterMaker(m) ==
  /\ reputations[m] = None
  /\ reputations' = [reputations EXCEPT ![m] = NewReputation]
  /\ UNCHANGED <<offers, loans, balances>>

\* HQ's balance replaces the ledger's.
SetBalance(m, amount) ==
  /\ balances' = [balances EXCEPT ![m] = amount]
  /\ UNCHANGED <<offers, loans, reputations>>

\* A bug: a maker in debt may lend.
LendLeveraged(id, lender, amount, minRep, interest) ==
  /\ balances[lender] - amount >= MinBalanceAfterLend
  /\ offers' = [offers EXCEPT ![id] =
       [lender |-> lender, amount |-> amount, minReputation |-> minRep,
        interestPct |-> interest, status |-> "available"]]
  /\ balances' = [balances EXCEPT ![lender] = @ - amount]
  /\ UNCHANGED <<loans, reputations>>

\* A bug: the lender need not have what it offers.
LendUnbacked(id, lender, amount, minRep, interest) ==
  /\ ActiveLoans(lender) = {}
  /\ offers' = [offers EXCEPT ![id] =
       [lender |-> lender, amount |-> amount, minReputation |-> minRep,
        interestPct |-> interest, status |-> "available"]]
  /\ balances' = [balances EXCEPT ![lender] = @ - amount]
  /\ UNCHANGED <<loans, reputations>>

\* An offer under an id in use replaces the one that is there, whoever made
\* that and whatever became of it.
Lend(id, lender, amount, minRep, interest) ==
  /\ balances[lender] >= amount
  /\ balances[lender] - amount >= MinBalanceAfterLend
  /\ ActiveLoans(lender) = {}
  /\ offers' = [offers EXCEPT ![id] =
       [lender |-> lender, amount |-> amount, minReputation |-> minRep,
        interestPct |-> interest, status |-> "available"]]
  /\ balances' = [balances EXCEPT ![lender] = @ - amount]
  /\ UNCHANGED <<loans, reputations>>

\* A bug: the tokens do not come back.
CancelOfferKeeping(id, lender) ==
  /\ Available(id)
  /\ offers[id].lender = lender
  /\ offers' = [offers EXCEPT ![id].status = "cancelled"]
  /\ UNCHANGED <<loans, reputations, balances>>

CancelOffer(id, lender) ==
  /\ Available(id)
  /\ offers[id].lender = lender
  /\ offers' = [offers EXCEPT ![id].status = "cancelled"]
  /\ balances' = [balances EXCEPT ![lender] = @ + offers[id].amount]
  /\ UNCHANGED <<loans, reputations>>

\* A bug: the debt limit forgets the loans the maker has.
CreditworthyOnce(m, offer) ==
  LET r == reputations[m]
  IN  /\ r # None
      /\ ScoreAtLeast(r, offer.minReputation)
      /\ offer.amount =< MaxBorrow(r)
      /\ ActiveLoansFor(m) < MaxActiveLoans
      /\ r.totalDelivered > 0 =>
           100 * offer.amount =< MaxDebtToDeliveryPct * r.totalDelivered

Creditworthy(m, offer) ==
  LET r == reputations[m]
  IN  /\ r # None
      /\ ScoreAtLeast(r, offer.minReputation)
      /\ offer.amount =< MaxBorrow(r)
      /\ ActiveLoansFor(m) < MaxActiveLoans
      /\ r.totalDelivered > 0 =>
           100 * (TotalBorrowedBy(m) + offer.amount)
             =< MaxDebtToDeliveryPct * r.totalDelivered

\* A bug: a loan is judged by itself, against the tokens it adds to.
NetworkCanBearOne(amount) ==
  100 * amount =< MaxNetworkDebtPct * (TotalNetworkTokens + 10 * amount)

NetworkCanBear(amount) ==
  TotalNetworkTokens > 0 =>
    100 * (TotalOutstandingDebt + amount) =< MaxNetworkDebtPct * TotalNetworkTokens

\* What a loan costs: a percentage of it, cut off to a whole number.
Interest(amount, pct) == LET p == amount * pct
                         IN  IF p >= 0 THEN p \div 100 ELSE -((-p) \div 100)

NewLoan(id, borrower) ==
  LET offer == offers[id]
  IN  [offer |-> id, lender |-> offer.lender, borrower |-> borrower, amount |-> offer.amount,
       repayAmount |-> offer.amount + Interest(offer.amount, offer.interestPct),
       status |-> "active"]

\* A bug: the offer stays available.
BorrowUnclaimed(loanId, id, borrower) ==
  /\ Available(id)
  /\ offers[id].lender # borrower
  /\ Creditworthy(borrower, offers[id])
  /\ NetworkCanBear(offers[id].amount)
  /\ \A o \in OfferIds : Available(o) => offers[o].lender # borrower
  /\ loans' = [loans EXCEPT ![loanId] = NewLoan(id, borrower)]
  /\ balances' = [balances EXCEPT ![borrower] = @ + offers[id].amount]
  /\ reputations' = [reputations EXCEPT ![borrower].totalLoans = @ + 1]
  /\ UNCHANGED offers

\* A loan under an id in use replaces the one that is there, too.
Borrow(loanId, id, borrower) ==
  /\ Available(id)
  /\ offers[id].lender # borrower
  /\ Creditworthy(borrower, offers[id])
  /\ NetworkCanBear(offers[id].amount)
  /\ \A o \in OfferIds : Available(o) => offers[o].lender # borrower
  /\ loans' = [loans EXCEPT ![loanId] = NewLoan(id, borrower)]
  /\ offers' = [offers EXCEPT ![id].status = "claimed"]
  /\ balances' = [balances EXCEPT ![borrower] = @ + offers[id].amount]
  /\ reputations' = [reputations EXCEPT ![borrower].totalLoans = @ + 1]

\* A borrower without a reputation record keeps none.
UpdateReputation(m, r) ==
  reputations' = IF reputations[m] = None THEN reputations
                                          ELSE [reputations EXCEPT ![m] = r]

\* A bug: a settled loan is repaid again.
RepayAgain(l) ==
  LET loan == loans[l]
      r    == reputations[loan.borrower]
      paid == [balances EXCEPT ![loan.borrower] = @ - loan.repayAmount]
  IN  /\ loans[l] # None
      /\ balances[loan.borrower] >= loan.repayAmount
      /\ balances' = [paid EXCEPT ![loan.lender] = @ + loan.repayAmount]
      /\ loans' = [loans EXCEPT ![l].status = "settled"]
      /\ UpdateReputation(loan.borrower,
           [r EXCEPT !.successfulRepays = @ + 1, !.totalDelivered = @ + loan.amount])
      /\ UNCHANGED offers

Repay(l) ==
  LET loan == loans[l]
      r    == reputations[loan.borrower]
      paid == [balances EXCEPT ![loan.borrower] = @ - loan.repayAmount]
  IN  /\ Active(l)
      /\ balances[loan.borrower] >= loan.repayAmount
      /\ balances' = [paid EXCEPT ![loan.lender] = @ + loan.repayAmount]
      /\ loans' = [loans EXCEPT ![l].status = "settled"]
      /\ UpdateReputation(loan.borrower,
           [r EXCEPT !.successfulRepays = @ + 1, !.totalDelivered = @ + loan.amount])
      /\ UNCHANGED offers

Default(l) ==
  LET loan == loans[l]
      r    == reputations[loan.borrower]
  IN  /\ Active(l)
      /\ loans' = [loans EXCEPT ![l].status = "defaulted"]
      /\ UpdateReputation(loan.borrower,
           [r EXCEPT !.defaults = @ + 1, !.penalty = @ + loan.amount])
      /\ UNCHANGED <<offers, balances>>

\* Registrations grow older.
DaysPass ==
  /\ \E m \in Makers : reputations[m] # None /\ reputations[m].age + DayStep =< MaxAge
  /\ reputations' = [m \in Makers |->
       IF reputations[m] # None /\ reputations[m].age + DayStep =< MaxAge
       THEN [reputations[m] EXCEPT !.age = @ + DayStep] ELSE reputations[m]]
  /\ UNCHANGED <<offers, loans, balances>>
=============================================================================
