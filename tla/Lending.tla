------------------------------ MODULE Lending ------------------------------
(***************************************************************************)
(* The life of a lending ledger whose methods are called in any order and  *)
(* with any arguments.  To say what the methods must not do, every call of *)
(* Lend is numbered and what it takes from a replaced offer is added up.   *)
(***************************************************************************)
EXTENDS Ledger

CONSTANTS
  Amounts,          \* amounts of the offers
  Interests,        \* interest rates of the offers, in percent
  MinReputations,   \* minimum reputations of the offers, in tenths
  Deposits,         \* balances HQ may set
  InitialReps,      \* reputation records at the start, by maker
  InitialBalances,  \* balances at the start, by maker
  MaxLends          \* bound on the calls of Lend that succeed

\* The amounts, rates and reputations are what a client may send.
ASSUME LendingAssumption ==
  /\ Amounts \subseteq Int /\ Interests \subseteq Int /\ MinReputations \subseteq Int
  /\ Deposits \subseteq Nat
  /\ InitialReps \in [Makers -> Reputations \cup {None}]
  /\ InitialBalances \in [Makers -> Nat]
  /\ MaxLends \in Nat

VARIABLES
  lends,    \* calls of Lend that succeeded (not in the code)
  offerNo,  \* id -> which of them the offer is from
  loanNo,   \* id -> which of them the loan's offer was from
  lost,     \* tokens of open offers that others replaced (not in the code)
  outside   \* tokens SetBalance added or removed (not in the code)

ledger == <<offers, loans, reputations, balances>>
vars == <<offers, loans, reputations, balances, lends, offerNo, loanNo, lost, outside>>

Init == /\ offers = [o \in OfferIds |-> None]
        /\ loans = [l \in LoanIds |-> None]
        /\ reputations = InitialReps
        /\ balances = InitialBalances
        /\ lends = 0
        /\ offerNo = [o \in OfferIds |-> 0]
        /\ loanNo = [l \in LoanIds |-> 0]
        /\ lost = 0
        /\ outside = 0

Deposit(m, amount) ==
  /\ SetBalance(m, amount)
  /\ outside' = outside + amount - balances[m]
  /\ UNCHANGED <<lends, offerNo, loanNo, lost>>

MakeOffer(id, lender, amount, minRep, interest) ==
  /\ lends < MaxLends
  /\ Lend(id, lender, amount, minRep, interest)
  /\ lends' = lends + 1
  /\ offerNo' = [offerNo EXCEPT ![id] = lends + 1]
  /\ lost' = lost + IF Available(id) THEN offers[id].amount ELSE 0
  /\ UNCHANGED <<loanNo, outside>>

TakeOffer(l, id, m) ==
  /\ Borrow(l, id, m)
  /\ loanNo' = [loanNo EXCEPT ![l] = offerNo[id]]
  /\ UNCHANGED <<lends, offerNo, lost, outside>>

\* The other methods.
Other == \/ \E m \in Makers : RegisterMaker(m)
         \/ \E id \in OfferIds, m \in Makers : CancelOffer(id, m)
         \/ \E l \in LoanIds : Repay(l) \/ Default(l)
         \/ DaysPass

Next == \/ \E m \in Makers, amount \in Deposits : Deposit(m, amount)
        \/ \E id \in OfferIds, m \in Makers, amount \in Amounts,
              minRep \in MinReputations, pct \in Interests :
                MakeOffer(id, m, amount, minRep, pct)
        \/ \E l \in LoanIds, id \in OfferIds, m \in Makers : TakeOffer(l, id, m)
        \/ Other /\ UNCHANGED <<lends, offerNo, loanNo, lost, outside>>

Spec == Init /\ [][Next]_vars

-----------------------------------------------------------------------------
\* Every variable has its type.
TypeOK == /\ offers \in [OfferIds -> Offers \cup {None}]
          /\ loans \in [LoanIds -> Loans \cup {None}]
          /\ reputations \in [Makers -> Reputations \cup {None}]
          /\ balances \in [Makers -> Int]
          /\ lends \in Nat
          /\ offerNo \in [OfferIds -> 0..lends] /\ loanNo \in [LoanIds -> 0..lends]
          /\ lost \in Int /\ outside \in Int

\* No leveraged lending: a maker with an active loan has nothing on offer,
\* whichever of Lend and Borrow came first and whatever they replaced.
NoLeveragedLending ==
  \A l \in LoanIds, o \in OfferIds :
    Active(l) /\ Available(o) => loans[l].borrower # offers[o].lender

\* What is lent once is not lent again: no two loans are from one call of
\* Lend, and an offer a loan is from is claimed and is as the loan has it.  An
\* offer made later under its id is another one.
OfferLentOnce ==
  /\ \A l \in LoanIds : loans[l] # None =>
       LET o == loans[l].offer
       IN  offerNo[o] = loanNo[l] =>
             /\ offers[o].status = "claimed"
             /\ offers[o].lender = loans[l].lender /\ offers[o].amount = loans[l].amount
  /\ \A l \in LoanIds, o \in OfferIds :
       loans[l] # None /\ Available(o) => offerNo[o] # loanNo[l]
  /\ \A l1, l2 \in LoanIds :
       loans[l1] # None /\ loans[l2] # None /\ loanNo[l1] = loanNo[l2] => l1 = l2

\* The debt limits hold at all times, not only when a loan is made: whatever
\* it and others do, a maker never has more active loans than allowed, and one
\* that owes no more than its share of what it delivered will not owe more.
\* One that has delivered nothing may owe nothing, although Borrow skips the
\* test for it.  A loan of a negative amount makes room for others, and one in
\* default raises the score: then nothing is promised.
PlainBorrower(m) == /\ reputations[m] # None /\ reputations[m].penalty >= 0
                    /\ \A l \in ActiveLoans(m) : loans[l].amount >= 0
DebtIsWithin(m) == 100 * TotalBorrowedBy(m) =<
  MaxDebtToDeliveryPct
    * IF reputations[m].totalDelivered > 0 THEN reputations[m].totalDelivered ELSE 0

DebtWithinDelivery ==
  [][\A m \in Makers :
       /\ ActiveLoansFor(m) =< MaxActiveLoans => ActiveLoansFor(m)' =< MaxActiveLoans
       /\ PlainBorrower(m) /\ DebtIsWithin(m) => DebtIsWithin(m)']_vars

OpenOffers == {o \in OfferIds : Available(o)}
OnOffer == SumFunction([o \in OpenOffers |-> offers[o].amount])

AllTokens == TotalNetworkTokens + OnOffer + lost

\* Lending moves tokens, it never makes or destroys any: what makers have and
\* what is on offer together change by what HQ sets, and by the tokens of an
\* open offer that another one replaces, which nobody ever gets.
TokensConserved == AllTokens = SumFunction(InitialBalances) + outside

\* Nobody lends or repays what it has not got.  Only a negative amount takes
\* tokens from one who never agreed to it: an offer that is withdrawn or
\* taken, or a loan that somebody settles.
OverdraftsOnlyByNegatives ==
  [][\A m \in Makers : balances[m] >= 0 /\ balances'[m] < 0 =>
       \/ \E o \in OpenOffers : offers[o].amount < 0 /\ offers'[o].status # "available"
       \/ \E l \in LoanIds : Active(l) /\ loans[l].repayAmount < 0
                               /\ loans'[l].status = "settled"]_vars

\* The network's debt stays within its share of all tokens once it is,
\* whatever the methods do, as long as no amount is negative: only HQ changing
\* a balance can push it beyond.  Borrow counts the balances alone and does
\* not look when they add up to nothing.
NoNegatives == /\ \A l \in LoanIds : Active(l) => loans[l].amount >= 0
               /\ \A o \in OpenOffers : offers[o].amount >= 0
               /\ lost >= 0
NetworkDebtContained ==
  [][/\ NoNegatives /\ TotalNetworkTokens > 0 /\ outside' = outside
     /\ 100 * TotalOutstandingDebt =< MaxNetworkDebtPct * AllTokens
     => 100 * TotalOutstandingDebt' =< MaxNetworkDebtPct * AllTokens']_vars

\* Every loan is counted in its borrower's history, and leaves it at most
\* once: repaid or defaulted, never both.  One that another replaced is
\* counted still.
HistoryMatchesLoans ==
  \A m \in Makers : reputations[m] # None =>
    LET r == reputations[m]
        start == IF InitialReps[m] = None THEN NewReputation ELSE InitialReps[m]
        repaid == r.successfulRepays - start.successfulRepays
        defaulted == r.defaults - start.defaults
        Own(s) == {l \in LoanIds : loans[l] # None /\ loans[l].borrower = m
                                                  /\ loans[l].status = s}
    IN  /\ repaid >= Cardinality(Own("settled"))
        /\ defaulted >= Cardinality(Own("defaulted"))
        /\ r.totalLoans - start.totalLoans >= repaid + defaulted + ActiveLoansFor(m)

\* To default on a loan, unless on one of a negative amount, never raises a
\* score and, alone, never lets anyone borrow more.
DefaultsOnlyHurt ==
  [][\A l \in LoanIds :
       Active(l) /\ loans[l].amount >= 0 /\ loans'[l].status = "defaulted" =>
         LET m == loans[l].borrower
         IN  reputations[m] # None => MaxBorrow(reputations'[m]) =< MaxBorrow(reputations[m])]_vars

\* Only a maker with a history of loans borrows tokens.  A newcomer may take
\* an offer of nothing or less, but neither that nor repaying it gets it any
\* further; to default on it would, and nothing in HQ calls Default.
OnlyHistoryBorrows ==
  \A l \in LoanIds : loans[l] # None =>
    LET m == loans[l].borrower
    IN  InitialReps[m] \in {None, NewReputation} /\ reputations[m].defaults = 0
          => loans[l].amount =< 0
=============================================================================
