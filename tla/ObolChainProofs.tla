-------------------------- MODULE ObolChainProofs --------------------------
(***************************************************************************)
(* Proofs about ObolChain and its audit, for every set of keys, amounts    *)
(* and notes, every width of the integers and every length of the chain.   *)
(***************************************************************************)
EXTENDS ChainAudit, Sums, SequenceTheorems, TLAPS

\* The signed integers wrap into their own range, and what is not negative
\* after wrapping is an amount of tokens.
LEMMA WrapRange ==
  ASSUME NEW b \in Tokens, NEW d \in Deltas
  PROVE  /\ Wrap(b + d) \in IntRange
         /\ Wrap(b + d) >= 0 => Wrap(b + d) \in Tokens
  BY ChainAssumption DEF Wrap, Tokens, IntRange

\* The columns of a row join to one sequence of words and numbers.
LEMMA CanonicalFormType ==
  ASSUME NEW e, e.seq \in Nat, e.publicKey \in PubKeys, e.amount \in IntRange,
         e.balance \in IntRange, e.note \in NoteTexts
  PROVE  CanonicalForm(e) \in CanonicalForms
<1> DEFINE S == Words \cup Int
<1>1. /\ e.publicKey \in Seq(S) /\ e.note.type \in Seq(S)
      /\ e.note.reason \in Seq(S) /\ e.note.time \in Seq(S)
  <2>1. \A t \in Texts : t \in Seq(S)
    BY DEF Texts
  <2> HIDE DEF S
  <2> QED
    BY <2>1, ChainAssumption DEF NoteTexts
<1>2. <<e.seq>> \in Seq(S) /\ <<e.amount, e.balance>> \in Seq(S)
  BY DEF IntRange
<1> HIDE DEF S
<1>3. <<e.seq>> \o e.publicKey \in Seq(S)
  BY <1>1, <1>2
<1>4. <<e.seq>> \o e.publicKey \o <<e.amount, e.balance>> \in Seq(S)
  BY <1>2, <1>3
<1>5. <<e.seq>> \o e.publicKey \o <<e.amount, e.balance>> \o e.note.type \in Seq(S)
  BY <1>1, <1>4
<1>6. CanonicalForm(e) \in Seq(S)
  BY <1>1, <1>5 DEF CanonicalForm
<1> QED
  BY <1>6 DEF CanonicalForms, S

\* The event AppendSignedEvent inserts is a row of the table.
LEMMA NewEventType ==
  ASSUME TypeOK, NEW k \in PubKeys, NEW d \in Deltas, NEW n \in Notes,
         NEW b \in IntRange
  PROVE  NewEvent(k, d, b, n) \in SignedEvents
<1>1. d \in IntRange
  BY ChainAssumption DEF IntRange
<1>2. LastChainHash(chain) \in Digests
  <2>1. CASE chain = << >>
    BY <2>1 DEF LastChainHash, GenesisHash, Digests
  <2>2. CASE chain # << >>
    <3>1. chain[Len(chain)] \in SignedEvents
      BY <2>2 DEF TypeOK
    <3> QED
      BY <2>2, <3>1 DEF LastChainHash, SignedEvents
  <2> QED
    BY <2>1, <2>2
<1>3. Len(chain) + 1 \in Nat
  BY DEF TypeOK
<1>4. n \in NoteTexts
  BY ChainAssumption
<1> DEFINE e == [seq |-> Len(chain) + 1, publicKey |-> k, amount |-> d,
                 balance |-> b, note |-> n, prevHash |-> LastChainHash(chain)]
           h == HashEvent(e)
<1>5. h \in Digests
  <2>1. CanonicalForm(e) \in CanonicalForms
    <3>1. /\ e.seq \in Nat /\ e.publicKey \in PubKeys /\ e.amount \in IntRange
          /\ e.balance \in IntRange /\ e.note \in NoteTexts
      BY <1>1, <1>3, <1>4
    <3> HIDE DEF e
    <3> QED
      BY <3>1, CanonicalFormType
  <2> QED
    BY <1>2, <2>1 DEF HashEvent, Digests
<1>6. <<hqKey, h>> \in HQKeys \X Digests
  BY <1>5 DEF TypeOK
<1>7. NewEvent(k, d, b, n) =
        [seq |-> Len(chain) + 1, publicKey |-> k, amount |-> d, balance |-> b,
         note |-> n, prevHash |-> LastChainHash(chain), eventHash |-> h,
         hqSig |-> <<hqKey, h>>, counterSig |-> NoCounterSig]
  BY DEF NewEvent, SignHash
<1> HIDE DEF h
<1> QED
  BY <1>1, <1>2, <1>3, <1>4, <1>5, <1>6, <1>7 DEF SignedEvents

-----------------------------------------------------------------------------
\* TypeOK is preserved by every store call and by a restart.
LEMMA TypeInductive == TypeOK /\ [Next]_chainVars => TypeOK'
<1> SUFFICES ASSUME TypeOK, [Next]_chainVars PROVE TypeOK'
  OBVIOUS
<1>1. ASSUME NEW k \in PubKeys, NEW d \in Deltas, NEW n \in Notes,
             AppendSignedEvent(k, d, n)
      PROVE  TypeOK'
  <2> DEFINE b == Wrap(balances[k] + d)
  <2>1. balances[k] \in Tokens
    BY DEF TypeOK
  <2>2. b \in IntRange /\ b \in Tokens
    BY <1>1, <2>1, WrapRange DEF AppendSignedEvent
  <2>3. NewEvent(k, d, b, n) \in SignedEvents
    BY <2>2, NewEventType
  <2>4. balances' = [balances EXCEPT ![k] = b] /\ hqKey' = hqKey
        /\ chain' = Append(chain, NewEvent(k, d, b, n))
        /\ tokenEvents' = Append(tokenEvents, <<k, d, n>>)
    BY <1>1 DEF AppendSignedEvent
  <2>5. <<k, d, n>> \in PubKeys \X IntRange \X Notes
    BY ChainAssumption DEF IntRange
  <2> HIDE DEF b
  <2> QED
    BY <2>2, <2>3, <2>4, <2>5 DEF TypeOK
<1>2. ASSUME NEW s \in DOMAIN chain, NEW sig \in CounterSigs, CounterSign(s, sig)
      PROVE  TypeOK'
  <2>1. chain \in Seq(SignedEvents) /\ s \in 1..Len(chain)
    BY DEF TypeOK
  <2>2. [chain[s] EXCEPT !.counterSig = sig] \in SignedEvents
    <3>1. chain[s] \in SignedEvents
      BY <2>1
    <3> QED
      BY <3>1 DEF SignedEvents
  <2>3. chain' = [chain EXCEPT ![s] = [chain[s] EXCEPT !.counterSig = sig]]
    BY <1>2 DEF CounterSign
  <2>4. chain' \in Seq(SignedEvents)
    BY <2>1, <2>2, <2>3
  <2> QED
    BY <1>2, <2>4 DEF TypeOK, CounterSign
<1>3. CASE Restart
  BY <1>3 DEF TypeOK, Restart, KeysAfter
<1>4. CASE UNCHANGED chainVars
  BY <1>4 DEF TypeOK, chainVars
<1> QED
  BY <1>1, <1>2, <1>3, <1>4 DEF Next

\* Every variable keeps its type: no balance is ever negative or beyond the
\* width of the column, whatever the overflow of an addition.
THEOREM TypeCorrect == Spec => []TypeOK
<1>1. Init => TypeOK
  BY ChainAssumption DEF Init, TypeOK, Tokens
<1>2. TypeOK /\ [Next]_chainVars => TypeOK'
  BY TypeInductive
<1> QED
  BY <1>1, <1>2, PTL DEF Spec

-----------------------------------------------------------------------------
\* Rows are numbered 1, 2, 3, ... in the order of the table.
SeqNumbersGapless == \A i \in DOMAIN chain : chain[i].seq = i

\* Each row was signed, over its own hash, by a key HQ had: the key it has
\* now if the key is configured.
SignedByHQ ==
  \A i \in DOMAIN chain :
    \E key \in HQKeys : /\ SigOK(chain, i, key)
                        /\ hqKey \in Configured => key = hqKey

\* The checks of ChainIntegrity that no key takes part in.
RowsLinked == \A i \in DOMAIN chain : PrevLinkOK(chain, i) /\ HashOK(chain, i)
RowsBalanced == \A i \in DOMAIN chain : BalanceOK(chain, i)

\* The strengthening: ChainVerifies alone is not inductive, because the row
\* an append adds takes its balance from the balances table, and is checked
\* against the chain.
IInv == /\ TypeOK
        /\ SeqNumbersGapless
        /\ SignedByHQ
        /\ RowsLinked
        /\ RowsBalanced
        /\ BalancesMatchChain

\* A nonempty set of rows below i has a last one.
LEMMA LastOf ==
  ASSUME NEW i \in Nat, NEW E, E \subseteq 1..(i - 1), E # {}
  PROVE  \E j \in E : \A m \in E : m =< j
<1> DEFINE T == {i - j : j \in E}
<1>1. T \subseteq Nat /\ T # {}
  OBVIOUS
<1>2. PICK x \in T : \A y \in T : x =< y
  <2> HIDE DEF T
  <2> QED
    BY <1>1, LeastElement
<1>3. PICK j \in E : x = i - j
  OBVIOUS
<1>4. \A m \in E : i - j =< i - m
  BY <1>2, <1>3
<1> QED
  BY <1>4

\* The balance before row i depends only on the keys and the balances of the
\* rows before it.
LEMMA BalanceBeforeLocal ==
  ASSUME NEW rows, NEW rows2, NEW k, NEW i \in Nat,
         \A j \in 1..(i - 1) : /\ rows2[j].publicKey = rows[j].publicKey
                               /\ rows2[j].balance = rows[j].balance
  PROVE  BalanceBefore(rows2, k, i) = BalanceBefore(rows, k, i)
<1>1. EarlierRows(rows2, k, i) = EarlierRows(rows, k, i)
  BY DEF EarlierRows
<1>2. CASE EarlierRows(rows, k, i) = {}
  BY <1>1, <1>2 DEF BalanceBefore
<1>3. CASE EarlierRows(rows, k, i) # {}
  <2> DEFINE E == EarlierRows(rows, k, i)
             top == Latest(E)
  <2>1. \E j \in E : \A m \in E : m =< j
    <3>1. E \subseteq 1..(i - 1) /\ E # {}
      BY <1>3 DEF EarlierRows
    <3> HIDE DEF E
    <3> QED
      BY <3>1, LastOf
  <2>2. top \in E
    BY <2>1 DEF Latest
  <2>3. top \in 1..(i - 1)
    BY <2>2 DEF EarlierRows
  <2>4. rows2[top].balance = rows[top].balance
    BY <2>3
  <2> QED
    BY <1>1, <1>3, <2>4 DEF BalanceBefore
<1> QED
  BY <1>2, <1>3

\* A row gives its key its balance and leaves the others.
LEMMA BalanceAfterRow ==
  ASSUME NEW rows, NEW i \in Nat \ {0}, NEW k
  PROVE  BalanceBefore(rows, k, i + 1) =
           IF k = rows[i].publicKey THEN rows[i].balance ELSE BalanceBefore(rows, k, i)
<1>1. EarlierRows(rows, k, i + 1) =
        EarlierRows(rows, k, i) \cup IF k = rows[i].publicKey THEN {i} ELSE {}
  BY DEF EarlierRows
<1>2. CASE k = rows[i].publicKey
  <2> DEFINE E == EarlierRows(rows, k, i + 1)
  <2>1. i \in E /\ \A m \in E : m \in Nat /\ m =< i
    BY <1>2 DEF EarlierRows
  <2> HIDE DEF E
  <2>2. Latest(E) = i
    <3>1. i \in E /\ \A m \in E : m =< i
      BY <2>1
    <3>2. \A j \in E : (\A m \in E : m =< j) => j = i
      BY <2>1
    <3> QED
      BY <3>1, <3>2 DEF Latest
  <2> QED
    BY <1>2, <2>1, <2>2 DEF BalanceBefore, E
<1>3. CASE k # rows[i].publicKey
  <2>1. EarlierRows(rows, k, i + 1) = EarlierRows(rows, k, i)
    BY <1>1, <1>3
  <2> QED
    BY <1>3, <2>1 DEF BalanceBefore
<1> QED
  BY <1>2, <1>3

\* Appending a row gives its key that row's balance and leaves the others.
LEMMA BalanceAfterAppend ==
  ASSUME NEW S, NEW rows \in Seq(S), NEW e \in S, NEW k
  PROVE  BalanceBefore(Append(rows, e), k, Len(rows) + 2) =
           IF k = e.publicKey THEN e.balance
                              ELSE BalanceBefore(rows, k, Len(rows) + 1)
<1> DEFINE n == Len(rows)
           rows2 == Append(rows, e)
<1>1. /\ n \in Nat
      /\ rows2[n + 1] = e
      /\ \A j \in 1..n : rows2[j] = rows[j]
  OBVIOUS
<1>2. BalanceBefore(rows2, k, (n + 1) + 1) =
        IF k = e.publicKey THEN e.balance ELSE BalanceBefore(rows2, k, n + 1)
  <2> HIDE DEF n, rows2
  <2>1. n + 1 \in Nat \ {0}
    BY <1>1
  <2> QED
    BY <1>1, <2>1, BalanceAfterRow
<1>3. BalanceBefore(rows2, k, n + 1) = BalanceBefore(rows, k, n + 1)
  <2> HIDE DEF n, rows2
  <2>1. n + 1 \in Nat /\ (n + 1) - 1 = n
    BY <1>1
  <2> QED
    BY <1>1, <2>1, BalanceBeforeLocal
<1>4. n + 2 = (n + 1) + 1
  BY <1>1
<1> QED
  BY <1>2, <1>3, <1>4

-----------------------------------------------------------------------------
\* What RowOK says of row i depends on the rows up to i only, and not on
\* their counter-signatures.
LEMMA RowChecksLocal ==
  ASSUME NEW rows, NEW rows2, NEW i \in Nat \ {0},
         \A j \in 1..i : /\ rows2[j].publicKey = rows[j].publicKey
                         /\ rows2[j].balance = rows[j].balance
                         /\ rows2[j].seq = rows[j].seq
                         /\ rows2[j].amount = rows[j].amount
                         /\ rows2[j].note = rows[j].note
                         /\ rows2[j].prevHash = rows[j].prevHash
                         /\ rows2[j].eventHash = rows[j].eventHash
                         /\ rows2[j].hqSig = rows[j].hqSig
  PROVE  /\ PrevLinkOK(rows2, i) <=> PrevLinkOK(rows, i)
         /\ HashOK(rows2, i) <=> HashOK(rows, i)
         /\ \A key : SigOK(rows2, i, key) <=> SigOK(rows, i, key)
         /\ BalanceOK(rows2, i) <=> BalanceOK(rows, i)
<1>1. i \in 1..i /\ (i # 1 => i - 1 \in 1..i)
  OBVIOUS
<1>2. HashEvent(rows2[i]) = HashEvent(rows[i])
  BY <1>1 DEF HashEvent, CanonicalForm
<1>3. BalanceBefore(rows2, rows[i].publicKey, i) =
        BalanceBefore(rows, rows[i].publicKey, i)
  BY BalanceBeforeLocal
<1>4. PrevLinkOK(rows2, i) <=> PrevLinkOK(rows, i)
  BY <1>1 DEF PrevLinkOK
<1>5. HashOK(rows2, i) <=> HashOK(rows, i)
  BY <1>1, <1>2 DEF HashOK
<1>6. \A key : SigOK(rows2, i, key) <=> SigOK(rows, i, key)
  BY <1>1 DEF SigOK
<1>7. BalanceOK(rows2, i) <=> BalanceOK(rows, i)
  BY <1>1, <1>3 DEF BalanceOK
<1> QED
  BY <1>4, <1>5, <1>6, <1>7

\* The row an append adds passes all four checks.
LEMMA AppendStep ==
  ASSUME IInv, NEW k \in PubKeys, NEW d \in Deltas, NEW n \in Notes,
         AppendSignedEvent(k, d, n)
  PROVE  IInv'
<1> DEFINE b == Wrap(balances[k] + d)
           e == NewEvent(k, d, b, n)
           m == Len(chain)
<1>1. /\ chain' = Append(chain, e)
      /\ balances' = [balances EXCEPT ![k] = b]
      /\ hqKey' = hqKey
  BY DEF AppendSignedEvent
<1>2. TypeOK'
  BY TypeInductive DEF IInv, Next
<1>3. balances[k] \in Tokens /\ b \in IntRange
  BY WrapRange DEF IInv, TypeOK
<1>4. e \in SignedEvents
  BY <1>3, NewEventType DEF IInv
<1>5. /\ e.seq = m + 1 /\ e.publicKey = k /\ e.amount = d /\ e.balance = b
      /\ e.prevHash = LastChainHash(chain)
      /\ e.eventHash = HashEvent(e)
      /\ e.hqSig = SignHash(e.eventHash, hqKey)
  BY DEF NewEvent, HashEvent, CanonicalForm
<1> HIDE DEF e, b
<1>6. /\ chain \in Seq(SignedEvents) /\ m \in Nat
      /\ DOMAIN chain' = 1..(m + 1) /\ DOMAIN chain = 1..m
      /\ Len(chain') = m + 1
      /\ chain'[m + 1] = e
      /\ \A j \in 1..m : chain'[j] = chain[j]
  BY <1>1, <1>4 DEF IInv, TypeOK
<1> HIDE DEF m
<1>7. SeqNumbersGapless'
  BY <1>5, <1>6 DEF IInv, SeqNumbersGapless
<1>8. \A i \in 1..m : /\ PrevLinkOK(chain', i) <=> PrevLinkOK(chain, i)
                      /\ HashOK(chain', i) <=> HashOK(chain, i)
                      /\ \A key : SigOK(chain', i, key) <=> SigOK(chain, i, key)
                      /\ BalanceOK(chain', i) <=> BalanceOK(chain, i)
  <2> SUFFICES ASSUME NEW i \in 1..m
               PROVE  /\ PrevLinkOK(chain', i) <=> PrevLinkOK(chain, i)
                      /\ HashOK(chain', i) <=> HashOK(chain, i)
                      /\ \A key : SigOK(chain', i, key) <=> SigOK(chain, i, key)
                      /\ BalanceOK(chain', i) <=> BalanceOK(chain, i)
    OBVIOUS
  <2>1. \A j \in 1..i : chain'[j] = chain[j]
    BY <1>6
  <2>2. i \in Nat \ {0}
    BY <1>6
  <2> QED
    BY <2>1, <2>2, RowChecksLocal
<1>9. RowsLinked'
  <2>1. PrevLinkOK(chain', m + 1)
    <3>1. CASE m = 0
      BY <1>5, <1>6, <3>1 DEF PrevLinkOK, LastChainHash, m
    <3>2. CASE m # 0
      BY <1>5, <1>6, <3>2 DEF PrevLinkOK, LastChainHash, m
    <3> QED
      BY <3>1, <3>2
  <2>2. HashOK(chain', m + 1)
    BY <1>5, <1>6 DEF HashOK
  <2> QED
    BY <1>6, <1>8, <2>1, <2>2 DEF IInv, RowsLinked
<1>10. SignedByHQ'
  <2>1. SigOK(chain', m + 1, hqKey)
    BY <1>5, <1>6 DEF SigOK, VerifyEventSig, SignHash
  <2>2. hqKey \in HQKeys
    BY DEF IInv, TypeOK
  <2>3. \A i \in 1..m : \E key \in HQKeys : /\ SigOK(chain', i, key)
                                            /\ hqKey \in Configured => key = hqKey
    BY <1>6, <1>8 DEF IInv, SignedByHQ
  <2> QED
    BY <1>1, <1>6, <2>1, <2>2, <2>3 DEF SignedByHQ
<1>11. RowsBalanced'
  <2>1. BalanceBefore(chain', k, m + 1) = BalanceBefore(chain, k, m + 1)
    BY <1>6, BalanceBeforeLocal
  <2>2. balances[k] = BalanceBefore(chain, k, m + 1)
    BY DEF IInv, BalancesMatchChain, m
  <2>3. BalanceOK(chain', m + 1)
    BY <1>5, <1>6, <2>1, <2>2 DEF BalanceOK, b
  <2> QED
    BY <1>6, <1>8, <2>3 DEF IInv, RowsBalanced
<1>12. BalancesMatchChain'
  <2>1. \A q \in PubKeys : BalanceBefore(chain', q, m + 2) =
            IF q = k THEN b ELSE BalanceBefore(chain, q, m + 1)
    BY <1>1, <1>4, <1>5, <1>6, BalanceAfterAppend DEF m
  <2>2. \A q \in PubKeys : balances[q] = BalanceBefore(chain, q, m + 1)
    BY DEF IInv, BalancesMatchChain, m
  <2>3. \A q \in PubKeys : balances'[q] = IF q = k THEN b ELSE balances[q]
    BY <1>1 DEF IInv, TypeOK
  <2>4. Len(chain') + 1 = m + 2
    BY <1>6
  <2> QED
    BY <2>1, <2>2, <2>3, <2>4 DEF BalancesMatchChain
<1> QED
  BY <1>2, <1>7, <1>9, <1>10, <1>11, <1>12 DEF IInv

\* A counter-signature is no part of what the checks read.
LEMMA CounterSignStep ==
  ASSUME IInv, NEW s \in DOMAIN chain, NEW sig \in CounterSigs, CounterSign(s, sig)
  PROVE  IInv'
<1>1. chain' = [chain EXCEPT ![s].counterSig = sig]
      /\ balances' = balances /\ hqKey' = hqKey
  BY DEF CounterSign
<1>2. TypeOK'
  BY TypeInductive DEF IInv, Next
<1>3. chain \in Seq(SignedEvents) /\ chain' \in Seq(SignedEvents)
  BY <1>2 DEF IInv, TypeOK
<1>4. DOMAIN chain' = DOMAIN chain /\ Len(chain') = Len(chain)
  BY <1>1, <1>3
<1>5. \A j \in DOMAIN chain :
        /\ chain'[j].publicKey = chain[j].publicKey
        /\ chain'[j].balance = chain[j].balance
        /\ chain'[j].seq = chain[j].seq
        /\ chain'[j].amount = chain[j].amount
        /\ chain'[j].note = chain[j].note
        /\ chain'[j].prevHash = chain[j].prevHash
        /\ chain'[j].eventHash = chain[j].eventHash
        /\ chain'[j].hqSig = chain[j].hqSig
  <2> TAKE j \in DOMAIN chain
  <2>1. chain[j] \in SignedEvents
    BY <1>3
  <2>2. chain'[j] = [chain[j] EXCEPT !.counterSig = sig] \/ chain'[j] = chain[j]
    BY <1>1, <1>3
  <2> QED
    BY <2>1, <2>2 DEF SignedEvents
<1>6. DOMAIN chain = 1..Len(chain) /\ Len(chain) \in Nat
  BY <1>3
<1>7. \A i \in DOMAIN chain :
        /\ PrevLinkOK(chain', i) <=> PrevLinkOK(chain, i)
        /\ HashOK(chain', i) <=> HashOK(chain, i)
        /\ \A key : SigOK(chain', i, key) <=> SigOK(chain, i, key)
        /\ BalanceOK(chain', i) <=> BalanceOK(chain, i)
  <2> TAKE i \in DOMAIN chain
  <2>1. i \in Nat \ {0} /\ 1..i \subseteq DOMAIN chain
    BY <1>6
  <2> QED
    BY <1>5, <2>1, RowChecksLocal
<1>8. \A k \in PubKeys : BalanceBefore(chain', k, Len(chain) + 1) =
                           BalanceBefore(chain, k, Len(chain) + 1)
  <2> TAKE k \in PubKeys
  <2>1. Len(chain) + 1 \in Nat /\ 1..((Len(chain) + 1) - 1) = DOMAIN chain
    BY <1>6
  <2> QED
    BY <1>5, <2>1, BalanceBeforeLocal
<1>9. SeqNumbersGapless'
  BY <1>4, <1>5 DEF IInv, SeqNumbersGapless
<1>10. SignedByHQ'
  BY <1>1, <1>4, <1>7 DEF IInv, SignedByHQ
<1>11. RowsLinked' /\ RowsBalanced'
  BY <1>4, <1>7 DEF IInv, RowsLinked, RowsBalanced
<1>12. BalancesMatchChain'
  BY <1>1, <1>4, <1>8 DEF IInv, BalancesMatchChain
<1> QED
  BY <1>2, <1>9, <1>10, <1>11, <1>12 DEF IInv

\* Every step keeps the invariant.
LEMMA IInvInductive == IInv /\ [Next]_chainVars => IInv'
<1> SUFFICES ASSUME IInv, [Next]_chainVars PROVE IInv'
  OBVIOUS
<1>1. TypeOK'
  BY TypeInductive DEF IInv
<1>2. ASSUME NEW k \in PubKeys, NEW d \in Deltas, NEW n \in Notes,
             AppendSignedEvent(k, d, n)
      PROVE  IInv'
  BY <1>2, AppendStep
<1>3. ASSUME NEW s \in DOMAIN chain, NEW sig \in CounterSigs, CounterSign(s, sig)
      PROVE  IInv'
  BY <1>3, CounterSignStep
<1>4. CASE Restart
  <2>1. chain' = chain /\ balances' = balances /\ (hqKey' \in Configured => hqKey' = hqKey)
    BY <1>4 DEF Restart, KeysAfter
  <2>2. SignedByHQ'
    BY <2>1 DEF IInv, SignedByHQ
  <2> QED
    BY <1>1, <2>1, <2>2
       DEF IInv, SeqNumbersGapless, RowsLinked, RowsBalanced, BalancesMatchChain
<1>5. CASE UNCHANGED chainVars
  <2>1. chain' = chain /\ balances' = balances /\ hqKey' = hqKey
    BY <1>5 DEF chainVars
  <2> QED
    BY <1>1, <2>1 DEF IInv, SeqNumbersGapless, SignedByHQ, RowsLinked,
                      RowsBalanced, BalancesMatchChain
<1> QED
  BY <1>2, <1>3, <1>4, <1>5 DEF Next

\* An empty chain satisfies it.
LEMMA IInvInit == Init => IInv
<1> SUFFICES ASSUME Init PROVE IInv
  OBVIOUS
<1>1. TypeOK
  BY ChainAssumption DEF Init, TypeOK, Tokens
<1>2. chain = << >> /\ DOMAIN chain = {} /\ Len(chain) = 0
  BY DEF Init
<1>3. \A k \in PubKeys : EarlierRows(chain, k, Len(chain) + 1) = {}
  BY <1>2 DEF EarlierRows
<1>4. BalancesMatchChain
  BY <1>3 DEF Init, BalancesMatchChain, BalanceBefore
<1> QED
  BY <1>1, <1>2, <1>4 DEF IInv, SeqNumbersGapless, SignedByHQ, RowsLinked, RowsBalanced

\* The inductive invariant holds always.
THEOREM Invariance == Spec => []IInv
<1> QED
  BY IInvInit, IInvInductive, PTL DEF Spec

\* ChainIntegrity never fails under a configured key: every row passes its
\* four checks, whatever was appended, refused or counter-signed, and however
\* often the process restarted.
THEOREM ChainAlwaysVerifies == Spec => []ChainVerifies
<1>1. IInv => ChainVerifies
  BY DEF IInv, ChainVerifies, SignedByHQ, RowsLinked, RowsBalanced, RowOK
<1> QED
  BY <1>1, Invariance, PTL

\* Under an ephemeral key too, only the signature check can fail.
THEOREM OnlyKeyChangesFail == Spec => []OnlySignaturesDependOnKey
<1>1. IInv => OnlySignaturesDependOnKey
  BY DEF IInv, OnlySignaturesDependOnKey, SignedByHQ, RowsLinked, RowsBalanced, RowOK
<1> QED
  BY <1>1, Invariance, PTL

\* The balances table and the chain never disagree about any key.
THEOREM BalancesAlwaysMatch == Spec => []BalancesSound
<1>1. IInv => BalancesSound
  BY ChainAssumption DEF IInv, TypeOK, Tokens, BalancesSound
<1> QED
  BY <1>1, Invariance, PTL

-----------------------------------------------------------------------------
\* A committed row is final but for its counter-signature.
THEOREM ChainIsAppendOnly == Spec => AppendOnly
<1> DEFINE Kept == /\ Len(chain) =< Len(chain')
                   /\ \A i \in DOMAIN chain :
                        chain'[i] = [chain[i] EXCEPT !.counterSig = chain'[i].counterSig]
<1>1. ASSUME TypeOK, [Next]_chainVars PROVE [Kept]_chainVars
  <2>1. chain \in Seq(SignedEvents)
    BY <1>1 DEF TypeOK
  <2>2. \A i \in DOMAIN chain :
          chain[i] = [chain[i] EXCEPT !.counterSig = chain[i].counterSig]
    <3> TAKE i \in DOMAIN chain
    <3>1. chain[i] \in SignedEvents
      BY <2>1
    <3> QED
      BY <3>1 DEF SignedEvents
  <2>3. ASSUME NEW k \in PubKeys, NEW d \in Deltas, NEW n \in Notes,
               AppendSignedEvent(k, d, n)
        PROVE  Kept
    <3>1. PICK e : chain' = Append(chain, e)
      BY <2>3 DEF AppendSignedEvent
    <3>2. Len(chain') = Len(chain) + 1 /\ \A i \in DOMAIN chain : chain'[i] = chain[i]
      BY <2>1, <3>1
    <3> QED
      BY <2>1, <2>2, <3>2
  <2>4. ASSUME NEW s \in DOMAIN chain, NEW sig \in CounterSigs, CounterSign(s, sig)
        PROVE  Kept
    <3>1. chain' = [chain EXCEPT ![s] = [chain[s] EXCEPT !.counterSig = sig]]
      BY <2>4 DEF CounterSign
    <3>2. chain[s] \in SignedEvents
      BY <2>1
    <3>3. [chain[s] EXCEPT !.counterSig = sig].counterSig = sig
      BY <3>2 DEF SignedEvents
    <3>4. Len(chain') = Len(chain)
      BY <2>1, <3>1
    <3> QED
      BY <2>1, <2>2, <3>1, <3>3, <3>4
  <2>5. CASE chain' = chain
    BY <2>1, <2>2, <2>5
  <2> QED
    BY <1>1, <2>3, <2>4, <2>5 DEF Next, Restart, chainVars
<1> QED
  BY <1>1, TypeCorrect, PTL DEF Spec, AppendOnly

-----------------------------------------------------------------------------
\* Every receipt handed out verifies and is the row of the chain it names.
THEOREM ReceiptsAlwaysOnChain == Spec => []ReceiptsOnChain
<1>1. Init => ReceiptsOnChain
  BY DEF Init, ReceiptsOnChain
<1>2. ASSUME IInv, ReceiptsOnChain, [Next]_chainVars PROVE ReceiptsOnChain'
  <2>1. chain \in Seq(SignedEvents)
    BY <1>2 DEF IInv, TypeOK
  <2>2. ASSUME NEW k \in PubKeys, NEW d \in Deltas, NEW n \in Notes,
               AppendSignedEvent(k, d, n)
        PROVE  ReceiptsOnChain'
    <3> DEFINE e == NewEvent(k, d, Wrap(balances[k] + d), n)
    <3>1. chain' = Append(chain, e) /\ receipts' = receipts \cup {ToReceipt(e, hqKey)}
      BY <2>2 DEF AppendSignedEvent
    <3>2. /\ e.seq = Len(chain) + 1
          /\ e.eventHash = HashEvent(e)
          /\ e.hqSig = SignHash(e.eventHash, hqKey)
      BY DEF NewEvent, HashEvent, CanonicalForm
    <3> HIDE DEF e
    <3>3. /\ DOMAIN chain' = 1..(Len(chain) + 1) /\ DOMAIN chain = 1..Len(chain)
          /\ Len(chain) \in Nat
          /\ chain'[Len(chain) + 1] = e
          /\ \A j \in 1..Len(chain) : chain'[j] = chain[j]
      BY <2>1, <3>1
    <3>4. ASSUME NEW r \in receipts
          PROVE  /\ VerifyReceipt(r) /\ r.seq \in DOMAIN chain'
                 /\ r = ToReceipt(chain'[r.seq], r.hqPubKey)
      BY <1>2, <3>3 DEF ReceiptsOnChain
    <3>5. ASSUME NEW r, r = ToReceipt(e, hqKey)
          PROVE  /\ VerifyReceipt(r) /\ r.seq \in DOMAIN chain'
                 /\ r = ToReceipt(chain'[r.seq], r.hqPubKey)
      <4>1. r.hqPubKey = hqKey /\ r.seq = Len(chain) + 1
        BY <3>2, <3>5 DEF ToReceipt
      <4>2. r.eventHash = HashEvent(r) /\ r.hqSig = SignHash(r.eventHash, hqKey)
        BY <3>2, <3>5 DEF ToReceipt, HashEvent, CanonicalForm
      <4> QED
        BY <3>3, <3>5, <4>1, <4>2 DEF VerifyReceipt, VerifyEventSig, SignHash
    <3> QED
      BY <3>1, <3>4, <3>5 DEF ReceiptsOnChain
  <2>3. ASSUME NEW s \in DOMAIN chain, NEW sig \in CounterSigs, CounterSign(s, sig)
        PROVE  ReceiptsOnChain'
    <3>1. chain' = [chain EXCEPT ![s].counterSig = sig] /\ receipts' = receipts
      BY <2>3 DEF CounterSign
    <3>2. DOMAIN chain' = DOMAIN chain
      BY <2>1, <3>1
    <3>3. \A i \in DOMAIN chain : \A key :
            ToReceipt(chain'[i], key) = ToReceipt(chain[i], key)
      <4> TAKE i \in DOMAIN chain
      <4> TAKE key
      <4>1. chain[i] \in SignedEvents
        BY <2>1
      <4>2. chain'[i] = [chain[i] EXCEPT !.counterSig = sig] \/ chain'[i] = chain[i]
        BY <2>1, <3>1
      <4> QED
        BY <4>1, <4>2 DEF SignedEvents, ToReceipt
    <3> QED
      BY <1>2, <3>1, <3>2, <3>3 DEF ReceiptsOnChain
  <2>4. CASE chain' = chain /\ receipts' = receipts
    BY <1>2, <2>4 DEF ReceiptsOnChain
  <2> QED
    BY <1>2, <2>2, <2>3, <2>4 DEF Next, Restart, chainVars
<1> QED
  BY <1>1, <1>2, Invariance, PTL DEF Spec

-----------------------------------------------------------------------------
\* Tampering with any single row is caught at that row if it changes the row's
\* canonical form or its link: no such row passes the checks under the old
\* signature, whether or not its stored hash was recomputed.  (A change that
\* keeps the canonical form, words moved between columns, is not caught.)
TamperedRowFails ==
  \A i \in DOMAIN chain, e \in SignedEvents :
    /\ e.hqSig = chain[i].hqSig
    /\ \/ CanonicalForm(e) # CanonicalForm(chain[i])
       \/ e.prevHash # chain[i].prevHash
    => \A key \in HQKeys : ~ RowOK([chain EXCEPT ![i] = e], i, key)

\* The hash of an event determines its canonical form and the hash before it.
LEMMA HashInjective ==
  ASSUME NEW e \in SignedEvents, NEW f \in SignedEvents,
         HashEvent(e) = HashEvent(f)
  PROVE  CanonicalForm(e) = CanonicalForm(f) /\ e.prevHash = f.prevHash
<1>1. /\ e.prevHash \in Digests /\ f.prevHash \in Digests
      /\ CanonicalForm(e) \in CanonicalForms /\ CanonicalForm(f) \in CanonicalForms
  BY CanonicalFormType DEF SignedEvents
<1> DEFINE p == e.prevHash
           q == f.prevHash
           c == CanonicalForm(e)
           d == CanonicalForm(f)
<1>2. /\ p \in Seq(CanonicalForms) /\ q \in Seq(CanonicalForms)
      /\ c \in CanonicalForms /\ d \in CanonicalForms
      /\ Append(p, c) = Append(q, d)
  BY <1>1 DEF Digests, HashEvent
<1> HIDE DEF p, q, c, d
<1>3. p = q /\ c = d
  BY <1>2, AppendInjective
<1> QED
  BY <1>3 DEF p, q, c, d

\* A row that was overwritten under its old signature fails its checks, however
\* the stored hash was made to fit.
THEOREM TamperingIsCaught == Spec => []TamperedRowFails
<1>1. ASSUME IInv PROVE TamperedRowFails
  <2> SUFFICES ASSUME NEW i \in DOMAIN chain, NEW e \in SignedEvents,
                      e.hqSig = chain[i].hqSig,
                      NEW key \in HQKeys, RowOK([chain EXCEPT ![i] = e], i, key)
               PROVE  /\ CanonicalForm(e) = CanonicalForm(chain[i])
                      /\ e.prevHash = chain[i].prevHash
    BY DEF TamperedRowFails
  <2>1. chain[i] \in SignedEvents /\ [chain EXCEPT ![i] = e][i] = e
    BY <1>1 DEF IInv, TypeOK
  <2>2. e.hqSig = <<key, e.eventHash>> /\ e.eventHash = HashEvent(e)
    BY <2>1 DEF RowOK, SigOK, VerifyEventSig, HashOK
  <2>3. PICK k \in HQKeys : chain[i].hqSig = <<k, chain[i].eventHash>>
    BY <1>1 DEF IInv, SignedByHQ, SigOK, VerifyEventSig
  <2>4. chain[i].eventHash = HashEvent(chain[i])
    BY <1>1 DEF IInv, RowsLinked, HashOK
  <2>5. HashEvent(e) = HashEvent(chain[i])
    <3>1. <<key, e.eventHash>> = <<k, chain[i].eventHash>>
      BY <2>2, <2>3
    <3>2. e.eventHash = chain[i].eventHash
      BY <3>1
    <3> QED
      BY <2>2, <2>4, <3>2
  <2> QED
    BY <2>1, <2>5, HashInjective
<1> QED
  BY <1>1, Invariance, PTL

-----------------------------------------------------------------------------
(***************************************************************************)
(* The audit: the one-pass walk of ChainIntegrity and what it reports.     *)
(***************************************************************************)
\* w is the memory of the walk after each number of rows.
Walks(w, rows, n, key) ==
  w = [i \in 0..n |-> IF i = 0 THEN WalkStart ELSE WalkStep(w[i - 1], rows[i], key)]

\* There is such a walk along any table.
LEMMA WalkExists ==
  ASSUME NEW rows, NEW key, NEW n \in Nat
  PROVE  \E w : Walks(w, rows, n, key)
<1> DEFINE P == {m \in Nat : \E w : Walks(w, rows, m, key)}
<1>1. 0 \in P
  <2> DEFINE w == [i \in 0..0 |-> WalkStart]
  <2>1. Walks(w, rows, 0, key)
    BY DEF Walks
  <2> QED
    BY <2>1
<1>2. ASSUME NEW m \in Nat, m \in P PROVE m + 1 \in P
  <2>1. PICK w : Walks(w, rows, m, key)
    BY <1>2
  <2> DEFINE g == [i \in 0..(m + 1) |->
                     IF i = 0 THEN WalkStart ELSE WalkStep(w[i - 1], rows[i], key)]
  <2>2. \A i \in 0..m : w[i] = IF i = 0 THEN WalkStart ELSE WalkStep(w[i - 1], rows[i], key)
    BY <2>1 DEF Walks
  <2>3. \A i \in 0..m : g[i] = w[i]
    BY <2>2
  <2>4. \A i \in 0..(m + 1) : i # 0 => g[i - 1] = w[i - 1]
    <3>1. \A i \in 0..(m + 1) : i # 0 => i - 1 \in 0..m
      OBVIOUS
    <3> HIDE DEF g
    <3> QED
      BY <2>3, <3>1
  <2>5. g = [i \in 0..(m + 1) |->
               IF i = 0 THEN WalkStart ELSE WalkStep(g[i - 1], rows[i], key)]
    BY <2>4
  <2>6. Walks(g, rows, m + 1, key)
    BY <2>5 DEF Walks
  <2> HIDE DEF g
  <2> QED
    BY <2>6
<1>3. P = Nat
  <2> HIDE DEF P
  <2>1. P \subseteq Nat
    BY DEF P
  <2> QED
    BY <1>1, <1>2, <2>1, CountUp
<1> QED
  BY <1>3

\* ChainIntegrity reports where a walk ends.
LEMMA IntegrityWalks ==
  ASSUME NEW rows, NEW key, Len(rows) \in Nat
  PROVE  \E w : /\ Walks(w, rows, Len(rows), key)
                /\ ChainIntegrity(rows, key) =
                     [seq |-> w[Len(rows)].seq, failed |-> w[Len(rows)].failed]
<1> DEFINE w == CHOOSE w : Walks(w, rows, Len(rows), key)
<1>1. Walks(w, rows, Len(rows), key)
  BY WalkExists
<1>2. ChainIntegrity(rows, key) =
        [seq |-> w[Len(rows)].seq, failed |-> w[Len(rows)].failed]
  BY DEF ChainIntegrity, Walks
<1> HIDE DEF w
<1> QED
  BY <1>1, <1>2

\* A walk that has met no bad row knows the last hash, and as the total of
\* each key the balance of its latest row.
Clean(w, rows, i) ==
  /\ w.failed = FALSE
  /\ w.seq = i
  /\ w.expectedPrev = IF i = 0 THEN GenesisHash ELSE rows[i].eventHash
  /\ w.totals = [k \in PubKeys |-> BalanceBefore(rows, k, i + 1)]

\* A walk that has stopped at row i.
Stopped(w, i) == w.failed = TRUE /\ w.seq = i

\* The next row fails in the walk exactly if it fails on its own.
LEMMA StepChecksRow ==
  ASSUME NEW rows \in Seq(SignedEvents), NEW i, i \in 1..Len(rows), rows[i].seq = i,
         NEW w, Clean(w, rows, i - 1), NEW key
  PROVE  /\ RowOK(rows, i, key) => Clean(WalkStep(w, rows[i], key), rows, i)
         /\ ~ RowOK(rows, i, key) => Stopped(WalkStep(w, rows[i], key), i)
<1> DEFINE v == WalkStep(w, rows[i], key)
           e == rows[i]
           total == Wrap(w.totals[e.publicKey] + e.amount)
           passes == /\ e.prevHash = w.expectedPrev
                     /\ HashEvent(e) = e.eventHash
                     /\ VerifyEventSig(e.eventHash, e.hqSig, key)
                     /\ total = e.balance
<1>1. i \in Nat \ {0} /\ (i - 1) + 1 = i /\ i - 1 \in Nat /\ (i - 1 = 0 <=> i = 1)
  OBVIOUS
<1>2. e.publicKey \in PubKeys
  <2>1. e \in SignedEvents
    OBVIOUS
  <2> QED
    BY <2>1 DEF SignedEvents
<1>3. w.totals[e.publicKey] = BalanceBefore(rows, e.publicKey, i)
  BY <1>1, <1>2 DEF Clean
<1>4. passes <=> RowOK(rows, i, key)
  <2>1. e.prevHash = w.expectedPrev <=> PrevLinkOK(rows, i)
    BY <1>1 DEF Clean, PrevLinkOK
  <2>2. HashEvent(e) = e.eventHash <=> HashOK(rows, i)
    BY DEF HashOK
  <2>3. VerifyEventSig(e.eventHash, e.hqSig, key) <=> SigOK(rows, i, key)
    BY DEF SigOK
  <2>4. total = e.balance <=> BalanceOK(rows, i)
    BY <1>3 DEF BalanceOK
  <2> QED
    BY <2>1, <2>2, <2>3, <2>4 DEF RowOK
<1>5. /\ v.expectedPrev = e.eventHash /\ v.seq = i /\ v.failed = ~ passes
      /\ v.totals = [w.totals EXCEPT ![e.publicKey] = total]
  BY DEF WalkStep, Clean
<1> HIDE DEF v
<1>6. CASE RowOK(rows, i, key)
  <2>1. total = e.balance /\ passes
    BY <1>4, <1>6
  <2>2. v.totals = [k \in PubKeys |-> IF k = e.publicKey THEN e.balance
                                      ELSE BalanceBefore(rows, k, i)]
    <3>1. w.totals = [k \in PubKeys |-> BalanceBefore(rows, k, i)]
      BY <1>1 DEF Clean
    <3> HIDE DEF e, total
    <3> QED
      BY <1>5, <2>1, <3>1
  <2>3. \A k : BalanceBefore(rows, k, i + 1) =
                 IF k = e.publicKey THEN e.balance ELSE BalanceBefore(rows, k, i)
    BY <1>1, BalanceAfterRow
  <2>4. v.totals = [k \in PubKeys |-> BalanceBefore(rows, k, i + 1)]
    BY <2>2, <2>3
  <2> QED
    BY <1>1, <1>5, <1>6, <2>1, <2>4 DEF Clean, v
<1>7. CASE ~ RowOK(rows, i, key)
  BY <1>4, <1>5, <1>7 DEF v, Stopped
<1> QED
  BY <1>6, <1>7 DEF v

\* The rows before i pass.
PassedTo(rows, i, key) == \A j \in 1..(i - 1) : RowOK(rows, j, key)

\* After each number of rows the walk is clean, or it has stopped at the
\* first row that does not pass.
LEMMA WalkStops ==
  ASSUME NEW rows \in Seq(SignedEvents), \A i \in DOMAIN rows : rows[i].seq = i,
         NEW key, NEW w, Walks(w, rows, Len(rows), key)
  PROVE  \A i \in 0..Len(rows) :
           \/ PassedTo(rows, i + 1, key) /\ Clean(w[i], rows, i)
           \/ \E b \in 1..i : /\ ~ RowOK(rows, b, key) /\ PassedTo(rows, b, key)
                              /\ Stopped(w[i], b)
<1> DEFINE Stops(i) ==
             \/ PassedTo(rows, i + 1, key) /\ Clean(w[i], rows, i)
             \/ \E b \in 1..i : /\ ~ RowOK(rows, b, key) /\ PassedTo(rows, b, key)
                                /\ Stopped(w[i], b)
           P == {i \in Nat : i \in 0..Len(rows) => Stops(i)}
<1>0. Len(rows) \in Nat /\ DOMAIN rows = 1..Len(rows)
  OBVIOUS
<1>1. 0 \in P
  <2>1. w[0] = WalkStart
    BY <1>0 DEF Walks
  <2>2. EarlierRows(rows, 0, 1) = EarlierRows(rows, 0, 1) /\ \A k : EarlierRows(rows, k, 1) = {}
    BY DEF EarlierRows
  <2>3. \A k : BalanceBefore(rows, k, 1) = 0
    BY <2>2 DEF BalanceBefore
  <2>4. Clean(w[0], rows, 0)
    BY <2>1, <2>3 DEF Clean, WalkStart
  <2>5. PassedTo(rows, 1, key)
    BY DEF PassedTo
  <2> QED
    BY <2>4, <2>5
<1>2. ASSUME NEW m \in Nat, m \in P PROVE m + 1 \in P
  <2> SUFFICES ASSUME m + 1 \in 0..Len(rows) PROVE Stops(m + 1)
    <3>1. m + 1 \in Nat
      OBVIOUS
    <3> HIDE DEF Stops
    <3> QED
      BY <3>1
  <2>1. m \in 0..Len(rows) /\ m + 1 \in 1..Len(rows) /\ (m + 1) - 1 = m
    BY <1>0
  <2>2. Stops(m)
    BY <1>2, <2>1
  <2>3. w[m + 1] = WalkStep(w[m], rows[m + 1], key)
    BY <2>1 DEF Walks
  <2>4. CASE PassedTo(rows, m + 1, key) /\ Clean(w[m], rows, m)
    <3>1. /\ RowOK(rows, m + 1, key) => Clean(w[m + 1], rows, m + 1)
          /\ ~ RowOK(rows, m + 1, key) => Stopped(w[m + 1], m + 1)
      <4> DEFINE i == m + 1
      <4>1. /\ i \in 1..Len(rows) /\ rows[i].seq = i
            /\ Clean(w[m], rows, i - 1)
            /\ w[i] = WalkStep(w[m], rows[i], key)
        BY <1>0, <2>1, <2>3, <2>4
      <4> HIDE DEF i, Stops, P
      <4>2. /\ RowOK(rows, i, key) => Clean(w[i], rows, i)
            /\ ~ RowOK(rows, i, key) => Stopped(w[i], i)
        BY <4>1, StepChecksRow
      <4> QED
        BY <4>2 DEF i
    <3>2. RowOK(rows, m + 1, key) => PassedTo(rows, (m + 1) + 1, key)
      BY <2>4 DEF PassedTo
    <3> QED
      BY <2>1, <2>4, <3>1, <3>2
  <2>5. ASSUME NEW b \in 1..m, ~ RowOK(rows, b, key), PassedTo(rows, b, key),
               Stopped(w[m], b)
        PROVE  Stops(m + 1)
    <3>1. w[m + 1] = w[m]
      BY <2>3, <2>5 DEF WalkStep, Stopped
    <3> QED
      BY <2>5, <3>1
  <2> QED
    BY <2>2, <2>4, <2>5
<1>3. P = Nat
  <2>1. P \subseteq Nat
    OBVIOUS
  <2> HIDE DEF P
  <2> QED
    BY <1>1, <1>2, <2>1, CountUp
<1>4. \A i \in 0..Len(rows) : Stops(i)
  BY <1>3
<1> QED
  BY <1>4

\* ChainIntegrity reports the first bad row of any table whose rows are
\* numbered.
LEMMA IntegrityFindsFirst ==
  ASSUME NEW rows \in Seq(SignedEvents), \A i \in DOMAIN rows : rows[i].seq = i, NEW key
  PROVE  /\ ChainIntegrity(rows, key) = FirstBadRow(rows, key)
         /\ (\A i \in DOMAIN rows : RowOK(rows, i, key))
              => ~ ChainIntegrity(rows, key).failed
         /\ \A b \in DOMAIN rows : ~ RowOK(rows, b, key) /\ PassedTo(rows, b, key)
              => ChainIntegrity(rows, key) = [seq |-> b, failed |-> TRUE]
<1>0. Len(rows) \in Nat /\ DOMAIN rows = 1..Len(rows)
  OBVIOUS
<1>1. PICK w : /\ Walks(w, rows, Len(rows), key)
               /\ ChainIntegrity(rows, key) =
                    [seq |-> w[Len(rows)].seq, failed |-> w[Len(rows)].failed]
  BY <1>0, IntegrityWalks
<1> DEFINE n == Len(rows)
           bad == {i \in DOMAIN rows : ~ RowOK(rows, i, key)}
<1>2. \/ PassedTo(rows, n + 1, key) /\ Clean(w[n], rows, n)
      \/ \E b \in 1..n : /\ ~ RowOK(rows, b, key) /\ PassedTo(rows, b, key)
                         /\ Stopped(w[n], b)
  <2>1. n \in 0..n
    BY <1>0
  <2>2. Walks(w, rows, Len(rows), key)
    BY <1>1
  <2> QED
    BY <2>1, <2>2, WalkStops
<1>3. CASE PassedTo(rows, n + 1, key) /\ Clean(w[n], rows, n)
  <2>1. ChainIntegrity(rows, key) = [seq |-> n, failed |-> FALSE]
    BY <1>1, <1>3 DEF Clean
  <2>2. bad = {} /\ \A b \in DOMAIN rows : RowOK(rows, b, key)
    BY <1>0, <1>3 DEF PassedTo
  <2>3. FirstBadRow(rows, key) = [seq |-> n, failed |-> FALSE]
    BY <2>2 DEF FirstBadRow
  <2> QED
    BY <2>1, <2>2, <2>3
<1>4. ASSUME NEW b \in 1..n, ~ RowOK(rows, b, key), PassedTo(rows, b, key),
             Stopped(w[n], b)
      PROVE  /\ ChainIntegrity(rows, key) = FirstBadRow(rows, key)
             /\ ~ (\A i \in DOMAIN rows : RowOK(rows, i, key))
             /\ \A c \in DOMAIN rows : ~ RowOK(rows, c, key) /\ PassedTo(rows, c, key)
                  => c = b
             /\ ChainIntegrity(rows, key) = [seq |-> b, failed |-> TRUE]
  <2>1. ChainIntegrity(rows, key) = [seq |-> b, failed |-> TRUE]
    BY <1>1, <1>4 DEF Stopped
  <2>2. b \in bad /\ \A j \in bad : j \in Nat /\ b =< j
    BY <1>0, <1>4 DEF PassedTo
  <2> HIDE DEF bad
  <2>3. (CHOOSE i \in bad : \A j \in bad : i =< j) = b
    BY <1>4, <2>2
  <2>4. FirstBadRow(rows, key) = [seq |-> b, failed |-> TRUE]
    BY <2>2, <2>3 DEF FirstBadRow, bad
  <2>5. \A c \in DOMAIN rows : ~ RowOK(rows, c, key) /\ PassedTo(rows, c, key) => c = b
    BY <1>0, <1>4 DEF PassedTo
  <2> QED
    BY <1>0, <1>4, <2>1, <2>4, <2>5
<1> QED
  BY <1>2, <1>3, <1>4

\* What is joined on either side of a column does not hide a change of it.
LEMMA CancelRight ==
  ASSUME NEW x \in CanonicalForms, NEW y \in CanonicalForms, NEW b \in CanonicalForms, x \o b = y \o b
  PROVE  x = y
  BY ConcatSimplifications DEF CanonicalForms

LEMMA CancelLeft ==
  ASSUME NEW x \in CanonicalForms, NEW y \in CanonicalForms, NEW a \in CanonicalForms, a \o x = a \o y
  PROVE  x = y
  BY ConcatSimplifications DEF CanonicalForms

LEMMA JoinType ==
  ASSUME NEW a \in CanonicalForms, NEW b \in CanonicalForms
  PROVE  a \o b \in CanonicalForms
  BY DEF CanonicalForms

\* The columns of a row as the canonical form joins them.
Joined(h, p, v, t, r, m) == h \o p \o v \o t \o r \o m

\* A change of one column shows in the join, whatever stands before and after.
LEMMA KeyShows ==
  ASSUME NEW h \in CanonicalForms, NEW p \in CanonicalForms, NEW v \in CanonicalForms,
         NEW t \in CanonicalForms, NEW r \in CanonicalForms, NEW m \in CanonicalForms, NEW y \in CanonicalForms,
         Joined(h, y, v, t, r, m) = Joined(h, p, v, t, r, m)
  PROVE  y = p
<1> DEFINE a == h
           l0 == a \o y
           r0 == a \o p
           l1 == l0 \o v
           r1 == r0 \o v
           l2 == l1 \o t
           r2 == r1 \o t
           l3 == l2 \o r
           r3 == r2 \o r
           l4 == l3 \o m
           r4 == r3 \o m
<1>1. l4 = r4
  BY DEF Joined
<1>2. a \in CanonicalForms
  BY JoinType
<1> HIDE DEF a
<1>3. l0 \in CanonicalForms /\ r0 \in CanonicalForms
  BY <1>2, JoinType
<1> HIDE DEF l0, r0
<1>4. l1 \in CanonicalForms /\ r1 \in CanonicalForms
  BY <1>3, JoinType
<1> HIDE DEF l1, r1
<1>5. l2 \in CanonicalForms /\ r2 \in CanonicalForms
  BY <1>4, JoinType
<1> HIDE DEF l2, r2
<1>6. l3 \in CanonicalForms /\ r3 \in CanonicalForms
  BY <1>5, JoinType
<1>7. l3 = r3
  <2> HIDE DEF l3, r3
  <2> QED
    BY <1>6, <1>1, CancelRight
<1>8. l2 = r2
  <2> HIDE DEF l2, r2
  <2> QED
    BY <1>5, <1>7, CancelRight DEF l3, r3
<1>9. l1 = r1
  <2> HIDE DEF l1, r1
  <2> QED
    BY <1>4, <1>8, CancelRight DEF l2, r2
<1>10. l0 = r0
  <2> HIDE DEF l0, r0
  <2> QED
    BY <1>3, <1>9, CancelRight DEF l1, r1
<1> QED
  BY <1>2, <1>10, CancelLeft DEF l0, r0

LEMMA AmountsShows ==
  ASSUME NEW h \in CanonicalForms, NEW p \in CanonicalForms, NEW v \in CanonicalForms,
         NEW t \in CanonicalForms, NEW r \in CanonicalForms, NEW m \in CanonicalForms, NEW y \in CanonicalForms,
         Joined(h, p, y, t, r, m) = Joined(h, p, v, t, r, m)
  PROVE  y = v
<1> DEFINE a == h \o p
           l0 == a \o y
           r0 == a \o v
           l1 == l0 \o t
           r1 == r0 \o t
           l2 == l1 \o r
           r2 == r1 \o r
           l3 == l2 \o m
           r3 == r2 \o m
<1>1. l3 = r3
  BY DEF Joined
<1>2. a \in CanonicalForms
  BY JoinType
<1> HIDE DEF a
<1>3. l0 \in CanonicalForms /\ r0 \in CanonicalForms
  BY <1>2, JoinType
<1> HIDE DEF l0, r0
<1>4. l1 \in CanonicalForms /\ r1 \in CanonicalForms
  BY <1>3, JoinType
<1> HIDE DEF l1, r1
<1>5. l2 \in CanonicalForms /\ r2 \in CanonicalForms
  BY <1>4, JoinType
<1>6. l2 = r2
  <2> HIDE DEF l2, r2
  <2> QED
    BY <1>5, <1>1, CancelRight
<1>7. l1 = r1
  <2> HIDE DEF l1, r1
  <2> QED
    BY <1>4, <1>6, CancelRight DEF l2, r2
<1>8. l0 = r0
  <2> HIDE DEF l0, r0
  <2> QED
    BY <1>3, <1>7, CancelRight DEF l1, r1
<1> QED
  BY <1>2, <1>8, CancelLeft DEF l0, r0

LEMMA TypeShows ==
  ASSUME NEW h \in CanonicalForms, NEW p \in CanonicalForms, NEW v \in CanonicalForms,
         NEW t \in CanonicalForms, NEW r \in CanonicalForms, NEW m \in CanonicalForms, NEW y \in CanonicalForms,
         Joined(h, p, v, y, r, m) = Joined(h, p, v, t, r, m)
  PROVE  y = t
<1> DEFINE a == h \o p \o v
           l0 == a \o y
           r0 == a \o t
           l1 == l0 \o r
           r1 == r0 \o r
           l2 == l1 \o m
           r2 == r1 \o m
<1>1. l2 = r2
  BY DEF Joined
<1>2. a \in CanonicalForms
  BY JoinType
<1> HIDE DEF a
<1>3. l0 \in CanonicalForms /\ r0 \in CanonicalForms
  BY <1>2, JoinType
<1> HIDE DEF l0, r0
<1>4. l1 \in CanonicalForms /\ r1 \in CanonicalForms
  BY <1>3, JoinType
<1>5. l1 = r1
  <2> HIDE DEF l1, r1
  <2> QED
    BY <1>4, <1>1, CancelRight
<1>6. l0 = r0
  <2> HIDE DEF l0, r0
  <2> QED
    BY <1>3, <1>5, CancelRight DEF l1, r1
<1> QED
  BY <1>2, <1>6, CancelLeft DEF l0, r0

LEMMA ReasonShows ==
  ASSUME NEW h \in CanonicalForms, NEW p \in CanonicalForms, NEW v \in CanonicalForms,
         NEW t \in CanonicalForms, NEW r \in CanonicalForms, NEW m \in CanonicalForms, NEW y \in CanonicalForms,
         Joined(h, p, v, t, y, m) = Joined(h, p, v, t, r, m)
  PROVE  y = r
<1> DEFINE a == h \o p \o v \o t
           l0 == a \o y
           r0 == a \o r
           l1 == l0 \o m
           r1 == r0 \o m
<1>1. l1 = r1
  BY DEF Joined
<1>2. a \in CanonicalForms
  BY JoinType
<1> HIDE DEF a
<1>3. l0 \in CanonicalForms /\ r0 \in CanonicalForms
  BY <1>2, JoinType
<1>4. l0 = r0
  <2> HIDE DEF l0, r0
  <2> QED
    BY <1>3, <1>1, CancelRight
<1> QED
  BY <1>2, <1>4, CancelLeft

LEMMA TimeShows ==
  ASSUME NEW h \in CanonicalForms, NEW p \in CanonicalForms, NEW v \in CanonicalForms,
         NEW t \in CanonicalForms, NEW r \in CanonicalForms, NEW m \in CanonicalForms, NEW y \in CanonicalForms,
         Joined(h, p, v, t, r, y) = Joined(h, p, v, t, r, m)
  PROVE  y = m
<1> DEFINE a == h \o p \o v \o t \o r
           l0 == a \o y
           r0 == a \o m
<1>1. l0 = r0
  BY DEF Joined
<1>2. a \in CanonicalForms
  BY JoinType
<1> HIDE DEF a
<1>3. l0 \in CanonicalForms /\ r0 \in CanonicalForms
  BY <1>2, JoinType
<1> QED
  BY <1>2, <1>1, CancelLeft

\* Two rows of the table that differ in exactly one hashed column.
OneColumnDiffers(x, e) ==
  \/ /\ x.publicKey # e.publicKey
     /\ x.amount = e.amount /\ x.balance = e.balance /\ x.note = e.note
  \/ /\ x.publicKey = e.publicKey /\ x.note = e.note
     /\ \/ x.amount # e.amount
        \/ x.balance # e.balance
  \/ /\ x.publicKey = e.publicKey /\ x.amount = e.amount /\ x.balance = e.balance
     /\ \/ /\ x.note.type # e.note.type
           /\ x.note.reason = e.note.reason /\ x.note.time = e.note.time
        \/ /\ x.note.reason # e.note.reason
           /\ x.note.type = e.note.type /\ x.note.time = e.note.time
        \/ /\ x.note.time # e.note.time
           /\ x.note.type = e.note.type /\ x.note.reason = e.note.reason

\* The canonical form tells such rows apart.
LEMMA OneColumnRow ==
  ASSUME NEW e \in SignedEvents, NEW x \in SignedEvents, x.seq = e.seq,
         OneColumnDiffers(x, e)
  PROVE  CanonicalForm(x) # CanonicalForm(e)
<1> DEFINE h == <<e.seq>>
           p == e.publicKey
           v == <<e.amount, e.balance>>
           w == <<x.amount, x.balance>>
           t == e.note.type
           r == e.note.reason
           m == e.note.time
<1>1. /\ p \in CanonicalForms /\ x.publicKey \in CanonicalForms
      /\ t \in CanonicalForms /\ x.note.type \in CanonicalForms
      /\ r \in CanonicalForms /\ x.note.reason \in CanonicalForms
      /\ m \in CanonicalForms /\ x.note.time \in CanonicalForms
  <2>1. \A u \in Texts : u \in CanonicalForms
    BY DEF Texts, CanonicalForms
  <2> QED
    BY <2>1, ChainAssumption DEF SignedEvents, NoteTexts
<1>2. h \in CanonicalForms /\ v \in CanonicalForms /\ w \in CanonicalForms
  BY DEF SignedEvents, IntRange, CanonicalForms
<1>3. (x.amount # e.amount \/ x.balance # e.balance) => w # v
  OBVIOUS
<1>4. (x.amount = e.amount /\ x.balance = e.balance) => w = v
  OBVIOUS
<1>5. /\ CanonicalForm(e) = Joined(h, p, v, t, r, m)
      /\ CanonicalForm(x) =
           Joined(h, x.publicKey, w, x.note.type, x.note.reason, x.note.time)
  BY DEF CanonicalForm, Joined
<1>6. x.note = e.note => x.note.type = t /\ x.note.reason = r /\ x.note.time = m
  OBVIOUS
<1>7. ASSUME x.publicKey # e.publicKey, w = v, x.note = e.note
      PROVE  CanonicalForm(x) # CanonicalForm(e)
  <2> DEFINE y == x.publicKey
  <2>1. CanonicalForm(x) = Joined(h, y, v, t, r, m) /\ y # p /\ y \in CanonicalForms
    BY <1>1, <1>2, <1>5, <1>6, <1>7
  <2> HIDE DEF h, p, v, w, t, r, m, y
  <2>2. Joined(h, y, v, t, r, m) # Joined(h, p, v, t, r, m)
    BY ONLY <1>1, <1>2, <2>1, KeyShows
  <2> QED
    BY <1>5, <2>1, <2>2, Zenon
<1>8. ASSUME x.publicKey = e.publicKey, w # v, x.note = e.note
      PROVE  CanonicalForm(x) # CanonicalForm(e)
  <2> DEFINE y == w
  <2>1. CanonicalForm(x) = Joined(h, p, y, t, r, m) /\ y # v /\ y \in CanonicalForms
    BY <1>1, <1>2, <1>5, <1>6, <1>8
  <2> HIDE DEF h, p, v, w, t, r, m, y
  <2>2. Joined(h, p, y, t, r, m) # Joined(h, p, v, t, r, m)
    BY ONLY <1>1, <1>2, <2>1, AmountsShows
  <2> QED
    BY <1>5, <2>1, <2>2, Zenon
<1>9. ASSUME x.publicKey = e.publicKey, w = v, x.note.type # t,
             x.note.reason = r, x.note.time = m
      PROVE  CanonicalForm(x) # CanonicalForm(e)
  <2> DEFINE y == x.note.type
  <2>1. CanonicalForm(x) = Joined(h, p, v, y, r, m) /\ y # t /\ y \in CanonicalForms
    BY <1>1, <1>2, <1>5, <1>6, <1>9
  <2> HIDE DEF h, p, v, w, t, r, m, y
  <2>2. Joined(h, p, v, y, r, m) # Joined(h, p, v, t, r, m)
    BY ONLY <1>1, <1>2, <2>1, TypeShows
  <2> QED
    BY <1>5, <2>1, <2>2, Zenon
<1>10. ASSUME x.publicKey = e.publicKey, w = v, x.note.reason # r,
             x.note.type = t, x.note.time = m
      PROVE  CanonicalForm(x) # CanonicalForm(e)
  <2> DEFINE y == x.note.reason
  <2>1. CanonicalForm(x) = Joined(h, p, v, t, y, m) /\ y # r /\ y \in CanonicalForms
    BY <1>1, <1>2, <1>5, <1>6, <1>10
  <2> HIDE DEF h, p, v, w, t, r, m, y
  <2>2. Joined(h, p, v, t, y, m) # Joined(h, p, v, t, r, m)
    BY ONLY <1>1, <1>2, <2>1, ReasonShows
  <2> QED
    BY <1>5, <2>1, <2>2, Zenon
<1>11. ASSUME x.publicKey = e.publicKey, w = v, x.note.time # m,
             x.note.type = t, x.note.reason = r
      PROVE  CanonicalForm(x) # CanonicalForm(e)
  <2> DEFINE y == x.note.time
  <2>1. CanonicalForm(x) = Joined(h, p, v, t, r, y) /\ y # m /\ y \in CanonicalForms
    BY <1>1, <1>2, <1>5, <1>6, <1>11
  <2> HIDE DEF h, p, v, w, t, r, m, y
  <2>2. Joined(h, p, v, t, r, y) # Joined(h, p, v, t, r, m)
    BY ONLY <1>1, <1>2, <2>1, TimeShows
  <2> QED
    BY <1>5, <2>1, <2>2, Zenon
<1> QED
  BY <1>3, <1>4, <1>7, <1>8, <1>9, <1>10, <1>11 DEF OneColumnDiffers

\* An overwritten row is a row of the table with its number and signature,
\* and says something else.
LEMMA OverwrittenRow ==
  ASSUME NEW row \in SignedEvents, NEW e \in Overwritten(row)
  PROVE  /\ e \in SignedEvents
         /\ e.seq = row.seq /\ e.hqSig = row.hqSig
         /\ CanonicalForm(e) # CanonicalForm(row)
<1> DEFINE changed == {[row EXCEPT !.amount = d] : d \in Deltas \ {row.amount}}
                        \cup {[row EXCEPT !.balance = b] : b \in Tokens \ {row.balance}}
                        \cup {[row EXCEPT !.publicKey = k] : k \in PubKeys \ {row.publicKey}}
                        \cup {[row EXCEPT !.note = n] : n \in OtherNotes(row.note)}
<1>1. Deltas \subseteq IntRange /\ Tokens \subseteq IntRange
  BY ChainAssumption DEF IntRange, Tokens
<1>2. ASSUME NEW x \in changed
      PROVE  /\ x \in SignedEvents /\ x.seq = row.seq /\ x.hqSig = row.hqSig
             /\ OneColumnDiffers(x, row)
  <2>1. CASE \E d \in Deltas \ {row.amount} : x = [row EXCEPT !.amount = d]
    <3> PICK d \in Deltas \ {row.amount} : x = [row EXCEPT !.amount = d]
      BY <2>1
    <3> QED
      BY <1>1 DEF SignedEvents, OneColumnDiffers
  <2>2. CASE \E b \in Tokens \ {row.balance} : x = [row EXCEPT !.balance = b]
    <3> PICK b \in Tokens \ {row.balance} : x = [row EXCEPT !.balance = b]
      BY <2>2
    <3> QED
      BY <1>1 DEF SignedEvents, OneColumnDiffers
  <2>3. CASE \E k \in PubKeys \ {row.publicKey} : x = [row EXCEPT !.publicKey = k]
    <3> PICK k \in PubKeys \ {row.publicKey} : x = [row EXCEPT !.publicKey = k]
      BY <2>3
    <3> QED
      BY DEF SignedEvents, OneColumnDiffers
  <2>4. CASE \E n \in OtherNotes(row.note) : x = [row EXCEPT !.note = n]
    <3> PICK n \in OtherNotes(row.note) : x = [row EXCEPT !.note = n]
      BY <2>4
    <3>1. row.note \in NoteTexts
      BY DEF SignedEvents
    <3>2. /\ n \in NoteTexts
          /\ \/ /\ n.type # row.note.type
                /\ n.reason = row.note.reason /\ n.time = row.note.time
             \/ /\ n.reason # row.note.reason
                /\ n.type = row.note.type /\ n.time = row.note.time
             \/ /\ n.time # row.note.time
                /\ n.type = row.note.type /\ n.reason = row.note.reason
      BY <3>1, AuditAssumption DEF OtherNotes, NoteTexts
    <3>3. /\ x.note = n /\ x.seq = row.seq /\ x.hqSig = row.hqSig
          /\ x.publicKey = row.publicKey /\ x.amount = row.amount
          /\ x.balance = row.balance /\ x \in SignedEvents
      BY <3>2 DEF SignedEvents
    <3> QED
      BY <3>2, <3>3 DEF OneColumnDiffers
  <2> QED
    BY <2>1, <2>2, <2>3, <2>4
<1>3. ASSUME NEW x \in changed, e = [x EXCEPT !.eventHash = HashEvent(x)]
      PROVE  /\ e \in SignedEvents /\ e.seq = row.seq /\ e.hqSig = row.hqSig
             /\ CanonicalForm(e) # CanonicalForm(row)
  <2> HIDE DEF changed
  <2>1. /\ x \in SignedEvents /\ x.seq = row.seq /\ x.hqSig = row.hqSig
        /\ CanonicalForm(x) # CanonicalForm(row)
    BY <1>2, OneColumnRow
  <2>2. CanonicalForm(x) \in CanonicalForms /\ x.prevHash \in Seq(CanonicalForms)
    BY <2>1, CanonicalFormType DEF SignedEvents, Digests
  <2>3. HashEvent(x) \in Digests
    BY <2>2 DEF HashEvent, Digests
  <2>4. CanonicalForm(e) = CanonicalForm(x)
    BY <1>3, <2>1 DEF CanonicalForm, SignedEvents
  <2>5. e \in SignedEvents /\ e.seq = x.seq /\ e.hqSig = x.hqSig
    BY <1>3, <2>1, <2>3 DEF SignedEvents
  <2> QED
    BY <2>1, <2>4, <2>5
<1>4. e \in changed \/ \E x \in changed : e = [x EXCEPT !.eventHash = HashEvent(x)]
  BY DEF Overwritten
<1>5. ASSUME e \in changed
      PROVE  /\ e \in SignedEvents /\ e.seq = row.seq /\ e.hqSig = row.hqSig
             /\ CanonicalForm(e) # CanonicalForm(row)
  <2>1. /\ e \in SignedEvents /\ e.seq = row.seq /\ e.hqSig = row.hqSig
        /\ OneColumnDiffers(e, row)
    BY <1>2, <1>5
  <2> QED
    BY <2>1, OneColumnRow
<1> QED
  BY <1>3, <1>4, <1>5

\* A shifted row is a row of the table with its number.
LEMMA ShiftedRow ==
  ASSUME NEW row \in SignedEvents, NEW e \in Shifted(row)
  PROVE  e \in SignedEvents /\ e.seq = row.seq
<1> DEFINE n == row.note
           t == n.type
           r == n.reason
           m == [n EXCEPT !.type = Append(t, Head(r)), !.reason = Tail(r)]
<1>1. n \in NoteTexts
  BY DEF SignedEvents
<1>2. t \in Seq(Words) /\ r \in Seq(Words)
  BY <1>1 DEF NoteTexts, Texts
<1>3. Len(r) > 1 /\ e = [row EXCEPT !.note = m]
  BY DEF Shifted
<1>4. Append(t, Head(r)) \in Texts /\ Tail(r) \in Texts
  <2> HIDE DEF t, r
  <2>1. /\ Append(t, Head(r)) \in Seq(Words) /\ Len(Append(t, Head(r))) = Len(t) + 1
        /\ Tail(r) \in Seq(Words) /\ Len(Tail(r)) = Len(r) - 1
        /\ Len(r) \in Nat /\ Len(t) \in Nat
    BY <1>2, <1>3
  <2>2. Len(Append(t, Head(r))) # 0 /\ Len(Tail(r)) # 0
    BY <1>3, <2>1
  <2>3. Len(<< >>) = 0
    OBVIOUS
  <2>4. Append(t, Head(r)) # << >> /\ Tail(r) # << >>
    BY <2>2, <2>3, Zenon
  <2> QED
    BY <2>1, <2>4 DEF Texts
<1>5. m \in NoteTexts
  <2> HIDE DEF t, r
  <2> QED
    BY <1>1, <1>4 DEF NoteTexts
<1> HIDE DEF m
<1> QED
  BY <1>3, <1>5 DEF SignedEvents

\* A copy of the chain with one row overwritten is a table of numbered rows.
Copy(i, e) == [chain EXCEPT ![i] = e]

\* Only the one row differs.
LEMMA DamagedCopy ==
  ASSUME IInv, NEW i \in DOMAIN chain,
         NEW e \in Overwritten(chain[i]) \cup Shifted(chain[i])
  PROVE  /\ Copy(i, e) \in Seq(SignedEvents) /\ DOMAIN Copy(i, e) = DOMAIN chain
         /\ \A j \in DOMAIN Copy(i, e) : Copy(i, e)[j].seq = j
         /\ \A j \in DOMAIN Copy(i, e) : j # i => Copy(i, e)[j] = chain[j]
<1>1. chain \in Seq(SignedEvents) /\ chain[i] \in SignedEvents
  BY DEF IInv, TypeOK
<1>2. e \in SignedEvents /\ e.seq = chain[i].seq
  BY <1>1, OverwrittenRow, ShiftedRow
<1>3. /\ Copy(i, e) \in Seq(SignedEvents) /\ DOMAIN Copy(i, e) = DOMAIN chain
      /\ Copy(i, e)[i] = e /\ \A j \in DOMAIN Copy(i, e) : j # i => Copy(i, e)[j] = chain[j]
  BY <1>1, <1>2 DEF Copy
<1> QED
  BY <1>2, <1>3 DEF IInv, SeqNumbersGapless

\* On the chain itself, under every key, and on every damaged copy of it, the
\* one-pass walk reports what the row-by-row reading of the checks says.
THEOREM WalkIsExact == Spec => []WalkFindsFirstBadRow
<1>1. ASSUME IInv PROVE WalkFindsFirstBadRow
  <2>1. ASSUME NEW key \in HQKeys
        PROVE  ChainIntegrity(chain, key) = FirstBadRow(chain, key)
    BY <1>1, IntegrityFindsFirst DEF IInv, TypeOK, SeqNumbersGapless
  <2>2. ASSUME NEW rows \in Damaged
        PROVE  ChainIntegrity(rows, hqKey) = FirstBadRow(rows, hqKey)
    <3>1. PICK i \in DOMAIN chain : \E e \in Overwritten(chain[i]) \cup Shifted(chain[i]) :
            rows = Copy(i, e)
      BY DEF Damaged, Copy
    <3>2. rows \in Seq(SignedEvents) /\ \A j \in DOMAIN rows : rows[j].seq = j
      BY <1>1, <3>1, DamagedCopy
    <3> QED
      BY <3>2, IntegrityFindsFirst
  <2> QED
    BY <2>1, <2>2 DEF WalkFindsFirstBadRow
<1> QED
  BY <1>1, Invariance, PTL

\* Overwriting any one hashed column of any one row, with whatever text or
\* number, stops the walk at that row, though the join escapes nothing.
THEOREM TamperingStopsTheWalk == Spec => []TamperEvident
<1>1. ASSUME IInv, ChainVerifies, TamperedRowFails PROVE TamperEvident
  <2> SUFFICES ASSUME hqKey \in Configured, NEW i \in DOMAIN chain,
                      NEW e \in Overwritten(chain[i])
               PROVE  ChainIntegrity([chain EXCEPT ![i] = e], hqKey) =
                        [seq |-> i, failed |-> TRUE]
    BY DEF TamperEvident
  <2> DEFINE rows == Copy(i, e)
  <2>1. /\ rows \in Seq(SignedEvents) /\ DOMAIN rows = DOMAIN chain
        /\ \A j \in DOMAIN rows : rows[j].seq = j
        /\ \A j \in DOMAIN rows : j # i => rows[j] = chain[j]
    BY <1>1, DamagedCopy
  <2>2. ~ RowOK(rows, i, hqKey)
    <3>1. chain[i] \in SignedEvents /\ hqKey \in HQKeys
      BY <1>1 DEF IInv, TypeOK
    <3>2. /\ e \in SignedEvents /\ e.hqSig = chain[i].hqSig
          /\ CanonicalForm(e) # CanonicalForm(chain[i])
      BY <3>1, OverwrittenRow
    <3> QED
      BY <1>1, <3>1, <3>2 DEF TamperedRowFails, Copy
  <2> HIDE DEF rows
  <2>3. PassedTo(rows, i, hqKey)
    <3> SUFFICES ASSUME NEW j \in 1..(i - 1) PROVE RowOK(rows, j, hqKey)
      BY DEF PassedTo
    <3>1. /\ DOMAIN chain = 1..Len(chain) /\ Len(chain) \in Nat
      BY <1>1 DEF IInv, TypeOK
    <3>2. j \in Nat \ {0} /\ j \in DOMAIN chain
          /\ \A m \in 1..j : m \in DOMAIN rows /\ m # i
      BY <2>1, <3>1
    <3>3. \A m \in 1..j : rows[m] = chain[m]
      BY <2>1, <3>2
    <3>4. RowOK(chain, j, hqKey)
      BY <1>1, <3>2 DEF ChainVerifies
    <3> QED
      BY <3>2, <3>3, <3>4, RowChecksLocal DEF RowOK
  <2>4. ChainIntegrity(rows, hqKey) = [seq |-> i, failed |-> TRUE]
    BY <2>1, <2>2, <2>3, IntegrityFindsFirst
  <2> QED
    BY <2>4 DEF rows, Copy
<1> QED
  BY <1>1, Invariance, ChainAlwaysVerifies, TamperingIsCaught, PTL

\* What a client downloads verifies with the configured key on its own, at
\* whatever row the limit cuts it.
THEOREM DownloadsVerify == Spec => []DownloadVerifies
<1>1. ASSUME IInv, ChainVerifies PROVE DownloadVerifies
  <2> SUFFICES ASSUME hqKey \in Configured
               PROVE  ~ ChainIntegrity(FullChain(ChainLimit), hqKey).failed
    BY DEF DownloadVerifies
  <2>1. chain \in Seq(SignedEvents) /\ Len(chain) \in Nat /\ DOMAIN chain = 1..Len(chain)
    BY <1>1 DEF IInv, TypeOK
  <2> DEFINE n == IF ChainLimit < Len(chain) THEN ChainLimit ELSE Len(chain)
             rows == SubSeq(chain, 1, n)
  <2>2. n \in Nat /\ n =< Len(chain)
    BY <2>1, AuditAssumption
  <2>3. /\ rows \in Seq(SignedEvents) /\ DOMAIN rows = 1..n
        /\ \A j \in 1..n : rows[j] = chain[j]
    <3> HIDE DEF n
    <3> QED
      BY <2>1, <2>2
  <2>4. FullChain(ChainLimit) = rows
    BY DEF FullChain
  <2> HIDE DEF n, rows
  <2>5. \A j \in DOMAIN rows : rows[j].seq = j
    BY <1>1, <2>1, <2>2, <2>3 DEF IInv, SeqNumbersGapless
  <2>6. ASSUME NEW j \in DOMAIN rows PROVE RowOK(rows, j, hqKey)
    <3>1. j \in Nat \ {0} /\ j \in DOMAIN chain /\ \A m \in 1..j : rows[m] = chain[m]
      BY <2>1, <2>2, <2>3
    <3>2. RowOK(chain, j, hqKey)
      BY <1>1, <3>1 DEF ChainVerifies
    <3> QED
      BY <3>1, <3>2, RowChecksLocal DEF RowOK
  <2> QED
    BY <2>3, <2>4, <2>5, <2>6, IntegrityFindsFirst
<1> QED
  BY <1>1, Invariance, ChainAlwaysVerifies, PTL
=============================================================================
