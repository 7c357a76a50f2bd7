---------------------------- MODULE ChainTxProofs ----------------------------
(***************************************************************************)
(* AppendSignedEvent, taken apart into statements that fail and a process  *)
(* that dies, is atomic: the committed tables implement ObolChain, for any *)
(* number of callers.  What is proved there then holds of the tables.      *)
(***************************************************************************)
EXTENDS ChainTx, FiniteSetTheorems, SequenceTheorems, TLAPS

P == INSTANCE ObolChainProofs WITH balances <- db.balances, chain <- db.chain,
                                   tokenEvents <- db.tokenEvents,
                                   ChainLimit <- 10000,
                                   OverwriteTexts <- Seq(Words) \ {<< >>}

\* What is assumed here is what ObolChain assumes.
LEMMA AbsAssumption == P!ChainAssumption
<1>1. \A n \in 1..MaxEvents : <<n>> \in P!Texts
  BY ChainTxAssumption DEF P!Texts
<1>2. Notes \subseteq P!NoteTexts
  BY <1>1 DEF Notes, NotesTo, NoteOf, P!NoteTexts
<1> QED
  BY <1>2, ChainTxAssumption DEF P!ChainAssumption, P!Texts

\* The audit's bound, as main.go gives it, and every text there is are ones the
\* chain's audit allows.
LEMMA LimitHolds == P!AuditAssumption
  BY DEF P!AuditAssumption, P!Texts

\* The notes of two calls differ, and a note stays one as calls are made.
LEMMA NotesDiffer ==
  ASSUME NEW n \in Nat
  PROVE  /\ NoteOf(n + 1) \notin NotesTo(n)
         /\ NotesTo(n) \subseteq NotesTo(n + 1)
         /\ NoteOf(n + 1) \in NotesTo(n + 1)
         /\ n < MaxEvents => NoteOf(n + 1) \in Notes
<1>1. \A i, j : NoteOf(i) = NoteOf(j) => i = j
  BY DEF NoteOf
<1> QED
  BY <1>1, ChainTxAssumption DEF NotesTo, Notes

\* ObolChain's steps and types under either name.
LEMMA SameType == Abs!TypeOK <=> P!TypeOK
  BY DEF Abs!TypeOK, P!TypeOK, Abs!Tokens, P!Tokens, Abs!SignedEvents, P!SignedEvents,
         Abs!IntRange, P!IntRange, Abs!Digests, P!Digests, Abs!CanonicalForms, P!CanonicalForms,
         Abs!Texts, P!Texts, Abs!NoteTexts, P!NoteTexts

\* Their steps are the same.
LEMMA SameStep == [Abs!Next]_(Abs!chainVars) => [P!Next]_(P!chainVars)
  BY DEF Abs!Next, P!Next, Abs!chainVars, P!chainVars, Abs!AppendSignedEvent,
         P!AppendSignedEvent, Abs!CounterSign, P!CounterSign, Abs!Restart, P!Restart,
         Abs!KeysAfter, P!KeysAfter, Abs!Wrap, P!Wrap, Abs!NewEvent, P!NewEvent,
         Abs!ToReceipt, P!ToReceipt, Abs!LastChainHash, P!LastChainHash,
         Abs!GenesisHash, P!GenesisHash, Abs!HashEvent, P!HashEvent,
         Abs!CanonicalForm, P!CanonicalForm, Abs!SignHash, P!SignHash

\* The types of ObolChain are kept by its steps.
LEMMA AbsTypeInductive == Abs!TypeOK /\ [Abs!Next]_(Abs!chainVars) => Abs!TypeOK'
<1>1. P!TypeOK /\ [P!Next]_(P!chainVars) => P!TypeOK'
  BY AbsAssumption, LimitHolds, P!TypeInductive
<1>2. Abs!TypeOK' <=> P!TypeOK'
  BY DEF Abs!TypeOK, P!TypeOK, Abs!Tokens, P!Tokens, Abs!SignedEvents, P!SignedEvents,
         Abs!IntRange, P!IntRange, Abs!Digests, P!Digests, Abs!CanonicalForms, P!CanonicalForms,
         Abs!Texts, P!Texts, Abs!NoteTexts, P!NoteTexts
<1> QED
  BY <1>1, <1>2, SameType, SameStep

-----------------------------------------------------------------------------
(***************************************************************************)
(* The inductive invariant.  One call is between Lock and Unlock, and      *)
(* while it is, its view is what it has made of the committed tables so    *)
(* far, which nobody else can change: its step at Commit is then the whole *)
(* of AppendSignedEvent.  There is room for the row since every row, and   *)
(* every call under way, took a number.                                    *)
(***************************************************************************)
Tables(b, ch, t) == [balances |-> b, chain |-> ch, tokenEvents |-> t]
Calls == [key : PubKeys, delta : Deltas, note : Notes, newBal : Abs!IntRange]

Shape == /\ db = Tables(db.balances, db.chain, db.tokenEvents)
         /\ Abs!TypeOK
         /\ DOMAIN tx = Callers /\ DOMAIN reply = Callers
         /\ pc \in [Callers -> {"idle", "lock", "reply"} \cup InTx]
         /\ call \in [Callers -> Calls \cup {NoCall}]
         /\ \A c \in Callers : pc[c] # "idle" => call[c] \in Calls

MutexHeld == \A c \in Callers : pc[c] \in InTx <=> mutex = c

\* The balance a call is about to write is the one its event asks for.
BalanceDue ==
  \A c \in Callers : pc[c] \in InTx \ {"read"} =>
    /\ call[c].newBal = Abs!Wrap(db.balances[call[c].key] + call[c].delta)
    /\ call[c].newBal >= 0

Balances(c) == [db.balances EXCEPT ![call[c].key] = call[c].newBal]
Event(c) == Abs!NewEvent(call[c].key, call[c].delta, call[c].newBal, call[c].note)
Unhashed(c) ==
  [seq |-> Len(db.chain) + 1, publicKey |-> call[c].key, amount |-> call[c].delta,
   balance |-> call[c].newBal, note |-> call[c].note,
   prevHash |-> Abs!LastChainHash(db.chain), eventHash |-> None, hqSig |-> None,
   counterSig |-> NoCounterSig]
Logged(c) == Append(db.tokenEvents, <<call[c].key, call[c].delta, call[c].note>>)

View(c) ==
  /\ pc[c] \in {"read", "upsert"} => tx[c] = db
  /\ pc[c] = "insert" => tx[c] = Tables(Balances(c), db.chain, db.tokenEvents)
  /\ pc[c] = "hash" =>
       tx[c] = Tables(Balances(c), Append(db.chain, Unhashed(c)), db.tokenEvents)
  /\ pc[c] = "legacy" =>
       tx[c] = Tables(Balances(c), Append(db.chain, Event(c)), db.tokenEvents)
  /\ pc[c] = "commit" =>
       tx[c] = Tables(Balances(c), Append(db.chain, Event(c)), Logged(c))

Views == \A c \in Callers : View(c)

Pending == {c \in Callers : pc[c] \in {"lock"} \cup InTx}

Room == /\ calls \in 0..MaxEvents
        /\ IsFiniteSet(Pending)
        /\ Len(db.chain) + Cardinality(Pending) =< calls

Inv == Shape /\ MutexHeld /\ BalanceDue /\ Views /\ Room

\* The invariant holds of empty tables.
LEMMA InvInit == Init => Inv
<1> SUFFICES ASSUME Init PROVE Inv
  OBVIOUS
<1>1. Shape
  BY ChainTxAssumption DEF Init, Shape, Tables, Abs!TypeOK, Abs!Tokens
<1>2. MutexHeld /\ BalanceDue /\ Views
  BY ChainTxAssumption DEF Init, MutexHeld, BalanceDue, Views, View, InTx
<1>3. Pending = {}
  BY DEF Init, Pending, InTx
<1>4. Room
  BY <1>3, FS_EmptySet, ChainTxAssumption DEF Init, Room
<1> QED
  BY <1>1, <1>2, <1>4 DEF Inv

-----------------------------------------------------------------------------
(***************************************************************************)
(* Every step is a step of ObolChain on the committed tables, or none.     *)
(***************************************************************************)
\* The row a call inserted and hashed is the event of ObolChain.
LEMMA HashMakesEvent ==
  ASSUME NEW c \in Callers
  PROVE  Signed(Hashed(Unhashed(c))) = Event(c)
<1> DEFINE h == Append(Abs!LastChainHash(db.chain),
                       <<Len(db.chain) + 1>> \o call[c].key
                         \o <<call[c].delta, call[c].newBal>> \o call[c].note.type
                         \o call[c].note.reason \o call[c].note.time)
<1>1. Abs!HashEvent(Unhashed(c)) = h
  BY DEF Unhashed, Abs!HashEvent, Abs!CanonicalForm
<1>2. Event(c) =
        [seq |-> Len(db.chain) + 1, publicKey |-> call[c].key, amount |-> call[c].delta,
         balance |-> call[c].newBal, note |-> call[c].note,
         prevHash |-> Abs!LastChainHash(db.chain), eventHash |-> h,
         hqSig |-> Abs!SignHash(h, hqKey), counterSig |-> NoCounterSig]
  BY DEF Event, Abs!NewEvent, Abs!HashEvent, Abs!CanonicalForm
<1> HIDE DEF h
<1>3. Hashed(Unhashed(c)) =
        [seq |-> Len(db.chain) + 1, publicKey |-> call[c].key, amount |-> call[c].delta,
         balance |-> call[c].newBal, note |-> call[c].note,
         prevHash |-> Abs!LastChainHash(db.chain), eventHash |-> h, hqSig |-> None,
         counterSig |-> NoCounterSig]
  BY <1>1 DEF Unhashed, Hashed
<1> QED
  BY <1>2, <1>3 DEF Signed

\* Commit is AppendSignedEvent.
LEMMA CommitAppends ==
  ASSUME Inv, NEW c \in Callers, Commit(c)
  PROVE  /\ Abs!AppendSignedEvent(call[c].key, call[c].delta, call[c].note)
         /\ call[c] \in Calls
         /\ db' = Tables(Balances(c), Append(db.chain, Event(c)), Logged(c))
<1>1. /\ call[c] \in Calls /\ pc[c] = "commit"
      /\ tx[c] = Tables(Balances(c), Append(db.chain, Event(c)), Logged(c))
  BY DEF Inv, Shape, Views, View, Commit
<1>2. db.chain \in Seq(Abs!SignedEvents)
  BY DEF Inv, Shape, Abs!TypeOK
<1>3. db' = tx[c] /\ hqKey' = hqKey
      /\ receipts' = receipts \cup {Abs!ToReceipt(LastRow(c), hqKey)}
  BY DEF Commit
<1>4. LastRow(c) = Event(c)
  <2>1. tx[c].chain = Append(db.chain, Event(c))
    BY <1>1 DEF Tables
  <2> QED
    BY <1>2, <2>1 DEF LastRow
<1>5. /\ call[c].newBal = Abs!Wrap(db.balances[call[c].key] + call[c].delta)
      /\ call[c].newBal >= 0
  BY <1>1 DEF Inv, BalanceDue, InTx
<1>6. Len(db.chain) < MaxEvents
  <2>1. c \in Pending
    BY <1>1 DEF Pending, InTx
  <2>2. Cardinality(Pending) \in Nat /\ Cardinality(Pending) # 0
    BY <2>1, FS_CardinalityType, FS_EmptySet DEF Inv, Room
  <2> QED
    BY <1>2, <2>2, ChainTxAssumption DEF Inv, Room
<1>7. /\ db'.balances = Balances(c) /\ db'.chain = Append(db.chain, Event(c))
      /\ db'.tokenEvents = Logged(c)
  BY <1>1, <1>3 DEF Tables
<1> QED
  BY <1>1, <1>3, <1>4, <1>5, <1>6, <1>7
     DEF Abs!AppendSignedEvent, Event, Balances, Logged

\* CounterSign is one statement and one step of ObolChain.
LEMMA CounterSignSigns ==
  ASSUME Inv, NEW seq, NEW sig \in CounterSigs, CounterSign(seq, sig)
  PROVE  /\ Abs!CounterSign(seq, sig) /\ seq \in DOMAIN db.chain
         /\ db' = Tables(db.balances, db'.chain, db.tokenEvents)
         /\ Len(db'.chain) = Len(db.chain)
         /\ UNCHANGED hqKey
<1> DEFINE row == [db.chain[seq] EXCEPT !.counterSig = sig]
           rows == [db.chain EXCEPT ![seq] = row]
<1>1. db' = [db EXCEPT !.chain = rows]
  BY DEF CounterSign
<1>2. db = Tables(db.balances, db.chain, db.tokenEvents)
  BY DEF Inv, Shape
<1>3. db' = Tables(db.balances, rows, db.tokenEvents)
  <2> HIDE DEF rows
  <2> QED
    BY <1>1, <1>2 DEF Tables
<1>4. db'.balances = db.balances /\ db'.chain = rows /\ db'.tokenEvents = db.tokenEvents
  <2> HIDE DEF rows
  <2> QED
    BY <1>3 DEF Tables
<1>5. Len(rows) = Len(db.chain)
  BY DEF Inv, Shape, Abs!TypeOK, CounterSign
<1> QED
  BY <1>3, <1>4, <1>5 DEF CounterSign, Abs!CounterSign

\* A commit appends, a counter-signature signs, a crash restarts, and no other
\* step is seen in the committed tables.
LEMMA StepSimulation == Inv /\ [Next]_vars => [Abs!Next]_(Abs!chainVars)
<1> SUFFICES ASSUME Inv, [Next]_vars PROVE [Abs!Next]_(Abs!chainVars)
  OBVIOUS
<1>1. ASSUME NEW c \in Callers, Commit(c) PROVE Abs!Next
  BY <1>1, CommitAppends DEF Calls, Abs!Next
<1>2. ASSUME NEW seq \in 1..MaxEvents, NEW sig \in CounterSigs, CounterSign(seq, sig)
      PROVE  Abs!Next
  BY <1>2, CounterSignSigns DEF Abs!Next
<1>3. CASE Crash
  BY <1>3 DEF Crash, Abs!Next, Abs!Restart
<1>4. CASE UNCHANGED <<db, receipts, hqKey>>
  BY <1>4 DEF Abs!chainVars
<1> QED
  BY <1>1, <1>2, <1>3, <1>4
     DEF Next, vars, Call, BeginTx, Append1, Refuse, ReadBalance, UpsertBalance, InsertEvent,
         UpdateHash, InsertLegacy, Reply, StatementFails, Abandon

-----------------------------------------------------------------------------
(***************************************************************************)
(* The invariant is inductive.                                             *)
(***************************************************************************)
\* What a call has made of the tables depends on them and on its own locals.
LEMMA SameWork ==
  ASSUME NEW c \in Callers, UNCHANGED <<db, hqKey>>, call'[c] = call[c]
  PROVE  /\ Balances(c)' = Balances(c) /\ Logged(c)' = Logged(c)
         /\ Unhashed(c)' = Unhashed(c) /\ Event(c)' = Event(c)
  BY DEF Balances, Logged, Unhashed, Event, Abs!NewEvent, Abs!SignHash

\* A call goes on from one statement to the next.
LEMMA GoesOn ==
  ASSUME Inv, Abs!TypeOK', NEW c \in Callers, pc[c] \in InTx,
         NEW place \in InTx \ {"read"}, Goto(c, place),
         UNCHANGED <<db, mutex, reply, hqKey, calls>>,
         DOMAIN tx' = Callers,
         call' \in [Callers -> Calls \cup {NoCall}], call'[c] \in Calls,
         \A d \in Callers \ {c} : call'[d] = call[d],
         /\ call'[c].newBal = Abs!Wrap(db.balances[call'[c].key] + call'[c].delta)
         /\ call'[c].newBal >= 0,
         View(c)'
  PROVE  Inv'
<1>1. pc'[c] = place /\ \A d \in Callers \ {c} : pc'[d] = pc[d]
  BY DEF Inv, Shape, Goto
<1>2. \A d \in Callers \ {c} : pc'[d] \notin InTx
  BY <1>1 DEF Inv, MutexHeld
<1>3. Shape'
  BY <1>1 DEF Inv, Shape, Goto, Tables
<1>4. MutexHeld'
  BY <1>1 DEF Inv, MutexHeld
<1>5. BalanceDue'
  BY <1>1, <1>2 DEF BalanceDue
<1>6. Views'
  BY <1>2 DEF Views, View, InTx
<1>7. Pending' = Pending
  BY <1>1 DEF Pending
<1>8. Room'
  BY <1>7 DEF Inv, Room
<1> QED
  BY <1>3, <1>4, <1>5, <1>6, <1>8 DEF Inv

\* Once a call is out of the transaction nobody is in it, and it is not
\* counted any more.
LEMMA IsOut ==
  ASSUME Inv, NEW c \in Callers, pc[c] \in InTx, NEW place \in {"idle", "reply"},
         Goto(c, place), mutex' = None
  PROVE  /\ \A d \in Callers : pc'[d] \notin InTx
         /\ MutexHeld' /\ BalanceDue' /\ Views'
         /\ IsFiniteSet(Pending') /\ Cardinality(Pending') = Cardinality(Pending) - 1
<1>1. pc'[c] = place /\ \A d \in Callers \ {c} : pc'[d] = pc[d]
  BY DEF Inv, Shape, Goto
<1>2. \A d \in Callers : pc'[d] \notin InTx
  BY <1>1 DEF Inv, MutexHeld, InTx
<1>3. MutexHeld' /\ BalanceDue' /\ Views'
  BY <1>2, ChainTxAssumption DEF MutexHeld, BalanceDue, Views, View, InTx
<1>4. Pending' = Pending \ {c} /\ c \in Pending
  BY <1>1 DEF Pending, InTx
<1>5. IsFiniteSet(Pending) /\ IsFiniteSet(Pending')
      /\ Cardinality(Pending') = Cardinality(Pending) - 1
  BY <1>4, FS_RemoveElement DEF Inv, Room
<1> QED
  BY <1>2, <1>3, <1>5

\* A transaction that is given up leaves the invariant.
LEMMA AbandonKeeps ==
  ASSUME Inv, Abs!TypeOK', NEW c \in Callers, pc[c] \in InTx, Abandon(c)
  PROVE  Inv'
<1>1. /\ MutexHeld' /\ BalanceDue' /\ Views'
      /\ IsFiniteSet(Pending') /\ Cardinality(Pending') = Cardinality(Pending) - 1
  BY IsOut DEF Abandon
<1>2. Shape'
  BY DEF Inv, Shape, Abandon, Goto, Tables
<1>3. Room'
  BY <1>1, FS_CardinalityType DEF Inv, Room, Abandon, Shape, Abs!TypeOK
<1> QED
  BY <1>1, <1>2, <1>3 DEF Inv

\* A new call keeps it.
LEMMA CallKeeps ==
  ASSUME Inv, Abs!TypeOK', NEW c \in Callers, Call(c)
  PROVE  Inv'
<1>1. PICK k \in PubKeys, d \in Deltas :
        call' = [call EXCEPT ![c] = [key |-> k, delta |-> d, note |-> NoteOf(calls + 1), newBal |-> 0]]
  BY DEF Call
<1>2. [key |-> k, delta |-> d, note |-> NoteOf(calls + 1), newBal |-> 0] \in Calls
  <2>1. calls \in Nat /\ calls < MaxEvents
    BY DEF Inv, Room, Call
  <2>2. NoteOf(calls + 1) \in Notes
    BY <2>1, NotesDiffer
  <2> QED
    BY <2>2, ChainTxAssumption DEF Calls, Abs!IntRange
<1>3. /\ pc[c] = "idle" /\ pc'[c] = "lock" /\ calls' = calls + 1 /\ calls < MaxEvents
      /\ \A e \in Callers \ {c} : pc'[e] = pc[e] /\ call'[e] = call[e]
      /\ UNCHANGED <<db, tx, mutex, receipts, hqKey>>
  BY <1>1 DEF Inv, Shape, Call, Goto
<1>4. Shape'
  BY <1>1, <1>2, <1>3 DEF Inv, Shape, Call, Goto, Tables
<1>5. MutexHeld'
  BY <1>3 DEF Inv, MutexHeld, InTx
<1>6. BalanceDue'
  BY <1>3 DEF Inv, BalanceDue, InTx
<1>7. Views'
  <2> SUFFICES ASSUME NEW e \in Callers, e # c PROVE View(e)'
    BY <1>3 DEF Views, View
  <2> QED
    BY <1>3, SameWork DEF Inv, Views, View
<1>8. Pending' = Pending \cup {c} /\ c \notin Pending
  BY <1>3 DEF Pending, InTx
<1>9. IsFiniteSet(Pending') /\ Cardinality(Pending') = Cardinality(Pending) + 1
  BY <1>8, FS_AddElement DEF Inv, Room
<1>10. Room'
  BY <1>3, <1>9, FS_CardinalityType, ChainTxAssumption DEF Inv, Room, Shape, Abs!TypeOK
<1> QED
  BY <1>4, <1>5, <1>6, <1>7, <1>10 DEF Inv

\* Beginning a transaction keeps it: the mutex is held by no other.
LEMMA BeginTxKeeps ==
  ASSUME Inv, Abs!TypeOK', NEW c \in Callers, BeginTx(c)
  PROVE  Inv'
<1>1. /\ pc[c] = "lock" /\ pc'[c] = "read" /\ mutex = None /\ mutex' = c /\ tx'[c] = db
      /\ \A e \in Callers \ {c} : pc'[e] = pc[e]
      /\ UNCHANGED <<db, call, reply, receipts, hqKey, calls>>
  BY DEF Inv, Shape, BeginTx, Goto
<1>2. \A e \in Callers : pc[e] \notin InTx
  BY <1>1, ChainTxAssumption DEF Inv, MutexHeld
<1>3. Shape'
  BY <1>1 DEF Inv, Shape, BeginTx, Goto, Tables, InTx
<1>4. MutexHeld'
  BY <1>1, <1>2 DEF MutexHeld, InTx
<1>5. BalanceDue'
  BY <1>1, <1>2 DEF BalanceDue
<1>6. Views'
  BY <1>1, <1>2 DEF Views, View, InTx
<1>7. Pending' = Pending
  BY <1>1 DEF Pending, InTx
<1>8. Room'
  BY <1>1, <1>7 DEF Inv, Room
<1> QED
  BY <1>3, <1>4, <1>5, <1>6, <1>8 DEF Inv

\* The sum of a balance and a change, wrapped, is an int64.
LEMMA WrapRange ==
  ASSUME NEW b \in Abs!Tokens, NEW d \in Deltas
  PROVE  Abs!Wrap(b + d) \in Abs!IntRange
BY ChainTxAssumption DEF Abs!Wrap, Abs!Tokens, Abs!IntRange

\* The statements between Begin and Commit, one by one.
LEMMA ReadBalanceKeeps ==
  ASSUME Inv, Abs!TypeOK', NEW c \in Callers, ReadBalance(c)
  PROVE  Inv'
<1> DEFINE b == Abs!Wrap(db.balances[call[c].key] + call[c].delta)
           locals == [call[c] EXCEPT !.newBal = b]
<1>1. pc[c] = "read" /\ call[c] \in Calls /\ tx[c] = db
  BY DEF Inv, Shape, Views, View, ReadBalance
<1>2. b >= 0 /\ call' = [call EXCEPT ![c] = locals]
  BY <1>1 DEF ReadBalance, NewBalance
<1>3. b \in Abs!IntRange
  <2>1. db.balances[call[c].key] \in Abs!Tokens
    BY <1>1 DEF Inv, Shape, Abs!TypeOK, Calls
  <2>2. call[c].delta \in Deltas
    BY <1>1 DEF Calls
  <2> QED
    BY <2>1, <2>2, WrapRange
<1> HIDE DEF b
<1>4. /\ locals \in Calls /\ locals.newBal = b /\ locals.key = call[c].key
      /\ locals.delta = call[c].delta
  BY <1>1, <1>3 DEF Calls
<1> HIDE DEF locals
<1>5. /\ call'[c] = locals /\ call' \in [Callers -> Calls \cup {NoCall}]
      /\ \A d \in Callers \ {c} : call'[d] = call[d]
  BY <1>2, <1>4 DEF Inv, Shape
<1>6. /\ call'[c].newBal = Abs!Wrap(db.balances[call'[c].key] + call'[c].delta)
      /\ call'[c].newBal >= 0
  BY <1>2, <1>4, <1>5 DEF b
<1>7. Goto(c, "upsert") /\ UNCHANGED <<db, tx, mutex, reply, hqKey, calls>>
  BY DEF ReadBalance
<1>8. pc'[c] = "upsert"
  BY <1>7 DEF Inv, Shape, Goto
<1>9. View(c)'
  BY <1>1, <1>7, <1>8 DEF View
<1>10. "upsert" \in InTx \ {"read"} /\ pc[c] \in InTx /\ DOMAIN tx' = Callers
  BY <1>1, <1>7 DEF InTx, Inv, Shape
<1> QED
  BY <1>4, <1>5, <1>6, <1>7, <1>9, <1>10, GoesOn

\* Writing the last row again.
LEMMA RewriteLast ==
  ASSUME NEW S, NEW s \in Seq(S), NEW x, NEW y
  PROVE  [Append(s, x) EXCEPT ![Len(s) + 1] = y] = Append(s, y)
<1> DEFINE T == S \cup {x, y}
           t == [Append(s, x) EXCEPT ![Len(s) + 1] = y]
<1>1. s \in Seq(T)
  OBVIOUS
<1>2. /\ Append(s, x) \in Seq(T) /\ Append(s, y) \in Seq(T)
      /\ Len(Append(s, x)) = Len(s) + 1 /\ Len(Append(s, y)) = Len(s) + 1
      /\ \A i \in 1..Len(s) : Append(s, x)[i] = s[i] /\ Append(s, y)[i] = s[i]
      /\ Append(s, y)[Len(s) + 1] = y
  BY <1>1, AppendProperties
<1>3. /\ t \in Seq(T) /\ Len(t) = Len(s) + 1
      /\ \A i \in 1..(Len(s) + 1) : t[i] = IF i = Len(s) + 1 THEN y ELSE Append(s, x)[i]
  <2> DEFINE u == Append(s, x)
             n == Len(s) + 1
  <2>1. u \in Seq(T) /\ Len(u) = n /\ n \in 1..Len(u) /\ y \in T
    BY <1>2
  <2> HIDE DEF u, n, T
  <2>2. /\ [u EXCEPT ![n] = y] \in Seq(T) /\ Len([u EXCEPT ![n] = y]) = n
        /\ \A i \in 1..n : [u EXCEPT ![n] = y][i] = IF i = n THEN y ELSE u[i]
    BY <2>1, ExceptSeq
  <2> QED
    BY <2>2 DEF u, n
<1> HIDE DEF t, T
<1>4. \A i \in 1..(Len(s) + 1) : i \in 1..Len(s) \/ i = Len(s) + 1
  OBVIOUS
<1>5. \A i \in 1..Len(t) : t[i] = Append(s, y)[i]
  BY <1>2, <1>3, <1>4
<1>6. t = Append(s, y)
  BY <1>2, <1>3, <1>5, SeqEqual
<1> QED
  BY <1>6 DEF t

\* The statements after it change the view alone.
LEMMA ViewGoesOn ==
  ASSUME Inv, Abs!TypeOK', NEW c \in Callers,
         NEW from \in InTx \ {"read"}, NEW place \in InTx \ {"read"},
         pc[c] = from, Goto(c, place),
         UNCHANGED <<db, mutex, call, reply, hqKey, calls>>,
         NEW view, DOMAIN tx' = Callers, tx'[c] = view,
         /\ place = "insert" => view = Tables(Balances(c), db.chain, db.tokenEvents)
         /\ place = "hash" =>
              view = Tables(Balances(c), Append(db.chain, Unhashed(c)), db.tokenEvents)
         /\ place = "legacy" =>
              view = Tables(Balances(c), Append(db.chain, Event(c)), db.tokenEvents)
         /\ place = "commit" =>
              view = Tables(Balances(c), Append(db.chain, Event(c)), Logged(c)),
         place # "upsert"
  PROVE  Inv'
<1>1. /\ call[c] \in Calls /\ call' \in [Callers -> Calls \cup {NoCall}]
      /\ pc'[c] = place
  BY DEF Inv, Shape, Goto, InTx
<1>2. /\ call[c].newBal = Abs!Wrap(db.balances[call[c].key] + call[c].delta)
      /\ call[c].newBal >= 0
  BY DEF Inv, BalanceDue
<1>3. View(c)'
  BY <1>1, SameWork DEF View
<1>4. \A d \in Callers \ {c} : call'[d] = call[d]
  OBVIOUS
<1>5. /\ call'[c].newBal = Abs!Wrap(db.balances[call'[c].key] + call'[c].delta)
      /\ call'[c].newBal >= 0
  BY <1>2
<1> QED
  BY <1>1, <1>3, <1>4, <1>5, GoesOn

\* Writing the balance keeps it: the transaction's own view is one ahead.
LEMMA UpsertBalanceKeeps ==
  ASSUME Inv, Abs!TypeOK', NEW c \in Callers, UpsertBalance(c)
  PROVE  Inv'
<1> DEFINE view == [tx[c] EXCEPT !.balances = Balances(c)]
<1>1. pc[c] = "upsert" /\ tx[c] = Tables(db.balances, db.chain, db.tokenEvents)
  BY DEF Inv, Shape, Views, View, UpsertBalance
<1>2. tx[c].balances = db.balances
  BY <1>1 DEF Tables
<1>3. DOMAIN tx' = Callers /\ tx'[c] = view
  BY <1>2 DEF UpsertBalance, Balances, Inv, Shape
<1>4. view = Tables(Balances(c), db.chain, db.tokenEvents)
  BY <1>1 DEF Tables
<1> HIDE DEF view
<1>5. "upsert" \in InTx \ {"read"} /\ "insert" \in InTx \ {"read"}
  BY DEF InTx
<1> QED
  BY <1>1, <1>3, <1>4, <1>5, ViewGoesOn DEF UpsertBalance

\* Inserting the row without its hash keeps it.
LEMMA InsertEventKeeps ==
  ASSUME Inv, Abs!TypeOK', NEW c \in Callers, InsertEvent(c)
  PROVE  Inv'
<1> DEFINE view == [tx[c] EXCEPT !.chain = Append(db.chain, Unhashed(c))]
<1>1. pc[c] = "insert" /\ tx[c] = Tables(Balances(c), db.chain, db.tokenEvents)
  BY DEF Inv, Views, View, InsertEvent
<1>2. tx[c].chain = db.chain
  BY <1>1 DEF Tables
<1>3. DOMAIN tx' = Callers /\ tx'[c] = view
  BY <1>2 DEF InsertEvent, Unhashed, Inv, Shape
<1>4. view = Tables(Balances(c), Append(db.chain, Unhashed(c)), db.tokenEvents)
  BY <1>1 DEF Tables
<1> HIDE DEF view
<1>5. "insert" \in InTx \ {"read"} /\ "hash" \in InTx \ {"read"}
  BY DEF InTx
<1> QED
  BY <1>1, <1>3, <1>4, <1>5, ViewGoesOn DEF InsertEvent

\* Filling in hash and signature keeps it.
LEMMA UpdateHashKeeps ==
  ASSUME Inv, Abs!TypeOK', NEW c \in Callers, UpdateHash(c)
  PROVE  Inv'
<1> DEFINE rows == Append(db.chain, Unhashed(c))
           hashed == [rows EXCEPT ![Len(rows)] = Signed(Hashed(rows[Len(rows)]))]
           view == [tx[c] EXCEPT !.chain = hashed]
<1>1. pc[c] = "hash" /\ tx[c] = Tables(Balances(c), rows, db.tokenEvents)
  BY DEF Inv, Views, View, UpdateHash
<1>2. tx[c].chain = rows
  BY <1>1 DEF Tables
<1>3. DOMAIN tx' = Callers /\ tx'[c] = view
  BY <1>2 DEF UpdateHash, Inv, Shape
<1>4. hashed = Append(db.chain, Event(c))
  <2>1. db.chain \in Seq(Abs!SignedEvents)
    BY DEF Inv, Shape, Abs!TypeOK
  <2>2. rows[Len(rows)] = Unhashed(c) /\ Len(rows) = Len(db.chain) + 1
    BY <2>1
  <2>3. hashed = [rows EXCEPT ![Len(db.chain) + 1] = Event(c)]
    BY <2>2, HashMakesEvent
  <2> QED
    BY <2>1, <2>3, RewriteLast
<1> HIDE DEF hashed, rows
<1>5. view = Tables(Balances(c), hashed, db.tokenEvents)
  BY <1>1 DEF Tables
<1> HIDE DEF view
<1>6. "hash" \in InTx \ {"read"} /\ "legacy" \in InTx \ {"read"}
  BY DEF InTx
<1> QED
  BY <1>1, <1>3, <1>4, <1>5, <1>6, ViewGoesOn DEF UpdateHash

\* Inserting the row of the old table keeps it.
LEMMA InsertLegacyKeeps ==
  ASSUME Inv, Abs!TypeOK', NEW c \in Callers, InsertLegacy(c)
  PROVE  Inv'
<1> DEFINE rows == Append(db.chain, Event(c))
           view == [tx[c] EXCEPT !.tokenEvents = Logged(c)]
<1>1. pc[c] = "legacy" /\ tx[c] = Tables(Balances(c), rows, db.tokenEvents)
  BY DEF Inv, Views, View, InsertLegacy
<1>2. tx[c].tokenEvents = db.tokenEvents
  BY <1>1 DEF Tables
<1>3. DOMAIN tx' = Callers /\ tx'[c] = view
  BY <1>2 DEF InsertLegacy, Logged, Inv, Shape
<1>4. view = Tables(Balances(c), rows, Logged(c))
  <2> HIDE DEF rows
  <2> QED
    BY <1>1 DEF Tables
<1> HIDE DEF view
<1>5. "legacy" \in InTx \ {"read"} /\ "commit" \in InTx \ {"read"}
  BY DEF InTx
<1> QED
  BY <1>1, <1>3, <1>4, <1>5, ViewGoesOn DEF InsertLegacy

\* Committing keeps it: the view becomes the tables.
LEMMA CommitKeeps ==
  ASSUME Inv, Abs!TypeOK', NEW c \in Callers, Commit(c)
  PROVE  Inv'
<1>1. pc[c] = "commit" /\ pc[c] \in InTx
  BY DEF Commit, InTx
<1>2. db' = Tables(Balances(c), Append(db.chain, Event(c)), Logged(c))
  BY CommitAppends
<1>3. /\ MutexHeld' /\ BalanceDue' /\ Views'
      /\ IsFiniteSet(Pending') /\ Cardinality(Pending') = Cardinality(Pending) - 1
  BY <1>1, IsOut DEF Commit
<1>4. db' = Tables(db'.balances, db'.chain, db'.tokenEvents)
  BY <1>2 DEF Tables
<1>5. Shape'
  BY <1>1, <1>4 DEF Inv, Shape, Commit, Goto
<1>6. Len(db'.chain) = Len(db.chain) + 1
  BY <1>2 DEF Tables, Inv, Shape, Abs!TypeOK
<1>7. Room'
  BY <1>3, <1>6, FS_CardinalityType DEF Inv, Room, Commit, Shape, Abs!TypeOK
<1> QED
  BY <1>3, <1>5, <1>7 DEF Inv

\* Returning to the caller keeps it.
LEMMA ReplyKeeps ==
  ASSUME Inv, Abs!TypeOK', NEW c \in Callers, Reply(c)
  PROVE  Inv'
<1>1. /\ pc[c] = "reply" /\ pc'[c] = "idle" /\ \A d \in Callers \ {c} : pc'[d] = pc[d]
      /\ UNCHANGED <<db, tx, mutex, call, hqKey, calls>>
  BY DEF Inv, Shape, Reply, Goto
<1>2. Shape'
  BY <1>1 DEF Inv, Shape, Reply, Goto, Tables
<1>3. MutexHeld' /\ BalanceDue'
  BY <1>1 DEF Inv, MutexHeld, BalanceDue, InTx
<1>4. Views'
  <2> SUFFICES ASSUME NEW d \in Callers, d # c PROVE View(d)'
    BY <1>1 DEF Views, View
  <2> QED
    BY <1>1, SameWork DEF Inv, Views, View
<1>5. Pending' = Pending
  BY <1>1 DEF Pending, InTx
<1> QED
  BY <1>1, <1>2, <1>3, <1>4, <1>5 DEF Inv, Room

\* No transaction is open while a row is counter-signed.
LEMMA CounterSignKeeps ==
  ASSUME Inv, Abs!TypeOK', NEW seq, NEW sig \in CounterSigs, CounterSign(seq, sig)
  PROVE  Inv'
<1>1. /\ mutex = None /\ UNCHANGED <<tx, mutex, pc, call, reply, calls>>
      /\ db' = Tables(db.balances, db'.chain, db.tokenEvents)
      /\ Len(db'.chain) = Len(db.chain)
  BY CounterSignSigns DEF CounterSign
<1>2. \A c \in Callers : pc'[c] \notin InTx
  BY <1>1, ChainTxAssumption DEF Inv, MutexHeld
<1>3. db' = Tables(db'.balances, db'.chain, db'.tokenEvents)
  BY <1>1 DEF Tables
<1>4. Shape'
  BY <1>1, <1>3 DEF Inv, Shape
<1>5. MutexHeld' /\ BalanceDue' /\ Views'
  BY <1>1, <1>2, ChainTxAssumption DEF MutexHeld, BalanceDue, Views, View, InTx
<1>6. Room'
  BY <1>1 DEF Inv, Room, Pending
<1> QED
  BY <1>4, <1>5, <1>6 DEF Inv

\* So does the death of the process, which ends all transactions.
LEMMA CrashKeeps ==
  ASSUME Inv, Abs!TypeOK', Crash
  PROVE  Inv'
<1>1. \A c \in Callers : pc'[c] = "idle"
  BY DEF Crash
<1>2. Shape'
  BY DEF Inv, Shape, Crash, Tables
<1>3. MutexHeld' /\ BalanceDue' /\ Views'
  BY <1>1, ChainTxAssumption DEF Crash, MutexHeld, BalanceDue, Views, View, InTx
<1>4. Pending' = {}
  BY <1>1 DEF Pending, InTx
<1>5. Room'
  BY <1>4, FS_EmptySet, FS_CardinalityType DEF Crash, Inv, Room, Shape, Abs!TypeOK
<1> QED
  BY <1>2, <1>3, <1>5 DEF Inv

\* And no step at all.
LEMMA StutterKeeps == Inv /\ UNCHANGED vars => Inv'
<1> SUFFICES ASSUME Inv, UNCHANGED vars PROVE Inv'
  OBVIOUS
<1>1. Shape'
  BY DEF vars, Inv, Shape, Tables, Abs!TypeOK
<1>2. MutexHeld' /\ BalanceDue'
  BY DEF vars, Inv, MutexHeld, BalanceDue
<1>3. Views'
  BY SameWork DEF vars, Inv, Views, View
<1>4. Room'
  BY DEF vars, Inv, Room, Pending
<1> QED
  BY <1>1, <1>2, <1>3, <1>4 DEF Inv

\* Every step keeps the invariant.
LEMMA InvInductive == Inv /\ [Next]_vars => Inv'
<1> SUFFICES ASSUME Inv, [Next]_vars PROVE Inv'
  OBVIOUS
<1>1. Abs!TypeOK'
  BY StepSimulation, AbsTypeInductive DEF Inv, Shape
<1>2. ASSUME NEW c \in Callers, Append1(c) PROVE Inv'
  <2>1. CASE Refuse(c) \/ StatementFails(c)
    BY <1>1, <2>1, AbandonKeeps DEF Refuse, StatementFails, InTx
  <2> QED
    BY <1>1, <1>2, <2>1, ReadBalanceKeeps, UpsertBalanceKeeps, InsertEventKeeps,
       UpdateHashKeeps, InsertLegacyKeeps, CommitKeeps, ReplyKeeps DEF Append1
<1> QED
  BY <1>1, <1>2, CallKeeps, BeginTxKeeps, CounterSignKeeps, CrashKeeps, StutterKeeps DEF Next

\* The tables, as any other call of the store sees them, are those of an
\* atomic AppendSignedEvent: no half-made event is ever visible, and neither
\* an error nor a crash leaves anything behind.
THEOREM StatementsMakeAnAppend == Spec => ImplementsObolChain
<1>1. Init => Abs!Init
  BY DEF Init, Abs!Init
<1> QED
  BY <1>1, InvInit, InvInductive, StepSimulation, PTL DEF Spec, ImplementsObolChain, Abs!Spec

-----------------------------------------------------------------------------
\* What the invariant leaves open of the types: a balance that a call carries
\* was found not to be negative, and only a caller holds the mutex.
Locals == /\ \A c \in Callers : call[c].newBal \in 0..MaxInt
          /\ mutex \in Callers \cup {None}
          /\ reply \in [Callers -> {None, "ok", "error"}]

\* Every step keeps them.
LEMMA LocalsInductive == Inv /\ Locals /\ [Next]_vars => Locals'
<1> SUFFICES ASSUME Inv, Locals, [Next]_vars PROVE Locals'
  OBVIOUS
<1>0. /\ call \in [Callers -> Calls \cup {NoCall}] /\ MaxInt \in Nat
      /\ \A c \in Callers : pc[c] = "read" => call[c] \in Calls /\ tx[c] = db
  BY ChainTxAssumption DEF Inv, Shape, Views, View
<1>1. ASSUME NEW c \in Callers, Call(c) PROVE Locals'
  BY <1>0, <1>1 DEF Call, Locals
<1>2. ASSUME NEW c \in Callers, ReadBalance(c) PROVE Locals'
  <2>1. call[c] \in Calls /\ tx[c] = db
    BY <1>0, <1>2 DEF ReadBalance
  <2>2. db.balances[call[c].key] \in Abs!Tokens /\ call[c].delta \in Deltas
    BY <2>1 DEF Calls, Inv, Shape, Abs!TypeOK
  <2>3. NewBalance(c) \in Abs!IntRange
    BY <2>1, <2>2, WrapRange DEF NewBalance
  <2>4. NewBalance(c) \in 0..MaxInt
    BY <1>2, <2>3 DEF ReadBalance, Abs!IntRange
  <2>5. call' = [call EXCEPT ![c] = [call[c] EXCEPT !.newBal = NewBalance(c)]]
    BY <1>2 DEF ReadBalance
  <2>6. [call[c] EXCEPT !.newBal = NewBalance(c)].newBal = NewBalance(c)
    BY <2>1 DEF Calls
  <2>7. \A d \in Callers : call'[d].newBal \in 0..MaxInt
    BY <1>0, <2>4, <2>5, <2>6 DEF Locals
  <2> QED
    BY <1>2, <2>7 DEF ReadBalance, Locals
<1>3. ASSUME NEW c \in Callers, Abandon(c) PROVE Locals'
  BY <1>3 DEF Abandon, Locals
<1>4. ASSUME NEW c \in Callers, Refuse(c) \/ StatementFails(c) PROVE Locals'
  BY <1>3, <1>4 DEF Refuse, StatementFails
<1>5. CASE Crash
  BY <1>0, <1>5 DEF Crash, NoCall, Locals
<1>6. ASSUME NEW c \in Callers, BeginTx(c) \/ Commit(c) \/ Reply(c) PROVE Locals'
  BY <1>6 DEF BeginTx, Commit, Reply, Locals
<1>7. ASSUME NEW c \in Callers,
             UpsertBalance(c) \/ InsertEvent(c) \/ UpdateHash(c) \/ InsertLegacy(c)
      PROVE  Locals'
  BY <1>7 DEF UpsertBalance, InsertEvent, UpdateHash, InsertLegacy, Locals
<1>8. CASE \E seq \in 1..MaxEvents, sig \in CounterSigs : CounterSign(seq, sig)
  BY <1>8 DEF CounterSign, Locals
<1>9. CASE UNCHANGED vars
  BY <1>9 DEF vars, Locals
<1> QED
  BY <1>1, <1>2, <1>4, <1>5, <1>6, <1>7, <1>8, <1>9 DEF Next, Append1

\* Tables, transactions and calls are well-formed: no balance in the table, or
\* on its way into it, is negative, whichever calls overlap.
THEOREM TypeCorrect == Spec => []TypeOK
<1>1. Init => Locals
  BY ChainTxAssumption DEF Init, Locals, NoCall
<1>2. Inv /\ Locals => TypeOK
  BY DEF Inv, Shape, Room, Locals, TypeOK, Abs!TypeOK, Abs!Tokens
<1> QED
  BY <1>1, <1>2, InvInit, InvInductive, LocalsInductive, PTL DEF Spec

-----------------------------------------------------------------------------
(***************************************************************************)
(* What callers are told.  The calls anybody may still hear of have        *)
(* numbers of their own; a call that has not committed has no row, and one *)
(* that has, or was told so, has one.                                      *)
(***************************************************************************)
Live(c) == pc[c] # "idle" \/ reply[c] # None

Booked(c) == \E i \in OwnRows(c) : /\ OwnRows(c) = {i}
                                   /\ db.chain[i].publicKey = call[c].key
                                   /\ db.chain[i].amount = call[c].delta

Numbered(c) == Live(c) => /\ call[c] \in Calls /\ call[c].note \in NotesTo(calls)
                          /\ \A d \in Callers \ {c} : Live(d) => call[d].note # call[c].note

Open(c) == pc[c] \in {"lock"} \cup InTx

Told(c) == /\ pc[c] # "idle" => reply[c] = None
           /\ Open(c) \/ reply[c] = "error" => OwnRows(c) = {}
           /\ pc[c] = "reply" \/ reply[c] = "ok" => Booked(c)

RowsNumbered == \A i \in DOMAIN db.chain : db.chain[i].note \in NotesTo(calls)

TruthInv == RowsNumbered /\ \A c \in Callers : Numbered(c) /\ Told(c)

\* Nobody has been told anything at the start.
LEMMA TruthInit == Init => TruthInv
  BY ChainTxAssumption DEF Init, TruthInv, RowsNumbered, Numbered, Told, Live, Open, InTx

\* The same rows but for counter-signatures belong to the same calls.
SameRows == /\ DOMAIN db'.chain = DOMAIN db.chain
            /\ \A i \in DOMAIN db.chain : /\ db'.chain[i].note = db.chain[i].note
                                          /\ db'.chain[i].publicKey = db.chain[i].publicKey
                                          /\ db'.chain[i].amount = db.chain[i].amount

\* While the rows stay, each belongs to the caller it belonged to.
LEMMA RowsBelong ==
  ASSUME SameRows, NEW c \in Callers, call'[c].note = call[c].note,
         call'[c].key = call[c].key, call'[c].delta = call[c].delta
  PROVE  OwnRows(c)' = OwnRows(c) /\ Booked(c)' = Booked(c)
  BY DEF SameRows, OwnRows, Booked

\* A step of one call that commits nothing.
LEMMA TruthGoesOn ==
  ASSUME TruthInv, SameRows, calls' = calls, NEW c \in Callers,
         call'[c] \in Calls, call'[c].note = call[c].note,
         call'[c].key = call[c].key, call'[c].delta = call[c].delta,
         \A d \in Callers \ {c} : pc'[d] = pc[d] /\ call'[d] = call[d] /\ reply'[d] = reply[d],
         pc[c] # "idle",
         pc'[c] # "idle" => reply'[c] = None,
         Open(c)' \/ reply'[c] = "error" => Open(c),
         pc'[c] = "reply" \/ reply'[c] = "ok" => pc[c] = "reply"
  PROVE  TruthInv'
<1>1. RowsNumbered'
  BY DEF TruthInv, RowsNumbered, SameRows
<1>2. /\ Live(c)
      /\ \A d \in Callers \ {c} : Live(d)' <=> Live(d)
      /\ \A d \in Callers : call'[d].note = call[d].note
  BY DEF Live
<1>3. \A d \in Callers : Numbered(d)'
  BY <1>2 DEF TruthInv, Numbered
<1>4. Told(c)'
  BY RowsBelong DEF TruthInv, Told
<1>5. ASSUME NEW d \in Callers \ {c} PROVE Told(d)'
  BY <1>5, RowsBelong DEF TruthInv, Told, Open
<1> QED
  BY <1>1, <1>3, <1>4, <1>5 DEF TruthInv

\* A new call has a note of its own, so no row is its yet.
LEMMA TruthCall ==
  ASSUME Inv, TruthInv, NEW c \in Callers, Call(c)
  PROVE  TruthInv'
<1>1. PICK k \in PubKeys, d \in Deltas :
        call' = [call EXCEPT ![c] = [key |-> k, delta |-> d, note |-> NoteOf(calls + 1), newBal |-> 0]]
  BY DEF Call
<1>2. [key |-> k, delta |-> d, note |-> NoteOf(calls + 1), newBal |-> 0] \in Calls
  <2>1. calls \in Nat /\ calls < MaxEvents
    BY DEF Inv, Room, Call
  <2>2. NoteOf(calls + 1) \in Notes
    BY <2>1, NotesDiffer
  <2> QED
    BY <2>2, ChainTxAssumption DEF Calls, Abs!IntRange
<1>3. /\ pc'[c] = "lock" /\ reply'[c] = None /\ calls' = calls + 1 /\ calls \in Nat
      /\ call'[c] \in Calls /\ call'[c].note = NoteOf(calls + 1)
      /\ \A e \in Callers \ {c} : pc'[e] = pc[e] /\ call'[e] = call[e] /\ reply'[e] = reply[e]
      /\ db' = db
  BY <1>1, <1>2 DEF Inv, Shape, Room, Call, Goto
<1>4. RowsNumbered'
  BY <1>3, NotesDiffer DEF TruthInv, RowsNumbered
<1>5. ASSUME NEW e \in Callers PROVE Numbered(e)'
  BY <1>3, NotesDiffer DEF TruthInv, Numbered, Live
<1>6. OwnRows(c)' = {}
  BY <1>3, NotesDiffer DEF TruthInv, RowsNumbered, OwnRows
<1>7. Told(c)'
  BY <1>3, <1>6, ChainTxAssumption DEF Told
<1>8. ASSUME NEW e \in Callers \ {c} PROVE Told(e)'
  <2>1. OwnRows(e)' = OwnRows(e) /\ Booked(e)' = Booked(e)
    BY <1>3 DEF OwnRows, Booked
  <2> QED
    BY <1>3, <2>1 DEF TruthInv, Told, Open
<1> QED
  BY <1>4, <1>5, <1>7, <1>8 DEF TruthInv

\* A commit adds the caller's own row, once.
LEMMA TruthCommit ==
  ASSUME Inv, TruthInv, NEW c \in Callers, Commit(c)
  PROVE  TruthInv'
<1> DEFINE n == Len(db.chain) + 1
<1>1. /\ call[c] \in Calls /\ db'.chain = Append(db.chain, Event(c))
      /\ db.chain \in Seq(Abs!SignedEvents)
  BY CommitAppends DEF Tables, Inv, Shape, Abs!TypeOK
<1>2. /\ Event(c).note = call[c].note /\ Event(c).publicKey = call[c].key
      /\ Event(c).amount = call[c].delta
  BY DEF Event, Abs!NewEvent
<1>3. /\ pc[c] = "commit" /\ pc'[c] = "reply" /\ UNCHANGED <<call, reply, calls>>
      /\ \A e \in Callers \ {c} : pc'[e] = pc[e]
  BY DEF Inv, Shape, Commit, Goto
<1>4. /\ DOMAIN db'.chain = DOMAIN db.chain \cup {n} /\ n \notin DOMAIN db.chain
      /\ db'.chain[n] = Event(c) /\ \A i \in DOMAIN db.chain : db'.chain[i] = db.chain[i]
  BY <1>1
<1> HIDE DEF n
<1>5. Live(c) /\ Open(c) /\ reply[c] = None
  BY <1>3 DEF Live, Open, InTx, TruthInv, Told
<1>6. RowsNumbered'
  BY <1>2, <1>3, <1>4, <1>5 DEF TruthInv, RowsNumbered, Numbered
<1>7. \A e \in Callers : Live(e)' <=> Live(e)
  BY <1>3, <1>5 DEF Live
<1>8. \A e \in Callers : Numbered(e)'
  BY <1>3, <1>7 DEF TruthInv, Numbered
<1>9. OwnRows(c)' = {n}
  BY <1>2, <1>3, <1>4, <1>5 DEF TruthInv, Told, OwnRows
<1>10. Booked(c)'
  BY <1>2, <1>3, <1>4, <1>9 DEF Booked
<1>11. Told(c)'
  BY <1>3, <1>5, <1>10, ChainTxAssumption DEF Told, Open, InTx
<1>12. ASSUME NEW e \in Callers \ {c} PROVE Told(e)'
  <2>1. CASE Live(e)
    <3>1. call[e].note # call[c].note
      BY <1>5, <2>1 DEF TruthInv, Numbered
    <3>2. OwnRows(e)' = OwnRows(e)
      BY <1>2, <1>3, <1>4, <3>1 DEF OwnRows
    <3>3. Booked(e) => Booked(e)'
      BY <1>3, <1>4, <3>2 DEF Booked, OwnRows
    <3> QED
      BY <1>3, <3>2, <3>3 DEF TruthInv, Told, Open
  <2>2. CASE ~ Live(e)
    BY <1>3, <2>2, ChainTxAssumption DEF Live, Told, Open, InTx
  <2> QED
    BY <2>1, <2>2
<1> QED
  BY <1>6, <1>8, <1>11, <1>12 DEF TruthInv

\* A counter-signature leaves whose a row is.
LEMMA CounterSignSameRows ==
  ASSUME Inv, NEW seq, NEW sig \in CounterSigs, CounterSign(seq, sig)
  PROVE  SameRows
<1> DEFINE row == [db.chain[seq] EXCEPT !.counterSig = sig]
<1>1. seq \in DOMAIN db.chain /\ db.chain \in Seq(Abs!SignedEvents)
  BY DEF CounterSign, Inv, Shape, Abs!TypeOK
<1>2. db.chain[seq] \in Abs!SignedEvents
  BY <1>1
<1>3. /\ row.note = db.chain[seq].note /\ row.publicKey = db.chain[seq].publicKey
      /\ row.amount = db.chain[seq].amount
  BY <1>2 DEF Abs!SignedEvents
<1>4. db'.chain = [db.chain EXCEPT ![seq] = row]
  BY CounterSignSigns DEF Abs!CounterSign
<1> HIDE DEF row
<1> QED
  BY <1>1, <1>3, <1>4 DEF SameRows

\* Every step keeps the callers rightly informed.
LEMMA TruthInductive == Inv /\ TruthInv /\ [Next]_vars => TruthInv'
<1> SUFFICES ASSUME Inv, TruthInv, [Next]_vars PROVE TruthInv'
  OBVIOUS
<1>1. ASSUME NEW c \in Callers, UNCHANGED <<db, calls, call>>, pc[c] # "idle",
             NEW place, Goto(c, place),
             \/ place \in InTx /\ Open(c) /\ reply' = reply
             \/ Open(c) /\ place = "idle" /\ reply' = [reply EXCEPT ![c] = "error"]
             \/ pc[c] = "reply" /\ place = "idle" /\ reply' = [reply EXCEPT ![c] = "ok"]
      PROVE  TruthInv'
  <2>1. /\ pc'[c] = place /\ call[c] \in Calls /\ SameRows
        /\ \A d \in Callers \ {c} : pc'[d] = pc[d] /\ reply'[d] = reply[d]
        /\ reply'[c] \in {reply[c], "error", "ok"}
        /\ reply'[c] = "error" /\ reply[c] # "error" => Open(c)
        /\ reply'[c] = "ok" /\ reply[c] # "ok" => pc[c] = "reply"
    BY <1>1 DEF Inv, Shape, Goto, SameRows
  <2>2. reply[c] = None
    BY <1>1 DEF TruthInv, Told
  <2> QED
    BY <1>1, <2>1, <2>2, TruthGoesOn, ChainTxAssumption DEF Open, InTx
<1>2. ASSUME NEW c \in Callers, Abandon(c), pc[c] \in InTx PROVE TruthInv'
  BY <1>1, <1>2 DEF Abandon, Open, InTx
<1>3. ASSUME NEW c \in Callers, BeginTx(c) PROVE TruthInv'
  BY <1>1, <1>3 DEF BeginTx, Open, InTx
<1>4. ASSUME NEW c \in Callers,
             UpsertBalance(c) \/ InsertEvent(c) \/ UpdateHash(c) \/ InsertLegacy(c)
      PROVE  TruthInv'
  BY <1>1, <1>4 DEF UpsertBalance, InsertEvent, UpdateHash, InsertLegacy, Open, InTx
<1>5. ASSUME NEW c \in Callers, Reply(c) PROVE TruthInv'
  BY <1>1, <1>5 DEF Reply
<1>6. ASSUME NEW c \in Callers, ReadBalance(c) PROVE TruthInv'
  <2> DEFINE b == NewBalance(c)
             locals == [call[c] EXCEPT !.newBal = b]
  <2>1. call[c] \in Calls /\ call' = [call EXCEPT ![c] = locals]
    BY <1>6 DEF Inv, Shape, ReadBalance
  <2>2. /\ locals.note = call[c].note /\ locals.key = call[c].key
        /\ locals.delta = call[c].delta
    BY <2>1 DEF Calls
  <2>3. Inv'
    BY <1>6, ReadBalanceKeeps, StepSimulation, AbsTypeInductive DEF Inv, Shape
  <2>4. /\ pc[c] = "read" /\ pc'[c] = "upsert" /\ UNCHANGED <<db, reply, calls>>
        /\ \A d \in Callers \ {c} : pc'[d] = pc[d]
    BY <1>6 DEF Inv, Shape, ReadBalance, Goto
  <2>5. call'[c] \in Calls
    BY <2>3, <2>4 DEF Inv, Shape
  <2> HIDE DEF locals
  <2>6. call'[c] = locals /\ \A d \in Callers \ {c} : call'[d] = call[d]
    BY <2>1 DEF Inv, Shape
  <2>7. SameRows /\ reply[c] = None
    BY <2>4 DEF SameRows, TruthInv, Told
  <2> QED
    BY <2>2, <2>4, <2>5, <2>6, <2>7, TruthGoesOn, ChainTxAssumption DEF Open, InTx
<1>7. ASSUME NEW seq, NEW sig \in CounterSigs, CounterSign(seq, sig) PROVE TruthInv'
  <2>1. SameRows /\ UNCHANGED <<pc, call, reply, calls>>
    BY <1>7, CounterSignSameRows DEF CounterSign
  <2>2. \A c \in Callers : OwnRows(c)' = OwnRows(c) /\ Booked(c)' = Booked(c)
    BY <2>1, RowsBelong
  <2>3. RowsNumbered'
    BY <2>1 DEF SameRows, TruthInv, RowsNumbered
  <2> QED
    BY <2>1, <2>2, <2>3 DEF TruthInv, Numbered, Told, Live, Open
<1>8. CASE Crash
  BY <1>8, ChainTxAssumption DEF Crash, TruthInv, RowsNumbered, Numbered, Told, Live, Open, InTx
<1>9. CASE UNCHANGED vars
  <2>1. SameRows /\ UNCHANGED <<pc, call, reply, calls>>
    BY <1>9 DEF vars, SameRows
  <2>2. \A c \in Callers : OwnRows(c)' = OwnRows(c) /\ Booked(c)' = Booked(c)
    BY <2>1, RowsBelong
  <2>3. RowsNumbered'
    BY <2>1 DEF SameRows, TruthInv, RowsNumbered
  <2> QED
    BY <2>1, <2>2, <2>3 DEF TruthInv, Numbered, Told, Live, Open
<1>10. ASSUME NEW c \in Callers, Append1(c) PROVE TruthInv'
  BY <1>2, <1>4, <1>5, <1>6, <1>10, TruthCommit DEF Append1, Refuse, StatementFails, InTx
<1> QED
  BY <1>3, <1>7, <1>8, <1>9, <1>10, TruthCall DEF Next

\* A caller is told the truth: after "error" its event is nowhere on the
\* chain, and after "ok" it is there exactly once, as asked for.
THEOREM CallersAreToldTheTruth == Spec => []RepliesTruthful
<1>1. TruthInv => RepliesTruthful
  BY DEF TruthInv, Told, Booked, RepliesTruthful
<1> QED
  BY <1>1, InvInit, InvInductive, TruthInit, TruthInductive, PTL DEF Spec

-----------------------------------------------------------------------------
\* What is proved of ObolChain holds of the committed tables, whatever fails
\* and whenever the process dies: with a configured key they pass the
\* integrity check, and the balances table holds what the chain says.
THEOREM TablesAreSound == Spec => [](P!ChainVerifies /\ P!BalancesSound)
<1>1. Init => P!Init
  BY DEF Init, P!Init
<1>2. Inv /\ [Next]_vars => [P!Next]_(P!chainVars)
  BY StepSimulation, SameStep
<1>3. P!Spec => []P!ChainVerifies
  BY AbsAssumption, LimitHolds, P!ChainAlwaysVerifies
<1>4. P!Spec => []P!BalancesSound
  BY AbsAssumption, LimitHolds, P!BalancesAlwaysMatch
<1> QED
  BY <1>1, <1>2, <1>3, <1>4, InvInit, InvInductive, PTL DEF Spec, P!Spec

\* The audit can be trusted with the committed tables too: it reports the first
\* bad row, no single overwritten column escapes it, and a download verifies.
THEOREM TablesPassTheAudit ==
  Spec => [](P!TamperEvident /\ P!WalkFindsFirstBadRow /\ P!DownloadVerifies)
<1>1. Init => P!Init
  BY DEF Init, P!Init
<1>2. Inv /\ [Next]_vars => [P!Next]_(P!chainVars)
  BY StepSimulation, SameStep
<1>3. P!Spec => []P!TamperEvident
  BY AbsAssumption, LimitHolds, P!TamperingStopsTheWalk
<1>4. P!Spec => []P!WalkFindsFirstBadRow
  BY AbsAssumption, LimitHolds, P!WalkIsExact
<1>5. P!Spec => []P!DownloadVerifies
  BY AbsAssumption, LimitHolds, P!DownloadsVerify
<1> QED
  BY <1>1, <1>2, <1>3, <1>4, <1>5, InvInit, InvInductive, PTL DEF Spec, P!Spec
=============================================================================
