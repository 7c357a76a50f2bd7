------------------------------ MODULE ChainTx ------------------------------
(***************************************************************************)
(* AppendSignedEvent statement by statement (internal/persist/chain.go):   *)
(* the store's mutex, the SQL transaction with its own view of the tables, *)
(* statements that fail, the deferred rollback and unlock, and a process   *)
(* that may die between any two statements.  Several handlers call it at   *)
(* once, next to CounterSign.  The tables as committed implement ObolChain *)
(* (property ImplementsObolChain).                                         *)
(***************************************************************************)
EXTENDS Integers, Sequences

CONSTANTS Words, PubKeys, Deltas, CounterSigs, NoCounterSig, HQKeys,
          Configured, MaxInt, MaxEvents,
          Callers,     \* handler goroutines
          None         \* no caller, no transaction, no hash yet, no reply

ASSUME ChainTxAssumption ==
  /\ MaxInt \in Nat /\ MaxEvents \in Nat
  /\ PubKeys \subseteq Seq(Words) \ {<< >>} /\ 1..MaxEvents \subseteq Words
  /\ Deltas \subseteq (-MaxInt)..MaxInt
  /\ Configured \subseteq HQKeys
  /\ NoCounterSig \notin CounterSigs
  /\ None \notin Callers \cup {"error", "ok"}

\* Event type, reason and timestamp of the n-th call: what tells one call from
\* another in them is its number.
NoteOf(n) == [type |-> <<n>>, reason |-> <<n>>, time |-> <<n>>]
NotesTo(n) == {NoteOf(i) : i \in 1..n}
Notes == NotesTo(MaxEvents)

VARIABLES
  db,        \* the committed tables: balances, chain, tokenEvents
  tx,        \* what each open transaction sees; None without one
  mutex,     \* the holder of Store.mu
  pc,        \* where each call of AppendSignedEvent is
  call,      \* its arguments and its locals
  reply,     \* the outcome of each caller's last call
  receipts,  \* receipts of committed events
  hqKey,
  calls      \* number of calls so far, bounded by MaxEvents

vars == <<db, tx, mutex, pc, call, reply, receipts, hqKey, calls>>

Abs == INSTANCE ObolChain WITH balances <- db.balances, chain <- db.chain,
                               tokenEvents <- db.tokenEvents

NoCall == [key |-> None, delta |-> 0, note |-> None, newBal |-> 0]

\* The places between Lock and the deferred Unlock.
InTx == {"read", "upsert", "insert", "hash", "legacy", "commit"}

Init == /\ db = [balances |-> [k \in PubKeys |-> 0], chain |-> << >>,
                 tokenEvents |-> << >>]
        /\ tx = [c \in Callers |-> None]
        /\ mutex = None
        /\ pc = [c \in Callers |-> "idle"]
        /\ call = [c \in Callers |-> NoCall]
        /\ reply = [c \in Callers |-> None]
        /\ receipts = {}
        /\ hqKey \in HQKeys
        /\ calls = 0

Goto(c, place) == pc' = [pc EXCEPT ![c] = place]

\* A handler calls AppendSignedEvent.
Call(c) ==
  /\ pc[c] = "idle"
  /\ calls < MaxEvents
  /\ \E k \in PubKeys, d \in Deltas :
       call' = [call EXCEPT ![c] = [key |-> k, delta |-> d,
                                    note |-> NoteOf(calls + 1), newBal |-> 0]]
  /\ reply' = [reply EXCEPT ![c] = None]
  /\ calls' = calls + 1
  /\ Goto(c, "lock")
  /\ UNCHANGED <<db, tx, mutex, receipts, hqKey>>

\* A bug: the mutex is not taken.
BeginTxUnlocked(c) ==
  /\ pc[c] = "lock"
  /\ tx' = [tx EXCEPT ![c] = db]
  /\ Goto(c, "read")
  /\ UNCHANGED <<db, mutex, call, reply, receipts, hqKey, calls>>

\* s.mu.Lock, then db.Begin.
BeginTx(c) ==
  /\ pc[c] = "lock"
  /\ mutex = None
  /\ mutex' = c
  /\ tx' = [tx EXCEPT ![c] = db]
  /\ Goto(c, "read")
  /\ UNCHANGED <<db, call, reply, receipts, hqKey, calls>>

\* The deferred Rollback and Unlock of a call that returns an error.
Abandon(c) ==
  /\ tx' = [tx EXCEPT ![c] = None]
  /\ mutex' = None
  /\ reply' = [reply EXCEPT ![c] = "error"]
  /\ Goto(c, "idle")
  /\ UNCHANGED <<db, call, receipts, hqKey, calls>>

NewBalance(c) == Abs!Wrap(tx[c].balances[call[c].key] + call[c].delta)

\* A bug: this return forgets the mutex.
RefuseLocked(c) ==
  /\ pc[c] = "read"
  /\ NewBalance(c) < 0
  /\ tx' = [tx EXCEPT ![c] = None]
  /\ reply' = [reply EXCEPT ![c] = "error"]
  /\ Goto(c, "idle")
  /\ UNCHANGED <<db, mutex, call, receipts, hqKey, calls>>

\* Too few tokens: the call returns an error.
Refuse(c) == /\ pc[c] = "read"
             /\ NewBalance(c) < 0
             /\ Abandon(c)

ReadBalance(c) ==
  /\ pc[c] = "read"
  /\ NewBalance(c) >= 0
  /\ call' = [call EXCEPT ![c].newBal = NewBalance(c)]
  /\ Goto(c, "upsert")
  /\ UNCHANGED <<db, tx, mutex, reply, receipts, hqKey, calls>>

UpsertBalance(c) ==
  /\ pc[c] = "upsert"
  /\ tx' = [tx EXCEPT ![c].balances[call[c].key] = call[c].newBal]
  /\ Goto(c, "insert")
  /\ UNCHANGED <<db, mutex, call, reply, receipts, hqKey, calls>>

\* lastChainHash, then the insert that assigns seq; hash and signature are
\* still empty.
InsertEvent(c) ==
  /\ pc[c] = "insert"
  /\ tx' = [tx EXCEPT ![c].chain =
              Append(@, [seq |-> Len(@) + 1, publicKey |-> call[c].key,
                         amount |-> call[c].delta, balance |-> call[c].newBal,
                         note |-> call[c].note, prevHash |-> Abs!LastChainHash(@),
                         eventHash |-> None, hqSig |-> None,
                         counterSig |-> NoCounterSig])]
  /\ Goto(c, "hash")
  /\ UNCHANGED <<db, mutex, call, reply, receipts, hqKey, calls>>

LastRow(c) == tx[c].chain[Len(tx[c].chain)]

Hashed(row) == [row EXCEPT !.eventHash = Abs!HashEvent(row)]
Signed(row) == [row EXCEPT !.hqSig = Abs!SignHash(row.eventHash, hqKey)]

UpdateHash(c) ==
  /\ pc[c] = "hash"
  /\ tx' = [tx EXCEPT ![c].chain[Len(tx[c].chain)] = Signed(Hashed(@))]
  /\ Goto(c, "legacy")
  /\ UNCHANGED <<db, mutex, call, reply, receipts, hqKey, calls>>

InsertLegacy(c) ==
  /\ pc[c] = "legacy"
  /\ tx' = [tx EXCEPT ![c].tokenEvents =
              Append(@, <<call[c].key, call[c].delta, call[c].note>>)]
  /\ Goto(c, "commit")
  /\ UNCHANGED <<db, mutex, call, reply, receipts, hqKey, calls>>

\* Commit, the deferred Unlock, and the receipt, which the handler has yet
\* to send.
Commit(c) ==
  /\ pc[c] = "commit"
  /\ db' = tx[c]
  /\ receipts' = receipts \cup {Abs!ToReceipt(LastRow(c), hqKey)}
  /\ tx' = [tx EXCEPT ![c] = None]
  /\ mutex' = None
  /\ Goto(c, "reply")
  /\ UNCHANGED <<call, reply, hqKey, calls>>

\* The handler answers with the receipt.
Reply(c) ==
  /\ pc[c] = "reply"
  /\ reply' = [reply EXCEPT ![c] = "ok"]
  /\ Goto(c, "idle")
  /\ UNCHANGED <<db, tx, mutex, call, receipts, hqKey, calls>>

\* A bug: a statement that may fail follows the commit.
StatementFailsLate(c) == pc[c] \in InTx \cup {"reply"} /\ Abandon(c)

\* Begin is part of BeginTx; every later statement may return an error.
StatementFails(c) == pc[c] \in InTx /\ Abandon(c)

CounterSign(seq, sig) ==
  /\ mutex = None
  /\ seq \in DOMAIN db.chain
  /\ db' = [db EXCEPT !.chain[seq].counterSig = sig]
  /\ UNCHANGED <<tx, mutex, pc, call, reply, receipts, hqKey, calls>>

\* The process dies and starts again: open transactions are rolled back, no
\* caller gets a reply.
Crash ==
  /\ tx' = [c \in Callers |-> None]
  /\ mutex' = None
  /\ pc' = [c \in Callers |-> "idle"]
  /\ call' = [c \in Callers |-> NoCall]
  /\ reply' = [c \in Callers |-> None]
  /\ hqKey' \in Abs!KeysAfter(hqKey)
  /\ UNCHANGED <<db, receipts, calls>>

Append1(c) == \/ Refuse(c) \/ ReadBalance(c) \/ UpsertBalance(c) \/ InsertEvent(c)
              \/ UpdateHash(c) \/ InsertLegacy(c) \/ Commit(c) \/ Reply(c)
              \/ StatementFails(c)

Next == \/ \E c \in Callers : Call(c) \/ BeginTx(c) \/ Append1(c)
        \/ \E seq \in 1..MaxEvents, sig \in CounterSigs : CounterSign(seq, sig)
        \/ Crash

(***************************************************************************)
(* A running goroutine takes its next step, and sync.Mutex hands itself to *)
(* a waiter that has waited long enough (its starvation mode).             *)
(***************************************************************************)
Spec == /\ Init /\ [][Next]_vars
        /\ \A c \in Callers : SF_vars(BeginTx(c)) /\ WF_vars(Append1(c))

-----------------------------------------------------------------------------
\* Every variable has its type; no balance on its way into the table, or in
\* it, is negative.
TypeOK == /\ db.balances \in [PubKeys -> 0..MaxInt]
          /\ \A c \in Callers : call[c].newBal \in 0..MaxInt
          /\ mutex \in Callers \cup {None}
          /\ pc \in [Callers -> {"idle", "lock", "reply"} \cup InTx]
          /\ reply \in [Callers -> {None, "ok", "error"}]
          /\ calls \in 0..MaxEvents
          /\ hqKey \in HQKeys

\* The tables, as any other call of the store sees them, are those of an
\* atomic AppendSignedEvent: no half-made event is ever visible, and neither
\* an error nor a crash leaves anything behind.
ImplementsObolChain == Abs!Spec

\* A caller is told the truth: after "error" its event is nowhere on the
\* chain, and after "ok" it is there exactly once, as asked for.
OwnRows(c) == {i \in DOMAIN db.chain : db.chain[i].note = call[c].note}

RepliesTruthful ==
  \A c \in Callers :
    /\ reply[c] = "error" => OwnRows(c) = {}
    /\ reply[c] = "ok" =>
         \E i \in OwnRows(c) : /\ OwnRows(c) = {i}
                              /\ db.chain[i].publicKey = call[c].key
                              /\ db.chain[i].amount = call[c].delta

\* Every call gets an answer unless the process dies: no path of the
\* function forgets to unlock.
EveryCallReturns == \A c \in Callers : pc[c] = "lock" ~> pc[c] = "idle"
=============================================================================
