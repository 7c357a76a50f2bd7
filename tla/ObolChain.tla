----------------------------- MODULE ObolChain -----------------------------
(***************************************************************************)
(* The signed hash chain of the token ledger (internal/persist/chain.go),  *)
(* one action per store call.  Every method of the store holds its mutex   *)
(* and AppendSignedEvent is one SQL transaction, so a call is one step     *)
(* here; ChainTx opens the transaction up and refines this module.         *)
(*                                                                         *)
(* A text column is the sequence of the words that '|' divides it into.    *)
(* The canonical form joins the columns with '|' and escapes nothing, so   *)
(* it is one sequence of words in which the columns cannot be told apart.  *)
(* The digest of an event appends its canonical form to the previous       *)
(* digest, which closes the joined string and holds no '|': this is as     *)
(* injective as SHA-256 is in practice, and the genesis hash "0" is the    *)
(* empty sequence.  A signature is the pair of the key that signed and the *)
(* digest it signed.                                                       *)
(***************************************************************************)
EXTENDS Integers, Sequences

CONSTANTS
  Words,         \* words of the text columns
  PubKeys,       \* factory public keys
  Deltas,        \* the signed amounts the handlers ask for
  Notes,         \* event types, reasons and timestamps of the events
  CounterSigs,   \* counter-signatures factories may send
  NoCounterSig,  \* the column's default, ''
  HQKeys,        \* HQ signing keys
  Configured,    \* those that come from HQ_SIGNING_KEY: every start loads
                 \* the same one; the others are generated at a start
  MaxInt,        \* largest value of the balance column and of Go's int64
  MaxEvents      \* bound on the length of the chain

\* Texts, and the three columns of a note.
Texts == Seq(Words) \ {<< >>}
NoteTexts == [type : Texts, reason : Texts, time : Texts]

ASSUME ChainAssumption ==
  /\ PubKeys \subseteq Texts
  /\ Notes \subseteq NoteTexts
  /\ MaxInt \in Nat
  /\ MaxEvents \in Nat
  /\ Deltas \subseteq (-MaxInt)..MaxInt
  /\ Configured \subseteq HQKeys
  /\ NoCounterSig \notin CounterSigs

VARIABLES
  balances,    \* table balances; a key without a row reads as 0
  chain,       \* table signed_events in order of seq
  tokenEvents, \* table token_events, the log kept for older readers
  receipts,    \* what AppendSignedEvent returned: kept by the factories
  hqKey        \* the signing key of the running process

chainVars == <<balances, chain, tokenEvents, receipts, hqKey>>

-----------------------------------------------------------------------------
Tokens == 0..MaxInt
IntRange == (-MaxInt - 1)..MaxInt

\* int64 addition wraps around.
Wrap(n) == IF n > MaxInt THEN n - 2 * (MaxInt + 1) ELSE n

CanonicalForms == Seq(Words \cup Int)
Digests == Seq(CanonicalForms)
GenesisHash == << >>

CanonicalForm(e) == <<e.seq>> \o e.publicKey \o <<e.amount, e.balance>>
                      \o e.note.type \o e.note.reason \o e.note.time
HashEvent(e) == Append(e.prevHash, CanonicalForm(e))

SignHash(hash, key) == <<key, hash>>
VerifyEventSig(hash, sig, key) == sig = <<key, hash>>

SignedEvents ==
  [seq : Nat, publicKey : PubKeys, amount : IntRange, balance : IntRange,
   note : NoteTexts, prevHash : Digests, eventHash : Digests,
   hqSig : HQKeys \X Digests, counterSig : CounterSigs \cup {NoCounterSig}]

\* The receipt carries the event without its counter-signature, and the key
\* that verifies it.
ToReceipt(e, key) ==
  [seq |-> e.seq, publicKey |-> e.publicKey, amount |-> e.amount,
   balance |-> e.balance, note |-> e.note, prevHash |-> e.prevHash,
   eventHash |-> e.eventHash, hqSig |-> e.hqSig, hqPubKey |-> key]

VerifyReceipt(r) == /\ HashEvent(r) = r.eventHash
                    /\ VerifyEventSig(r.eventHash, r.hqSig, r.hqPubKey)

\* A bug: the first row's hash (ORDER BY seq without DESC).
FirstChainHash(rows) == IF rows = << >> THEN GenesisHash ELSE rows[1].eventHash

LastChainHash(rows) == IF rows = << >> THEN GenesisHash
                                       ELSE rows[Len(rows)].eventHash

-----------------------------------------------------------------------------
Init == /\ balances = [k \in PubKeys |-> 0]
        /\ chain = << >>
        /\ tokenEvents = << >>
        /\ receipts = {}
        /\ hqKey \in HQKeys

\* A bug: the event is hashed before the insert has assigned seq.
HashBeforeInsert(k, delta, newBal, note) ==
  LET e == [seq |-> 0, publicKey |-> k, amount |-> delta, balance |-> newBal,
            note |-> note, prevHash |-> LastChainHash(chain)]
  IN  [seq |-> Len(chain) + 1, publicKey |-> k, amount |-> delta,
       balance |-> newBal, note |-> note, prevHash |-> e.prevHash,
       eventHash |-> HashEvent(e), hqSig |-> SignHash(HashEvent(e), hqKey),
       counterSig |-> NoCounterSig]

\* The event the transaction inserts: its hash is computed once the insert
\* has assigned seq.
NewEvent(k, delta, newBal, note) ==
  LET e == [seq |-> Len(chain) + 1, publicKey |-> k, amount |-> delta,
            balance |-> newBal, note |-> note,
            prevHash |-> LastChainHash(chain)]
  IN  [seq |-> e.seq, publicKey |-> e.publicKey, amount |-> e.amount,
       balance |-> e.balance, note |-> e.note, prevHash |-> e.prevHash,
       eventHash |-> HashEvent(e), hqSig |-> SignHash(HashEvent(e), hqKey),
       counterSig |-> NoCounterSig]

\* Bugs of an append: what it writes is right but for one thing.
AppendWriting(k, delta, newBal, note, balancesNext, logNext, receipt) ==
  /\ Len(chain) < MaxEvents
  /\ balances' = balancesNext
  /\ chain' = Append(chain, NewEvent(k, delta, newBal, note))
  /\ tokenEvents' = logNext
  /\ receipts' = receipts \cup {receipt}
  /\ UNCHANGED hqKey

\* It does not refuse a negative balance.
AppendOverdrawn(k, delta, note) ==
  LET newBal == Wrap(balances[k] + delta)
  IN  AppendWriting(k, delta, newBal, note, [balances EXCEPT ![k] = newBal],
                    Append(tokenEvents, <<k, delta, note>>),
                    ToReceipt(NewEvent(k, delta, newBal, note), hqKey))

\* Its receipt names the row before.
AppendReceiptEarly(k, delta, note) ==
  LET newBal == Wrap(balances[k] + delta)
      e == NewEvent(k, delta, newBal, note)
  IN  newBal >= 0 /\
      AppendWriting(k, delta, newBal, note, [balances EXCEPT ![k] = newBal],
                    Append(tokenEvents, <<k, delta, note>>),
                    ToReceipt([e EXCEPT !.seq = Len(chain)], hqKey))

\* A negative new balance (too few tokens, or an overflow) is refused and
\* leaves everything unchanged.
AppendSignedEvent(k, delta, note) ==
  LET newBal == Wrap(balances[k] + delta)
      e      == NewEvent(k, delta, newBal, note)
  IN  /\ Len(chain) < MaxEvents
      /\ newBal >= 0
      /\ balances' = [balances EXCEPT ![k] = newBal]
      /\ chain' = Append(chain, e)
      /\ tokenEvents' = Append(tokenEvents, <<k, delta, note>>)
      /\ receipts' = receipts \cup {ToReceipt(e, hqKey)}
      /\ UNCHANGED hqKey

\* A bug: the counter-signature lands in HQ's column.
CounterSignOverHQ(seq, sig) ==
  /\ seq \in DOMAIN chain
  /\ chain' = [chain EXCEPT ![seq].hqSig = sig]
  /\ UNCHANGED <<balances, tokenEvents, receipts, hqKey>>

\* Replaces whatever counter-signature the row had; an unknown seq is an
\* error.
CounterSign(seq, sig) ==
  /\ seq \in DOMAIN chain
  /\ chain' = [chain EXCEPT ![seq].counterSig = sig]
  /\ UNCHANGED <<balances, tokenEvents, receipts, hqKey>>

KeysAfter(key) == IF key \in Configured THEN {key}
                                        ELSE HQKeys \ (Configured \cup {key})

\* The process stops and starts again on the same database: the configured
\* key is loaded, or a fresh ephemeral key is generated.
Restart ==
  /\ hqKey' \in KeysAfter(hqKey)
  /\ UNCHANGED <<balances, chain, tokenEvents, receipts>>

Next == \/ \E k \in PubKeys, d \in Deltas, n \in Notes :
              AppendSignedEvent(k, d, n)
        \/ \E seq \in DOMAIN chain, sig \in CounterSigs : CounterSign(seq, sig)
        \/ Restart

Spec == Init /\ [][Next]_chainVars

-----------------------------------------------------------------------------
(***************************************************************************)
(* What ChainIntegrity asks of row i of a table, and of a whole table.     *)
(* The code keeps a running total per key and compares it with every row's *)
(* balance; since the walk stops at the first mismatch, the total before   *)
(* row i is the balance of the key's latest earlier row.  ChainAudit       *)
(* states the walk itself and checks that the two agree.                   *)
(***************************************************************************)
EarlierRows(rows, k, i) == {j \in 1..(i - 1) : rows[j].publicKey = k}

Latest(E) == CHOOSE j \in E : \A m \in E : m =< j

BalanceBefore(rows, k, i) ==
  IF EarlierRows(rows, k, i) = {}
  THEN 0
  ELSE rows[Latest(EarlierRows(rows, k, i))].balance

PrevLinkOK(rows, i) ==
  rows[i].prevHash = IF i = 1 THEN GenesisHash ELSE rows[i - 1].eventHash
HashOK(rows, i) == rows[i].eventHash = HashEvent(rows[i])
SigOK(rows, i, key) == VerifyEventSig(rows[i].eventHash, rows[i].hqSig, key)
BalanceOK(rows, i) ==
  rows[i].balance =
    Wrap(BalanceBefore(rows, rows[i].publicKey, i) + rows[i].amount)

RowOK(rows, i, key) == /\ PrevLinkOK(rows, i)
                       /\ HashOK(rows, i)
                       /\ SigOK(rows, i, key)
                       /\ BalanceOK(rows, i)

-----------------------------------------------------------------------------
\* Every variable has its type.  (Receipts are typed by ReceiptsOnChain.)
TypeOK == /\ balances \in [PubKeys -> Tokens]
          /\ chain \in Seq(SignedEvents)
          /\ tokenEvents \in Seq(PubKeys \X IntRange \X Notes)
          /\ hqKey \in HQKeys

\* With a configured key every row passes the four checks of ChainIntegrity,
\* after any mix of appends, counter-signatures and restarts.
ChainVerifies ==
  hqKey \in Configured => \A i \in DOMAIN chain : RowOK(chain, i, hqKey)

\* With an ephemeral key the integrity check can only fail on the signature:
\* links, hashes and running balances hold whatever key is in use, and each
\* row is signed by a key HQ once had.
OnlySignaturesDependOnKey ==
  \A i \in DOMAIN chain : \E key \in HQKeys : RowOK(chain, i, key)

BalancesMatchChain ==
  \A k \in PubKeys : balances[k] = BalanceBefore(chain, k, Len(chain) + 1)

\* The balances table holds what the chain says, and that is never negative,
\* even where the sum overflows: ChainIntegrity reads neither the table nor
\* the sign, so nothing in the code looks at either again.
BalancesSound == BalancesMatchChain /\ \A k \in PubKeys : balances[k] >= 0

\* Every receipt a factory was given verifies on its own with the key it
\* names, and is the row of the chain with its number, even after a restart
\* under another key or a counter-signature on the row.
ReceiptsOnChain ==
  \A r \in receipts :
    /\ VerifyReceipt(r)
    /\ r.seq \in DOMAIN chain
    /\ r = ToReceipt(chain[r.seq], r.hqPubKey)

\* A committed row never changes but for its counter-signature, and no row
\* ever disappears.
AppendOnly ==
  [][/\ Len(chain) =< Len(chain')
     /\ \A i \in DOMAIN chain :
          chain'[i] = [chain[i] EXCEPT !.counterSig = chain'[i].counterSig]
    ]_chainVars
=============================================================================
