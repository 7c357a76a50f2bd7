----------------------------- MODULE ChainAudit -----------------------------
(***************************************************************************)
(* The audit of the chain: ChainIntegrity as the walk the code makes, and  *)
(* the bounded download of FullChain, on every chain ObolChain can build.  *)
(***************************************************************************)
EXTENDS ObolChain

CONSTANTS
  ChainLimit,      \* rows GET /api/tokens/chain asks FullChain for
  OverwriteTexts   \* texts a column may be overwritten with

ASSUME AuditAssumption == ChainLimit \in Nat /\ OverwriteTexts \subseteq Texts

\* The walk's memory: the hash the next row must name, the running total of
\* each key, and the result so far; failed once a row does not pass.
WalkStart == [expectedPrev |-> GenesisHash,
              totals |-> [k \in PubKeys |-> 0], seq |-> 0, failed |-> FALSE]

\* A bug: the stored hash is taken at its word.
WalkStepUnhashed(w, e, key) ==
  LET total == Wrap(w.totals[e.publicKey] + e.amount)
      passes == /\ e.prevHash = w.expectedPrev
                /\ VerifyEventSig(e.eventHash, e.hqSig, key)
                /\ total = e.balance
  IN  IF w.failed THEN w
      ELSE [expectedPrev |-> e.eventHash,
            totals |-> [w.totals EXCEPT ![e.publicKey] = total],
            seq |-> e.seq, failed |-> ~ passes]

\* A bug: one running total for all keys.
WalkStepOneTotal(w, e, key) ==
  LET total == Wrap(w.totals[e.publicKey] + e.amount)
      passes == /\ e.prevHash = w.expectedPrev
                /\ HashEvent(e) = e.eventHash
                /\ VerifyEventSig(e.eventHash, e.hqSig, key)
                /\ total = e.balance
  IN  IF w.failed THEN w
      ELSE [expectedPrev |-> e.eventHash, totals |-> [k \in PubKeys |-> total],
            seq |-> e.seq, failed |-> ~ passes]

WalkStep(w, e, key) ==
  LET total == Wrap(w.totals[e.publicKey] + e.amount)
      passes == /\ e.prevHash = w.expectedPrev
                /\ HashEvent(e) = e.eventHash
                /\ VerifyEventSig(e.eventHash, e.hqSig, key)
                /\ total = e.balance
  IN  CASE w.failed      -> w
        [] ~ w.failed    -> [expectedPrev |-> e.eventHash,
                             totals |-> [w.totals EXCEPT ![e.publicKey] = total],
                             seq |-> e.seq, failed |-> ~ passes]

\* The result of ChainIntegrity: the last row checked, and whether it failed.
ChainIntegrity(rows, key) ==
  LET w[i \in 0..Len(rows)] == IF i = 0 THEN WalkStart
                                        ELSE WalkStep(w[i - 1], rows[i], key)
  IN  [seq |-> w[Len(rows)].seq, failed |-> w[Len(rows)].failed]

\* A bug: the newest rows (ORDER BY seq DESC).
NewestRows(limit) ==
  SubSeq(chain, IF limit < Len(chain) THEN Len(chain) - limit + 1 ELSE 1, Len(chain))

FullChain(limit) == SubSeq(chain, 1, IF limit < Len(chain) THEN limit ELSE Len(chain))

\* The reference result: the first row that is not RowOK, else the last row.
FirstBadRow(rows, key) ==
  LET bad == {i \in DOMAIN rows : ~ RowOK(rows, i, key)}
  IN  IF bad = {}
      THEN [seq |-> Len(rows), failed |-> FALSE]
      ELSE [seq |-> CHOOSE i \in bad : \A j \in bad : i =< j, failed |-> TRUE]

-----------------------------------------------------------------------------
\* A row with one column overwritten in place, the stored hash left alone or
\* recomputed to match; the signature is the old one.
OtherNotes(n) ==
  {[n EXCEPT !.type = t] : t \in OverwriteTexts \ {n.type}}
    \cup {[n EXCEPT !.reason = t] : t \in OverwriteTexts \ {n.reason}}
    \cup {[n EXCEPT !.time = t] : t \in OverwriteTexts \ {n.time}}

Overwritten(e) ==
  LET changed == {[e EXCEPT !.amount = d] : d \in Deltas \ {e.amount}}
                   \cup {[e EXCEPT !.balance = b] : b \in Tokens \ {e.balance}}
                   \cup {[e EXCEPT !.publicKey = k] : k \in PubKeys \ {e.publicKey}}
                   \cup {[e EXCEPT !.note = n] : n \in OtherNotes(e.note)}
  IN  changed \cup {[x EXCEPT !.eventHash = HashEvent(x)] : x \in changed}

\* A row with two columns changed: the first word of the reason is moved, over
\* the '|' between them, to the end of the event type.
Shifted(e) ==
  LET t == e.note.type
      r == e.note.reason
      n == [e.note EXCEPT !.type = Append(t, Head(r)), !.reason = Tail(r)]
  IN  IF Len(r) > 1 THEN {[e EXCEPT !.note = n]} ELSE {}

Damaged ==
  UNION {{[chain EXCEPT ![i] = e] : e \in Overwritten(chain[i]) \cup Shifted(chain[i])} :
           i \in DOMAIN chain}

\* Overwriting any one column of any single row breaks the chain at that row:
\* the walk stops exactly there.  (One column: TamperingBreaksChain says what
\* becomes of two.)
TamperEvident ==
  hqKey \in Configured =>
    \A i \in DOMAIN chain : \A e \in Overwritten(chain[i]) :
      ChainIntegrity([chain EXCEPT ![i] = e], hqKey) = [seq |-> i, failed |-> TRUE]

\* "Tampering with any single row breaks the chain from that point forward"
\* (chain.go:5-6).  Refuted: text moved across the '|' between two columns of a
\* row leaves its canonical form, its hash and its signature as they were.
TamperingBreaksChain ==
  hqKey \in Configured =>
    \A i \in DOMAIN chain : \A e \in Overwritten(chain[i]) \cup Shifted(chain[i]) :
      ChainIntegrity([chain EXCEPT ![i] = e], hqKey).failed

\* The one-pass walk reports what the row-by-row reading of the checks says,
\* on the chain itself, under every key, and on every damaged copy of it.
WalkFindsFirstBadRow ==
  /\ \A key \in HQKeys : ChainIntegrity(chain, key) = FirstBadRow(chain, key)
  /\ \A rows \in Damaged : ChainIntegrity(rows, hqKey) = FirstBadRow(rows, hqKey)

\* What a client downloads verifies on its own with the published key,
\* whether or not the limit cut it short.
DownloadVerifies ==
  hqKey \in Configured => ~ ChainIntegrity(FullChain(ChainLimit), hqKey).failed
=============================================================================
