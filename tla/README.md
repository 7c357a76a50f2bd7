# Glass Factory HQ: specifications, model checks and proofs

TLA+ models of the HQ server of Glass Factory: the signed token chain, the
build queue, the lending ledger, the node handlers, the knowledge store, the
component registry, the health monitor, the King's audiences, and the database
file with its upgrades and what is read from it. Every definition is translated from
the Go source; `PROJECT.json` maps each one to the lines it stands for.

    tlc -workers 2 -config ObolChain.cfg MCObolChain     # one run
    tlapm ObolChainProofs.tla                            # the proofs of one module

## 1. The system

HQ is one Go process (`cmd/glassfactory/main.go`) over one SQLite database
(`internal/persist`). Go serves every HTTP request in a goroutine of its own.
A request is a sequence of store and ledger calls; `Store.mu` and the ledger's
lock make each *call* atomic, nothing makes the *request* atomic. That is the
main source of the interesting behaviour, next to errors that handlers drop and
to the process dying between two calls.

| component | state | operations | where | model |
|---|---|---|---|---|
| signed token chain | `balances`, `signed_events`, `token_events`; HQ's key; the receipts handed out | AppendSignedEvent, CounterSign, restart | persist/chain.go | `ObolChain` (atomic calls), `ChainTx` (statement by statement) |
| chain audit | none | ChainIntegrity, VerifyReceipt, FullChain | persist/chain.go | `ChainAudit` |
| build queue | `builds`, balances | submit, claim, complete | main.go 887-1090, persist/builds.go | `Builds`, which implements `BuildQueue` |
| lending ledger | offers, loans, reputations, balances, all in memory | RegisterMaker, SetBalance, Lend, CancelOffer, Borrow, Repay, Default | lending/lending.go | `Ledger` (the methods), `Lending` (any calls of them) |
| nodes and tokens | `factory_nodes`, balances, the ledger's copy of them | register, heartbeat, pair, earn, spend, lend, borrow, repay, builds, restart | main.go 420-830, persist/store.go | `HQ`, which composes `Ledger` |
| knowledge store | a map of entries, in memory | contribute (Save), UpdateConfidence, Prune; validation, signatures, queries | knowledge/knowledge.go | `Knowledge`, `Catalogues` |
| sentinel | a goroutine per check, a channel, lastResults | Run, RunCheck, OnFailure, cancellation; patrol reads it | sentinel/sentinel.go, main.go 280-330, 1451 | `Sentinel` |
| audiences and honours | `audiences`, `honours` | audience, honour, nickname, patrol | main.go 1093-1300, 1440-1541, king/king.go, persist/honours.go | `King` |
| directives in an answer | none | RespondFull | king/king.go 283-394 | `KingReply` |
| database file | its tables, columns and indexes; audiences | Open and five migrations, restart; record, show | persist/store.go 60-150, honours.go, builds.go, analytics.go, chain.go | `Store` |
| listings and reports | none | petition wall, court, honour roll, timeline, patrol's survey, listings by key | main.go, persist | `Reports` |
| site analytics | a table of page views | insert, four statistics | persist/analytics.go, main.go 1592 | `Reports` |
| component registry | a map and a list under one lock | register, score, search | main.go 100-186, 330-440 | `Catalogues` |
| HTTP front end, prompts, model client, rudeness test | none | decoding, wording, I/O | main.go, king.go | not modelled |

How they interact:

- **Chain and build queue.** A submission for the network appends an event of minus its
  cost, a completion one of 80% of it. `Builds` keeps of the chain only the balances and
  what was charged and paid.
- **Chain and ledger.** pair, earn and spend append an event and then copy the balance
  it left into the ledger, a separate call. Builds never do. At start the ledger is
  filled from the balances table. `HQ` models both copies.
- **Ledger and HQ.** lend, borrow and repay pass what the client sent (ids, amounts,
  interest, the least reputation) to the ledger, which checks none of it for its sign or
  for an id in use, and nothing of it reaches the chain. A maker without a history of
  loans has score 0 and may borrow no tokens (`OnlyHistoryBorrows`); it may take an
  offer of nothing or less. `HQ` has the whole ledger in it, and `moved` is what lending
  has changed of each balance since HQ last set it from the chain, which forgets that.
- **Sentinel and the rest.** Sentinel probes HQ's own endpoints over HTTP, one of them
  the chain's verification; the King's patrol counts its failures.
- **King and the database.** What the King decides about an answer (`KingReply`) is
  recorded in a table whose columns came in several versions (`Store`), and the wall,
  the court and the timeline read it back (`Reports`).
- **King and the rest.** An audience reads what the subject earned, built and was
  honoured with; the language model in between is external and slow.

What is hard, and which properties are aimed at it, is listed with its lines
under `hazards` in `PROJECT.json`: half-done appends, double claims and late
assignments, ids and amounts that are whatever a client sent, copies of a balance
synced out of order, read-modify-write of node rows, a rate limit checked
before a long call and recorded after it, an upgrade that dies halfway or whose
errors are dropped, and goroutines blocked on a channel nobody reads.

## 2. Modules

Each component is one module with its constants, `Init`, an action per handler
step, `Next`, `Spec` and its properties. `MC*` modules give small instances.
Beside a definition stands, where a run needs one, a variant marked *A bug*:
the definition as a plausible mistake would have it. `PROJECT.json` lists which
property notices which mistake.

**ObolChain** has one action per store call. A text column is the sequence of the
words that '|' divides it into, and the canonical form joins all columns into one
sequence of words, as the code does, without escaping: two different rows may have
one canonical form. A digest is the sequence of the canonical forms hashed so far,
so hashing is injective in these, which is all that is asked of SHA-256; a
signature is the pair of key and digest. The width of `int64` is
kept: `Wrap` makes a sum wrap around at `MaxInt`. `Configured` are the keys
that come from `HQ_SIGNING_KEY`; a process with any other key gets a fresh one
at its next start. `RowOK` states what `ChainIntegrity` asks of a row.

**ChainAudit** adds the audit as the one-pass walk the code makes, the bounded
download, every single-column forgery of every row, and the forgery of two columns
that moves text across the '|' between them (`Shifted`).

**ChainTx** opens AppendSignedEvent up: lock, begin, read, upsert, insert, hash
update, legacy insert, commit, reply. A transaction works on its own copy of
the tables, which the commit publishes. Any statement may fail and any two may
have a crash between them. It implements ObolChain: the mapping takes the
committed tables for ObolChain's (`ImplementsObolChain`).

**Builds** follows each request from call to call. `lost` counts what was charged by
submissions that then failed, `dropped` the builds whose status update failed silently;
neither is in the code, they are what the properties speak of. A build is stamped when
its handler goes on from its last call (or from the request), and queued some time
later. Whoever names a build and a key may report it, claimed or not, registered or not,
and is paid. `AssignBuild` changes the row only if it is still queued, which a handler
that read it some calls ago does not know: that this is enough is what
`ImplementsBuildQueue` says. **BuildQueue** is the abstract queue: a build is queued
once, taken at most once, over for good, and paid for only when it is over. It promises
what the code keeps and no more: a build may end without a taker, and be paid for again.
The price keeps the code's integer division, its minimum and its cap; `MCBuilds` checks
them, and the pay, for all spec lengths from 10 to 50,000.

**Ledger** has the methods of the lending ledger as actions: its lock makes every
one a step. Ids, amounts, interest and minimum reputations are the client's, any
integers, and any id may be in use: an offer or a loan replaces the one under its
id, whoever made that and whatever became of it. Scores are floats in the code;
here they are the same quotient as an integer numerator over a common denominator,
compared without division. Amounts are integers without a width.

**Lending** calls these methods in any order and with any arguments. To say of an
offer that it is lent once although its id is used again, each successful call of
Lend has a number, which an offer and the loan made of it keep (`offerNo`,
`loanNo`). `lost` adds up the tokens of open offers that others replaced, which
come back to nobody; `outside` what HQ added and removed by setting balances,
which it may at any time. None of these is in the code.

**HQ** follows register, heartbeat, pair, earn and spend from call to call over
the nodes table, the balances and the ledger, of which it has an instance: lend,
borrow and repay are one call of it each. Handlers that change a node read the
whole row and write it back. Builds change the balances and not the ledger: a
submission to the network is charged, any other is queued with a price all the
same (`QueueBuild`), and a completion pays whatever key it names. `disturbed` marks
the keys whose requests overlapped, or that had a failed read or a build. `moved`
and `history`, what a key's balance has ever been, are not in the code.

**Knowledge** is sequential (one lock). A contribution names its id, its factory,
its confidence and its number of contributors as it likes, and replaces whatever
entry has that id, unless it is merged into another factory's on its subject. The
map is iterated in any order, so Save merges into any matching entry. `accepted`
and `sent` remember what was let in, `confirmers` who stands behind an entry, and
`revised` the subjects of which an entry was replaced, marked down or pruned; none
of them is in the code. **Catalogues** holds what is looked up, as functions: search and
registration of components, and the validation, signing, ranking and querying of
knowledge. A verification ends as valid, invalid, an error or, for a key of the
wrong length, a panic, which ends the request with what came before it saved; the
texts a signature covers are joined by '|' like those of the chain. `MCKnowledge`
checks by assumptions on small inputs that a match needs a hit, scores stay within
one, that the last registration of a uid stands, that a signed entry of which one
signed field is changed is not let in (and one of which text moved between two
free fields is), and that a query is sorted, complete and cut at its limit.

**Sentinel** has a goroutine per check (probe, send, wait for a tick), the
ticker's one-place channel, the bounded result channel, the collector and its
callback, and one cancellation. A `select` with two ready cases takes either.

**King** follows an audience from the rate limit over the profile and the
model's answer to the record. The clock ticks several times a second; the table
keeps whole seconds. `crowded` is not in the code: it remembers the keys whose
requests overlapped, or whose last audience could not be read, which the rate
limit does not hold. `MCKing` checks over the whole range of records that the
score of behaviour stays within 30 and 100, grows with what a subject does, and
never passes 80 for what the handler supplies.

**KingReply** scans an answer line by line, as functions; a line is a sequence of
pieces, words and tags in any order. A directive is taken out of what is left of the
answer where its text occurs first, which may be inside another line, and with it goes
any text on its line. What an answer asks for is said of the answer alone (`AsAsked`)
and not of what the scan makes of it: one without any of the older directives gets what
the last line that begins with a newer one says, one that ends in an older directive
gets that, and whatever it mixes, it is not public unless it says so somewhere. No more
than that holds: "text [PUBLIC]" on one line and "[VISIBILITY:PRIVATE]" on the next ends
up public (`Store_last_word`), and a directive in the middle of a line is not heard.
`MCKing` checks these functions over every answer of four lines of one piece, of two
lines of two, and of three lines of two that are words or directives; Store uses them.

**Store** is the life of the database file. Every statement of Open is a step of
its own, on a file that any older version may have left; any may fail, and the
process may die after any. Errors of most statements end the start. Those of
adding a column are dropped, since adding one that exists is an error. Then
audiences and patrols are answered, recorded and shown. The requests in it take
turns: how they overlap is in King. **Reports** is the read-only side, as
functions of the rows; `MCStore` checks by assumptions on all small tables that
the exchange sort of the timeline sorts and loses nothing, that the timeline is
never cut at its end, that the statistics of the site agree with each other, and
that the listings of each key make up the listing of all.

**Sums** holds lemmas on the finite sums of the community modules, and induction
over naturals and over the subsets of a finite set, for the proofs, and that a
loop whose steps stay in a set has a function of its states.

## 3. The runs

| run | shows |
|---|---|
| `ObolChain` | The chain verifies under a configured key and can fail only on signatures under an ephemeral one; receipts stay valid and stay on the chain; balances agree with the chain and are never negative; rows are never rewritten; a row of which one column was overwritten is found, exactly at that row; a truncated download still verifies. |
| `ChainTx` | Two concurrent appends with failing statements and crashes are the atomic append; replies are truthful; every call returns. |
| `Builds` | No overdraft; charges accounted for to the obol; requests that overlap, fail and die, and reports by anyone, implement the abstract queue; pay and thanks only for builds that are over; first come first served across seconds. |
| `Lending` | With any amounts, and ids used again at any time: no lending on credit; one loan for each call of Lend; tokens conserved to the last one but for those of replaced offers; balances overdrawn only where a negative amount is taken or settled; debt within deliveries and within the network's limit unless a negative amount makes room; histories count every loan; defaults never help; newcomers borrow no tokens. |
| `HQ` | But for what lending moved, the ledger only shows balances the chain really had; it follows the chain, and pairings last, for keys whose requests take turns, whatever other keys, lending, crashes and failed writes do. |
| `Knowledge` | One factory owns a subject; what was accepted is represented, and who sent it counted, until an entry on its subject is replaced, marked down or pruned; an entry counts what it was sent with and every other factory merged into it. |
| `Sentinel` | Results arrive, all and in order; Run returns however full the channel is. |
| `King` | A key whose requests take turns has its recorded audiences a minute apart, in spite of crashes, failed records, the rounding of times and what goes on beside it. |
| `Store` | An HQ that serves has every table and column its queries use, but for a column this very start failed to add; upgrades cut short do not block the next; the visibility on record is the one the answer asks for where it leaves no doubt; only lines of directives are lost; what the King never said to share never gets on the wall. |
| `Builds_claim_twice` | *Violated:* two factories are both told that a build is theirs. |
| `King_overlap` | *Violated:* overlapping requests both pass the rate limit. |
| `ObolChain_shifted` | *Violated:* text moved across the '\|' between two columns of a row passes the audit. |

Every module with variables states its type invariant (`TypeOK`; `MonitorTypeOK`
in Sentinel, `CourtTypeOK` in King). They hold in the configurations of the runs
(add them as an INVARIANT), and all of them are proved. They say little beside
the properties listed, so the runs leave them out.

### Bounds

Counters are cut off in the guards: `MaxEvents` (rows, or calls in ChainTx),
`MaxRequests` and `MaxFaults` (Builds, HQ), `MaxLends` (calls of Lend that succeed),
`MaxTime` (clock), `MaxCalls` (Knowledge), `MaxRuns` (probes of a check),
`MaxAudiences`, `MaxAge` (days of a registration), `Replies` (one audience for each),
`ChainLimit` (the download's 10,000).

- ObolChain: four events over two keys, and one note whose reason holds a '|', are the
  least with a refused debit, an overflow (`MaxInt` is 3), two rows of one key around
  one of the other, and a download cut off at 2. Two ephemeral keys make a restart
  change the key.
- ChainTx: two callers and three calls: one waits for the mutex while the other commits,
  fails or dies, and the loser starts again.
- Builds: two goroutines and four requests: a submission, two claims and a completion,
  or two submissions and two claims, or a completion and its repetition; two faults
  between them. A spec of 600 characters costs 16: funds of 30 pay for one build and not
  for a second. One key that reports is not registered.
- Lending: two makers, two ids for offers and two for loans, and three offers under
  them, so that an offer is always replaceable, and a loan too: one open, one claimed,
  one made over either. Two amounts, 400 and 1,900, fit into each other's limits, a
  third is negative (-4,000). The limits are those of `DefaultDebtLimits` but for two
  active loans a maker; an age of 90 days saturates that part of the score. HQ sets
  balances to what the borrower starts with. One maker has a history and few tokens, the
  other has tokens and is new; both lend and borrow.
- HQ: two keys, two goroutines, five requests, two faults: the shortest reordering takes
  a registration, a pairing and two overlapping requests. One offer and one loan at a
  time, replaceable, of 3 or of -8 tokens.
- Knowledge: three factories, three ids and five calls: every order of owner, confirmer,
  retry, foreign entry under the same id and correction on two subjects; numbers of
  contributors from -1 to 7, confidences below and above 1.
- Sentinel: five probes over two checks fill the channel of four and leave one goroutine
  with a result to send, the case in which a plain send would hang.
- King: two goroutines, two audiences; a minute of one second, two ticks each, which is
  where the rounding bites. The model is not specific to sixty.
- Store: files of four versions (new; before honours; before the four added columns;
  with two of them), three faults, which is enough for a start that dies and a next one
  that misses two columns; a first answer of one or two lines of thirteen shapes
  (directives alone, before, after and inside text, lines of which one occurs in
  another, translations that close and that do not, older directives) or of three of
  four of these shapes, then a plain or a public one, by a subject or a patrol. The wall
  shows two petitions.
- Assumptions: answers of four lines of one piece, of two lines of any two pieces, and of
  three lines of any two of the word, the newer directives and the older public one;
  tables of up to five rows.

`CHECK_DEADLOCK FALSE` stands where a system comes to rest: an HQ that serves and was
asked everything (Store), a Run that returned (Sentinel), and the modules in which the
requests are used up (Builds, HQ, Knowledge).

Symmetry is used for keys, ids, subjects and requests that no definition tells
apart, never in a run with a liveness property.

### Fairness

- ChainTx: weak fairness of the statements of a call, since a goroutine that can run
  does; strong fairness of taking the mutex, since `sync.Mutex` hands itself to a waiter
  that has starved for a millisecond. Nothing is assumed of callers, and a crash may
  still end any call.
- Sentinel: weak fairness of each goroutine, the collector and the callback, which only
  logs. Nothing makes a `select` prefer one of two ready cases. Ticks are not fair, and
  neither is cancellation. `MaxRuns` keeps a goroutine from choosing its tick over the
  cancelled context for ever, which Go's random choice makes a matter of probability
  zero.
- Store: weak fairness of the statement Open is at, since main calls Open and waits for
  it. Nothing starts HQ again after it died; `UpgradeCompletes` speaks of a start that
  was begun.

### What the code does not keep

Three runs above refute a sentence of the documentation or of a comment; they
are the findings of `PROJECT.json`. The configurations below do the same and
are kept beside them; each checks one property, and TLC prints the shortest way
to break it.

| configuration | what it shows |
|---|---|
| `Builds_paid_twice` | The complete handler pays whatever the status of the build is: a repeated report is paid again (README.md:303). |
| `Builds_unpaid` | A crash between status update and payment leaves a completed build unpaid, and nothing looks for it at the next start. |
| `Builds_cost_not_charged` | Anonymous and local builds carry a cost nobody was charged (builds.go:33, "◎ charged"; main.go:972 answers the same). |
| `Builds_false_complete` | The error of UpdateBuildStatus is dropped and the factory told "complete" (main.go:1073, 1086). |
| `HQ_drift` | Two requests of a key sync the ledger in the order opposite to their events, or a build changes the balance, and the ledger stays behind (main.go:770, "Sync into lending ledger"). |
| `HQ_not_registered` | A node is told "registered" although SaveNode failed (main.go:515, store.go:3). |
| `HQ_unregistered_earns` | The complete handler pays any key an "earn" event without looking it up (main.go:756, "Only registered factories can earn"). |
| `Sentinel_mute` | GET /api/tokens/chain/verify answers 200 for a broken chain, which the check named chain-integrity takes for health (main.go:834, sentinel.go:6). |
| `Sentinel_early_patrol` | Before the first results the King reads "All sentinel checks passing." (main.go:1461). |
| `King_no_knights` | NodeUptime is never set, so no score exceeds 80 and no subject merits knighthood (main.go:1125, king_test.go:106). |
| `Store_columns` | A column that could not be added is missing in a serving HQ, and no audience is recorded (honours.go:36, "add ... if missing"). |
| `Store_timeline` | The timeline of the front page, and the list of audiences without a key, show every audience (honours.go:171, "use for internal/mother's view"). |
| `Store_tags` | A directive in the middle of a line, or a translation over two lines, stays in the answer (king.go:288). |
| `Store_last_word` | An answer with "[PUBLIC]" at the end of its text and "[VISIBILITY:PRIVATE]" below is filed as public (king.go:303, "the King's decision"). |

A chain longer than the limit of 10,000 is downloaded without its newest rows
(main.go:849 speaks of "the full chain"); what comes down still verifies.

A second honour replaces the name of the first, which king.go:37 calls "final":
GrantHonour updates the row (honours.go:84).

More observations without a sentence that promises otherwise. In lending: the
tokens of an open offer that another replaces under its id come back to nobody; an
offer of a negative amount pays its lender at once, and taking it, withdrawing it or
settling a loan of a negative repayment can take a balance below zero, as can
negative interest; a loan that is replaced leaves the sum of debts but stays in its
borrower's history; a loan of a negative amount makes room in every debt limit;
Borrow asks for the network's share of debt only while the unreserved balances add up
to more than nothing (lending.go:317 and 107), a case `NetworkDebtContained` leaves
out. In the knowledge store: an entry sent under the id of another replaces it,
whoever sent it and on whatever subject; Contributors counts saves and starts from
what the client sent, so a factory that confirms twice counts twice. Elsewhere: two
overlapping requests of a node can undo its pairing (a heartbeat writes back the row
it read before); a LastAudienceTime that fails lifts the rate limit, so a key it
fails for counts as crowded; text that follows a directive on its line goes with it;
and since no score is below 30, and none above 80 for the uptime of 0 the handler
supplies, the tones "cool" and "commendation" are out of reach. The table of
reputations is never written either, so GET /api/tokens/balance always answers 0.

## 4. The proofs

Each proof module extends the component's module, uses its named assumptions on
the constants and nothing else, and holds for every value of them: any number of
keys, any amounts within the word size, any length of the chain, any limits.

**ObolChainProofs.** `ChainVerifies` is not inductive: the row an append adds
takes its balance from the balances table and its link from the last row, and
is then checked against the whole chain. `IInv` adds that rows are numbered
without gaps, that each is signed by a key HQ had (the present one, if it is a
configured one), that links, hashes and running balances are right without
regard to keys, and that the balances table is what the chain says. The lemmas
are about `BalanceBefore`: it looks only at earlier rows (`BalanceBeforeLocal`)
and an append changes it for one key (`BalanceAfterAppend`). From `IInv` follow

- `TypeCorrect`, `ChainAlwaysVerifies`, `OnlyKeyChangesFail`, `BalancesAlwaysMatch`;
- `ChainIsAppendOnly`, an action property;
- `ReceiptsAlwaysOnChain`, with its own conjunct on receipts, since receipts outlive
  restarts and counter-signatures;
- `TamperingIsCaught`: a row with another canonical form, or another predecessor, under
  the old signature fails the audit, whether or not its hash is recomputed. It rests on
  the hash being injective in canonical forms (`HashInjective`), and leaves open which
  changes show in the canonical form;
- `WalkIsExact`, for chains of any length: a walk that has met no bad row knows the hash
  of the row before and, for each key, the balance of its latest row (`Clean`), so the
  next row fails in the walk exactly if it fails on its own (`StepChecksRow`). It needs
  rows that are numbered and nothing else, so it holds of a damaged copy of the chain
  too;
- `TamperingStopsTheWalk`: a change of one column, with any text, shows in the canonical
  form although it escapes nothing, because what is joined before and behind the column
  is the same and can be cancelled (`CancelLeft`, `CancelRight`, `OneColumnRow`); for
  two columns `ObolChain_shifted` refutes it. What remains, for it and for
  `DownloadsVerify`, is that the rows before the damage, or before the cut, are judged
  as in the whole chain (`RowChecksLocal`).

**LendingProofs.** Amounts, interest and thresholds are any integers, and any id may
be in use; `TypeCorrect` says nothing of the sign of a balance. `LInv` puts
`NoLeveragedLending` and `OfferLentOnce` together with `Numbered`: the offers that
are there come from different calls of Lend, so an offer that replaces a claimed one
is another one, and a loan that replaces another takes nothing away from what is
said of the rest. From it follow `NobodyLendsOnCredit` and `OffersBackOneLoan`.

`OverdraftsNeedNegatives` goes through the methods: Lend and Repay look at the
balance they take from, so only the other party of a negative amount can be
overdrawn. `NewcomersNeverBorrow` strengthens `OnlyHistoryBorrows` by the fact that
a newcomer who has not defaulted has delivered nothing or less and has no penalty
(`Unproven`), whatever loans of nothing or less it took and repaid; such a record is
worth a loan of zero. To default on a negative loan would make it worth more; HQ has
no handler that does.

`TokensAreConserved` needs `Sums`: a method changes balances at one or two makers, and
by `SumChange` the sum by what it adds to or takes from the offers (`OfferMade`,
`OfferGone`); an open offer that is replaced moves its amount to `lost`.
`NetworkDebtStaysContained` is an action property over two sums that Borrow moves
against each other; it supposes that no amount is negative and needs nothing of ids,
since a loan that is replaced only takes its debt away. `DebtsStayWithinDelivery`
supposes the same of the maker's own loans and penalty (`PlainBorrower`): what it
delivered then only grows (`DeliveredGrows`), so a limit that is met stays met
(`LimitHoldsOn`) until a loan is taken, which Borrow tests (`BorrowWithin`). For
`HistoriesMatchLoans` the loans of a maker are split by what became of them: a loan is
among the active ones when it is made and moves at most once (`CountOpens`,
`CountCloses`), as the counters do (`RecordOpens`, `RecordCloses`); one that is replaced
leaves only the loans, so the counters are at least as many. `DefaultsNeverHelp`, for
loans that are not negative, compares two scores by their numerators over one
denominator, a matter of products of integers.

**ServicesProofs** holds the proofs of three modules that share no state,
Knowledge, Sentinel and King; since one module extends all three, the
specifications of the latter two are called `MonitorSpec` and `CourtSpec`
(`MonitorTypeOK`, `CourtTypeOK`, and so on).

*The knowledge store.* `OneSourcePerSubject` and `KeptUntilRevised` are inductive
together with the types (`KInv`), whatever ids, confidences and counts are sent: an
entry goes in under its id only when no other factory is on its subject, and what it
replaces makes its subject a revised one (`InsertInductive`). `MergeRaises` and
`UseKeeps` say what the two updates of an entry leave of it; `ReplaceKeeps` and
`RaiseKeeps` carry that over to the invariant. The theorems are `TypeCorrect`,
`FirstSourceOwnsSubject` and `AcceptedIsRepresented`. `NobodyIsMiscounted` adds
(`CInv`) that the factories remembered as confirming an entry are finitely many, and
those other than its source no more than were counted since it was sent: a
merge adds at most one factory and always one to the count.

*The monitor.* `ResultsStayInOrder`: for each check, the number of the last
stored result, the places of its results in the channel and what its goroutine
has to send are a run of consecutive numbers (`InOrder`). A result that is
stored shifts the places by one, which takes a bijection to count
(`ShiftDown`).

*The court.* `WhoWaitsIsSpaced` rests on `Patient`, for keys that are not
crowded: one goroutine serves the key, it found every audience of the key a
minute old when it passed the limit, although the limit only asks for the one
with the highest id (`LastIsLatest`), and the whole second it stamps is no
earlier (`Seconds`). A row that was not recorded, or a crash, only takes
something away. `NobodyIsCommended` proves what `King_no_knights` shows for
two records: with the uptime at 0 no profile scores over 80, so no rank is
merited, and no tone but "polite" and "roast" is ever recorded.

**ChainTxProofs.** `StatementsMakeAnAppend`: the committed tables implement
ObolChain. A transaction's own view differs from the committed tables by exactly
the statements behind it (`Views`), which stays true because the mutex keeps
every other writer of these tables out (`MutexHeld`); the balance it carries is
the one the event asks for (`BalanceDue`); and there is room on the chain for
all pending calls, since rows and pending calls together are no more than the
calls so far (`Room`). A commit is then ObolChain's append, everything else a
stutter, a counter-signature or a restart. `CallersAreToldTheTruth` adds that
calls are numbered and only the call's own commit books its number.
`TypeCorrect` adds what a call keeps to itself (`Locals`): the balance it carries
was found not to be negative, and only callers hold the mutex.
`TablesAreSound` and `TablesPassTheAudit` carry the theorems of ObolChainProofs
over the refinement, the audit with the limit of 10,000 that main.go gives it.

**BuildsProofs.** `IInv` adds to the types that a request only speaks of builds
that exist (`TargetsExist`), that whoever is about to be paid reported a build
whose row is over or was silently not written (`PayFollowsEnd`), and that the
build a claim has read is the oldest of those it saw waiting and that still wait
(`ChosenIsOldest`), a fact that other claims between the two calls can only make
easier. No balance is negative because the charge is checked in the one call
that books it, and the pay is positive. `EveryChargeIsAccountedFor` is a sum over
builds, one over requests and what was lost: each step that charges, queues, fails
or crashes moves the same amount from one to another, and a crash moves what
all requests still owe at once. `HandlersMakeAQueue` maps each of the
twelve handler steps to a step of BuildQueue or a stutter.

**StoreProofs.** `ServingMeansWhole` rests on `PassedIsThere`: each statement behind the
start had its effect, was refused because its column was there, or failed and is noted.
Files and faults are arbitrary; `TypeCorrect` assumes of a file only that its tables and
columns have names of this schema (`OldSchemasAssumption`), since an older HQ made it.
The next two theorems rest on how an answer is read, for answers of any length. After
each line of the scan, every line of the response is a part of the line it was, and
whole behind the last directive looked at (`PartOf`, `LeftOf`), and the visibility is
what was said last so far (`SaidUpTo`); together these are `Heard`. The older directive
at the end of what is left then has its say (`LegacyTagReads`): it is one of the answer,
and is the answer's last if that ends in one. `AnswersAreReadRight` puts this into the
terms of `AsAsked`. `OnRecord` says of the table that a subject's row is what was read
of its answer, that all others are private once there is a column, and that rows without
one are from before it. From this follow `KingHasTheLastWord`, and with
`WallShowsPublic`, on the query, `SilenceIsPrivate`.

`ExchangeSortSorts` is about the timeline's two nested loops, on a list of any
length. An exchange reorders the places from i on and never makes i older
(`ExchangeReorders`); so the inner loop leaves the newest of them in i
(`PassReorders`), and later passes stay behind it (`OrderKeepsRest`). The reordering
is a permutation of the places, composed exchange by exchange (`OrderAfterOrder`),
so no entry is lost or shown twice.

**HQProofs.** The lending ledger in HQ is an instance, so its effects on the balances
come first (`LendEffect`, `BorrowEffect`, `RepayEffect`): lending moves a ledger
balance and `moved` by the same amount, hence leaves `Net`, their difference, alone
(`LendingStep`). `LedgerIsNeverInvented` adds that the balance a request carries to
SetBalance was the chain's once. `LedgerFollowsWhoTakesTurns` and `PairingLasts` share
`TurnsInv`, on keys that are not disturbed: at most one request serves the key,
between the event and SetBalance that request carries the chain's balance, at any
other time the ledger has it but for what lending moved, and a row about to be
written is as paired as the one it replaces. A restart reads the ledger back from the
balances and forgets the requests, which restores the same facts; one that cannot
read them disturbs every key.

**Sums and induction.** The induction theorems of the library take an operator
as a parameter, which no prover here can instantiate. `Sums` states induction
over sets instead: a set of naturals with 0 in it, and n + 1 if n, is all of them
(`CountUp`, from the library's well-foundedness of <), and likewise for the
subsets of a finite set (`SubsetInduction`). A recursive function is then a
function that satisfies its rule: that there is one, and that each of its values
has the property, are two such sets (`WalkExists`, `ReadingExists`,
`FindingExists`, `RuleSatisfied`); for loops that do not leave a set, such as
those of the sort, `StepsExist` says it once. For sums, all functions that sum the same
agree (`SumsUnique`), in whatever order the community modules take the indexes.

Only model-checked: all liveness (`EveryCallReturns`, `ResultsArrive`,
`RunReturns`, `UpgradeCompletes`), which the prover does not reach, and `NothingLost`,
which counts words by a fold over the lines of an answer. The functions
of Reports other than the petition wall and the timeline's sort, and those of
Catalogues, are checked on all small inputs: they use SelectSeq and sorted
listings, and the prover knows nothing of SelectSeq.

## 5. Not modelled

- SaveReputation, SetBalance, AdjustBalance and DeleteNode of the store, PurgeBuild,
  QueuedBuilds and BuildsBySubmitter: no handler calls them.
- What only passes rows on (nodes, honours and builds one by one, the registry's health,
  the vault key) and how names and long fields are shortened.
- DetectLanguage: the language of a build is stored and read by nothing.
- Offer signatures and expiry times: the ledger stores them and reads neither.
- Prompts, rudeness (an input of King), the model client, the HTTP layer: wording and
  I/O.
- The data race on the ledger's map (TotalOutstandingDebt, main.go:825, while Borrow
  writes it, which a newcomer reaches with an offer of nothing): its outcome, the death
  of the process, is an action of HQ.
- The width of the ledger's amounts: they are integers in `Ledger` and `HQ`. The chain's
  `int64` is kept in ObolChain.
- Keys of fewer than 16 characters. Handlers cut keys to 16 for their logs without
  looking at their length; models take keys to be long enough.

## 6. Plan

1. *Done:* ObolChain, ChainAudit, ChainTx; Builds with BuildQueue; Lending; HQ;
   Knowledge, Catalogues; Sentinel; King, KingReply; Store, Reports; proofs of
   ObolChain, ChainTx, Builds, Lending, HQ, Knowledge and Store.
2. *Done:* the audit's walk; all safety and action properties of Lending; the charges of
   Builds; `CountsEveryFactory`; what Store records and shows.
3. *Done:* `ResultsInOrder` of Sentinel and `PatientAreSpaced` of King, so that every
   safety property a passing run checks but `NothingLost` is proved; the types of
   ChainTx and Store, so that every type invariant is; the exchange sort of the
   timeline.
4. *Done:* ids, amounts, rates and counts as clients send them, in lending and in
   knowledge; borrow and repay in HQ, and builds that pay any key; the canonical form
   without escaping; answers made of any pieces; what all of these leave true, restated
   and proved again.
