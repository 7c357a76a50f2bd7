------------------------------- MODULE Reports -------------------------------
(***************************************************************************)
(* The read-only side of HQ: the listing queries of the store              *)
(* (internal/persist), the petition wall and the court, the site's         *)
(* statistics and the timeline of the front page (cmd/glassfactory/main.go) *)
(* as functions of the tables' rows.  A table is the sequence of its rows  *)
(* by id.                                                                  *)
(*                                                                         *)
(* Every timestamp is written in UTC and in whole seconds, so comparing    *)
(* the texts compares the times; here a time is a number.                  *)
(***************************************************************************)
EXTENDS Integers, SequencesExt

\* ORDER BY id DESC LIMIT n
Newest(found, n) == SubSeq(Reverse(found), 1, Min({n, Len(found)}))

NoText == ""

\* No key asks for the rows of all.
OfKey(rows, key) ==
  IF key = NoText THEN rows ELSE SelectSeq(rows, LAMBDA r : r.publicKey = key)

RecentAudiences(audiences, key, n) == Newest(OfKey(audiences, key), n)
AudienceCount(audiences, key) == Len(OfKey(audiences, key))
PublicAudiences(audiences, n) ==
  LET found[i \in 0..Len(audiences)] ==
        IF i = 0 THEN << >>
        ELSE IF audiences[i].visibility = "public" THEN Append(found[i - 1], audiences[i])
        ELSE found[i - 1]
  IN  Newest(found[Len(audiences)], n)
RecentEvents(events, key, n) == Newest(OfKey(events, key), n)
RecentSiteEvents(events, type, n) == Newest(SelectSeq(events, LAMBDA e : e.type = type), n)

\* What GET /api/king/court counts of the rows it shows.
CourtCounts(audiences, n) ==
  LET rows == RecentAudiences(audiences, NoText, n)
      public == Len(SelectSeq(rows, LAMBDA a : a.visibility = "public"))
  IN  [all |-> Len(rows), public |-> public, private |-> Len(rows) - public]

-----------------------------------------------------------------------------
\* POST /api/site/event: a page view of "/" unless it says otherwise, at the
\* time of the server.
RecordEvent(events, page, type, now) ==
  Append(events, [page |-> IF page = NoText THEN "/" ELSE page,
                  type |-> IF type = NoText THEN "pageview" ELSE type,
                  time |-> now])

CountOf(rows, Test(_)) == Len(SelectSeq(rows, Test))

EventStats(events, midnight) ==
  [total |-> Len(events),
   today |-> CountOf(events, LAMBDA e : e.time >= midnight),
   uniquePages |-> Cardinality({events[i].page : i \in DOMAIN events})]

\* GROUP BY, with COUNT( * )
Grouped(keys) == [k \in ToSet(keys) |-> CountOf(keys, LAMBDA key : key = k)]

\* The pages viewed most, with ties in any order.
PageViews(events, since, n) ==
  LET views == SelectSeq(events, LAMBDA e : e.type = "pageview" /\ e.time >= since)
      count == Grouped([i \in DOMAIN views |-> views[i].page])
      pages == SetToSortSeq(DOMAIN count, LAMBDA p, q : count[p] > count[q])
  IN  [i \in 1..Min({n, Len(pages)}) |-> [page |-> pages[i], count |-> count[pages[i]]]]

\* The hours with events, oldest first; an hour without any is left out.
EventsByHour(events, since, hour) ==
  LET found == SelectSeq(events, LAMBDA e : e.time >= since)
      count == Grouped([i \in DOMAIN found |-> found[i].time \div hour])
      hours == SetToSortSeq(DOMAIN count, <)
  IN  [i \in DOMAIN hours |-> [hour |-> hours[i], count |-> count[hours[i]]]]

-----------------------------------------------------------------------------
\* SignedEventsFor: a key's receipts, the newest first; no key has none.
Receipts(chain, key, n) == Newest(SelectSeq(chain, LAMBDA e : e.publicKey = key), n)

TotalTokens(balances) == FoldFunction(+, 0, balances)

\* GET /api/king/honours; there is one row for a key.
HonourCount(honours, rank) == Cardinality({k \in DOMAIN honours : honours[k] = rank})
HonourRoll(honours) == [knights |-> HonourCount(honours, "knight"),
                        ministers |-> HonourCount(honours, "minister"),
                        total |-> Cardinality(DOMAIN honours)]

\* BuildStats: any other status is counted nowhere.
BuildStats(builds) ==
  LET with(statuses) == CountOf(builds, LAMBDA b : b.status \in statuses)
  IN  [queued |-> with({"queued"}), running |-> with({"assigned", "running", "verifying"}),
       complete |-> with({"complete"}), failed |-> with({"failed"})]

\* POST /api/king/patrol: what the King is told of his realm.  Trouble with the
\* model itself is no news to it; views are only spoken of without errors.
Survey(results, builds, nodes, balances, audit, events, midnight) ==
  LET errors == RecentSiteEvents(events, "error", 5)
      site == EventStats(events, midnight)
  IN  [alerts |-> {r \in results : ~ r.ok /\ r.check # "ai-king-llm"},
       builds |-> BuildStats(builds),
       factories |-> Cardinality(nodes), obols |-> TotalTokens(balances),
       chain |-> audit, errors |-> Len(errors),
       views |-> IF errors = << >> THEN site.today ELSE 0]

AnyBuilds(stats) == stats.queued + stats.running + stats.complete + stats.failed > 0

\* The nested loops of the handler: i and j are exchanged when j is newer.
Exchange(s, i, j) ==
  IF s[j].time > s[i].time THEN [s EXCEPT ![i] = s[j], ![j] = s[i]] ELSE s

ExchangesFrom(s, i) ==
  LET upTo[j \in i..Len(s)] == IF j = i THEN s ELSE Exchange(upTo[j - 1], i, j)
  IN  upTo[Len(s)]

ExchangeSort(entries) ==
  LET upTo[i \in 0..Len(entries)] ==
        IF i = 0 THEN entries ELSE ExchangesFrom(upTo[i - 1], i)
  IN  upTo[Len(entries)]

\* GET /api/events/recent.  Each list is read by a call of its own; what the
\* handler holds of it is the newest few.  limits are 50 audiences, 20 token
\* events, 10 errors, and 100 entries in all; nothing older than the cutoff
\* is shown, and the line on the builds is always as of now.
Timeline(audiences, stats, tokens, errors, limits, cutoff, now) ==
  LET recent(rows, type) ==
        LET young == SelectSeq(rows, LAMBDA r : r.time >= cutoff)
        IN  [i \in DOMAIN young |-> [type |-> type, time |-> young[i].time]]
      entries == recent(RecentAudiences(audiences, NoText, limits.audiences), "audience")
                 \o (IF AnyBuilds(stats) THEN <<[type |-> "build", time |-> now]>> ELSE << >>)
                 \o recent(RecentEvents(tokens, NoText, limits.tokens), "token")
                 \o recent(RecentSiteEvents(errors, "error", limits.errors), "error")
      sorted == ExchangeSort(entries)
  IN  SubSeq(sorted, 1, Min({limits.all, Len(sorted)}))
=============================================================================
