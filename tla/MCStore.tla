------------------------------- MODULE MCStore -------------------------------
(* Files of four earlier versions, and a few audiences after the upgrade.   *)
EXTENDS Store, TLC

\* A new file; one from before honours; one whose audiences have none of the
\* added columns; one with the first two of them.
FirstTables == {Statements[i].name : i \in 1..5}
PlainTables == {Statements[i].name : i \in DOMAIN Statements}
                 \ (AddedColumns \cup {"idx_audiences_visibility"})
MCOldSchemas == {{}, FirstTables, PlainTables, PlainTables \cup {"visibility", "nickname"}}

W == "word"
Pub == "[VISIBILITY:PUBLIC]"
Priv == "[VISIBILITY:PRIVATE]"

\* Directives alone on a line, before text, after text and inside it, lines
\* of which one occurs in another, translations that close and that do not,
\* and the older directives alone and after text.
Shapes == { <<W>>, <<Pub>>, <<Priv>>, <<Pub, W>>, <<W, Pub>>, <<W, Pub, W>>, <<Pub, Pub>>,
            <<"[TRANSLATE:", W, "]">>, <<"[TRANSLATE:", W>>, <<W, "[PUBLIC]">>,
            <<W, "[PRIVATE]">>, <<"[PUBLIC]">>, <<Priv, "[PUBLIC]">> }

AnswersUpTo(n) == UNION {[1..m -> Shapes] : m \in 1..n}

MCReplies == <<AnswersUpTo(2) \cup [1..3 -> {<<W>>, <<Pub>>, <<W, Pub, W>>, <<W, "[PRIVATE]">>}],
               {<< <<W>> >>, << <<Pub>> >>}>>

-----------------------------------------------------------------------------
Rows(n, times) == UNION {[1..m -> [time : times]] : m \in 0..n}
Descending(s) == \A i, j \in DOMAIN s : i < j => s[i].time >= s[j].time

\* The exchange sort of the timeline sorts and loses nothing.
ASSUME \A s \in Rows(5, 0..3) :
         LET sorted == ExchangeSort(s)
         IN  /\ Descending(sorted)
             /\ \A t \in 0..3 : CountOf(sorted, LAMBDA e : e.time = t)
                                  = CountOf(s, LAMBDA e : e.time = t)

\* The timeline is in order, shows every young enough row that the limits
\* let through, and is never cut at its end: the limits of its parts and the
\* line on the builds stay below the limit of the whole, as 50, 20, 10 and
\* 100 do.
Limits == [audiences |-> 2, tokens |-> 1, errors |-> 1, all |-> 5]
ASSUME 50 + 1 + 20 + 10 =< 100
ASSUME \A talks, tokens \in Rows(3, 0..2), failed \in 0..1 :
         LET errors == <<[type |-> "error", time |-> 1], [type |-> "pageview", time |-> 2]>>
             stats == BuildStats([i \in 1..failed |-> [status |-> "failed"]])
             shown == Timeline(talks, stats, tokens, errors, Limits, 1, 2)
             young(rows, n) == CountOf(Newest(rows, n),
                                       LAMBDA r : r.time >= 1)
         IN  /\ Descending(shown)
             /\ Len(shown) = young(talks, 2) + failed + young(tokens, 1) + 1

\* Site statistics agree with each other: the hours add up to the events of
\* the day, the pages to the views, and both lists are in order.
Events(n) == UNION {[1..m -> [page : {"/", "/king"}, type : {"pageview", "error"},
                              time : 0..3]] : m \in 0..n}
Total(list) == FoldLeft(LAMBDA sum, x : sum + x.count, 0, list)

ASSUME \A events \in Events(3) :
         LET hours == EventsByHour(events, 1, 2)
             pages == PageViews(events, 1, 50)
         IN  /\ Total(hours) = EventStats(events, 1).today
             /\ \A i, j \in DOMAIN hours : i < j => hours[i].hour < hours[j].hour
             /\ Total(pages) = CountOf(events, LAMBDA e : e.type = "pageview" /\ e.time >= 1)
             /\ \A i, j \in DOMAIN pages : i < j => pages[i].count >= pages[j].count
             /\ Len(pages) =< EventStats(events, 1).uniquePages
             /\ EventStats(events, 1).today =< EventStats(events, 1).total
             /\ EventStats(RecordEvent(events, NoText, NoText, 1), 1).total = Len(events) + 1

\* Every exchange the court shows is either public or private.
ASSUME \A s \in UNION {[1..m -> [visibility : {"public", "private"}]] : m \in 0..4} :
         LET c == CourtCounts(s, 3)
         IN  /\ c.public + c.private = c.all
             /\ c.public >= Len(PublicAudiences(s, 3)) - (Len(s) - c.all)

\* A key's listings are its share of the listings of all; an honour roll adds
\* up; and the King hears of no errors only when there are none.
Owned(n) == UNION {[1..m -> [publicKey : {"a", "b"}]] : m \in 0..n}

ASSUME \A s \in Owned(4) :
         /\ AudienceCount(s, "a") + AudienceCount(s, "b") = AudienceCount(s, NoText)
         /\ RecentEvents(s, "a", 3) = Receipts(s, "a", 3) /\ Receipts(s, NoText, 3) = << >>
         /\ \A n \in 0..4 : Len(RecentAudiences(s, "a", n)) =< Len(RecentAudiences(s, NoText, n))

ASSUME \A honours \in [{"a", "b", "c"} -> {"knight", "minister"}] :
         LET roll == HonourRoll(honours) IN roll.knights + roll.ministers = roll.total

ASSUME \A events \in Events(3) :
         LET told == Survey({[check |-> "ai-king-llm", ok |-> FALSE]}, << >>, {"a"},
                            [k \in {"a", "b"} |-> 2], TRUE, events, 1)
         IN  /\ told.alerts = {} /\ told.obols = 4
             /\ told.errors = 0 <=> \A i \in DOMAIN events : events[i].type # "error"
             /\ told.errors > 0 => told.views = 0
=============================================================================
