------------------------------- MODULE MCKing -------------------------------
(* Subjects that ask again and again, in a realm with short minutes.        *)
EXTENDS King, KingReply, TLC

MCSymmetry == Permutations(Keys) \cup Permutations(Requests) \cup Permutations(Names)

-----------------------------------------------------------------------------
\* Records on both sides of every threshold of the score and the honours.
Records == [earned : {0, 1000, 1001, 10000, 10001, 50000, 50001},
            sharing : BOOLEAN, builds : {0, 10, 11, 50, 51, 100, 101},
            uptime : {0, 19, 20, 80, 81, 90, 91}]

\* More of anything never lowers a score, and none has to be cut off to stay
\* between 0 and 100.  None is below 30, so no one is ever received coolly.
ASSUME \A p \in Records :
         /\ BehaviourScore(p) \in 30..100
         /\ \A q \in Records :
              /\ p.earned =< q.earned /\ p.builds =< q.builds /\ p.uptime =< q.uptime
              /\ p.sharing => q.sharing
              => BehaviourScore(p) =< BehaviourScore(q)

\* The ranks are apart: both can be merited, and who merits the higher one
\* with a long enough uptime merits the lower one as well.
ASSUME /\ {ShouldHonour(p) : p \in Records} = {"knight", "minister", "subject"}
       /\ \A p \in Records : Knightly(p) /\ p.uptime > 80 => Ministerial(p)

\* Whatever its record, no profile the audience handler builds merits a rank
\* or a commendation: the uptime it leaves at 0 keeps the score at 80.
ASSUME \A k \in Keys \cup {NoKey}, r \in Records :
         LET p == Profile(k, FALSE, "subject", r.earned, r.builds)
         IN  /\ BehaviourScore(p) =< 80
             /\ Tone(p) = "polite"
             /\ ShouldHonour(p) = "subject"

-----------------------------------------------------------------------------
\* Any pieces on the lines of an answer: four lines of one, two of two, and
\* three of two that are words, directives or the older public one.
Few == {"word", "[VISIBILITY:PUBLIC]", "[VISIBILITY:PRIVATE]", "[PUBLIC]"}

RawAnswers == UNION {[1..4 -> SeqOf(Pieces, 1)], [1..2 -> SeqOf(Pieces, 2)],
                     [1..3 -> SeqOf(Few, 2)]}

\* The King is understood where he leaves no doubt, and no word is lost but
\* those on the lines of directives.
ASSUME \A raw \in RawAnswers : LET reply == RespondFull(raw)
                               IN  /\ AsAsked(raw, reply.visibility)
                                   /\ KeepsWords(raw, reply.response)

=============================================================================
