-------------------------------- MODULE King --------------------------------
(***************************************************************************)
(* Audiences with the AI King and the honours he grants: the audience,     *)
(* honour, nickname and patrol handlers                                    *)
(* (cmd/glassfactory/main.go), the profile and its score                   *)
(* (internal/king/king.go) and the audiences and honours tables            *)
(* (internal/persist/honours.go).                                          *)
(*                                                                         *)
(* The language model is external: it answers, with a visibility, or       *)
(* fails.  The clock ticks several times a second; the table keeps whole   *)
(* seconds.                                                                *)
(***************************************************************************)
EXTENDS Integers, SequencesExt

CONSTANTS
  Keys, NoKey,
  PatrolKey,     \* "system:patrol"
  Requests,      \* goroutines serving requests at a time
  Earnings,      \* what a subject may have earned
  BuildCounts,   \* how many builds it may have completed
  Names,         \* names the King gives
  Nicknames, NoName,
  Handles,       \* what nodes call themselves
  TicksPerSec,
  Minute,        \* the time between audiences, in seconds
  Nothing,       \* no honour, no request
  Failing,       \* store calls that may return errors
  MayCrash,      \* the process may die
  MaxTime,       \* bound on the clock, in ticks
  MaxAudiences   \* bound on the audiences recorded

ASSUME KingAssumption ==
  /\ NoKey \notin Keys /\ PatrolKey \notin Keys /\ NoName \notin Nicknames
  /\ Earnings \subseteq Nat /\ BuildCounts \subseteq Nat
  /\ TicksPerSec \in Nat \ {0} /\ Minute \in Nat \ {0}
  /\ MaxTime \in Nat /\ MaxAudiences \in Nat
  /\ MayCrash \in BOOLEAN
  /\ Failing \subseteq {"LastAudienceTime", "RecordAudience"}

VARIABLES
  audiences,   \* the audiences table, in the order of its ids
  honours,     \* the honours table, Nothing for no row
  req,         \* the audience each goroutine serves and its locals
  merits,      \* the last subject weighed for an honour, and the rank found
  now,         \* the wall clock, in ticks
  crowded      \* keys whose audiences overlapped, or whose last one was not read

courtVars == <<audiences, honours, req, merits, now, crowded>>

-----------------------------------------------------------------------------
ClampTo100(n) == IF n > 100 THEN 100 ELSE IF n < 0 THEN 0 ELSE n

BehaviourScore(p) ==
  LET earned == IF p.earned > 10000 THEN 15 ELSE IF p.earned > 1000 THEN 8 ELSE 0
      sharing == IF p.sharing THEN 15 ELSE -10
      built == IF p.builds > 50 THEN 10 ELSE IF p.builds > 10 THEN 5 ELSE 0
      uptime == IF p.uptime > 90 THEN 10 ELSE IF p.uptime < 20 THEN -10 ELSE 0
  IN  ClampTo100(50 + earned + sharing + built + uptime)

Tone(p) == CASE p.rude -> "roast"
             [] ~ p.rude /\ BehaviourScore(p) > 80 -> "commendation"
             [] ~ p.rude /\ BehaviourScore(p) < 30 -> "cool"
             [] OTHER -> "polite"

Knightly(p) == /\ BehaviourScore(p) >= 90 /\ p.sharing
               /\ p.earned > 50000 /\ p.builds > 100
Ministerial(p) == BehaviourScore(p) >= 80 /\ p.builds > 50 /\ p.uptime > 80

ShouldHonour(p) == IF Knightly(p) THEN "knight"
                   ELSE IF Ministerial(p) THEN "minister" ELSE "subject"

\* The profile of a request: nobody sets its uptime, and sharing is on for
\* every named subject.
Profile(key, rude, rank, earned, builds) ==
  [key |-> key, rude |-> rude, rank |-> rank, earned |-> earned, builds |-> builds,
   sharing |-> key # NoKey, uptime |-> 0]

-----------------------------------------------------------------------------
CourtInit == /\ audiences = << >>
             /\ honours = [k \in Keys |-> Nothing]
             /\ req = [r \in Requests |-> Nothing]
             /\ merits = Nothing
             /\ now = 0
             /\ crowded = {}

At(r, place) == req[r] # Nothing /\ req[r].at = place
End(r) == req' = [req EXCEPT ![r] = Nothing]

\* The bound on what is recorded, and may yet be.
Room == Len(audiences) + Cardinality({r \in Requests : req[r] # Nothing}) < MaxAudiences

\* The audiences of a key that are under way.
Serving(k) == {r \in Requests : req[r] # Nothing /\ req[r].profile.key = k}

\* POST /api/king/audience; an anonymous one is not limited and has no
\* records to read.
Audience(r) ==
  /\ req[r] = Nothing
  /\ Room
  /\ \E k \in Keys \cup {NoKey}, rude \in BOOLEAN :
       /\ req' = [req EXCEPT ![r] =
            [at |-> IF k = NoKey THEN "ask" ELSE "limit",
             profile |-> Profile(k, rude, "subject", 0, 0)]]
       /\ crowded' = IF Serving(k) # {} THEN crowded \cup {k} ELSE crowded
  /\ UNCHANGED <<audiences, honours, merits, now>>

AudiencesOf(k) == {i \in DOMAIN audiences : audiences[i].key = k}

\* LastAudienceTime reads the one with the highest id.
LastAudienceTime(k) == audiences[Max(AudiencesOf(k))].time

\* A bug: a minute of ticks instead of seconds.
RateLimitInTicks(r) ==
  LET k == req[r].profile.key
      soon == AudiencesOf(k) # {} /\ now - LastAudienceTime(k) * TicksPerSec < Minute
  IN  /\ At(r, "limit")
      /\ IF soon THEN End(r) ELSE req' = [req EXCEPT ![r].at = "profile"]
      /\ UNCHANGED <<audiences, honours, merits, now, crowded>>

\* Whether the store answers; callers drop the error.
Answers(call) == IF call \in Failing THEN BOOLEAN ELSE {TRUE}

\* Less than a minute after the last audience: 429.  An error reads as no
\* audience yet.
RateLimit(r) ==
  LET k == req[r].profile.key
      soon == AudiencesOf(k) # {}
                /\ now - LastAudienceTime(k) * TicksPerSec < Minute * TicksPerSec
  IN  /\ At(r, "limit")
      /\ \E answered \in Answers("LastAudienceTime") :
           /\ IF answered /\ soon THEN End(r) ELSE req' = [req EXCEPT ![r].at = "profile"]
           /\ crowded' = IF answered THEN crowded ELSE crowded \cup {k}
      /\ UNCHANGED <<audiences, honours, merits, now>>

\* GetHonour, EarnedTokens and BuildsCompleted, with the reads between them.
BuildProfile(r) ==
  /\ At(r, "profile")
  /\ LET p == req[r].profile
         rank == IF honours[p.key] = Nothing THEN "subject" ELSE honours[p.key].rank
     IN  \E earned \in Earnings, builds \in BuildCounts :
           req' = [req EXCEPT ![r] =
             [at |-> "ask", profile |-> Profile(p.key, p.rude, rank, earned, builds)]]
  /\ UNCHANGED <<audiences, honours, merits, now, crowded>>

\* The model answers, or the request ends with an error.  KingReply shows
\* what RespondFull reads in the answer.
Respond(r) ==
  /\ At(r, "ask")
  /\ \/ \E v \in {"public", "private"} :
          req' = [req EXCEPT ![r] =
            [at |-> IF @.profile.key = NoKey THEN "stamp" ELSE "name",
             profile |-> @.profile, visibility |-> v, nickname |-> NoName]]
     \/ End(r)
  /\ UNCHANGED <<audiences, honours, merits, now, crowded>>

\* The name for public display: the nickname in the honour, read again, or
\* the handle of the node, if it has one.
ResolveNickname(r) ==
  LET h == honours[req[r].profile.key]
      named == h # Nothing /\ h.nickname # NoName
  IN  /\ At(r, "name")
      /\ \E name \in IF named THEN {h.nickname} ELSE Handles \cup {NoName} :
           req' = [req EXCEPT ![r].at = "stamp", ![r].nickname = name]
      /\ UNCHANGED <<audiences, honours, merits, now, crowded>>

Stamp(r) ==
  /\ At(r, "stamp")
  /\ req' = [req EXCEPT ![r] =
       [at |-> "record", profile |-> @.profile,
        audience |-> [key |-> @.profile.key, tone |-> Tone(@.profile),
                      visibility |-> @.visibility, nickname |-> @.nickname,
                      time |-> now \div TicksPerSec]]]
  /\ UNCHANGED <<audiences, honours, merits, now, crowded>>

\* RecordAudience, whose error is only logged, then the honour a subject
\* without one merits, which is only logged too.
RecordAudience(r) ==
  LET p == req[r].profile
  IN  /\ At(r, "record")
      /\ \E answered \in Answers("RecordAudience") :
           audiences' = IF answered THEN Append(audiences, req[r].audience)
                                    ELSE audiences
      /\ merits' = IF p.key # NoKey /\ p.rank = "subject"
                   THEN [profile |-> p, rank |-> ShouldHonour(p)] ELSE merits
      /\ End(r)
      /\ UNCHANGED <<honours, now, crowded>>

\* POST /api/king/patrol, when the model answers: its report is an audience
\* of the patrol's own key, private since no visibility is given.
Patrol ==
  /\ Room
  /\ audiences' = Append(audiences,
       [key |-> PatrolKey, tone |-> "polite", visibility |-> "private",
        nickname |-> NoName, time |-> now \div TicksPerSec])
  /\ UNCHANGED <<honours, req, merits, now, crowded>>

\* POST /api/king/honour writes the whole row.
GrantHonour(k, rank, name, nickname) ==
  /\ honours' = [honours EXCEPT ![k] = [rank |-> rank, name |-> name,
                                        nickname |-> nickname]]
  /\ UNCHANGED <<audiences, req, merits, now, crowded>>

\* POST /api/king/nickname: only a subject with an honour has one to set.
\* No handler deletes an honour, so the look-up and the update are one step.
SetNickname(k, nickname) ==
  /\ honours[k] # Nothing
  /\ honours' = [honours EXCEPT ![k].nickname = nickname]
  /\ UNCHANGED <<audiences, req, merits, now, crowded>>

ClockTick == /\ now < MaxTime
             /\ now' = now + 1
             /\ UNCHANGED <<audiences, honours, req, merits, crowded>>

\* The process dies and starts again; the tables stay.
Crash == /\ MayCrash
         /\ req' = [r \in Requests |-> Nothing]
         /\ UNCHANGED <<audiences, honours, merits, now, crowded>>

CourtNext == \/ \E r \in Requests : \/ Audience(r) \/ RateLimit(r) \/ BuildProfile(r)
                                    \/ Respond(r) \/ ResolveNickname(r) \/ Stamp(r)
                                    \/ RecordAudience(r)
             \/ Patrol
             \/ \E k \in Keys :
                  \/ \E rank \in {"knight", "minister"}, name \in Names,
                        nickname \in Nicknames \cup {NoName} :
                       GrantHonour(k, rank, name, nickname)
                  \/ \E nickname \in Nicknames : SetNickname(k, nickname)
             \/ ClockTick \/ Crash

CourtSpec == CourtInit /\ [][CourtNext]_courtVars

-----------------------------------------------------------------------------
Petitioners == Keys \cup {NoKey}
Publicly == Nicknames \cup Handles \cup {NoName}

Rows == [key : Petitioners \cup {PatrolKey},
         tone : {"roast", "commendation", "cool", "polite"},
         visibility : {"public", "private"}, nickname : Publicly, time : 0..MaxTime]

Honours == [rank : {"knight", "minister"}, name : Names, nickname : Nicknames \cup {NoName}]

Profiles == [key : Petitioners, rude : BOOLEAN, rank : {"subject", "knight", "minister"},
             earned : Nat, builds : Nat, sharing : BOOLEAN, uptime : {0}]

\* What a goroutine has in its locals, by how far it got.
Asking   == [at : {"limit", "profile", "ask"}, profile : Profiles]
Answered == [at : {"name", "stamp"}, profile : Profiles,
             visibility : {"public", "private"}, nickname : Publicly]
Stamped  == [at : {"record"}, profile : Profiles, audience : Rows]
Pending  == Asking \cup Answered \cup Stamped

ASSUME NothingAssumption == Nothing \notin Honours \cup Pending

\* Every variable has its type.
CourtTypeOK ==
  /\ audiences \in Seq(Rows)
  /\ honours \in [Keys -> Honours \cup {Nothing}]
  /\ req \in [Requests -> Pending \cup {Nothing}]
  /\ merits # Nothing => /\ merits.profile \in Profiles
                         /\ merits.rank \in {"knight", "minister", "subject"}
  /\ now \in 0..MaxTime
  /\ crowded \subseteq Petitioners

\* The limit keeps whoever waits for the answer before asking again: by the
\* times on record, which are in whole seconds and taken after the model
\* answered, any two of its audiences are a minute apart, whatever others do,
\* what fails to be recorded and when the process dies.
PatientAreSpaced ==
  \A i, j \in DOMAIN audiences :
    i < j /\ audiences[i].key = audiences[j].key /\ audiences[i].key \in Keys \ crowded
      => audiences[j].time - audiences[i].time >= Minute

\* main.go 1115, "one audience per minute per pubkey": by the times on record
\* any two audiences of a key are a minute apart.
OnePerMinute ==
  \A i, j \in DOMAIN audiences :
    i < j /\ audiences[i].key = audiences[j].key /\ audiences[i].key \in Keys
      => audiences[j].time - audiences[i].time >= Minute

\* king_test.go 106 makes a knight of a sharing subject that earned 60000 and
\* completed 150 builds: whoever holds an audience with such a record is
\* found to merit it.
ServiceIsHonoured ==
  merits # Nothing /\ merits.profile.earned >= 60000 /\ merits.profile.builds >= 150
    => merits.rank = "knight"
=============================================================================
