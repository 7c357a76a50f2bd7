-------------------------------- MODULE Store --------------------------------
(***************************************************************************)
(* The life of the database file: what Open (internal/persist/store.go)    *)
(* makes of a file that any older version may have left, statement by      *)
(* statement, with failing statements, crashes in between and restarts,    *)
(* and what HQ then records of audiences and shows on the petition wall    *)
(* (internal/persist/honours.go, cmd/glassfactory/main.go).                *)
(*                                                                         *)
(* Every statement commits on its own.  The errors of most end the         *)
(* process; those of the five that bring an older audiences table up to    *)
(* date are dropped, for they fail whenever there is nothing to do.        *)
(***************************************************************************)
EXTENDS KingReply, Reports

CONSTANTS
  OldSchemas,   \* what of the schema older versions left
  OldRows,      \* how many audiences one without visibilities left
  Replies,      \* Replies[n]: what the model may say in the n-th audience
  WallLimit,    \* petitions on the wall, 50 in the code
  MaxFaults,    \* bound on failing statements and crashes
  None

ASSUME StoreAssumption ==
  /\ OldRows \subseteq Nat
  /\ Replies \in Seq(SUBSET Seq(Lines))
  /\ WallLimit \in Nat /\ MaxFaults \in Nat

VARIABLES
  schema,      \* the tables, indexes and added columns there are
  audiences,   \* the audiences table, in the order of its ids
  pc,          \* the statement Open is at, or Down, or Serving
  skipped,     \* columns this start tried to add and could not
  faults

vars == <<schema, audiences, pc, skipped, faults>>

-----------------------------------------------------------------------------
Table(t) == [makes |-> "table", name |-> t]
Index(i) == [makes |-> "index", name |-> i]
Column(c) == [makes |-> "column", name |-> c]

\* The indexes of a table are taken as one statement.
Migrate == << Table("factory_nodes"), Table("balances"), Table("reputations"),
              Table("token_events"), Index("idx_token_events") >>
MigrateChain == << Table("signed_events"), Index("idx_signed_events") >>
MigrateHonours == << Table("honours"), Table("audiences"), Index("idx_audiences"),
                     Column("visibility"), Column("nickname"), Column("message_en"),
                     Column("message_zh"), Index("idx_audiences_visibility") >>
MigrateBuilds == << Table("builds"), Index("idx_builds") >>
MigrateAnalytics == << Table("site_events"), Index("idx_events") >>

Statements == Migrate \o MigrateChain \o MigrateHonours \o MigrateBuilds
                \o MigrateAnalytics

SchemaNames == {Statements[i].name : i \in DOMAIN Statements}

ASSUME OldSchemasAssumption == OldSchemas \subseteq SUBSET SchemaNames

AddedColumns == {"visibility", "nickname", "message_en", "message_zh"}

Down == 0
Serving == Len(Statements) + 1

\* What the queries of a serving HQ use.
Needed == {Statements[i].name : i \in {j \in DOMAIN Statements :
                                         Statements[j].makes # "index"}}

\* A bug: no error of a statement ends the start.
CheckedNothing(s) == FALSE

\* A bug: the error of every statement ends the start.
CheckedAll(s) == TRUE

\* Whether an error of the statement ends the process.
Checked(s) == s.makes # "column" /\ s # Index("idx_audiences_visibility")

\* CREATE .. IF NOT EXISTS succeeds on what exists, ALTER TABLE .. ADD COLUMN
\* does not, and an index needs its column.
Refused(s) == \/ s.makes = "column" /\ s.name \in schema
              \/ s = Index("idx_audiences_visibility") /\ "visibility" \notin schema

\* A bug: what was said in private before becomes public.
FilledPublic(row) == [row EXCEPT !.visibility = "public"]

\* The default a row gets with the new column.
Filled(row) == [row EXCEPT !.visibility = "private"]

-----------------------------------------------------------------------------
OldAudience == [by |-> "older version", answer |-> None, response |-> None,
                visibility |-> None]

Init == /\ schema \in OldSchemas
        /\ \E n \in OldRows :
             /\ n > 0 => "audiences" \in schema /\ "visibility" \notin schema
             /\ audiences = [i \in 1..n |-> OldAudience]
        /\ pc = Down
        /\ skipped = {}
        /\ faults = 0

Start == /\ pc = Down
         /\ pc' = 1
         /\ skipped' = {}
         /\ UNCHANGED <<schema, audiences, faults>>

\* The statement has its effect.
Execute(s) ==
  /\ ~ Refused(s)
  /\ schema' = schema \cup {s.name}
  /\ audiences' = IF s = Column("visibility") THEN [i \in DOMAIN audiences |->
                                                      Filled(audiences[i])]
                                              ELSE audiences
  /\ pc' = pc + 1
  /\ UNCHANGED <<skipped, faults>>

\* The statement returns an error and has none: the process ends, through
\* log.Fatalf in main, or goes on with the next one.
Error(s) == /\ pc' = IF Checked(s) THEN Down ELSE pc + 1
            /\ UNCHANGED <<schema, audiences>>

\* A failure of the disk or a file locked for too long.
Fault == faults < MaxFaults /\ faults' = faults + 1

Statement ==
  /\ pc \in DOMAIN Statements
  /\ LET s == Statements[pc]
     IN  \/ Execute(s)
         \/ /\ Refused(s)
            /\ Error(s)
            /\ UNCHANGED <<skipped, faults>>
         \/ /\ Fault
            /\ Error(s)
            /\ skipped' = IF s.makes = "column" /\ s.name \notin schema
                          THEN skipped \cup {s.name} ELSE skipped

\* RecordAudience names all columns, so it fails unless every one is there.
RecordAudience(row) ==
  audiences' = IF AddedColumns \subseteq schema
               THEN Append(audiences, IF row.visibility = ""
                                      THEN [row EXCEPT !.visibility = "private"]
                                      ELSE row)
               ELSE audiences

Asked == Cardinality({i \in DOMAIN audiences : audiences[i].by # "older version"})

\* An audience, or the King's patrol, whose answer is read in the same way
\* and recorded without a visibility.  King shows how requests overlap.  An
\* audience that could not be recorded may be asked for again.
Audience(by) ==
  /\ pc = Serving
  /\ Asked < Len(Replies)
  /\ \E raw \in Replies[Asked + 1] :
       LET reply == RespondFull(raw)
       IN  RecordAudience([by |-> by, answer |-> raw, response |-> reply.response,
                           visibility |-> IF by = "patrol" THEN "" ELSE reply.visibility])
  /\ UNCHANGED <<schema, pc, skipped, faults>>

Crash == /\ pc # Down
         /\ Fault
         /\ pc' = Down
         /\ UNCHANGED <<schema, audiences, skipped>>

Next == Start \/ Statement \/ Audience("subject") \/ Audience("patrol") \/ Crash

\* A start that was begun goes on; that HQ is started is up to others.
Spec == Init /\ [][Next]_vars /\ WF_vars(Statement)

-----------------------------------------------------------------------------
\* Every variable has its type.
TypeOK == /\ schema \subseteq SchemaNames
          /\ \A i \in DOMAIN audiences :
               /\ audiences[i].by \in {"older version", "subject", "patrol"}
               /\ audiences[i].visibility \in {"public", "private", None}
          /\ pc \in Down..Serving
          /\ skipped \subseteq AddedColumns

\* However many starts died halfway, and whatever version left the file: an
\* HQ that serves has every table and column its queries name, but for a
\* column it failed to add in this very start.
ServingStoreIsWhole == pc = Serving => Needed \ schema \subseteq skipped

\* An upgrade that was cut short does not stand in the way of the next: once
\* nothing fails any more, a start reaches service with everything there.
UpgradeCompletes ==
  (pc = 1 /\ faults = MaxFaults) ~> (pc = Serving /\ Needed \subseteq schema)

Subjects == {i \in DOMAIN audiences : audiences[i].by = "subject"}

\* The visibility on record is the one the answer asks for where it leaves no
\* doubt (AsAsked), wherever the scan cuts first; and it is never public
\* unless the answer says so somewhere.
KingDecides ==
  \A i \in Subjects : AsAsked(audiences[i].answer, audiences[i].visibility)

\* Of what the King said to his subject just the lines of directives are gone,
\* although each is taken out where its text occurs first.
NothingLost == \A i \in Subjects : KeepsWords(audiences[i].answer, audiences[i].response)

\* What the King never said was to be shared is not on the wall, whichever way
\* it got on record: patrols, and what was said before there was a visibility,
\* stay off it through every upgrade.
UndecidedStaysPrivate ==
  pc = Serving /\ "visibility" \in schema =>
    \A p \in ToSet(PublicAudiences(audiences, WallLimit)) :
      p.by = "subject" /\ SaidPublic(p.answer)

-----------------------------------------------------------------------------
(***************************************************************************)
(* What the documentation says and the code does not keep.                 *)
(***************************************************************************)
\* king.go 288, "All metadata tags will be stripped from the visible
\* response".
TagsStripped ==
  \A i \in Subjects : \A p \in Pieces \ {"word", "]"} : ~ Occurs(p, audiences[i].response)

\* king.go 303, 'Visibility string // "public" or "private" - the King's
\* decision': an answer whose last line is a visibility directive, as he was
\* told to end it, is on record under what that line says.
LastWordCounts ==
  \A i \in Subjects :
    LET last == LastLine(audiences[i].answer)
        said == Says(audiences[i].answer[last])
    IN  last # 0 /\ said # NoSay => audiences[i].visibility = said

\* honours.go 36, "Migration: add visibility, nickname, and translation
\* columns if missing": they are there after it.
ColumnsAdded == pc = Serving => AddedColumns \subseteq schema

\* honours.go 171, "returns ALL audiences regardless of visibility - use for
\* internal/mother's view".  The timeline on the front page (main.go 1676) is
\* made of them: what it shows was made public by the King.
TimelineIsPublic ==
  pc = Serving /\ AddedColumns \subseteq schema =>
    \A a \in ToSet(RecentAudiences(audiences, NoText, WallLimit)) : a.visibility = "public"
=============================================================================
