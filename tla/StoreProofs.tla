---------------------------- MODULE StoreProofs ----------------------------
(***************************************************************************)
(* Proofs about the life of the database file, for files of any earlier    *)
(* version and any number of failing statements, crashes and restarts.     *)
(***************************************************************************)
EXTENDS Store, Sums, SequenceTheorems

\* Any set with all the statements in it will do.
Elements == UNION {Range(part) : part \in {Migrate, MigrateChain, MigrateHonours,
                                            MigrateBuilds, MigrateAnalytics}}

\* The start has finitely many statements.
LEMMA StatementsType == Statements \in Seq(Elements)
<1>1. Migrate \in Seq(Range(Migrate))
  BY DEF Migrate, Range
<1>2. MigrateChain \in Seq(Range(MigrateChain))
  BY DEF MigrateChain, Range
<1>3. MigrateHonours \in Seq(Range(MigrateHonours))
  BY DEF MigrateHonours, Range
<1>4. MigrateBuilds \in Seq(Range(MigrateBuilds))
  BY DEF MigrateBuilds, Range
<1>5. MigrateAnalytics \in Seq(Range(MigrateAnalytics))
  BY DEF MigrateAnalytics, Range
<1> QED
  BY <1>1, <1>2, <1>3, <1>4, <1>5 DEF Statements, Elements

-----------------------------------------------------------------------------
(***************************************************************************)
(* Whatever a start has behind it is there, or is a column it could not    *)
(* add.  This is inductive: a statement that is passed had its effect, or  *)
(* was refused since its column was there, or failed and was noted.        *)
(***************************************************************************)
PassedIsThere ==
  /\ pc \in Down..Serving
  /\ \A i \in DOMAIN Statements :
       i < pc /\ Statements[i].makes # "index" => Statements[i].name \in schema \cup skipped

\* A process that is down has passed nothing.
LEMMA PassedInit == Init => PassedIsThere
  BY StatementsType DEF Init, PassedIsThere, Down, Serving

\* A statement that is passed keeps what was there and leaves its own name.
LEMMA StatementPasses ==
  ASSUME PassedIsThere, Statement
  PROVE  \/ pc' = Down
         \/ /\ pc' = pc + 1 /\ pc \in DOMAIN Statements
            /\ schema \subseteq schema' /\ skipped \subseteq skipped'
            /\ \/ Statements[pc].makes = "index"
               \/ Statements[pc].name \in schema' \cup skipped'
<1> DEFINE s == Statements[pc]
<1>1. CASE Execute(s)
  BY <1>1 DEF Statement, Execute
<1>2. CASE Refused(s) /\ Error(s) /\ UNCHANGED <<skipped, faults>>
  <2>1. s.makes = "index" \/ s.name \in schema
    BY <1>2 DEF Refused, Index
  <2> QED
    BY <1>2, <2>1 DEF Statement, Error
<1>3. CASE /\ Error(s)
           /\ skipped' = IF s.makes = "column" /\ s.name \notin schema
                         THEN skipped \cup {s.name} ELSE skipped
  <2>1. ~ Checked(s) => s.makes \in {"index", "column"}
    BY DEF Checked, Index
  <2> QED
    BY <1>3, <2>1 DEF Statement, Error
<1> QED
  BY <1>1, <1>2, <1>3 DEF Statement

\* Every step keeps what was passed.
LEMMA PassedInductive == PassedIsThere /\ [Next]_vars => PassedIsThere'
<1> SUFFICES ASSUME PassedIsThere, [Next]_vars PROVE PassedIsThere'
  OBVIOUS
<1>1. Len(Statements) \in Nat /\ DOMAIN Statements = 1..Len(Statements)
  BY StatementsType
<1>2. CASE pc' \in {Down, 1}
  BY <1>1, <1>2 DEF PassedIsThere, Down, Serving
<1>3. CASE Statement
  <2>1. CASE pc' = Down
    BY <1>2, <2>1
  <2>2. CASE pc' # Down
    <3>1. /\ pc' = pc + 1 /\ pc \in 1..Len(Statements)
          /\ schema \subseteq schema' /\ skipped \subseteq skipped'
          /\ \/ Statements[pc].makes = "index"
             \/ Statements[pc].name \in schema' \cup skipped'
      BY <1>1, <1>3, <2>2, StatementPasses
    <3>2. \A i \in DOMAIN Statements : i < pc' => i < pc \/ i = pc
      BY <1>1, <3>1
    <3>3. pc' \in Down..Serving
      BY <1>1, <3>1 DEF Down, Serving
    <3> QED
      BY <3>1, <3>2, <3>3 DEF PassedIsThere
  <2> QED
    BY <2>1, <2>2
<1>4. CASE UNCHANGED <<schema, pc, skipped>>
  BY <1>4 DEF PassedIsThere
<1> QED
  BY <1>2, <1>3, <1>4 DEF Next, vars, Start, Crash, Audience

\* An HQ that serves has all its queries need, however many starts died
\* halfway and whatever version left the file, but for columns that it could
\* not add in this very start.
THEOREM ServingMeansWhole == Spec => []ServingStoreIsWhole
<1>1. PassedIsThere => ServingStoreIsWhole
  <2> SUFFICES ASSUME PassedIsThere, pc = Serving, NEW x \in Needed, x \notin schema
               PROVE  x \in skipped
    BY DEF ServingStoreIsWhole
  <2>1. PICK i \in DOMAIN Statements : Statements[i].makes # "index" /\ Statements[i].name = x
    BY DEF Needed
  <2>2. i < pc
    BY StatementsType DEF Serving
  <2> QED
    BY <2>1, <2>2 DEF PassedIsThere
<1> QED
  BY <1>1, PassedInit, PassedInductive, PTL DEF Spec

-----------------------------------------------------------------------------
(***************************************************************************)
(* How an answer is read: what it says about its visibility, for answers   *)
(* of any length.  What is behind the last directive is never touched: the *)
(* text of a directive occurs on its own line, so its first occurrence is  *)
(* on that line or before it.                                              *)
(***************************************************************************)
\* Made of pieces of another line.
PartOf(line, from) == line \in Seq(ToSet(from))

\* v is what the first i lines say last, or private.
SaidUpTo(raw, i, v) ==
  \/ v = "private" /\ \A j \in 1..i : Says(raw[j]) = NoSay
  \/ \E j \in 1..i : /\ Says(raw[j]) # NoSay /\ v = Says(raw[j])
                     /\ \A m \in 1..i : m > j => Says(raw[m]) = NoSay

\* A set of line numbers has a least and a greatest.
LEMMA LineNumbers ==
  ASSUME NEW n \in Nat, NEW T, T \subseteq 1..n, T # {}
  PROVE  /\ Min(T) \in T /\ \A x \in T : Min(T) =< x
         /\ Max(T) \in T /\ \A x \in T : x =< Max(T)
<1>1. \E m \in T : \A x \in T : m =< x
  <2>1. T \subseteq Nat
    OBVIOUS
  <2> QED
    BY <2>1, LeastElement
<1>2. \E m \in T : \A x \in T : m >= x
  <2> DEFINE U == {n - x : x \in T}
  <2>1. U \subseteq Nat /\ U # {}
    <3>1. \A x \in T : n - x \in Nat
      OBVIOUS
    <3> QED
      BY <3>1
  <2>2. PICK u \in U : \A v \in U : u =< v
    BY <2>1, LeastElement
  <2>3. PICK m \in T : u = n - m
    BY <2>2
  <2>4. \A x \in T : n - x \in U
    OBVIOUS
  <2> HIDE DEF U
  <2>5. \A x \in T : n - m =< n - x
    BY <2>2, <2>3, <2>4
  <2> QED
    BY <2>5
<1>3. Min(T) \in T /\ \A x \in T : Min(T) =< x
  BY <1>1 DEF Min
<1>4. Max(T) \in T /\ \A x \in T : Max(T) >= x
  BY <1>2 DEF Max
<1> QED
  BY <1>3, <1>4

\* The last line that is not blank, if there is one.
LEMMA LastLineIs ==
  ASSUME NEW lines \in Seq(Lines)
  PROVE  \/ LastLine(lines) = 0
         \/ /\ LastLine(lines) \in 1..Len(lines) /\ lines[LastLine(lines)] # << >>
            /\ \A j \in 1..Len(lines) : j > LastLine(lines) => lines[j] = << >>
<1> DEFINE T == {i \in 1..Len(lines) : lines[i] # << >>}
<1>1. LastLine(lines) = IF T # {} THEN Max(T) ELSE 0
  BY DEF LastLine, SelectLastInSeq
<1>2. T # {} => Max(T) \in T /\ \A x \in T : x =< Max(T)
  <2>1. Len(lines) \in Nat /\ T \subseteq 1..Len(lines)
    OBVIOUS
  <2> HIDE DEF T
  <2> QED
    BY <2>1, LineNumbers
<1>3. CASE T = {}
  BY <1>1, <1>3
<1>4. CASE T # {}
  <2> DEFINE n == LastLine(lines)
  <2>1. n \in T /\ \A x \in T : x =< n
    BY <1>1, <1>2, <1>4
  <2> HIDE DEF n
  <2>2. \A j \in 1..Len(lines) : j > n => j \notin T
    BY <2>1
  <2> QED
    BY <2>1, <2>2 DEF n
<1> QED
  BY <1>3, <1>4

\* It is the one with only blank lines behind it.
LEMMA LastLineFound ==
  ASSUME NEW lines \in Seq(Lines), NEW n \in 1..Len(lines), lines[n] # << >>,
         \A j \in 1..Len(lines) : j > n => lines[j] = << >>
  PROVE  LastLine(lines) = n
<1> DEFINE T == {i \in 1..Len(lines) : lines[i] # << >>}
<1>1. LastLine(lines) = IF T # {} THEN Max(T) ELSE 0
  BY DEF LastLine, SelectLastInSeq
<1>2. n \in T /\ Len(lines) \in Nat /\ T \subseteq 1..Len(lines)
  OBVIOUS
<1>3. \A j \in T : ~ (j > n)
  OBVIOUS
<1> HIDE DEF T
<1>4. Max(T) \in T /\ n =< Max(T)
  BY <1>2, LineNumbers
<1>5. ~ (Max(T) > n)
  BY <1>3, <1>4
<1> DEFINE m == Max(T)
<1> HIDE DEF m
<1>6. m \in Nat /\ n \in Nat /\ n =< m /\ ~ (m > n)
  <2>1. m \in T /\ n =< m /\ ~ (m > n)
    BY <1>4, <1>5 DEF m
  <2>2. T \subseteq Nat
    BY <1>2
  <2> QED
    BY <1>2, <2>1, <2>2
<1>7. m = n
  BY <1>6
<1> QED
  BY <1>1, <1>2, <1>7 DEF m

\* A part of a part is a part, and has no piece of its own.
LEMMA PartOfPart ==
  ASSUME NEW from \in Lines, NEW line, PartOf(line, from)
  PROVE  /\ line \in Lines /\ ToSet(line) \subseteq ToSet(from)
         /\ \A part : PartOf(part, line) => PartOf(part, from)
<1> DEFINE S == ToSet(from)
<1>1. S \subseteq Pieces
  BY DEF Lines, ToSet
<1>2. line \in Seq(S)
  BY DEF PartOf
<1> HIDE DEF S
<1>3. ToSet(line) \subseteq S
  BY <1>2 DEF ToSet
<1>4. \A A, B : A \subseteq B => Seq(A) \subseteq Seq(B)
  OBVIOUS
<1>5. line \in Lines
  BY <1>1, <1>2, <1>4 DEF Lines
<1>6. \A part : PartOf(part, line) => part \in Seq(S)
  BY <1>3, <1>4 DEF PartOf
<1> QED
  BY <1>3, <1>5, <1>6 DEF PartOf, S

\* Any stretch of a line is a part of it.
LEMMA StretchIsPart ==
  ASSUME NEW line \in Lines, NEW a \in Int, NEW b \in Int, a >= 1, b =< Len(line)
  PROVE  PartOf(SubSeq(line, a, b), line)
<1>1. \A i \in a..b : line[i] \in ToSet(line)
  BY DEF Lines, ToSet
<1> DEFINE S == ToSet(line)
<1>2. \A i \in a..b : line[i] \in S
  BY <1>1
<1> HIDE DEF S
<1>3. SubSeq(line, a, b) \in Seq(S)
  BY <1>2, SubSeqProperties
<1> QED
  BY <1>3 DEF PartOf, S

\* What is left of a line a text was cut out of is a part of it.
LEMMA CutIsPart ==
  ASSUME NEW text \in Lines, NEW line \in Lines, Places(text, line) # {}
  PROVE  PartOf(Cut(text, line), line)
<1> DEFINE n == Len(line) - Len(text) + 1
           i == Min(Places(text, line))
<1>1. Len(line) \in Nat /\ Len(text) \in Nat
  BY DEF Lines
<1>2. Places(text, line) \subseteq 1..n
  BY DEF Places
<1>3. n \in Nat
  <2>1. PICK p \in 1..n : TRUE
    BY <1>2
  <2> QED
    BY <1>1, <2>1
<1>4. i \in 1..n
  <2> HIDE DEF n
  <2> QED
    BY <1>2, <1>3, LineNumbers
<1>5. Cut(text, line) = SubSeq(line, 1, i - 1) \o SubSeq(line, i + Len(text), Len(line))
  BY DEF Cut
<1> HIDE DEF i
<1>6. i - 1 \in Int /\ i - 1 =< Len(line) /\ i + Len(text) \in Int /\ i + Len(text) >= 1
  BY <1>1, <1>4
<1>7. PartOf(SubSeq(line, 1, i - 1), line)
  BY <1>6, StretchIsPart
<1>8. PartOf(SubSeq(line, i + Len(text), Len(line)), line)
  BY <1>1, <1>6, StretchIsPart
<1> DEFINE front == SubSeq(line, 1, i - 1)
           back == SubSeq(line, i + Len(text), Len(line))
           S == ToSet(line)
<1>9. front \in Seq(S) /\ back \in Seq(S)
  BY <1>7, <1>8 DEF PartOf
<1> HIDE DEF front, back, S
<1>10. front \o back \in Seq(S)
  BY <1>9, ConcatProperties
<1> QED
  BY <1>5, <1>10 DEF PartOf, front, back, S

\* A line occurs in itself.
LEMMA OccursInItself == \A line \in Lines : Places(line, line) # {}
<1> SUFFICES ASSUME NEW line \in Lines PROVE 1 \in Places(line, line)
  BY DEF Places
<1>1. Len(line) \in Nat /\ line \in Seq(Pieces)
  BY DEF Lines
<1>2. SubSeq(line, 1, Len(line)) = line
  BY <1>1
<1>3. 1 + Len(line) - 1 = Len(line) /\ 1 \in 1..(Len(line) - Len(line) + 1)
  BY <1>1
<1> QED
  BY <1>2, <1>3 DEF Places

\* What is left of an answer after its first i lines were looked at: parts of
\* its lines, with everything behind the last directive whole.
LeftOf(raw, i, lines) ==
  /\ lines \in Seq(Lines) /\ Len(lines) = Len(raw)
  /\ \A j \in 1..Len(raw) :
       /\ PartOf(lines[j], raw[j])
       /\ (\A m \in 1..i : m >= j => ~ Directive(raw[m])) => lines[j] = raw[j]

\* Taking out a directive touches no line behind it.
LEMMA StripLeaves ==
  ASSUME NEW raw \in Seq(Lines), NEW i \in 1..Len(raw), NEW lines, LeftOf(raw, i - 1, lines),
         Directive(raw[i])
  PROVE  LeftOf(raw, i, Strip(lines, raw[i]))
<1> DEFINE text == raw[i]
           T == {j \in 1..Len(lines) : Places(text, lines[j]) # {}}
           n == FirstWith(lines, text)
<1>1. n = IF T # {} THEN Min(T) ELSE 0
  BY DEF FirstWith, SelectInSeq
<1>2. lines \in Seq(Lines) /\ Len(lines) \in Nat /\ Len(lines) = Len(raw)
  BY DEF LeftOf
<1>3. text \in Lines
  OBVIOUS
<1>4. lines[i] = text
  <2>1. \A m \in 1..(i - 1) : ~ (m >= i)
    OBVIOUS
  <2> QED
    BY <2>1 DEF LeftOf
<1>5. i \in T /\ T \subseteq 1..Len(lines)
  BY <1>2, <1>3, <1>4, OccursInItself
<1> HIDE DEF n
<1>6. n \in T /\ n =< i
  <2>1. T # {}
    BY <1>5
  <2> HIDE DEF T
  <2> QED
    BY <1>1, <1>2, <1>5, <2>1, LineNumbers
<1>7. n \in 1..Len(lines) /\ Places(text, lines[n]) # {} /\ lines[n] \in Lines
  BY <1>2, <1>6
<1> DEFINE e == Cut(text, lines[n])
<1>8. Strip(lines, text) = [lines EXCEPT ![n] = e]
  BY DEF Strip, n
<1>9. PartOf(e, lines[n])
  BY <1>3, <1>7, CutIsPart
<1> HIDE DEF e, text
<1>10. e \in Lines
  BY <1>7, <1>9, PartOfPart
<1>11. /\ [lines EXCEPT ![n] = e] \in Seq(Lines)
       /\ Len([lines EXCEPT ![n] = e]) = Len(lines)
       /\ \A j \in 1..Len(lines) : [lines EXCEPT ![n] = e][j] = IF j = n THEN e ELSE lines[j]
  BY <1>2, <1>7, <1>10, ExceptSeq
<1> DEFINE left == [lines EXCEPT ![n] = e]
<1> HIDE DEF left
<1>12. ASSUME NEW j \in 1..Len(raw)
       PROVE  /\ PartOf(left[j], raw[j])
              /\ (\A m \in 1..i : m >= j => ~ Directive(raw[m])) => left[j] = raw[j]
  <2>1. /\ PartOf(lines[j], raw[j]) /\ raw[j] \in Lines
        /\ (\A m \in 1..(i - 1) : m >= j => ~ Directive(raw[m])) => lines[j] = raw[j]
    BY DEF LeftOf
  <2>2. left[j] = IF j = n THEN e ELSE lines[j]
    BY <1>2, <1>11 DEF left
  <2>3. PartOf(left[j], raw[j])
    BY <1>9, <2>1, <2>2, PartOfPart
  <2>4. ASSUME \A m \in 1..i : m >= j => ~ Directive(raw[m]) PROVE left[j] = raw[j]
    <3>1. j > i
      BY <2>4
    <3>2. j # n
      BY <1>6, <3>1
    <3>3. \A m \in 1..(i - 1) : ~ (m >= j)
      BY <3>1
    <3> QED
      BY <2>1, <2>2, <3>2, <3>3
  <2> QED
    BY <2>3, <2>4
<1>13. LeftOf(raw, i, left)
  BY <1>2, <1>11, <1>12 DEF LeftOf, left
<1> QED
  BY <1>8, <1>13 DEF left, text

\* scan is the reading of the answer after each number of lines.
Reads(scan, raw, n) ==
  scan = [i \in 0..n |-> IF i = 0 THEN [response |-> raw, visibility |-> "private"]
                                  ELSE ScanLine(scan[i - 1], raw[i])]

\* There is such a reading of any answer.
LEMMA ReadingExists ==
  ASSUME NEW raw, NEW n \in Nat
  PROVE  \E scan : Reads(scan, raw, n)
<1> DEFINE P == {m \in Nat : \E scan : Reads(scan, raw, m)}
<1>1. 0 \in P
  <2> DEFINE scan == [i \in 0..0 |-> [response |-> raw, visibility |-> "private"]]
  <2>1. Reads(scan, raw, 0)
    BY DEF Reads
  <2> QED
    BY <2>1
<1>2. ASSUME NEW m \in Nat, m \in P PROVE m + 1 \in P
  <2>1. PICK scan : Reads(scan, raw, m)
    BY <1>2
  <2> DEFINE g == [i \in 0..(m + 1) |->
                     IF i = 0 THEN [response |-> raw, visibility |-> "private"]
                              ELSE ScanLine(scan[i - 1], raw[i])]
  <2>2. \A i \in 0..m : scan[i] = IF i = 0 THEN [response |-> raw, visibility |-> "private"]
                                           ELSE ScanLine(scan[i - 1], raw[i])
    BY <2>1 DEF Reads
  <2>3. \A i \in 0..m : g[i] = scan[i]
    BY <2>2
  <2>4. \A i \in 0..(m + 1) : i # 0 => g[i - 1] = scan[i - 1]
    <3>1. \A i \in 0..(m + 1) : i # 0 => i - 1 \in 0..m
      OBVIOUS
    <3> HIDE DEF g
    <3> QED
      BY <2>3, <3>1
  <2>5. g = [i \in 0..(m + 1) |-> IF i = 0 THEN [response |-> raw, visibility |-> "private"]
                                           ELSE ScanLine(g[i - 1], raw[i])]
    BY <2>4
  <2>6. Reads(g, raw, m + 1)
    BY <2>5 DEF Reads
  <2> HIDE DEF g
  <2> QED
    BY <2>6
<1>3. P = Nat
  <2> HIDE DEF P
  <2>1. P \subseteq Nat
    BY DEF P
  <2> QED
    BY <1>1, <1>2, <2>1, CountUp
<1> QED
  BY <1>3

\* What the scan knows after the first i lines.
Heard(raw, i, reply) ==
  LeftOf(raw, i, reply.response) /\ SaidUpTo(raw, i, reply.visibility)

\* The next line of the scan.
LEMMA ScanStep ==
  ASSUME NEW raw \in Seq(Lines), NEW i \in 1..Len(raw), NEW reply, Heard(raw, i - 1, reply)
  PROVE  Heard(raw, i, ScanLine(reply, raw[i]))
<1> DEFINE line == raw[i]
<1>1. ScanLine(reply, line).response =
        IF Directive(line) THEN Strip(reply.response, line) ELSE reply.response
  BY DEF ScanLine
<1>2. ScanLine(reply, line).visibility = IF Says(line) # NoSay THEN Says(line) ELSE reply.visibility
  BY DEF ScanLine
<1>3. LeftOf(raw, i, ScanLine(reply, line).response)
  <2>1. CASE Directive(line)
    BY <1>1, <2>1, StripLeaves DEF Heard
  <2>2. CASE ~ Directive(line)
    <3> DEFINE lines == reply.response
    <3>1. LeftOf(raw, i - 1, lines)
      BY DEF Heard
    <3> HIDE DEF lines
    <3>2. ASSUME NEW j \in 1..Len(raw), \A m \in 1..i : m >= j => ~ Directive(raw[m])
          PROVE  lines[j] = raw[j]
      <4>1. \A m \in 1..(i - 1) : m \in 1..i
        OBVIOUS
      <4> QED
        BY <3>1, <3>2, <4>1 DEF LeftOf
    <3>3. LeftOf(raw, i, lines)
      BY <3>1, <3>2 DEF LeftOf
    <3> QED
      BY <1>1, <2>2, <3>3 DEF lines
  <2> QED
    BY <2>1, <2>2
<1>4. SaidUpTo(raw, i, ScanLine(reply, line).visibility)
  <2>1. \A m \in 1..i : m \in 1..(i - 1) \/ m = i
    OBVIOUS
  <2>2. \A m \in 1..(i - 1) : m \in 1..i
    OBVIOUS
  <2>3. CASE Says(line) # NoSay
    <3>1. i \in 1..i /\ \A m \in 1..i : ~ (m > i)
      OBVIOUS
    <3> QED
      BY <1>2, <2>3, <3>1 DEF SaidUpTo
  <2>4. CASE Says(line) = NoSay
    BY <1>2, <2>1, <2>2, <2>4 DEF SaidUpTo, Heard
  <2> QED
    BY <2>3, <2>4
<1> QED
  BY <1>3, <1>4 DEF Heard

\* The last thing the directives say is what the reference takes it to be.
LEMMA LastSaidIs ==
  ASSUME NEW raw \in Seq(Lines), NEW v, SaidUpTo(raw, Len(raw), v)
  PROVE  v = SaidLast(raw)
<1> DEFINE T == {i \in 1..Len(raw) : Says(raw[i]) # NoSay}
           said == SelectLastInSeq(raw, LAMBDA line : Says(line) # NoSay)
<1>1. said = IF T # {} THEN Max(T) ELSE 0
  BY DEF SelectLastInSeq
<1>2. T # {} => Max(T) \in T /\ \A x \in T : x =< Max(T)
  <2>1. Len(raw) \in Nat /\ T \subseteq 1..Len(raw)
    OBVIOUS
  <2> HIDE DEF T
  <2> QED
    BY <2>1, LineNumbers
<1> SUFFICES v = IF said = 0 THEN "private" ELSE Says(raw[said])
  BY DEF SaidLast
<1>3. CASE T = {}
  BY <1>1, <1>3 DEF SaidUpTo
<1>4. CASE T # {}
  <2>1. PICK j \in T : v = Says(raw[j]) /\ \A m \in 1..Len(raw) : m > j => Says(raw[m]) = NoSay
    BY <1>4 DEF SaidUpTo
  <2>2. Max(T) = j
    <3>1. Max(T) \in T /\ j =< Max(T)
      BY <1>2, <1>4
    <3>2. ~ (Max(T) > j)
      BY <2>1, <3>1
    <3>3. j \in Nat /\ Max(T) \in Nat
      BY <3>1
    <3> DEFINE top == Max(T)
    <3> HIDE DEF top, T
    <3>4. j \in Nat /\ top \in Nat /\ j =< top /\ ~ (top > j)
      BY <3>1, <3>2, <3>3 DEF top
    <3> QED
      BY <3>4 DEF top
  <2>3. said # 0
    BY <1>1, <1>4, <2>2
  <2> HIDE DEF said
  <2> QED
    BY <1>1, <1>4, <2>1, <2>2, <2>3
<1> QED
  BY <1>3, <1>4

\* The visibility is one of the two, and as asked.
ReadRight(raw, reply) ==
  /\ reply.response \in Seq(Lines)
  /\ reply.visibility \in {"public", "private"}
  /\ AsAsked(raw, reply.visibility)

\* An older directive is a piece of its line, and of none if there is none.
LEMMA LegacyIsSaid ==
  ASSUME NEW raw \in Seq(Lines), NEW n \in 1..Len(raw), NEW line, PartOf(line, raw[n]),
         LegacySays(line) # NoSay
  PROVE  \/ LegacySays(line) = "public" /\ Occurs("[PUBLIC]", raw)
         \/ LegacySays(line) = "private" /\ Occurs("[PRIVATE]", raw)
<1>1. line \in Lines /\ ToSet(line) \subseteq ToSet(raw[n])
  BY PartOfPart
<1>2. line # << >>
  BY DEF LegacySays
<1>3. Last(line) \in ToSet(line)
  <2>1. Len(line) \in 1..Len(line)
    BY <1>1, <1>2 DEF Lines
  <2> QED
    BY <1>1, <2>1 DEF Last, ToSet, Lines
<1>4. Last(line) \in ToSet(raw[n])
  BY <1>1, <1>3
<1>5. Occurs(Last(line), raw)
  BY <1>4 DEF Occurs
<1> QED
  BY <1>2, <1>5 DEF LegacySays

\* The older directive at the end has the last word.
LEMMA LegacyTagReads ==
  ASSUME NEW raw \in Seq(Lines), NEW reply, Heard(raw, Len(raw), reply)
  PROVE  ReadRight(raw, LegacyTag(reply))
<1> DEFINE lines == reply.response
           last == LastLine(lines)
           tagged == last # 0 /\ LegacySays(lines[last]) # NoSay
<1>1. lines \in Seq(Lines) /\ Len(lines) = Len(raw) /\ Len(raw) \in Nat
  BY DEF Heard, LeftOf
<1>2. \/ last = 0
      \/ last \in 1..Len(lines) /\ lines[last] # << >>
  BY <1>1, LastLineIs
<1>3. \A j \in 1..Len(raw) : PartOf(lines[j], raw[j])
  BY DEF Heard, LeftOf
<1>4. reply.visibility = SaidLast(raw)
  BY LastSaidIs DEF Heard
<1>5. /\ reply.visibility \in {"public", "private"}
      /\ reply.visibility = "public" => \E j \in DOMAIN raw : Says(raw[j]) = "public"
  BY DEF Heard, SaidUpTo, Says
<1>6. tagged => \/ LegacySays(lines[last]) = "public" /\ Occurs("[PUBLIC]", raw)
                \/ LegacySays(lines[last]) = "private" /\ Occurs("[PRIVATE]", raw)
  BY <1>1, <1>2, <1>3, LegacyIsSaid
<1>7. ASSUME EndsInLegacy(raw)
      PROVE  tagged /\ LegacySays(lines[last]) = LegacySays(raw[LastLine(raw)])
  <2> DEFINE n == LastLine(raw)
  <2>1. /\ n \in 1..Len(raw) /\ raw[n] # << >>
        /\ \A j \in 1..Len(raw) : j > n => raw[j] = << >>
        /\ ~ Directive(raw[n]) /\ LegacySays(raw[n]) # NoSay
    BY <1>7, LastLineIs DEF EndsInLegacy
  <2> HIDE DEF n
  <2>2. ~ Directive(<< >>)
    BY DEF Directive, Translation, Says
  <2>3. ASSUME NEW j \in 1..Len(raw), j >= n PROVE lines[j] = raw[j]
    <3>1. \A m \in 1..Len(raw) : m >= j => m = n \/ m > n
      BY <2>1, <2>3
    <3>2. \A m \in 1..Len(raw) : m >= j => ~ Directive(raw[m])
      BY <2>1, <2>2, <3>1
    <3> QED
      BY <3>2 DEF Heard, LeftOf
  <2>4. lines[n] = raw[n] /\ \A j \in 1..Len(lines) : j > n => lines[j] = << >>
    <3>1. \A j \in 1..Len(lines) : j > n => j >= n
      BY <1>1, <2>1
    <3>2. n >= n
      BY <2>1
    <3> QED
      BY <1>1, <2>1, <2>3, <3>1, <3>2
  <2> HIDE DEF lines
  <2>5. LastLine(lines) = n
    BY <1>1, <2>1, <2>4, LastLineFound
  <2>6. n # 0
    BY <2>1
  <2> QED
    BY <2>1, <2>4, <2>5, <2>6 DEF n
<1>8. CASE tagged
  <2> DEFINE e == Front(lines[last])
             r == [lines EXCEPT ![last] = e]
             v == LegacySays(lines[last])
  <2>1. LegacyTag(reply) = [response |-> r, visibility |-> v]
    BY <1>8 DEF LegacyTag
  <2>2. e \in Lines
    <3>1. lines[last] \in Lines
      BY <1>1, <1>2, <1>8
    <3>2. PartOf(e, lines[last])
      <4>1. Len(lines[last]) - 1 \in Int /\ Len(lines[last]) - 1 =< Len(lines[last])
        BY <3>1 DEF Lines
      <4> QED
        BY <3>1, <4>1, StretchIsPart DEF Front
    <3> QED
      BY <3>1, <3>2, PartOfPart
  <2> HIDE DEF e, last, lines
  <2>3. r \in Seq(Lines)
    BY <1>1, <1>2, <1>8, <2>2, ExceptSeq
  <2>4. AsAsked(raw, v)
    <3>1. EndsInLegacy(raw) => v = LegacySays(raw[LastLine(raw)])
      BY <1>7
    <3>2. Occurs("[PUBLIC]", raw) \/ Occurs("[PRIVATE]", raw)
      BY <1>6, <1>8
    <3>3. v = "public" => SaidPublic(raw)
      BY <1>6, <1>8 DEF SaidPublic
    <3> HIDE DEF v
    <3> QED
      BY <3>1, <3>2, <3>3 DEF AsAsked
  <2>5. v \in {"public", "private"}
    BY <1>6, <1>8
  <2> HIDE DEF r, v
  <2> QED
    BY <2>1, <2>3, <2>4, <2>5 DEF ReadRight
<1>9. CASE ~ tagged
  <2>1. LegacyTag(reply) = reply
    BY <1>9 DEF LegacyTag
  <2>2. AsAsked(raw, reply.visibility)
    BY <1>4, <1>5, <1>7, <1>9 DEF AsAsked, SaidPublic
  <2> QED
    BY <1>1, <1>5, <2>1, <2>2 DEF ReadRight
<1> QED
  BY <1>8, <1>9

\* Every answer is read right.
LEMMA AnswersAreReadRight ==
  ASSUME NEW raw \in Seq(Lines)
  PROVE  ReadRight(raw, RespondFull(raw))
<1> DEFINE scan == CHOOSE scan : Reads(scan, raw, Len(raw))
           P == {m \in Nat : m =< Len(raw) => Heard(raw, m, scan[m])}
<1>1. Len(raw) \in Nat
  OBVIOUS
<1>2. Reads(scan, raw, Len(raw))
  BY <1>1, ReadingExists
<1>3. RespondFull(raw) = LegacyTag(scan[Len(raw)])
  BY DEF RespondFull, Reads
<1> HIDE DEF scan
<1>4. \A i \in 0..Len(raw) :
        scan[i] = IF i = 0 THEN [response |-> raw, visibility |-> "private"]
                           ELSE ScanLine(scan[i - 1], raw[i])
  BY <1>2 DEF Reads
<1>5. 0 \in P
  <2>1. scan[0] = [response |-> raw, visibility |-> "private"]
    BY <1>1, <1>4
  <2>2. LeftOf(raw, 0, raw)
    <3>1. \A line \in Lines : PartOf(line, line)
      BY DEF PartOf, ToSet, Lines
    <3> QED
      BY <3>1 DEF LeftOf
  <2>3. SaidUpTo(raw, 0, "private")
    BY DEF SaidUpTo
  <2> QED
    BY <2>1, <2>2, <2>3 DEF Heard
<1>6. ASSUME NEW m \in Nat, m \in P PROVE m + 1 \in P
  <2> SUFFICES ASSUME m + 1 =< Len(raw) PROVE Heard(raw, m + 1, scan[m + 1])
    OBVIOUS
  <2> DEFINE i == m + 1
  <2>1. i \in 1..Len(raw) /\ i - 1 = m /\ m =< Len(raw)
    BY <1>1
  <2>2. scan[i] = ScanLine(scan[i - 1], raw[i])
    BY <1>4, <2>1
  <2>3. Heard(raw, i - 1, scan[i - 1])
    BY <1>6, <2>1
  <2> HIDE DEF i
  <2>4. Heard(raw, i, scan[i])
    BY <2>1, <2>2, <2>3, ScanStep
  <2> QED
    BY <2>4 DEF i
<1>7. Len(raw) \in P
  <2> HIDE DEF P
  <2>1. P \subseteq Nat
    BY DEF P
  <2> QED
    BY <1>1, <1>5, <1>6, <2>1, CountUp
<1> QED
  BY <1>1, <1>3, <1>7, LegacyTagReads

-----------------------------------------------------------------------------
(***************************************************************************)
(* The audiences on record, through any number of upgrades that were cut   *)
(* short.  Rows without a visibility are all from before there was one, so *)
(* adding the column gives each of them one that is private.               *)
(***************************************************************************)
Rows == [by : {"older version", "subject", "patrol"}, answer : Seq(Lines) \cup {None},
         response : Seq(Lines) \cup {None}, visibility : {"public", "private", None}]

OnRecord ==
  /\ audiences \in Seq(Rows)
  /\ \A i \in DOMAIN audiences :
       /\ audiences[i].by = "subject" =>
            audiences[i].answer \in Seq(Lines) /\ ReadRight(audiences[i].answer, audiences[i])
       /\ audiences[i].by # "subject" /\ "visibility" \in schema =>
            audiences[i].visibility = "private"
       /\ "visibility" \notin schema => audiences[i].by = "older version"

\* The rows are numbered from 1.
LEMMA RowsType ==
  ASSUME OnRecord
  PROVE  /\ audiences \in Seq(Rows) /\ Len(audiences) \in Nat
         /\ DOMAIN audiences = 1..Len(audiences)
         /\ \A i \in DOMAIN audiences : audiences[i] \in Rows
<1>1. audiences \in Seq(Rows)
  BY Zenon DEF OnRecord
<1> QED
  BY <1>1

\* Old rows are on record as they should be.
LEMMA OnRecordInit == Init => OnRecord
<1> SUFFICES ASSUME Init PROVE OnRecord
  OBVIOUS
<1>1. PICK n \in OldRows : /\ n > 0 => "visibility" \notin schema
                           /\ audiences = [i \in 1..n |-> OldAudience]
  BY DEF Init
<1>2. n \in Nat
  BY StoreAssumption
<1>3. OldAudience \in Rows /\ OldAudience.by = "older version"
  BY DEF OldAudience, Rows
<1>4. audiences \in Seq(Rows)
  <2> DEFINE row == OldAudience
  <2>1. row \in Rows /\ audiences = [i \in 1..n |-> row]
    BY <1>1, <1>3
  <2> HIDE DEF row
  <2>2. [i \in 1..n |-> row] \in Seq(Rows)
    BY <1>2, <2>1
  <2> QED
    BY <2>1, <2>2
<1>5. \A i \in DOMAIN audiences : audiences[i] = OldAudience /\ n > 0
  BY <1>1, <1>2
<1> QED
  BY <1>1, <1>3, <1>4, <1>5 DEF OnRecord

\* Only the statement that adds the column makes it.
LEMMA OneMakesVisibility ==
  ASSUME NEW i \in DOMAIN Statements, Statements[i].name = "visibility"
  PROVE  Statements[i] = Column("visibility")
<1>1. Statements[i] \in Elements
  BY StatementsType
<1>2. \A s \in Elements : s.name = "visibility" => s = Column("visibility")
  BY DEF Elements, Range, Migrate, MigrateChain, MigrateHonours, MigrateBuilds,
         MigrateAnalytics, Table, Index, Column
<1> QED
  BY <1>1, <1>2

\* A statement of the upgrade fills in a visibility only where there was none.
LEMMA StatementKeepsRecord == OnRecord /\ Statement => OnRecord'
<1> SUFFICES ASSUME OnRecord, Statement PROVE OnRecord'
  OBVIOUS
<1> DEFINE s == Statements[pc]
<1>1. CASE Execute(s)
  <2>1. schema' = schema \cup {s.name}
    BY <1>1 DEF Execute
  <2>2. CASE s = Column("visibility")
    <3>1. "visibility" \notin schema /\ "visibility" \in schema'
      BY <1>1, <2>1, <2>2 DEF Execute, Refused, Column
    <3>2. audiences' = [i \in DOMAIN audiences |-> Filled(audiences[i])]
      BY <1>1, <2>2 DEF Execute
    <3>3. \A i \in DOMAIN audiences : audiences[i] \in Rows
      BY RowsType
    <3>4. \A a \in Rows : /\ Filled(a) \in Rows /\ Filled(a).by = a.by
                          /\ Filled(a).visibility = "private"
      BY DEF Filled, Rows
    <3>5. audiences' \in Seq(Rows) /\ DOMAIN audiences' = DOMAIN audiences
      <4>1. Len(audiences) \in Nat /\ DOMAIN audiences = 1..Len(audiences)
        BY RowsType
      <4> QED
        BY <3>2, <3>3, <3>4, <4>1
    <3>6. \A i \in DOMAIN audiences : audiences'[i].by = "older version"
                                      /\ audiences'[i].visibility = "private"
      BY <3>1, <3>2, <3>3, <3>4 DEF OnRecord
    <3> QED
      BY <3>1, <3>5, <3>6 DEF OnRecord
  <2>3. CASE s # Column("visibility")
    <3>1. audiences' = audiences
      BY <1>1, <2>3 DEF Execute
    <3>2. "visibility" \in schema' <=> "visibility" \in schema
      BY <2>1, <2>3, OneMakesVisibility DEF Statement
    <3> QED
      BY <3>1, <3>2 DEF OnRecord
  <2> QED
    BY <2>2, <2>3
<1>2. CASE UNCHANGED <<schema, audiences>>
  BY <1>2 DEF OnRecord
<1> QED
  BY <1>1, <1>2 DEF Statement, Error

\* An audience is recorded as it was read, a patrol as private.
LEMMA AudienceKeepsRecord ==
  ASSUME OnRecord, NEW by \in {"subject", "patrol"}, Audience(by)
  PROVE  OnRecord'
<1>1. Asked + 1 \in DOMAIN Replies
  <2>1. Len(audiences) \in Nat /\ DOMAIN audiences = 1..Len(audiences)
    BY RowsType
  <2>2. IsFiniteSet({i \in 1..Len(audiences) : audiences[i].by # "older version"})
    <3>1. IsFiniteSet(1..Len(audiences))
      BY <2>1, FS_Interval
    <3> QED
      BY <3>1, FS_Subset, Zenon
  <2>3. Asked \in Nat
    BY <2>1, <2>2, FS_CardinalityType DEF Asked
  <2>4. Asked < Len(Replies) /\ Replies \in Seq(SUBSET Seq(Lines))
    BY StoreAssumption DEF Audience
  <2> QED
    BY <2>3, <2>4
<1>2. PICK raw \in Replies[Asked + 1] :
        RecordAudience([by |-> by, answer |-> raw, response |-> RespondFull(raw).response,
                        visibility |-> IF by = "patrol" THEN ""
                                       ELSE RespondFull(raw).visibility])
  BY DEF Audience
<1>3. raw \in Seq(Lines)
  BY <1>1, StoreAssumption
<1>4. ReadRight(raw, RespondFull(raw))
  BY <1>3, AnswersAreReadRight
<1> DEFINE reply == RespondFull(raw)
           row == [by |-> by, answer |-> raw, response |-> reply.response,
                   visibility |-> IF by = "patrol" THEN "private" ELSE reply.visibility]
<1>5. audiences' = IF AddedColumns \subseteq schema THEN Append(audiences, row) ELSE audiences
  <2>1. reply.visibility # ""
    BY <1>4 DEF ReadRight
  <2> DEFINE asked == [by |-> by, answer |-> raw, response |-> reply.response,
                       visibility |-> IF by = "patrol" THEN "" ELSE reply.visibility]
  <2>2. RecordAudience(asked)
    BY <1>2
  <2> HIDE DEF reply
  <2>3. asked.visibility = "" <=> by = "patrol"
    BY <2>1
  <2>4. by = "patrol" => [asked EXCEPT !.visibility = "private"] = row
    <3>1. \A said, b, v : [[by |-> b, answer |-> raw, response |-> said, visibility |-> v]
                              EXCEPT !.visibility = "private"]
                         = [by |-> b, answer |-> raw, response |-> said,
                            visibility |-> "private"]
      OBVIOUS
    <3> QED
      BY <3>1
  <2>5. by # "patrol" => asked = row
    OBVIOUS
  <2> HIDE DEF asked, row
  <2> QED
    BY <2>2, <2>3, <2>4, <2>5 DEF RecordAudience
<1>6. schema' = schema
  BY DEF Audience
<1>7. CASE ~ (AddedColumns \subseteq schema)
  BY <1>5, <1>6, <1>7 DEF OnRecord
<1>8. CASE AddedColumns \subseteq schema
  <2>1. "visibility" \in schema
    BY <1>8 DEF AddedColumns
  <2>2. /\ row.by = by /\ row.answer = raw /\ row.response = reply.response
        /\ row.visibility = IF by = "patrol" THEN "private" ELSE reply.visibility
    OBVIOUS
  <2>3. row \in Rows
    BY <1>3, <1>4 DEF Rows, ReadRight
  <2>4. by = "subject" => ReadRight(raw, row)
    BY <1>4, <2>2 DEF ReadRight
  <2> HIDE DEF row, reply
  <2>5. audiences' = Append(audiences, row)
    BY <1>5, <1>8
  <2>6. /\ audiences' \in Seq(Rows)
        /\ DOMAIN audiences' = 1..(Len(audiences) + 1)
        /\ \A i \in 1..Len(audiences) : audiences'[i] = audiences[i]
        /\ audiences'[Len(audiences) + 1] = row
    <3>1. audiences \in Seq(Rows)
      BY RowsType
    <3> QED
      BY <2>3, <2>5, <3>1, AppendProperties
  <2>7. DOMAIN audiences = 1..Len(audiences) /\ Len(audiences) \in Nat
    BY RowsType
  <2>8. ASSUME NEW i \in 1..(Len(audiences) + 1)
        PROVE  \/ i \in 1..Len(audiences) /\ audiences'[i] = audiences[i]
               \/ audiences'[i] = row
    BY <2>6, <2>7
  <2>9. ASSUME NEW i \in DOMAIN audiences'
        PROVE  /\ audiences'[i].by = "subject" =>
                    audiences'[i].answer \in Seq(Lines)
                      /\ ReadRight(audiences'[i].answer, audiences'[i])
               /\ audiences'[i].by # "subject" => audiences'[i].visibility = "private"
    <3>1. CASE i \in 1..Len(audiences) /\ audiences'[i] = audiences[i]
      BY <2>1, <2>7, <3>1 DEF OnRecord
    <3>2. CASE audiences'[i] = row
      <4>1. row.by = "subject" => row.answer \in Seq(Lines) /\ ReadRight(row.answer, row)
        BY <1>3, <2>2, <2>4
      <4>2. row.by # "subject" => row.visibility = "private"
        BY <2>2
      <4> QED
        BY <3>2, <4>1, <4>2
    <3> QED
      BY <2>6, <2>8, <3>1, <3>2
  <2> QED
    BY <1>6, <2>1, <2>6, <2>9 DEF OnRecord
<1> QED
  BY <1>7, <1>8

\* Every step keeps the record.
LEMMA OnRecordInductive == OnRecord /\ [Next]_vars => OnRecord'
<1> SUFFICES ASSUME OnRecord, [Next]_vars PROVE OnRecord'
  OBVIOUS
<1>1. CASE UNCHANGED <<schema, audiences>>
  BY <1>1 DEF OnRecord
<1> QED
  BY <1>1, StatementKeepsRecord, AudienceKeepsRecord DEF Next, Start, Crash, vars

\* Only added columns are ever skipped, and the schema only has what some
\* statement makes.
KnownNames == schema \subseteq SchemaNames /\ skipped \subseteq AddedColumns

\* The columns the start adds are those with a name of their own.
LEMMA ColumnsAreAdded ==
  \A i \in DOMAIN Statements : Statements[i].makes = "column" => Statements[i].name \in AddedColumns
<1>1. \A s \in Elements : s.makes = "column" => s.name \in AddedColumns
  BY DEF Elements, Range, Migrate, MigrateChain, MigrateHonours, MigrateBuilds,
         MigrateAnalytics, Table, Index, Column, AddedColumns
<1> QED
  BY <1>1, StatementsType

\* Every step keeps the names known.
LEMMA NamesInductive == KnownNames /\ [Next]_vars => KnownNames'
<1> SUFFICES ASSUME KnownNames, [Next]_vars PROVE KnownNames'
  OBVIOUS
<1>1. CASE Statement
  <2> DEFINE s == Statements[pc]
  <2>1. pc \in DOMAIN Statements
    BY <1>1 DEF Statement
  <2>2. s.name \in SchemaNames
    BY <2>1 DEF SchemaNames
  <2>3. s.makes = "column" => s.name \in AddedColumns
    BY <2>1, ColumnsAreAdded
  <2> QED
    BY <1>1, <2>2, <2>3 DEF Statement, Execute, Error, KnownNames
<1>2. CASE Start \/ Audience("subject") \/ Audience("patrol") \/ Crash \/ UNCHANGED vars
  BY <1>2 DEF Start, Audience, Crash, vars, KnownNames
<1> QED
  BY <1>1, <1>2 DEF Next

\* The file, the statements and the rows are well-formed, whatever version
\* left the file.
THEOREM TypeCorrect == Spec => []TypeOK
<1>1. Init => KnownNames
  BY OldSchemasAssumption DEF Init, KnownNames
<1>2. PassedIsThere /\ OnRecord /\ KnownNames => TypeOK
  BY RowsType DEF Rows, PassedIsThere, KnownNames, TypeOK
<1> QED
  BY <1>1, <1>2, PassedInit, PassedInductive, OnRecordInit, OnRecordInductive,
     NamesInductive, PTL DEF Spec

\* The visibility on record is the one the answer asked for, however it was
\* put, in answers of any length, and public only if it says so somewhere.
THEOREM KingHasTheLastWord == Spec => []KingDecides
<1>1. OnRecord => KingDecides
  BY DEF OnRecord, ReadRight, KingDecides, Subjects
<1> QED
  BY <1>1, OnRecordInit, OnRecordInductive, PTL DEF Spec

-----------------------------------------------------------------------------
(***************************************************************************)
(* The petition wall: the query shows rows of the table, and public ones   *)
(* only.                                                                   *)
(***************************************************************************)
Public == {audiences[i] : i \in {j \in DOMAIN audiences : audiences[j].visibility = "public"}}

\* The query after each number of rows.
Finds(found, n) ==
  found = [i \in 0..n |->
             IF i = 0 THEN << >>
             ELSE IF audiences[i].visibility = "public" THEN Append(found[i - 1], audiences[i])
             ELSE found[i - 1]]

\* There is such a query of any length.
LEMMA FindingExists ==
  ASSUME NEW n \in Nat
  PROVE  \E found : Finds(found, n)
<1> DEFINE P == {m \in Nat : \E found : Finds(found, m)}
<1>1. 0 \in P
  <2> DEFINE found == [i \in 0..0 |-> << >>]
  <2>1. Finds(found, 0)
    BY DEF Finds
  <2> QED
    BY <2>1
<1>2. ASSUME NEW m \in Nat, m \in P PROVE m + 1 \in P
  <2>1. PICK found : Finds(found, m)
    BY <1>2
  <2> DEFINE Row(h, i) == IF i = 0 THEN << >>
                          ELSE IF audiences[i].visibility = "public"
                               THEN Append(h[i - 1], audiences[i]) ELSE h[i - 1]
             g == [i \in 0..(m + 1) |-> Row(found, i)]
  <2>2. \A i \in 0..m : found[i] = Row(found, i)
    BY <2>1 DEF Finds
  <2>3. \A i \in 0..m : g[i] = found[i]
    BY <2>2
  <2>4. \A i \in 0..(m + 1) : i # 0 => g[i - 1] = found[i - 1]
    <3>1. \A i \in 0..(m + 1) : i # 0 => i - 1 \in 0..m
      OBVIOUS
    <3> HIDE DEF g
    <3> QED
      BY <2>3, <3>1
  <2>5. g = [i \in 0..(m + 1) |-> Row(g, i)]
    BY <2>4
  <2>6. Finds(g, m + 1)
    BY <2>5 DEF Finds
  <2> HIDE DEF g
  <2> QED
    BY <2>6
<1>3. P = Nat
  <2> HIDE DEF P
  <2>1. P \subseteq Nat
    BY DEF P
  <2> QED
    BY <1>1, <1>2, <2>1, CountUp
<1> QED
  BY <1>3

\* What is newest of some rows is among them.
LEMMA NewestAreAmong ==
  ASSUME NEW S, NEW found \in Seq(S), NEW n \in Nat
  PROVE  ToSet(Newest(found, n)) \subseteq S
<1> DEFINE k == Min({n, Len(found)})
<1>1. k \in 0..Len(found)
  <2>1. Len(found) \in Nat
    OBVIOUS
  <2>2. \A a, b \in Nat : \E x \in {a, b} : \A y \in {a, b} : x =< y
    OBVIOUS
  <2>3. k \in {n, Len(found)} /\ \A y \in {n, Len(found)} : k =< y
    BY <2>1, <2>2 DEF Min
  <2> QED
    BY <2>1, <2>3
<1> HIDE DEF k
<1>2. /\ Reverse(found) = [i \in 1..Len(found) |-> found[Len(found) - i + 1]]
      /\ \A i \in 1..Len(found) : found[Len(found) - i + 1] \in S
  <2>1. \A i \in 1..Len(found) : Len(found) - i + 1 \in 1..Len(found)
    OBVIOUS
  <2> QED
    BY <2>1 DEF Reverse
<1> DEFINE r == Reverse(found)
<1>3. \A i \in 1..k : r[i] \in S
  BY <1>1, <1>2
<1>4. SubSeq(r, 1, k) \in Seq(S)
  <2> HIDE DEF r
  <2> QED
    BY <1>1, <1>3, SubSeqProperties
<1>5. \A t \in Seq(S) : \A i \in DOMAIN t : t[i] \in S
  OBVIOUS
<1> QED
  BY <1>4, <1>5 DEF Newest, ToSet, k

\* The wall shows public rows of the table.
LEMMA WallShowsPublic ==
  ASSUME OnRecord
  PROVE  ToSet(PublicAudiences(audiences, WallLimit)) \subseteq Public
<1> DEFINE n == Len(audiences)
           found == CHOOSE found : Finds(found, n)
           P == {m \in Nat : m =< n => found[m] \in Seq(Public)}
<1>1. n \in Nat
  BY RowsType
<1>2. Finds(found, n)
  BY <1>1, FindingExists
<1>3. PublicAudiences(audiences, WallLimit) = Newest(found[n], WallLimit)
  BY DEF PublicAudiences, Finds
<1> HIDE DEF found, n
<1>4. \A i \in 0..n :
        found[i] = IF i = 0 THEN << >>
                   ELSE IF audiences[i].visibility = "public"
                        THEN Append(found[i - 1], audiences[i]) ELSE found[i - 1]
  BY <1>2 DEF Finds
<1>5. 0 \in P
  <2>1. found[0] = << >>
    BY <1>1, <1>4
  <2>2. << >> \in Seq(Public)
    OBVIOUS
  <2> QED
    BY <2>1, <2>2
<1>6. ASSUME NEW m \in Nat, m \in P PROVE m + 1 \in P
  <2> SUFFICES ASSUME m + 1 =< n PROVE found[m + 1] \in Seq(Public)
    OBVIOUS
  <2> DEFINE i == m + 1
  <2>1. i \in 1..n /\ i - 1 = m /\ i # 0 /\ i \in 0..n
    BY <1>1
  <2>2. found[i - 1] \in Seq(Public)
    BY <1>1, <1>6, <2>1
  <2>3. i \in DOMAIN audiences
    BY <2>1, RowsType DEF n
  <2>4. audiences[i].visibility = "public" => audiences[i] \in Public
    BY <2>3 DEF Public
  <2> HIDE DEF i
  <2>5. found[i] \in Seq(Public)
    BY <1>4, <2>1, <2>2, <2>4, AppendProperties
  <2> QED
    BY <2>5 DEF i
<1>7. n \in P
  <2> HIDE DEF P
  <2>1. P \subseteq Nat
    BY DEF P
  <2> QED
    BY <1>1, <1>5, <1>6, <2>1, CountUp
<1>8. found[n] \in Seq(Public)
  BY <1>1, <1>7
<1>9. WallLimit \in Nat
  BY StoreAssumption
<1> QED
  BY <1>3, <1>8, <1>9, NewestAreAmong

\* What the King never said was to be shared is not on the wall, through every
\* upgrade: patrols, and what was said before there was a visibility.
THEOREM SilenceIsPrivate == Spec => []UndecidedStaysPrivate
<1>1. OnRecord => UndecidedStaysPrivate
  <2> SUFFICES ASSUME OnRecord, "visibility" \in schema, NEW p \in Public
               PROVE  p.by = "subject" /\ SaidPublic(p.answer)
    BY WallShowsPublic DEF UndecidedStaysPrivate
  <2>1. PICK i \in DOMAIN audiences : p = audiences[i] /\ audiences[i].visibility = "public"
    BY DEF Public
  <2> QED
    BY <2>1 DEF OnRecord, ReadRight, AsAsked
<1> QED
  BY <1>1, OnRecordInit, OnRecordInductive, PTL DEF Spec

-----------------------------------------------------------------------------
\* A new order of n places that leaves those before i alone.
Order(f, n, i) == /\ f \in [1..n -> 1..n]
                  /\ \A a, b \in 1..n : f[a] = f[b] => a = b
                  /\ \A b \in 1..n : \E a \in 1..n : f[a] = b
                  /\ \A a \in 1..n : a < i => f[a] = a

\* The places from i on stay among themselves.
LEMMA OrderKeepsRest ==
  ASSUME NEW n \in Nat, NEW i \in 1..n, NEW f, Order(f, n, i), NEW b \in i..n
  PROVE  f[b] \in i..n
<1>1. b \in 1..n /\ f[b] \in 1..n
  BY DEF Order
<1>2. f[b] < i => f[f[b]] = f[b]
  BY <1>1 DEF Order
<1>3. f[f[b]] = f[b] => f[b] = b
  BY <1>1 DEF Order
<1> QED
  BY <1>1, <1>2, <1>3

\* One order after another.
LEMMA OrderAfterOrder ==
  ASSUME NEW n \in Nat, NEW i \in Int, NEW k \in Int, i =< k,
         NEW f, Order(f, n, i), NEW g, Order(g, n, k)
  PROVE  Order([a \in 1..n |-> f[g[a]]], n, i)
<1> DEFINE h == [a \in 1..n |-> f[g[a]]]
<1>1. h \in [1..n -> 1..n]
  BY DEF Order
<1>2. ASSUME NEW a \in 1..n, NEW b \in 1..n, h[a] = h[b] PROVE a = b
  <2>1. g[a] \in 1..n /\ g[b] \in 1..n /\ f[g[a]] = f[g[b]]
    BY <1>2 DEF Order
  <2>2. g[a] = g[b]
    BY <2>1 DEF Order
  <2> QED
    BY <2>2 DEF Order
<1>3. ASSUME NEW b \in 1..n PROVE \E a \in 1..n : h[a] = b
  <2>1. PICK c \in 1..n : f[c] = b
    BY DEF Order
  <2>2. PICK a \in 1..n : g[a] = c
    BY DEF Order
  <2> QED
    BY <2>1, <2>2
<1>4. ASSUME NEW a \in 1..n, a < i PROVE h[a] = a
  BY <1>4 DEF Order
<1> HIDE DEF h
<1>5. Order(h, n, i)
  BY <1>1, <1>2, <1>3, <1>4 DEF Order
<1> QED
  BY <1>5 DEF h

\* An exchange is an order of the places.
Exchanging(n, i, j) == [[a \in 1..n |-> a] EXCEPT ![i] = j, ![j] = i]

LEMMA ExchangingOrders ==
  ASSUME NEW n \in Nat, NEW i \in 1..n, NEW j \in (i + 1)..n
  PROVE  Order(Exchanging(n, i, j), n, i)
<1>1. i \in 1..n /\ j \in 1..n /\ i < j
  OBVIOUS
<1> DEFINE f == Exchanging(n, i, j)
<1>2. f \in [1..n -> 1..n] /\ f[i] = j /\ f[j] = i /\ \A a \in 1..n : a # i /\ a # j => f[a] = a
  BY <1>1 DEF Exchanging
<1> HIDE DEF f
<1>3. \A b \in 1..n : f[f[b]] = b
  BY <1>1, <1>2
<1>4. \A a, b \in 1..n : f[a] = f[b] => a = b
  BY <1>3
<1>5. \A b \in 1..n : \E a \in 1..n : f[a] = b
  BY <1>2, <1>3
<1>6. Order(f, n, i)
  BY <1>1, <1>2, <1>4, <1>5 DEF Order
<1> QED
  BY <1>6 DEF f

\* What an exchange leaves: the same entries, of which i is now the newer.
LEMMA ExchangeReorders ==
  ASSUME NEW S, \A e \in S : e.time \in Int, NEW n \in Nat, NEW s \in [1..n -> S],
         NEW i \in 1..n, NEW j \in (i + 1)..n
  PROVE  /\ Exchange(s, i, j) \in [1..n -> S]
         /\ \E f : Order(f, n, i) /\ Exchange(s, i, j) = [a \in 1..n |-> s[f[a]]]
         /\ \A a \in 1..n : a # i /\ a # j => Exchange(s, i, j)[a] = s[a]
         /\ Exchange(s, i, j)[i].time >= s[i].time
         /\ Exchange(s, i, j)[i].time >= Exchange(s, i, j)[j].time
<1> DEFINE t == Exchange(s, i, j)
<1>0. i \in 1..n /\ j \in 1..n /\ i < j /\ s[i].time \in Int /\ s[j].time \in Int
  OBVIOUS
<1>1. CASE s[j].time > s[i].time
  <2>1. t = [s EXCEPT ![i] = s[j], ![j] = s[i]]
    BY <1>1 DEF Exchange
  <2> HIDE DEF t
  <2>2. /\ t \in [1..n -> S] /\ t[i] = s[j] /\ t[j] = s[i]
        /\ \A a \in 1..n : a # i /\ a # j => t[a] = s[a]
    BY <1>0, <2>1
  <2> DEFINE f == Exchanging(n, i, j)
  <2>3. f \in [1..n -> 1..n] /\ f[i] = j /\ f[j] = i
        /\ \A a \in 1..n : a # i /\ a # j => f[a] = a
    BY <1>0 DEF Exchanging
  <2>4. Order(f, n, i)
    BY ExchangingOrders
  <2> HIDE DEF f
  <2>5. \A a \in 1..n : t[a] = s[f[a]]
    BY <1>0, <2>2, <2>3
  <2>6. t = [a \in 1..n |-> s[f[a]]]
    BY <2>2, <2>5
  <2> QED
    BY <1>0, <1>1, <2>2, <2>4, <2>6 DEF t
<1>2. CASE ~ s[j].time > s[i].time
  <2>1. t = s
    BY <1>2 DEF Exchange
  <2> HIDE DEF t
  <2> DEFINE f == [a \in 1..n |-> a]
  <2>2. Order(f, n, i) /\ t = [a \in 1..n |-> s[f[a]]]
    BY <2>1 DEF Order
  <2> HIDE DEF f
  <2> QED
    BY <1>0, <1>2, <2>1, <2>2 DEF t
<1> QED
  BY <1>1, <1>2

\* One pass of the inner loop reorders the places from i on and leaves in i
\* an entry as new as any of them.
LEMMA PassReorders ==
  ASSUME NEW S, \A e \in S : e.time \in Int, NEW n \in Nat, NEW s \in [1..n -> S],
         NEW i \in 1..n
  PROVE  /\ ExchangesFrom(s, i) \in [1..n -> S]
         /\ \E f : Order(f, n, i) /\ ExchangesFrom(s, i) = [a \in 1..n |-> s[f[a]]]
         /\ \A a \in i..n : ExchangesFrom(s, i)[i].time >= ExchangesFrom(s, i)[a].time
<1> DEFINE D == [1..n -> S]
           next == [q \in D \X ((i + 1)..n) |-> Exchange(q[1], i, q[2])]
           Loop(h) == h = [j \in i..n |-> IF j = i THEN s ELSE Exchange(h[j - 1], i, j)]
<1>0. ASSUME NEW t \in [1..n -> S], NEW j \in (i + 1)..n
      PROVE  /\ Exchange(t, i, j) \in [1..n -> S]
             /\ \E f : Order(f, n, i) /\ Exchange(t, i, j) = [a \in 1..n |-> t[f[a]]]
             /\ \A a \in 1..n : a # i /\ a # j => Exchange(t, i, j)[a] = t[a]
             /\ Exchange(t, i, j)[i].time >= t[i].time
             /\ Exchange(t, i, j)[i].time >= Exchange(t, i, j)[j].time
  BY ExchangeReorders
<1>1. next \in [D \X ((i + 1)..n) -> D]
  <2> SUFFICES ASSUME NEW q \in D \X ((i + 1)..n) PROVE Exchange(q[1], i, q[2]) \in D
    OBVIOUS
  <2>1. q[1] \in D /\ q[2] \in (i + 1)..n
    OBVIOUS
  <2> QED
    BY <1>0, <2>1
<1>2. \E h : Loop(h)
  <2> HIDE DEF D
  <2>0. s \in D
    BY DEF D
  <2>1. PICK h \in [i..n -> D] :
          Steps(h, i, n, s, next)
    <3>1. i \in Nat /\ n \in Nat /\ i =< n
      OBVIOUS
    <3> HIDE DEF next
    <3> QED
      BY <1>1, <2>0, <3>1, StepsExist
  <2>2. ASSUME NEW j \in i..n
        PROVE  h[j] = IF j = i THEN s ELSE Exchange(h[j - 1], i, j)
    <3>1. CASE j # i
      <4>1. j \in (i + 1)..n /\ j - 1 \in i..n
        BY <3>1
      <4>2. <<h[j - 1], j>> \in D \X ((i + 1)..n)
        BY <2>1, <4>1
      <4>3. next[<<h[j - 1], j>>] = Exchange(h[j - 1], i, j)
        BY <4>2
      <4> QED
        BY <2>1, <3>1, <4>1, <4>3 DEF Steps
    <3> QED
      BY <2>1, <3>1 DEF Steps
  <2>3. Loop(h)
    BY <2>1, <2>2
  <2> QED
    BY <2>3
<1> DEFINE h == CHOOSE h : Loop(h)
<1>3. Loop(h)
  BY <1>2
<1>4. Len(s) = n
  BY LenProperties
<1>5. ExchangesFrom(s, i) = h[n]
  BY <1>4 DEF ExchangesFrom
<1> HIDE DEF h
<1>6. h[i] = s /\ \A j \in (i + 1)..n : h[j] = Exchange(h[j - 1], i, j)
  <2>1. \A j \in i..n : h[j] = IF j = i THEN s ELSE Exchange(h[j - 1], i, j)
    BY <1>3
  <2> QED
    BY <2>1
<1> HIDE DEF Loop, next
<1> DEFINE Good(t, j) == /\ t \in D
                         /\ \E f : Order(f, n, i) /\ t = [a \in 1..n |-> s[f[a]]]
                         /\ \A a \in i..j : t[i].time >= t[a].time
           P == {m \in Nat : i + m =< n => Good(h[i + m], i + m)}
<1>7. 0 \in P
  <2> DEFINE f == [a \in 1..n |-> a]
  <2>1. Order(f, n, i) /\ s = [a \in 1..n |-> s[f[a]]]
    BY DEF Order
  <2>2. s[i].time >= s[i].time
    OBVIOUS
  <2> HIDE DEF f
  <2>3. Good(s, i)
    BY <2>1, <2>2
  <2> HIDE DEF Good
  <2> QED
    BY <1>6, <2>3
<1>8. ASSUME NEW m \in Nat, m \in P PROVE m + 1 \in P
  <2> SUFFICES ASSUME i + (m + 1) =< n PROVE Good(h[i + (m + 1)], i + (m + 1))
    OBVIOUS
  <2>1. PICK j \in (i + 1)..n : j = i + (m + 1) /\ j - 1 = i + m
    OBVIOUS
  <2>0. Good(h[i + m], i + m)
    <3> HIDE DEF Good
    <3> QED
      BY <1>8
  <2>2. PICK t : t = h[j - 1] /\ Good(t, j - 1)
    <3>1. Good(h[j - 1], j - 1)
      <4> HIDE DEF Good
      <4> QED
        BY <2>0, <2>1
    <3> HIDE DEF Good
    <3> QED
      BY <3>1
  <2>3. PICK u : u = h[j] /\ u = Exchange(t, i, j)
    BY <1>6, <2>2
  <2>4. PICK f : Order(f, n, i) /\ t = [a \in 1..n |-> s[f[a]]]
    BY <2>2
  <2>t. t \in [1..n -> S]
    BY <2>2
  <2>5. /\ t \in D /\ u \in D /\ u[i].time >= t[i].time /\ u[i].time >= u[j].time
        /\ \A a \in 1..n : a # i /\ a # j => u[a] = t[a]
    BY <1>0, <2>t, <2>3
  <2>6. PICK g : Order(g, n, i) /\ u = [a \in 1..n |-> t[g[a]]]
    <3>1. PICK g : Order(g, n, i) /\ Exchange(t, i, j) = [a \in 1..n |-> t[g[a]]]
      BY <1>0, <2>t
    <3> QED
      BY <2>3, <3>1
  <2> DEFINE k == [a \in 1..n |-> f[g[a]]]
  <2>7. Order(k, n, i)
    BY <2>4, <2>6, OrderAfterOrder
  <2>8. u = [a \in 1..n |-> s[k[a]]]
    <3>1. \A a \in 1..n : g[a] \in 1..n
      BY <2>6 DEF Order
    <3>2. \A a \in 1..n : t[g[a]] = s[f[g[a]]]
      BY <2>4, <3>1
    <3> QED
      BY <2>6, <3>2
  <2> HIDE DEF k
  <2>9. \A a \in i..j : u[i].time >= u[a].time
    <3> TAKE a \in i..j
    <3>1. a \in 1..n /\ i \in 1..n /\ \A b \in 1..n : u[b].time \in Int /\ t[b].time \in Int
      BY <2>5
    <3>2. CASE a # i /\ a # j
      <4>1. u[a] = t[a] /\ a \in i..(j - 1)
        BY <2>5, <3>1, <3>2
      <4>2. t[i].time >= t[a].time
        BY <2>2, <4>1
      <4> QED
        BY <2>5, <3>1, <4>1, <4>2
    <3> QED
      BY <2>5, <3>1, <3>2
  <2> QED
    BY <2>1, <2>3, <2>5, <2>7, <2>8, <2>9
<1>9. P = Nat
  <2> HIDE DEF P
  <2>1. P \subseteq Nat
    BY DEF P
  <2> QED
    BY <1>7, <1>8, <2>1, CountUp
<1>10. n - i \in P /\ i + (n - i) = n
  <2>1. n - i \in Nat /\ i + (n - i) = n
    OBVIOUS
  <2> HIDE DEF P
  <2> QED
    BY <1>9, <2>1
<1>11. Good(h[n], n)
  <2> HIDE DEF Good
  <2> QED
    BY <1>10
<1> QED
  BY <1>5, <1>11

\* The timeline holds every entry, in its new place, with no entry before a
\* newer one: the exchange sort sorts.
THEOREM ExchangeSortSorts ==
  ASSUME NEW S, \A e \in S : e.time \in Int, NEW entries \in Seq(S)
  PROVE  LET n == Len(entries)
             sorted == ExchangeSort(entries)
         IN  /\ \E f : Order(f, n, 1) /\ sorted = [a \in 1..n |-> entries[f[a]]]
             /\ \A a, b \in 1..n : a < b => sorted[a].time >= sorted[b].time
<1> DEFINE n == Len(entries)
           D == [1..n -> S]
           next == [q \in D \X (1..n) |-> ExchangesFrom(q[1], q[2])]
           Loop(h) == h = [i \in 0..n |-> IF i = 0 THEN entries ELSE ExchangesFrom(h[i - 1], i)]
<1>n. n \in Nat /\ entries \in [1..n -> S]
  BY LenProperties
<1>0. ASSUME NEW t \in [1..n -> S], NEW i \in 1..n
      PROVE  /\ ExchangesFrom(t, i) \in [1..n -> S]
             /\ \E f : Order(f, n, i) /\ ExchangesFrom(t, i) = [a \in 1..n |-> t[f[a]]]
             /\ \A a \in i..n : ExchangesFrom(t, i)[i].time >= ExchangesFrom(t, i)[a].time
  <2> HIDE DEF n
  <2> QED
    BY <1>n, PassReorders
<1>5. ExchangeSort(entries) = (CHOOSE h : Loop(h))[n]
  BY DEF ExchangeSort
<1> HIDE DEF n
<1>1. next \in [D \X (1..n) -> D]
  <2> SUFFICES ASSUME NEW q \in D \X (1..n) PROVE ExchangesFrom(q[1], q[2]) \in D
    OBVIOUS
  <2>1. q[1] \in D /\ q[2] \in 1..n
    OBVIOUS
  <2> QED
    BY <1>0, <2>1
<1>2. \E h : Loop(h)
  <2>0. entries \in D
    BY <1>n
  <2> HIDE DEF D
  <2>1. PICK h \in [0..n -> D] : Steps(h, 0, n, entries, next)
    <3>1. 0 \in Nat /\ n \in Nat /\ 0 =< n /\ 0 + 1 = 1
      BY <1>n
    <3> HIDE DEF next
    <3>2. next \in [D \X ((0 + 1)..n) -> D]
      BY <1>1, <3>1
    <3> QED
      BY <2>0, <3>1, <3>2, StepsExist
  <2>2. ASSUME NEW i \in 0..n
        PROVE  h[i] = IF i = 0 THEN entries ELSE ExchangesFrom(h[i - 1], i)
    <3>1. CASE i # 0
      <4>1. i \in (0 + 1)..n /\ i \in 1..n /\ i - 1 \in 0..n
        BY <1>n, <3>1
      <4>2. <<h[i - 1], i>> \in D \X (1..n)
        BY <2>1, <4>1
      <4>3. next[<<h[i - 1], i>>] = ExchangesFrom(h[i - 1], i)
        BY <4>2
      <4> QED
        BY <2>1, <3>1, <4>1, <4>3 DEF Steps
    <3> QED
      BY <2>1, <3>1 DEF Steps
  <2>3. Loop(h)
    BY <2>1, <2>2
  <2> QED
    BY <2>3
<1> DEFINE h == CHOOSE h : Loop(h)
<1>3. Loop(h)
  BY <1>2
<1>4. ExchangeSort(entries) = h[n]
  BY <1>5
<1> HIDE DEF h
<1>6. h[0] = entries /\ \A i \in 1..n : h[i] = ExchangesFrom(h[i - 1], i)
  <2>1. \A i \in 0..n : h[i] = IF i = 0 THEN entries ELSE ExchangesFrom(h[i - 1], i)
    BY <1>3
  <2> QED
    BY <1>n, <2>1
<1> HIDE DEF Loop, next
\* After the pass from i, the places up to i hold what they will.
<1> DEFINE Good(t, i) == /\ t \in D
                         /\ \E f : Order(f, n, 1) /\ t = [a \in 1..n |-> entries[f[a]]]
                         /\ \A a \in 1..i : \A b \in a..n : t[a].time >= t[b].time
           P == {i \in Nat : i =< n => Good(h[i], i)}
<1>7. 0 \in P
  <2> DEFINE f == [a \in 1..n |-> a]
  <2>1. Order(f, n, 1) /\ entries = [a \in 1..n |-> entries[f[a]]]
    BY <1>n DEF Order
  <2> HIDE DEF f
  <2>3. Good(entries, 0)
    BY <1>n, <2>1
  <2> HIDE DEF Good
  <2> QED
    BY <1>6, <2>3
<1>8. ASSUME NEW m \in Nat, m \in P PROVE m + 1 \in P
  <2> SUFFICES ASSUME m + 1 =< n PROVE Good(h[m + 1], m + 1)
    OBVIOUS
  <2>1. PICK i \in 1..n : i = m + 1 /\ i - 1 = m
    BY <1>n
  <2>0. Good(h[m], m)
    <3> HIDE DEF Good
    <3> QED
      BY <1>8, <1>n
  <2>2. PICK t : t = h[i - 1] /\ Good(t, i - 1)
    <3> HIDE DEF Good
    <3> QED
      BY <2>0, <2>1
  <2>3. PICK u : u = h[i] /\ u = ExchangesFrom(t, i)
    BY <1>6, <2>2
  <2>t. t \in [1..n -> S]
    BY <2>2
  <2>4. PICK f : Order(f, n, 1) /\ t = [a \in 1..n |-> entries[f[a]]]
    BY <2>2
  <2>5. u \in [1..n -> S] /\ \A a \in i..n : u[i].time >= u[a].time
    BY <1>0, <2>t, <2>3
  <2>6. PICK g : Order(g, n, i) /\ u = [a \in 1..n |-> t[g[a]]]
    <3>1. PICK g : Order(g, n, i) /\ ExchangesFrom(t, i) = [a \in 1..n |-> t[g[a]]]
      BY <1>0, <2>t
    <3> QED
      BY <2>3, <3>1
  <2> DEFINE k == [a \in 1..n |-> f[g[a]]]
  <2>7. Order(k, n, 1)
    <3>1. 1 \in Int /\ i \in Int /\ 1 =< i
      BY <1>n
    <3> QED
      BY <1>n, <2>4, <2>6, <3>1, OrderAfterOrder
  <2>8. u = [a \in 1..n |-> entries[k[a]]]
    <3>1. \A a \in 1..n : g[a] \in 1..n
      BY <2>6 DEF Order
    <3>2. \A a \in 1..n : t[g[a]] = entries[f[g[a]]]
      BY <2>4, <3>1
    <3> QED
      BY <2>6, <3>2
  <2> HIDE DEF k
  <2>9. ASSUME NEW a \in 1..i, NEW b \in a..n PROVE u[a].time >= u[b].time
    <3>1. CASE a = i
      BY <2>5, <3>1
    <3>2. CASE a # i
      <4>1. a \in 1..(i - 1) /\ a \in 1..n /\ b \in 1..n /\ a < i
        BY <1>n, <3>2
      <4>2. u[a] = t[a]
        BY <2>6, <4>1 DEF Order
      <4>3. g[b] \in a..n
        <5>1. CASE b < i
          BY <2>6, <4>1, <5>1 DEF Order
        <5>2. CASE b >= i
          <6>1. b \in i..n
            BY <4>1, <5>2
          <6>2. g[b] \in i..n
            BY <1>n, <2>6, <6>1, OrderKeepsRest
          <6> QED
            BY <1>n, <4>1, <6>2
        <5> QED
          BY <4>1, <5>1, <5>2
      <4>4. u[b] = t[g[b]]
        BY <2>6, <4>1
      <4> QED
        BY <2>2, <4>1, <4>2, <4>3, <4>4
    <3> QED
      BY <3>1, <3>2
  <2> QED
    BY <2>1, <2>3, <2>5, <2>7, <2>8, <2>9
<1>9. P = Nat
  <2> HIDE DEF P
  <2>1. P \subseteq Nat
    BY DEF P
  <2> QED
    BY <1>7, <1>8, <2>1, CountUp
<1>10. Good(h[n], n)
  <2> HIDE DEF Good
  <2>1. n \in P
    <3> HIDE DEF P
    <3> QED
      BY <1>9, <1>n
  <2> QED
    BY <2>1
<1>11. PICK s : s = ExchangeSort(entries) /\ Good(s, n)
  <2> HIDE DEF Good
  <2> QED
    BY <1>4, <1>10
<1>12. \A a, b \in 1..n : a < b => s[a].time >= s[b].time
  <2> TAKE a, b \in 1..n
  <2> HAVE a < b
  <2>1. a \in 1..n /\ b \in a..n
    BY <1>n
  <2>2. \A c \in 1..n : \A d \in c..n : s[c].time >= s[d].time
    BY <1>11
  <2> QED
    BY <2>1, <2>2
<1> QED
  BY <1>11, <1>12 DEF n
====================================
