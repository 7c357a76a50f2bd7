----------------------------- MODULE KingReply -----------------------------
(***************************************************************************)
(* How RespondFull (internal/king/king.go) takes the directives out of the *)
(* model's answer.  An answer is a sequence of lines and a line a sequence *)
(* of pieces: words, which are all alike, and the tags the code looks for, *)
(* in whatever order the model wrote them; it is told what to write, not   *)
(* made to.  White space, tags cut in two and the translations themselves  *)
(* are left out, and one translation tag stands for the two there are.     *)
(***************************************************************************)
EXTENDS Integers, SequencesExt, FiniteSetsExt

Pieces == {"word", "[VISIBILITY:PUBLIC]", "[VISIBILITY:PRIVATE]", "[TRANSLATE:", "]",
           "[PUBLIC]", "[PRIVATE]"}

Lines == Seq(Pieces)

NoSay == "no say"

\* What a line says of the visibility: the scan looks at how it begins.
Says(line) == CASE line # << >> /\ Head(line) = "[VISIBILITY:PUBLIC]" -> "public"
                [] line # << >> /\ Head(line) = "[VISIBILITY:PRIVATE]" -> "private"
                [] OTHER -> NoSay

\* What its end says in the older way.
LegacySays(line) == CASE line # << >> /\ Last(line) = "[PUBLIC]" -> "public"
                      [] line # << >> /\ Last(line) = "[PRIVATE]" -> "private"
                      [] OTHER -> NoSay

\* A translation is on one line that ends in a bracket, of a tag if need be.
Translation(line) == /\ line # << >> /\ Head(line) = "[TRANSLATE:"
                     /\ Last(line) \notin {"word", "[TRANSLATE:"}

Directive(line) == Translation(line) \/ Says(line) # NoSay

\* Where the text of one line occurs in a line.
Places(text, line) == {i \in 1..(Len(line) - Len(text) + 1) :
                         SubSeq(line, i, i + Len(text) - 1) = text}

Cut(text, line) ==
  LET i == Min(Places(text, line))
  IN  SubSeq(line, 1, i - 1) \o SubSeq(line, i + Len(text), Len(line))

\* The first of the lines the text occurs in, 0 if there is none.
FirstWith(lines, text) == SelectInSeq(lines, LAMBDA line : Places(text, line) # {})

\* A bug: the whole line the text occurs in goes.
StripLine(lines, text) == [lines EXCEPT ![FirstWith(lines, text)] = << >>]

\* strings.Replace takes the first occurrence of the text out, wherever it is.
Strip(lines, text) == [lines EXCEPT ![FirstWith(lines, text)] = Cut(text, @)]

\* A bug: a private directive is not heard after a public one.
ScanPublicOnly(reply, line) ==
  [response |-> IF Directive(line) THEN Strip(reply.response, line) ELSE reply.response,
   visibility |-> IF Says(line) = "public" THEN "public" ELSE reply.visibility]

\* One line of the scan: a directive is obeyed and taken out of the response.
ScanLine(reply, line) ==
  [response |-> IF Directive(line) THEN Strip(reply.response, line) ELSE reply.response,
   visibility |-> IF Says(line) # NoSay THEN Says(line) ELSE reply.visibility]

\* The last line that is not blank, 0 if all are.
LastLine(lines) == SelectLastInSeq(lines, LAMBDA line : line # << >>)

\* An older directive at the very end of what is left overrules the scan.
LegacyTag(reply) ==
  LET last == LastLine(reply.response)
  IN  IF last # 0 /\ LegacySays(reply.response[last]) # NoSay
      THEN [response |-> [reply.response EXCEPT ![last] = Front(@)],
            visibility |-> LegacySays(reply.response[last])]
      ELSE reply

\* The response and the visibility in an answer; private if it names none.
RespondFull(raw) ==
  LET scan[i \in 0..Len(raw)] == IF i = 0 THEN [response |-> raw, visibility |-> "private"]
                                          ELSE ScanLine(scan[i - 1], raw[i])
  IN  LegacyTag(scan[Len(raw)])

-----------------------------------------------------------------------------
(***************************************************************************)
(* What an answer asks for, said of the answer alone.                      *)
(***************************************************************************)
Occurs(piece, raw) == \E i \in DOMAIN raw : piece \in ToSet(raw[i])

\* What the directives on lines of their own say last; silence is private.
SaidLast(raw) == LET i == SelectLastInSeq(raw, LAMBDA line : Says(line) # NoSay)
                 IN  IF i = 0 THEN "private" ELSE Says(raw[i])

\* It says somewhere, in the one way or in the other, that it is public.
SaidPublic(raw) == \/ \E i \in DOMAIN raw : Says(raw[i]) = "public"
                   \/ Occurs("[PUBLIC]", raw)

\* It ends in an older directive.
EndsInLegacy(raw) == LET i == LastLine(raw)
                     IN  i # 0 /\ ~ Directive(raw[i]) /\ LegacySays(raw[i]) # NoSay

\* The visibility is as asked where the answer leaves no doubt: one that has
\* none of the older directives, or ends in one.  Whatever it mixes, it is not
\* made public unless it says so somewhere.
AsAsked(raw, visibility) ==
  /\ EndsInLegacy(raw) => visibility = LegacySays(raw[LastLine(raw)])
  /\ ~ Occurs("[PUBLIC]", raw) /\ ~ Occurs("[PRIVATE]", raw) => visibility = SaidLast(raw)
  /\ visibility = "public" => SaidPublic(raw)

\* The words of some lines.
Words(lines, Test(_)) ==
  FoldLeft(LAMBDA n, line : n + IF Test(line) THEN Len(SelectSeq(line, LAMBDA p : p = "word"))
                                              ELSE 0, 0, lines)

\* Just the words on the lines of directives are gone.
KeepsWords(raw, response) ==
  Words(response, LAMBDA line : TRUE) = Words(raw, LAMBDA line : ~ Directive(line))
=============================================================================
