----------------------------- MODULE Catalogues -----------------------------
(***************************************************************************)
(* What can be looked up at HQ: components in the registry                 *)
(* (cmd/glassfactory/main.go) and entries in the knowledge store           *)
(* (internal/knowledge/knowledge.go), and what a contribution must have to *)
(* be let in, as functions.  Each of them holds its lock from start to     *)
(* end.                                                                    *)
(*                                                                         *)
(* Of a word only its letters and its case matter: [letters, case].  For a *)
(* query a topic is the set of the words it contains anywhere.             *)
(* For a signature a text is what lies between its '|' characters, in      *)
(* order: a text without any is one piece, and the empty text is the empty *)
(* piece.                                                                  *)
(***************************************************************************)
EXTENDS Integers, SequencesExt

Text(piece) == <<piece>>
NoText == Text("")
Lower(word) == word.letters
Lowered(words) == {Lower(w) : w \in words}

-----------------------------------------------------------------------------
Attributes == {"capabilities", "patterns", "interfaces", "concerns"}

\* How many of the wanted words there are; one wanted twice counts twice.
Overlap(have, want) == Len(SelectSeq(want, LAMBDA w : Lower(w) \in Lowered(ToSet(have))))

Sum4(f) == f["capabilities"] + f["patterns"] + f["interfaces"] + f["concerns"]

\* The score as a fraction; 0 when nothing is wanted.
ScoreMatch(desc, want) ==
  [hits  |-> Sum4([a \in Attributes |-> Overlap(desc[a], want[a])]),
   total |-> Sum4([a \in Attributes |-> Len(want[a])])]

\* Search gives everything that hits, in no order.
Search(components, want) ==
  {r \in {[uid |-> u, score |-> ScoreMatch(components[u], want)] : u \in DOMAIN components} :
     r.score.hits > 0}

\* POST /api/registry/components: the last registration of a uid stands, as
\* one of this registry, whoever the descriptor names.
Register(components, desc, factoryID) ==
  IF desc.uid = NoText THEN components
  ELSE [u \in DOMAIN components \cup {desc.uid} |->
          IF u = desc.uid THEN [desc EXCEPT !.source = factoryID] ELSE components[u]]

-----------------------------------------------------------------------------
Categories == {Text(c) : c \in {"pattern", "lesson", "failure_mode", "proof_strategy",
                "test_strategy", "architecture_decision", "ada_knowledge"}}

\* What a signature covers: the texts joined by '|', which none of them
\* escapes, so that where one ends cannot be seen any more.  No confidence
\* and no count is in it.
EntrySigningPayload(e) == e.id \o e.category \o e.topic \o e.content \o e.language
                            \o e.job \o e.source \o e.proof

\* The key an entry names is 64 hex digits, hex of another length, no hex, or
\* missing.
KeyForms == {"key", "short", "garbled", "none"}
NoSigner == [form |-> "none", name |-> NoText]
Unsigned == [key |-> NoSigner, payload |-> << >>]
NotHex == [key |-> NoSigner, payload |-> NoText]

SignEntry(e, key) == [e EXCEPT !.signer = key,
                               !.signature = [key |-> key, payload |-> EntrySigningPayload(e)]]

\* ed25519.Verify panics on a key of another length than its own.
VerifyEntry(e) ==
  CASE e.signer.form = "garbled" \/ e.signature = NotHex -> "error"
    [] e.signer.form = "short" /\ e.signature # NotHex -> "panic"
    [] e.signer.form = "key" /\ e.signature # NotHex ->
         IF e.signature = [key |-> e.signer, payload |-> EntrySigningPayload(e)]
         THEN "valid" ELSE "invalid"

\* The language, the job and the factory may be missing.
Filled(e) == /\ e.category \in Categories
             /\ NoText \notin {e.id, e.topic, e.content, e.proof}
             /\ e.signer # NoSigner /\ e.signature # Unsigned

\* Whether a contribution is let in, or ends the request.
ValidateContribution(e) ==
  IF ~ Filled(e) THEN "rejected"
  ELSE CASE VerifyEntry(e) = "valid" -> "accepted"
         [] VerifyEntry(e) \in {"error", "invalid"} -> "rejected"
         [] VerifyEntry(e) = "panic" -> "panic"

Outcome(batch, is) == SelectSeq(batch, LAMBDA e : ValidateContribution(e) = is)

\* POST /api/knowledge/contribute: each entry is let in or not for itself,
\* up to one that panics: it leaves the request without an answer, what came
\* before it is saved, what comes after it is not looked at.
Contributed(batch) ==
  LET stop == SelectInSeq(batch, LAMBDA e : ValidateContribution(e) = "panic")
      handled == IF stop = 0 THEN batch ELSE SubSeq(batch, 1, stop - 1)
  IN  [saved    |-> Outcome(handled, "accepted"),
       answered |-> stop = 0,
       rejected |-> Len(Outcome(handled, "rejected"))]

-----------------------------------------------------------------------------
\* Any of the queries occurs in the topic.
MatchesTopics(topic, queries) == Lowered(ToSet(queries)) \cap Lowered(topic) # {}

\* Confidence times contributors, of which there is one at least.
Rank(e) == e.confidence * Max({1, e.contributors})

\* Entries of the category and the language, if one is named, on one of the
\* topics, if there are any; those of the highest rank first, with ties in
\* any order, and no more than the limit, if it is not zero.
Query(entries, category, language, topics, limit) ==
  LET found == {e \in entries : /\ category \in {NoText, e.category}
                                /\ language \in {NoText, e.language}
                                /\ topics # << >> => MatchesTopics(e.topic, topics)}
      ranked == SetToSortSeq(found, LAMBDA e, f : Rank(e) > Rank(f))
  IN  IF limit > 0 THEN SubSeq(ranked, 1, Min({limit, Len(ranked)})) ELSE ranked
=============================================================================
