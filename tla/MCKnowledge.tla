----------------------------- MODULE MCKnowledge -----------------------------
(* Factories contributing knowledge under any ids, and what is found in     *)
(* small catalogues.                                                        *)
EXTENDS Knowledge, Catalogues, TLC

MCDeltas == {-3, 2}
MCCounts == {-1, 0, 7}

MCSymmetry == Permutations(Ids) \cup Permutations(Factories) \cup Permutations(Subjects)

-----------------------------------------------------------------------------
Word(l, c) == [letters |-> l, case |-> c]
Words == {Word(l, c) : l \in {"http", "auth"}, c \in {"lower", "upper"}}
Lists(n) == UNION {[1..m -> Words] : m \in 0..n}

Component(uid, caps, concerns) ==
  [uid |-> uid, capabilities |-> caps, patterns |-> << >>, interfaces |-> << >>,
   concerns |-> concerns, source |-> "elsewhere"]
Wanted(caps, concerns) == [capabilities |-> caps, patterns |-> << >>,
                           interfaces |-> << >>, concerns |-> concerns]

\* A score is between 0 and 1, and 1 exactly if all that is wanted is there,
\* each under its own heading and in any case; who wants nothing finds
\* nothing.
ASSUME \A have, want \in Lists(2), concerns, wantConcerns \in Lists(1) :
         LET score == ScoreMatch(Component(Text("u"), have, concerns), Wanted(want, wantConcerns))
             met == /\ Lowered(ToSet(want)) \subseteq Lowered(ToSet(have))
                    /\ Lowered(ToSet(wantConcerns)) \subseteq Lowered(ToSet(concerns))
         IN  /\ score.hits =< score.total
             /\ (score.hits = score.total) <=> met
             /\ score.total = 0 <=> want = << >> /\ wantConcerns = << >>

\* What is registered is found by any word of its own until its uid is
\* registered anew, and always as this registry's.
ASSUME \A caps, later \in Lists(2), w \in Words :
         LET once == Register(<< >>, Component(Text("u"), caps, << >>), "home")
             twice == Register(once, Component(Text("u"), later, << >>), "home")
             both == Register(once, Component(Text("v"), later, << >>), "home")
             found(cs) == {r.uid : r \in Search(cs, Wanted(<<w>>, << >>))}
             has(list) == Lower(w) \in Lowered(ToSet(list))
         IN  /\ found(once) = IF has(caps) THEN {Text("u")} ELSE {}
             /\ found(twice) = IF has(later) THEN {Text("u")} ELSE {}
             /\ found(both) = found(once) \cup IF has(later) THEN {Text("v")} ELSE {}
             /\ both[Text("u")].source = "home"
             /\ Register(both, Component(NoText, caps, << >>), "home") = both

-----------------------------------------------------------------------------
Key(form, name) == [form |-> form, name |-> Text(name)]
Draft == [id |-> Text("k"), category |-> Text("pattern"), topic |-> Text("t"),
          content |-> <<"c", "go">>, language |-> Text("go"), job |-> Text("j"),
          source |-> Text("f"), proof |-> Text("p"),
          confidence |-> 5, signer |-> NoSigner, signature |-> Unsigned]
SignedFields == {"id", "category", "topic", "content", "language", "job", "source", "proof"}

\* A signed contribution is let in; one with any one signed field changed
\* since or emptied, or another signer named, is not.  A language, a job and
\* a factory may be missing if they were when it was signed.
ASSUME LET signed == SignEntry(Draft, Key("key", "a"))
           In(e) == ValidateContribution(e) = "accepted"
       IN  /\ In(signed)
           /\ ~ In(Draft)
           /\ ~ In([signed EXCEPT !.signer = Key("key", "b")])
           /\ \A x \in SignedFields :
                /\ \A text \in {NoText, Text("lesson"), <<"c">>, <<"go", "go">>} :
                     text # signed[x] => ~ In([signed EXCEPT ![x] = text])
                /\ In(SignEntry([Draft EXCEPT ![x] = NoText], Key("key", "a")))
                     <=> x \in {"language", "job", "source"}
           /\ In([signed EXCEPT !.confidence = 9])

\* Text between two fields that are both free may move from one to the other
\* under the same signature.
ASSUME LET signed == SignEntry(Draft, Key("key", "a"))
       IN  ValidateContribution([signed EXCEPT !.content = <<"c">>,
                                               !.language = <<"go", "go">>]) = "accepted"

\* A key that cannot be read, or a signature, rejects its entry; a key of the
\* wrong length ends the request, with what came before it saved.
ASSUME LET signed == SignEntry(Draft, Key("key", "a"))
           garbled == [signed EXCEPT !.signer = Key("garbled", "a")]
           unread == [signed EXCEPT !.signature = NotHex]
           short == [signed EXCEPT !.signer = Key("short", "a")]
       IN  /\ Contributed(<<signed, Draft, garbled, unread, signed>>)
                 = [saved |-> <<signed, signed>>, answered |-> TRUE, rejected |-> 3]
           /\ Contributed(<<signed, Draft, short, signed>>)
                 = [saved |-> <<signed>>, answered |-> FALSE, rejected |-> 1]

\* Known(n) are the catalogues of n entries in which ranks tie and invert.
Known == [id : {1, 2}, category : {Text("pattern"), Text("lesson")}, language : {Text("go")},
          topic : {{Word("http", "upper")}, {}}, confidence : {4, 9},
          contributors : {0, 1, 3}]
Catalogue(n) == {[i \in 1..n |-> [f[i] EXCEPT !.id = i]] :
                   f \in [1..n -> {k \in Known : k.id = 1}]}

\* A query answers with the best of what matches, best first, and with all
\* of it when there is no limit.
ASSUME \A rows \in Catalogue(2), limit \in 0..2, category \in {NoText, Text("lesson")},
          topics \in {<< >>, <<Word("auth", "lower"), Word("http", "lower")>>} :
         LET stored == ToSet(rows)
             found == Query(stored, category, NoText, topics, limit)
             all == Query(stored, category, NoText, topics, 0)
             left == ToSet(all) \ ToSet(found)
         IN  /\ \A i, j \in DOMAIN found : i < j => Rank(found[i]) >= Rank(found[j])
             /\ \A e \in left, f \in ToSet(found) : Rank(f) >= Rank(e)
             /\ left # {} => Len(found) = limit
             /\ ToSet(all) = {e \in stored :
                  /\ category = NoText \/ e.category = category
                  /\ topics = << >> \/ e.topic # {}}
=============================================================================
