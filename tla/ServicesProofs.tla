--------------------------- MODULE ServicesProofs ---------------------------
(***************************************************************************)
(* Proofs about the parts of HQ beside its tokens: the knowledge store,    *)
(* the health monitor and the King's audiences.  They hold for any number  *)
(* of ids, factories, checks, subjects and requests, any clock, any        *)
(* failing store calls and any restarts.  The three modules share no       *)
(* state; each has its own specification.                                  *)
(***************************************************************************)
EXTENDS Knowledge, King, Sentinel, FiniteSetTheorems, SequenceTheorems, Sums,
        TLAPS

-----------------------------------------------------------------------------
(***************************************************************************)
(* The knowledge store.                                                    *)
(***************************************************************************)
\* What POST /api/knowledge/contribute makes of a request, and what is kept
\* of it when it is let in.
Sent(subject, f, c, n) == [subject |-> subject, source |-> f, confidence |-> c,
                           contributors |-> n]
Claimed(e) == [subject |-> e.subject, source |-> e.source, confidence |-> e.confidence]

-----------------------------------------------------------------------------
\* A contribution is an entry.
LEMMA SentIsEntry ==
  \A subject \in Subjects, f \in Factories, c \in Confidences, n \in Counts :
    Sent(subject, f, c, n) \in Entry /\ Sent(subject, f, c, n) # None
BY KnowledgeAssumption, EntriesAssumption DEF Entry, Sent

\* What is kept of an entry is a contribution on its subject.
LEMMA ClaimedIsContribution ==
  ASSUME NEW e \in Entry
  PROVE  /\ Claimed(e) \in Contribution /\ Claimed(e).subject = e.subject
         /\ Claimed(e).source = e.source /\ Claimed(e).confidence = e.confidence
BY DEF Entry, Contribution, Claimed

\* A merge replaces one entry by one on the same subject, of the same
\* factory, whose confidence is at least the old one and the one sent.
LEMMA MergeRaises ==
  ASSUME TypeOK, NEW e \in Entry, NEW id \in Stored, Merge(id, e)
  PROVE  \E m \in Entry : /\ entries' = [entries EXCEPT ![id] = m]
                          /\ m # None
                          /\ m.subject = entries[id].subject
                          /\ m.source = entries[id].source
                          /\ m.confidence >= entries[id].confidence
                          /\ m.confidence >= e.confidence
                          /\ m.contributors = entries[id].contributors + 1
<1> DEFINE old == entries[id]
           n == old.contributors + 1
           c == IF e.confidence > old.confidence THEN e.confidence ELSE old.confidence
           m == [old EXCEPT !.contributors = n, !.confidence = c]
<1>1. old \in Entry
  BY DEF TypeOK, Stored
<1>2. n \in Int /\ c \in Int /\ c >= old.confidence /\ c >= e.confidence
  BY <1>1 DEF Entry
<1>3. /\ m \in Entry /\ m.subject = old.subject /\ m.source = old.source
      /\ m.confidence = c /\ m.contributors = n
  <2> HIDE DEF old, n, c
  <2>1. /\ m \in Entry /\ m.subject = old.subject /\ m.source = old.source
        /\ m.confidence = c
    BY <1>1, <1>2 DEF Entry
  <2>2. m.contributors = n
    BY <1>1 DEF Entry
  <2> QED
    BY <2>1, <2>2
<1>4. /\ m \in Entry /\ m.subject = old.subject /\ m.source = old.source
      /\ m.contributors = entries[id].contributors + 1
  BY <1>3
<1>5. m.confidence >= old.confidence /\ m.confidence >= e.confidence
  BY <1>2, <1>3
<1>6. entries' = [entries EXCEPT ![id] = m]
  BY DEF Merge
<1>7. m # None
  BY <1>4, EntriesAssumption
<1> HIDE DEF m
<1> QED
  BY <1>4, <1>5, <1>6, <1>7

\* A use replaces one entry likewise; one with a lower confidence revises its
\* subject.
LEMMA UseKeeps ==
  ASSUME TypeOK, NEW id \in Ids, NEW delta \in Deltas, UpdateConfidence(id, delta)
  PROVE  \E m \in Entry : /\ entries' = [entries EXCEPT ![id] = m]
                          /\ m # None
                          /\ m.subject = entries[id].subject
                          /\ m.source = entries[id].source
                          /\ \/ m.confidence >= entries[id].confidence
                             \/ entries[id].subject \in revised'
                          /\ m.contributors = entries[id].contributors
<1> DEFINE old == entries[id]
           c == IF old.confidence + delta > 10 THEN 10
                ELSE IF old.confidence + delta < 0 THEN 0 ELSE old.confidence + delta
           m == [old EXCEPT !.confidence = c]
<1>1. old \in Entry
  BY DEF TypeOK, UpdateConfidence
<1>2. delta \in Int
  BY KnowledgeAssumption
<1>3. c \in Int /\ old.confidence \in Int
  BY <1>1, <1>2 DEF Entry
<1>4. /\ entries' = [entries EXCEPT ![id].confidence = c]
      /\ revised' = IF c < old.confidence THEN revised \cup {old.subject} ELSE revised
  BY DEF UpdateConfidence
<1> HIDE DEF c
<1>5. /\ m \in Entry /\ m.subject = old.subject /\ m.source = old.source
      /\ m.confidence = c /\ m.contributors = old.contributors
  BY <1>1, <1>3 DEF Entry
<1>6. entries' = [entries EXCEPT ![id] = m]
  BY <1>4
<1>7. m # None
  BY <1>5, EntriesAssumption
<1>8. m.confidence >= old.confidence \/ old.subject \in revised'
  BY <1>3, <1>4, <1>5
<1> HIDE DEF m
<1> QED
  BY <1>5, <1>6, <1>7, <1>8

-----------------------------------------------------------------------------
\* TypeOK is preserved by every call.
LEMMA TypeInductive == TypeOK /\ [Next]_vars => TypeOK'
<1> SUFFICES ASSUME TypeOK, [Next]_vars PROVE TypeOK'
  OBVIOUS
<1>1. ASSUME NEW id \in Ids, NEW e \in Entry, Contribute(id, e)
      PROVE  TypeOK'
  <2>1. e # None /\ e.subject \in Subjects /\ e.source \in Factories /\ e.contributors \in Int
    BY EntriesAssumption DEF Entry
  <2>2. Save(id, e) /\ accepted' = accepted \cup {Claimed(e)} /\ calls' = calls + 1
    BY <1>1 DEF Contribute, Claimed
  <2>3. accepted' \subseteq Contribution /\ calls' \in Nat
    BY <2>2, ClaimedIsContribution DEF TypeOK
  <2>4. /\ entries' \in [Ids -> Entry \cup {None}]
        /\ confirmers' \in [Ids -> SUBSET Factories]
        /\ sent' \in [Ids -> Int] /\ revised' \subseteq Subjects
    <3>1. CASE SameSubject(e) # {}
      <4>1. PICK s \in SameSubject(e) :
              /\ Merge(s, e)
              /\ confirmers' = [confirmers EXCEPT ![s] = @ \cup {e.source}]
        BY <2>2, <3>1 DEF Save
      <4>2. s \in Stored /\ s \in Ids
        BY DEF SameSubject, Stored
      <4>3. \E m \in Entry : entries' = [entries EXCEPT ![s] = m]
        BY <4>1, <4>2, MergeRaises
      <4>4. UNCHANGED <<sent, revised>>
        BY <2>2, <3>1 DEF Save
      <4> QED
        BY <2>1, <4>1, <4>2, <4>3, <4>4 DEF TypeOK
    <3>2. CASE SameSubject(e) = {}
      <4>1. Insert(id, e)
        BY <2>2, <3>2 DEF Save
      <4>2. entries[id] # None => entries[id].subject \in Subjects
        BY DEF TypeOK, Entry
      <4> QED
        BY <2>1, <4>1, <4>2 DEF TypeOK, Insert
    <3> QED
      BY <3>1, <3>2
  <2> QED
    BY <2>3, <2>4 DEF TypeOK
<1>2. ASSUME NEW id \in Ids, NEW delta \in Deltas, UpdateConfidence(id, delta)
      PROVE  TypeOK'
  <2>1. \E m \in Entry : entries' = [entries EXCEPT ![id] = m]
    BY <1>2, UseKeeps
  <2>2. entries[id] \in Entry /\ entries[id].subject \in Subjects
    BY <1>2 DEF TypeOK, UpdateConfidence, Entry
  <2>3. revised' \subseteq Subjects
    BY <1>2, <2>2 DEF TypeOK, UpdateConfidence
  <2>4. calls' \in Nat /\ UNCHANGED <<accepted, sent, confirmers>>
    BY <1>2 DEF TypeOK, UpdateConfidence
  <2> QED
    BY <2>1, <2>3, <2>4 DEF TypeOK
<1>3. ASSUME NEW t \in Thresholds, Prune(t) PROVE TypeOK'
  <2>1. \A id \in Stored : entries[id].subject \in Subjects
    BY DEF TypeOK, Stored, Entry
  <2> QED
    BY <1>3, <2>1 DEF TypeOK, Prune, Stored
<1>4. ASSUME UNCHANGED vars PROVE TypeOK'
  BY <1>4 DEF TypeOK, vars
<1>5. ASSUME NEW id \in Ids, NEW subject \in Subjects, NEW f \in Factories,
             NEW c \in Confidences, NEW n \in Counts, Contribute(id, Sent(subject, f, c, n))
      PROVE  TypeOK'
  BY <1>1, <1>5, SentIsEntry
<1> QED
  BY <1>2, <1>3, <1>4, <1>5 DEF Next, Sent

KInv == TypeOK /\ OneSourcePerSubject /\ KeptUntilRevised

\* An entry that is replaced by one on its subject and of its factory keeps
\* what the entries say of each other.
LEMMA ReplaceKeeps ==
  ASSUME KInv, NEW id \in Stored, NEW m \in Entry, m # None,
         m.subject = entries[id].subject, m.source = entries[id].source,
         entries' = [entries EXCEPT ![id] = m]
  PROVE  /\ Stored' = Stored
         /\ OneSourcePerSubject'
         /\ \A s \in Stored : /\ entries'[s].subject = entries[s].subject
                              /\ entries'[s].source = entries[s].source
         /\ \A s \in Ids : entries'[s] = IF s = id THEN m ELSE entries[s]
<1>1. entries \in [Ids -> Entry \cup {None}] /\ id \in Ids
  BY DEF KInv, TypeOK, Stored
<1>2. \A s \in Ids : entries'[s] = IF s = id THEN m ELSE entries[s]
  BY <1>1
<1>3. Stored' = Stored
  BY <1>2 DEF Stored
<1>4. \A s \in Stored : /\ entries'[s].subject = entries[s].subject
                        /\ entries'[s].source = entries[s].source
  BY <1>2 DEF Stored
<1> QED
  BY <1>2, <1>3, <1>4 DEF KInv, OneSourcePerSubject

\* A contribution that is represented stays so when an entry is replaced by
\* one with at least its confidence.
LEMMA RaiseKeeps ==
  ASSUME KInv, NEW id \in Stored, NEW m \in Entry, m # None,
         m.subject = entries[id].subject, m.confidence >= entries[id].confidence,
         entries' = [entries EXCEPT ![id] = m],
         NEW a \in Contribution, Kept(a)
  PROVE  \E s \in Stored' : /\ entries'[s].subject = a.subject
                            /\ entries'[s].confidence >= a.confidence
<1>1. entries \in [Ids -> Entry \cup {None}] /\ id \in Ids
  BY DEF KInv, TypeOK, Stored
<1>2. \A s \in Ids : entries'[s] = IF s = id THEN m ELSE entries[s]
  BY <1>1
<1>3. Stored' = Stored
  BY <1>2 DEF Stored
<1>4. PICK s \in Stored : /\ entries[s].subject = a.subject
                          /\ entries[s].confidence >= a.confidence
  BY DEF Kept
<1>5. /\ entries[s] \in Entry /\ entries[s].confidence \in Int
      /\ a.confidence \in Int /\ m.confidence \in Int
  BY <1>1 DEF Stored, Entry, Contribution
<1>6. /\ entries'[s].subject = a.subject
      /\ entries'[s].confidence >= a.confidence
  BY <1>2, <1>4, <1>5 DEF Stored
<1> QED
  BY <1>3, <1>6

-----------------------------------------------------------------------------
\* A contribution keeps the invariant when it meets an entry of another
\* factory on its subject.
LEMMA MergeInductive ==
  ASSUME KInv, NEW e \in Entry, NEW s \in SameSubject(e), Merge(s, e),
         accepted' = accepted \cup {Claimed(e)}, revised' = revised
  PROVE  OneSourcePerSubject' /\ KeptUntilRevised'
<1>1. s \in Stored /\ s \in Ids /\ entries[s].subject = e.subject
  BY DEF SameSubject, Stored
<1>2. TypeOK /\ accepted \subseteq Contribution
  BY DEF KInv, TypeOK
<1>3. PICK m \in Entry : /\ entries' = [entries EXCEPT ![s] = m]
                         /\ m # None
                         /\ m.subject = entries[s].subject
                         /\ m.source = entries[s].source
                         /\ m.confidence >= entries[s].confidence
                         /\ m.confidence >= e.confidence
  BY <1>1, <1>2, MergeRaises
<1>4. /\ Stored' = Stored /\ OneSourcePerSubject'
      /\ entries'[s] = m
  <2>1. /\ Stored' = Stored /\ OneSourcePerSubject'
        /\ \A k \in Ids : entries'[k] = IF k = s THEN m ELSE entries[k]
    BY <1>1, <1>3, ReplaceKeeps
  <2> QED
    BY <1>1, <2>1
<1>5. ASSUME NEW a \in accepted', a.subject \notin revised' PROVE Kept(a)'
  <2>1. CASE a = Claimed(e)
    <3>1. a.subject = e.subject /\ a.confidence = e.confidence
      BY <2>1, ClaimedIsContribution
    <3> QED
      BY <1>1, <1>3, <1>4, <3>1 DEF Kept
  <2>2. CASE a \in accepted
    <3>1. Kept(a) /\ a \in Contribution
      BY <1>2, <1>5, <2>2 DEF KInv, KeptUntilRevised
    <3>2. \E t \in Stored' : /\ entries'[t].subject = a.subject
                             /\ entries'[t].confidence >= a.confidence
      BY <1>1, <1>3, <3>1, RaiseKeeps
    <3> QED
      BY <3>2 DEF Kept
  <2> QED
    BY <2>1, <2>2
<1> QED
  BY <1>4, <1>5 DEF KeptUntilRevised

\* A contribution keeps the invariant when it is stored under its id, over
\* whatever was there.
LEMMA InsertInductive ==
  ASSUME KInv, NEW id \in Ids, NEW e \in Entry, SameSubject(e) = {}, Insert(id, e),
         accepted' = accepted \cup {Claimed(e)}
  PROVE  OneSourcePerSubject' /\ KeptUntilRevised'
<1>1. \A k \in Ids : entries'[k] = IF k = id THEN e ELSE entries[k]
  BY DEF KInv, TypeOK, Insert
<1>2. Stored' = Stored \cup {id}
  BY <1>1, EntriesAssumption DEF Stored
<1>3. OneSourcePerSubject'
  <2>1. \A i \in Stored : entries[i].subject = e.subject => entries[i].source = e.source
    BY DEF SameSubject
  <2> QED
    BY <1>1, <1>2, <2>1 DEF KInv, OneSourcePerSubject, Stored
<1>4. ASSUME NEW a \in accepted', a.subject \notin revised' PROVE Kept(a)'
  <2>1. CASE a = Claimed(e)
    <3>1. a.subject = e.subject /\ a.confidence = e.confidence /\ e.confidence \in Int
      BY <2>1, ClaimedIsContribution DEF Entry
    <3>2. entries'[id] = e /\ id \in Stored'
      BY <1>1, <1>2
    <3> QED
      BY <3>1, <3>2 DEF Kept
  <2>2. CASE a \in accepted
    <3>1. PICK s \in Stored : /\ entries[s].subject = a.subject
                              /\ entries[s].confidence >= a.confidence
      BY <1>4, <2>2 DEF KInv, KeptUntilRevised, Kept, Insert
    <3>2. s # id
      BY <1>4, <3>1 DEF Insert, Stored
    <3>3. entries'[s] = entries[s] /\ s \in Stored'
      BY <3>2, <1>1, <1>2 DEF Stored
    <3> QED
      BY <3>1, <3>3 DEF Kept
  <2> QED
    BY <2>1, <2>2
<1> QED
  BY <1>3, <1>4 DEF KeptUntilRevised

\* A use keeps the invariant.
LEMMA UseInductive ==
  ASSUME KInv, NEW id \in Ids, NEW delta \in Deltas, UpdateConfidence(id, delta)
  PROVE  OneSourcePerSubject' /\ KeptUntilRevised'
<1>1. TypeOK /\ accepted \subseteq Contribution
  BY DEF KInv, TypeOK
<1>2. PICK m \in Entry : /\ entries' = [entries EXCEPT ![id] = m]
                         /\ m # None
                         /\ m.subject = entries[id].subject
                         /\ m.source = entries[id].source
                         /\ \/ m.confidence >= entries[id].confidence
                            \/ entries[id].subject \in revised'
  BY <1>1, UseKeeps
<1>3. id \in Stored /\ accepted' = accepted /\ revised \subseteq revised'
  BY DEF UpdateConfidence, Stored
<1>4. /\ Stored' = Stored /\ OneSourcePerSubject'
      /\ \A s \in Ids : entries'[s] = IF s = id THEN m ELSE entries[s]
  BY <1>2, <1>3, ReplaceKeeps
<1>5. ASSUME NEW a \in accepted, a.subject \notin revised' PROVE Kept(a)'
  <2>1. Kept(a) /\ a \in Contribution
    BY <1>1, <1>3, <1>5 DEF KInv, KeptUntilRevised
  <2>2. CASE m.confidence >= entries[id].confidence
    <3>1. \E t \in Stored' : /\ entries'[t].subject = a.subject
                             /\ entries'[t].confidence >= a.confidence
      BY <1>2, <1>3, <2>1, <2>2, RaiseKeeps
    <3> QED
      BY <3>1 DEF Kept
  <2>3. CASE entries[id].subject \in revised'
    <3>1. PICK s \in Stored : /\ entries[s].subject = a.subject
                              /\ entries[s].confidence >= a.confidence
      BY <2>1 DEF Kept
    <3>2. entries'[s] = entries[s] /\ s \in Stored'
      BY <1>4, <1>5, <2>3, <3>1 DEF Stored
    <3> QED
      BY <3>1, <3>2 DEF Kept
  <2> QED
    BY <1>2, <2>2, <2>3
<1> QED
  BY <1>3, <1>4, <1>5 DEF KeptUntilRevised

\* KInv is preserved by every call.
LEMMA KInvInductive == KInv /\ [Next]_vars => KInv'
<1> SUFFICES ASSUME KInv, [Next]_vars PROVE KInv'
  OBVIOUS
<1>1. TypeOK /\ TypeOK'
  BY TypeInductive DEF KInv
<1>2. ASSUME NEW id \in Ids, NEW e \in Entry, Contribute(id, e) PROVE KInv'
  <2>1. Save(id, e) /\ accepted' = accepted \cup {Claimed(e)}
    BY <1>2 DEF Contribute, Claimed
  <2>2. CASE SameSubject(e) # {}
    <3>1. PICK s \in SameSubject(e) : Merge(s, e) /\ revised' = revised
      BY <2>1, <2>2 DEF Save
    <3> QED
      BY <1>1, <2>1, <3>1, MergeInductive DEF KInv
  <2>3. CASE SameSubject(e) = {}
    <3>1. Insert(id, e)
      BY <2>1, <2>3 DEF Save
    <3> QED
      BY <1>1, <2>1, <2>3, <3>1, InsertInductive DEF KInv
  <2> QED
    BY <2>2, <2>3
<1>3. ASSUME NEW id \in Ids, NEW delta \in Deltas, UpdateConfidence(id, delta)
      PROVE  KInv'
  BY <1>1, <1>3, UseInductive DEF KInv
<1>4. ASSUME NEW t \in Thresholds, Prune(t) PROVE KInv'
  <2> DEFINE pruned == {id \in Stored : entries[id].confidence < t}
  <2>1. /\ \A k \in Ids : entries'[k] = IF k \in pruned THEN None ELSE entries[k]
        /\ revised' = revised \cup {entries[k].subject : k \in pruned}
        /\ accepted' = accepted
    BY <1>4 DEF Prune
  <2>2. \A k \in pruned : k \in Stored
    OBVIOUS
  <2> HIDE DEF pruned
  <2>3. /\ \A k \in Stored' : k \in Stored /\ entries'[k] = entries[k]
        /\ \A k \in Stored : k \in Stored' \/ entries[k].subject \in revised'
    BY <2>1 DEF Stored
  <2>4. OneSourcePerSubject'
    BY <2>3 DEF KInv, OneSourcePerSubject
  <2>5. KeptUntilRevised'
    BY <2>1, <2>3 DEF KInv, KeptUntilRevised, Kept
  <2> QED
    BY <1>1, <2>4, <2>5 DEF KInv
<1>5. ASSUME UNCHANGED vars PROVE KInv'
  <2>1. entries' = entries /\ accepted' = accepted /\ revised' = revised
    BY <1>5 DEF vars
  <2> QED
    BY <1>1, <2>1 DEF KInv, OneSourcePerSubject, KeptUntilRevised, Kept, Stored
<1>6. ASSUME NEW id \in Ids, NEW subject \in Subjects, NEW f \in Factories,
             NEW c \in Confidences, NEW n \in Counts, Contribute(id, Sent(subject, f, c, n))
      PROVE  KInv'
  BY <1>2, <1>6, SentIsEntry
<1> QED
  BY <1>3, <1>4, <1>5, <1>6 DEF Next, Sent

\* Every behaviour of the store satisfies KInv.
LEMMA KInvariance == Spec => []KInv
<1>1. Init => KInv
  BY KnowledgeAssumption
     DEF Init, KInv, TypeOK, OneSourcePerSubject, KeptUntilRevised, Stored
<1> QED
  BY <1>1, KInvInductive, PTL DEF Spec

-----------------------------------------------------------------------------
\* Every variable has its type.
THEOREM TypeCorrect == Spec => []TypeOK
BY KInvariance, PTL DEF KInv

\* All entries on a subject come from the factory that was first with it.
THEOREM FirstSourceOwnsSubject == Spec => []OneSourcePerSubject
BY KInvariance, PTL DEF KInv

\* Whatever it was merged into and in whatever order, an accepted
\* contribution is represented by an entry on its subject with at least its
\* confidence, until one on that subject is replaced, marked down or pruned.
THEOREM AcceptedIsRepresented == Spec => []KeptUntilRevised
BY KInvariance, PTL DEF KInv
-----------------------------------------------------------------------------
(***************************************************************************)
(* Nobody's confirmation is lost.                                          *)
(***************************************************************************)
\* What is to be counted can be.
ConfirmersFinite == \A id \in Ids : IsFiniteSet(confirmers[id])

CInv == ConfirmersFinite /\ CountsEveryFactory

\* Who else confirmed an entry: one more than before at most.
LEMMA OneMore ==
  ASSUME NEW S, IsFiniteSet(S), NEW x, NEW y
  PROVE  /\ IsFiniteSet(S \cup {x}) /\ Cardinality(S \ {y}) \in Nat
         /\ Cardinality((S \cup {x}) \ {y}) \in Nat
         /\ Cardinality((S \cup {x}) \ {y}) =< Cardinality(S \ {y}) + 1
<1>1. IsFiniteSet(S \ {y}) /\ IsFiniteSet(S \cup {x})
  BY FS_AddElement, FS_RemoveElement
<1>2. /\ IsFiniteSet((S \ {y}) \cup {x}) /\ Cardinality(S \ {y}) \in Nat
      /\ Cardinality((S \ {y}) \cup {x}) \in Nat
      /\ Cardinality((S \ {y}) \cup {x}) =< Cardinality(S \ {y}) + 1
  <2>1. /\ IsFiniteSet((S \ {y}) \cup {x}) /\ Cardinality(S \ {y}) \in Nat
        /\ Cardinality((S \ {y}) \cup {x})
             = IF x \in S \ {y} THEN Cardinality(S \ {y}) ELSE Cardinality(S \ {y}) + 1
    BY <1>1, FS_AddElement, FS_CardinalityType
  <2> QED
    BY <2>1
<1>3. (S \cup {x}) \ {y} \subseteq (S \ {y}) \cup {x}
  OBVIOUS
<1>4. /\ Cardinality((S \cup {x}) \ {y}) \in Nat
      /\ Cardinality((S \cup {x}) \ {y}) =< Cardinality((S \ {y}) \cup {x})
  BY <1>2, <1>3, FS_Subset, FS_CardinalityType
<1> QED
  BY <1>1, <1>2, <1>4

\* A merge counts the factory it confirms by.
LEMMA MergeCounts ==
  ASSUME KInv, CInv, NEW e \in Entry,
         NEW s \in SameSubject(e), Merge(s, e),
         confirmers' = [confirmers EXCEPT ![s] = @ \cup {e.source}],
         accepted' = accepted \cup {Claimed(e)},
         sent' = sent, revised' = revised
  PROVE  CInv'
<1>1. s \in Stored /\ s \in Ids /\ entries[s].subject = e.subject
  BY DEF SameSubject, Stored
<1>2. TypeOK
  BY DEF KInv
<1>3. PICK m \in Entry : /\ entries' = [entries EXCEPT ![s] = m]
                         /\ m # None
                         /\ m.subject = entries[s].subject
                         /\ m.source = entries[s].source
                         /\ m.contributors = entries[s].contributors + 1
  BY <1>1, <1>2, MergeRaises
<1>4. /\ Stored' = Stored
      /\ \A i \in Stored : entries'[i].subject = entries[i].subject
      /\ \A i \in Stored : entries'[i].source = entries[i].source
      /\ \A k \in Ids : entries'[k] = IF k = s THEN m ELSE entries[k]
  BY <1>1, <1>3, ReplaceKeeps
<1>5. \A k \in Ids : confirmers'[k] = IF k = s THEN confirmers[k] \cup {e.source}
                                              ELSE confirmers[k]
  BY <1>2 DEF TypeOK
<1>6. \A k \in Ids : IsFiniteSet(confirmers[k])
  BY DEF CInv, ConfirmersFinite
<1>7. ConfirmersFinite'
  <2> SUFFICES ASSUME NEW k \in Ids PROVE IsFiniteSet(confirmers'[k])
    BY DEF ConfirmersFinite
  <2>1. IsFiniteSet(confirmers[k]) /\ IsFiniteSet(confirmers[k] \cup {e.source})
    BY <1>6, OneMore
  <2> QED
    BY <1>5, <2>1
<1>8. ASSUME NEW a \in accepted', a.subject \notin revised'
      PROVE  \E t \in Stored' : entries'[t].subject = a.subject /\ a.source \in confirmers'[t]
  <2>1. CASE a = Claimed(e)
    <3>1. entries'[s].subject = a.subject /\ s \in Stored' /\ a.source = e.source
      BY <1>1, <1>4, <2>1, ClaimedIsContribution
    <3>2. e.source \in confirmers'[s]
      BY <1>1, <1>5
    <3> QED
      BY <3>1, <3>2
  <2>2. CASE a \in accepted
    <3>1. PICK t \in Stored : entries[t].subject = a.subject /\ a.source \in confirmers[t]
      BY <1>8, <2>2 DEF CInv, CountsEveryFactory
    <3>2. t \in Stored' /\ t \in Ids /\ entries'[t].subject = entries[t].subject
          /\ confirmers[t] \subseteq confirmers'[t]
      BY <1>4, <1>5 DEF Stored
    <3> QED
      BY <3>1, <3>2
  <2> QED
    BY <2>1, <2>2
<1>9. ASSUME NEW t \in Stored'
      PROVE  entries'[t].contributors
               >= sent'[t] + Cardinality(confirmers'[t] \ {entries'[t].source})
  <2>1. t \in Stored /\ t \in Ids /\ entries'[t].source = entries[t].source
    BY <1>4 DEF Stored
  <2>2. entries[t].contributors >= sent[t] + Cardinality(confirmers[t] \ {entries[t].source})
    BY <2>1 DEF CInv, CountsEveryFactory
  <2>3. CASE t = s
    <3>1. confirmers'[t] = confirmers[t] \cup {e.source}
          /\ entries'[t].contributors = entries[t].contributors + 1
      BY <1>3, <1>4, <1>5, <2>1, <2>3
    <3>2. entries[t].contributors \in Int /\ sent[t] \in Int
      BY <1>2, <2>1 DEF TypeOK, Stored, Entry
    <3> DEFINE a == Cardinality(confirmers[t] \ {entries[t].source})
               b == Cardinality(confirmers'[t] \ {entries[t].source})
    <3>3. a \in Nat /\ b \in Nat /\ b =< a + 1
      BY <1>6, <2>1, <3>1, OneMore
    <3>4. entries[t].contributors >= sent[t] + a
      BY <2>2
    <3> HIDE DEF a, b
    <3>5. entries'[t].contributors >= sent[t] + b
      BY <3>1, <3>2, <3>3, <3>4
    <3> QED
      BY <2>1, <3>5 DEF b
  <2>4. CASE t # s
    BY <1>4, <1>5, <2>1, <2>2, <2>4
  <2> QED
    BY <2>3, <2>4
<1> QED
  BY <1>7, <1>8, <1>9 DEF CInv, CountsEveryFactory

\* An entry stored under its id has the count it was sent with; the subject
\* of one that it replaces is revised.
LEMMA InsertCounts ==
  ASSUME KInv, CInv, NEW id \in Ids, NEW e \in Entry, Insert(id, e),
         accepted' = accepted \cup {Claimed(e)}
  PROVE  CInv'
<1>1. /\ \A k \in Ids : entries'[k] = IF k = id THEN e ELSE entries[k]
      /\ \A k \in Ids : confirmers'[k] = IF k = id THEN {e.source} ELSE confirmers[k]
      /\ \A k \in Ids : sent'[k] = IF k = id THEN e.contributors ELSE sent[k]
  BY DEF KInv, TypeOK, Insert
<1>2. Stored' = Stored \cup {id}
  BY <1>1, EntriesAssumption DEF Stored
<1>3. /\ IsFiniteSet({e.source}) /\ Cardinality({e.source} \ {e.source}) = 0
      /\ e.contributors \in Int
  <2>1. {e.source} \ {e.source} = {}
    OBVIOUS
  <2> QED
    BY <2>1, FS_Singleton, FS_EmptySet DEF Entry
<1>4. ConfirmersFinite'
  BY <1>1, <1>3 DEF CInv, ConfirmersFinite
<1>5. ASSUME NEW a \in accepted', a.subject \notin revised'
      PROVE  \E t \in Stored' : entries'[t].subject = a.subject /\ a.source \in confirmers'[t]
  <2>1. CASE a = Claimed(e)
    <3>1. a.subject = e.subject /\ a.source = e.source
      BY <2>1, ClaimedIsContribution
    <3>2. entries'[id] = e /\ confirmers'[id] = {e.source} /\ id \in Stored'
      BY <1>1, <1>2
    <3> QED
      BY <3>1, <3>2
  <2>2. CASE a \in accepted
    <3>1. PICK t \in Stored : entries[t].subject = a.subject /\ a.source \in confirmers[t]
      BY <1>5, <2>2 DEF CInv, CountsEveryFactory, Insert
    <3>2. t # id
      BY <1>5, <3>1 DEF Insert, Stored
    <3>3. entries'[t] = entries[t] /\ confirmers'[t] = confirmers[t] /\ t \in Stored'
      BY <1>1, <1>2, <3>2 DEF Stored
    <3> QED
      BY <3>1, <3>3
  <2> QED
    BY <2>1, <2>2
<1>6. ASSUME NEW t \in Stored'
      PROVE  entries'[t].contributors
               >= sent'[t] + Cardinality(confirmers'[t] \ {entries'[t].source})
  <2>1. CASE t = id
    BY <1>1, <1>3, <2>1
  <2>2. CASE t # id
    <3>1. t \in Stored /\ entries'[t] = entries[t] /\ confirmers'[t] = confirmers[t]
          /\ sent'[t] = sent[t]
      BY <1>1, <1>2, <2>2 DEF Stored
    <3> QED
      BY <3>1 DEF CInv, CountsEveryFactory
  <2> QED
    BY <2>1, <2>2
<1> QED
  BY <1>4, <1>5, <1>6 DEF CInv, CountsEveryFactory

\* Every step keeps the confirmers finite and counted.
LEMMA CInvInductive == KInv /\ CInv /\ [Next]_vars => CInv'
<1> SUFFICES ASSUME KInv, CInv, [Next]_vars PROVE CInv'
  OBVIOUS
<1>1. TypeOK
  BY DEF KInv
<1>2. ASSUME NEW id \in Ids, NEW e \in Entry, Contribute(id, e) PROVE CInv'
  <2>1. Save(id, e) /\ accepted' = accepted \cup {Claimed(e)}
    BY <1>2 DEF Contribute, Claimed
  <2>2. CASE SameSubject(e) # {}
    <3>1. PICK s \in SameSubject(e) :
            Merge(s, e) /\ confirmers' = [confirmers EXCEPT ![s] = @ \cup {e.source}]
      BY <2>1, <2>2 DEF Save
    <3>2. sent' = sent /\ revised' = revised
      BY <2>1, <2>2 DEF Save
    <3> QED
      BY <2>1, <3>1, <3>2, MergeCounts
  <2>3. CASE SameSubject(e) = {}
    <3>1. Insert(id, e)
      BY <2>1, <2>3 DEF Save
    <3> QED
      BY <2>1, <3>1, InsertCounts
  <2> QED
    BY <2>2, <2>3
<1>3. ASSUME NEW id \in Ids, NEW delta \in Deltas, UpdateConfidence(id, delta)
      PROVE  CInv'
  <2>1. PICK m \in Entry : /\ entries' = [entries EXCEPT ![id] = m]
                           /\ m # None
                           /\ m.subject = entries[id].subject
                           /\ m.source = entries[id].source
                           /\ m.contributors = entries[id].contributors
    BY <1>1, <1>3, UseKeeps
  <2>2. /\ id \in Stored /\ accepted' = accepted /\ confirmers' = confirmers
        /\ sent' = sent /\ revised \subseteq revised'
    BY <1>3 DEF UpdateConfidence, Stored
  <2>3. /\ Stored' = Stored
        /\ \A t \in Stored : /\ entries'[t].subject = entries[t].subject
                             /\ entries'[t].source = entries[t].source
    BY <2>1, <2>2, ReplaceKeeps
  <2>4. \A t \in Stored : entries'[t].contributors = entries[t].contributors
    BY <1>1, <2>1 DEF TypeOK, Stored
  <2> QED
    BY <2>2, <2>3, <2>4 DEF CInv, ConfirmersFinite, CountsEveryFactory
<1>4. ASSUME NEW t \in Thresholds, Prune(t) PROVE CInv'
  <2> DEFINE pruned == {id \in Stored : entries[id].confidence < t}
  <2>1. /\ \A k \in Ids : entries'[k] = IF k \in pruned THEN None ELSE entries[k]
        /\ \A k \in Ids : confirmers'[k] = IF k \in pruned THEN {} ELSE confirmers[k]
        /\ revised' = revised \cup {entries[k].subject : k \in pruned}
        /\ accepted' = accepted /\ sent' = sent
    BY <1>4 DEF Prune
  <2>2. \A k \in pruned : k \in Stored
    OBVIOUS
  <2> HIDE DEF pruned
  <2>3. /\ \A k \in Stored' : /\ k \in Stored /\ entries'[k] = entries[k]
                              /\ confirmers'[k] = confirmers[k]
        /\ \A k \in Stored : \/ /\ k \in Stored' /\ entries'[k] = entries[k]
                                /\ confirmers'[k] = confirmers[k]
                             \/ entries[k].subject \in revised'
    BY <2>1 DEF Stored
  <2>4. ConfirmersFinite'
    BY <2>1, FS_EmptySet DEF CInv, ConfirmersFinite
  <2>5. CountsEveryFactory'
    BY <2>1, <2>3 DEF CInv, CountsEveryFactory
  <2> QED
    BY <2>4, <2>5 DEF CInv
<1>5. ASSUME UNCHANGED vars PROVE CInv'
  <2>1. entries' = entries /\ accepted' = accepted /\ revised' = revised
        /\ confirmers' = confirmers /\ sent' = sent
    BY <1>5 DEF vars
  <2> QED
    BY <2>1 DEF CInv, ConfirmersFinite, CountsEveryFactory, Stored
<1>6. ASSUME NEW id \in Ids, NEW subject \in Subjects, NEW f \in Factories,
             NEW c \in Confidences, NEW n \in Counts, Contribute(id, Sent(subject, f, c, n))
      PROVE  CInv'
  BY <1>2, <1>6, SentIsEntry
<1> QED
  BY <1>3, <1>4, <1>5, <1>6 DEF Next, Sent

\* Every factory that contributed is counted by an entry on its subject until
\* it is revised, and every entry counts what it was sent with and one at
\* least for each other factory merged into it.
THEOREM NobodyIsMiscounted == Spec => []CountsEveryFactory
<1>1. Init => CInv
  BY FS_EmptySet DEF Init, CInv, ConfirmersFinite, CountsEveryFactory, Stored
<1>2. CInv => CountsEveryFactory
  BY DEF CInv
<1> QED
  BY <1>1, <1>2, CInvInductive, KInvariance, PTL DEF Spec

-----------------------------------------------------------------------------
(***************************************************************************)
(* The health monitor that runs beside the requests: its goroutines and    *)
(* collector, any number of checks and any number of probes of each.       *)
(***************************************************************************)
\* What the assumptions say that is needed here.
LEMMA MonitorConstants ==
  /\ MaxRuns \in [Checks -> Nat \ {0}] /\ NoResult \notin Result
  /\ Capacity = 2 * Cardinality(Checks) /\ Capacity \in Nat
<1>1. IsFiniteSet(Checks)
  BY SentinelAssumption
<1>2. Cardinality(Checks) \in Nat
  BY <1>1, FS_CardinalityType
<1>3. Capacity = 2 * Cardinality(Checks)
  BY DEF Capacity
<1> QED
  BY <1>2, <1>3, SentinelAssumption, NoResultAssumption

-----------------------------------------------------------------------------
\* Who sends has a result of its own check, and who probes may.
HasOwnResult ==
  \A c \in Checks : /\ pc[c] = "probe" => runs[c] < MaxRuns[c]
                    /\ pending[c] # NoResult <=> pc[c] = "send"
                    /\ pending[c] # NoResult => pending[c].check = c

MonitorShape == MonitorTypeOK /\ HasOwnResult

\* The monitor starts with nothing in the channel and nothing to send.
LEMMA MonitorShapeInit == MonitorInit => MonitorShape
<1> SUFFICES ASSUME MonitorInit PROVE MonitorShape
  OBVIOUS
<1>1. MaxRuns \in [Checks -> Nat \ {0}]
  BY MonitorConstants
<1>2. results \in Seq(Result) /\ Len(results) =< Capacity
  BY MonitorConstants DEF MonitorInit
<1>0. runs \in [Checks -> Nat] /\ \A c \in Checks : runs[c] =< MaxRuns[c]
  BY <1>1 DEF MonitorInit
<1>3. MonitorTypeOK
  BY <1>0, <1>2 DEF MonitorInit, MonitorTypeOK
<1>4. HasOwnResult
  BY <1>1 DEF MonitorInit, HasOwnResult
<1> QED
  BY <1>3, <1>4 DEF MonitorShape

\* What a probe does to the variables.
LEMMA ProbeEffect ==
  ASSUME MonitorShape, NEW c \in Checks, RunCheck(c)
  PROVE  /\ pc[c] = "probe" /\ pending[c] = NoResult /\ runs[c] < MaxRuns[c]
         /\ pc' = [pc EXCEPT ![c] = "send"] /\ runs' = [runs EXCEPT ![c] = runs[c] + 1]
         /\ \E r \in Result : /\ r.check = c /\ r.run = runs[c] + 1
                              /\ pending' = [pending EXCEPT ![c] = r]
         /\ UNCHANGED <<ticked, results, collector, alert, last, cancelled>>
<1>1. PICK good \in BOOLEAN :
        pending' = [pending EXCEPT ![c] =
          [check |-> c, run |-> runs[c] + 1, good |-> good,
           ok |-> ~ cancelled /\ (good \/ c \in Mute)]]
  BY DEF RunCheck
<1> DEFINE r == [check |-> c, run |-> runs[c] + 1, good |-> good,
                 ok |-> ~ cancelled /\ (good \/ c \in Mute)]
<1>2. r \in Result
  <2>1. (~ cancelled /\ (good \/ c \in Mute)) \in BOOLEAN
    OBVIOUS
  <2>2. runs[c] + 1 \in Nat
    BY DEF MonitorShape, MonitorTypeOK
  <2> QED
    BY <2>1, <2>2 DEF Result
<1> QED
  BY <1>1, <1>2 DEF RunCheck, MonitorShape, HasOwnResult, MonitorTypeOK

\* What a goroutine that sends, or is stopped as it waits to, does to them.
LEMMA SendEffect ==
  ASSUME MonitorShape, NEW c \in Checks, Send(c)
  PROVE  /\ pc[c] = "send" /\ pending[c] \in Result /\ pending[c].check = c
         /\ pending' = [pending EXCEPT ![c] = NoResult]
         /\ \/ /\ Len(results) < Capacity
               /\ results' = Append(results, pending[c])
               /\ pc' = [pc EXCEPT ![c] = "wait"]
            \/ results' = results /\ pc' = [pc EXCEPT ![c] = "done"]
         /\ UNCHANGED <<ticked, runs, collector, alert, last, cancelled>>
  BY DEF Send, MonitorShape, HasOwnResult, MonitorTypeOK

\* What the collector does to the channel.
LEMMA CollectEffect ==
  ASSUME MonitorShape, Collect
  PROVE  /\ \/ /\ results # << >> /\ Head(results) \in Result
               /\ results' = Tail(results)
               /\ last' = [last EXCEPT ![Head(results).check] = Head(results)]
               /\ \/ UNCHANGED <<collector, alert>>
                  \/ collector' = "alert" /\ alert' = Head(results)
            \/ /\ UNCHANGED <<results, last, alert>> /\ collector' = "done"
         /\ UNCHANGED <<pc, ticked, pending, runs, cancelled>>
<1>1. results \in Seq(Result)
  BY DEF MonitorShape, MonitorTypeOK
<1>2. results # << >> => Head(results) \in Result
  BY <1>1
<1> QED
  BY <1>2 DEF Collect

\* Every step keeps the types.
LEMMA MonitorShapeNext ==
  MonitorShape /\ [MonitorNext]_monitorVars => MonitorShape'
<1> SUFFICES ASSUME MonitorShape, [MonitorNext]_monitorVars
             PROVE  MonitorShape'
  OBVIOUS
<1> USE DEF MonitorShape, HasOwnResult, MonitorTypeOK
<1>0. /\ NoResult \notin Result /\ MaxRuns \in [Checks -> Nat \ {0}]
  BY MonitorConstants
<1>00. PICK cap \in Nat : Capacity = cap /\ Capacity' = cap
  BY MonitorConstants DEF Capacity
<1>1. ASSUME NEW c \in Checks, RunCheck(c) PROVE MonitorShape'
  <2>1. PICK x \in Result : x.check = c /\ pending' = [pending EXCEPT ![c] = x]
    BY <1>1, ProbeEffect
  <2>2. pending' \in [Checks -> Result \cup {NoResult}]
    BY <2>1
  <2>5. runs[c] < MaxRuns[c] /\ runs' = [runs EXCEPT ![c] = runs[c] + 1]
    BY <1>1, ProbeEffect
  <2>3. runs' \in [Checks -> Nat] /\ \A d \in Checks : runs'[d] =< MaxRuns[d]
    BY <1>0, <2>5
  <2>4. HasOwnResult'
    BY <1>0, <1>1, <2>1, ProbeEffect
  <2>6. /\ pc' \in [Checks -> {"probe", "send", "wait", "done"}]
        /\ UNCHANGED <<ticked, results, collector, alert, last, cancelled>>
    BY <1>1, ProbeEffect
  <2> QED
    BY <1>00, <2>2, <2>3, <2>4, <2>6, Zenon
<1>2. ASSUME NEW c \in Checks, Send(c) PROVE MonitorShape'
  <2>1. /\ Append(results, pending[c]) \in Seq(Result)
        /\ Len(Append(results, pending[c])) = Len(results) + 1
    BY <1>2, SendEffect
  <2>2. \/ results' = results
        \/ results' = Append(results, pending[c]) /\ Len(results) < Capacity
    BY <1>2, SendEffect
  <2>3. results' \in Seq(Result) /\ Len(results') =< cap
    <3>1. Len(results) \in Nat /\ Len(results) =< cap /\ results \in Seq(Result)
      BY <1>00
    <3>2. CASE results' = Append(results, pending[c]) /\ Len(results) < Capacity
      BY <1>00, <2>1, <3>1, <3>2
    <3> QED
      BY <2>2, <3>1, <3>2
  <2>4. HasOwnResult'
    <3>1. /\ pc'[c] \in {"wait", "done"} /\ pending'[c] = NoResult /\ runs' = runs
          /\ \A d \in Checks \ {c} : pc'[d] = pc[d] /\ pending'[d] = pending[d]
      BY <1>2, SendEffect
    <3> QED
      BY <3>1
  <2>5. /\ pc' \in [Checks -> {"probe", "send", "wait", "done"}]
        /\ pending' \in [Checks -> Result \cup {NoResult}]
        /\ UNCHANGED <<ticked, runs, collector, alert, last, cancelled>>
    BY <1>2, SendEffect
  <2> QED
    BY <1>00, <2>3, <2>4, <2>5, Zenon
<1>3. ASSUME NEW c \in Checks, Wait(c) PROVE MonitorShape'
  BY <1>0, <1>3 DEF Wait
<1>4. ASSUME NEW c \in Checks, Tick(c) PROVE MonitorShape'
  BY <1>0, <1>4 DEF Tick
<1>5. CASE Collect
  <2>1. results # << >> => /\ Tail(results) \in Seq(Result)
                           /\ Len(Tail(results)) = Len(results) - 1
    BY HeadTailProperties
  <2>0. results' = results \/ (results # << >> /\ results' = Tail(results))
    BY <1>5, CollectEffect
  <2>2. results' \in Seq(Result) /\ Len(results') =< cap
    <3>1. Len(results) \in Nat /\ Len(results) =< cap
      BY <1>00
    <3>2. CASE results # << >> /\ results' = Tail(results)
      BY <1>00, <2>1, <3>1, <3>2
    <3> QED
      BY <2>0, <3>1, <3>2
  <2>3. last' \in [Checks -> Result \cup {NoResult}]
    BY <1>5, CollectEffect DEF Result
  <2> QED
    BY <1>0, <1>00, <1>5, <2>2, <2>3, CollectEffect
<1>6. CASE OnFailure
  BY <1>0, <1>6 DEF OnFailure
<1>7. CASE Cancel
  BY <1>0, <1>7 DEF Cancel
<1>8. CASE UNCHANGED monitorVars
  BY <1>0, <1>8 DEF monitorVars
<1> QED
  BY <1>1, <1>2, <1>3, <1>4, <1>5, <1>6, <1>7, <1>8 DEF MonitorNext

-----------------------------------------------------------------------------
(***************************************************************************)
(* The order of results.  A result's place among those of its check, in    *)
(* the channel, and what is stored give the number of its probe.           *)
(***************************************************************************)
StoredRun(c) == RunNumber(last[c])
InLine(c) == {i \in DOMAIN results : results[i].check = c}
UpTo(c, i) == {j \in InLine(c) : j =< i}

InOrder(c) ==
  /\ \A i \in InLine(c) : results[i].run = StoredRun(c) + Cardinality(UpTo(c, i))
  /\ pending[c] # NoResult => pending[c].run = StoredRun(c) + Cardinality(InLine(c)) + 1
  /\ pc[c] # "done" => runs[c] = StoredRun(c) + Cardinality(InLine(c))
                                   + (IF pending[c] = NoResult THEN 0 ELSE 1)

\* A set of places in a sequence is finite, and so are its parts.
LEMMA PlacesFinite ==
  ASSUME NEW n \in Nat, NEW S \in SUBSET (1..n)
  PROVE  IsFiniteSet(S) /\ Cardinality(S) \in Nat
<1>1. IsFiniteSet(1..n)
  BY FS_Interval
<1>2. IsFiniteSet(S)
  BY <1>1, FS_Subset
<1> QED
  BY <1>2, FS_CardinalityType

\* Places that move by one are as many as they were.
LEMMA ShiftDown ==
  ASSUME NEW n \in Nat, NEW S \in SUBSET (1..n),
         NEW T, T = {i \in 0..n : i + 1 \in S}
  PROVE  Cardinality(T) = Cardinality(S)
<1> DEFINE f == [x \in S |-> x - 1]
<1>1. f \in [S -> T]
  OBVIOUS
<1>2. \A x, y \in S : f[x] = f[y] => x = y
  OBVIOUS
<1>3. \A t \in T : t + 1 \in S /\ f[t + 1] = t
  OBVIOUS
<1>4. f \in Bijection(S, T)
  <2> HIDE DEF f
  <2>1. f \in Injection(S, T)
    BY <1>1, <1>2 DEF Injection, IsInjective
  <2>2. f \in Surjection(S, T)
    BY <1>1, <1>3 DEF Surjection
  <2> QED
    BY <2>1, <2>2 DEF Bijection
<1>5. IsFiniteSet(S)
  BY PlacesFinite
<1> QED
  BY <1>4, <1>5, FS_Bijection DEF ExistsBijection

\* The places of a check's results, and how many they are.
LEMMA Places ==
  ASSUME MonitorShape, NEW c \in Checks
  PROVE  /\ Len(results) \in Nat /\ DOMAIN results = 1..Len(results)
         /\ InLine(c) \in SUBSET (1..Len(results))
         /\ Cardinality(InLine(c)) \in Nat /\ IsFiniteSet(InLine(c))
         /\ \A i : UpTo(c, i) \in SUBSET InLine(c) /\ Cardinality(UpTo(c, i)) \in Nat
         /\ \A i \in InLine(c) : results[i] \in Result /\ results[i].run \in Nat
         /\ StoredRun(c) \in Nat
<1>1. results \in Seq(Result) /\ last[c] \in Result \cup {NoResult}
  BY DEF MonitorShape, MonitorTypeOK
<1>2. /\ Len(results) \in Nat /\ DOMAIN results = 1..Len(results)
      /\ \A i \in 1..Len(results) : results[i] \in Result
  BY <1>1
<1>3. InLine(c) \in SUBSET (1..Len(results)) /\ \A i : UpTo(c, i) \in SUBSET InLine(c)
  BY <1>2 DEF InLine, UpTo
<1>4. Cardinality(InLine(c)) \in Nat /\ IsFiniteSet(InLine(c))
  BY <1>2, <1>3, PlacesFinite
<1>5. \A i : Cardinality(UpTo(c, i)) \in Nat
  <2> TAKE i
  <2>1. UpTo(c, i) \in SUBSET (1..Len(results))
    BY <1>3
  <2> QED
    BY <1>2, <2>1, PlacesFinite
<1>6. StoredRun(c) \in Nat
  BY <1>1 DEF StoredRun, RunNumber, Result
<1>7. \A i \in InLine(c) : results[i].run \in Nat
  BY <1>2, <1>3 DEF Result
<1> QED
  BY <1>2, <1>3, <1>4, <1>5, <1>6, <1>7

\* What leaves the channel and the stored results alone leaves the places.
LEMMA PlacesStay ==
  ASSUME UNCHANGED <<results, last>>, NEW c \in Checks
  PROVE  /\ InLine(c)' = InLine(c) /\ StoredRun(c)' = StoredRun(c)
         /\ \A i : UpTo(c, i)' = UpTo(c, i)
  BY DEF InLine, StoredRun, UpTo, RunNumber

\* A probe numbers its result after what its check has stored and sent.
LEMMA ProbeKeepsOrder ==
  ASSUME MonitorShape, NEW c \in Checks, InOrder(c),
         NEW d \in Checks, RunCheck(d)
  PROVE  InOrder(c)'
<1>1. PICK r \in Result : /\ r.check = d /\ r.run = runs[d] + 1
                          /\ pending' = [pending EXCEPT ![d] = r]
  BY ProbeEffect
<1>2. /\ pc[d] = "probe" /\ pending[d] = NoResult
      /\ pc' = [pc EXCEPT ![d] = "send"] /\ runs' = [runs EXCEPT ![d] = runs[d] + 1]
      /\ UNCHANGED <<results, last>>
  BY ProbeEffect
<1>3. InLine(c)' = InLine(c) /\ StoredRun(c)' = StoredRun(c) /\ \A i : UpTo(c, i)' = UpTo(c, i)
  BY <1>2, PlacesStay
<1>4. NoResult \notin Result
  BY MonitorConstants
<1>5. \A i \in InLine(c)' : results'[i].run = StoredRun(c)' + Cardinality(UpTo(c, i)')
  BY <1>2, <1>3 DEF InOrder
<1>6. /\ pc \in [Checks -> {"probe", "send", "wait", "done"}]
      /\ pending \in [Checks -> Result \cup {NoResult}] /\ runs \in [Checks -> Nat]
  BY DEF MonitorShape, MonitorTypeOK
<1>7. Cardinality(InLine(c)) \in Nat /\ StoredRun(c) \in Nat
  BY Places
<1>8. CASE c = d
  <2>1. /\ pc'[c] = "send" /\ pending'[c] = r /\ r # NoResult
        /\ runs'[c] = StoredRun(c) + Cardinality(InLine(c)) + 1
        /\ r.run = StoredRun(c) + Cardinality(InLine(c)) + 1
    BY <1>1, <1>2, <1>4, <1>6, <1>7, <1>8 DEF InOrder
  <2> QED
    BY <1>3, <1>5, <1>7, <2>1 DEF InOrder
<1>9. CASE c # d
  <2>1. pc'[c] = pc[c] /\ pending'[c] = pending[c] /\ runs'[c] = runs[c]
    BY <1>1, <1>2, <1>6, <1>9
  <2> QED
    BY <1>3, <1>5, <2>1 DEF InOrder
<1> QED
  BY <1>8, <1>9

\* A result that is sent goes behind those of its check.
LEMMA SendKeepsOrder ==
  ASSUME MonitorShape, NEW c \in Checks, InOrder(c),
         NEW d \in Checks, Send(d)
  PROVE  InOrder(c)'
<1>0. PICK n \in Nat : n = Len(results)
  BY Places
<1>1. /\ pc[d] = "send" /\ pending[d] \in Result /\ pending[d].check = d
      /\ pending' = [pending EXCEPT ![d] = NoResult] /\ runs' = runs /\ last' = last
  BY SendEffect
<1>2. \/ results' = Append(results, pending[d]) /\ pc' = [pc EXCEPT ![d] = "wait"]
      \/ results' = results /\ pc' = [pc EXCEPT ![d] = "done"]
  BY SendEffect
<1>3. /\ pc \in [Checks -> {"probe", "send", "wait", "done"}]
      /\ pending \in [Checks -> Result \cup {NoResult}] /\ runs \in [Checks -> Nat]
      /\ results \in Seq(Result) /\ NoResult \notin Result
  BY MonitorConstants DEF MonitorShape, MonitorTypeOK
<1>4. /\ n \in Nat /\ DOMAIN results = 1..n /\ InLine(c) \in SUBSET (1..n)
      /\ Cardinality(InLine(c)) \in Nat /\ IsFiniteSet(InLine(c)) /\ StoredRun(c) \in Nat
  BY <1>0, Places
<1>5. CASE results' = results /\ pc' = [pc EXCEPT ![d] = "done"]
  <2>1. InLine(c)' = InLine(c) /\ StoredRun(c)' = StoredRun(c) /\ \A i : UpTo(c, i)' = UpTo(c, i)
    BY <1>1, <1>5, PlacesStay
  <2>2. \A i \in InLine(c)' : results'[i].run = StoredRun(c)' + Cardinality(UpTo(c, i)')
    BY <1>5, <2>1 DEF InOrder
  <2>3. CASE c = d
    <3>1. pc'[c] = "done" /\ pending'[c] = NoResult
      BY <1>1, <1>3, <1>5, <2>3
    <3> QED
      BY <2>2, <3>1 DEF InOrder
  <2>4. CASE c # d
    <3>1. pc'[c] = pc[c] /\ pending'[c] = pending[c] /\ runs'[c] = runs[c]
      BY <1>1, <1>3, <1>5, <2>4
    <3> QED
      BY <2>1, <2>2, <3>1 DEF InOrder
  <2> QED
    BY <2>3, <2>4
<1>6. CASE results' = Append(results, pending[d]) /\ pc' = [pc EXCEPT ![d] = "wait"]
  <2>1. /\ DOMAIN results' = 1..(n + 1) /\ results'[n + 1] = pending[d]
        /\ \A i \in 1..n : results'[i] = results[i]
    BY <1>0, <1>1, <1>3, <1>4, <1>6
  <2>2. StoredRun(c)' = StoredRun(c)
    BY <1>1 DEF StoredRun, RunNumber
  <2>3. CASE c # d
    <3>1. InLine(c)' = InLine(c)
      BY <1>1, <1>4, <2>1, <2>3 DEF InLine
    <3>2. \A i : UpTo(c, i)' = UpTo(c, i)
      BY <3>1 DEF UpTo
    <3>3. \A i \in InLine(c)' : results'[i].run = StoredRun(c)' + Cardinality(UpTo(c, i)')
      BY <1>4, <2>1, <2>2, <3>1, <3>2 DEF InOrder
    <3>4. pc'[c] = pc[c] /\ pending'[c] = pending[c] /\ runs'[c] = runs[c]
      BY <1>1, <1>3, <1>6, <2>3
    <3> QED
      BY <2>2, <3>1, <3>3, <3>4 DEF InOrder
  <2>4. CASE c = d
    <3>1. InLine(c)' = InLine(c) \cup {n + 1} /\ n + 1 \notin InLine(c)
      BY <1>1, <1>4, <2>1, <2>4 DEF InLine
    <3>2. Cardinality(InLine(c)') = Cardinality(InLine(c)) + 1
      BY <1>4, <3>1, FS_AddElement
    <3>3. \A i \in 1..n : UpTo(c, i)' = UpTo(c, i)
      BY <1>4, <3>1 DEF UpTo
    <3>4. UpTo(c, n + 1)' = InLine(c)'
      BY <1>4, <3>1 DEF UpTo
    <3>5. pending[c] # NoResult /\ pending[c].run = StoredRun(c) + Cardinality(InLine(c)) + 1
      BY <1>1, <1>3, <2>4 DEF InOrder
    <3>6. \A i \in InLine(c)' : results'[i].run = StoredRun(c)' + Cardinality(UpTo(c, i)')
      <4> TAKE i \in InLine(c)'
      <4>1. CASE i = n + 1
        <5>1. results'[i].run = StoredRun(c) + (Cardinality(InLine(c)) + 1)
          BY <1>4, <2>1, <2>4, <3>5, <4>1
        <5> QED
          BY <2>2, <3>2, <3>4, <4>1, <5>1
      <4>2. CASE i \in InLine(c)
        BY <1>4, <2>1, <2>2, <3>3, <4>2 DEF InOrder
      <4> QED
        BY <3>1, <4>1, <4>2
    <3>7. pending'[c] = NoResult /\ runs'[c] = runs[c] /\ pc[c] = "send"
      BY <1>1, <1>3, <2>4
    <3>8. runs[c] = StoredRun(c) + Cardinality(InLine(c)) + 1
      BY <3>5, <3>7 DEF InOrder
    <3>9. runs'[c] = StoredRun(c)' + Cardinality(InLine(c)')
      BY <1>4, <2>2, <3>2, <3>7, <3>8
    <3>10. StoredRun(c)' + Cardinality(InLine(c)') + 0 = StoredRun(c)' + Cardinality(InLine(c)')
      BY <1>4, <2>2, <3>2
    <3> QED
      BY <3>6, <3>7, <3>9, <3>10 DEF InOrder
  <2> QED
    BY <2>3, <2>4
<1> QED
  BY <1>2, <1>5, <1>6

\* A result that is stored makes the others of its check the first ones.
LEMMA CollectKeepsOrder ==
  ASSUME MonitorShape, NEW c \in Checks, InOrder(c), Collect
  PROVE  InOrder(c)'
<1>0. PICK n \in Nat : n = Len(results)
  BY Places
<1>1. /\ pc' = pc /\ pending' = pending /\ runs' = runs
      /\ \/ UNCHANGED <<results, last>>
         \/ /\ results # << >> /\ results' = Tail(results)
            /\ Head(results) \in Result
            /\ last' = [last EXCEPT ![Head(results).check] = Head(results)]
  BY CollectEffect
<1>2. CASE UNCHANGED <<results, last>>
  BY <1>1, <1>2, PlacesStay DEF InOrder
<1>3. CASE /\ results # << >> /\ results' = Tail(results)
           /\ Head(results) \in Result
           /\ last' = [last EXCEPT ![Head(results).check] = Head(results)]
  <2>1. /\ results \in Seq(Result) /\ last \in [Checks -> Result \cup {NoResult}]
        /\ NoResult \notin Result
    BY MonitorConstants DEF MonitorShape, MonitorTypeOK
  <2>2. /\ DOMAIN results = 1..n /\ n >= 1 /\ Head(results) = results[1]
        /\ DOMAIN results' = 1..(n - 1)
        /\ \A i \in 1..(n - 1) : results'[i] = results[i + 1]
    BY <1>0, <1>3, <2>1
  <2>3. /\ InLine(c) \in SUBSET (1..n) /\ IsFiniteSet(InLine(c)) /\ Cardinality(InLine(c)) \in Nat
        /\ StoredRun(c) \in Nat /\ \A i : Cardinality(UpTo(c, i)) \in Nat
        /\ \A i : UpTo(c, i) \in SUBSET (1..n)
    BY <1>0, Places
  <2> DEFINE Others(S) == S \ {1}
             one == IF 1 \in InLine(c) THEN 1 ELSE 0
  <2>4. /\ InLine(c)' = {i \in 0..n : i + 1 \in Others(InLine(c))}
        /\ \A i \in 1..n : UpTo(c, i)' = {j \in 0..n : j + 1 \in Others(UpTo(c, i + 1))}
    <3>1. InLine(c)' = {i \in 0..n : i + 1 \in Others(InLine(c))}
      BY <2>2, <2>3 DEF InLine
    <3>2. \A i \in 1..n : UpTo(c, i)' = {j \in InLine(c)' : j =< i}
      BY DEF UpTo
    <3> QED
      BY <2>3, <3>1, <3>2 DEF UpTo
  <2>5. ASSUME NEW S \in SUBSET (1..n)
        PROVE  Cardinality({i \in 0..n : i + 1 \in Others(S)})
                 = Cardinality(S) - (IF 1 \in S THEN 1 ELSE 0)
    <3>1. IsFiniteSet(S) /\ Cardinality(S) \in Nat
      BY PlacesFinite
    <3>2. Cardinality(Others(S)) = Cardinality(S) - (IF 1 \in S THEN 1 ELSE 0)
      <4>1. CASE 1 \in S
        BY <3>1, <4>1, FS_RemoveElement
      <4>2. CASE 1 \notin S
        <5>1. Others(S) = S
          BY <4>2
        <5> QED
          BY <3>1, <4>2, <5>1
      <4> QED
        BY <4>1, <4>2
    <3>3. Others(S) \in SUBSET (1..n)
      OBVIOUS
    <3> HIDE DEF Others
    <3>4. Cardinality({i \in 0..n : i + 1 \in Others(S)}) = Cardinality(Others(S))
      BY <3>3, ShiftDown
    <3> QED
      BY <3>2, <3>4
  <2>6. Cardinality(InLine(c)') = Cardinality(InLine(c)) - one
    BY <2>3, <2>4, <2>5
  <2>7. \A i \in 1..n : Cardinality(UpTo(c, i)') = Cardinality(UpTo(c, i + 1)) - one
    <3> TAKE i \in 1..n
    <3>1. 1 \in UpTo(c, i + 1) <=> 1 \in InLine(c)
      BY DEF UpTo
    <3> QED
      BY <2>3, <2>4, <2>5, <3>1
  <2>8. StoredRun(c)' = StoredRun(c) + one
    <3>1. CASE results[1].check = c
      <4>1. 1 \in InLine(c) /\ UpTo(c, 1) = {1}
        BY <2>2, <2>3, <3>1 DEF InLine, UpTo
      <4>2. Cardinality(UpTo(c, 1)) = 1
        BY <4>1, FS_Singleton
      <4>3. results[1].run = StoredRun(c) + 1
        BY <4>1, <4>2 DEF InOrder
      <4>4. last'[c] = results[1] /\ results[1] # NoResult
        BY <1>3, <2>1, <2>2, <3>1
      <4> QED
        BY <4>1, <4>3, <4>4 DEF StoredRun, RunNumber
    <3>2. CASE results[1].check # c
      <4>1. 1 \notin InLine(c)
        BY <3>2 DEF InLine
      <4>2. last'[c] = last[c]
        BY <1>3, <2>1, <2>2, <3>2
      <4> QED
        BY <2>3, <4>1, <4>2 DEF StoredRun, RunNumber
    <3> QED
      BY <3>1, <3>2
  <2>9. \A i \in InLine(c)' : results'[i].run = StoredRun(c)' + Cardinality(UpTo(c, i)')
    <3> TAKE i \in InLine(c)'
    <3>1. i \in 1..(n - 1) /\ i + 1 \in InLine(c)
      BY <2>2, <2>3, <2>4
    <3>2. results'[i].run = StoredRun(c) + Cardinality(UpTo(c, i + 1))
      BY <2>2, <3>1 DEF InOrder
    <3>3. Cardinality(UpTo(c, i)') = Cardinality(UpTo(c, i + 1)) - one
      BY <2>7, <3>1
    <3> HIDE DEF one
    <3>4. one \in Nat
      BY DEF one
    <3> QED
      BY <2>3, <2>8, <3>2, <3>3, <3>4
  <2>10. StoredRun(c)' + Cardinality(InLine(c)') = StoredRun(c) + Cardinality(InLine(c))
    BY <2>3, <2>6, <2>8
  <2> QED
    BY <1>1, <2>9, <2>10 DEF InOrder
<1> QED
  BY <1>1, <1>2, <1>3

\* The types, and the order of every check.
OrderInv == MonitorShape /\ \A c \in Checks : InOrder(c)

\* Every step keeps the order of every check.
LEMMA OrderNext ==
  OrderInv /\ [MonitorNext]_monitorVars => OrderInv'
<1> SUFFICES ASSUME OrderInv, [MonitorNext]_monitorVars,
                    NEW c \in Checks
             PROVE  InOrder(c)'
  BY MonitorShapeNext DEF OrderInv
<1> USE DEF OrderInv
<1>0. pc \in [Checks -> {"probe", "send", "wait", "done"}]
  BY DEF MonitorShape, MonitorTypeOK
<1>1. ASSUME NEW d \in Checks, RunCheck(d) PROVE InOrder(c)'
  BY <1>1, ProbeKeepsOrder
<1>2. ASSUME NEW d \in Checks, Send(d) PROVE InOrder(c)'
  BY <1>2, SendKeepsOrder
<1>3. ASSUME NEW d \in Checks, Wait(d) PROVE InOrder(c)'
  <2>1. /\ UNCHANGED <<results, last, pending, runs>> /\ (pc'[c] # "done" => pc[c] # "done")
    BY <1>0, <1>3 DEF Wait
  <2> QED
    BY <2>1, PlacesStay DEF InOrder
<1>4. CASE UNCHANGED <<results, last, pending, runs, pc>>
  BY <1>4, PlacesStay DEF InOrder
<1>5. CASE Collect
  BY <1>5, CollectKeepsOrder
<1>6. CASE \E d \in Checks : Tick(d)
  BY <1>4, <1>6 DEF Tick
<1>7. CASE OnFailure
  BY <1>4, <1>7 DEF OnFailure
<1>8. CASE Cancel
  BY <1>4, <1>8 DEF Cancel
<1>9. CASE UNCHANGED monitorVars
  BY <1>4, <1>9 DEF monitorVars
<1> QED
  BY <1>1, <1>2, <1>3, <1>5, <1>6, <1>7, <1>8, <1>9 DEF MonitorNext

\* The monitor starts in order.
LEMMA OrderInit == MonitorInit => OrderInv
<1> SUFFICES ASSUME MonitorInit, NEW c \in Checks PROVE InOrder(c)
  BY MonitorShapeInit DEF OrderInv
<1>1. InLine(c) = {} /\ StoredRun(c) = 0
  BY DEF MonitorInit, InLine, StoredRun, RunNumber
<1>2. Cardinality(InLine(c)) = 0
  BY <1>1, FS_EmptySet
<1> QED
  BY <1>1, <1>2 DEF InOrder, MonitorInit

\* The numbers say what the order of results promises.
LEMMA InOrderIsPromised ==
  ASSUME OrderInv
  PROVE  ResultsInOrder
<1>1. \A c \in Checks : /\ InChannel(c) = InLine(c)
                        /\ \A i : {j \in InChannel(c) : j =< i} = UpTo(c, i)
  BY DEF InChannel, InLine, UpTo
<1> SUFFICES ASSUME NEW c \in Checks
             PROVE  LET stored == RunNumber(last[c])
                        arrived == stored + Cardinality(InChannel(c))
                        made == IF pending[c] = NoResult THEN arrived ELSE arrived + 1
                    IN  /\ \A i \in InChannel(c) :
                             results[i].run = stored + Cardinality(
                               {j \in InChannel(c) : j =< i})
                        /\ pending[c] # NoResult => pending[c].run = made
                        /\ pc[c] # "done" => runs[c] = made
  BY DEF ResultsInOrder
<1> DEFINE stored == RunNumber(last[c])
           arrived == stored + Cardinality(InChannel(c))
           made == IF pending[c] = NoResult THEN arrived ELSE arrived + 1
<1>2. /\ stored = StoredRun(c) /\ StoredRun(c) \in Nat
      /\ Cardinality(InChannel(c)) = Cardinality(InLine(c))
      /\ Cardinality(InLine(c)) \in Nat
  BY <1>1, Places DEF StoredRun, OrderInv
<1>3. made = StoredRun(c) + Cardinality(InLine(c)) + (IF pending[c] = NoResult THEN 0 ELSE 1)
  BY <1>2
<1>4. \A i \in InChannel(c) :
        results[i].run = stored + Cardinality({j \in InChannel(c) : j =< i})
  <2> TAKE i \in InChannel(c)
  <2>1. Cardinality({j \in InChannel(c) : j =< i}) = Cardinality(UpTo(c, i))
    BY <1>1
  <2> QED
    BY <1>1, <1>2, <2>1 DEF InOrder, OrderInv
<1>5. /\ pending[c] # NoResult => pending[c].run = made
      /\ pc[c] # "done" => runs[c] = made
  BY <1>3 DEF InOrder, OrderInv
<1> QED
  BY <1>4, <1>5

\* Every variable of the monitor has its type, and a result its own check.
THEOREM MonitorTypeCorrect ==
  MonitorSpec => []MonitorTypeOK
<1>1. MonitorInit => MonitorShape
  BY MonitorShapeInit
<1>2. MonitorShape /\ [MonitorNext]_monitorVars
        => (MonitorShape)'
  BY MonitorShapeNext
<1>3. MonitorShape => MonitorTypeOK
  BY DEF MonitorShape
<1> QED
  BY <1>1, <1>2, <1>3, PTL DEF MonitorSpec

\* No result is lost or overtaken between a probe and what is stored
\* (sentinel.go), whichever goroutines are stopped and whenever.
THEOREM ResultsStayInOrder ==
  MonitorSpec => []ResultsInOrder
<1>1. MonitorInit => OrderInv
  BY OrderInit
<1>2. OrderInv /\ [MonitorNext]_monitorVars
        => (OrderInv)'
  BY OrderNext
<1>3. OrderInv => ResultsInOrder
  BY InOrderIsPromised
<1> QED
  BY <1>1, <1>2, <1>3, PTL DEF MonitorSpec

-----------------------------------------------------------------------------
(***************************************************************************)
(* The King's audiences, served by goroutines of their own: any number of  *)
(* subjects and requests, any clock, any store failures and restarts.      *)
(***************************************************************************)
\* What a goroutine's place tells of its locals.
LEMMA VisitLocals ==
  ASSUME CourtTypeOK, NEW r \in Requests, req[r] # Nothing
  PROVE  /\ req[r] \in Pending /\ req[r].profile \in Profiles
         /\ req[r].profile.key \in Keys \cup {NoKey}
         /\ req[r].at \in {"limit", "profile", "ask"} => req[r] \in Asking
         /\ req[r].at \in {"name", "stamp"} => req[r] \in Answered
         /\ req[r].at = "record" => req[r] \in Stamped
<1>1. req[r] \in Pending
  BY DEF CourtTypeOK
<1>2. CASE req[r] \in Asking
  BY <1>1, <1>2 DEF Asking, Profiles, Petitioners
<1>3. CASE req[r] \in Answered
  BY <1>1, <1>3 DEF Answered, Profiles, Petitioners
<1>4. CASE req[r] \in Stamped
  BY <1>1, <1>4 DEF Stamped, Profiles, Petitioners
<1> QED
  BY <1>1, <1>2, <1>3, <1>4 DEF Pending

\* Only who has a key is limited, profiled and named, and what is stamped is
\* stamped with that key.
Placed ==
  \A r \in Requests : req[r] # Nothing =>
    /\ req[r].at \in {"limit", "profile", "name"} => req[r].profile.key \in Keys
    /\ req[r].at = "record" => req[r].audience.key = req[r].profile.key

CourtShape == CourtTypeOK /\ Placed

\* The profile the handler builds.
LEMMA ProfileType ==
  ASSUME NEW k \in Keys \cup {NoKey}, NEW rude \in BOOLEAN,
         NEW rank \in {"subject", "knight", "minister"}, NEW e \in Nat, NEW b \in Nat
  PROVE  /\ Profile(k, rude, rank, e, b) \in Profiles
         /\ Profile(k, rude, rank, e, b).key = k
  BY DEF Profile, Profiles, Petitioners

\* A goroutine moves on with other locals, or ends; the others stay.
Moves(r, job) == req' = [req EXCEPT ![r] = job]

\* A request that comes in waits for the limit, unless it has no key.
LEMMA AudienceEffect ==
  ASSUME NEW r \in Requests, Audience(r)
  PROVE  \E k \in Keys \cup {NoKey}, job \in Asking :
           /\ req[r] = Nothing /\ Moves(r, job) /\ job.profile.key = k
           /\ job.at = IF k \in Keys THEN "limit" ELSE "ask"
           /\ crowded' = IF Serving(k) # {} THEN crowded \cup {k} ELSE crowded
           /\ UNCHANGED <<audiences, honours, merits, now>>
<1>1. PICK k \in Keys \cup {NoKey}, rude \in BOOLEAN :
        /\ req' = [req EXCEPT ![r] =
             [at |-> IF k = NoKey THEN "ask" ELSE "limit",
              profile |-> Profile(k, rude, "subject", 0, 0)]]
        /\ crowded' = IF Serving(k) # {} THEN crowded \cup {k} ELSE crowded
  BY DEF Audience
<1> DEFINE p == Profile(k, rude, "subject", 0, 0)
           job == [at |-> IF k = NoKey THEN "ask" ELSE "limit", profile |-> p]
<1>2. p \in Profiles /\ p.key = k
  BY ProfileType
<1> HIDE DEF p
<1>3. job \in Asking /\ job.profile.key = k
  BY <1>2 DEF Asking
<1>4. job.at = IF k \in Keys THEN "limit" ELSE "ask"
  BY KingAssumption
<1>5. Moves(r, job)
  BY <1>1 DEF Moves, p
<1> HIDE DEF job
<1> QED
  BY <1>1, <1>3, <1>4, <1>5 DEF Audience

\* The limit turns a request away or lets it go on; what it could not read, it
\* remembers of the key.
LEMMA RateLimitEffect ==
  ASSUME CourtShape, NEW r \in Requests, RateLimit(r), NEW k, k = req[r].profile.key
  PROVE  /\ req[r] # Nothing /\ req[r] \in Asking /\ k \in Keys
         /\ \/ Moves(r, Nothing)
            \/ \E job \in Asking :
                 /\ Moves(r, job) /\ job.at = "profile" /\ job.profile.key = k
                 /\ \/ k \in crowded'
                    \/ AudiencesOf(k) = {}
                    \/ ~ now - LastAudienceTime(k) * TicksPerSec < Minute * TicksPerSec
         /\ crowded' \in {crowded, crowded \cup {k}}
         /\ UNCHANGED <<audiences, honours, merits, now>>
<1>1. req[r] # Nothing /\ req[r].at = "limit"
  BY DEF RateLimit, At
<1>2. req[r] \in Asking /\ k \in Keys
  BY <1>1, VisitLocals DEF CourtShape, Placed
<1> DEFINE soon == /\ AudiencesOf(k) # {}
                   /\ now - LastAudienceTime(k) * TicksPerSec < Minute * TicksPerSec
           job == [req[r] EXCEPT !.at = "profile"]
<1>3. PICK answered \in BOOLEAN :
        /\ \/ answered /\ soon /\ Moves(r, Nothing)
           \/ ~ (answered /\ soon) /\ req' = [req EXCEPT ![r].at = "profile"]
        /\ crowded' = IF answered THEN crowded ELSE crowded \cup {k}
  BY DEF RateLimit, Answers, End, Moves
<1>4. job \in Asking /\ job.at = "profile" /\ job.profile.key = k
  BY <1>2 DEF Asking
<1>5. req' = [req EXCEPT ![r].at = "profile"] => Moves(r, job)
  BY DEF Moves
<1> HIDE DEF job
<1> QED
  BY <1>1, <1>2, <1>3, <1>4, <1>5 DEF RateLimit

\* Between the limit and the time stamp a goroutine keeps its key.
LEMMA ConversationEffect ==
  ASSUME CourtShape, NEW r \in Requests,
         BuildProfile(r) \/ Respond(r) \/ ResolveNickname(r)
  PROVE  /\ req[r] # Nothing /\ req[r].at \in {"profile", "ask", "name"}
         /\ \/ Moves(r, Nothing)
            \/ \E job \in Asking \cup Answered :
                 /\ Moves(r, job) /\ job.at \in {"ask", "name", "stamp"}
                 /\ job.profile.key = req[r].profile.key
                 /\ job.at = "name" => job.profile.key \in Keys
         /\ UNCHANGED <<audiences, honours, merits, now, crowded>>
<1> DEFINE v == req[r]
<1>1. CASE BuildProfile(r)
  <2>1. req[r] # Nothing /\ req[r].at = "profile"
    BY <1>1 DEF BuildProfile, At
  <2> DEFINE p == req[r].profile
             rank == IF honours[p.key] = Nothing THEN "subject" ELSE honours[p.key].rank
  <2>2. p \in Profiles /\ p.key \in Keys /\ p.rude \in BOOLEAN
    BY <2>1, VisitLocals DEF Profiles, CourtShape, Placed
  <2>3. rank \in {"subject", "knight", "minister"}
    BY <2>2 DEF CourtShape, CourtTypeOK, Honours
  <2>4. PICK e \in Earnings, b \in BuildCounts :
          req' = [req EXCEPT ![r] =
            [at |-> "ask", profile |-> Profile(p.key, p.rude, rank, e, b)]]
    BY <1>1 DEF BuildProfile
  <2>5. PICK q : q = Profile(p.key, p.rude, rank, e, b)
    OBVIOUS
  <2>6. e \in Nat /\ b \in Nat
    BY KingAssumption
  <2>7. q \in Profiles /\ q.key = p.key
    <3> HIDE DEF p, rank
    <3>1. p.key \in Keys \cup {NoKey}
      BY <2>2
    <3> QED
      BY <2>2, <2>3, <2>5, <2>6, <3>1, ProfileType
  <2> DEFINE job == [at |-> "ask", profile |-> q]
  <2>8. job \in Asking /\ job.at = "ask" /\ job.profile.key = p.key
    BY <2>7 DEF Asking
  <2>9. Moves(r, job)
    BY <2>4, <2>5 DEF Moves
  <2> HIDE DEF job
  <2> QED
    BY <1>1, <2>1, <2>8, <2>9 DEF BuildProfile
<1>2. CASE Respond(r)
  <2>1. v # Nothing /\ v.at = "ask" /\ v \in Asking /\ v.profile.key \in Keys \cup {NoKey}
    BY <1>2, VisitLocals DEF Respond, At, CourtShape
  <2>2. CASE Moves(r, Nothing)
    BY <1>2, <2>1, <2>2 DEF Respond
  <2>3. CASE \E visibility \in {"public", "private"} :
               req' = [req EXCEPT ![r] =
                 [at |-> IF v.profile.key = NoKey THEN "stamp" ELSE "name",
                  profile |-> v.profile, visibility |-> visibility, nickname |-> NoName]]
    <3>1. PICK visibility \in {"public", "private"} :
            req' = [req EXCEPT ![r] =
              [at |-> IF v.profile.key = NoKey THEN "stamp" ELSE "name",
               profile |-> v.profile, visibility |-> visibility, nickname |-> NoName]]
      BY <2>3
    <3> DEFINE job == [at |-> IF v.profile.key = NoKey THEN "stamp" ELSE "name",
                       profile |-> v.profile, visibility |-> visibility, nickname |-> NoName]
    <3>2. job \in Answered
      BY <2>1 DEF Asking, Answered, Publicly
    <3>3. /\ job.at \in {"stamp", "name"} /\ job.profile.key = v.profile.key
          /\ job.at = "name" => job.profile.key \in Keys
      BY <2>1
    <3>4. Moves(r, job)
      BY <3>1 DEF Moves
    <3> HIDE DEF job
    <3> QED
      BY <1>2, <2>1, <3>2, <3>3, <3>4 DEF Respond
  <2> QED
    BY <1>2, <2>2, <2>3 DEF Respond, End, Moves
<1>3. CASE ResolveNickname(r)
  <2>1. v # Nothing /\ v.at = "name" /\ v \in Answered /\ v.profile.key \in Keys
    BY <1>3, VisitLocals DEF ResolveNickname, At, CourtShape, Placed
  <2> DEFINE h == honours[v.profile.key]
             named == h # Nothing /\ h.nickname # NoName
  <2>2. PICK name \in (IF named THEN {h.nickname} ELSE Handles \cup {NoName}) :
          req' = [req EXCEPT ![r].at = "stamp", ![r].nickname = name]
    BY <1>3 DEF ResolveNickname
  <2>3. name \in Publicly
    <3>1. h # Nothing => h.nickname \in Nicknames \cup {NoName}
      BY <2>1 DEF CourtShape, CourtTypeOK, Honours
    <3> QED
      BY <2>2, <3>1 DEF Publicly
  <2> DEFINE job == [v EXCEPT !.at = "stamp", !.nickname = name]
  <2>4. job \in Answered /\ job.at = "stamp" /\ job.profile.key = v.profile.key
    BY <2>1, <2>3 DEF Answered
  <2>5. Moves(r, job)
    BY <2>1, <2>2 DEF Moves, CourtShape, CourtTypeOK
  <2> HIDE DEF job
  <2> QED
    BY <1>3, <2>1, <2>4, <2>5 DEF ResolveNickname
<1> QED
  BY <1>1, <1>2, <1>3

\* Whole seconds.
LEMMA Seconds ==
  ASSUME NEW n \in Nat, NEW d \in Nat \ {0}
  PROVE  /\ n \div d \in Nat /\ n \div d =< n
         /\ n \div d =< (n + 1) \div d
         /\ \A t \in Int : n - t * d >= 0 => n \div d >= t
<1> DEFINE q == n \div d
           m == n % d
<1>1. q \in Int /\ m \in 0..(d - 1) /\ n = d * q + m
  OBVIOUS
<1>2. q \in Nat
  BY <1>1
<1>3. ASSUME NEW t \in Int, NEW a \in Nat, a - t * d >= 0 PROVE a \div d >= t
  <2>1. PICK x \in Int, y \in 0..(d - 1) : x = a \div d /\ a = d * x + y
    OBVIOUS
  <2>2. CASE t > x
    <3>1. PICK z \in Nat : t = x + 1 + z
      BY <2>2
    <3>2. t * d = x * d + d + z * d /\ z * d >= 0
      BY <3>1
    <3> QED
      BY <1>3, <2>1, <3>2
  <2> QED
    BY <2>1, <2>2
<1>4. q * d =< n /\ q * d >= q
  BY <1>1, <1>2
<1> HIDE DEF q, m
<1>5. (n + 1) \div d >= q
  <2>1. (n + 1) - q * d >= 0
    BY <1>1, <1>4
  <2> QED
    BY <1>2, <1>3, <2>1
<1>6. n \div d \in Nat /\ n \div d =< n /\ n \div d =< (n + 1) \div d
  BY <1>2, <1>4, <1>5 DEF q
<1> QED
  BY <1>3, <1>6

\* Stamp puts the time in whole seconds beside the goroutine's own key.
LEMMA StampEffect ==
  ASSUME CourtShape, NEW r \in Requests, Stamp(r)
  PROVE  /\ req[r] # Nothing /\ req[r].at = "stamp"
         /\ \E job \in Stamped :
              /\ Moves(r, job) /\ job.profile.key = req[r].profile.key
              /\ job.audience.key = req[r].profile.key
              /\ job.audience.time = now \div TicksPerSec
              /\ job.audience.tone = Tone(job.profile) /\ job.profile \in Profiles
         /\ UNCHANGED <<audiences, honours, merits, now, crowded>>
<1> DEFINE v == req[r]
           a == [key |-> v.profile.key, tone |-> Tone(v.profile),
                 visibility |-> v.visibility, nickname |-> v.nickname,
                 time |-> now \div TicksPerSec]
           job == [at |-> "record", profile |-> v.profile, audience |-> a]
<1>1. v # Nothing /\ v.at = "stamp" /\ v \in Answered /\ v.profile.key \in Keys \cup {NoKey}
  BY VisitLocals DEF Stamp, At, CourtShape
<1>2. now \div TicksPerSec \in 0..MaxTime
  <2>1. now \in Nat /\ now =< MaxTime /\ MaxTime \in Nat /\ TicksPerSec \in Nat \ {0}
    BY KingAssumption DEF CourtShape, CourtTypeOK
  <2>2. now \div TicksPerSec \in Nat /\ now \div TicksPerSec =< now
    BY <2>1, Seconds
  <2> QED
    BY <2>1, <2>2
<1>3. Tone(v.profile) \in {"roast", "commendation", "cool", "polite"}
  BY DEF Tone
<1>4. a \in Rows
  BY <1>1, <1>2, <1>3 DEF Rows, Answered, Petitioners
<1>5. /\ a.key = v.profile.key /\ a.time = now \div TicksPerSec
      /\ a.tone = Tone(v.profile) /\ v.profile \in Profiles
  BY <1>1 DEF Answered
<1>6. Moves(r, job)
  BY DEF Stamp, Moves
<1> HIDE DEF a
<1>7. job \in Stamped /\ job.profile = v.profile /\ job.audience = a
  BY <1>1, <1>4 DEF Stamped, Answered
<1> HIDE DEF job
<1> QED
  BY <1>1, <1>5, <1>6, <1>7 DEF Stamp

\* What a goroutine records is the row it stamped, if the store answers.
LEMMA RecordEffect ==
  ASSUME CourtShape, NEW r \in Requests, RecordAudience(r)
  PROVE  /\ req[r] # Nothing /\ req[r].at = "record" /\ req[r] \in Stamped
         /\ req[r].audience \in Rows
         /\ req[r].audience.key = req[r].profile.key
         /\ audiences' \in {audiences, Append(audiences, req[r].audience)}
         /\ merits' \in {merits, [profile |-> req[r].profile,
                                  rank |-> ShouldHonour(req[r].profile)]}
         /\ Moves(r, Nothing)
         /\ UNCHANGED <<honours, now, crowded>>
<1>1. req[r] # Nothing /\ req[r].at = "record" /\ req[r] \in Stamped
  BY VisitLocals DEF RecordAudience, At, CourtShape
<1>2. req[r].audience \in Rows /\ req[r].audience.key = req[r].profile.key
  BY <1>1 DEF Stamped, CourtShape, Placed
<1>3. audiences' \in {audiences, Append(audiences, req[r].audience)}
  BY DEF RecordAudience
<1>4. Moves(r, Nothing) /\ UNCHANGED <<honours, now, crowded>>
  BY DEF RecordAudience, End, Moves
<1>5. merits' \in {merits, [profile |-> req[r].profile,
                           rank |-> ShouldHonour(req[r].profile)]}
  BY DEF RecordAudience
<1> QED
  BY <1>1, <1>2, <1>3, <1>4, <1>5

\* The patrol's report is a row of its own key.
LEMMA PatrolEffect ==
  ASSUME CourtShape, Patrol
  PROVE  /\ \E a \in Rows : /\ a.key = PatrolKey /\ a.tone = "polite"
                            /\ audiences' = Append(audiences, a)
         /\ UNCHANGED <<honours, req, merits, now, crowded>>
<1> DEFINE a == [key |-> PatrolKey, tone |-> "polite", visibility |-> "private",
                 nickname |-> NoName, time |-> now \div TicksPerSec]
<1>1. now \div TicksPerSec \in 0..MaxTime
  <2>1. now \in Nat /\ now =< MaxTime /\ MaxTime \in Nat /\ TicksPerSec \in Nat \ {0}
    BY KingAssumption DEF CourtShape, CourtTypeOK
  <2>2. now \div TicksPerSec \in Nat /\ now \div TicksPerSec =< now
    BY <2>1, Seconds
  <2> QED
    BY <2>1, <2>2
<1>2. a \in Rows /\ a.key = PatrolKey /\ a.tone = "polite"
  BY <1>1 DEF Rows, Publicly
<1> QED
  BY <1>2 DEF Patrol

\* The court starts with nothing on record.
LEMMA CourtShapeInit == CourtInit => CourtShape
<1> SUFFICES ASSUME CourtInit PROVE CourtShape
  OBVIOUS
<1>1. now \in 0..MaxTime
  BY KingAssumption DEF CourtInit
<1> QED
  BY <1>1 DEF CourtInit, CourtShape, CourtTypeOK, Placed

\* A move to a place that is typed and placed keeps all of them so.
LEMMA MovesType ==
  ASSUME CourtShape, NEW r \in Requests, NEW job \in Pending \cup {Nothing},
         Moves(r, job),
         job # Nothing => /\ job.at \in {"limit", "profile", "name"} => job.profile.key \in Keys
                          /\ job.at = "record" => job.audience.key = job.profile.key
  PROVE  req' \in [Requests -> Pending \cup {Nothing}] /\ Placed'
  BY DEF CourtShape, CourtTypeOK, Placed, Moves

\* Every step keeps the types, and where goroutines may be.
LEMMA CourtShapeNext ==
  CourtShape /\ [CourtNext]_courtVars => CourtShape'
<1> SUFFICES ASSUME CourtShape, [CourtNext]_courtVars
             PROVE  CourtShape'
  OBVIOUS
<1> DEFINE VisitsOK == req \in [Requests -> Pending \cup {Nothing}] /\ Placed
           RestOK == /\ audiences \in Seq(Rows)
                     /\ honours \in [Keys -> Honours \cup {Nothing}]
                     /\ merits # Nothing => /\ merits.profile \in Profiles
                                            /\ merits.rank \in {"knight", "minister", "subject"}
                     /\ now \in 0..MaxTime
                     /\ crowded \subseteq Petitioners
<1>0. CourtShape' <=> VisitsOK' /\ RestOK'
  BY DEF CourtShape, CourtTypeOK
<1>00. VisitsOK /\ RestOK
  BY DEF CourtShape, CourtTypeOK
<1>1. ASSUME NEW r \in Requests, Audience(r) PROVE CourtShape'
  <2>1. PICK k \in Keys \cup {NoKey}, job \in Asking :
          /\ Moves(r, job) /\ job.profile.key = k
          /\ job.at = IF k \in Keys THEN "limit" ELSE "ask"
          /\ crowded' \in {crowded, crowded \cup {k}}
          /\ UNCHANGED <<audiences, honours, merits, now>>
    BY <1>1, AudienceEffect
  <2>2. /\ job.at \in {"limit", "profile", "name"} => job.profile.key \in Keys
        /\ job.at # "record" /\ job \in Pending
    BY <2>1 DEF Pending
  <2>3. VisitsOK'
    BY <2>1, <2>2, MovesType
  <2>4. RestOK'
    BY <1>00, <2>1 DEF Petitioners
  <2> QED
    BY <1>0, <2>3, <2>4
<1>2. ASSUME NEW r \in Requests, RateLimit(r) PROVE CourtShape'
  <2>1. PICK k \in Keys : /\ k = req[r].profile.key
                          /\ crowded' \in {crowded, crowded \cup {k}}
    BY <1>2, RateLimitEffect
  <2>2. PICK job \in Asking \cup {Nothing} :
          /\ Moves(r, job)
          /\ job # Nothing => job \in Asking /\ job.at = "profile" /\ job.profile.key = k
    BY <1>2, <2>1, RateLimitEffect
  <2>3. VisitsOK'
    BY <2>2, MovesType DEF Pending
  <2>4. RestOK'
    BY <1>00, <1>2, <2>1, RateLimitEffect DEF Petitioners
  <2> QED
    BY <1>0, <2>3, <2>4
<1>3. ASSUME NEW r \in Requests,
             BuildProfile(r) \/ Respond(r) \/ ResolveNickname(r)
      PROVE  CourtShape'
  <2>1. PICK job \in Asking \cup Answered \cup {Nothing} :
          /\ Moves(r, job)
          /\ job # Nothing => /\ job \in Pending /\ job.at \in {"ask", "name", "stamp"}
                              /\ job.at = "name" => job.profile.key \in Keys
          /\ UNCHANGED <<audiences, honours, merits, now, crowded>>
    BY <1>3, ConversationEffect DEF Pending
  <2>2. VisitsOK'
    BY <2>1, MovesType
  <2>3. RestOK'
    BY <1>00, <2>1
  <2> QED
    BY <1>0, <2>2, <2>3
<1>4. ASSUME NEW r \in Requests, Stamp(r) PROVE CourtShape'
  <2>1. PICK job \in Stamped :
          /\ Moves(r, job) /\ job.audience.key = job.profile.key
          /\ UNCHANGED <<audiences, honours, merits, now, crowded>>
    BY <1>4, StampEffect
  <2>2. job \in Pending /\ job.at = "record"
    BY DEF Pending, Stamped
  <2>3. VisitsOK'
    BY <2>1, <2>2, MovesType
  <2>4. RestOK'
    BY <1>00, <2>1
  <2> QED
    BY <1>0, <2>3, <2>4
<1>5. ASSUME NEW r \in Requests, RecordAudience(r) PROVE CourtShape'
  <2> DEFINE p == req[r].profile
  <2>1. VisitsOK'
    BY <1>5, RecordEffect, MovesType
  <2>2. /\ p \in Profiles
        /\ ShouldHonour(p) \in {"knight", "minister", "subject"}
    BY <1>5, RecordEffect DEF Stamped, ShouldHonour
  <2>3. audiences' \in Seq(Rows)
    BY <1>00, <1>5, RecordEffect
  <2>4. merits' # Nothing => /\ merits'.profile \in Profiles
                             /\ merits'.rank \in {"knight", "minister", "subject"}
    <3>1. merits' \in {merits, [profile |-> p, rank |-> ShouldHonour(p)]}
      BY <1>5, RecordEffect
    <3> HIDE DEF p
    <3> QED
      BY <1>00, <2>2, <3>1
  <2> QED
    BY <1>0, <1>00, <1>5, <2>1, <2>3, <2>4, RecordEffect
<1>6. CASE Patrol
  <2>1. PICK a \in Rows : audiences' = Append(audiences, a)
    BY <1>6, PatrolEffect
  <2>2. VisitsOK'
    BY <1>00, <1>6, PatrolEffect DEF Placed
  <2>3. RestOK'
    BY <1>00, <1>6, <2>1, PatrolEffect
  <2> QED
    BY <1>0, <2>2, <2>3
<1>7. CASE \E k \in Keys, rank \in {"knight", "minister"}, name \in Names,
              nickname \in Nicknames \cup {NoName} :
             GrantHonour(k, rank, name, nickname)
  <2>1. honours' \in [Keys -> Honours \cup {Nothing}]
    BY <1>00, <1>7 DEF GrantHonour, Honours
  <2>2. UNCHANGED <<audiences, req, merits, now, crowded>>
    BY <1>7 DEF GrantHonour
  <2>3. VisitsOK'
    BY <1>00, <2>2 DEF Placed
  <2> QED
    BY <1>0, <1>00, <2>1, <2>2, <2>3
<1>8. CASE \E k \in Keys, nickname \in Nicknames : SetNickname(k, nickname)
  <2>1. honours' \in [Keys -> Honours \cup {Nothing}]
    BY <1>00, <1>8 DEF SetNickname, Honours
  <2>2. UNCHANGED <<audiences, req, merits, now, crowded>>
    BY <1>8 DEF SetNickname
  <2>3. VisitsOK'
    BY <1>00, <2>2 DEF Placed
  <2> QED
    BY <1>0, <1>00, <2>1, <2>2, <2>3
<1>9. CASE ClockTick
  <2>1. now' \in 0..MaxTime /\ UNCHANGED <<audiences, honours, req, merits, crowded>>
    BY <1>00, <1>9, KingAssumption DEF ClockTick
  <2>2. VisitsOK'
    BY <1>00, <2>1 DEF Placed
  <2> QED
    BY <1>0, <1>00, <2>1, <2>2
<1>10. CASE Crash
  <2>1. req' = [r \in Requests |-> Nothing] /\ UNCHANGED <<audiences, honours, merits, now, crowded>>
    BY <1>10 DEF Crash
  <2>2. VisitsOK'
    BY <2>1 DEF Placed
  <2> QED
    BY <1>0, <1>00, <2>1, <2>2
<1>11. CASE UNCHANGED courtVars
  <2>1. UNCHANGED <<audiences, honours, req, merits, now, crowded>>
    BY <1>11 DEF courtVars
  <2>2. VisitsOK'
    BY <1>00, <2>1 DEF Placed
  <2> QED
    BY <1>0, <1>00, <2>1, <2>2
<1> QED
  BY <1>1, <1>2, <1>3, <1>4, <1>5, <1>6, <1>7, <1>8, <1>9, <1>10, <1>11 DEF CourtNext

-----------------------------------------------------------------------------
(***************************************************************************)
(* Who waits for its answer has one goroutine, which found every audience  *)
(* on record a minute old when it passed the limit; the time it stamps is  *)
(* no earlier.                                                             *)
(***************************************************************************)
Second == now \div TicksPerSec

Waits(k, r) ==
  /\ req[r].at \in {"profile", "ask", "name", "stamp"} =>
       \A i \in AudiencesOf(k) : Second - audiences[i].time >= Minute
  /\ req[r].at = "record" =>
       \A i \in AudiencesOf(k) : req[r].audience.time - audiences[i].time >= Minute

Spaced(k) ==
  \A i, j \in AudiencesOf(k) :
    i < j => audiences[j].time - audiences[i].time >= Minute

Patient(k) ==
  /\ Spaced(k)
  /\ \A r \in Serving(k) : Waits(k, r) /\ Serving(k) = {r}

PatienceInv == CourtShape /\ \A k \in Keys \ crowded : Patient(k)

\* The audiences on record, as a sequence of rows.
LEMMA AudiencesType ==
  ASSUME CourtShape
  PROVE  /\ Len(audiences) \in Nat /\ DOMAIN audiences = 1..Len(audiences)
         /\ \A i \in DOMAIN audiences : audiences[i].time \in Nat
         /\ now \in Nat /\ TicksPerSec \in Nat \ {0} /\ Minute \in Nat \ {0}
         /\ Second \in Nat /\ NoKey \notin Keys /\ PatrolKey \notin Keys
<1>1. audiences \in Seq(Rows) /\ now \in 0..MaxTime
  BY DEF CourtShape, CourtTypeOK
<1>2. /\ TicksPerSec \in Nat \ {0} /\ Minute \in Nat \ {0} /\ MaxTime \in Nat
      /\ NoKey \notin Keys /\ PatrolKey \notin Keys
  BY KingAssumption
<1>3. \A i \in DOMAIN audiences : audiences[i].time \in Nat
  <2>1. \A a \in Rows : a.time \in Nat
    BY <1>2 DEF Rows
  <2>2. \A i \in DOMAIN audiences : audiences[i] \in Rows
    BY <1>1
  <2> QED
    BY <2>1, <2>2
<1>4. now \in Nat
  BY <1>1, <1>2
<1>5. Second \in Nat
  BY <1>2, <1>4, Seconds DEF Second
<1> QED
  BY <1>1, <1>2, <1>3, <1>4, <1>5

\* Among natural numbers up to a bound one is the largest.
LEMMA Largest ==
  ASSUME NEW n \in Nat, NEW S \in SUBSET (0..n), S # {}
  PROVE  \E m \in S : \A x \in S : m >= x
<1> DEFINE T == {t \in 0..n : n - t \in S}
<1>1. T \subseteq Nat /\ \A x \in S : n - x \in T /\ x \in 0..n
  OBVIOUS
<1>2. T # {}
  BY <1>1
<1>3. PICK t \in T : \A y \in T : t =< y
  <2> HIDE DEF T
  <2> QED
    BY <1>1, <1>2, LeastElement
<1> WITNESS n - t \in S
<1> QED
  BY <1>1, <1>3

\* The one with the highest id is the latest of a key whose audiences are
\* spaced.
LEMMA LastIsLatest ==
  ASSUME CourtShape, NEW k \in Keys, Spaced(k), AudiencesOf(k) # {}
  PROVE  /\ LastAudienceTime(k) \in Nat
         /\ \A i \in AudiencesOf(k) : audiences[i].time =< LastAudienceTime(k)
<1> DEFINE S == AudiencesOf(k)
<1>1. /\ S \in SUBSET (1..Len(audiences)) /\ Len(audiences) \in Nat
      /\ Minute \in Nat /\ \A i \in S : audiences[i].time \in Nat
  BY AudiencesType DEF AudiencesOf
<1>2. \E m \in S : \A x \in S : m >= x
  <2>1. S \in SUBSET (0..Len(audiences))
    BY <1>1
  <2>2. S # {}
    OBVIOUS
  <2> HIDE DEF S
  <2> QED
    BY <1>1, <2>1, <2>2, Largest
<1>3. /\ Max(S) \in S /\ \A x \in S : Max(S) >= x
  BY <1>2 DEF Max
<1>4. \A i \in S : audiences[i].time =< audiences[Max(S)].time
  <2> TAKE i \in S
  <2>1. CASE i = Max(S)
    BY <1>1, <2>1
  <2>2. CASE i # Max(S)
    <3>1. i < Max(S)
      BY <1>1, <1>3, <2>2
    <3>2. audiences[Max(S)].time - audiences[i].time >= Minute
      BY <1>3, <3>1 DEF Spaced
    <3> QED
      BY <1>1, <1>3, <3>2
  <2> QED
    BY <2>1, <2>2
<1> QED
  BY <1>1, <1>3, <1>4 DEF LastAudienceTime

\* A goroutine that moves on for a key is among those that serve it, or was.
LEMMA ServingMoves ==
  ASSUME CourtShape, NEW r \in Requests, NEW job, Moves(r, job), NEW k,
         job = Nothing \/ (req[r] # Nothing /\ job.profile.key = req[r].profile.key)
  PROVE  /\ Serving(k)' \subseteq Serving(k)
         /\ job = Nothing => r \notin Serving(k)'
         /\ \A s \in Serving(k)' : s # r => req'[s] = req[s]
         /\ req'[r] = job
  BY DEF Serving, Moves, CourtShape, CourtTypeOK

\* A key keeps its spacing while its audiences stay and its goroutines keep
\* what they found.
LEMMA PatientStays ==
  ASSUME CourtShape, NEW k \in Keys, Patient(k),
         \A i \in AudiencesOf(k)' : i \in AudiencesOf(k) /\ audiences'[i] = audiences[i],
         Serving(k)' \subseteq Serving(k),
         \A s \in Serving(k)' : Waits(k, s)'
  PROVE  Patient(k)'
<1>1. Spaced(k)'
  BY DEF Spaced, Patient
<1>2. \A s \in Serving(k)' : Serving(k)' = {s}
  BY DEF Patient
<1> QED
  BY <1>1, <1>2 DEF Patient

\* What a goroutine found holds on, as the clock goes on.
LEMMA WaitsOn ==
  ASSUME CourtShape, NEW k \in Keys, NEW s, Waits(k, s),
         req'[s] = req[s], Second' \in Nat, Second' >= Second,
         audiences' = audiences
  PROVE  Waits(k, s)'
<1>1. AudiencesOf(k)' = AudiencesOf(k)
  BY DEF AudiencesOf
<1>2. \A i \in AudiencesOf(k) : audiences[i].time \in Nat
  BY AudiencesType DEF AudiencesOf
<1>3. Second \in Nat /\ Minute \in Nat
  BY AudiencesType
<1>4. \A i \in AudiencesOf(k) :
        Second - audiences[i].time >= Minute => Second' - audiences[i].time >= Minute
  BY <1>2, <1>3
<1> QED
  BY <1>1, <1>4 DEF Waits

\* A request that comes in is the only one of its key, or the key is crowded.
LEMMA AudienceKeepsPatience ==
  ASSUME CourtShape, NEW k \in Keys, k \notin crowded', Patient(k),
         NEW r \in Requests, Audience(r)
  PROVE  Patient(k)'
<1>1. PICK x \in Keys \cup {NoKey}, job \in Asking :
        /\ req[r] = Nothing /\ Moves(r, job) /\ job.profile.key = x
        /\ job.at = IF x \in Keys THEN "limit" ELSE "ask"
        /\ crowded' = IF Serving(x) # {} THEN crowded \cup {x} ELSE crowded
        /\ UNCHANGED <<audiences, honours, merits, now>>
  BY AudienceEffect
<1>2. req' = [req EXCEPT ![r] = job] /\ req \in [Requests -> Pending \cup {Nothing}]
  BY <1>1 DEF Moves, CourtShape, CourtTypeOK
<1>3. job # Nothing
  BY NothingAssumption DEF Pending
<1>4. Second' = Second /\ Second \in Nat
  BY <1>1, AudiencesType DEF Second
<1>5. CASE x = k
  <2>1. Serving(k) = {}
    BY <1>1, <1>5
  <2>2. Serving(k)' = {r}
    BY <1>1, <1>2, <1>3, <1>5, <2>1 DEF Serving
  <2>3. Waits(k, r)'
    BY <1>1, <1>2, <1>5 DEF Waits
  <2>4. Spaced(k)'
    BY <1>1 DEF Spaced, Patient, AudiencesOf
  <2> QED
    BY <2>2, <2>3, <2>4 DEF Patient
<1>6. CASE x # k
  <2>1. Serving(k)' = Serving(k) /\ \A s \in Serving(k) : req'[s] = req[s]
    BY <1>1, <1>2, <1>6 DEF Serving
  <2>2. \A s \in Serving(k)' : Waits(k, s)'
    <3> TAKE s \in Serving(k)'
    <3>1. Waits(k, s) /\ req'[s] = req[s]
      BY <2>1 DEF Patient
    <3> QED
      BY <1>1, <1>4, <3>1, WaitsOn
  <2> QED
    BY <1>1, <2>1, <2>2, PatientStays DEF AudiencesOf
<1> QED
  BY <1>5, <1>6

\* Who passes the limit found its last audience a minute old, and that is
\* the latest.
LEMMA RateLimitKeepsPatience ==
  ASSUME CourtShape, NEW k \in Keys, k \notin crowded', Patient(k),
         NEW r \in Requests, RateLimit(r)
  PROVE  Patient(k)'
<1>1. PICK x \in Keys : x = req[r].profile.key
  BY RateLimitEffect
<1>2. req[r] # Nothing /\ UNCHANGED <<audiences, now>> /\ crowded' \in {crowded, crowded \cup {x}}
  BY <1>1, RateLimitEffect
<1>3. PICK job \in Asking \cup {Nothing} :
        /\ Moves(r, job)
        /\ \/ job = Nothing
           \/ /\ job \in Asking /\ job.at = "profile" /\ job.profile.key = x
              /\ \/ x \in crowded'
                 \/ AudiencesOf(x) = {}
                 \/ ~ now - LastAudienceTime(x) * TicksPerSec < Minute * TicksPerSec
  BY <1>1, RateLimitEffect
<1>4. /\ Serving(k)' \subseteq Serving(k) /\ req'[r] = job
      /\ \A s \in Serving(k)' : s # r => req'[s] = req[s]
      /\ job = Nothing => r \notin Serving(k)'
  BY <1>1, <1>2, <1>3, ServingMoves
<1>5. Second' = Second /\ Second \in Nat
  BY <1>2, AudiencesType DEF Second
<1>6. ASSUME NEW s \in Serving(k)' PROVE Waits(k, s)'
  <2>1. Waits(k, s)
    BY <1>4, <1>6 DEF Patient
  <2>2. CASE s # r
    BY <1>2, <1>4, <1>5, <2>1, <2>2, WaitsOn
  <2>3. CASE s = r
    <3>1. job # Nothing /\ job.at = "profile" /\ x = k /\ x \notin crowded'
      BY <1>1, <1>3, <1>4, <1>6, <2>3 DEF Serving
    <3>2. CASE AudiencesOf(k) = {}
      BY <1>2, <1>4, <2>3, <3>1, <3>2 DEF Waits, AudiencesOf
    <3>3. CASE AudiencesOf(k) # {}
      <4> DEFINE t == LastAudienceTime(k)
      <4>1. t \in Nat /\ \A i \in AudiencesOf(k) : audiences[i].time =< t
        BY <3>3, LastIsLatest DEF Patient
      <4>2. ~ now - t * TicksPerSec < Minute * TicksPerSec
        BY <1>3, <3>1, <3>3
      <4>3. /\ now \in Nat /\ TicksPerSec \in Nat \ {0} /\ Minute \in Nat
            /\ \A i \in AudiencesOf(k) : audiences[i].time \in Nat
        BY AudiencesType DEF AudiencesOf
      <4> HIDE DEF t
      <4>4. now - (t + Minute) * TicksPerSec >= 0
        BY <4>1, <4>2, <4>3
      <4>5. Second >= t + Minute
        BY <4>1, <4>3, <4>4, Seconds DEF Second
      <4>6. \A i \in AudiencesOf(k) : Second - audiences[i].time >= Minute
        BY <1>5, <4>1, <4>3, <4>5
      <4> QED
        BY <1>2, <1>4, <1>5, <2>3, <3>1, <4>6 DEF Waits, AudiencesOf
    <3> QED
      BY <3>2, <3>3
  <2> QED
    BY <2>2, <2>3
<1> QED
  BY <1>2, <1>4, <1>6, PatientStays DEF AudiencesOf

\* A goroutine that moves on to its answer keeps what it found at the limit.
LEMMA ConversationKeepsPatience ==
  ASSUME CourtShape, NEW k \in Keys, Patient(k), NEW r \in Requests,
         BuildProfile(r) \/ Respond(r) \/ ResolveNickname(r)
  PROVE  Patient(k)'
<1>1. /\ req[r] # Nothing /\ req[r].at \in {"profile", "ask", "name"}
      /\ UNCHANGED <<audiences, now>>
  BY ConversationEffect
<1>2. PICK job \in Asking \cup Answered \cup {Nothing} :
        /\ Moves(r, job)
        /\ \/ job = Nothing
           \/ /\ job.at \in {"ask", "name", "stamp"}
              /\ job.profile.key = req[r].profile.key
  BY ConversationEffect
<1>3. /\ Serving(k)' \subseteq Serving(k) /\ req'[r] = job
      /\ \A s \in Serving(k)' : s # r => req'[s] = req[s]
      /\ job = Nothing => r \notin Serving(k)'
  BY <1>1, <1>2, ServingMoves
<1>4. Second' = Second /\ Second \in Nat
  BY <1>1, AudiencesType DEF Second
<1>5. ASSUME NEW s \in Serving(k)' PROVE Waits(k, s)'
  <2>1. Waits(k, s)
    BY <1>3, <1>5 DEF Patient
  <2>2. CASE s # r
    BY <1>1, <1>3, <1>4, <2>1, <2>2, WaitsOn
  <2>3. CASE s = r
    <3>1. \A i \in AudiencesOf(k) : Second - audiences[i].time >= Minute
      BY <1>1, <2>1, <2>3 DEF Waits
    <3>2. job.at # "record"
      BY <1>2, <1>3, <1>5, <2>3
    <3> QED
      BY <1>1, <1>3, <1>4, <2>3, <3>1, <3>2 DEF Waits, AudiencesOf
  <2> QED
    BY <2>2, <2>3
<1> QED
  BY <1>1, <1>3, <1>5, PatientStays DEF AudiencesOf

\* The time that is stamped is that of the clock.
LEMMA StampKeepsPatience ==
  ASSUME CourtShape, NEW k \in Keys, Patient(k), NEW r \in Requests,
         Stamp(r)
  PROVE  Patient(k)'
<1>1. /\ req[r] # Nothing /\ req[r].at = "stamp" /\ UNCHANGED <<audiences, now>>
  BY StampEffect
<1>2. PICK job \in Stamped :
        /\ Moves(r, job) /\ job.profile.key = req[r].profile.key
        /\ job.audience.time = Second
  BY StampEffect DEF Second
<1>3. /\ Serving(k)' \subseteq Serving(k) /\ req'[r] = job
      /\ \A s \in Serving(k)' : s # r => req'[s] = req[s]
  BY <1>1, <1>2, ServingMoves
<1>4. Second' = Second /\ Second \in Nat
  BY <1>1, AudiencesType DEF Second
<1>5. ASSUME NEW s \in Serving(k)' PROVE Waits(k, s)'
  <2>1. Waits(k, s)
    BY <1>3, <1>5 DEF Patient
  <2>2. CASE s # r
    BY <1>1, <1>3, <1>4, <2>1, <2>2, WaitsOn
  <2>3. CASE s = r
    <3>1. \A i \in AudiencesOf(k) : Second - audiences[i].time >= Minute
      BY <1>1, <2>1, <2>3 DEF Waits
    <3>2. job.at = "record"
      BY DEF Stamped
    <3> QED
      BY <1>1, <1>2, <1>3, <2>3, <3>1, <3>2 DEF Waits, AudiencesOf
  <2> QED
    BY <2>2, <2>3
<1> QED
  BY <1>1, <1>3, <1>5, PatientStays DEF AudiencesOf

\* A row that is appended belongs to the audiences of its key.
LEMMA AppendedRow ==
  ASSUME CourtShape, NEW a \in Rows, audiences' = Append(audiences, a),
         NEW n \in Nat, n = Len(audiences) + 1, NEW k \in Keys
  PROVE  /\ audiences'[n] = a /\ n \notin AudiencesOf(k)
         /\ \A i \in AudiencesOf(k) : audiences'[i] = audiences[i] /\ i \in Nat /\ i < n
         /\ a.key = k => AudiencesOf(k)' = AudiencesOf(k) \cup {n}
         /\ a.key # k => AudiencesOf(k)' = AudiencesOf(k)
<1>1. audiences \in Seq(Rows)
  BY DEF CourtShape, CourtTypeOK
<1>2. /\ DOMAIN audiences = 1..(n - 1) /\ DOMAIN audiences' = 1..n
      /\ audiences'[n] = a /\ \A i \in 1..(n - 1) : audiences'[i] = audiences[i]
  BY <1>1
<1>3. AudiencesOf(k) \subseteq 1..(n - 1)
  BY <1>2 DEF AudiencesOf
<1>4. AudiencesOf(k)' = {i \in 1..n : audiences'[i].key = k}
  BY <1>2 DEF AudiencesOf
<1>5. /\ a.key = k => AudiencesOf(k)' = AudiencesOf(k) \cup {n}
      /\ a.key # k => AudiencesOf(k)' = AudiencesOf(k)
  BY <1>2, <1>4 DEF AudiencesOf
<1> QED
  BY <1>2, <1>3, <1>5

\* What is recorded is a minute after all that its key has on record.
LEMMA RecordKeepsPatience ==
  ASSUME CourtShape, NEW k \in Keys, Patient(k), NEW r \in Requests,
         RecordAudience(r)
  PROVE  Patient(k)'
<1> DEFINE a == req[r].audience
<1>1. /\ req[r] # Nothing /\ req[r].at = "record" /\ a \in Rows
      /\ a.key = req[r].profile.key /\ Moves(r, Nothing)
      /\ audiences' \in {audiences, Append(audiences, a)} /\ now' = now
  BY RecordEffect
<1>2. /\ Serving(k)' \subseteq Serving(k) /\ r \notin Serving(k)'
      /\ \A s \in Serving(k)' : req'[s] = req[s]
  BY <1>1, ServingMoves
<1>3. Second' = Second /\ Second \in Nat
  BY <1>1, AudiencesType DEF Second
<1>4. CASE a.key # k \/ audiences' = audiences
  <2>1. /\ AudiencesOf(k)' = AudiencesOf(k)
        /\ \A i \in AudiencesOf(k) : audiences'[i] = audiences[i]
    <3>1. CASE audiences' = audiences
      BY <3>1 DEF AudiencesOf
    <3>2. CASE a.key # k /\ audiences' = Append(audiences, a)
      <4>1. PICK n \in Nat : n = Len(audiences) + 1
        BY AudiencesType
      <4>2. a \in Rows /\ a.key # k /\ audiences' = Append(audiences, a)
        BY <1>1, <3>2
      <4> HIDE DEF a
      <4>3. \A i \in AudiencesOf(k) : audiences'[i] = audiences[i]
        BY <4>1, <4>2, AppendedRow
      <4>4. AudiencesOf(k)' = AudiencesOf(k)
        BY <4>1, <4>2, AppendedRow
      <4> QED
        BY <4>3, <4>4
    <3> QED
      BY <1>1, <1>4, <3>1, <3>2
  <2>2. \A s \in Serving(k)' : Waits(k, s)'
    <3> TAKE s \in Serving(k)'
    <3>1. Waits(k, s) /\ req'[s] = req[s]
      BY <1>2 DEF Patient
    <3> QED
      BY <1>3, <2>1, <3>1 DEF Waits
  <2> QED
    BY <1>2, <2>1, <2>2, PatientStays
<1>5. CASE a.key = k /\ audiences' = Append(audiences, a)
  <2>1. r \in Serving(k)
    BY <1>1, <1>5 DEF Serving
  <2>2. Serving(k) = {r} /\ Waits(k, r)
    BY <2>1 DEF Patient
  <2>3. Serving(k)' = {}
    BY <1>2, <2>2
  <2>4. \A i \in AudiencesOf(k) : a.time - audiences[i].time >= Minute
    BY <1>1, <2>2 DEF Waits
  <2>5. PICK n : n = Len(audiences) + 1
    OBVIOUS
  <2>6. /\ audiences'[n] = a /\ n \notin AudiencesOf(k)
        /\ \A i \in AudiencesOf(k) : audiences'[i] = audiences[i] /\ i \in Nat /\ i < n
        /\ AudiencesOf(k)' = AudiencesOf(k) \cup {n} /\ n \in Nat
    <3>1. n \in Nat
      BY <2>5, AudiencesType
    <3> HIDE DEF a
    <3> QED
      BY <1>1, <1>5, <2>5, <3>1, AppendedRow
  <2>7. Spaced(k)'
    <3> SUFFICES ASSUME NEW i \in AudiencesOf(k)', NEW j \in AudiencesOf(k)', i < j
                 PROVE  audiences'[j].time - audiences'[i].time >= Minute
      BY DEF Spaced
    <3>1. CASE j = n
      <4>1. i \in AudiencesOf(k)
        BY <2>6, <3>1
      <4> QED
        BY <2>4, <2>6, <3>1, <4>1
    <3>2. CASE j \in AudiencesOf(k)
      <4>1. i \in AudiencesOf(k)
        BY <2>6, <3>2
      <4> QED
        BY <2>6, <3>2, <4>1 DEF Spaced, Patient
    <3> QED
      BY <2>6, <3>1, <3>2
  <2> QED
    BY <2>3, <2>7 DEF Patient
<1> QED
  BY <1>1, <1>4, <1>5

\* What keeps the audiences of a key and its goroutines, and lets the clock
\* go on, keeps it patient.
LEMMA OthersKeepPatience ==
  ASSUME CourtShape, NEW k \in Keys, Patient(k),
         \/ Patrol
         \/ \E c \in Keys, rank \in {"knight", "minister"}, name \in Names,
               nickname \in Nicknames \cup {NoName} :
              GrantHonour(c, rank, name, nickname)
         \/ \E c \in Keys, nickname \in Nicknames : SetNickname(c, nickname)
         \/ ClockTick \/ Crash \/ UNCHANGED courtVars
  PROVE  Patient(k)'
<1>1. \/ req' = req
      \/ req' = [s \in Requests |-> Nothing] /\ audiences' = audiences
  BY PatrolEffect DEF GrantHonour, SetNickname, ClockTick, Crash, courtVars
<1>2. /\ AudiencesOf(k)' = AudiencesOf(k)
      /\ \A i \in AudiencesOf(k) : audiences'[i] = audiences[i]
  <2>1. CASE audiences' = audiences
    BY <2>1 DEF AudiencesOf
  <2>2. CASE Patrol
    <3>1. PICK a \in Rows : a.key = PatrolKey /\ audiences' = Append(audiences, a)
      BY <2>2, PatrolEffect
    <3>2. a.key # k
      BY <3>1, AudiencesType
    <3> QED
      <4>1. PICK n \in Nat : n = Len(audiences) + 1
        BY AudiencesType
      <4>2. \A i \in AudiencesOf(k) : audiences'[i] = audiences[i]
        BY <3>1, <4>1, AppendedRow
      <4>3. AudiencesOf(k)' = AudiencesOf(k)
        BY <3>1, <3>2, <4>1, AppendedRow
      <4> QED
        BY <4>2, <4>3
  <2> QED
    BY <2>1, <2>2 DEF GrantHonour, SetNickname, ClockTick, Crash, courtVars
<1>3. Second \in Nat /\ Second' \in Nat /\ Second' >= Second
  <2>1. now' \in {now, now + 1} /\ now \in Nat /\ TicksPerSec \in Nat \ {0}
    BY PatrolEffect, AudiencesType
       DEF GrantHonour, SetNickname, ClockTick, Crash, courtVars
  <2>2. /\ now \div TicksPerSec \in Nat /\ (now + 1) \div TicksPerSec \in Nat
        /\ (now + 1) \div TicksPerSec >= now \div TicksPerSec
    BY <2>1, Seconds
  <2>3. Second = now \div TicksPerSec /\ Second' = now' \div TicksPerSec
    BY DEF Second
  <2>4. CASE now' = now
    BY <2>2, <2>3, <2>4
  <2>5. CASE now' = now + 1
    BY <2>2, <2>3, <2>5
  <2> QED
    BY <2>1, <2>4, <2>5
<1>4. /\ Serving(k)' \subseteq Serving(k)
      /\ \A s \in Serving(k)' : req'[s] = req[s]
  BY <1>1 DEF Serving
<1>5. \A i \in AudiencesOf(k) : audiences[i].time \in Nat /\ Minute \in Nat
  BY AudiencesType DEF AudiencesOf
<1>6. \A s \in Serving(k)' : Waits(k, s)'
  <2> TAKE s \in Serving(k)'
  <2>1. Waits(k, s) /\ req'[s] = req[s]
    BY <1>4 DEF Patient
  <2>2. \A i \in AudiencesOf(k) :
          Second - audiences[i].time >= Minute => Second' - audiences[i].time >= Minute
    BY <1>3, <1>5
  <2> QED
    BY <1>2, <2>1, <2>2 DEF Waits
<1> QED
  BY <1>2, <1>4, <1>6, PatientStays

\* Every step keeps every key that is not crowded patient.
LEMMA PatienceNext ==
  PatienceInv /\ [CourtNext]_courtVars => PatienceInv'
<1> SUFFICES ASSUME PatienceInv, [CourtNext]_courtVars,
                    NEW k \in Keys, k \notin crowded'
             PROVE  Patient(k)'
  BY CourtShapeNext DEF PatienceInv
<1>1. CourtShape
  BY DEF PatienceInv
<1>2. crowded \subseteq crowded'
  <2>1. ASSUME NEW r \in Requests, Audience(r) PROVE crowded \subseteq crowded'
    BY <2>1 DEF Audience
  <2>2. ASSUME NEW r \in Requests, RateLimit(r) PROVE crowded \subseteq crowded'
    BY <2>2 DEF RateLimit
  <2> QED
    BY <2>1, <2>2 DEF CourtNext, BuildProfile, Respond, ResolveNickname,
         Stamp, RecordAudience, Patrol, GrantHonour, SetNickname,
         ClockTick, Crash, courtVars
<1>3. Patient(k)
  BY <1>2 DEF PatienceInv
<1>4. ASSUME NEW r \in Requests, Audience(r) PROVE Patient(k)'
  BY <1>1, <1>3, <1>4, AudienceKeepsPatience
<1>5. ASSUME NEW r \in Requests, RateLimit(r) PROVE Patient(k)'
  BY <1>1, <1>3, <1>5, RateLimitKeepsPatience
<1>6. ASSUME NEW r \in Requests,
             BuildProfile(r) \/ Respond(r) \/ ResolveNickname(r)
      PROVE  Patient(k)'
  BY <1>1, <1>3, <1>6, ConversationKeepsPatience
<1>7. ASSUME NEW r \in Requests, Stamp(r) PROVE Patient(k)'
  BY <1>1, <1>3, <1>7, StampKeepsPatience
<1>8. ASSUME NEW r \in Requests, RecordAudience(r) PROVE Patient(k)'
  BY <1>1, <1>3, <1>8, RecordKeepsPatience
<1>9. CASE \/ Patrol
           \/ \E c \in Keys, rank \in {"knight", "minister"}, name \in Names,
                 nickname \in Nicknames \cup {NoName} :
                GrantHonour(c, rank, name, nickname)
           \/ \E c \in Keys, nickname \in Nicknames : SetNickname(c, nickname)
           \/ ClockTick \/ Crash \/ UNCHANGED courtVars
  BY <1>1, <1>3, <1>9, OthersKeepPatience
<1> QED
  BY <1>4, <1>5, <1>6, <1>7, <1>8, <1>9 DEF CourtNext

\* Nobody has had an audience when it starts.
LEMMA PatienceInit == CourtInit => PatienceInv
<1> SUFFICES ASSUME CourtInit, NEW k \in Keys PROVE Patient(k)
  BY CourtShapeInit DEF PatienceInv
<1>1. AudiencesOf(k) = {} /\ Serving(k) = {}
  BY DEF CourtInit, AudiencesOf, Serving
<1> QED
  BY <1>1 DEF Patient, Spaced

\* Every variable of the court has its type.
THEOREM CourtTypeCorrect ==
  CourtSpec => []CourtTypeOK
<1>1. CourtInit => CourtShape
  BY CourtShapeInit
<1>2. CourtShape /\ [CourtNext]_courtVars
        => (CourtShape)'
  BY CourtShapeNext
<1>3. CourtShape => CourtTypeOK
  BY DEF CourtShape
<1> QED
  BY <1>1, <1>2, <1>3, PTL DEF CourtSpec

\* The limit of the audience handler (main.go) keeps any two audiences of a key
\* whose requests never overlap, and whose last one can be read, a minute apart
\* by the times on record: whatever other keys do, what is not recorded, how
\* often the process dies.
THEOREM WhoWaitsIsSpaced ==
  CourtSpec => []PatientAreSpaced
<1>1. CourtInit => PatienceInv
  BY PatienceInit
<1>2. PatienceInv /\ [CourtNext]_courtVars
        => (PatienceInv)'
  BY PatienceNext
<1>3. PatienceInv => PatientAreSpaced
  BY DEF PatienceInv, Patient, Spaced, PatientAreSpaced, AudiencesOf
<1> QED
  BY <1>1, <1>2, <1>3, PTL DEF CourtSpec

-----------------------------------------------------------------------------
(***************************************************************************)
(* Nobody sets the uptime of a profile, and 80 is all the rest can score.  *)
(***************************************************************************)
Unmoved(tone) == tone \in {"roast", "polite"}

Flat ==
  /\ merits # Nothing => merits.rank = "subject"
  /\ \A i \in DOMAIN audiences : Unmoved(audiences[i].tone)
  /\ \A r \in Requests : req[r] # Nothing /\ req[r].at = "record" =>
       Unmoved(req[r].audience.tone)

\* No profile the handler builds scores for a rank or a commendation, or so
\* low that it is received coolly.
LEMMA FlatScore ==
  ASSUME NEW p \in Profiles
  PROVE  /\ BehaviourScore(p) \in 30..80 /\ Unmoved(Tone(p))
         /\ ShouldHonour(p) = "subject"
<1>1. p.uptime = 0 /\ p.sharing \in BOOLEAN /\ p.earned \in Nat /\ p.builds \in Nat /\ p.rude \in BOOLEAN
  BY DEF Profiles
<1>2. BehaviourScore(p) \in 30..80
  BY <1>1 DEF BehaviourScore, ClampTo100
<1>3. Unmoved(Tone(p))
  BY <1>1, <1>2 DEF Tone, Unmoved
<1>4. ~ Knightly(p) /\ ~ Ministerial(p)
  BY <1>1, <1>2 DEF Knightly, Ministerial
<1> QED
  BY <1>2, <1>3, <1>4 DEF ShouldHonour

\* Every step keeps the King unmoved.
LEMMA FlatNext ==
  ASSUME CourtShape, Flat, [CourtNext]_courtVars
  PROVE  Flat'
<1>0. /\ req \in [Requests -> Pending \cup {Nothing}] /\ audiences \in Seq(Rows)
      /\ Nothing \notin Pending
  BY NothingAssumption DEF CourtShape, CourtTypeOK
<1> DEFINE Same == UNCHANGED <<audiences, merits>>
<1>a. ASSUME NEW a \in Rows, Unmoved(a.tone), audiences' = Append(audiences, a)
      PROVE  \A i \in DOMAIN audiences' : Unmoved(audiences'[i].tone)
  <2>1. \A i \in DOMAIN audiences' :
          audiences'[i] = a \/ (i \in DOMAIN audiences /\ audiences'[i] = audiences[i])
    BY <1>0, <1>a
  <2> QED
    BY <1>a, <2>1 DEF Flat
<1>b. ASSUME Same, NEW r \in Requests, NEW job, Moves(r, job),
             job # Nothing /\ job.at = "record" => Unmoved(job.audience.tone)
      PROVE  Flat'
  BY <1>0, <1>b DEF Flat, Moves
<1>1. ASSUME NEW r \in Requests, Audience(r) PROVE Flat'
  <2>1. PICK job \in Asking : Moves(r, job) /\ Same
    BY <1>1, AudienceEffect
  <2>2. job.at # "record"
    BY DEF Asking
  <2> QED
    BY <1>b, <2>1, <2>2
<1>2. ASSUME NEW r \in Requests, RateLimit(r) PROVE Flat'
  <2>1. PICK job \in Asking \cup {Nothing} : Moves(r, job) /\ Same
    BY <1>2, RateLimitEffect
  <2>2. job # Nothing => job.at # "record"
    BY DEF Asking
  <2> QED
    BY <1>b, <2>1, <2>2
<1>3. ASSUME NEW r \in Requests,
             BuildProfile(r) \/ Respond(r) \/ ResolveNickname(r)
      PROVE  Flat'
  <2>1. PICK job : Moves(r, job) /\ (job # Nothing => job.at # "record") /\ Same
    BY <1>3, ConversationEffect
  <2> QED
    BY <1>b, <2>1
<1>4. ASSUME NEW r \in Requests, Stamp(r) PROVE Flat'
  <2>1. PICK job \in Stamped :
          /\ Moves(r, job) /\ Same
          /\ job.audience.tone = Tone(job.profile) /\ job.profile \in Profiles
    BY <1>4, StampEffect
  <2>2. Unmoved(job.audience.tone)
    BY <2>1, FlatScore
  <2> QED
    BY <1>b, <2>1, <2>2
<1>5. ASSUME NEW r \in Requests, RecordAudience(r) PROVE Flat'
  <2>1. /\ req[r] # Nothing /\ req[r].at = "record" /\ req[r] \in Stamped
        /\ req[r].audience \in Rows /\ Moves(r, Nothing)
        /\ audiences' \in {audiences, Append(audiences, req[r].audience)}
        /\ merits' \in {merits, [profile |-> req[r].profile,
                                 rank |-> ShouldHonour(req[r].profile)]}
    BY <1>5, RecordEffect
  <2>2. Unmoved(req[r].audience.tone)
    BY <2>1 DEF Flat
  <2>3. \A i \in DOMAIN audiences' : Unmoved(audiences'[i].tone)
    BY <1>a, <2>1, <2>2 DEF Flat
  <2>4. merits' # Nothing => merits'.rank = "subject"
    <3>1. ShouldHonour(req[r].profile) = "subject"
      BY <2>1, FlatScore DEF Stamped
    <3> QED
      BY <2>1, <3>1 DEF Flat
  <2>5. \A s \in Requests : req'[s] # Nothing => req'[s] = req[s]
    BY <1>0, <2>1 DEF Moves
  <2> QED
    BY <2>3, <2>4, <2>5 DEF Flat
<1>6. CASE Patrol
  <2>1. PICK a \in Rows : a.tone = "polite" /\ audiences' = Append(audiences, a)
    BY <1>6, PatrolEffect
  <2>2. \A i \in DOMAIN audiences' : Unmoved(audiences'[i].tone)
    BY <1>a, <2>1 DEF Unmoved
  <2> QED
    BY <1>6, <2>2, PatrolEffect DEF Flat
<1>7. CASE Same /\ (req' = req \/ req' = [r \in Requests |-> Nothing])
  BY <1>7 DEF Flat
<1>8. CASE \E k \in Keys, rank \in {"knight", "minister"}, name \in Names,
              nickname \in Nicknames \cup {NoName} :
             GrantHonour(k, rank, name, nickname)
  BY <1>7, <1>8 DEF GrantHonour
<1>9. CASE \E k \in Keys, nickname \in Nicknames : SetNickname(k, nickname)
  BY <1>7, <1>9 DEF SetNickname
<1>10. CASE ClockTick \/ Crash \/ UNCHANGED courtVars
  BY <1>7, <1>10 DEF ClockTick, Crash, courtVars
<1> QED
  BY <1>1, <1>2, <1>3, <1>4, <1>5, <1>6, <1>8, <1>9, <1>10 DEF CourtNext

\* The thresholds of the score and the ranks (king.go) leave the King no
\* subject to honour or to commend: nobody sets the uptime they ask for.
THEOREM NobodyIsCommended ==
  CourtSpec
    => [](/\ merits # Nothing => merits.rank = "subject"
          /\ \A i \in DOMAIN audiences : audiences[i].tone \in {"roast", "polite"})
<1>1. CourtInit => CourtShape /\ Flat
  <2> SUFFICES ASSUME CourtInit PROVE CourtShape /\ Flat
    OBVIOUS
  <2>1. CourtShape
    BY CourtShapeInit
  <2>2. merits = Nothing /\ audiences = << >> /\ req = [r \in Requests |-> Nothing]
    BY DEF CourtInit
  <2> QED
    BY <2>1, <2>2 DEF Flat
<1>2. CourtShape /\ Flat /\ [CourtNext]_courtVars
        => (CourtShape /\ Flat)'
  BY CourtShapeNext, FlatNext
<1>3. Flat => /\ merits # Nothing => merits.rank = "subject"
              /\ \A i \in DOMAIN audiences : audiences[i].tone \in {"roast", "polite"}
  BY DEF Flat, Unmoved
<1> QED
  BY <1>1, <1>2, <1>3, PTL DEF CourtSpec
=============================================================================
