------------------------------ MODULE Knowledge ------------------------------
(***************************************************************************)
(* The knowledge store (internal/knowledge/knowledge.go, MemStore) and the *)
(* contribute handler of HQ.  Every method of the store holds its lock     *)
(* from start to end, so a call is one step; a contribution of several     *)
(* entries is saved one entry at a time.                                   *)
(*                                                                         *)
(* The subject of an entry is its topic, category and language together,   *)
(* confidences are in tenths.  How often an entry was used is left out:    *)
(* nothing reads it.  Which of several matching entries a save meets first *)
(* is open: the store ranges over a Go map.                                *)
(***************************************************************************)
EXTENDS Integers, FiniteSets

CONSTANTS
  Ids, Subjects, Factories,
  Confidences,   \* confidences contributed, in tenths
  Counts,        \* numbers of contributors sent with an entry
  Deltas,        \* changes of confidence by use, in tenths
  Thresholds,    \* arguments of Prune, in tenths
  None,          \* no entry
  MaxCalls       \* bound on the number of calls

ASSUME KnowledgeAssumption ==
  /\ Confidences \subseteq Int /\ Counts \subseteq Int
  /\ Thresholds \subseteq Int /\ Deltas \subseteq Int
  /\ MaxCalls \in Nat

VARIABLES
  entries,       \* the map: id -> entry, None for none
  accepted,      \* what was let in: subject, source and confidence
  sent,          \* id -> number of contributors its entry was sent with
  confirmers,    \* id -> its source and the factories merged into it
  revised,       \* subjects with an entry replaced, marked down or pruned
  calls

vars == <<entries, accepted, sent, confirmers, revised, calls>>

-----------------------------------------------------------------------------
Entry == [subject : Subjects, source : Factories, confidence : Int, contributors : Int]

Contribution == [subject : Subjects, source : Factories, confidence : Int]

ASSUME EntriesAssumption == None \notin Entry

Stored == {id \in Ids : entries[id] # None}

Init == /\ entries = [id \in Ids |-> None]
        /\ accepted = {}
        /\ sent = [id \in Ids |-> 0]
        /\ confirmers = [id \in Ids |-> {}]
        /\ revised = {}
        /\ calls = 0

\* A bug: the test on the source is the wrong way round.
SameSource(e) == {id \in Stored : /\ entries[id].subject = e.subject
                                  /\ entries[id].source = e.source}

\* What a save of e finds: an entry on its subject by another factory.
SameSubject(e) == {id \in Stored : /\ entries[id].subject = e.subject
                                   /\ entries[id].source # e.source}

\* A bug: the higher confidence is forgotten.
MergeCounting(id, e) == entries' = [entries EXCEPT ![id].contributors = @ + 1]

\* A bug: a factory that is less sure is not counted.
MergeIfSurer(id, e) ==
  entries' = IF e.confidence > entries[id].confidence
             THEN [entries EXCEPT ![id].contributors = @ + 1,
                                  ![id].confidence = e.confidence]
             ELSE entries

\* The entry that is there counts one more factory and the higher
\* confidence; what was sent is dropped.
Merge(id, e) ==
  entries' = [entries EXCEPT
    ![id].contributors = @ + 1,
    ![id].confidence = IF e.confidence > @ THEN e.confidence ELSE @]

\* An entry goes under its id, whatever was there.
Insert(id, e) ==
  /\ entries' = [entries EXCEPT ![id] = e]
  /\ confirmers' = [confirmers EXCEPT ![id] = {e.source}]
  /\ sent' = [sent EXCEPT ![id] = e.contributors]
  /\ revised' = IF entries[id] = None THEN revised
                                      ELSE revised \cup {entries[id].subject}

\* MemStore.Save of a validated entry.
Save(newId, e) ==
  \/ /\ SameSubject(e) # {}
     /\ \E id \in SameSubject(e) :
          /\ Merge(id, e)
          /\ confirmers' = [confirmers EXCEPT ![id] = @ \cup {e.source}]
     /\ UNCHANGED <<sent, revised>>
  \/ /\ SameSubject(e) = {}
     /\ Insert(newId, e)

\* POST /api/knowledge/contribute.  The factory, the id, the confidence and
\* the number of contributors are what the client says they are; an entry
\* that names none has 0 contributors.
Contribute(id, e) ==
  /\ calls < MaxCalls
  /\ Save(id, e)
  /\ accepted' = accepted \cup
       {[subject |-> e.subject, source |-> e.source, confidence |-> e.confidence]}
  /\ calls' = calls + 1

UpdateConfidence(id, delta) ==
  LET old == entries[id].confidence
      c   == IF old + delta > 10 THEN 10 ELSE IF old + delta < 0 THEN 0 ELSE old + delta
  IN  /\ entries[id] # None
      /\ calls < MaxCalls
      /\ entries' = [entries EXCEPT ![id].confidence = c]
      /\ revised' = IF c < old THEN revised \cup {entries[id].subject} ELSE revised
      /\ calls' = calls + 1
      /\ UNCHANGED <<accepted, sent, confirmers>>

Prune(minConfidence) ==
  LET pruned == {id \in Stored : entries[id].confidence < minConfidence}
  IN  /\ calls < MaxCalls
      /\ entries' = [id \in Ids |-> IF id \in pruned THEN None ELSE entries[id]]
      /\ confirmers' = [id \in Ids |-> IF id \in pruned THEN {} ELSE confirmers[id]]
      /\ revised' = revised \cup {entries[id].subject : id \in pruned}
      /\ calls' = calls + 1
      /\ UNCHANGED <<accepted, sent>>

Next == \/ \E id \in Ids, subject \in Subjects, f \in Factories, c \in Confidences,
              n \in Counts :
             Contribute(id, [subject |-> subject, source |-> f, confidence |-> c,
                             contributors |-> n])
        \/ \E id \in Ids, delta \in Deltas : UpdateConfidence(id, delta)
        \/ \E t \in Thresholds : Prune(t)

Spec == Init /\ [][Next]_vars

-----------------------------------------------------------------------------
\* Every variable has its type.
TypeOK == /\ entries \in [Ids -> Entry \cup {None}]
          /\ accepted \subseteq Contribution
          /\ sent \in [Ids -> Int]
          /\ confirmers \in [Ids -> SUBSET Factories]
          /\ revised \subseteq Subjects
          /\ calls \in Nat

\* All entries on a subject come from one factory: whoever is first to
\* contribute owns it, and what others send is merged into it or dropped.
OneSourcePerSubject ==
  \A i, j \in Stored : entries[i].subject = entries[j].subject
                         => entries[i].source = entries[j].source

Kept(a) == \E s \in Stored : /\ entries[s].subject = a.subject
                             /\ entries[s].confidence >= a.confidence

\* Nothing accepted is lost, whatever it was merged into and in whatever
\* order: some entry stands for every contribution, on its subject and with
\* at least its confidence, until an entry on that subject is replaced by one
\* sent under its id, marked down or pruned.
KeptUntilRevised ==
  \A a \in accepted : a.subject \notin revised => Kept(a)

\* Nobody's confirmation is lost: every factory that contributed on a subject
\* is the source of one of its entries or merged into one, until one on the
\* subject is revised; and an entry always counts the contributors it was
\* sent with and one at least for every other factory merged into it since.
CountsEveryFactory ==
  /\ \A a \in accepted : a.subject \notin revised =>
       \E s \in Stored : entries[s].subject = a.subject /\ a.source \in confirmers[s]
  /\ \A s \in Stored :
       entries[s].contributors >= sent[s] + Cardinality(confirmers[s] \ {entries[s].source})

=============================================================================
