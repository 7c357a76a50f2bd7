----------------------------- MODULE BuildQueue -----------------------------
(***************************************************************************)
(* What the build queue promises of each build, whoever asks for what in   *)
(* which order: it is queued once, taken at most once, over for good, and  *)
(* paid for only when it is over.  Ending a build needs no taker, and pay  *)
(* may come more than once: the code promises no more.  A build whose end  *)
(* the store failed to write may be paid all the same.                     *)
(***************************************************************************)
EXTENDS Integers

CONSTANTS Builds, Takers, Nobody

VARIABLES
  stage,       \* of each build: none, queued, assigned, over
  taker,       \* the factory that took it
  unwritten,   \* builds whose end could not be written
  pay          \* obols paid for it

vars == <<stage, taker, unwritten, pay>>

Init == /\ stage = [b \in Builds |-> "none"]
        /\ taker = [b \in Builds |-> Nobody]
        /\ unwritten = {}
        /\ pay = [b \in Builds |-> 0]

Enqueue(b) == /\ stage[b] = "none"
              /\ stage' = [stage EXCEPT ![b] = "queued"]
              /\ UNCHANGED <<taker, unwritten, pay>>

Take(b, f) == /\ stage[b] = "queued"
              /\ stage' = [stage EXCEPT ![b] = "assigned"]
              /\ taker' = [taker EXCEPT ![b] = f]
              /\ UNCHANGED <<unwritten, pay>>

End(b) == /\ stage[b] \in {"queued", "assigned"}
          /\ stage' = [stage EXCEPT ![b] = "over"]
          /\ UNCHANGED <<taker, unwritten, pay>>

FailToEnd(b) == /\ stage[b] # "none"
                /\ unwritten' = unwritten \cup {b}
                /\ UNCHANGED <<stage, taker, pay>>

Pay(b) == /\ stage[b] = "over" \/ b \in unwritten
          /\ pay'[b] > pay[b] /\ pay' = [pay EXCEPT ![b] = pay'[b]]
          /\ UNCHANGED <<stage, taker, unwritten>>

Next == \E b \in Builds : \/ Enqueue(b)
                          \/ \E f \in Takers : Take(b, f)
                          \/ End(b) \/ FailToEnd(b) \/ Pay(b)

Spec == Init /\ [][Next]_vars
=============================================================================
