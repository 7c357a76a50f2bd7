------------------------------ MODULE MCChainTx ------------------------------
(* Two handlers appending to the chain at once.                             *)
EXTENDS ChainTx, TLC

CONSTANTS k1, k2    \* the words of the public keys

MCPubKeys == {<<k1>>, <<k2>>}
MCWords == {k1, k2} \cup 1..MaxEvents

\* A credit, and a debit that an empty balance refuses.
MCDeltas == {-1, 2}
=============================================================================
