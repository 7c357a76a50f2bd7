---------------------------- MODULE MCObolChain ----------------------------
(* Small instances of the signed chain and of its audit.                   *)
EXTENDS ChainAudit, TLC

CONSTANTS hqConf, hqEph1, hqEph2,       \* signing keys
          k1, k2,                       \* the words of the public keys
          earn, job, retry, noon, late  \* words of the other columns

MCWords == {k1, k2, earn, job, retry, noon, late}
MCPubKeys == {<<k1>>, <<k2>>}

\* One note, whose reason holds a '|' and is two words: the events differ in
\* key, amount and number.
MCNotes == [type : {<<earn>>}, reason : {<<job, retry>>}, time : {<<noon>>}]
MCOverwriteTexts == {<<job>>, <<job, retry>>, <<late>>}

\* Deltas reach every outcome of an append: a credit, a debit that may be
\* refused, and a credit that overflows once the balance is high enough.
MCDeltas == {-2, 1, 3}

\* HQ starts with a configured key and keeps it, or with an ephemeral one
\* that the next start replaces.
MCHQKeys == {hqConf, hqEph1, hqEph2}
MCConfigured == {hqConf}

MCSymmetry == Permutations({k1, k2})
                \cup Permutations({hqEph1, hqEph2})
                \cup Permutations(CounterSigs)
=============================================================================
