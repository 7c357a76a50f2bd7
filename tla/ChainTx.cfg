SPECIFICATION Spec
CONSTANTS
  k1 = k1
  k2 = k2
  Words <- MCWords
  PubKeys <- MCPubKeys
  Deltas <- MCDeltas
  CounterSigs = {cs1}
  NoCounterSig = NoCounterSig
  HQKeys = {hq1, hq2}
  Configured = {}
  MaxInt = 3
  MaxEvents = 3
  Callers = {c1, c2}
  None = None
INVARIANTS
  RepliesTruthful
PROPERTIES
  ImplementsObolChain
  EveryCallReturns
