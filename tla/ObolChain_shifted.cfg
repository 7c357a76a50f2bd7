SPECIFICATION Spec
CONSTANTS
  hqConf = hqConf
  hqEph1 = hqEph1
  hqEph2 = hqEph2
  k1 = k1
  k2 = k2
  earn = earn
  job = job
  retry = retry
  noon = noon
  late = late
  Words <- MCWords
  PubKeys <- MCPubKeys
  Deltas <- MCDeltas
  Notes <- MCNotes
  CounterSigs = {cs1}
  NoCounterSig = NoCounterSig
  HQKeys <- MCHQKeys
  Configured <- MCConfigured
  MaxInt = 3
  MaxEvents = 2
  ChainLimit = 2
  OverwriteTexts <- MCOverwriteTexts
INVARIANT TamperingBreaksChain
