SPECIFICATION Spec
CONSTANTS
  hqConf = hqConf
  hqEph1 = hqEph1
  hqEph2 = hqEph2
  k1 = k1
  k2 = k2
  earn = earn
  job = job
  retry = retry
  noon = noon
  late = late
  Words <- MCWords
  PubKeys <- MCPubKeys
  Deltas <- MCDeltas
  Notes <- MCNotes
  CounterSigs = {cs1}
  NoCounterSig = NoCounterSig
  HQKeys <- MCHQKeys
  Configured <- MCConfigured
  MaxInt = 3
  MaxEvents = 4
  ChainLimit = 2
  OverwriteTexts <- MCOverwriteTexts
SYMMETRY MCSymmetry
INVARIANTS
  ChainVerifies
  OnlySignaturesDependOnKey
  ReceiptsOnChain
  BalancesSound
  TamperEvident
  WalkFindsFirstBadRow
  DownloadVerifies
PROPERTY AppendOnly
