CONSTANTS
  Keys <- ThreeKeys
  Values = {"v"}
  Hash <- MCHash
  MinCapacity = 4
  InitialSizes = {3}
  MaxCapacity = 4
  Unused = Unused
  MaxSkip = 2
  NoSkip = NoSkip
  MaxMissed = 1
SPECIFICATION ItSpec
INVARIANTS
  ItTypeOK
  EveryEntryOnce
  ProbesEndDespiteMisses
  ExpansionNeverNests
