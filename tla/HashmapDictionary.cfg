CONSTANTS
  Keys <- FiveKeys
  Values = {"u", "v"}
  Hash <- MCHash
  MinCapacity = 4
  InitialSizes = {0, 3, 5}
  MaxCapacity = 16
  Unused = Unused
SPECIFICATION Spec
INVARIANTS
  TypeOK
  CapacityIsPowerOfTwo
  LookupsAgree
  SizeCountsUsed
  ProbesEnd
PROPERTY ImplementsDictionary
