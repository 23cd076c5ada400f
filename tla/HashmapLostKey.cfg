CONSTANTS
  Keys <- ThreeKeys
  Values = {"v"}
  Hash <- MCHashOfThree
  MinCapacity = 4
  InitialSizes = {3}
  MaxCapacity = 4
  Unused = Unused
SPECIFICATION RemovingPresentSpec
INVARIANT EntriesAreFound
