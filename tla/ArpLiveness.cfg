CONSTANTS
  Keys <- MCKeys
  Values = {1, 2, 3, 4, 5}
  Hash <- MCHash
  MinCapacity = 4
  InitialSizes = {3}
  MaxCapacity = 0
  Unused = Unused
  Threads = {t1, t2}
  Frames <- HeardOnce
  Word = {0, 1, 2, 3, 4}
  ZeroWord = 0
  NULL = NULL
  NoFrame = NoFrame
  NoThread = NoThread
SPECIFICATION ArpFairSpec
PROPERTY FramesAreHandled
