CONSTANTS
  TUN_QUEUES = 24
  Unset = Unset
SPECIFICATION Spec
INVARIANTS
  TypeOK
  RunsWithAllQueues
  AllOrNothing
