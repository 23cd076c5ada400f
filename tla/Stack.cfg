CONSTANTS
  Frames <- AllFrames
  Sends <- MCSends
  Addresses <- MCAddresses
  Macs <- MCMacs
  src_ip <- Us
  src_mac <- MCSrcMac
  NULL = NULL
  None = None
SPECIFICATION Spec
INVARIANTS
  TypeOK
  RepliesAreIntact
  EchoAnswersRequest
  SentAsAsked
  AtMostOneAnswer
  SumsAgree
