CONSTANTS
  Frames <- HighAddress
  Sends <- NoSends
  Addresses <- MCAddresses
  Macs <- MCMacs
  src_ip <- Us
  src_mac <- MCSrcMac
  NULL = NULL
  None = None
SPECIFICATION Spec
INVARIANT DroppedIsInvalid
