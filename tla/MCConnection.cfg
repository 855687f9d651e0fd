SPECIFICATION ConnSpec
CONSTANTS
  Headers <- MCHeaders
  Bodies <- MCBodies
  Layout <- MCLayout
  AllowLists <- MCAllowLists
  PeekSize = 16
  GarbledLengths = {1, 40}
INVARIANTS
  ConnTypeOK
  MessagesAreFrames
  StrippingNeverWaits

  
CHECK_DEADLOCK FALSE
