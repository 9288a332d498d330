\* The read buffer's limit is reached while a response is on its way.
SPECIFICATION Spec
CONSTANTS
  Kinds <- AllKinds
  Replies <- AllReplies
  MaxRequests = 2
  KeepAliveMax = 2
  MaxRead = 4
  SendBuffer = 2
  IdleTimeout = 3
  HeaderTimeout = 2
  BodyTimeout = 2
  WriteTimeout = 2
  FileShrinks = FALSE
INVARIANT ResponsesWhole
