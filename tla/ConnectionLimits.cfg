\* The buffers' limits are reached, every timer expires, the client may fall silent;
\* what the worker does eventually for a silent and for a reading client.
SPECIFICATION RunningSpec
CONSTANTS
  Kinds <- AllKinds
  Replies <- FailingReplies
  MaxRequests = 2
  KeepAliveMax = 3
  MaxRead = 5
  SendBuffer = 2
  IdleTimeout = 2
  HeaderTimeout = 2
  BodyTimeout = 1
  WriteTimeout = 2
  FileShrinks = TRUE
INVARIANTS TypeOK InputAligned
PROPERTIES Reaped Served
