\* The header timeout is shorter than the idle timeout, as it is by default.
SPECIFICATION TimedSpec
CONSTANTS
  Kinds <- PlainKinds
  Replies <- Answers
  MaxRequests = 2
  KeepAliveMax = 3
  MaxRead = 4
  SendBuffer = 2
  IdleTimeout = 2
  HeaderTimeout = 1
  BodyTimeout = 1
  WriteTimeout = 2
  FileShrinks = FALSE
PROPERTY Reaped
