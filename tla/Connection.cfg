\* Pipelined requests of every kind, every reply, the keep-alive limit; a header timeout
\* that is not shorter than the idle timeout.
SPECIFICATION Spec
CONSTANTS
  Kinds <- AllKinds
  Replies <- AllReplies
  MaxRequests = 3
  KeepAliveMax = 2
  MaxRead = 12
  SendBuffer = 2
  IdleTimeout = 3
  HeaderTimeout = 3
  BodyTimeout = 2
  WriteTimeout = 2
  FileShrinks = FALSE
INVARIANTS DispatchedInOrder InputAligned ResponsesWhole ShutWhole AllAnswered TimerKept
PROPERTY NoDispatchAfterClose
