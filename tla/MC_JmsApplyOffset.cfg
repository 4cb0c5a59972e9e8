CONSTANTS
  MaxCalls = 3
  Timeouts <- TimeoutsBoth
SPECIFICATION Spec
\* The client stops after MaxCalls calls.
CHECK_DEADLOCK FALSE
INVARIANTS
  ReplyForThisRequest
  QueuesLeakOnlyOnCMSException
PROPERTIES
  CallWithTimeoutReturns
