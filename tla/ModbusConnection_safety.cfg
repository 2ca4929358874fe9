SPECIFICATION Spec
CONSTANTS
  Functions = {"ReadHoldingRegisters", "WriteSingleRegister"}
  Hosts = {h1, h2}
  MaxRequests = 4
  MaxFailures = 3
  LateReplies = FALSE
INVARIANTS PendingIsTimed SocketIsTracked AnswerMatchesRequest
PROPERTY ComesToRest
