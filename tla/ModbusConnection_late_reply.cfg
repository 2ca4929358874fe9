SPECIFICATION Spec
CONSTANTS
  Functions = {"ReadHoldingRegisters", "WriteSingleRegister"}
  Hosts = {h1}
  MaxRequests = 2
  MaxFailures = 1
  LateReplies = TRUE
INVARIANT AnswerMatchesRequest
