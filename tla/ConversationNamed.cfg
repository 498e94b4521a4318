SPECIFICATION Spec
CONSTANTS
  NamesCalls = {TRUE}
  MaxItems = 5
  MaxParallel = 2
  MaxCalls = 4
INVARIANT ChatRequestsPaired
INVARIANT AnthropicRequestsAnswered
INVARIANT NoOrphanOutputs
INVARIANT RequestsExtend
