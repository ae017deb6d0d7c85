SPECIFICATION Spec
CONSTANTS
  Deferred = {d1, d2, d3}
  Capacity = 2
  Masked = {"store"}
  NoEvent = NoEvent
INVARIANT FireNeverStranded
PROPERTY EveryFireAnswered
