CONSTANTS
  Events = {e1, e2}
  QueueSize = 4
  CounterModulus = 5
SPECIFICATION Spec
INVARIANTS
  TypeOK
  StampsConsecutive
PROPERTY
  ImplementsFifo
