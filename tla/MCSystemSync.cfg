CONSTANTS
  Cpus = {c1, c2}
  CounterModulus = 2
  FramebufferAvailable = TRUE
SPECIFICATION FairSpec
INVARIANTS
  TypeOK
  MutualExclusion
  InterruptsMasked
PROPERTIES
  ImplementsAtomicObject
  FlagsRestored
  LockTaken
