CONSTANTS
  QueueSize = 2
  CounterModulus = 2
  Width = 2
  Height = 1
  Scancodes = {}
  MouseBytes = {1, 8, 248, 255}
  Screens = {"launcher", "studio"}
SPECIFICATION Spec
INVARIANT BackgroundRestored
CHECK_DEADLOCK FALSE
