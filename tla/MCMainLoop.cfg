\* Keys a and Shift; the mouse moves and presses and releases a
\* button, and every byte of its can start a packet.
CONSTANTS
  QueueSize = 3
  CounterModulus = 2
  Width = 1
  Height = 1
  Scancodes = {30, 42}
  MouseBytes = {8, 9}
  Screens = {"launcher", "studio"}
SPECIFICATION FairSpec
INVARIANTS TypeOK SleepsOnlyWhenDrained ButtonsAddUp
PROPERTIES CharFollowsDown EventsDispatched ReplyRead
CHECK_DEADLOCK FALSE
