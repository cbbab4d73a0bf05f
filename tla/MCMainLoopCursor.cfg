\* Two places for the cursor. The AI Studio, whose answers break the last
\* property, is not visited.  The mouse bytes 73 and 255 start packets with an
\* overflow bit.
CONSTANTS
  QueueSize = 3
  CounterModulus = 2
  Width = 2
  Height = 1
  Scancodes = {30}
  MouseBytes = {8, 9, 73, 255}
  Screens = {"launcher"}
SPECIFICATION Spec
INVARIANTS ButtonsAddUp NoGhostArrow CursorFollowsMouse BackgroundRestored
CHECK_DEADLOCK FALSE
