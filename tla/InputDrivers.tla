---------------------------- MODULE InputDrivers ----------------------------
(***************************************************************************)
(* The PS/2 interrupt handlers, drivers/keyboard.c and drivers/mouse.c,    *)
(* feeding the UI event queue.                                             *)
(*                                                                         *)
(* A handler runs with interrupts off and may push several events; the     *)
(* ones it has still to push are in `raising`, and nothing else runs until *)
(* that is empty. The queue is EventFifo, which the ring of events.c       *)
(* implements (EventQueueProofs).                                          *)
(***************************************************************************)
EXTENDS Integers, Sequences

CONSTANTS
  QueueSize,        \* HNM_UI_EVENT_QUEUE_SIZE
  CounterModulus,   \* width of the dropped counter
  Width, Height     \* of the framebuffer

ASSUME DriverAssumption ==
  /\ QueueSize \in Nat \ {0, 1}
  /\ CounterModulus \in Nat \ {0, 1}
  /\ Width \in Nat \ {0}
  /\ Height \in Nat \ {0}

VARIABLES
  pending, dropped,   \* the event queue
  raising,            \* events the running handler has still to push
  shiftPressed,       \* hnm_keyboard_shift_pressed
  packet,             \* hnm_mouse_packet up to hnm_mouse_packet_index
  position,           \* <<hnm_mouse_x, hnm_mouse_y>>
  buttons,            \* left, right and middle button, as the driver has them
  mouseReady,         \* hnm_mouse_ready
  dirty,              \* hnm_mouse_dirty
  edgeLost            \* history: a button event was dropped

keyboardVars == <<shiftPressed>>
mouseVars == <<packet, position, buttons, mouseReady, dirty>>
driverVars == <<pending, dropped, raising, keyboardVars, mouseVars, edgeLost>>

-----------------------------------------------------------------------------
Byte == 0 .. 255

ButtonIds == 1 .. 3     \* left, right, middle: bits 0, 1, 2 of a packet

Types == {"KEY_DOWN", "KEY_CHAR", "MOUSE_MOVE", "MOUSE_BUTTON_DOWN",
          "MOUSE_BUTTON_UP"}

(* code: the scancode of a key or the number of a button; shifted: whether *)
(* hnm_keyboard_apply_shift changed the character of a key.                *)
Event(type, code, shifted) == [type |-> type, code |-> code, shifted |-> shifted]

InputEvents == [type : Types, code : Byte, shifted : BOOLEAN]

INSTANCE EventFifo WITH Events <- InputEvents, Capacity <- QueueSize - 1

Bit(byte, k) == (byte \div 2 ^ k) % 2 = 1

-----------------------------------------------------------------------------
(* keyboard.c *)
ShiftKeys == {42, 54}               \* 0x2A, 0x36
SpecialKeys == {1, 14, 28, 59}      \* ESC, Backspace, Enter, F1

(* The scancodes the keymap maps to a character, and those among them that *)
(* hnm_keyboard_apply_shift maps to another: letters, '-' and '='.         *)
Shiftable == (12 .. 13) \cup (16 .. 25) \cup (30 .. 38) \cup (44 .. 50)
Printable == Shiftable \cup (2 .. 11) \cup {52, 53, 57}

(* Slips of the code, for the mutation runs, precede what they would replace. *)
KeyEventsSwapped(scancode) ==
  IF scancode \in SpecialKeys
    THEN <<Event("KEY_DOWN", scancode, FALSE)>>
    ELSE IF scancode \in Printable
           THEN <<Event("KEY_CHAR", scancode, shiftPressed),
                  Event("KEY_DOWN", scancode, shiftPressed)>>
           ELSE <<>>

KeyEvents(scancode) ==
  LET shifted == shiftPressed /\ scancode \in Shiftable
  IN  IF scancode \in SpecialKeys
        THEN <<Event("KEY_DOWN", scancode, FALSE)>>
        ELSE IF scancode \in Printable
               THEN <<Event("KEY_DOWN", scancode, shifted),
                      Event("KEY_CHAR", scancode, shifted)>>
               ELSE <<>>

(* hnm_keyboard_irq_handler on a byte of the controller; bit 7 is release. *)
KeyboardIrq(byte) ==
  /\ raising = <<>>
  /\ shiftPressed' = IF byte \in ShiftKeys THEN TRUE
                     ELSE IF byte - 128 \in ShiftKeys THEN FALSE
                     ELSE shiftPressed
  /\ raising' = KeyEvents(byte)
  /\ UNCHANGED <<pending, dropped, mouseVars, edgeLost>>

-----------------------------------------------------------------------------
(* mouse.c *)
SignExtend(byte) == IF byte >= 128 THEN byte - 256 ELSE byte

ClampMissing(v, max) == v

Clamp(v, max) == IF v < 0 THEN 0 ELSE IF v > max THEN max ELSE v

Moved(from, dx, dy) ==
  <<Clamp(from[1] + dx, Width - 1), Clamp(from[2] - dy, Height - 1)>>

MoveEvents(dx, dy) ==
  IF dx = 0 /\ dy = 0 THEN <<>> ELSE <<Event("MOUSE_MOVE", 0, FALSE)>>

ButtonEventsDownOnly(old, new) ==
  LET Down(b) == IF new[b] /\ ~old[b] THEN <<Event("MOUSE_BUTTON_DOWN", b, FALSE)>>
                                      ELSE <<>>
  IN  Down(1) \o Down(2) \o Down(3)

ButtonEvent(b, old, new) ==
  IF old[b] = new[b]
    THEN <<>>
    ELSE <<Event(IF new[b] THEN "MOUSE_BUTTON_DOWN" ELSE "MOUSE_BUTTON_UP", b, FALSE)>>

(* hnm_mouse_push_button_changes *)
ButtonEvents(old, new) ==
  ButtonEvent(1, old, new) \o ButtonEvent(2, old, new) \o ButtonEvent(3, old, new)

Overflow(flags) == Bit(flags, 6) \/ Bit(flags, 7)

(* Fault: the buttons are noted before the packet is looked at. *)
ApplyPacketButtonsFirst(flags, xByte, yByte) ==
  LET dx  == SignExtend(xByte)
      dy  == SignExtend(yByte)
      new == [b \in ButtonIds |-> Bit(flags, b - 1)]
  IN  /\ buttons' = new
      /\ IF Overflow(flags)
           THEN UNCHANGED <<position, dirty, raising>>
           ELSE /\ position' = Moved(position, dx, dy)
                /\ raising' = MoveEvents(dx, dy) \o ButtonEvents(buttons, new)
                /\ dirty' = TRUE

(* hnm_mouse_apply_packet *)
ApplyPacket(flags, xByte, yByte) ==
  LET dx  == SignExtend(xByte)
      dy  == SignExtend(yByte)
      new == [b \in ButtonIds |-> Bit(flags, b - 1)]
  IN  IF Overflow(flags)
        THEN UNCHANGED <<position, buttons, dirty, raising>>
        ELSE /\ position' = Moved(position, dx, dy)
             /\ buttons' = new
             /\ raising' = MoveEvents(dx, dy) \o ButtonEvents(buttons, new)
             /\ dirty' = TRUE

(* hnm_mouse_handle_byte: a packet starts with a byte that has bit 3 set.  *)
HandleByte(byte) ==
  IF packet = <<>> /\ ~Bit(byte, 3)
    THEN UNCHANGED <<packet, position, buttons, dirty, raising>>
    ELSE IF Len(packet) < 2
           THEN /\ packet' = Append(packet, byte)
                /\ UNCHANGED <<position, buttons, dirty, raising>>
           ELSE /\ packet' = <<>>
                /\ ApplyPacket(packet[1], packet[2], byte)

(* hnm_mouse_irq_handler: the byte is read, and used if the mouse is ready. *)
MouseIrq(byte) ==
  /\ raising = <<>>
  /\ IF mouseReady
       THEN HandleByte(byte)
       ELSE UNCHANGED <<packet, position, buttons, dirty, raising>>
  /\ UNCHANGED <<pending, dropped, keyboardVars, mouseReady, edgeLost>>

-----------------------------------------------------------------------------
IsEdge(event) == event.type \in {"MOUSE_BUTTON_DOWN", "MOUSE_BUTTON_UP"}

IsEdgeOf(event, b) == IsEdge(event) /\ event.code = b

(* The running handler calls hnm_ui_event_push. *)
RaiseNext ==
  /\ raising # <<>>
  /\ Push(Head(raising))
  /\ raising' = Tail(raising)
  /\ edgeLost' = (edgeLost \/ (IsFull /\ IsEdge(Head(raising))))
  /\ UNCHANGED <<keyboardVars, mouseVars>>

(* hnm_keyboard_init and hnm_mouse_init; the PS/2 handshake may fail.       *)
DriversInit ==
  /\ FifoInit
  /\ raising = <<>>
  /\ shiftPressed = FALSE
  /\ packet = <<>>
  /\ position = <<Width \div 2, Height \div 2>>
  /\ buttons = [b \in ButtonIds |-> FALSE]
  /\ mouseReady \in BOOLEAN
  /\ dirty = FALSE
  /\ edgeLost = FALSE

DriversTypeOK ==
  /\ pending \in Seq(InputEvents) /\ Len(pending) < QueueSize
  /\ dropped \in 0 .. (CounterModulus - 1)
  /\ raising \in Seq(InputEvents) /\ Len(raising) <= 4
  /\ shiftPressed \in BOOLEAN
  /\ packet \in Seq(Byte) /\ Len(packet) <= 2
  /\ position \in (0 .. (Width - 1)) \X (0 .. (Height - 1))
  /\ buttons \in [ButtonIds -> BOOLEAN]
  /\ mouseReady \in BOOLEAN
  /\ dirty \in BOOLEAN
  /\ edgeLost \in BOOLEAN
=============================================================================
