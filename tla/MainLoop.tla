------------------------------ MODULE MainLoop ------------------------------
(***************************************************************************)
(* The loop of hnm_kernel_main with the interrupt handlers it runs against.*)
(*                                                                         *)
(* One iteration runs with interrupts off: hide the cursor, hand every     *)
(* queued event to the current screen, poll the mouse, poll the AI         *)
(* provider, show the cursor. Interrupts are on only from `sti; hlt` to    *)
(* the `cli` of the next iteration. What the event handler of a screen     *)
(* does beyond redrawing is left open: it may change the screen, start or  *)
(* end an AI request, or halt the kernel.                                  *)
(***************************************************************************)
EXTENDS InputDrivers

CONSTANTS
  Scancodes,    \* bytes the keyboard may send
  MouseBytes,   \* bytes the mouse may send
  Screens       \* screens the user visits: "studio" stands for SCREEN_AI_STUDIO

ASSUME LoopAssumption ==
  /\ Scancodes \subseteq Byte
  /\ MouseBytes \subseteq Byte
  /\ "launcher" \in Screens /\ Screens \subseteq {"launcher", "studio"}

VARIABLES
  pc,          \* the next step of the loop
  display,     \* the framebuffer and the state of cursor.c
  screen,      \* hnm_router_current_screen
  aiRunning,   \* the last AI task is RUNNING on the serial provider
  aiBytes,     \* the serial ring holds received bytes
  handled,     \* history: the events handled, the last one
  seen         \* history: the buttons, as the events handled tell them

loopVars == <<pc, display, screen, aiRunning, aiBytes, handled, seen>>
vars == <<driverVars, loopVars>>

Cells == (0 .. (Width - 1)) \X (0 .. (Height - 1))

INSTANCE CursorDisplay WITH StatusCell <- <<Width - 1, 0>>

NoEvent == Event("NONE", 0, FALSE)

-----------------------------------------------------------------------------
(* main.c:99-106: mouse_init shows the cursor, the router draws a screen.  *)
Init ==
  /\ DriversInit
  /\ pc = "hide"
  /\ LET booted == IF mouseReady THEN CursorInit(Blank(position), position)
                                 ELSE Blank(position)
     IN  display = Shown(Painted(Hidden(booted), [c \in Cells |-> 0]))
  /\ screen = "launcher"
  /\ aiRunning = FALSE
  /\ aiBytes = FALSE
  /\ handled = NoEvent
  /\ seen = buttons

-----------------------------------------------------------------------------
(* An interrupt is taken after `sti` only, and ends the `hlt`. *)
Interrupted ==
  /\ pc \in {"halt", "woken"}
  /\ pc' = "woken"

KeyboardInterrupt ==
  /\ Interrupted
  /\ \E byte \in Scancodes : KeyboardIrq(byte)
  /\ UNCHANGED <<display, screen, aiRunning, aiBytes, handled, seen>>

MouseInterrupt ==
  /\ Interrupted
  /\ \E byte \in MouseBytes : MouseIrq(byte)
  /\ UNCHANGED <<display, screen, aiRunning, aiBytes, handled, seen>>

(* hnm_ai_serial_irq_handler *)
SerialInterrupt ==
  /\ Interrupted
  /\ raising = <<>>
  /\ aiBytes' = TRUE
  /\ UNCHANGED <<driverVars, display, screen, aiRunning, handled, seen>>

HandlerPush ==
  /\ RaiseNext
  /\ UNCHANGED loopVars

-----------------------------------------------------------------------------
(* The loop goes on when no handler is running. *)
Goes(from, to) ==
  /\ pc = from
  /\ raising = <<>>
  /\ pc' = to

(* hnm_interrupts_disable *)
Cli ==
  /\ Goes("woken", "hide")
  /\ UNCHANGED <<driverVars, display, screen, aiRunning, aiBytes, handled, seen>>

HideCursor ==
  /\ Goes("hide", "dispatch")
  /\ display' = Hidden(display)
  /\ UNCHANGED <<driverVars, screen, aiRunning, aiBytes, handled, seen>>

SeenAfter(was, event) ==
  IF IsEdge(event)
    THEN [was EXCEPT ![event.code] = (event.type = "MOUSE_BUTTON_DOWN")]
    ELSE was

(* One event of hnm_input_dispatcher_dispatch. Only the studio submits to  *)
(* the serial provider; a terminal command may end a request. The launcher *)
(* may halt the kernel, not on a mere move.                                *)
Dispatch ==
  /\ Poll
  /\ \/ Goes("dispatch", "dispatch")
     \/ screen = "launcher" /\ Head(pending).type # "MOUSE_MOVE"
        /\ Goes("dispatch", "stopped")
  /\ handled' = Head(pending)
  /\ seen' = SeenAfter(seen, Head(pending))
  /\ \E drawing \in Drawings : display' = Painted(display, drawing)
  /\ screen' \in Screens
  /\ aiRunning' \in {aiRunning, FALSE, screen = "studio"}
  /\ UNCHANGED <<raising, keyboardVars, mouseVars, edgeLost, aiBytes>>

(* Slips of the code, for the mutation runs, precede what they would replace. *)
DispatchOnePerPass ==
  /\ Goes("dispatch", "mouse")
  /\ UNCHANGED <<driverVars, display, screen, aiRunning, aiBytes, handled, seen>>

DispatchDone ==
  /\ pending = <<>>
  /\ Goes("dispatch", "mouse")
  /\ UNCHANGED <<driverVars, display, screen, aiRunning, aiBytes, handled, seen>>

(* hnm_mouse_poll *)
MousePoll ==
  /\ Goes("mouse", "ai")
  /\ IF mouseReady /\ dirty
       THEN display' = CursorMoved(display, position) /\ dirty' = FALSE
       ELSE UNCHANGED <<display, dirty>>
  /\ UNCHANGED <<pending, dropped, raising, keyboardVars, packet, position,
                 buttons, mouseReady, edgeLost>>
  /\ UNCHANGED <<screen, aiRunning, aiBytes, handled, seen>>

AiPollOnStudioOnly ==
  /\ Goes("ai", "show")
  /\ \/ aiRunning /\ screen = "studio" /\ aiBytes' = FALSE /\ aiRunning' \in BOOLEAN
     \/ ~(aiRunning /\ screen = "studio") /\ UNCHANGED <<aiRunning, aiBytes>>
  /\ UNCHANGED <<driverVars, display, screen, handled, seen>>

(* hnm_ai_bridge_poll: it reads the ring until a line answers the request. *)
AiPoll ==
  /\ Goes("ai", "show")
  /\ \/ aiRunning /\ aiRunning' = FALSE /\ aiBytes' \in BOOLEAN   \* answered
        /\ IF screen = "studio"
             THEN \E drawing \in Drawings : display' = Painted(display, drawing)
             ELSE UNCHANGED display
     \/ aiRunning /\ aiBytes' = FALSE /\ UNCHANGED <<aiRunning, display>>
     \/ ~aiRunning /\ UNCHANGED <<aiRunning, aiBytes, display>>
  /\ UNCHANGED <<driverVars, screen, handled, seen>>

(* hnm_cursor_show_current, hnm_scheduler_yield, sti; hlt *)
Show ==
  /\ Goes("show", "halt")
  /\ display' = Shown(display)
  /\ UNCHANGED <<driverVars, screen, aiRunning, aiBytes, handled, seen>>

Interrupt == KeyboardInterrupt \/ MouseInterrupt \/ SerialInterrupt

LoopStep ==
  HideCursor \/ Dispatch \/ DispatchDone \/ MousePoll \/ AiPoll \/ Show

Next == Interrupt \/ HandlerPush \/ Cli \/ LoopStep

Spec == Init /\ [][Next]_vars

(* Code runs at its own pace. The loop gets past an interrupt storm because *)
(* devices are slower than the two instructions from `hlt` to `cli`.        *)
FairSpec ==
  Spec /\ WF_vars(LoopStep) /\ WF_vars(HandlerPush) /\ SF_vars(Cli)

-----------------------------------------------------------------------------
TypeOK ==
  /\ DriversTypeOK
  /\ pc \in {"hide", "dispatch", "mouse", "ai", "show", "halt", "woken", "stopped"}
  /\ display \in Displays
  /\ screen \in Screens
  /\ aiRunning \in BOOLEAN
  /\ aiBytes \in BOOLEAN
  /\ handled \in InputEvents \cup {NoEvent}
  /\ seen \in [ButtonIds -> BOOLEAN]

(* The kernel does not sleep on work: when it halts, no event is queued, no *)
(* mouse movement is undrawn and no byte of an awaited reply is unread.     *)
(* Nothing but another interrupt would wake it (main.c:122).                *)
SleepsOnlyWhenDrained ==
  pc = "halt" =>
    pending = <<>> /\ raising = <<>> /\ ~dirty /\ ~(aiRunning /\ aiBytes)

(* The last of the events about button b says that it is pressed if `now`;  *)
(* without one it has stayed as it was.                                    *)
Turns(events, b, was, now) ==
  LET edges == {i \in 1 .. Len(events) : IsEdgeOf(events[i], b)}
  IN  IF edges = {}
        THEN was = now
        ELSE \E last \in edges :
               /\ \A i \in edges : i <= last
               /\ now = (events[last].type = "MOUSE_BUTTON_DOWN")

(* While no button event has been dropped, the events a screen has handled *)
(* and those still on their way add up to the buttons the driver has: a    *)
(* screen never keeps a button pressed that the user has released.         *)
ButtonsAddUp ==
  ~edgeLost =>
    \A b \in ButtonIds : Turns(pending \o raising, b, seen[b], buttons[b])

(* The arrow is on the screen nowhere but where the cursor is shown.       *)
NoGhostArrow ==
  \A c \in Cells :
    display.cells[c] = Arrow => display.visible /\ display.at = c

(* When the kernel sleeps, a working mouse has its cursor at its position. *)
CursorFollowsMouse ==
  pc = "halt" /\ mouseReady => display.visible /\ display.at = position

(* Saving and restoring the area beneath the cursor keeps what was drawn   *)
(* there: with the cursor hidden, the screen is what was last drawn.       *)
BackgroundRestored == ~display.visible => display.cells = display.drawn

(* A screen is handed a KEY_CHAR right after the KEY_DOWN of the same key: *)
(* no event comes between them, and a dropped KEY_DOWN takes its KEY_CHAR  *)
(* along.                                                                  *)
CharFollowsDown ==
  [][ Len(pending') < Len(pending) /\ Head(pending).type = "KEY_CHAR" =>
        handled = [Head(pending) EXCEPT !.type = "KEY_DOWN"] ]_vars

(* Every queued event reaches a screen, unless a screen halts the kernel.  *)
EventsDispatched == pending # <<>> ~> (pending = <<>> \/ pc = "stopped")

(* The bytes received for a running request are read, or the request ends. *)
ReplyRead == aiRunning /\ aiBytes ~> (~(aiRunning /\ aiBytes) \/ pc = "stopped")
=============================================================================
