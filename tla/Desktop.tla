------------------------------- MODULE Desktop -------------------------------
(***************************************************************************)
(* What the user drives: the screen router, the launcher, the terminal and *)
(* the AI Studio, kernel/interface/router.c, launcher.c, console/          *)
(* terminal.c and AiStudio. The main loop hands each input event to the    *)
(* current screen, then polls the AI bridge; interrupts are off meanwhile. *)
(*                                                                         *)
(* Events reach a screen in order but the queue may have dropped some, so  *)
(* any event may follow any other.                                         *)
(***************************************************************************)
EXTENDS AiStudio, Console

CONSTANTS
  LineCapacity,   \* HNM_TERMINAL_INPUT_MAX
  Outputs         \* how many rows a terminal command may print

(* The prompt and a line fit on the screen. *)
ASSUME DesktopAssumption ==
  /\ LineCapacity \in Nat \ {0}
  /\ PromptLength + LineCapacity < Columns * Rows
  /\ Outputs \subseteq Nat

VARIABLES
  screen,           \* hnm_router_current_screen
  launcherPressed,  \* hnm_launcher_pressed_index
  lineLength,       \* hnm_terminal_input_length
  halted,           \* hnm_kernel_halt or a reboot
  downOn            \* history: the item of the last button-down, on this
                    \* visit to the screen and not followed by a button-up

terminalVars == <<lineLength, console>>
routerVars == <<screen, launcherPressed, terminalVars, halted>>
studioState == <<sessionVars, requestVars, studioVars>>
vars == <<routerVars, studioState, downOn>>

Screens == {"launcher", "terminal", "system", "memory", "studio"}
LauncherItems == (Screens \ {"launcher"}) \cup {"shutdown"}

Event(type, code) == [type |-> type, code |-> code]

Keys  == {"BACKSPACE", "ENTER", "ESCAPE", "F1"}
Chars == {"1", "2", "3", "4", "5", "l", "k", "g", "r", "b", "x", " ", "a"}
Items == LauncherItems \cup StudioButtons \cup {NoItem}

(* What the pointer may be on. *)
ItemsHere ==
  {NoItem} \cup (CASE screen = "launcher" -> LauncherItems
                   [] screen = "studio" -> StudioButtons
                   [] OTHER -> {})

(* Button events are those of the left button; no screen reads the others. *)
Events ==
  [type : {"KEY_DOWN"}, code : Keys] \cup [type : {"KEY_CHAR"}, code : Chars]
    \cup [type : {"MOUSE_MOVE"}, code : {NoItem}]
    \cup [type : {"BUTTON_DOWN", "BUTTON_UP"}, code : ItemsHere]

(* ui_router_init: every screen is initialised, the launcher entered. *)
Init ==
  /\ RequestInit
  /\ StudioInit
  /\ screen = "launcher"
  /\ launcherPressed = NoItem
  /\ lineLength = 0
  /\ console = Cleared
  /\ halted = FALSE
  /\ downOn = NoItem

-----------------------------------------------------------------------------
(* hnm_terminal_show_screen drops the line. *)
ShowTerminal == lineLength' = 0 /\ console' = Heading

(* ui_render_current_screen *)
RenderCurrent ==
  /\ UNCHANGED <<requestVars, sessionVars, promptVars, studioPressed>>
  /\ UNCHANGED <<screen, launcherPressed, halted>>
  /\ IF screen = "terminal" THEN ShowTerminal ELSE UNCHANGED terminalVars
  /\ IF screen = "studio" THEN StudioRenders ELSE UNCHANGED savedVars

(* ui_set_screen, which leaves one screen, enters another and renders it.   *)
(* line, shown: what the caller leaves of the terminal's line and console.  *)
SetScreen(to, line, shown) ==
  IF to = screen THEN RenderCurrent
  ELSE /\ UNCHANGED <<requestVars, halted>>
       /\ screen' = to
       /\ launcherPressed' = IF "launcher" \in {screen, to} THEN NoItem ELSE launcherPressed
       /\ studioPressed' = IF "studio" \in {screen, to} THEN NoItem ELSE studioPressed
       /\ IF screen = "studio" THEN StudioExit ELSE UNCHANGED <<sessionVars, promptVars>>
       /\ IF to = "terminal" THEN ShowTerminal ELSE lineLength' = line /\ console' = shown
       /\ IF to = "studio" THEN StudioRenders ELSE UNCHANGED savedVars

(* hnm_kernel_halt *)
Halt(pressed, shown) ==
  /\ halted' = TRUE
  /\ launcherPressed' = pressed
  /\ console' = shown
  /\ UNCHANGED <<screen, lineLength, studioState>>

Ignore == UNCHANGED <<routerVars, studioState>>

-----------------------------------------------------------------------------
(* The digits stand for the same items in the launcher and the router. *)
ItemOf ==
  [digit \in {"1", "2", "3", "4", "5"} |->
     CASE digit = "1" -> "terminal" [] digit = "2" -> "system" [] digit = "3" -> "memory"
       [] digit = "4" -> "shutdown" [] digit = "5" -> "studio"]

(* hnm_launcher_activate_item, hnm_launcher_handle_shortcut and the global  *)
(* shortcuts; hnm_launcher_open clears the pressed item, as does leaving.   *)
Open(item, pressed) ==
  IF item = "shutdown" THEN Halt(pressed, console)
  ELSE SetScreen(item, lineLength, console)

LauncherUpAnywhere(item) ==
  IF launcherPressed # NoItem THEN Open(launcherPressed, NoItem) ELSE Ignore

(* hnm_launcher_mouse_up *)
LauncherUp(item) ==
  IF launcherPressed # NoItem /\ item = launcherPressed
    THEN Open(item, NoItem)
    ELSE /\ launcherPressed' = NoItem
         /\ UNCHANGED <<screen, terminalVars, halted, studioState>>

(* hnm_launcher_mouse_down *)
LauncherDown(item) ==
  /\ launcherPressed' = IF item \in LauncherItems THEN item ELSE NoItem
  /\ UNCHANGED <<screen, terminalVars, halted, studioState>>

LauncherHandles(event) ==
  CASE event.type = "KEY_CHAR" /\ event.code \in DOMAIN ItemOf ->
         Open(ItemOf[event.code], launcherPressed)
    [] event.type = "BUTTON_DOWN" -> LauncherDown(event.code)
    [] event.type = "BUTTON_UP" -> LauncherUp(event.code)
    [] OTHER -> Ignore

-----------------------------------------------------------------------------
ToLine(length, shown) ==
  /\ lineLength' = length
  /\ console' = shown
  /\ UNCHANGED <<screen, launcherPressed, halted, studioState>>

(* hnm_terminal_handle_char, hnm_terminal_handle_backspace *)
TypeCharacter ==
  IF lineLength + 1 < LineCapacity THEN ToLine(lineLength + 1, Echoed(console)) ELSE Ignore

TypeBackspace ==
  IF lineLength > 0 THEN ToLine(lineLength - 1, Erased(console)) ELSE Ignore

(* What a command leaves on the screen: the line is ended, then come its    *)
(* own rows and the next prompt.                                           *)
Answered(rows) == Prompted(Printed(Newline(console), rows))

(* hnm_terminal_execute_command of a line with text, which is left out: it  *)
(* may be any command. The line is dropped after the command has run.      *)
Execute(command) ==
  CASE command = "ai" ->
         /\ RequestLocally
         /\ lineLength' = 0
         /\ \E rows \in Outputs : console' = Answered(rows)
         /\ UNCHANGED <<screen, launcherPressed, halted, sessionVars, studioVars>>
    [] command = "launcher" -> SetScreen("launcher", 0, Newline(console))
    [] command = "halt" -> Halt(launcherPressed, Printed(Newline(console), 1))
    [] command = "clear" -> ToLine(0, Prompted(Cleared))
    [] OTHER -> \E rows \in Outputs : ToLine(0, Answered(rows))

Commands == {"print", "clear", "ai", "launcher", "halt"}

TerminalHandles(event) ==
  CASE event.type = "KEY_CHAR" -> TypeCharacter
    [] event = Event("KEY_DOWN", "BACKSPACE") -> TypeBackspace
    [] event = Event("KEY_DOWN", "ENTER") ->
         IF lineLength = 0 THEN ToLine(0, Answered(0))
         ELSE \E command \in Commands : Execute(command)
    [] OTHER -> Ignore

StudioHandles(event) ==
  /\ UNCHANGED routerVars
  /\ CASE event = Event("KEY_DOWN", "BACKSPACE") -> StudioBackspace
       [] event = Event("KEY_DOWN", "ENTER") -> StudioEnter
       [] event.type = "KEY_CHAR" -> StudioCharacter(event.code)
       [] event.type = "BUTTON_DOWN" -> StudioDown(event.code)
       [] event.type = "BUTTON_UP" -> StudioUp(event.code)
       [] event.type = "MOUSE_MOVE" ->
            UNCHANGED <<sessionVars, requestVars, promptVars, studioPressed>> /\ StudioRenders
       [] OTHER -> UNCHANGED studioState

ShortcutScreensWithStudio == {"system", "memory", "studio"}

(* hnm_router_handle_global_shortcut: the other screens read their keys. *)
ShortcutScreens == {"system", "memory"}

ScreenHandles(event) ==
  CASE screen = "launcher" -> LauncherHandles(event)
    [] screen = "terminal" -> TerminalHandles(event)
    [] screen = "studio" -> StudioHandles(event)
    [] OTHER -> Ignore

(* ui_dispatch_event_to_current_screen *)
Handles(event) ==
  CASE event = Event("KEY_DOWN", "ESCAPE") /\ screen # "launcher" ->
         SetScreen("launcher", lineLength, console)
    [] event = Event("KEY_DOWN", "F1") -> RenderCurrent
    [] screen \in ShortcutScreens /\ event.type = "KEY_CHAR"
         /\ event.code \in DOMAIN ItemOf -> Open(ItemOf[event.code], launcherPressed)
    [] OTHER -> ScreenHandles(event)

Dispatch(event) ==
  /\ ~halted
  /\ Handles(event)
  /\ downOn' = CASE screen' # screen -> NoItem
                 [] event.type = "BUTTON_DOWN" -> event.code
                 [] event.type = "BUTTON_UP" -> NoItem
                 [] OTHER -> downOn

PollAnswerUnrendered ==
  /\ ~halted
  /\ AnswerRequest
  /\ UNCHANGED <<routerVars, sessionVars, promptVars, studioPressed, downOn, savedVars>>

(* main.c:115-119: a finished request is rendered on the AI Studio. *)
PollAnswer ==
  /\ ~halted
  /\ AnswerRequest
  /\ UNCHANGED <<routerVars, sessionVars, promptVars, studioPressed, downOn>>
  /\ IF screen = "studio" THEN StudioRenders ELSE UNCHANGED savedVars

Next == PollAnswer \/ \E event \in Events : Dispatch(event)

Spec == Init /\ [][Next]_vars

-----------------------------------------------------------------------------
TypeOK ==
  /\ StudioTypeOK
  /\ screen \in Screens
  /\ launcherPressed \in LauncherItems \cup {NoItem}
  /\ lineLength \in 0 .. (LineCapacity - 1)
  /\ ConsoleTypeOK
  /\ halted \in BOOLEAN
  /\ downOn \in Items

(* However the user leaves the key entry - by ENTER, ESC, another button, a *)
(* prompt - no character of an API key stays in memory; and while a key is  *)
(* typed, memory holds no character that has been erased.                  *)
NoKeyLeftBehind ==
  keyPlaces = IF CapturingSecret /\ screen = "studio" THEN 0 .. (secretIndex - 1) ELSE {}

(* A prompt is typed on the AI Studio only, never together with a key, and  *)
(* while no request runs: nobody submits a HNLang request into a slot in    *)
(* which another is RUNNING.                                               *)
PromptIsAlone ==
  capturingPrompt =>
    screen = "studio" /\ ~CapturingSecret /\ request.status # "RUNNING"

(* On the AI Studio a finished request is in the file, whole; elsewhere it  *)
(* is as soon as the studio has recorded it as saved.                      *)
AnswerInDraft ==
  request.type = "HNLANG" /\ request.status = "DONE"
    /\ (screen = "studio" \/ savedTask = request.id) =>
      savedTask = request.id /\ draft = DraftOf(request.id, request.answer)

(* On the terminal the line that will be executed is the one that the user  *)
(* sees in front of the cursor, also when it wraps, scrolls up from the     *)
(* bottom row or is taken back across a row's left edge.                   *)
LineIsShown == screen = "terminal" /\ ~halted => ShowsLine(lineLength)

(* Text that is typed is text: no character of a key, a prompt or a line    *)
(* changes the screen, presses a button, sends or cancels a request.       *)
Typing == CapturingSecret \/ capturingPrompt \/ screen = "terminal"

TypedTextIsNotACommand ==
  [][ Typing /\ (\E character \in Chars : Dispatch(Event("KEY_CHAR", character))) =>
        UNCHANGED <<screen, halted, sessionState, capturingPrompt, request>> ]_vars

(* A button-up activates only the item on which the button went down, on   *)
(* the same visit to the screen and once, even if the queue has dropped the *)
(* button events between.                                                  *)
ClickIsDownThenUp ==
  [][ \A item \in Items :
        Dispatch(Event("BUTTON_UP", item)) /\ item # downOn =>
          UNCHANGED <<screen, halted, sessionVars, promptVars>> ]_vars

(* Whenever an answer is saved, the policy that has let it pass lets pass   *)
(* only .hn files inside /workspace, whatever the path is made of.         *)
WritesStayInWorkspace == [][AllowsOnlyWorkspace]_savedVars

(* An answer that has arrived is not lost before it is in the file.        *)
NoAnswerLost ==
  [][ Unsaved(request) => request' = request \/ savedTask' = request.id ]_vars
=============================================================================
