--------------------------- MODULE MainLoopProofs ---------------------------
(***************************************************************************)
(* Proofs about MainLoop for any screen, queue size, bytes of the devices  *)
(* and moments at which they interrupt.                                    *)
(***************************************************************************)
EXTENDS MainLoop, SequenceTheorems, WellFoundedInduction, TLAPS

-----------------------------------------------------------------------------
(* Sleeping. Handlers run between `sti` and `cli` only; each step of the   *)
(* loop leaves its part of the work done, up to `hlt`.                     *)
WorkDone ==
  /\ pc # "woken" => raising = <<>>
  /\ pc \in {"mouse", "ai", "show", "halt"} => pending = <<>>
  /\ pc \in {"ai", "show", "halt"} => ~dirty
  /\ pc \in {"show", "halt"} => ~(aiRunning /\ aiBytes)
  /\ ~mouseReady => ~dirty

LEMMA WorkDoneInit == Init => WorkDone
  BY DEF Init, DriversInit, FifoInit, WorkDone

LEMMA WorkDoneStep == WorkDone /\ [Next]_vars => WorkDone'
<1> SUFFICES ASSUME WorkDone, [Next]_vars PROVE WorkDone'
  OBVIOUS
<1> USE DEF WorkDone
<1>1. CASE UNCHANGED vars
  BY <1>1 DEF vars, driverVars, keyboardVars, mouseVars, loopVars
<1>2. CASE KeyboardInterrupt
  BY <1>2 DEF KeyboardInterrupt, Interrupted, KeyboardIrq, mouseVars
<1>3. CASE MouseInterrupt
  <2>1. pc' = "woken" /\ mouseReady' = mouseReady
    BY <1>3 DEF MouseInterrupt, Interrupted, MouseIrq
  <2>2. ~mouseReady => dirty' = dirty
    BY <1>3 DEF MouseInterrupt, MouseIrq
  <2>3. QED
    BY <2>1, <2>2
<1>4. CASE SerialInterrupt
  BY <1>4 DEF SerialInterrupt, Interrupted, driverVars, mouseVars
<1>5. CASE HandlerPush
  BY <1>5 DEF HandlerPush, RaiseNext, mouseVars, loopVars
<1>6. CASE Cli
  BY <1>6 DEF Cli, Goes, driverVars, mouseVars
<1>7. CASE HideCursor \/ DispatchDone \/ Show
  BY <1>7 DEF HideCursor, DispatchDone, Show, Goes, driverVars, mouseVars
<1>8. CASE Dispatch
  BY <1>8 DEF Dispatch, Goes, mouseVars
<1>9. CASE MousePoll
  BY <1>9 DEF MousePoll, Goes
<1>10. CASE AiPoll
  BY <1>10 DEF AiPoll, Goes, driverVars, mouseVars
<1>11. QED
  BY <1>1, <1>2, <1>3, <1>4, <1>5, <1>6, <1>7, <1>8, <1>9, <1>10
  DEF Next, Interrupt, LoopStep

(* The kernel never halts the processor with work left that no further     *)
(* interrupt would announce.                                               *)
THEOREM LoopSleepsDrained == Spec => []SleepsOnlyWhenDrained
<1>1. WorkDone => SleepsOnlyWhenDrained
  BY DEF WorkDone, SleepsOnlyWhenDrained
<1>2. QED
  BY <1>1, WorkDoneInit, WorkDoneStep, PTL DEF Spec

-----------------------------------------------------------------------------
(* The display, as each call of cursor.c finds and leaves it. *)
Intact(d) ==
  /\ d \in Displays
  /\ d.visible => d.initialized
  /\ d.visible => d.saved \in Pictures
  /\ \A c \in Cells : d.cells[c] = Arrow => d.visible /\ d.at = c

(* What is on the screen is what was drawn, but for the arrow.             *)
Faithful(d) ==
  /\ ~d.visible => d.cells = d.drawn
  /\ d.visible => /\ d.saved = d.drawn[d.at]
                  /\ \A c \in Cells : c # d.at => d.cells[c] = d.drawn[c]

LEMMA CellsOfHidden ==
  ASSUME NEW d \in Displays, NEW restored
  PROVE  /\ [d EXCEPT !.cells = restored, !.visible = FALSE].cells = restored
         /\ [d EXCEPT !.cells = restored, !.visible = FALSE].visible = FALSE
  BY DEF Displays

LEMMA HideKeeps ==
  ASSUME NEW d, Intact(d)
  PROVE  /\ Intact(Hidden(d))
         /\ ~Hidden(d).visible
         /\ Hidden(d).initialized = d.initialized
         /\ Hidden(d).at = d.at
         /\ Faithful(d) => Faithful(Hidden(d))
<1> USE DEF Intact, Hidden, Displays, Pictures, Arrow
<1>1. CASE ~d.visible
  BY <1>1 DEF Faithful
<1>2. CASE d.visible
  <2> DEFINE restored == [d.cells EXCEPT ![d.at] = d.saved]
  <2>c. /\ restored \in [Cells -> Pictures \cup {Arrow}]
        /\ \A c \in Cells : restored[c] # Arrow
    BY <1>2
  <2>d. Hidden(d) = [d EXCEPT !.cells = restored, !.visible = FALSE]
    BY <1>2
  <2> HIDE DEF restored
  <2>1. Intact(Hidden(d)) /\ ~Hidden(d).visible
    <3>1. Hidden(d) \in Displays
      BY <2>c, <2>d
    <3>2. d \in Displays
      OBVIOUS
    <3> HIDE DEF Hidden, Displays
    <3>3. Hidden(d).cells = restored
      BY ONLY <3>2, <2>d, CellsOfHidden
    <3>4. Hidden(d).visible = FALSE
      BY ONLY <3>2, <2>d, CellsOfHidden
    <3>5. QED
      BY <2>c, <3>1, <3>3, <3>4 DEF Intact
  <2>2. Hidden(d).initialized = d.initialized /\ Hidden(d).at = d.at
    BY <1>2
  <2>3. ASSUME Faithful(d) PROVE Hidden(d).cells = Hidden(d).drawn
    BY <1>2, <2>3 DEF Faithful
  <2>4. QED
    BY <2>1, <2>2, <2>3 DEF Faithful
<1>3. QED
  BY <1>1, <1>2

LEMMA PaintKeeps ==
  ASSUME NEW d, Intact(d), NEW drawing \in Drawings
  PROVE  /\ Intact(Painted(d, drawing))
         /\ Painted(d, drawing).visible = d.visible
         /\ Painted(d, drawing).initialized = d.initialized
         /\ Painted(d, drawing).at = d.at
         /\ Faithful(d) /\ ~d.visible => Faithful(Painted(d, drawing))
<1>1. PICK S \in SUBSET Cells : drawing \in [S -> Pictures]
  BY DEF Drawings
<1>2. /\ Overlaid(d.cells, drawing) \in [Cells -> Pictures \cup {Arrow}]
      /\ Overlaid(d.drawn, drawing) \in [Cells -> Pictures]
      /\ \A c \in Cells : Overlaid(d.cells, drawing)[c] = Arrow => d.cells[c] = Arrow
  BY <1>1 DEF Overlaid, Intact, Displays, Pictures, Arrow
<1>3. d.cells = d.drawn => Overlaid(d.cells, drawing) = Overlaid(d.drawn, drawing)
  OBVIOUS
<1> HIDE DEF Overlaid
<1>4. QED
  BY <1>2, <1>3 DEF Painted, Intact, Displays, Faithful

LEMMA ShowKeeps ==
  ASSUME NEW d, Intact(d), Cells # {}
  PROVE  /\ Intact(Shown(d))
         /\ d.initialized => Shown(d).visible
         /\ Shown(d).initialized = d.initialized
         /\ Shown(d).at = d.at
         /\ Faithful(d) => Faithful(Shown(d))
<1>1. CASE ~d.initialized \/ d.visible
  BY <1>1 DEF Shown
<1>2. CASE d.initialized /\ ~d.visible
  <2> DEFINE e == StatusDrawn(d)
  <2>1. <<Width - 1, 0>> \in Cells
    BY LoopAssumption, DriverAssumption DEF Cells
  <2>2. [c \in {<<Width - 1, 0>>} |-> 1] \in Drawings
    <3>1. [c \in {<<Width - 1, 0>>} |-> 1] \in [{<<Width - 1, 0>>} -> Pictures]
      BY DEF Pictures
    <3>2. {<<Width - 1, 0>>} \in SUBSET Cells
      BY <2>1
    <3>3. QED
      BY <3>1, <3>2 DEF Drawings
  <2>3. /\ Intact(e) /\ ~e.visible /\ e.initialized /\ e.at = d.at
        /\ Faithful(d) => Faithful(e)
    BY <1>2, <2>2, PaintKeeps DEF StatusDrawn
  <2> HIDE DEF e
  <2>4. /\ Intact(ArrowDrawn(e)) /\ ArrowDrawn(e).visible
        /\ ArrowDrawn(e).initialized /\ ArrowDrawn(e).at = e.at
    BY <2>3 DEF ArrowDrawn, Intact, Displays, Pictures, Arrow
  <2>5. ASSUME Faithful(e) PROVE Faithful(ArrowDrawn(e))
    BY <2>3, <2>5 DEF ArrowDrawn, Intact, Displays, Faithful
  <2>6. Shown(d) = ArrowDrawn(e)
    BY <1>2 DEF Shown, e
  <2>7. QED
    BY <1>2, <2>3, <2>4, <2>5, <2>6 DEF Intact, Displays
<1>3. QED
  BY <1>1, <1>2 DEF Intact, Displays

LEMMA MoveKeeps ==
  ASSUME NEW d, Intact(d), NEW cell \in Cells, d.initialized
  PROVE  /\ Intact(CursorMoved(d, cell))
         /\ CursorMoved(d, cell).visible
         /\ CursorMoved(d, cell).initialized
         /\ CursorMoved(d, cell).at = cell
         /\ Faithful(d) => Faithful(CursorMoved(d, cell))
<1> DEFINE e == [Hidden(d) EXCEPT !.at = cell]
<1>1. /\ Intact(Hidden(d)) /\ ~Hidden(d).visible /\ Hidden(d).initialized
      /\ Faithful(d) => Faithful(Hidden(d))
  BY HideKeeps
<1>2. /\ Intact(e) /\ ~e.visible /\ e.initialized /\ e.at = cell
      /\ Faithful(Hidden(d)) => Faithful(e)
  BY <1>1 DEF Intact, Displays, Faithful
<1>3. CursorMoved(d, cell) = Shown(e)
  BY DEF CursorMoved
<1> HIDE DEF e
<1>4. QED
  BY <1>1, <1>2, <1>3, ShowKeeps

-----------------------------------------------------------------------------
(* The cursor on its way from the mouse handler to the screen. *)
CursorKept ==
  /\ Intact(display)
  /\ position \in Cells
  /\ packet \in Seq(Byte) /\ Len(packet) <= 2
  /\ mouseReady = display.initialized
  /\ mouseReady /\ ~dirty => display.at = position
  /\ pc = "halt" /\ mouseReady => display.visible

LEMMA MovedInside ==
  ASSUME position \in Cells, NEW dx \in Int, NEW dy \in Int
  PROVE  Moved(position, dx, dy) \in Cells
<1>2. Width - 1 \in Nat /\ Height - 1 \in Nat
  BY DriverAssumption
<1>3. position[1] \in Int /\ position[2] \in Int
  BY DriverAssumption DEF Cells
<1>4. /\ Clamp(position[1] + dx, Width - 1) \in 0 .. (Width - 1)
      /\ Clamp(position[2] - dy, Height - 1) \in 0 .. (Height - 1)
  BY <1>2, <1>3 DEF Clamp
<1>5. QED
  BY <1>4 DEF Moved, Cells

LEMMA CursorKeptInit == Init => CursorKept
<1> SUFFICES ASSUME Init PROVE CursorKept
  OBVIOUS
<1> DEFINE blank == Blank(position)
           booted == IF mouseReady THEN CursorInit(blank, position) ELSE blank
           cleared == [c \in Cells |-> 0]
<1>1. position \in Cells
  BY DriverAssumption DEF Init, DriversInit, Cells
<1>2. mouseReady \in BOOLEAN /\ packet = <<>> /\ pc = "hide"
  BY DEF Init, DriversInit
<1>3. display = Shown(Painted(Hidden(booted), cleared))
  BY DEF Init
<1>4. Intact(blank) /\ ~blank.initialized /\ blank.at = position
  BY <1>1 DEF Blank, Intact, Displays, Pictures, Arrow
<1>5. Intact(booted) /\ booted.initialized = mouseReady /\ booted.at = position
  <2>1. CASE ~mouseReady
    BY <1>2, <1>4, <2>1 DEF Intact, Displays
  <2>2. CASE mouseReady
    <3> DEFINE e == [blank EXCEPT !.at = position, !.initialized = TRUE,
                                  !.visible = FALSE]
    <3>1. Intact(e) /\ e.initialized /\ e.at = position
      BY <1>1, <1>4 DEF Intact, Displays, Blank
    <3>2. booted = Shown(e)
      BY <2>2 DEF CursorInit
    <3> HIDE DEF e, booted
    <3>3. QED
      BY <1>1, <2>2, <3>1, <3>2, ShowKeeps
  <2>3. QED
    BY <1>2, <2>1, <2>2
<1>6. cleared \in Drawings
  <2>1. cleared \in [Cells -> Pictures]
    BY DEF Pictures
  <2>2. QED
    BY <2>1 DEF Drawings
<1> HIDE DEF blank, booted, cleared
<1>7. /\ Intact(Hidden(booted)) /\ Hidden(booted).initialized = mouseReady
      /\ Hidden(booted).at = position
  BY <1>5, HideKeeps
<1>8. /\ Intact(display) /\ display.initialized = mouseReady
      /\ display.at = position
  BY <1>1, <1>3, <1>6, <1>7, PaintKeeps, ShowKeeps
<1>9. QED
  BY <1>1, <1>2, <1>8 DEF CursorKept

LEMMA SignExtendType == ASSUME NEW byte \in Byte PROVE SignExtend(byte) \in Int
  BY DEF Byte, SignExtend

LEMMA PacketBytes ==
  ASSUME NEW bytes \in Seq(Byte), Len(bytes) <= 2
  PROVE  /\ \A byte \in Byte : Len(bytes) < 2 =>
              Append(bytes, byte) \in Seq(Byte) /\ Len(Append(bytes, byte)) <= 2
         /\ ~(Len(bytes) < 2) => bytes[2] \in Byte
<1>1. Len(bytes) \in Nat
  BY LenProperties
<1>2. ASSUME ~(Len(bytes) < 2) PROVE bytes[2] \in Byte
  <2>1. Len(bytes) = 2
    <3>1. PICK n \in Nat : n = Len(bytes)
      BY <1>1
    <3>2. n <= 2 /\ ~(n < 2)
      BY <1>2, <3>1
    <3>3. n = 2
      BY ONLY <3>2
    <3>4. QED
      BY <3>1, <3>3
  <2>2. 2 \in 1 .. Len(bytes)
    BY <2>1
  <2>3. QED
    BY <2>2, ElementOfSeq
<1>3. ASSUME NEW byte \in Byte, Len(bytes) < 2
      PROVE  Append(bytes, byte) \in Seq(Byte) /\ Len(Append(bytes, byte)) <= 2
  <2>1. /\ Append(bytes, byte) \in Seq(Byte)
        /\ Len(Append(bytes, byte)) = Len(bytes) + 1
    BY AppendProperties
  <2>2. QED
    BY <1>1, <1>3, <2>1
<1>4. QED
  BY <1>2, <1>3

(* A mouse byte moves the position within the framebuffer and says so.     *)
LEMMA MouseBytesKeep ==
  ASSUME CursorKept, MouseInterrupt
  PROVE  /\ position' \in Cells
         /\ packet' \in Seq(Byte) /\ Len(packet') <= 2
         /\ ~dirty' => position' = position /\ ~dirty
         /\ mouseReady' = mouseReady
<1> USE DEF CursorKept
<1>1. PICK byte \in MouseBytes : MouseIrq(byte)
  BY DEF MouseInterrupt
<1>2. byte \in Byte
  BY LoopAssumption
<1>3. mouseReady' = mouseReady
  BY <1>1 DEF MouseIrq
<1>p. /\ Len(packet) < 2 =>
           Append(packet, byte) \in Seq(Byte) /\ Len(Append(packet, byte)) <= 2
      /\ ~(Len(packet) < 2) => packet[2] \in Byte
  BY <1>2, PacketBytes
<1>4. CASE UNCHANGED <<packet, position, dirty>>
  BY <1>3, <1>4
<1>5. CASE packet' = Append(packet, byte) /\ Len(packet) < 2
            /\ UNCHANGED <<position, dirty>>
  BY <1>3, <1>5, <1>p
<1>6. CASE packet' = <<>> /\ ~(Len(packet) < 2)
            /\ ApplyPacket(packet[1], packet[2], byte)
  <2>1. packet' \in Seq(Byte) /\ Len(packet') <= 2
    BY <1>6
  <2>2. SignExtend(packet[2]) \in Int /\ SignExtend(byte) \in Int
    <3>1. packet[2] \in Byte
      BY <1>6, <1>p
    <3>2. QED
      BY <1>2, <3>1, SignExtendType
  <2>3. CASE Overflow(packet[1])
    BY <1>3, <1>6, <2>1, <2>3 DEF ApplyPacket
  <2>4. CASE ~Overflow(packet[1])
    <3>1. /\ position' = Moved(position, SignExtend(packet[2]), SignExtend(byte))
          /\ dirty' = TRUE
      BY <1>6, <2>4 DEF ApplyPacket
    <3>2. QED
      BY <1>3, <2>1, <2>2, <3>1, MovedInside
  <2>5. QED
    BY <2>3, <2>4
<1>7. QED
  BY <1>1, <1>4, <1>5, <1>6 DEF MouseIrq, HandleByte

LEMMA CursorKeptStep == CursorKept /\ WorkDone /\ [Next]_vars => CursorKept'
<1> SUFFICES ASSUME CursorKept, WorkDone, [Next]_vars PROVE CursorKept'
  OBVIOUS
<1> USE DEF CursorKept
<1>1. CASE UNCHANGED vars
  BY <1>1 DEF vars, driverVars, keyboardVars, mouseVars, loopVars
<1>2. CASE KeyboardInterrupt
  BY <1>2 DEF KeyboardInterrupt, Interrupted, KeyboardIrq, mouseVars
<1>3. CASE MouseInterrupt
  <2>1. pc' = "woken" /\ display' = display
    BY <1>3 DEF MouseInterrupt, Interrupted
  <2>2. QED
    BY <1>3, <2>1, MouseBytesKeep
<1>4. CASE SerialInterrupt
  BY <1>4 DEF SerialInterrupt, Interrupted, driverVars, mouseVars
<1>5. CASE HandlerPush
  BY <1>5 DEF HandlerPush, RaiseNext, mouseVars, loopVars
<1>6. CASE Cli \/ DispatchDone
  BY <1>6 DEF Cli, DispatchDone, Goes, driverVars, mouseVars
<1>7. CASE HideCursor
  BY <1>7, HideKeeps DEF HideCursor, Goes, driverVars, mouseVars
<1>8. CASE Show
  BY <1>8, ShowKeeps DEF Show, Goes, driverVars, mouseVars
<1>9. CASE Dispatch
  <2>1. PICK drawing \in Drawings : display' = Painted(display, drawing)
    BY <1>9 DEF Dispatch
  <2>2. pc' # "halt" /\ UNCHANGED mouseVars
    BY <1>9 DEF Dispatch, Goes
  <2>3. QED
    BY <2>1, <2>2, PaintKeeps DEF mouseVars
<1>10. CASE MousePoll
  <2>1. pc' # "halt" /\ UNCHANGED <<packet, position, mouseReady>>
    BY <1>10 DEF MousePoll, Goes
  <2>2. CASE mouseReady /\ dirty
    <3>1. display' = CursorMoved(display, position)
      BY <1>10, <2>2 DEF MousePoll
    <3>2. QED
      BY <2>1, <2>2, <3>1, MoveKeeps
  <2>3. CASE ~(mouseReady /\ dirty)
    <3>1. UNCHANGED <<display, dirty>>
      BY <1>10, <2>3 DEF MousePoll
    <3>2. QED
      BY <2>1, <3>1
  <2>4. QED
    BY <2>2, <2>3
<1>11. CASE AiPoll
  <2>1. pc' # "halt" /\ UNCHANGED mouseVars
    BY <1>11 DEF AiPoll, Goes, driverVars
  <2>2. \/ display' = display
        \/ \E drawing \in Drawings : display' = Painted(display, drawing)
    BY <1>11 DEF AiPoll
  <2>3. QED
    BY <2>1, <2>2, PaintKeeps DEF mouseVars
<1>12. QED
  BY <1>1, <1>2, <1>3, <1>4, <1>5, <1>6, <1>7, <1>8, <1>9, <1>10, <1>11
  DEF Next, Interrupt, LoopStep

LEMMA CursorInvariant == Spec => [](CursorKept /\ WorkDone)
  BY CursorKeptInit, CursorKeptStep, WorkDoneInit, WorkDoneStep, PTL DEF Spec

(* However interrupts and redraws fall, the arrow is never on the screen   *)
(* in two places, nor where the cursor was hidden.                         *)
THEOREM ArrowIsUnique == Spec => []NoGhostArrow
<1>1. CursorKept => NoGhostArrow
  BY DEF CursorKept, Intact, NoGhostArrow
<1>2. QED
  BY <1>1, CursorInvariant, PTL

(* No movement of the mouse is lost to the cursor when the kernel sleeps.  *)
THEOREM CursorIsAtMouse == Spec => []CursorFollowsMouse
<1>1. CursorKept /\ WorkDone => CursorFollowsMouse
  BY DEF CursorKept, WorkDone, CursorFollowsMouse
<1>2. QED
  BY <1>1, CursorInvariant, PTL

-----------------------------------------------------------------------------
(* Away from the AI Studio, screens draw only while the cursor is hidden.  *)
DrawnHidden ==
  /\ Faithful(display)
  /\ pc = "dispatch" => ~display.visible
  /\ screen \in Screens

LEMMA DrawnHiddenInit == Init => DrawnHidden
<1> SUFFICES ASSUME Init PROVE DrawnHidden
  OBVIOUS
<1> DEFINE blank == Blank(position)
           booted == IF mouseReady THEN CursorInit(blank, position) ELSE blank
           cleared == [c \in Cells |-> 0]
<1>1. position \in Cells
  BY DriverAssumption DEF Init, DriversInit, Cells
<1>2. /\ Intact(blank) /\ ~blank.visible /\ Faithful(blank)
      /\ blank.initialized = FALSE
  BY <1>1 DEF Blank, Intact, Displays, Pictures, Arrow, Faithful
<1>3. Intact(booted) /\ Faithful(booted)
  <2>1. CASE mouseReady
    <3> DEFINE e == [blank EXCEPT !.at = position, !.initialized = TRUE,
                                  !.visible = FALSE]
    <3>1. Intact(e) /\ Faithful(e)
      BY <1>1, <1>2 DEF Intact, Displays, Blank, Faithful
    <3>2. booted = Shown(e)
      BY <2>1 DEF CursorInit
    <3> HIDE DEF e, booted
    <3>3. QED
      BY <1>1, <3>1, <3>2, ShowKeeps
  <2>2. QED
    BY <1>2, <2>1
<1>4. cleared \in Drawings
  <2>1. cleared \in [Cells -> Pictures]
    BY DEF Pictures
  <2>2. QED
    BY <2>1 DEF Drawings
<1>5. display = Shown(Painted(Hidden(booted), cleared))
  BY DEF Init
<1> HIDE DEF blank, booted, cleared
<1>6. Intact(Hidden(booted)) /\ Faithful(Hidden(booted)) /\ ~Hidden(booted).visible
  BY <1>3, HideKeeps
<1>7. /\ Intact(Painted(Hidden(booted), cleared))
      /\ Faithful(Painted(Hidden(booted), cleared))
  BY <1>4, <1>6, PaintKeeps
<1>8. Faithful(display)
  BY <1>1, <1>5, <1>7, ShowKeeps
<1>9. QED
  BY <1>8, LoopAssumption DEF Init, DrawnHidden

LEMMA DrawnHiddenStep ==
  ASSUME "studio" \notin Screens
  PROVE  DrawnHidden /\ CursorKept /\ [Next]_vars => DrawnHidden'
<1> SUFFICES ASSUME DrawnHidden, CursorKept, [Next]_vars PROVE DrawnHidden'
  OBVIOUS
<1> USE DEF DrawnHidden, CursorKept
<1>1. CASE UNCHANGED vars
  BY <1>1 DEF vars, loopVars
<1>2. CASE Interrupt
  BY <1>2 DEF Interrupt, KeyboardInterrupt, MouseInterrupt, SerialInterrupt,
              Interrupted
<1>3. CASE HandlerPush
  BY <1>3 DEF HandlerPush, loopVars
<1>4. CASE Cli \/ DispatchDone
  BY <1>4 DEF Cli, DispatchDone, Goes
<1>5. CASE HideCursor
  BY <1>5, HideKeeps DEF HideCursor, Goes
<1>6. CASE Show
  BY <1>6, ShowKeeps DEF Show, Goes
<1>7. CASE Dispatch
  <2>1. PICK drawing \in Drawings : display' = Painted(display, drawing)
    BY <1>7 DEF Dispatch
  <2>2. ~display.visible /\ screen' \in Screens
    BY <1>7 DEF Dispatch, Goes
  <2>3. QED
    BY <2>1, <2>2, PaintKeeps
<1>8. CASE MousePoll
  <2>1. CASE mouseReady /\ dirty
    BY <1>8, <2>1, MoveKeeps DEF MousePoll, Goes
  <2>2. CASE ~(mouseReady /\ dirty)
    BY <1>8, <2>2 DEF MousePoll, Goes
  <2>3. QED
    BY <2>1, <2>2
<1>9. CASE AiPoll
  <2>1. screen # "studio"
    OBVIOUS
  <2>2. QED
    BY <1>9, <2>1 DEF AiPoll, Goes
<1>10. QED
  BY <1>1, <1>2, <1>3, <1>4, <1>5, <1>6, <1>7, <1>8, <1>9 DEF Next, LoopStep

(* As long as the user does not visit the AI Studio, hiding the cursor     *)
(* gives back exactly what was drawn beneath it.                           *)
THEOREM BackgroundIsRestored ==
  ASSUME "studio" \notin Screens
  PROVE  Spec => []BackgroundRestored
<1>1. DrawnHidden => BackgroundRestored
  BY DEF DrawnHidden, Faithful, BackgroundRestored
<1>2. DrawnHidden /\ CursorKept /\ [Next]_vars => DrawnHidden'
  BY DrawnHiddenStep
<1>3. QED
  BY <1>1, <1>2, DrawnHiddenInit, CursorInvariant, PTL DEF Spec

-----------------------------------------------------------------------------
(* What handlers push                                                      *)

LEMMA EventTyped ==
  ASSUME NEW type \in Types, NEW code \in Byte, NEW shifted \in BOOLEAN
  PROVE  /\ Event(type, code, shifted) \in InputEvents
         /\ Event(type, code, shifted).type = type
         /\ Event(type, code, shifted).code = code
  BY DEF Event, InputEvents

(* A queue of a key's events or of mouse events, as a handler pushes it.   *)
DownOf(event) == [event EXCEPT !.type = "KEY_DOWN"]

Keyless(events) == \A i \in 1 .. Len(events) : events[i].type # "KEY_CHAR"

LEMMA DownIsDown ==
  ASSUME NEW event \in InputEvents
  PROVE  DownOf(event).type = "KEY_DOWN"
  BY DEF DownOf, InputEvents

LEMMA OneEvent ==
  ASSUME NEW event \in InputEvents
  PROVE  /\ <<event>> \in Seq(InputEvents) /\ Len(<<event>>) = 1
         /\ <<event>>[1] = event
  OBVIOUS

LEMMA ShortKeyless ==
  /\ <<>> \in Seq(InputEvents) /\ Len(<<>>) = 0 /\ Keyless(<<>>)
  /\ \A event \in InputEvents : event.type # "KEY_CHAR" =>
       \A events : events = <<event>> =>
         events \in Seq(InputEvents) /\ Len(events) = 1 /\ Keyless(events)
<1>1. /\ <<>> \in Seq(InputEvents) /\ Len(<<>>) = 0 /\ Keyless(<<>>)
  BY DEF Keyless
<1>2. ASSUME NEW event \in InputEvents, event.type # "KEY_CHAR"
      PROVE  <<event>> \in Seq(InputEvents) /\ Len(<<event>>) = 1 /\ Keyless(<<event>>)
  BY <1>2, OneEvent DEF Keyless
<1>3. QED
  BY <1>1, <1>2

LEMMA KeyPairs ==
  ASSUME NEW byte \in Byte, shiftPressed \in BOOLEAN
  PROVE  /\ KeyEvents(byte) \in Seq(InputEvents) /\ Len(KeyEvents(byte)) <= 2
         /\ \/ Keyless(KeyEvents(byte))
            \/ /\ Len(KeyEvents(byte)) = 2
               /\ KeyEvents(byte)[2].type = "KEY_CHAR"
               /\ KeyEvents(byte)[1] = DownOf(KeyEvents(byte)[2])
         /\ \A i \in 1 .. Len(KeyEvents(byte)) : ~IsEdge(KeyEvents(byte)[i])
<1> DEFINE shifted == shiftPressed /\ byte \in Shiftable
<1>1. CASE byte \in SpecialKeys
  <2> DEFINE e == Event("KEY_DOWN", byte, FALSE)
  <2>1. KeyEvents(byte) = <<e>>
    BY <1>1 DEF KeyEvents
  <2>2. e \in InputEvents /\ e.type = "KEY_DOWN"
    <3>1. "KEY_DOWN" \in Types /\ FALSE \in BOOLEAN
      BY DEF Types
    <3>2. QED
      BY <3>1, EventTyped
  <2> HIDE DEF e
  <2>3. QED
    BY <2>1, <2>2, OneEvent DEF Keyless, IsEdge
<1>2. CASE byte \notin SpecialKeys /\ byte \in Printable
  <2> DEFINE d == Event("KEY_DOWN", byte, shifted)
             e == Event("KEY_CHAR", byte, shifted)
  <2>1. KeyEvents(byte) = <<d, e>>
    BY <1>2 DEF KeyEvents
  <2>2. shifted \in BOOLEAN
    OBVIOUS
  <2>3. /\ d \in InputEvents /\ d.type = "KEY_DOWN"
        /\ e \in InputEvents /\ e.type = "KEY_CHAR"
    <3> HIDE DEF shifted
    <3>1. QED
      BY <2>2, EventTyped DEF Types
  <2>4. d = DownOf(e)
    <3> HIDE DEF shifted
    <3>1. QED
      BY DEF Event, DownOf
  <2> HIDE DEF d, e
  <2>5. <<d, e>> \in Seq(InputEvents) /\ Len(<<d, e>>) = 2
    BY <2>3
  <2>6. <<d, e>>[1] = d /\ <<d, e>>[2] = e
    OBVIOUS
  <2>7. \A i \in 1 .. 2 : ~IsEdge(<<d, e>>[i])
    BY <2>3, <2>6 DEF IsEdge
  <2>8. QED
    BY <2>1, <2>3, <2>4, <2>5, <2>6, <2>7
<1>3. CASE byte \notin SpecialKeys /\ byte \notin Printable
  <2>1. KeyEvents(byte) = <<>>
    BY <1>3 DEF KeyEvents
  <2>2. QED
    BY <2>1 DEF Keyless
<1>4. QED
  BY <1>1, <1>2, <1>3

(* The events of one packet: at most a move and one for each button.       *)
LEMMA ButtonEventTyped ==
  ASSUME NEW b \in ButtonIds, NEW old, NEW new
  PROVE  /\ ButtonEvent(b, old, new) \in Seq(InputEvents)
         /\ Len(ButtonEvent(b, old, new)) <= 1
         /\ Keyless(ButtonEvent(b, old, new))
<1> DEFINE type == IF new[b] THEN "MOUSE_BUTTON_DOWN" ELSE "MOUSE_BUTTON_UP"
           e == Event(type, b, FALSE)
<1>1. b \in Byte /\ type \in Types /\ type # "KEY_CHAR"
  BY DEF ButtonIds, Byte, Types
<1>2. e \in InputEvents /\ e.type # "KEY_CHAR"
  <2> HIDE DEF type
  <2>1. QED
    BY <1>1, EventTyped
<1>3. ButtonEvent(b, old, new) = <<>> \/ ButtonEvent(b, old, new) = <<e>>
  BY DEF ButtonEvent
<1> DEFINE events == ButtonEvent(b, old, new)
<1>4. SUFFICES events \in Seq(InputEvents) /\ Len(events) <= 1 /\ Keyless(events)
  OBVIOUS
<1> HIDE DEF e, events
<1>5. CASE events = <<>>
  BY <1>5, ShortKeyless
<1>6. CASE events = <<e>>
  BY <1>2, <1>6, ShortKeyless
<1>7. QED
  BY <1>3, <1>5, <1>6 DEF events

LEMMA KeylessConcat ==
  ASSUME NEW s \in Seq(InputEvents), NEW t \in Seq(InputEvents), Keyless(s), Keyless(t)
  PROVE  s \o t \in Seq(InputEvents) /\ Len(s \o t) = Len(s) + Len(t) /\ Keyless(s \o t)
<1>1. /\ s \o t \in Seq(InputEvents) /\ Len(s \o t) = Len(s) + Len(t)
      /\ \A i \in 1 .. Len(s) + Len(t) :
           (s \o t)[i] = IF i <= Len(s) THEN s[i] ELSE t[i - Len(s)]
  BY ConcatProperties
<1>2. Len(s) \in Nat /\ Len(t) \in Nat
  BY LenProperties
<1>3. Keyless(s \o t)
  <2>1. SUFFICES ASSUME NEW i \in 1 .. Len(s) + Len(t)
                 PROVE  (s \o t)[i].type # "KEY_CHAR"
    BY <1>1 DEF Keyless
  <2>2. CASE i <= Len(s)
    BY <1>1, <1>2, <2>2 DEF Keyless
  <2>3. CASE ~(i <= Len(s))
    <3>1. i - Len(s) \in 1 .. Len(t)
      BY <1>2, <2>3
    <3>2. QED
      BY <1>1, <2>3, <3>1 DEF Keyless
  <2>4. QED
    BY <2>2, <2>3
<1>4. QED
  BY <1>1, <1>3

LEMMA PacketEvents ==
  ASSUME NEW dx \in Int, NEW dy \in Int, NEW old, NEW new
  PROVE  LET events == MoveEvents(dx, dy) \o ButtonEvents(old, new)
         IN  events \in Seq(InputEvents) /\ Len(events) <= 4 /\ Keyless(events)
<1> DEFINE m == MoveEvents(dx, dy)
           e(b) == ButtonEvent(b, old, new)
<1>1. m \in Seq(InputEvents) /\ Len(m) <= 1 /\ Keyless(m)
  <2> DEFINE moved == Event("MOUSE_MOVE", 0, FALSE)
  <2>1. moved \in InputEvents /\ moved.type # "KEY_CHAR"
    <3>1. "MOUSE_MOVE" \in Types /\ 0 \in Byte /\ FALSE \in BOOLEAN
      BY DEF Types, Byte
    <3>2. QED
      BY <3>1, EventTyped
  <2>2. m = <<>> \/ m = <<moved>>
    BY DEF MoveEvents
  <2> HIDE DEF moved, m
  <2>3. CASE m = <<>>
    BY <2>3, ShortKeyless
  <2>4. CASE m = <<moved>>
    BY <2>1, <2>4, ShortKeyless
  <2>5. QED
    BY <2>2, <2>3, <2>4
<1>2. \A b \in ButtonIds :
        e(b) \in Seq(InputEvents) /\ Len(e(b)) <= 1 /\ Keyless(e(b))
  BY ButtonEventTyped
<1>3. 1 \in ButtonIds /\ 2 \in ButtonIds /\ 3 \in ButtonIds
  BY DEF ButtonIds
<1> DEFINE e1 == e(1)
           e2 == e(2)
           e3 == e(3)
<1>4. /\ e1 \in Seq(InputEvents) /\ Len(e1) \in Nat /\ Len(e1) <= 1 /\ Keyless(e1)
      /\ e2 \in Seq(InputEvents) /\ Len(e2) \in Nat /\ Len(e2) <= 1 /\ Keyless(e2)
      /\ e3 \in Seq(InputEvents) /\ Len(e3) \in Nat /\ Len(e3) <= 1 /\ Keyless(e3)
  <2> HIDE DEF e
  <2>1. QED
    BY <1>2, <1>3, LenProperties
<1>5. ButtonEvents(old, new) = e1 \o e2 \o e3
  BY DEF ButtonEvents
<1>6. Len(m) \in Nat
  BY <1>1, LenProperties
<1> HIDE DEF m, e, e1, e2, e3
<1>7. /\ e1 \o e2 \in Seq(InputEvents) /\ Len(e1 \o e2) = Len(e1) + Len(e2)
      /\ Keyless(e1 \o e2)
  BY <1>4, KeylessConcat
<1> DEFINE e12 == e1 \o e2
<1>8. /\ e12 \o e3 \in Seq(InputEvents) /\ Len(e12 \o e3) = Len(e12) + Len(e3)
      /\ Keyless(e12 \o e3)
  <2>1. e12 \in Seq(InputEvents) /\ Keyless(e12)
    BY <1>7
  <2> HIDE DEF e12
  <2>2. QED
    BY <1>4, <2>1, KeylessConcat
<1>9. /\ e1 \o e2 \o e3 \in Seq(InputEvents)
      /\ Len(e1 \o e2 \o e3) = Len(e1) + Len(e2) + Len(e3)
      /\ Keyless(e1 \o e2 \o e3)
  BY <1>7, <1>8
<1> HIDE DEF e12
<1>10. /\ m \o ButtonEvents(old, new) \in Seq(InputEvents)
       /\ Len(m \o ButtonEvents(old, new)) = Len(m) + (Len(e1) + Len(e2) + Len(e3))
       /\ Keyless(m \o ButtonEvents(old, new))
  BY <1>1, <1>5, <1>9, KeylessConcat
<1>11. Len(m \o ButtonEvents(old, new)) <= 4
  BY <1>1, <1>4, <1>6, <1>10
<1>12. QED
  BY <1>10, <1>11 DEF m

-----------------------------------------------------------------------------
(* Types: the queue and what is on its way to it, the driver's flags, and   *)
(* what the loop keeps. CursorKept has the types of the rest.              *)
QueueTyped ==
  /\ pending \in Seq(InputEvents) /\ Len(pending) < QueueSize
  /\ dropped \in 0 .. (CounterModulus - 1)
  /\ raising \in Seq(InputEvents) /\ Len(raising) <= 4
  /\ shiftPressed \in BOOLEAN
  /\ buttons \in [ButtonIds -> BOOLEAN]
  /\ edgeLost \in BOOLEAN
  /\ handled \in InputEvents \cup {NoEvent}
  /\ seen \in [ButtonIds -> BOOLEAN]

queueVars == <<pending, dropped, raising, shiftPressed, buttons, edgeLost, handled, seen>>

LoopTyped ==
  /\ mouseReady \in BOOLEAN
  /\ dirty \in BOOLEAN
  /\ pc \in {"hide", "dispatch", "mouse", "ai", "show", "halt", "woken", "stopped"}
  /\ screen \in Screens
  /\ aiRunning \in BOOLEAN
  /\ aiBytes \in BOOLEAN

(* The steps that do not concern events leave all of it alone. *)
LEMMA QuietSteps ==
  ASSUME \/ SerialInterrupt \/ Cli \/ HideCursor \/ DispatchDone
         \/ MousePoll \/ AiPoll \/ Show \/ UNCHANGED vars
  PROVE  UNCHANGED queueVars
  BY DEF SerialInterrupt, Cli, HideCursor, DispatchDone, MousePoll, AiPoll, Show,
         vars, loopVars, driverVars, keyboardVars, mouseVars, queueVars

(* A mouse byte raises the events of the packet that it completes, if any. *)
LEMMA MouseRaises ==
  ASSUME CursorKept, QueueTyped, MouseInterrupt
  PROVE  /\ raising = <<>>
         /\ UNCHANGED <<pending, dropped, shiftPressed, edgeLost, handled, seen, mouseReady>>
         /\ \/ UNCHANGED <<raising, buttons, dirty>>
            \/ /\ dirty'
               /\ buttons' \in [ButtonIds -> BOOLEAN]
               /\ \E dx, dy \in Int :
                    raising' = MoveEvents(dx, dy) \o ButtonEvents(buttons, buttons')
<1>1. PICK byte \in MouseBytes : MouseIrq(byte)
  BY DEF MouseInterrupt
<1>2. byte \in Byte
  BY LoopAssumption
<1>3. /\ raising = <<>>
      /\ UNCHANGED <<pending, dropped, shiftPressed, edgeLost, handled, seen, mouseReady>>
  BY <1>1 DEF MouseIrq, MouseInterrupt, keyboardVars
<1>4. CASE UNCHANGED <<raising, buttons, dirty>>
  BY <1>3, <1>4
<1>5. CASE ~(Len(packet) < 2) /\ ApplyPacket(packet[1], packet[2], byte)
           /\ ~Overflow(packet[1])
  <2>1. packet[2] \in Byte
    BY <1>2, <1>5, PacketBytes DEF CursorKept
  <2> DEFINE dx == SignExtend(packet[2])
             dy == SignExtend(byte)
             new == [b \in ButtonIds |-> Bit(packet[1], b - 1)]
  <2>2. dx \in Int /\ dy \in Int
    BY <1>2, <2>1, SignExtendType
  <2>3. /\ buttons' = new /\ dirty' = TRUE
        /\ raising' = MoveEvents(dx, dy) \o ButtonEvents(buttons, new)
    BY <1>5 DEF ApplyPacket
  <2>4. new \in [ButtonIds -> BOOLEAN]
    BY DEF Bit
  <2> HIDE DEF dx, dy, new
  <2>5. raising' = MoveEvents(dx, dy) \o ButtonEvents(buttons, buttons')
    BY <2>3
  <2>6. QED
    BY <1>3, <2>2, <2>3, <2>4, <2>5
<1>6. QED
  BY <1>1, <1>4, <1>5 DEF MouseIrq, HandleByte, ApplyPacket

LEMMA PushKeepsTypes ==
  ASSUME QueueTyped, HandlerPush
  PROVE  QueueTyped'
<1> USE DEF QueueTyped
<1>1. raising # <<>> /\ Push(Head(raising)) /\ raising' = Tail(raising)
  BY DEF HandlerPush, RaiseNext
<1>2. /\ Head(raising) \in InputEvents /\ raising' \in Seq(InputEvents)
      /\ Len(raising') = Len(raising) - 1
  BY <1>1, HeadTailProperties
<1>3. Len(raising') <= 4
  <2>1. Len(raising) \in Nat
    BY LenProperties
  <2>2. QED
    BY <1>2, <2>1
<1>4. UNCHANGED <<shiftPressed, buttons, handled, seen>>
  BY DEF HandlerPush, RaiseNext, keyboardVars, mouseVars, loopVars
<1>5. edgeLost' \in BOOLEAN
  BY DEF HandlerPush, RaiseNext
<1>6. /\ pending' \in Seq(InputEvents) /\ Len(pending') < QueueSize
      /\ dropped' \in 0 .. (CounterModulus - 1)
  <2>1. Len(pending) \in Nat /\ QueueSize \in Nat /\ CounterModulus \in Nat /\ CounterModulus > 0
    BY LenProperties, DriverAssumption
  <2>2. CASE IsFull
    <3>1. pending' = pending /\ dropped' = (dropped + 1) % CounterModulus
      BY <1>1, <2>2 DEF Push
    <3>2. QED
      BY <2>1, <3>1
  <2>3. CASE ~IsFull
    <3>1. pending' = Append(pending, Head(raising)) /\ dropped' = dropped
      BY <1>1, <2>3 DEF Push
    <3>2. pending' \in Seq(InputEvents) /\ Len(pending') = Len(pending) + 1
      BY <1>2, <3>1, AppendProperties
    <3>3. Len(pending) # QueueSize - 1
      BY <2>3 DEF IsFull
    <3>4. QED
      BY <2>1, <3>1, <3>2, <3>3
  <2>4. QED
    BY <2>2, <2>3
<1>7. QED
  BY <1>2, <1>3, <1>4, <1>5, <1>6

LEMMA DispatchKeepsTypes ==
  ASSUME QueueTyped, Dispatch
  PROVE  QueueTyped'
<1> USE DEF QueueTyped
<1>1. /\ pending # <<>> /\ pending' = Tail(pending)
      /\ handled' = Head(pending) /\ seen' = SeenAfter(seen, Head(pending))
      /\ UNCHANGED <<dropped, raising, shiftPressed, buttons, edgeLost>>
  BY DEF Dispatch, Poll, keyboardVars, mouseVars
<1>2. /\ Head(pending) \in InputEvents /\ pending' \in Seq(InputEvents)
      /\ Len(pending') = Len(pending) - 1
  BY <1>1, HeadTailProperties
<1>3. Len(pending') < QueueSize
  <2>1. Len(pending) \in Nat /\ QueueSize \in Nat
    BY LenProperties, DriverAssumption
  <2>2. QED
    BY <1>2, <2>1
<1>4. seen' \in [ButtonIds -> BOOLEAN]
  BY <1>1 DEF SeenAfter
<1>5. QED
  BY <1>1, <1>2, <1>3, <1>4

LEMMA QueueTypedStep == CursorKept /\ QueueTyped /\ [Next]_vars => QueueTyped'
<1> SUFFICES ASSUME CursorKept, QueueTyped, [Next]_vars PROVE QueueTyped'
  OBVIOUS
<1>1. CASE \/ SerialInterrupt \/ Cli \/ HideCursor \/ DispatchDone
           \/ MousePoll \/ AiPoll \/ Show \/ UNCHANGED vars
  BY <1>1, QuietSteps DEF QueueTyped, queueVars
<1>2. CASE KeyboardInterrupt
  <2>1. PICK byte \in Scancodes : KeyboardIrq(byte)
    BY <1>2 DEF KeyboardInterrupt
  <2>2. byte \in Byte
    BY LoopAssumption
  <2>3. /\ raising' = KeyEvents(byte)
        /\ UNCHANGED <<pending, dropped, buttons, edgeLost, handled, seen>>
    BY <1>2, <2>1 DEF KeyboardInterrupt, KeyboardIrq, mouseVars
  <2>4. shiftPressed' \in BOOLEAN
    BY <2>1 DEF KeyboardIrq, QueueTyped
  <2>5. KeyEvents(byte) \in Seq(InputEvents) /\ Len(KeyEvents(byte)) <= 2
    BY <2>2, KeyPairs DEF QueueTyped
  <2>6. Len(raising') <= 4
    <3>1. Len(KeyEvents(byte)) \in Nat
      BY <2>5, LenProperties
    <3>2. QED
      BY <2>3, <2>5, <3>1
  <2>7. QED
    BY <2>3, <2>4, <2>5, <2>6 DEF QueueTyped
<1>3. CASE MouseInterrupt
  <2>1. CASE UNCHANGED <<raising, buttons>>
    BY <1>3, <2>1, MouseRaises DEF QueueTyped
  <2>2. CASE \E dx, dy \in Int :
               raising' = MoveEvents(dx, dy) \o ButtonEvents(buttons, buttons')
    <3>1. raising' \in Seq(InputEvents) /\ Len(raising') <= 4
      BY <2>2, PacketEvents
    <3>2. buttons' \in [ButtonIds -> BOOLEAN]
      BY <1>3, MouseRaises DEF QueueTyped
    <3>3. QED
      BY <1>3, <3>1, <3>2, MouseRaises DEF QueueTyped
  <2>3. QED
    BY <1>3, <2>1, <2>2, MouseRaises
<1>4. CASE HandlerPush
  BY <1>4, PushKeepsTypes
<1>5. CASE Dispatch
  BY <1>5, DispatchKeepsTypes
<1>6. QED
  BY <1>1, <1>2, <1>3, <1>4, <1>5 DEF Next, Interrupt, LoopStep

LEMMA LoopTypedStep == CursorKept /\ QueueTyped /\ LoopTyped /\ [Next]_vars => LoopTyped'
<1> SUFFICES ASSUME CursorKept, QueueTyped, LoopTyped, [Next]_vars PROVE LoopTyped'
  OBVIOUS
<1> USE DEF LoopTyped
<1>1. CASE \/ Cli \/ HideCursor \/ DispatchDone \/ MousePoll \/ AiPoll \/ Show
  BY <1>1 DEF Cli, HideCursor, DispatchDone, MousePoll, AiPoll, Show, Goes,
              driverVars, mouseVars
<1>2. CASE KeyboardInterrupt \/ SerialInterrupt
  BY <1>2 DEF KeyboardInterrupt, SerialInterrupt, Interrupted, KeyboardIrq,
              driverVars, mouseVars
<1>3. CASE MouseInterrupt
  <2>1. mouseReady' = mouseReady /\ (dirty' \/ dirty' = dirty)
    BY <1>3, MouseRaises
  <2>2. dirty' \in BOOLEAN
    BY <1>3 DEF MouseInterrupt, MouseIrq, HandleByte, ApplyPacket
  <2>3. QED
    BY <1>3, <2>1, <2>2 DEF MouseInterrupt, Interrupted
<1>4. CASE HandlerPush
  BY <1>4 DEF HandlerPush, RaiseNext, mouseVars, loopVars
<1>5. CASE Dispatch
  BY <1>5 DEF Dispatch, Goes, mouseVars
<1>6. CASE UNCHANGED vars
  BY <1>6 DEF vars, loopVars, driverVars, mouseVars
<1>7. QED
  BY <1>1, <1>2, <1>3, <1>4, <1>5, <1>6 DEF Next, Interrupt, LoopStep

LEMMA TypedInit == Init => QueueTyped /\ LoopTyped
<1> SUFFICES ASSUME Init PROVE QueueTyped /\ LoopTyped
  OBVIOUS
<1>1. pending = <<>> /\ raising = <<>> /\ dropped = 0
  BY DEF Init, DriversInit, FifoInit
<1>2. Len(pending) < QueueSize /\ Len(raising) <= 4 /\ dropped \in 0 .. (CounterModulus - 1)
  BY <1>1, DriverAssumption
<1>3. handled \in InputEvents \cup {NoEvent} /\ seen \in [ButtonIds -> BOOLEAN]
  BY DEF Init, DriversInit
<1>4. QueueTyped
  <2>1. /\ shiftPressed = FALSE /\ edgeLost = FALSE
        /\ buttons = [b \in ButtonIds |-> FALSE]
    BY DEF Init, DriversInit
  <2>2. pending \in Seq(InputEvents) /\ raising \in Seq(InputEvents)
    BY <1>1
  <2>3. QED
    BY <1>2, <1>3, <2>1, <2>2 DEF QueueTyped
<1>5. LoopTyped
  BY LoopAssumption DEF Init, DriversInit, LoopTyped
<1>6. QED
  BY <1>4, <1>5

LEMMA TypedInvariant == Spec => [](CursorKept /\ QueueTyped /\ LoopTyped)
  BY CursorInvariant, TypedInit, QueueTypedStep, LoopTypedStep, PTL DEF Spec

(* Whatever bytes the devices send and whenever they interrupt, the queue  *)
(* never exceeds its size, a handler pushes at most four events, and the   *)
(* mouse stays within the framebuffer.                                     *)
THEOREM TypeCorrect == Spec => []TypeOK
<1>1. CursorKept /\ QueueTyped /\ LoopTyped => TypeOK
  BY DEF CursorKept, Intact, Cells, QueueTyped, LoopTyped, TypeOK, DriversTypeOK
<1>2. QED
  BY <1>1, TypedInvariant, PTL

-----------------------------------------------------------------------------
(* A character and its key. A KEY_CHAR in the queue stands behind its        *)
(* KEY_DOWN, or that was handled last; one that is still to be pushed has   *)
(* its KEY_DOWN at the end of the queue, or finds the queue still full.     *)
QueuePaired ==
  \A i \in 1 .. Len(pending) :
    pending[i].type = "KEY_CHAR" =>
      DownOf(pending[i]) = IF i = 1 THEN handled ELSE pending[i - 1]

RaisingPaired ==
  \/ Keyless(raising)
  \/ /\ Len(raising) = 2 /\ raising[2].type = "KEY_CHAR"
     /\ raising[1] = DownOf(raising[2])
  \/ /\ Len(raising) = 1
     /\ IsFull \/ (pending # <<>> /\ pending[Len(pending)] = DownOf(raising[1]))

Paired == QueuePaired /\ RaisingPaired

LEMMA PushKeepsPaired ==
  ASSUME QueueTyped, Paired, HandlerPush
  PROVE  Paired'
<1>1. raising # <<>> /\ Push(Head(raising)) /\ raising' = Tail(raising) /\ handled' = handled
  BY DEF HandlerPush, RaiseNext, loopVars
<1>2. raising \in Seq(InputEvents) /\ pending \in Seq(InputEvents)
  BY DEF QueueTyped
<1> DEFINE h == Head(raising)
           n == Len(pending)
           r == Len(raising)
<1>3. n \in Nat /\ r \in Nat /\ r > 0
  BY <1>1, <1>2, LenProperties, EmptySeq
<1>4. /\ h = raising[1] /\ h \in InputEvents
      /\ Len(raising') = r - 1
      /\ \A i \in 1 .. r - 1 : raising'[i] = raising[i + 1]
  BY <1>1, <1>2, HeadTailProperties
<1>5. CASE IsFull
  <2>1. pending' = pending
    BY <1>1, <1>5 DEF Push
  <2>2. IsFull'
    BY <1>5, <2>1 DEF IsFull
  <2>3. QueuePaired'
    BY <1>1, <2>1 DEF Paired, QueuePaired
  <2>4. RaisingPaired'
    <3>1. CASE Keyless(raising)
      <4>1. \A i \in 1 .. r - 1 : raising'[i].type # "KEY_CHAR"
        BY <1>3, <1>4, <3>1 DEF Keyless
      <4>2. QED
        BY <1>4, <4>1 DEF RaisingPaired, Keyless
    <3>2. CASE Len(raising) = 2
      BY <1>4, <2>2, <3>2 DEF RaisingPaired
    <3>3. CASE Len(raising) = 1
      <4>1. Len(raising') = 0
        BY <1>4, <3>3
      <4>2. QED
        BY <4>1 DEF RaisingPaired, Keyless
    <3>4. QED
      BY <3>1, <3>2, <3>3 DEF Paired, RaisingPaired
  <2>5. QED
    BY <2>3, <2>4 DEF Paired
<1>6. CASE ~IsFull
  <2>1. pending' = Append(pending, h)
    BY <1>1, <1>6 DEF Push
  <2>2. /\ Len(pending') = n + 1
        /\ \A i \in 1 .. n : pending'[i] = pending[i]
        /\ pending'[n + 1] = h
    BY <1>2, <1>4, <2>1, AppendProperties
  <2>3. h.type = "KEY_CHAR" => n > 0 /\ pending[n] = DownOf(h)
    <3>1. SUFFICES ASSUME h.type = "KEY_CHAR" PROVE n > 0 /\ pending[n] = DownOf(h)
      OBVIOUS
    <3>2. ~Keyless(raising)
      BY <1>3, <1>4, <3>1 DEF Keyless
    <3>3. CASE r = 2 /\ raising[2].type = "KEY_CHAR" /\ raising[1] = DownOf(raising[2])
      <4>1. raising[2] \in InputEvents
        <5>1. raising \in Seq(InputEvents) /\ 2 \in 1 .. Len(raising)
          BY <1>2, <3>3
        <5>2. QED
          BY ONLY <5>1, ElementOfSeq
      <4>2. raising[1].type = "KEY_DOWN"
        BY <3>3, <4>1, DownIsDown
      <4>3. QED
        BY <1>4, <3>1, <4>2
    <3>4. CASE pending # <<>> /\ pending[n] = DownOf(raising[1])
      BY <1>2, <1>3, <1>4, <3>4, EmptySeq
    <3>5. QED
      BY <1>6, <3>2, <3>3, <3>4 DEF Paired, RaisingPaired
  <2>4. QueuePaired'
    <3>1. SUFFICES ASSUME NEW i \in 1 .. n + 1, pending'[i].type = "KEY_CHAR"
                   PROVE  DownOf(pending'[i]) = IF i = 1 THEN handled ELSE pending'[i - 1]
      BY <1>1, <2>2 DEF QueuePaired
    <3>2. CASE i <= n
      <4>1. i \in 1 .. n /\ pending'[i] = pending[i]
        BY <1>3, <2>2, <3>2
      <4>2. i # 1 => i - 1 \in 1 .. n
        BY <1>3, <4>1
      <4>3. i # 1 => pending'[i - 1] = pending[i - 1]
        BY <2>2, <4>2
      <4>4. DownOf(pending[i]) = IF i = 1 THEN handled ELSE pending[i - 1]
        BY <3>1, <4>1 DEF Paired, QueuePaired
      <4>5. QED
        BY <4>1, <4>3, <4>4
    <3>3. CASE i = n + 1
      <4>1. n > 0 /\ pending[n] = DownOf(h)
        BY <2>2, <2>3, <3>1, <3>3
      <4>2. i # 1 /\ i - 1 = n /\ n \in 1 .. n
        BY <1>3, <3>3, <4>1
      <4>3. pending'[i - 1] = DownOf(h) /\ pending'[i] = h
        BY <2>2, <3>3, <4>1, <4>2
      <4>4. QED
        BY <4>2, <4>3
    <3>4. QED
      BY <1>3, <3>2, <3>3
  <2>5. RaisingPaired'
    <3>1. CASE Keyless(raising)
      <4>1. \A i \in 1 .. r - 1 : raising'[i].type # "KEY_CHAR"
        BY <1>3, <1>4, <3>1 DEF Keyless
      <4>2. QED
        BY <1>4, <4>1 DEF RaisingPaired, Keyless
    <3>2. CASE r = 2 /\ raising[1] = DownOf(raising[2])
      <4>1. Len(raising') = 1 /\ raising'[1] = raising[2]
        BY <1>4, <3>2
      <4>2. pending' # <<>> /\ pending'[Len(pending')] = h
        <5>1. Len(pending') # 0
          BY <1>3, <2>2
        <5>2. QED
          BY <2>2, <5>1
      <4>3. QED
        BY <1>4, <3>2, <4>1, <4>2 DEF RaisingPaired
    <3>3. CASE r = 1
      <4>1. Len(raising') = 0
        BY <1>4, <3>3
      <4>2. QED
        BY <4>1 DEF RaisingPaired, Keyless
    <3>4. QED
      BY <3>1, <3>2, <3>3 DEF Paired, RaisingPaired
  <2>6. QED
    BY <2>4, <2>5 DEF Paired
<1>7. QED
  BY <1>5, <1>6

LEMMA DispatchKeepsPaired ==
  ASSUME QueueTyped, Paired, Dispatch
  PROVE  Paired'
<1>1. /\ pending # <<>> /\ pending' = Tail(pending) /\ handled' = Head(pending)
      /\ raising' = <<>>
  BY DEF Dispatch, Poll, Goes
<1>2. pending \in Seq(InputEvents) /\ Len(pending) \in Nat
  BY LenProperties DEF QueueTyped
<1>3. /\ handled' = pending[1]
      /\ Len(pending') = Len(pending) - 1
      /\ \A i \in 1 .. Len(pending) - 1 : pending'[i] = pending[i + 1]
  BY <1>1, <1>2, HeadTailProperties
<1>4. QueuePaired'
  <2>1. SUFFICES ASSUME NEW i \in 1 .. Len(pending) - 1, pending'[i].type = "KEY_CHAR"
                 PROVE  DownOf(pending'[i]) = IF i = 1 THEN handled' ELSE pending'[i - 1]
    BY <1>3 DEF QueuePaired
  <2>2. i + 1 \in 1 .. Len(pending) /\ i + 1 # 1 /\ (i + 1) - 1 = i
    BY <1>2
  <2>3. pending'[i] = pending[i + 1]
    BY <1>3
  <2>4. DownOf(pending[i + 1]) = pending[i]
    BY <2>1, <2>2, <2>3 DEF Paired, QueuePaired
  <2>5. i # 1 => pending'[i - 1] = pending[i]
    <3>1. i # 1 => i - 1 \in 1 .. Len(pending) - 1 /\ (i - 1) + 1 = i
      BY <1>2
    <3>2. QED
      BY <1>3, <3>1
  <2>6. QED
    BY <1>3, <2>3, <2>4, <2>5
<1>5. RaisingPaired'
  BY <1>1 DEF RaisingPaired, Keyless
<1>6. QED
  BY <1>4, <1>5 DEF Paired

LEMMA PairedStep == CursorKept /\ QueueTyped /\ Paired /\ [Next]_vars => Paired'
<1> SUFFICES ASSUME CursorKept, QueueTyped, Paired, [Next]_vars PROVE Paired'
  OBVIOUS
<1>1. CASE \/ SerialInterrupt \/ Cli \/ HideCursor \/ DispatchDone
           \/ MousePoll \/ AiPoll \/ Show \/ UNCHANGED vars
  BY <1>1, QuietSteps DEF queueVars, Paired, QueuePaired, RaisingPaired, Keyless, IsFull
<1>2. CASE KeyboardInterrupt
  <2>1. PICK byte \in Scancodes : KeyboardIrq(byte)
    BY <1>2 DEF KeyboardInterrupt
  <2>2. raising' = KeyEvents(byte) /\ UNCHANGED <<pending, handled>>
    BY <1>2, <2>1 DEF KeyboardInterrupt, KeyboardIrq
  <2>3. RaisingPaired'
    <3>1. byte \in Byte /\ shiftPressed \in BOOLEAN
      BY LoopAssumption DEF QueueTyped
    <3>2. \/ Keyless(raising')
          \/ /\ Len(raising') = 2 /\ raising'[2].type = "KEY_CHAR"
             /\ raising'[1] = DownOf(raising'[2])
      BY <2>2, <3>1, KeyPairs
    <3>3. QED
      BY <3>2 DEF RaisingPaired, Keyless, DownOf
  <2>4. QED
    BY <2>2, <2>3 DEF Paired, QueuePaired
<1>3. CASE MouseInterrupt
  <2>1. UNCHANGED <<pending, handled>> /\ raising = <<>>
    BY <1>3, MouseRaises
  <2>2. Keyless(raising')
    <3>1. CASE UNCHANGED raising
      BY <2>1, <3>1 DEF Keyless
    <3>2. CASE \E dx, dy \in Int :
                 raising' = MoveEvents(dx, dy) \o ButtonEvents(buttons, buttons')
      BY <3>2, PacketEvents
    <3>3. QED
      BY <1>3, <3>1, <3>2, MouseRaises
  <2>3. QED
    BY <2>1, <2>2 DEF Paired, QueuePaired, RaisingPaired, Keyless
<1>4. CASE HandlerPush
  BY <1>4, PushKeepsPaired
<1>5. CASE Dispatch
  BY <1>5, DispatchKeepsPaired
<1>6. QED
  BY <1>1, <1>2, <1>3, <1>4, <1>5 DEF Next, Interrupt, LoopStep

LEMMA PairedInit == Init => Paired
  BY DEF Init, DriversInit, FifoInit, Paired, QueuePaired, RaisingPaired, Keyless

(* The queue may be full for a KEY_DOWN and others may come while it waits: *)
(* a screen still gets a KEY_CHAR only straight after its own KEY_DOWN.     *)
THEOREM CharsFollowKeys == Spec => CharFollowsDown
<1>1. QueueTyped /\ QueueTyped' /\ Paired =>
        [ Len(pending') < Len(pending) /\ Head(pending).type = "KEY_CHAR" =>
            handled = [Head(pending) EXCEPT !.type = "KEY_DOWN"] ]_vars
  <2>1. SUFFICES ASSUME QueueTyped, QueueTyped', Paired, Len(pending') < Len(pending),
                        Head(pending).type = "KEY_CHAR"
                 PROVE  handled = DownOf(Head(pending))
    BY DEF DownOf
  <2>2. pending \in Seq(InputEvents)
    BY <2>1 DEF QueueTyped
  <2>3. CASE pending = <<>>
    <3>1. Len(pending') \in Nat /\ Len(pending) = 0
      BY <2>1, <2>3, LenProperties DEF QueueTyped
    <3>2. QED
      BY <2>1, <3>1
  <2>4. CASE pending # <<>>
    <3>1. Head(pending) = pending[1] /\ 1 \in 1 .. Len(pending)
      BY <2>2, <2>4, HeadTailProperties, LenProperties, EmptySeq
    <3>2. QED
      BY <2>1, <3>1 DEF Paired, QueuePaired
  <2>5. QED
    BY <2>3, <2>4
<1>2. Spec => []Paired
  BY TypedInvariant, PairedInit, PairedStep, PTL DEF Spec
<1>3. QED
  BY <1>1, <1>2, TypedInvariant, PTL DEF Spec, CharFollowsDown

-----------------------------------------------------------------------------
(* A set of naturals that is not empty has a least element.                *)
LEMMA LeastNat ==
  ASSUME NEW S \in SUBSET Nat, S # {}
  PROVE  \E n \in S : \A k \in S : n <= k
<1> DEFINE R == {p \in Nat \X Nat : p[1] < p[2]}
<1>1. IsWellFoundedOn(R, Nat)
  BY NatLessThanWellFounded DEF OpToRel
<1>2. PICK n \in S : \A k \in S : <<k, n>> \notin R
  BY <1>1, WFMin
<1>3. ASSUME NEW k \in S PROVE n <= k
  <2>1. ~(k < n)
    BY <1>2
  <2>2. QED
    BY <2>1
<1>4. QED
  BY <1>3

-----------------------------------------------------------------------------
(* What events do to a button. Turns relates what a button was to what it   *)
(* is; it composes over the concatenation of events, and splits.           *)
Edges(events, b) == {i \in 1 .. Len(events) : IsEdgeOf(events[i], b)}

IsLast(i, events, b) == i \in Edges(events, b) /\ \A j \in Edges(events, b) : j <= i

Presses(event) == event.type = "MOUSE_BUTTON_DOWN"

LEMMA TurnsIs ==
  ASSUME NEW events, NEW b, NEW was, NEW now
  PROVE  Turns(events, b, was, now) <=>
           \/ Edges(events, b) = {} /\ was = now
           \/ \E i : IsLast(i, events, b) /\ now = Presses(events[i])
<1>1. CASE Edges(events, b) = {}
  BY <1>1 DEF Turns, Edges, IsLast
<1>2. CASE Edges(events, b) # {}
  BY <1>2 DEF Turns, Edges, IsLast, Presses
<1>3. QED
  BY <1>1, <1>2

LEMMA EdgesOfConcat ==
  ASSUME NEW s \in Seq(InputEvents), NEW t \in Seq(InputEvents), NEW b
  PROVE  /\ Edges(t, b) = {} => /\ Edges(s \o t, b) = Edges(s, b)
                               /\ \A i \in Edges(s, b) : (s \o t)[i] = s[i]
         /\ \A i \in Int : IsLast(i, t, b) =>
              IsLast(i + Len(s), s \o t, b) /\ (s \o t)[i + Len(s)] = t[i]
<1>1. /\ Len(s \o t) = Len(s) + Len(t)
      /\ \A i \in 1 .. Len(s) + Len(t) :
           (s \o t)[i] = IF i <= Len(s) THEN s[i] ELSE t[i - Len(s)]
  BY ConcatProperties
<1>2. Len(s) \in Nat /\ Len(t) \in Nat
  BY LenProperties
<1>3. \A i \in 1 .. Len(s) : i \in 1 .. Len(s) + Len(t) /\ (s \o t)[i] = s[i]
  BY <1>1, <1>2
<1>4. \A i \in 1 .. Len(t) :
        i + Len(s) \in 1 .. Len(s) + Len(t) /\ (s \o t)[i + Len(s)] = t[i]
  BY <1>1, <1>2
<1>5. \A k \in Edges(s \o t, b) : k \in Edges(s, b) \/ k - Len(s) \in Edges(t, b)
  <2>1. SUFFICES ASSUME NEW k \in Edges(s \o t, b)
                 PROVE  k \in Edges(s, b) \/ k - Len(s) \in Edges(t, b)
    OBVIOUS
  <2>2. k \in 1 .. Len(s) + Len(t) /\ IsEdgeOf((s \o t)[k], b)
    BY <1>1 DEF Edges
  <2>3. CASE k <= Len(s)
    <3>1. k \in 1 .. Len(s) /\ (s \o t)[k] = s[k]
      BY <1>1, <1>2, <2>2, <2>3
    <3>2. QED
      BY <2>2, <3>1 DEF Edges
  <2>4. CASE ~(k <= Len(s))
    <3>1. k - Len(s) \in 1 .. Len(t) /\ (s \o t)[k] = t[k - Len(s)]
      BY <1>1, <1>2, <2>2, <2>4
    <3>2. QED
      BY <2>2, <3>1 DEF Edges
  <2>5. QED
    BY <2>3, <2>4
<1>6. \A i \in Edges(s, b) : i \in Edges(s \o t, b) /\ (s \o t)[i] = s[i]
  BY <1>1, <1>3 DEF Edges
<1>7. ASSUME NEW i \in Int, IsLast(i, t, b)
      PROVE  IsLast(i + Len(s), s \o t, b) /\ (s \o t)[i + Len(s)] = t[i]
  <2>1. i \in 1 .. Len(t) /\ IsEdgeOf(t[i], b)
    BY <1>7 DEF IsLast, Edges
  <2>2. i + Len(s) \in Edges(s \o t, b) /\ (s \o t)[i + Len(s)] = t[i]
    BY <1>1, <1>4, <2>1 DEF Edges
  <2>3. ASSUME NEW k \in Edges(s \o t, b) PROVE k <= i + Len(s)
    <3>1. CASE k \in Edges(s, b)
      <4>1. k \in 1 .. Len(s)
        BY <3>1 DEF Edges
      <4>2. QED
        BY <1>2, <2>1, <4>1
    <3>2. CASE k - Len(s) \in Edges(t, b)
      <4>1. k - Len(s) <= i
        BY <1>7, <3>2 DEF IsLast
      <4>2. k \in Int
        BY <1>1, <1>2 DEF Edges
      <4>3. QED
        BY <1>2, <2>1, <4>1, <4>2
    <3>3. QED
      BY <1>5, <3>1, <3>2
  <2>4. QED
    BY <2>2, <2>3 DEF IsLast
<1>8. ASSUME Edges(t, b) = {} PROVE Edges(s \o t, b) = Edges(s, b)
  BY <1>5, <1>6, <1>8
<1>9. QED
  BY <1>6, <1>7, <1>8

LEMMA LastExists ==
  ASSUME NEW s \in Seq(InputEvents), NEW b, Edges(s, b) # {}
  PROVE  \E i : IsLast(i, s, b)
<1> DEFINE E == Edges(s, b)
           n == Len(s)
           D == {m \in Nat : \E i \in E : m = n - i}
<1>1. n \in Nat /\ E \subseteq 1 .. n
  BY LenProperties DEF Edges
<1>2. D \in SUBSET Nat /\ D # {}
  <2>1. PICK i \in E : TRUE
    OBVIOUS
  <2>2. i \in 1 .. n
    BY <1>1, <2>1
  <2>3. n - i \in Nat
    BY <1>1, <2>2
  <2>4. QED
    BY <2>1, <2>3
<1>3. PICK m \in D : \A k \in D : m <= k
  <2> HIDE DEF D
  <2>1. QED
    BY <1>2, LeastNat
<1>4. PICK i \in E : m = n - i
  BY <1>3
<1>5. ASSUME NEW j \in E PROVE j <= i
  <2>1. j \in 1 .. n /\ i \in 1 .. n
    BY <1>1, <1>4, <1>5
  <2>2. n - j \in D
    BY <1>1, <1>5, <2>1
  <2>3. m <= n - j
    BY <1>3, <2>2
  <2>4. QED
    BY <1>1, <1>4, <2>1, <2>3
<1>6. QED
  BY <1>4, <1>5 DEF IsLast

LEMMA TurnsCompose ==
  ASSUME NEW s \in Seq(InputEvents), NEW t \in Seq(InputEvents), NEW b,
         NEW was, NEW mid, NEW now,
         Turns(s, b, was, mid), Turns(t, b, mid, now)
  PROVE  Turns(s \o t, b, was, now)
<1>1. CASE Edges(t, b) = {}
  <2>1. mid = now
    BY <1>1, TurnsIs DEF IsLast
  <2>2. Edges(s \o t, b) = Edges(s, b) /\ \A i \in Edges(s, b) : (s \o t)[i] = s[i]
    BY <1>1, EdgesOfConcat
  <2>3. \A i : IsLast(i, s, b) => IsLast(i, s \o t, b) /\ (s \o t)[i] = s[i]
    BY <2>2 DEF IsLast
  <2>4. \/ Edges(s, b) = {} /\ was = now
        \/ \E i : IsLast(i, s, b) /\ now = Presses(s[i])
    BY <2>1, TurnsIs
  <2>5. \/ Edges(s \o t, b) = {} /\ was = now
        \/ \E i : IsLast(i, s \o t, b) /\ now = Presses((s \o t)[i])
    BY <2>2, <2>3, <2>4
  <2>6. QED
    BY <2>5, TurnsIs
<1>2. CASE Edges(t, b) # {}
  <2>1. PICK i : IsLast(i, t, b) /\ now = Presses(t[i])
    BY <1>2, TurnsIs
  <2>2. IsLast(i + Len(s), s \o t, b) /\ (s \o t)[i + Len(s)] = t[i]
    <3>1. i \in Int
      BY <2>1 DEF IsLast, Edges
    <3>2. \A k \in Int : IsLast(k, t, b) =>
            IsLast(k + Len(s), s \o t, b) /\ (s \o t)[k + Len(s)] = t[k]
      BY ONLY EdgesOfConcat, s \in Seq(InputEvents), t \in Seq(InputEvents)
    <3>3. QED
      BY ONLY <2>1, <3>1, <3>2
  <2>3. \E k : IsLast(k, s \o t, b) /\ now = Presses((s \o t)[k])
    BY <2>1, <2>2
  <2>4. QED
    BY <2>3, TurnsIs
<1>3. QED
  BY <1>1, <1>2

LEMMA TurnsSplit ==
  ASSUME NEW s \in Seq(InputEvents), NEW t \in Seq(InputEvents), NEW b,
         NEW was, NEW now, Turns(s \o t, b, was, now)
  PROVE  \E mid : Turns(s, b, was, mid) /\ Turns(t, b, mid, now)
<1>1. CASE Edges(t, b) = {}
  <2>1. Turns(t, b, now, now)
    BY <1>1, TurnsIs
  <2>2. Edges(s \o t, b) = Edges(s, b) /\ \A i \in Edges(s, b) : (s \o t)[i] = s[i]
    BY <1>1, EdgesOfConcat
  <2>3. \A i : IsLast(i, s \o t, b) => IsLast(i, s, b) /\ (s \o t)[i] = s[i]
    BY <2>2 DEF IsLast
  <2>4. \/ Edges(s \o t, b) = {} /\ was = now
        \/ \E i : IsLast(i, s \o t, b) /\ now = Presses((s \o t)[i])
    BY TurnsIs
  <2>5. \/ Edges(s, b) = {} /\ was = now
        \/ \E i : IsLast(i, s, b) /\ now = Presses(s[i])
    BY <2>2, <2>3, <2>4
  <2>6. Turns(s, b, was, now)
    BY <2>5, TurnsIs
  <2>7. QED
    BY <2>1, <2>6
<1>2. CASE Edges(t, b) # {}
  <2>1. PICK i : IsLast(i, t, b)
    BY <1>2, LastExists
  <2>2. IsLast(i + Len(s), s \o t, b) /\ (s \o t)[i + Len(s)] = t[i]
    <3>1. i \in Int
      BY <2>1 DEF IsLast, Edges
    <3>2. \A k \in Int : IsLast(k, t, b) =>
            IsLast(k + Len(s), s \o t, b) /\ (s \o t)[k + Len(s)] = t[k]
      BY ONLY EdgesOfConcat, s \in Seq(InputEvents), t \in Seq(InputEvents)
    <3>3. QED
      BY ONLY <2>1, <3>1, <3>2
  <2>3. PICK k : IsLast(k, s \o t, b) /\ now = Presses((s \o t)[k])
    <3>1. Edges(s \o t, b) # {}
      BY <2>2 DEF IsLast
    <3>2. QED
      BY <3>1, TurnsIs
  <2>4. k = i + Len(s)
    <3>1. k <= i + Len(s) /\ i + Len(s) <= k
      BY <2>2, <2>3 DEF IsLast
    <3>2. k \in Int /\ i + Len(s) \in Int
      BY <2>2, <2>3 DEF IsLast, Edges
    <3>3. QED
      BY <3>1, <3>2
  <2>5. now = Presses(t[i])
    BY <2>2, <2>3, <2>4
  <2>6. \A mid : Turns(t, b, mid, now)
    BY <2>1, <2>5, TurnsIs
  <2>7. \E mid : Turns(s, b, was, mid)
    <3>1. CASE Edges(s, b) = {}
      BY <3>1, TurnsIs
    <3>2. CASE Edges(s, b) # {}
      BY <3>2, LastExists, TurnsIs
    <3>3. QED
      BY <3>1, <3>2
  <2>8. QED
    BY <2>6, <2>7
<1>3. QED
  BY <1>1, <1>2

LEMMA TurnsShort ==
  ASSUME NEW b, NEW was
  PROVE  /\ Turns(<<>>, b, was, was)
         /\ \A event \in InputEvents : \A now :
              Turns(<<event>>, b, was, now) <=>
                IF IsEdgeOf(event, b) THEN now = Presses(event) ELSE was = now
<1>1. Turns(<<>>, b, was, was)
  <2>1. Edges(<<>>, b) = {}
    BY DEF Edges
  <2>2. QED
    BY <2>1, TurnsIs
<1>2. ASSUME NEW event \in InputEvents, NEW now
      PROVE  Turns(<<event>>, b, was, now) <=>
               IF IsEdgeOf(event, b) THEN now = Presses(event) ELSE was = now
  <2>1. Edges(<<event>>, b) = IF IsEdgeOf(event, b) THEN {1} ELSE {}
    BY OneEvent DEF Edges
  <2>2. \A i : IsLast(i, <<event>>, b) <=> IsEdgeOf(event, b) /\ i = 1
    BY <2>1 DEF IsLast
  <2>3. <<event>>[1] = event
    BY OneEvent
  <2>4. CASE IsEdgeOf(event, b)
    BY <2>1, <2>2, <2>3, <2>4, TurnsIs
  <2>5. CASE ~IsEdgeOf(event, b)
    BY <2>1, <2>2, <2>5, TurnsIs
  <2>6. QED
    BY <2>4, <2>5
<1>3. QED
  BY <1>1, <1>2

(* A packet's events turn each button from the old state to the new one.    *)
LEMMA PacketTurns ==
  ASSUME NEW dx \in Int, NEW dy \in Int, NEW b \in ButtonIds,
         NEW old, NEW new \in [ButtonIds -> BOOLEAN]
  PROVE  Turns(MoveEvents(dx, dy) \o ButtonEvents(old, new), b, old[b], new[b])
<1> DEFINE m == MoveEvents(dx, dy)
           e(k) == ButtonEvent(k, old, new)
<1>1. m \in Seq(InputEvents) /\ \A v : Turns(m, b, v, v)
  <2> DEFINE moved == Event("MOUSE_MOVE", 0, FALSE)
  <2>1. moved \in InputEvents /\ moved.type = "MOUSE_MOVE"
    <3>1. "MOUSE_MOVE" \in Types /\ 0 \in Byte /\ FALSE \in BOOLEAN
      BY DEF Types, Byte
    <3>2. QED
      BY <3>1, EventTyped
  <2>2. m = <<>> \/ m = <<moved>>
    BY DEF MoveEvents
  <2> HIDE DEF moved, m
  <2>3. ~IsEdgeOf(moved, b)
    BY <2>1 DEF IsEdgeOf, IsEdge
  <2>4. CASE m = <<>>
    BY <2>4, TurnsShort
  <2>5. CASE m = <<moved>>
    <3>1. <<moved>> \in Seq(InputEvents)
      BY <2>1, OneEvent
    <3>2. \A v : Turns(<<moved>>, b, v, v)
      BY <2>1, <2>3, TurnsShort
    <3>3. QED
      BY <2>5, <3>1, <3>2
  <2>6. QED
    BY <2>2, <2>4, <2>5
<1>2. ASSUME NEW k \in ButtonIds
      PROVE  /\ e(k) \in Seq(InputEvents)
             /\ k # b => \A v : Turns(e(k), b, v, v)
             /\ k = b => Turns(e(k), b, old[b], new[b])
  <2> DEFINE type == IF new[k] THEN "MOUSE_BUTTON_DOWN" ELSE "MOUSE_BUTTON_UP"
             event == Event(type, k, FALSE)
  <2>1. event \in InputEvents /\ event.type = type /\ event.code = k
    <3>1. type \in Types /\ k \in Byte /\ FALSE \in BOOLEAN
      BY DEF Types, Byte, ButtonIds
    <3> HIDE DEF type
    <3>2. QED
      BY <3>1, EventTyped
  <2>2. e(k) \in Seq(InputEvents)
    BY ButtonEventTyped
  <2>3. CASE old[k] = new[k]
    <3>1. e(k) = <<>>
      BY <2>3 DEF ButtonEvent
    <3>2. QED
      BY <2>2, <2>3, <3>1, TurnsShort
  <2>4. CASE old[k] # new[k]
    <3>1. e(k) = <<event>>
      BY <2>4 DEF ButtonEvent
    <3>2. IsEdgeOf(event, b) <=> k = b
      <4>1. IsEdge(event)
        BY <2>1 DEF IsEdge
      <4> HIDE DEF event
      <4>2. QED
        BY <2>1, <4>1 DEF IsEdgeOf
    <3>3. new[k] = Presses(event)
      BY <2>1 DEF Presses
    <3> HIDE DEF event
    <3>4. k # b => \A v : Turns(<<event>>, b, v, v)
      BY <2>1, <3>2, TurnsShort
    <3>5. k = b => Turns(<<event>>, b, old[b], new[b])
      <4>1. k = b => IsEdgeOf(event, b) /\ new[b] = Presses(event)
        BY <3>2, <3>3
      <4> HIDE DEF e
      <4>2. event \in InputEvents
        BY <2>1
      <4>3. Turns(<<event>>, b, old[b], new[b]) <=>
              IF IsEdgeOf(event, b) THEN new[b] = Presses(event) ELSE old[b] = new[b]
        BY <4>2, TurnsShort
      <4>4. QED
        BY <4>1, <4>3
    <3>6. CASE k = b
      BY <2>2, <3>1, <3>5, <3>6
    <3>7. CASE k # b
      BY <2>2, <3>1, <3>4, <3>7
    <3>8. QED
      BY <3>6, <3>7
  <2>5. QED
    BY <2>3, <2>4
<1> DEFINE e1 == e(1)
           e2 == e(2)
           e3 == e(3)
<1>3. ButtonEvents(old, new) = e1 \o e2 \o e3
  BY DEF ButtonEvents
<1>4. 1 \in ButtonIds /\ 2 \in ButtonIds /\ 3 \in ButtonIds /\ (b = 1 \/ b = 2 \/ b = 3)
  BY DEF ButtonIds
<1>5. e1 \in Seq(InputEvents) /\ e2 \in Seq(InputEvents) /\ e3 \in Seq(InputEvents)
  BY <1>2, <1>4
<1>a. /\ 1 # b => \A v : Turns(e1, b, v, v)
      /\ 1 = b => Turns(e1, b, old[b], new[b])
  BY <1>2, <1>4
<1>b. /\ 2 # b => \A v : Turns(e2, b, v, v)
      /\ 2 = b => Turns(e2, b, old[b], new[b])
  BY <1>2, <1>4
<1>c. /\ 3 # b => \A v : Turns(e3, b, v, v)
      /\ 3 = b => Turns(e3, b, old[b], new[b])
  BY <1>2, <1>4
<1> HIDE DEF m, e, e1, e2, e3
<1>6. \E v, w : Turns(e1, b, old[b], v) /\ Turns(e2, b, v, w) /\ Turns(e3, b, w, new[b])
  <2>1. CASE b = 1
    BY <1>a, <1>b, <1>c, <2>1
  <2>2. CASE b = 2
    BY <1>a, <1>b, <1>c, <2>2
  <2>3. CASE b = 3
    BY <1>a, <1>b, <1>c, <2>3
  <2>4. QED
    BY <1>4, <2>1, <2>2, <2>3
<1>7. PICK v, w : Turns(e1, b, old[b], v) /\ Turns(e2, b, v, w) /\ Turns(e3, b, w, new[b])
  BY <1>6
<1>8. e1 \o e2 \in Seq(InputEvents) /\ e1 \o e2 \o e3 \in Seq(InputEvents)
  BY <1>5, ConcatProperties
<1>9. Turns(e1 \o e2, b, old[b], w)
  BY <1>5, <1>7, TurnsCompose
<1>10. Turns(e1 \o e2 \o e3, b, old[b], new[b])
  BY <1>5, <1>7, <1>8, <1>9, TurnsCompose
<1>11. Turns(m, b, old[b], old[b])
  BY <1>1
<1>12. Turns(m \o ButtonEvents(old, new), b, old[b], new[b])
  BY <1>1, <1>3, <1>8, <1>10, <1>11, TurnsCompose
<1>13. QED
  BY <1>12 DEF m

(* A key's events turn no button. *)
LEMMA KeyTurnsNothing ==
  ASSUME NEW byte \in Byte, shiftPressed \in BOOLEAN, NEW b, NEW v
  PROVE  Turns(KeyEvents(byte), b, v, v)
<1>1. Edges(KeyEvents(byte), b) = {}
  BY KeyPairs DEF Edges, IsEdgeOf
<1>2. QED
  BY <1>1, TurnsIs

-----------------------------------------------------------------------------
Sums(b) == Turns(pending \o raising, b, seen[b], buttons[b])

LEMMA ConsOf ==
  ASSUME NEW s \in Seq(InputEvents), s # <<>>
  PROVE  /\ Head(s) \in InputEvents /\ Tail(s) \in Seq(InputEvents)
         /\ <<Head(s)>> \in Seq(InputEvents) /\ s = <<Head(s)>> \o Tail(s)
<1>1. Head(s) \in InputEvents /\ Tail(s) \in Seq(InputEvents)
  BY HeadTailProperties
<1>2. <<Head(s)>> \in Seq(InputEvents)
  BY <1>1, OneEvent
<1>3. s = <<Head(s)>> \o Tail(s)
  <2> DEFINE h == Head(s)
             u == <<h>> \o Tail(s)
             n == Len(s)
  <2>1. /\ Len(<<h>>) = 1 /\ <<h>>[1] = h
        /\ h = s[1] /\ Len(Tail(s)) = n - 1
        /\ \A i \in 1 .. n - 1 : Tail(s)[i] = s[i + 1]
        /\ n \in Nat
    BY <1>1, OneEvent, HeadTailProperties, LenProperties
  <2>2. /\ u \in Seq(InputEvents) /\ Len(u) = 1 + (n - 1)
        /\ \A i \in 1 .. 1 + (n - 1) : u[i] = IF i <= 1 THEN <<h>>[i] ELSE Tail(s)[i - 1]
    <3> HIDE DEF h
    <3>1. QED
      BY <1>1, <1>2, <2>1, ConcatProperties DEF h
  <2> HIDE DEF h, u, n
  <2>3. ASSUME NEW i \in 1 .. n PROVE u[i] = s[i]
    <3>1. CASE i = 1
      BY <2>1, <2>2, <3>1
    <3>2. CASE i # 1
      <4>1. i - 1 \in 1 .. n - 1 /\ (i - 1) + 1 = i /\ i \in 1 .. 1 + (n - 1) /\ ~(i <= 1)
        BY <2>1, <3>2
      <4>2. QED
        BY <2>1, <2>2, <4>1
    <3>3. QED
      BY <3>1, <3>2
  <2>4. Len(u) = Len(s)
    BY <2>1, <2>2 DEF n
  <2>5. \A i \in 1 .. Len(s) : u[i] = s[i]
    BY <2>3 DEF n
  <2>6. u = s
    BY <2>2, <2>4, <2>5, SeqEqual
  <2>7. QED
    BY <2>6 DEF u, h
<1>4. QED
  BY <1>1, <1>2, <1>3

(* What is pushed moves from the handler to the queue; what is dropped is no *)
(* button's event, or is noted.                                            *)
LEMMA PushKeepsSums ==
  ASSUME QueueTyped, HandlerPush, ~edgeLost', NEW b, ~edgeLost => Sums(b)
  PROVE  Sums(b)'
<1>1. /\ raising # <<>> /\ Push(Head(raising)) /\ raising' = Tail(raising)
      /\ ~edgeLost /\ ~(IsFull /\ IsEdge(Head(raising)))
      /\ UNCHANGED <<seen, buttons>>
  BY DEF HandlerPush, RaiseNext, loopVars, mouseVars
<1>2. pending \in Seq(InputEvents) /\ raising \in Seq(InputEvents)
  BY DEF QueueTyped
<1> DEFINE h == Head(raising)
           t == Tail(raising)
<1>3. /\ h \in InputEvents /\ t \in Seq(InputEvents)
      /\ <<h>> \in Seq(InputEvents) /\ raising = <<h>> \o t
  BY <1>1, <1>2, ConsOf
<1>4. PICK u : Turns(pending, b, seen[b], u) /\ Turns(raising, b, u, buttons[b])
  BY <1>1, <1>2, TurnsSplit DEF Sums
<1> HIDE DEF h, t
<1>5. PICK v : Turns(<<h>>, b, u, v) /\ Turns(t, b, v, buttons[b])
  BY <1>3, <1>4, TurnsSplit
<1>6. CASE IsFull
  <2>1. pending' = pending /\ raising' = t
    BY <1>1, <1>6 DEF Push, t
  <2>2. ~IsEdgeOf(h, b)
    BY <1>1, <1>6 DEF IsEdgeOf, h
  <2>3. u = v
    BY <1>3, <1>5, <2>2, TurnsShort
  <2>4. Turns(pending \o t, b, seen[b], buttons[b])
    BY <1>2, <1>3, <1>4, <1>5, <2>3, TurnsCompose
  <2>5. QED
    BY <1>1, <2>1, <2>4 DEF Sums
<1>7. CASE ~IsFull
  <2>1. pending' = pending \o <<h>> /\ raising' = t
    BY <1>1, <1>2, <1>3, <1>7, AppendIsConcat DEF Push, h, t
  <2>2. pending \o <<h>> \in Seq(InputEvents)
    BY <1>2, <1>3, ConcatProperties
  <2>3. Turns(pending \o <<h>>, b, seen[b], v)
    BY <1>2, <1>3, <1>4, <1>5, TurnsCompose
  <2>4. Turns((pending \o <<h>>) \o t, b, seen[b], buttons[b])
    BY <1>3, <1>5, <2>2, <2>3, TurnsCompose
  <2>5. QED
    BY <1>1, <2>1, <2>4 DEF Sums
<1>8. QED
  BY <1>6, <1>7

(* What is dispatched moves from the queue to what the screens have seen.   *)
LEMMA DispatchKeepsSums ==
  ASSUME QueueTyped, Dispatch, NEW b \in ButtonIds, Sums(b)
  PROVE  Sums(b)'
<1>1. /\ pending # <<>> /\ pending' = Tail(pending)
      /\ raising = <<>> /\ raising' = <<>>
      /\ seen' = SeenAfter(seen, Head(pending)) /\ buttons' = buttons
  BY DEF Dispatch, Poll, Goes, mouseVars
<1>2. pending \in Seq(InputEvents) /\ seen \in [ButtonIds -> BOOLEAN]
  BY DEF QueueTyped
<1> DEFINE h == Head(pending)
           t == Tail(pending)
<1>3. /\ h \in InputEvents /\ t \in Seq(InputEvents)
      /\ <<h>> \in Seq(InputEvents) /\ pending = <<h>> \o t
  BY <1>1, <1>2, ConsOf
<1>4. Turns(pending, b, seen[b], buttons[b])
  BY <1>1, <1>2, ConcatEmptySeq DEF Sums
<1>5. t \o <<>> = t
  BY <1>3, ConcatEmptySeq
<1>6. seen' = SeenAfter(seen, h) /\ pending' = t
  BY <1>1
<1> HIDE DEF h, t
<1>7. PICK v : Turns(<<h>>, b, seen[b], v) /\ Turns(t, b, v, buttons[b])
  BY <1>3, <1>4, TurnsSplit
<1>8. v = seen'[b]
  <2>1. CASE IsEdgeOf(h, b)
    <3>1. v = Presses(h)
      BY <1>3, <1>7, <2>1, TurnsShort
    <3>2. seen'[b] = Presses(h)
      BY <1>2, <1>6, <2>1 DEF SeenAfter, IsEdgeOf, Presses
    <3>3. QED
      BY <3>1, <3>2
  <2>2. CASE ~IsEdgeOf(h, b)
    <3>1. v = seen[b]
      BY <1>3, <1>7, <2>2, TurnsShort
    <3>2. seen'[b] = seen[b]
      BY <1>2, <1>6, <2>2 DEF SeenAfter, IsEdgeOf
    <3>3. QED
      BY <3>1, <3>2
  <2>3. QED
    BY <2>1, <2>2
<1>9. QED
  BY <1>1, <1>5, <1>6, <1>7, <1>8 DEF Sums

Summed == ~edgeLost => \A b \in ButtonIds : Sums(b)

LEMMA SumsStep == CursorKept /\ QueueTyped /\ Summed /\ [Next]_vars => Summed'
<1> SUFFICES ASSUME CursorKept, QueueTyped, Summed, [Next]_vars, ~edgeLost',
                    NEW b \in ButtonIds
             PROVE  Sums(b)'
  BY DEF Summed
<1>1. CASE \/ SerialInterrupt \/ Cli \/ HideCursor \/ DispatchDone
           \/ MousePoll \/ AiPoll \/ Show \/ UNCHANGED vars
  BY <1>1, QuietSteps DEF queueVars, Summed, Sums
<1>2. CASE KeyboardInterrupt
  <2>1. PICK byte \in Scancodes : KeyboardIrq(byte)
    BY <1>2 DEF KeyboardInterrupt
  <2>2. /\ raising = <<>> /\ raising' = KeyEvents(byte)
        /\ UNCHANGED <<pending, seen, buttons, edgeLost>>
    BY <1>2, <2>1 DEF KeyboardInterrupt, KeyboardIrq, mouseVars
  <2>3. byte \in Byte /\ shiftPressed \in BOOLEAN /\ pending \in Seq(InputEvents)
    BY LoopAssumption DEF QueueTyped
  <2>4. Turns(pending, b, seen[b], buttons[b])
    BY <2>2, <2>3, ConcatEmptySeq DEF Summed, Sums
  <2>5. KeyEvents(byte) \in Seq(InputEvents) /\ Turns(KeyEvents(byte), b, buttons[b], buttons[b])
    BY <2>3, KeyPairs, KeyTurnsNothing
  <2>6. Turns(pending \o KeyEvents(byte), b, seen[b], buttons[b])
    BY <2>3, <2>4, <2>5, TurnsCompose
  <2>7. QED
    BY <2>2, <2>6 DEF Sums
<1>3. CASE MouseInterrupt
  <2>1. raising = <<>> /\ UNCHANGED <<pending, seen, edgeLost>>
    BY <1>3, MouseRaises
  <2>2. CASE UNCHANGED <<raising, buttons>>
    BY <2>1, <2>2 DEF Summed, Sums
  <2>3. CASE /\ buttons' \in [ButtonIds -> BOOLEAN]
             /\ \E dx, dy \in Int :
                  raising' = MoveEvents(dx, dy) \o ButtonEvents(buttons, buttons')
    <3>1. Turns(raising', b, buttons[b], buttons'[b]) /\ raising' \in Seq(InputEvents)
      BY <2>3, PacketTurns, PacketEvents
    <3>2. pending \in Seq(InputEvents)
      BY DEF QueueTyped
    <3>3. Turns(pending, b, seen[b], buttons[b])
      BY <2>1, <3>2, ConcatEmptySeq DEF Summed, Sums
    <3>4. Turns(pending \o raising', b, seen[b], buttons'[b])
      BY <3>1, <3>2, <3>3, TurnsCompose
    <3>5. QED
      BY <2>1, <3>4 DEF Sums
  <2>4. QED
    BY <1>3, <2>2, <2>3, MouseRaises
<1>4. CASE HandlerPush
  BY <1>4, PushKeepsSums DEF Summed
<1>5. CASE Dispatch
  <2>1. ~edgeLost
    BY <1>5 DEF Dispatch
  <2>2. QED
    BY <1>5, <2>1, DispatchKeepsSums DEF Summed
<1>6. QED
  BY <1>1, <1>2, <1>3, <1>4, <1>5 DEF Next, Interrupt, LoopStep

LEMMA SumsInit == Init => Summed
<1> SUFFICES ASSUME Init, NEW b \in ButtonIds PROVE Sums(b)
  BY DEF Summed
<1>1. pending \o raising = <<>> /\ seen[b] = buttons[b]
  BY DEF Init, DriversInit, FifoInit
<1>2. QED
  BY <1>1, TurnsShort DEF Sums

(* A full queue may drop moves and keys and packets may come in any order:  *)
(* as long as it has dropped no button event, the screens end up with the  *)
(* buttons that the driver has.                                            *)
THEOREM ButtonsAgree == Spec => []ButtonsAddUp
<1>1. Summed => ButtonsAddUp
  BY DEF Summed, Sums, ButtonsAddUp
<1>2. QED
  BY <1>1, TypedInvariant, SumsInit, SumsStep, PTL DEF Spec
=============================================================================
