---------------------------- MODULE CursorDisplay ----------------------------
(***************************************************************************)
(* The mouse cursor of kernel/graphics/cursor.c on the framebuffer.        *)
(*                                                                         *)
(* The cursor is not composited: showing it saves the pixels beneath and   *)
(* draws the arrow over them, hiding it writes the saved pixels back. A    *)
(* cell stands for the 12x16 area of one cursor position. The operators    *)
(* map the display before a call of cursor.c to the display after it.      *)
(***************************************************************************)
EXTENDS Integers

CONSTANTS
  Cells,       \* cursor positions
  StatusCell   \* where hnm_cursor_draw_status draws, top right

Pictures == {0, 1}    \* what a screen may draw in a cell
Arrow == 2

(* drawn is not kernel state: it is what was last drawn beneath the arrow. *)
Displays ==
  [cells : [Cells -> Pictures \cup {Arrow}], drawn : [Cells -> Pictures],
   initialized : BOOLEAN, visible : BOOLEAN, at : Cells,
   saved : Pictures \cup {Arrow}]

(* What one redraw may put on the screen. *)
Drawings == UNION {[S -> Pictures] : S \in SUBSET Cells}

Overlaid(cells, drawing) ==
  [c \in Cells |-> IF c \in DOMAIN drawing THEN drawing[c] ELSE cells[c]]

Painted(d, drawing) ==
  [d EXCEPT !.drawn = Overlaid(@, drawing), !.cells = Overlaid(@, drawing)]

(* Slips of the code, for the mutation runs, precede what they would replace. *)
HiddenUnrestored(d) == [d EXCEPT !.visible = FALSE]

(* hnm_cursor_hide *)
Hidden(d) ==
  IF d.visible THEN [d EXCEPT !.cells[d.at] = d.saved, !.visible = FALSE] ELSE d

(* hnm_cursor_save_background, then hnm_cursor_draw_shape *)
ArrowDrawn(d) ==
  [d EXCEPT !.saved = d.cells[d.at], !.cells[d.at] = Arrow, !.visible = TRUE]

(* hnm_cursor_draw_status *)
StatusDrawn(d) == Painted(d, [c \in {StatusCell} |-> 1])

ShownStatusLast(d) ==
  IF ~d.initialized \/ d.visible THEN d ELSE StatusDrawn(ArrowDrawn(d))

(* hnm_cursor_show_current *)
Shown(d) ==
  IF ~d.initialized \/ d.visible THEN d ELSE ArrowDrawn(StatusDrawn(d))

CursorMovedIfVisible(d, cell) ==
  IF ~d.initialized \/ ~d.visible THEN d ELSE Shown([Hidden(d) EXCEPT !.at = cell])

(* hnm_cursor_move *)
CursorMoved(d, cell) ==
  IF ~d.initialized THEN d ELSE Shown([Hidden(d) EXCEPT !.at = cell])

(* Before hnm_cursor_init. *)
Blank(cell) ==
  [cells |-> [c \in Cells |-> 0], drawn |-> [c \in Cells |-> 0],
   initialized |-> FALSE, visible |-> FALSE, at |-> cell, saved |-> 0]

(* hnm_cursor_init *)
CursorInit(d, cell) ==
  Shown([d EXCEPT !.at = cell, !.initialized = TRUE, !.visible = FALSE])
=============================================================================
