------------------------------- MODULE Console -------------------------------
(***************************************************************************)
(* The graphical console, kernel/graphics/console_graphics.c, as the       *)
(* terminal uses it: a grid of cells, filled row by row, that wraps at the *)
(* right edge and scrolls at the bottom.                                   *)
(*                                                                         *)
(* A cell either shows a character of the line that the user is typing or  *)
(* something else. What is printed matters by the rows that it takes.      *)
(***************************************************************************)
EXTENDS Integers

CONSTANTS
  Columns, Rows,   \* of the framebuffer, in characters
  PromptLength,    \* the length of "hnmos> "
  HeadingRow       \* the row of the prompt beneath the terminal's heading

ASSUME ConsoleAssumption ==
  /\ Columns \in Nat /\ Rows \in Nat \ {0, 1}
  /\ PromptLength \in Nat /\ PromptLength < Columns
  /\ HeadingRow \in 0 .. (Rows - 1)

VARIABLE console   \* hnm_console.cursor_x, cursor_y; line: the line's cells

Cells == [x : 0 .. (Columns - 1), y : 0 .. (Rows - 1)]
Cell(x, y) == [x |-> x, y |-> y]

Console(x, y, line) == [x |-> x, y |-> y, line |-> line]

Up(cells) == {Cell(c.x, c.y - 1) : c \in {d \in cells : d.y > 0}}

(* hnm_console_newline, with hnm_console_scroll *)
Newline(c) ==
  IF c.y + 1 < Rows THEN Console(0, c.y + 1, c.line)
  ELSE Console(0, Rows - 1, Up(c.line))

(* hnm_console_put_char with a typed character, which wraps at once. *)
Echoed(c) ==
  LET shown == c.line \cup {Cell(c.x, c.y)}
  IN  IF c.x + 1 < Columns THEN Console(c.x + 1, c.y, shown)
      ELSE Newline(Console(c.x, c.y, shown))

(* A slip of the code, for the mutation runs, precedes what it would replace. *)
ErasedInRow(c) ==
  IF c.x = 0 THEN c ELSE Console(c.x - 1, c.y, c.line \ {Cell(c.x - 1, c.y)})

(* hnm_console_backspace, which goes up a row from the left edge. *)
Erased(c) ==
  IF c.x > 0 THEN Console(c.x - 1, c.y, c.line \ {Cell(c.x - 1, c.y)})
  ELSE IF c.y = 0 THEN c
  ELSE Console(Columns - 1, c.y - 1, c.line \ {Cell(Columns - 1, c.y - 1)})

(* hnm_console_write_line: text of so many rows, from the left edge. *)
Printed(c, rows) == Console(0, IF c.y + rows < Rows THEN c.y + rows ELSE Rows - 1, {})

(* hnm_terminal_prompt, behind which a new line starts *)
Prompted(c) == Console(PromptLength, c.y, {})

Cleared == Console(0, 0, {})                             \* hnm_console_clear
Heading == Prompted(Console(0, HeadingRow, {}))          \* hnm_terminal_show_screen

ConsoleTypeOK ==
  console \in [x : 0 .. (Columns - 1), y : 0 .. (Rows - 1), line : SUBSET Cells]

(* The length cells in front of the cursor, in reading order. *)
Place(c) == c.y * Columns + c.x

ShowsLine(length) ==
  {Place(c) : c \in console.line} = (Place(console) - length) .. (Place(console) - 1)
=============================================================================
