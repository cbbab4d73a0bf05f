---------------------------- MODULE ConsoleProofs ----------------------------
(***************************************************************************)
(* Proofs about Console, for a framebuffer of every size: the line that is *)
(* typed behind a prompt stays whole on the screen, wherever it wraps and  *)
(* scrolls.                                                                *)
(***************************************************************************)
EXTENDS Console, TLAPS

Consoles == [x : 0 .. (Columns - 1), y : 0 .. (Rows - 1), line : SUBSET Cells]

(* The line's length characters fill the cells between the prompt, which    *)
(* stands in row j, and the cursor.                                        *)
StartsIn(j, c, length) == Place(c) - length = PromptLength + j * Columns

FillsLine(c, length) ==
  \A d \in Cells :
    d \in c.line <=> Place(c) - length <= Place(d) /\ Place(d) < Place(c)

LineOf(c, length) ==
  /\ c \in Consoles
  /\ length \in Nat
  /\ \E j \in 0 .. (Rows - 1) : StartsIn(j, c, length)
  /\ FillsLine(c, length)

-----------------------------------------------------------------------------
(* Reading order                                                           *)

LEMMA Sizes ==
  /\ Columns \in Nat /\ Columns > 0 /\ Rows \in Nat /\ Rows > 1
  /\ PromptLength \in Nat /\ PromptLength < Columns
  /\ HeadingRow \in 0 .. (Rows - 1)
  BY ConsoleAssumption

LEMMA Products ==
  \A n \in Nat :
    n * Columns \in Nat /\ (n + 1) * Columns = n * Columns + Columns
  BY Sizes

LEMMA RowsApart ==
  ASSUME NEW a \in Nat, NEW b \in Nat, a < b
  PROVE  a * Columns + Columns <= b * Columns
  <1>1. PICK k \in Nat : b = a + 1 + k
    <2>1. b - a - 1 \in Nat /\ b = a + 1 + (b - a - 1)
      OBVIOUS
    <2>. QED
      BY <2>1
  <1>2. k * Columns >= 0
    BY Sizes
  <1>. QED
    BY <1>1, <1>2, Sizes

LEMMA PlaceInjective ==
  ASSUME NEW c \in Cells, NEW d \in Cells, Place(c) = Place(d)
  PROVE  c = d
  <1>1. /\ c.x \in Nat /\ c.y \in Nat /\ d.x \in Nat /\ d.y \in Nat
        /\ c.x < Columns /\ d.x < Columns
        /\ c.y * Columns + c.x = d.y * Columns + d.x
    BY Sizes DEF Cells, Place
  <1>2. ~(c.y < d.y)
    BY <1>1, RowsApart, Sizes
  <1>3. ~(d.y < c.y)
    BY <1>1, RowsApart, Sizes
  <1>4. c.y = d.y
    BY <1>1, <1>2, <1>3
  <1>5. c.x = d.x
    <2>1. c.y * Columns = d.y * Columns /\ c.y * Columns \in Nat
      BY <1>1, <1>4, Products
    <2>. QED
      BY <1>1, <2>1
  <1>6. c = Cell(c.x, c.y) /\ d = Cell(d.x, d.y)
    BY DEF Cells, Cell
  <1>. QED
    BY <1>4, <1>5, <1>6

LEMMA PlaceIsNat ==
  ASSUME NEW c, c.x \in Nat, c.y \in Nat
  PROVE  Place(c) \in Nat
  BY Sizes DEF Place

LEMMA PlaceOnto ==
  ASSUME NEW place \in Nat, place < Columns * Rows
  PROVE  \E d \in Cells : Place(d) = place
  <1>1. /\ place % Columns \in Nat /\ place % Columns < Columns
        /\ place \div Columns \in Nat
        /\ place = (place \div Columns) * Columns + (place % Columns)
    BY Sizes
  <1>2. place \div Columns < Rows
    <2>1. SUFFICES ASSUME Rows <= place \div Columns PROVE FALSE
      BY <1>1, Sizes
    <2>2. Rows * Columns <= (place \div Columns) * Columns
      BY <1>1, <2>1, RowsApart, Sizes
    <2>. QED
      BY <1>1, <2>2, Sizes
  <1>3. Cell(place % Columns, place \div Columns) \in Cells
    BY <1>1, <1>2, Sizes DEF Cell, Cells
  <1>4. Place(Cell(place % Columns, place \div Columns)) = place
    BY <1>1 DEF Cell, Place
  <1>. QED
    BY <1>3, <1>4

-----------------------------------------------------------------------------
(* A line ends before the last cell as long as the prompt and it fit.       *)

LEMMA LineAdvances ==
  ASSUME NEW c, NEW length, LineOf(c, length), NEW shown \in SUBSET Cells,
         \A d \in Cells : d \in shown <=> d \in c.line \/ Place(d) = Place(c)
  PROVE  \A d \in Cells :
           d \in shown <=> Place(c) - length <= Place(d) /\ Place(d) < Place(c) + 1
  <1>1. length \in Nat /\ Place(c) \in Nat
    BY PlaceIsNat, Sizes DEF LineOf, Consoles
  <1>2. ASSUME NEW d \in Cells
        PROVE  d \in shown <=> Place(c) - length <= Place(d) /\ Place(d) < Place(c) + 1
    <2>1. Place(d) \in Nat
      BY PlaceIsNat, Sizes DEF Cells
    <2>2. d \in c.line <=> Place(c) - length <= Place(d) /\ Place(d) < Place(c)
      BY DEF LineOf, FillsLine
    <2>3. d \in shown <=> d \in c.line \/ Place(d) = Place(c)
      OBVIOUS
    <2>. QED
      BY <1>1, <2>1, <2>2, <2>3
  <1>. QED
    BY <1>2

(* hnm_console_put_char, with the wrap and the scrolling that it may cause. *)
LEMMA EchoKeepsLine ==
  ASSUME NEW c, NEW length, LineOf(c, length),
         PromptLength + length + 1 < Columns * Rows
  PROVE  LineOf(Echoed(c), length + 1)
  <1>0. /\ c.x \in Nat /\ c.x < Columns /\ c.y \in Nat /\ c.y < Rows
        /\ c.line \in SUBSET Cells /\ length \in Nat
    BY Sizes DEF LineOf, Consoles
  <1>1. PICK j \in 0 .. (Rows - 1) : StartsIn(j, c, length)
    BY DEF LineOf
  <1>2. j \in Nat /\ Place(c) = PromptLength + j * Columns + length /\ Place(c) \in Nat
        /\ Place(c) = c.y * Columns + c.x
    <2>1. j \in Nat /\ j * Columns \in Nat /\ Place(c) \in Nat
      BY <1>0, Sizes, PlaceIsNat
    <2>2. Place(c) - length = PromptLength + j * Columns
      BY <1>1 DEF StartsIn
    <2>3. Place(c) = PromptLength + j * Columns + length
      BY <1>0, <2>1, <2>2, Sizes
    <2>. QED
      BY <2>1, <2>3 DEF Place
  <1> DEFINE shown == c.line \cup {Cell(c.x, c.y)}
  <1>3. Cell(c.x, c.y) \in Cells /\ Place(Cell(c.x, c.y)) = Place(c)
    BY <1>0, Sizes DEF Cell, Cells, Place
  <1>4. \A d \in Cells : d \in shown <=> d \in c.line \/ Place(d) = Place(c)
    BY <1>3, PlaceInjective
  <1>5. shown \in SUBSET Cells
    BY <1>0, <1>3
  <1>6. \A d \in Cells :
          d \in shown <=> Place(c) - length <= Place(d) /\ Place(d) < Place(c) + 1
    <2> HIDE DEF shown
    <2>. QED
      BY <1>4, <1>5, LineAdvances
  <1> HIDE DEF shown
  <1>7. CASE c.x + 1 < Columns
    <2> DEFINE e == Console(c.x + 1, c.y, shown)
    <2>1. Echoed(c) = e
      BY <1>7 DEF Echoed, shown
    <2>2. e \in Consoles /\ e.line = shown
      BY <1>0, <1>5, <1>7, Sizes DEF Console, Consoles
    <2>3. Place(e) = Place(c) + 1
      BY <1>0, <1>2, Sizes DEF Console, Place
    <2>4. StartsIn(j, e, length + 1)
      BY <1>0, <1>1, <1>2, <2>3 DEF StartsIn
    <2>5. FillsLine(e, length + 1)
      BY <1>0, <1>2, <1>6, <2>2, <2>3 DEF FillsLine
    <2>. QED
      BY <1>0, <2>1, <2>2, <2>4, <2>5 DEF LineOf
  <1>8. CASE c.x + 1 = Columns /\ c.y + 1 < Rows
    <2> DEFINE e == Console(0, c.y + 1, shown)
    <2>1. Echoed(c) = e
      BY <1>0, <1>8, Sizes DEF Echoed, Newline, Console, shown
    <2>2. e \in Consoles /\ e.line = shown
      BY <1>0, <1>5, <1>8, Sizes DEF Console, Consoles
    <2>3. Place(e) = Place(c) + 1
      BY <1>0, <1>2, <1>8, Sizes DEF Console, Place
    <2>4. StartsIn(j, e, length + 1)
      BY <1>0, <1>1, <1>2, <2>3 DEF StartsIn
    <2>5. FillsLine(e, length + 1)
      BY <1>0, <1>2, <1>6, <2>2, <2>3 DEF FillsLine
    <2>. QED
      BY <1>0, <2>1, <2>2, <2>4, <2>5 DEF LineOf
  <1>9. CASE c.x + 1 = Columns /\ c.y + 1 = Rows
    <2> DEFINE e == Console(0, Rows - 1, Up(shown))
    <2>1. Echoed(c) = e
      BY <1>0, <1>9, Sizes DEF Echoed, Newline, Console, shown
    <2>2. Up(shown) \in SUBSET Cells
      BY <1>5, Sizes DEF Up, Cells, Cell
    <2>3. e \in Consoles /\ e.line = Up(shown)
      BY <2>2, Sizes DEF Console, Consoles
    <2>4. /\ Place(e) = Place(c) + 1 - Columns
          /\ Place(c) + 1 = Columns * Rows
      <3>1. c.y = Rows - 1 /\ c.x = Columns - 1
        BY <1>0, <1>9, Sizes
      <3>2. Place(c) = c.y * Columns + c.x /\ Place(e) = c.y * Columns + 0
        BY <1>2, <3>1 DEF Console, Place
      <3>3. c.y * Columns \in Nat /\ Rows * Columns = c.y * Columns + Columns
        BY <1>0, <1>9, Products, Sizes
      <3>. QED
        BY <3>1, <3>2, <3>3, Sizes
    <2>5. j # 0
      <3>1. SUFFICES ASSUME j = 0 PROVE FALSE
        OBVIOUS
      <3>2. Place(c) = PromptLength + length
        BY <1>0, <1>2, <3>1, Sizes
      <3>3. Columns * Rows \in Nat
        BY Sizes
      <3>. QED
        BY <1>0, <2>4, <3>2, <3>3, Sizes
    <2>6. StartsIn(j - 1, e, length + 1) /\ j - 1 \in 0 .. (Rows - 1)
      BY <1>0, <1>2, <2>4, <2>5, Sizes DEF StartsIn
    <2>7. ASSUME NEW d \in Cells
          PROVE  d \in Up(shown) <=>
                   Place(e) - (length + 1) <= Place(d) /\ Place(d) < Place(e)
      <3>0. d.x \in Nat /\ d.x < Columns /\ d.y \in Nat /\ d.y < Rows /\ Place(d) \in Nat
        BY Sizes, PlaceIsNat DEF Cells
      <3> DEFINE below == Cell(d.x, d.y + 1)
      <3>1. Place(below) = Place(d) + Columns /\ below.x = d.x /\ below.y = d.y + 1
        BY <3>0, Sizes DEF Cell, Place
      <3>2. d \in Up(shown) <=> below \in shown
        <4>1. d = Cell(below.x, below.y - 1) /\ below.y > 0
          BY <3>0, <3>1, Sizes DEF Cells, Cell
        <4>2. ASSUME NEW b \in shown, b.y > 0, d = Cell(b.x, b.y - 1) PROVE b = below
          BY <1>5, <4>2, Sizes DEF Cells, Cell
        <4>. QED
          BY <4>1, <4>2 DEF Up
      <3>3. CASE d.y + 1 < Rows
        <4>1. below \in Cells
          BY <3>0, <3>3, Sizes DEF Cell, Cells
        <4>2. below \in shown <=>
                Place(c) - length <= Place(below) /\ Place(below) < Place(c) + 1
          BY <1>6, <4>1
        <4>. QED
          BY <1>0, <1>2, <2>4, <3>0, <3>1, <3>2, <4>2, Sizes
      <3>4. CASE d.y + 1 = Rows
        <4>1. below \notin shown
          BY <1>5, <3>0, <3>1, <3>4, Sizes DEF Cells
        <4>2. ~(Place(d) < Place(e))
          BY <3>0, <3>4, Sizes DEF Console, Place
        <4>. QED
          BY <3>2, <4>1, <4>2
      <3>. QED
        BY <3>0, <3>3, <3>4, Sizes
    <2>8. FillsLine(e, length + 1)
      BY <2>3, <2>7 DEF FillsLine
    <2>. QED
      BY <1>0, <2>1, <2>3, <2>6, <2>8 DEF LineOf
  <1>. QED
    BY <1>0, <1>7, <1>8, <1>9, Sizes

(* hnm_console_backspace takes back the last character of the line.         *)
LEMMA EraseKeepsLine ==
  ASSUME NEW c, NEW length, LineOf(c, length), length > 0
  PROVE  LineOf(Erased(c), length - 1)
  <1>0. /\ c.x \in Nat /\ c.x < Columns /\ c.y \in Nat /\ c.y < Rows
        /\ c.line \in SUBSET Cells /\ length \in Nat
    BY Sizes DEF LineOf, Consoles
  <1>1. PICK j \in 0 .. (Rows - 1) : StartsIn(j, c, length)
    BY DEF LineOf
  <1>2. /\ Place(c) \in Nat /\ Place(c) = c.y * Columns + c.x
        /\ Place(c) - length = PromptLength + j * Columns
        /\ j * Columns \in Nat /\ Place(c) > 0
    <2>1. Place(c) \in Nat /\ Place(c) = c.y * Columns + c.x
      BY <1>0, PlaceIsNat DEF Place
    <2>2. Place(c) - length = PromptLength + j * Columns /\ j * Columns \in Nat
      BY <1>1, Products, Sizes DEF StartsIn
    <2>. QED
      BY <1>0, <2>1, <2>2, Sizes
  <1> DEFINE at(x, y) == Console(x, y, c.line \ {Cell(x, y)})
  <1>3. ASSUME NEW x \in 0 .. (Columns - 1), NEW y \in 0 .. (Rows - 1),
               Place(at(x, y)) = Place(c) - 1
        PROVE  LineOf(at(x, y), length - 1)
    <2>1. at(x, y) \in Consoles /\ at(x, y).line = c.line \ {Cell(x, y)}
      BY <1>0 DEF Console, Consoles
    <2>2. StartsIn(j, at(x, y), length - 1) /\ length - 1 \in Nat
      BY <1>0, <1>1, <1>2, <1>3 DEF StartsIn
    <2>3. Cell(x, y) \in Cells /\ Place(Cell(x, y)) = Place(c) - 1
      BY <1>3 DEF Cell, Cells, Console, Place
    <2>4. ASSUME NEW d \in Cells
          PROVE  d \in c.line \ {Cell(x, y)} <=>
                   /\ Place(at(x, y)) - (length - 1) <= Place(d)
                   /\ Place(d) < Place(at(x, y))
      <3>1. Place(d) \in Nat
        BY PlaceIsNat, Sizes DEF Cells
      <3>2. d \in c.line <=> Place(c) - length <= Place(d) /\ Place(d) < Place(c)
        BY DEF LineOf, FillsLine
      <3>3. d = Cell(x, y) <=> Place(d) = Place(c) - 1
        BY <2>3, PlaceInjective
      <3>. QED
        BY <1>0, <1>2, <1>3, <3>1, <3>2, <3>3
    <2>5. FillsLine(at(x, y), length - 1)
      BY <2>1, <2>4 DEF FillsLine
    <2>. QED
      BY <2>1, <2>2, <2>5 DEF LineOf
  <1>4. CASE c.x > 0
    <2>1. Erased(c) = at(c.x - 1, c.y)
      BY <1>4 DEF Erased
    <2>2. Place(at(c.x - 1, c.y)) = Place(c) - 1
      <3>1. c.y * Columns \in Nat
        BY <1>0, Products
      <3>. QED
        BY <1>0, <1>2, <3>1 DEF Console, Place
    <2>3. c.x - 1 \in 0 .. (Columns - 1) /\ c.y \in 0 .. (Rows - 1)
      BY <1>0, <1>4, Sizes
    <2>. QED
      BY <1>3, <2>1, <2>2, <2>3
  <1>5. CASE c.x = 0
    <2>1. c.y > 0
      <3>1. SUFFICES ASSUME c.y = 0 PROVE FALSE
        BY <1>0
      <3>2. Place(c) = 0
        BY <1>0, <1>2, <1>5, <3>1, Sizes
      <3>. QED
        BY <1>2, <3>2
    <2>2. Erased(c) = at(Columns - 1, c.y - 1)
      BY <1>0, <1>5, <2>1 DEF Erased
    <2>3. Place(at(Columns - 1, c.y - 1)) = Place(c) - 1
      <3>1. (c.y - 1) * Columns \in Nat /\ c.y * Columns = (c.y - 1) * Columns + Columns
        <4>1. c.y - 1 \in Nat /\ (c.y - 1) + 1 = c.y
          BY <1>0, <2>1
        <4>. QED
          BY <4>1, Products
      <3>2. Place(at(Columns - 1, c.y - 1)) = (c.y - 1) * Columns + (Columns - 1)
        BY DEF Console, Place
      <3>. QED
        BY <1>2, <1>5, <3>1, <3>2, Sizes
    <2>4. Columns - 1 \in 0 .. (Columns - 1) /\ c.y - 1 \in 0 .. (Rows - 1)
      BY <1>0, <2>1, Sizes
    <2>. QED
      BY <1>3, <2>2, <2>3, <2>4
  <1>. QED
    BY <1>0, <1>4, <1>5

(* Behind a prompt the line is empty.                                      *)
LEMMA PromptStartsLine ==
  ASSUME NEW c, c.y \in 0 .. (Rows - 1)
  PROVE  LineOf(Prompted(c), 0)
  <1>1. Prompted(c) \in Consoles /\ Prompted(c).line = {}
    BY Sizes DEF Prompted, Console, Consoles
  <1>2. c.y * Columns \in Nat /\ Place(Prompted(c)) = c.y * Columns + PromptLength
    BY Products, Sizes DEF Prompted, Console, Place
  <1>3. StartsIn(c.y, Prompted(c), 0)
    BY <1>2, Sizes DEF StartsIn
  <1>4. FillsLine(Prompted(c), 0)
    <2>1. ASSUME NEW d \in Cells
          PROVE  ~(/\ Place(Prompted(c)) - 0 <= Place(d)
                   /\ Place(d) < Place(Prompted(c)))
      <3>1. Place(d) \in Nat
        BY PlaceIsNat, Sizes DEF Cells
      <3>. QED
        BY <1>2, <3>1, Sizes
    <2>. QED
      BY <1>1, <2>1 DEF FillsLine
  <1>. QED
    BY <1>1, <1>3, <1>4 DEF LineOf

LEMMA NewlineStays ==
  ASSUME NEW c \in Consoles
  PROVE  Newline(c) \in Consoles
  <1>1. c.x \in Nat /\ c.y \in Nat /\ c.y < Rows /\ c.line \in SUBSET Cells
    BY Sizes DEF Consoles
  <1>2. Up(c.line) \in SUBSET Cells
    BY <1>1, Sizes DEF Up, Cells, Cell
  <1>. QED
    BY <1>1, <1>2, Sizes DEF Newline, Console, Consoles

LEMMA PrintedStays ==
  ASSUME NEW c \in Consoles, NEW rows \in Nat
  PROVE  Printed(c, rows) \in Consoles
  BY Sizes DEF Printed, Console, Consoles

LEMMA ClearedStays == Cleared \in Consoles
  BY Sizes DEF Cleared, Console, Consoles

LEMMA HeadingStartsLine == LineOf(Heading, 0)
  <1>1. Console(0, HeadingRow, {}).y \in 0 .. (Rows - 1)
    BY Sizes DEF Console
  <1>. QED
    BY <1>1, PromptStartsLine DEF Heading

(* What is filled is what the line's length says, no cell is missing.       *)
LEMMA LineIsSeen ==
  ASSUME NEW length, LineOf(console, length)
  PROVE  ShowsLine(length)
  <1>0. console.line \in SUBSET Cells /\ length \in Nat /\ console.y < Rows
        /\ console.x \in Nat /\ console.x < Columns /\ console.y \in Nat
    BY Sizes DEF LineOf, Consoles
  <1>1. PICK j \in 0 .. (Rows - 1) : Place(console) - length = PromptLength + j * Columns
    BY DEF LineOf, StartsIn
  <1>2. Place(console) - length \in Nat
    <2>1. j * Columns \in Nat
      BY <1>1, Products, Sizes
    <2>. QED
      BY <1>1, <2>1, Sizes
  <1>3. Place(console) \in Nat /\ Place(console) < Columns * Rows
    <2>1. Place(console) = console.y * Columns + console.x
      BY DEF Place
    <2>2. console.y * Columns \in Nat /\ console.y * Columns + Columns <= Rows * Columns
      BY <1>0, RowsApart, Products, Sizes
    <2>3. Columns * Rows = Rows * Columns /\ Columns * Rows \in Nat
      BY Sizes
    <2>. QED
      BY <1>0, <2>1, <2>2, <2>3, Sizes
  <1>4. ASSUME NEW d \in console.line
        PROVE  Place(d) \in (Place(console) - length) .. (Place(console) - 1)
    <2>1. Place(d) \in Nat /\ d \in Cells
      BY <1>0, PlaceIsNat, Sizes DEF Cells
    <2>2. Place(console) - length <= Place(d) /\ Place(d) < Place(console)
      BY <2>1 DEF LineOf, FillsLine
    <2>. QED
      BY <1>2, <1>3, <2>1, <2>2
  <1>5. ASSUME NEW k \in (Place(console) - length) .. (Place(console) - 1)
        PROVE  \E d \in console.line : Place(d) = k
    <2>1. k \in Nat /\ k < Columns * Rows /\ k < Place(console)
      <3>1. Columns * Rows \in Nat
        BY Sizes
      <3>. QED
        BY <1>2, <1>3, <3>1
    <2>2. PICK d \in Cells : Place(d) = k
      BY <2>1, PlaceOnto
    <2>3. d \in console.line
      BY <2>1, <2>2 DEF LineOf, FillsLine
    <2>. QED
      BY <2>2, <2>3
  <1>. QED
    BY <1>4, <1>5 DEF ShowsLine
=============================================================================
