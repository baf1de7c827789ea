------------------------------ MODULE Console ------------------------------
(***************************************************************************)
(* The text console (kernel/console.c): console_putchar, console_scroll,   *)
(* console_puts and console_move_cursor, each as one undivided step, which *)
(* is how a caller with interrupts disabled sees them.                     *)
(*                                                                         *)
(* A character is a string: printable ones stand for themselves, "LF",     *)
(* "CR", "HT", "BS" and "NUL" for the control characters, anything else    *)
(* (a bell, a character of the upper half) is ignored by the code.         *)
(***************************************************************************)
EXTENDS Integers, Sequences, SequencesExt

CONSTANTS
  COLS, ROWS,  \* 80 and 25
  TAB,         \* 8
  BYTE,        \* 256: what one cursor register of the display holds
  Printable    \* the printable characters used, the blank among them

Blank == " "

ASSUME ScreenAssumption ==
  /\ COLS \in Nat \ {0} /\ ROWS \in Nat \ {0} /\ TAB \in Nat \ {0} /\ BYTE \in Nat \ {0}
  /\ Blank \in Printable /\ Printable \cap {"NUL", "LF", "CR", "HT", "BS"} = {}

(* A screen is [mem |-> videomem, x |-> xPos, y |-> yPos].                 *)
Cells == 0 .. ROWS * COLS - 1
console_clear == [mem |-> [k \in Cells |-> Blank], x |-> 0, y |-> 0]

(* (xPos + 8) & ~7                                                         *)
NextTab(x) == (x + TAB) - ((x + TAB) % TAB)

(* The column after a character that moves the cursor along its row.       *)
Column(c, x) ==
  CASE c \in Printable -> x + 1
    [] c = "HT" -> NextTab(x)
    [] c = "BS" -> x - 1

(* Mutant: the test is for the row just below the screen only.             *)
console_scroll_AtEnd(s) ==
  IF s.y # ROWS THEN s
  ELSE [s EXCEPT !.mem = [k \in Cells |-> IF k + COLS \in Cells THEN @[k + COLS] ELSE Blank],
                 !.y = ROWS - 1]

console_scroll(s) ==
  IF s.y < ROWS THEN s
  ELSE [s EXCEPT !.mem = [k \in Cells |-> IF k + COLS \in Cells THEN @[k + COLS] ELSE Blank],
                 !.y = ROWS - 1]

console_putchar(s, c) ==
  console_scroll(
    CASE c \in Printable ->
           [s EXCEPT !.mem[s.y * COLS + s.x] = c, !.x = Column(c, s.x)]
      [] c = "HT" \/ (c = "BS" /\ s.x > 0) -> [s EXCEPT !.x = Column(c, s.x)]
      [] c = "CR" -> [s EXCEPT !.x = 0]
      [] c = "LF" -> [s EXCEPT !.x = 0, !.y = s.y + 1]
      [] OTHER -> s)

console_puts(s, txt) == FoldLeft(console_putchar, s, txt)

(* The display's index register and the two cursor registers after         *)
(* console_move_cursor.                                                    *)
console_move_cursor(s) ==
  LET position == s.y * COLS + s.x
  IN [index |-> "low", high |-> (position \div BYTE) % BYTE, low |-> position % BYTE]

-----------------------------------------------------------------------------
(* What a screen shows, row by row, and a reference for what printing      *)
(* should do to it: a window of rows that moves down the paper.            *)
Window(s) ==
  [rows |-> [r \in 1..ROWS |-> [k \in 1..COLS |-> s.mem[(r - 1) * COLS + k - 1]]],
   row |-> s.y + 1, col |-> s.x]

BlankRow == [k \in 1..COLS |-> Blank]

Typed(w, c) ==
  CASE c \in Printable ->
         [w EXCEPT !.rows[w.row] = [w.rows[w.row] EXCEPT ![w.col + 1] = c], !.col = w.col + 1]
    [] c = "LF" /\ w.row < ROWS -> [w EXCEPT !.row = w.row + 1, !.col = 0]
    [] c = "LF" /\ w.row = ROWS ->
         [w EXCEPT !.rows = Append(Tail(w.rows), BlankRow), !.col = 0]
    [] c = "CR" -> [w EXCEPT !.col = 0]
    [] c = "BS" -> [w EXCEPT !.col = IF w.col = 0 THEN 0 ELSE w.col - 1]
    [] c = "HT" ->
         [w EXCEPT !.col = CHOOSE k \in w.col + 1 .. w.col + TAB : k % TAB = 0]
    [] OTHER -> w

TypedText(w, txt) == FoldLeft(Typed, w, txt)
=============================================================================
