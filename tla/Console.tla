------------------------------ MODULE Console ------------------------------
(***************************************************************************)
(* The screen: c_printf() and window_scroll() of sys/printf.c, and the     *)
(* clock that call_timer() of sys/timer.c draws between two characters of  *)
(* the text.  A character is its own value; attributes are left out.       *)
(***************************************************************************)
EXTENDS Integers

CONSTANTS
  COLS,          \* columns (80)
  TEXT,          \* rows of text, scrolled (20)
  ROWS,          \* rows of the screen (25)
  TAB,           \* columns of a tab (8)
  Glyph,         \* the characters that are drawn
  Digit,         \* the characters of the clock
  blank,
  CLOCK_X, CLOCK_Y, CLOCK_LEN,   \* where the clock is drawn (66, 22, 10)
  MaxLeft,       \* bound: how far Backspace takes the cursor to the left
  MaxRight       \* bound: no tab from here on

ConsoleConstants ==
  /\ COLS \in Nat /\ TEXT \in Nat /\ ROWS \in Nat /\ TAB \in Nat /\ MaxLeft \in Nat
  /\ MaxRight \in Nat /\ MaxRight >= COLS
  /\ 0 < COLS /\ 0 < TEXT /\ TEXT <= CLOCK_Y /\ CLOCK_Y < ROWS
  /\ CLOCK_X \in Nat /\ CLOCK_Y \in Nat /\ CLOCK_LEN \in Nat
  /\ CLOCK_X + CLOCK_LEN <= COLS
  /\ blank \notin Digit

VARIABLES
  csr_x, csr_y,   \* the cursor
  screen,         \* the character in each cell
  clock           \* whether the clock has been drawn

vars == <<csr_x, csr_y, screen, clock>>

Cell == (0..(COLS - 1)) \X (0..(ROWS - 1))

-----------------------------------------------------------------------------
(* The state of the screen as a record, for the functions that call each   *)
(* other.                                                                  *)
gotoxy(s, x, y) == [s EXCEPT !.x = x, !.y = y]

(* Mutant: all rows are scrolled.                                          *)
window_scroll_all(s) ==
  [x |-> 0, y |-> TEXT - 1,
   screen |-> [c \in Cell |-> IF c[2] < ROWS - 1 THEN s.screen[<<c[1], c[2] + 1>>]
                              ELSE blank]]

window_scroll(s) ==
  [x |-> 0, y |-> TEXT - 1,
   screen |-> [c \in Cell |-> CASE c[2] < TEXT - 1 -> s.screen[<<c[1], c[2] + 1>>]
                                [] c[2] = TEXT - 1 -> blank
                                [] OTHER -> s.screen[c]]]

(* The cursor goes to the next row.                                        *)
newline(s) ==
  IF s.y + 1 >= TEXT THEN window_scroll(s) ELSE gotoxy(s, 0, s.y + 1)

Drawable(s) == <<s.x, s.y>> \in Cell

(* c_printf() of a character that is drawn: beyond the last column it is   *)
(* not, and the cursor goes to the next row.                               *)
draw(s, ch) ==
  LET d == IF Drawable(s) THEN [s EXCEPT !.screen[<<s.x, s.y>>] = ch] ELSE s
  IN  IF s.x >= COLS THEN newline(d) ELSE gotoxy(d, s.x + 1, s.y)

(* Mutant: the cursor stays behind the blank.                              *)
backspace_once(s) == draw(gotoxy(s, s.x - 1, s.y), blank)

backspace(s) ==
  LET d == draw(gotoxy(s, s.x - 1, s.y), blank) IN gotoxy(d, d.x - 1, d.y)

-----------------------------------------------------------------------------
State == [x |-> csr_x, y |-> csr_y, screen |-> screen]

Becomes(s) == csr_x' = s.x /\ csr_y' = s.y /\ screen' = s.screen

Init ==
  /\ csr_x = 0 /\ csr_y = 0
  /\ screen = [c \in Cell |-> blank]
  /\ clock = FALSE

c_printf(ch) ==
  /\ Becomes(draw(State, ch))
  /\ UNCHANGED clock

c_printf_control(c) ==
  /\ \/ c = "newline" /\ Becomes(newline(State))
     \/ c = "tab" /\ csr_x < MaxRight /\ Becomes(gotoxy(State, csr_x + TAB, csr_y))
     \/ c = "return" /\ Becomes(gotoxy(State, 0, csr_y))
     \/ c = "backspace" /\ csr_x > -MaxLeft /\ Becomes(backspace(State))
  /\ UNCHANGED clock

(* call_timer(), once a second: the time is drawn in its corner and the    *)
(* cursor put back.                                                        *)
call_timer(d) ==
  LET Draw[n \in 0..CLOCK_LEN] ==
        IF n = 0 THEN gotoxy(State, CLOCK_X, CLOCK_Y) ELSE draw(Draw[n - 1], d)
  IN  /\ Becomes(gotoxy(Draw[CLOCK_LEN], csr_x, csr_y))
      /\ clock' = TRUE

-----------------------------------------------------------------------------
(* The text never touches the clock, and the clock never the text: however *)
(* the text scrolls or wraps, the cells of the clock hold its last drawing *)
(* and no other cell holds any of it.  The cursor is always in the rows of *)
(* the text.                                                               *)
ClockApart ==
  LET C == {c \in Cell : c[2] = CLOCK_Y /\ c[1] \in CLOCK_X..(CLOCK_X + CLOCK_LEN - 1)}
  IN  /\ csr_y \in 0..(TEXT - 1)
      /\ \A c \in Cell \ C : screen[c] \notin Digit
      /\ clock => \E d \in Digit : \A c \in C : screen[c] = d
=============================================================================
