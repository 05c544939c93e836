------------------------------ MODULE Terminal -----------------------------
(***************************************************************************)
(* Keyboard and screen together: the keyboard handler echoes every key     *)
(* where the programs print, the timer draws the clock on the same screen  *)
(* with the same cursor, and its switch ends a read that is not protected  *)
(* by scan_flag.  Programs print while no read is going on; system calls   *)
(* other than read() run with interrupts off, so that an interrupt comes   *)
(* between two characters at the earliest.                                 *)
(***************************************************************************)
EXTENDS Integers, Sequences

CONSTANTS
  Letter, KBUF, MaxLine, NUL,
  COLS, TEXT, ROWS, TAB, Digit, blank, CLOCK_X, CLOCK_Y, CLOCK_LEN,
  MaxLeft, MaxRight

VARIABLES
  pc, kbuffer, count, scan_flag, shift_key, typed, high, stray, entered,
  csr_x, csr_y, screen, clock,
  from        \* the column of the cursor when the reader began to wait

Kbd == INSTANCE Keyboard

Scr == INSTANCE Console WITH Glyph <- (Letter \X {0, 1}) \cup {NUL}

ASSUME TerminalAssumption == Kbd!KeyboardConstants /\ Scr!ConsoleConstants

keyboard == <<pc, kbuffer, count, scan_flag, shift_key, typed, high, stray, entered>>
console == <<csr_x, csr_y, screen, clock>>
vars == <<keyboard, console, from>>

-----------------------------------------------------------------------------
Init == Kbd!Init /\ Scr!Init /\ from = 0

(* The steps of scank() print nothing.                                     *)
scank_start == Kbd!scank_clear /\ UNCHANGED <<console, from>>

scank ==
  /\ Kbd!scank
  /\ from' = IF pc = "count" THEN csr_x ELSE IF pc = "copy" THEN 0 ELSE from
  /\ UNCHANGED console

(* What kb_handler() prints for a key, scanning or not.                    *)
echo(key) ==
  \/ key = "enter" /\ Scr!c_printf_control("newline")
  \/ key = "backspace" /\ Scr!c_printf_control("backspace")
  \/ key \in Letter \cup {"dead"} /\ Scr!c_printf(Kbd!Char(key))

kb_handler(key) == Kbd!kb_handler(key) /\ echo(key) /\ UNCHANGED from

kb_handler_shift == Kbd!kb_handler_shift /\ UNCHANGED <<console, from>>

(* Every 100th tick draws the clock, every 18th switches tasks; some do    *)
(* both.                                                                   *)
call_timer ==
  /\ (\E d \in Digit : Scr!call_timer(d)) \/ UNCHANGED console
  /\ \/ Kbd!schedule /\ from' = 0
     \/ UNCHANGED <<keyboard, from>>

(* A program or the kernel prints a character.                             *)
sys_write ==
  /\ pc = "idle"
  /\ \/ \E l \in Letter : Scr!c_printf(<<l, 0>>)
     \/ \E c \in {"newline", "tab", "return", "backspace"} : Scr!c_printf_control(c)
  /\ UNCHANGED <<keyboard, from>>

Next ==
  \/ scank_start \/ scank
  \/ \E key \in Kbd!Keys : kb_handler(key)
  \/ kb_handler_shift
  \/ call_timer
  \/ sys_write

(* The reader runs whenever it is not interrupted.  Nobody has to start a  *)
(* read or to press a key.                                                 *)
Spec == Init /\ [][Next]_vars /\ WF_vars(scank)

-----------------------------------------------------------------------------
(* What scank() hands over is what was typed (see Keyboard), however keys, *)
(* ticks and the statements of scank() interleave.                         *)
LineIsTyped == Kbd!LineIsTyped

(* No task but a waiting reader keeps the scheduler disabled.              *)
FlagOnlyInScan == Kbd!FlagOnlyInScan

(* Enter ends the scan of the reader, whatever else is typed or printed.   *)
EnterEndsScan == Kbd!EnterEndsScan

(* Echo, program output, scrolling and clock share one screen and cursor;  *)
(* the clock's cells and the others never mix (see Console).               *)
ClockApart == Scr!ClockApart

(* While a line is typed that fits into its row, the screen shows it: from *)
(* where the read began to the cursor there is what scank() would return   *)
(* if the user pressed Enter, erased characters are gone from the screen,  *)
(* and the clock has not moved the cursor.                                 *)
EchoIsLine ==
  pc = "wait" /\ scan_flag /\ ~stray /\ count >= 0 /\ from >= 0 /\ from + high <= COLS =>
    /\ csr_x = from + Len(typed)
    /\ \A k \in 1..Len(typed) : screen[<<from + k - 1, csr_y>>] = typed[k]
=============================================================================
