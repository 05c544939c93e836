----------------------------- MODULE Keyboard ------------------------------
(***************************************************************************)
(* A read from the keyboard: scank() of sys/keyb.c, running in the system  *)
(* call with interrupts enabled, the keyboard's interrupt handler          *)
(* kb_handler(), and the timer, which takes the processor away from the    *)
(* reader unless scan_flag is set (call_timer() of sys/timer.c).  What the *)
(* handler shows on the screen is added in module Terminal.                *)
(***************************************************************************)
EXTENDS Integers, Sequences, SequencesExt

CONSTANTS
  Letter,      \* keys with a character
  KBUF,        \* bytes of kbuffer (512)
  MaxLine,     \* bound: keys stored in one scan
  NUL

KeyboardConstants == KBUF \in Nat /\ MaxLine \in 0..(KBUF - 1)

VARIABLES
  pc,          \* where the reader is in scank(); "idle" outside of it
  kbuffer, count, scan_flag, shift_key,
  typed,       \* the line as the user means it, since the reader waits
  high,        \* its greatest length so far
  stray,       \* a key was stored outside of the line: before count was set
               \* to 0, or after Backspace took it below
  entered      \* Enter was pressed in this scan

vars == <<pc, kbuffer, count, scan_flag, shift_key, typed, high, stray, entered>>

Cell == 0..(KBUF - 1)
Empty == [k \in Cell |-> NUL]

(* The tables: a letter has a plain and a shifted character; for the keys  *)
(* without one (Ctrl, Alt, Caps Lock, the arrows...) they hold 0.          *)
Char(key) == IF key = "dead" THEN NUL ELSE <<key, shift_key>>

-----------------------------------------------------------------------------
Init ==
  /\ pc = "idle"
  /\ kbuffer = Empty /\ count = 0 /\ scan_flag = FALSE /\ shift_key = 0
  /\ typed = <<>> /\ high = 0
  /\ stray = FALSE /\ entered = FALSE

(* scank(), first loop.                                                    *)
scank_clear ==
  /\ pc = "idle"
  /\ kbuffer' = Empty
  /\ pc' = "flag"
  /\ UNCHANGED <<count, scan_flag, shift_key, typed, high, stray, entered>>

scank_flag ==
  /\ pc = "flag"
  /\ scan_flag' = TRUE
  /\ pc' = "count"
  /\ UNCHANGED <<kbuffer, count, shift_key, typed, high, stray, entered>>

(* Mutant: count keeps its value from the last line.                       *)
scank_count_kept ==
  /\ pc = "count"
  /\ pc' = "wait"
  /\ UNCHANGED <<kbuffer, count, scan_flag, shift_key, typed, high, stray, entered>>

scank_count ==
  /\ pc = "count"
  /\ count' = 0
  /\ pc' = "wait"
  /\ UNCHANGED <<kbuffer, scan_flag, shift_key, typed, high, stray, entered>>

(* while(scan_flag); is left.                                              *)
scank_wait ==
  /\ pc = "wait" /\ ~scan_flag
  /\ pc' = "copy"
  /\ UNCHANGED <<kbuffer, count, scan_flag, shift_key, typed, high, stray, entered>>

(* A sequence up to its first NUL.                                         *)
CString(s) ==
  LET n == CHOOSE n \in 0..Len(s) : /\ \A k \in 1..n : s[k] # NUL
                                    /\ n < Len(s) => s[n + 1] = NUL
  IN  SubSeq(s, 1, n)

(* The string in kbuffer, which scank() copies to the caller.              *)
Line == CString([k \in 1..KBUF |-> kbuffer[k - 1]])

(* The reader is outside of scank() again; the history starts anew.        *)
Leaves ==
  /\ pc' = "idle"
  /\ typed' = <<>> /\ high' = 0 /\ stray' = FALSE /\ entered' = FALSE

(* The string is copied and the buffer cleared again.                      *)
scank_copy ==
  /\ pc = "copy"
  /\ kbuffer' = Empty
  /\ Leaves
  /\ UNCHANGED <<count, scan_flag, shift_key>>

-----------------------------------------------------------------------------
(* Mutant: Enter does not end the scan while Shift is pressed.             *)
EndsScan_unshifted(key) == key = "enter" /\ shift_key = 0

EndsScan(key) == key = "enter"

(* kbuffer[count++]: below 0 the store goes to memory of somebody else.    *)
Put(key) == IF count \in Cell THEN [kbuffer EXCEPT ![count] = Char(key)] ELSE kbuffer

(* The character is stored.  Nothing keeps count within the buffer above;  *)
(* the guards do (MaxLine bounds the model).                               *)
Stores(key) ==
  /\ key \in Letter \cup {"dead"} /\ scan_flag
  /\ count < KBUF /\ Len(typed) < MaxLine
  /\ kbuffer' = Put(key)
  /\ count' = count + 1
  /\ typed' = IF pc = "wait" THEN Append(typed, Char(key)) ELSE typed
  /\ high' = IF Len(typed') > high THEN Len(typed') ELSE high
  /\ stray' = (stray \/ pc = "count" \/ count < 0)

(* Backspace only takes count back: the character stays in kbuffer.        *)
Erases(key) ==
  /\ key = "backspace" /\ scan_flag /\ count >= 0
  /\ count' = count - 1
  /\ typed' = IF pc = "wait" /\ typed # <<>> THEN Front(typed) ELSE typed
  /\ UNCHANGED <<kbuffer, high, stray>>

Ignores(key) ==
  /\ key = "enter" \/ ~scan_flag
  /\ UNCHANGED <<kbuffer, count, typed, high, stray>>

(* kb_handler(), for a key that is pressed.  Shift holds for one key.      *)
kb_handler(key) ==
  /\ \/ Stores(key) \/ Erases(key) \/ Ignores(key)
  /\ scan_flag' = (scan_flag /\ ~EndsScan(key))
  /\ entered' = (entered \/ (key = "enter" /\ pc \in {"count", "wait"}))
  /\ shift_key' = 0
  /\ UNCHANGED pc

(* Mutant: every press of Shift is counted.                                *)
kb_handler_shift_counts ==
  /\ shift_key' = shift_key + 1
  /\ UNCHANGED <<pc, kbuffer, count, scan_flag, typed, high, stray, entered>>

(* Shift is pressed.  Its release code is tested for after masking, so     *)
(* that releases do nothing.                                               *)
kb_handler_shift ==
  /\ shift_key' = 1
  /\ UNCHANGED <<pc, kbuffer, count, scan_flag, typed, high, stray, entered>>

(* Mutant: scan_flag is not tested.                                        *)
schedule_always ==
  /\ pc # "idle"
  /\ Leaves
  /\ UNCHANGED <<kbuffer, count, scan_flag, shift_key>>

(* The switch in call_timer(): the reader leaves the CPU inside scank(),   *)
(* and a call that is interrupted is never finished (module Context).      *)
schedule ==
  /\ pc # "idle" /\ ~scan_flag
  /\ Leaves
  /\ UNCHANGED <<kbuffer, count, scan_flag, shift_key>>

scank == scank_flag \/ scank_count \/ scank_wait \/ scank_copy

Keys == Letter \cup {"dead", "enter", "backspace"}

-----------------------------------------------------------------------------
(* The line scank() returns is the line that was typed: no key of an       *)
(* earlier line, of an abandoned scan or from between two reads gets into  *)
(* it.  A key without a character ends it there.  Characters that were     *)
(* erased and not typed over come after it.                                *)
LineIsTyped ==
  pc = "copy" /\ ~stray =>
    IF NUL \in Range(typed) THEN Line = CString(typed)
    ELSE /\ IsPrefix(typed, Line) /\ Len(Line) <= high
         /\ high = Len(typed) => Line = typed

(* The scheduler is disabled only while the loop waits: scan_flag is set   *)
(* in no other state of the reader.                                        *)
FlagOnlyInScan == scan_flag => pc \in {"count", "wait"}

(* Enter ends the scan: once it is pressed the reader leaves the loop.     *)
EnterEndsScan == (pc = "wait" /\ entered) ~> pc # "wait"
=============================================================================
