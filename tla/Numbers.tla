------------------------------ MODULE Numbers ------------------------------
(***************************************************************************)
(* Numbers as text: printf() and scanf() of libc with itoa(), xtoa() and   *)
(* atoi(), printk() of the kernel with i_printf(), and atoo(), which reads *)
(* the sizes in the headers of the archive.  Characters are their ASCII    *)
(* codes, because the code computes with them.                             *)
(***************************************************************************)
EXTENDS Integers, Sequences, SequencesExt, FiniteSetsExt

CONSTANTS
  INT,        \* an int is in -INT..INT-1 (2^31)
  U64,        \* a uint64_t is below this (2^64)
  Ints,       \* the numbers that are printed and typed
  BUF,        \* bytes of tmp in printf() (15)
  intSize,    \* cells of numArr in i_printf() (20)
  Stray,      \* what the cell behind numArr may hold
  Field       \* octal digits of a size field (11)

(* The smallest int is left out: itoa() negates it, which is undefined.    *)
ASSUME NumbersAssumption ==
  /\ INT \in Nat /\ U64 \in Nat /\ U64 > 2 * INT
  /\ Ints \subseteq (1 - INT)..(INT - 1)
  /\ BUF \in Nat /\ 10 ^ (BUF - 2) >= INT /\ intSize \in Nat /\ 10 ^ intSize >= U64
  /\ Stray \subseteq 0..9 /\ Field \in Nat /\ 8 ^ Field >= INT

VARIABLES
  tmp,        \* the buffer of printf(), which one call uses for all numbers
  last        \* the last conversion: its name, the number, its text, the
              \* number read from a text

vars == <<tmp, last>>

NUL == 0
Minus == 45
Ascii(d) == d + 48
Space == 32

Cell == 0..(BUF - 1)

-----------------------------------------------------------------------------
(* The loop that stores the digits of n, the last one first.               *)
Digits(n, base) ==
  LET D[k \in 0..n] == IF k = 0 THEN <<>> ELSE <<k % base>> \o D[k \div base]
  IN  D[n]

strlen(b) ==
  CHOOSE k \in Cell : b[k] = NUL /\ \A j \in 0..(k - 1) : b[j] # NUL

(* Mutant: the swap starts at the terminator.                              *)
strrev_with_NUL(b) ==
  LET high == strlen(b) IN [k \in Cell |-> IF k <= high THEN b[high - k] ELSE b[k]]

strrev(b) ==
  LET high == strlen(b) - 1
  IN  [k \in Cell |-> IF k <= high THEN b[high - k] ELSE b[k]]

(* The characters s and a terminator are stored over what b holds.         *)
Stored(b, s) ==
  [k \in Cell |-> CASE k < Len(s) -> s[k + 1] [] k = Len(s) -> NUL [] OTHER -> b[k]]

itoa(n, b) ==
  IF n = 0 THEN Stored(b, <<Ascii(0)>>)
  ELSE LET d == Digits(IF n < 0 THEN -n ELSE n, 10)
       IN  strrev(Stored(b, [i \in DOMAIN d |-> Ascii(d[i])]
                            \o (IF n < 0 THEN <<Minus>> ELSE <<>>)))

(* xtoa() has no loop for a negative number: the text is empty.            *)
xtoa(n, b) ==
  IF n = 0 THEN Stored(b, <<Ascii(0)>>)
  ELSE LET d == IF n < 0 THEN <<>> ELSE Digits(n, 16)
       IN  strrev(Stored(b, [i \in DOMAIN d |-> IF d[i] > 9 THEN d[i] - 10 + 97
                                                ELSE Ascii(d[i])]))

(* Mutant: the number is negated after each digit.                         *)
atoi_negates(s) ==
  LET neg == s # <<>> /\ s[1] = Minus
      val == FoldLeft(LAMBDA num, c : (IF neg THEN -1 ELSE 1) * (num * 10 + (c - 48)), 0,
                      IF neg THEN Tail(s) ELSE s)
  IN  val

atoi(s) ==
  LET neg == s # <<>> /\ s[1] = Minus
      val == FoldLeft(LAMBDA num, c : num * 10 + (c - 48), 0, IF neg THEN Tail(s) ELSE s)
  IN  IF neg THEN -val ELSE val

(* Characters other than digits are skipped.                               *)
atoo(s) ==
  FoldLeft(LAMBDA num, c : IF c >= 48 /\ c < 57 THEN num * 8 + (c - 48) ELSE num, 0, s)

-----------------------------------------------------------------------------
(* i_printf(): numArr is filled from cell 0 and printed from the cell      *)
(* after the last digit down, without leading zeros.  With intSize digits  *)
(* that cell lies behind the array.                                        *)
i_printf(num, base, stray) ==
  IF num = 0 THEN <<Ascii(0)>>
  ELSE LET d      == Digits(num, base)
           numArr == Append([i \in DOMAIN d |-> IF d[i] > 9 THEN d[i] + 39 ELSE d[i]],
                            IF Len(d) < intSize THEN 0 ELSE stray)
           top    == Max({i \in DOMAIN numArr : numArr[i] # 0})
       IN  [k \in 1..top |-> Ascii(numArr[top - k + 1])]

(* printk("%d"), printk("%x"): the sign, then the number as a uint64_t.    *)
Signed(num, base, stray) ==
  (IF num < 0 THEN <<Minus>> ELSE <<>>) \o i_printf(num % U64, base, stray)

(* printk("%p"): va_arg takes an int, which is extended; 0x is prepended.  *)
Pointer(num, stray) == i_printf(0, 2, stray) \o <<120>> \o i_printf(num % U64, 16, stray)

-----------------------------------------------------------------------------
Init ==
  /\ tmp = [k \in Cell |-> NUL]
  /\ last = [op |-> "none", num |-> 0, text |-> <<>>, res |-> 0]

Converts(op, n, text, res) ==
  last' = [op |-> op, num |-> n, text |-> text, res |-> res]

(* The string in a buffer.                                                 *)
String(b) == [k \in 1..strlen(b) |-> b[k - 1]]

printf_d(n) ==
  /\ tmp' = itoa(n, tmp)
  /\ Converts("%d", n, String(tmp'), 0)

printf_x(n) ==
  /\ tmp' = xtoa(n, tmp)
  /\ Converts("%x", n, String(tmp'), 0)

printf_c(n) ==
  /\ tmp' = Stored(tmp, <<n>>)
  /\ Converts("%c", n, <<n>>, 0)

(* A new call of printf() has a cleared buffer.                            *)
printf ==
  /\ tmp' = [k \in Cell |-> NUL]
  /\ UNCHANGED last

printk(op, n) ==
  /\ \E stray \in Stray :
       Converts(op, n, CASE op = "printk %d" -> Signed(n, 10, stray)
                         [] op = "printk %x" -> Signed(n, 16, stray)
                         [] op = "printk %p" -> Pointer(n, stray), 0)
  /\ UNCHANGED tmp

(* scanf("%d"): a line s was typed.                                        *)
scanf_d(s, n) ==
  /\ Converts("scanf", n, s, atoi(s))
  /\ UNCHANGED tmp

(* tarfs_initialize(): the size in a header, s, is read.                   *)
tar_size(s, n) ==
  /\ Converts("size", n, s, atoo(s))
  /\ UNCHANGED tmp

-----------------------------------------------------------------------------
(* What a text means, by the position of its digits.                       *)
DigitOf(c) == IF c >= 97 THEN c - 97 + 10 ELSE c - 48

Value(s, base) ==
  MapThenSumSet(LAMBDA i : DigitOf(s[i]) * base ^ (Len(s) - i), DOMAIN s)

(* The text of n >= 0 with digits below base and no leading zero.          *)
Numeral(s, base, n) ==
  /\ s # <<>> /\ Value(s, base) = n
  /\ \A i \in DOMAIN s : s[i] \in 48..57 \cup 97..102 /\ DigitOf(s[i]) < base
  /\ s[1] = Ascii(0) => Len(s) = 1

(* The text of an int.                                                     *)
Decimal(s, n) ==
  IF n < 0 THEN s # <<>> /\ s[1] = Minus /\ Numeral(Tail(s), 10, -n)
  ELSE Numeral(s, 10, n)

(* What a person types for n, and the fields of a header that stand for n: *)
(* leading zeros, and a blank at the end in old archives.                  *)
Typed(n) ==
  LET d == Reverse([i \in DOMAIN Digits(IF n < 0 THEN -n ELSE n, 10) |->
                      Ascii(Digits(IF n < 0 THEN -n ELSE n, 10)[i])])
  IN  (IF n < 0 THEN <<Minus>> ELSE <<>>) \o (IF n = 0 THEN <<Ascii(0)>> ELSE d)

Fields(n) ==
  LET o == [i \in 1..Field |-> Ascii((n \div (8 ^ (Field - i))) % 8)]
  IN  {o, o \o <<Space>>}

Next ==
  \/ \E n \in Ints : printf_d(n) \/ printf_x(n) \/ scanf_d(Typed(n), n)
  \/ \E n \in {97, Ascii(7)} : printf_c(n)
  \/ printf
  \/ \E n \in Ints, op \in {"printk %d", "printk %x", "printk %p"} : printk(op, n)
  \/ \E n \in {m \in Ints : m >= 0} : \E s \in Fields(n) : tar_size(s, n)

Spec == Init /\ [][Next]_vars

-----------------------------------------------------------------------------
(* What is printed is the number.  printf(): whatever longer text tmp held *)
(* before, the string in it after itoa() is the decimal numeral, after     *)
(* xtoa() of a number that is not negative the hexadecimal one.  printk(): *)
(* of a number that is not negative i_printf() prints all digits in order  *)
(* and no leading zero, whatever lies behind its array.                    *)
PrintedExact ==
  /\ last.op = "%d" => Decimal(last.text, last.num)
  /\ last.num >= 0 =>
       /\ last.op \in {"%x", "printk %x"} => Numeral(last.text, 16, last.num)
       /\ last.op = "printk %d" => Numeral(last.text, 10, last.num)
       /\ last.op = "printk %p" =>
            /\ SubSeq(last.text, 1, 2) = <<Ascii(0), 120>>
            /\ Numeral(SubSeq(last.text, 3, Len(last.text)), 16, last.num)

(* scanf("%d") stores the number that was typed, and file_size is the size *)
(* in the header, with either form of the field.                           *)
ParsedExact == last.op \in {"scanf", "size"} => last.res = last.num
=============================================================================
