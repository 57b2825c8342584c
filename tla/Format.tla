------------------------------- MODULE Format -------------------------------
(***************************************************************************)
(* vsnprintf and itoa (lib/common), one character of the format per step.  *)
(* The length it is given is not looked at.                                *)
(*                                                                         *)
(* A character is its ASCII code.  An argument is a word of LongBits; %d   *)
(* and %x make an int of IntBits of it.                                    *)
(***************************************************************************)
EXTENDS Integers, FiniteSets, SequencesExt

CONSTANTS
  IntBits, LongBits,
  StringAt     \* the string at each address a %s is given

\* What Library assumes of them.
FormatAssumption ==
  /\ IntBits \in Nat \ {0} /\ LongBits \in Nat /\ LongBits >= IntBits
  /\ DOMAIN StringAt \subseteq 0 .. 2 ^ LongBits - 1
  /\ \A w \in DOMAIN StringAt : StringAt[w] \in Seq(Nat)

VARIABLES
  format, args,
  taken,         \* arguments va_arg has given
  i,             \* index of format
  conv,          \* after a '%'
  zero, width,   \* FLAG_FILL_ZERO, and the number before the letter
  str            \* what is written so far; its length is what is returned

fmt == <<format, args, taken, i, conv, zero, width, str>>

Digit0 == 48
Percent == 37
Digits == Digit0 .. Digit0 + 9
Minus == 45
NullString == <<40, 110, 117, 108, 108, 41>>     \* "(null)"

Start ==
  /\ taken = 0 /\ i = 1 /\ conv = FALSE /\ zero = FALSE /\ width = 0 /\ str = <<>>

-----------------------------------------------------------------------------
\* itoa

\* A word passed for an int.
AsInt(word) ==
  LET low == word % 2 ^ IntBits
  IN  IF low < 2 ^ (IntBits - 1) THEN low ELSE low - 2 ^ IntBits

Abs(n) == IF n < 0 THEN -n ELSE n

\* The table has the digits on both sides of its middle, so that the remainder of
\* a negative number finds its own.
Digit(d) == IF d < 10 THEN Digit0 + d ELSE 87 + d

\* Lowest digit first; the do loop writes one for 0 too.
Emitted(n, radix) ==
  LET out[v \in Nat] ==
        <<Digit(v % radix)>> \o (IF v < radix THEN <<>> ELSE out[v \div radix])
  IN  out[Abs(n)]

\* Mutant: the sign is written before the digits are turned.
ItoaSignFirst(value, radix) ==
  Reverse((IF value < 0 /\ radix = 10 THEN <<Minus>> ELSE <<>>) \o Emitted(value, radix))

Itoa(value, radix) ==
  Reverse(Emitted(value, radix) \o (IF value < 0 /\ radix = 10 THEN <<Minus>> ELSE <<>>))

-----------------------------------------------------------------------------
\* The loop

At == format[i]
Going == i <= Len(format)
Takes(char) == Going /\ conv /\ At = char /\ taken < Len(args)
Word == args[taken + 1]

\* A conversion is over; only that of an x resets the flag and the width.
Puts(s) ==
  /\ str' = str \o s
  /\ i' = i + 1 /\ conv' = FALSE
  /\ UNCHANGED <<format, args>>

Plain ==
  /\ Going /\ ~conv /\ At # Percent
  /\ Puts(<<At>>) /\ UNCHANGED <<taken, zero, width>>

Sign ==
  /\ Going /\ ~conv /\ At = Percent
  /\ i' = i + 1 /\ conv' = TRUE
  /\ UNCHANGED <<format, args, taken, zero, width, str>>

Number ==
  /\ Going /\ conv /\ At \in Digits
  /\ zero' = (zero \/ (At = Digit0 /\ width = 0))
  /\ width' = 10 * width + At - Digit0
  /\ i' = i + 1
  /\ UNCHANGED <<format, args, taken, conv, str>>

ConvS ==
  /\ Takes(115)
  /\ Puts(IF Word = 0 THEN NullString ELSE StringAt[Word])
  /\ taken' = taken + 1 /\ UNCHANGED <<zero, width>>

ConvD ==
  /\ Takes(100)
  /\ Puts(Itoa(AsInt(Word), 10))
  /\ taken' = taken + 1 /\ UNCHANGED <<zero, width>>

ConvX ==
  /\ Takes(120)
  /\ LET xs == Itoa(AsInt(Word), 16)
         fill == IF zero /\ width > Len(xs) THEN width - Len(xs) ELSE 0
     IN  Puts([k \in 1 .. fill |-> Digit0] \o xs)
  /\ taken' = taken + 1
  /\ zero' = FALSE
  /\ width' = IF zero THEN 0 ELSE width

ConvC ==
  /\ Takes(99)
  /\ Puts(<<Word % 256>>)
  /\ taken' = taken + 1 /\ UNCHANGED <<zero, width>>

\* Any other letter is dropped, a second '%' as well.
ConvOther ==
  /\ Going /\ conv /\ At \notin Digits \cup {115, 100, 120, 99}
  /\ Puts(<<>>) /\ UNCHANGED <<taken, zero, width>>

Vsnprintf == Plain \/ Sign \/ Number \/ ConvS \/ ConvD \/ ConvX \/ ConvC \/ ConvOther

-----------------------------------------------------------------------------

\* Places of a number in a radix, highest first, as C prints an unsigned.
InRadix(n, radix) ==
  LET places[v \in Nat] ==
        (IF v < radix THEN <<>> ELSE places[v \div radix]) \o <<Digit(v % radix)>>
  IN  places[n]

Padded(s, w) == [k \in 1 .. w - Len(s) |-> Digit0] \o s

\* Where the directives begin, up to index k.
Percents(k) == {m \in 1 .. k : format[m] = Percent}

\* A directive that begins at k: where its letter is, the number up to an index, the argument.
Letter(k) ==
  CHOOSE l \in k + 1 .. Len(format) :
    format[l] \notin Digits /\ \A m \in k + 1 .. l - 1 : format[m] \in Digits
NumberAt(k, l) ==
  LET number[m \in k .. Len(format)] ==
        IF m = k THEN 0 ELSE 10 * number[m - 1] + format[m] - Digit0
  IN  number[l]
Argument(k) == args[Cardinality(Percents(k))]

\* What C's printf writes for it, and from index k on.
Written(k) ==
  LET letter == format[Letter(k)]
      word == Argument(k)
  IN  CASE letter = 115 -> IF word = 0 THEN NullString ELSE StringAt[word]
        [] letter = 100 -> (IF AsInt(word) < 0 THEN <<Minus>> ELSE <<>>)
                             \o InRadix(Abs(AsInt(word)), 10)
        [] letter = 120 -> Padded(InRadix(word, 16), NumberAt(k, Letter(k) - 1))
        [] letter = 99 -> <<word % 256>>
From(k) ==
  LET from[m \in 1 .. Len(format) + 1] ==
        IF m > Len(format) THEN <<>>
        ELSE IF format[m] = Percent THEN Written(m) \o from[Letter(m) + 1]
        ELSE <<format[m]>> \o from[m + 1]
  IN  from[k]
Printf == From(1)

\* Before index k, a word given to a %x was no int that is not negative, nor the least.
CutBefore(k) ==
  \E m \in Percents(k - 1) : format[Letter(m)] = 120 /\ Argument(m) > 2 ^ (IntBits - 1)
HexCut == CutBefore(Len(format) + 1)

\* The formats the kernel uses: a number only for a %x and with a zero in front; and
\* arguments for all directives.
IsFormat(f, a) ==
  /\ f \in Seq(Nat) /\ a \in Seq(DOMAIN StringAt)
  /\ \A k \in DOMAIN f : f[k] = Percent =>
       \E l \in k + 1 .. Len(f) :
         /\ f[l] \in {115, 100, 120, 99} /\ \A m \in k + 1 .. l - 1 : f[m] \in Digits
         /\ l > k + 1 => f[k + 1] = Digit0 /\ f[l] = 120
  /\ Cardinality({k \in DOMAIN f : f[k] = Percent}) <= Len(a)

\* The inductive invariant: k is where the character or directive begins that is read.
\* What is before it was written as printf would, but for what was cut, and that is
\* shorter or, at the same length, another text.
FormatInv ==
  /\ IsFormat(format, args) /\ str \in Seq(Nat)
  /\ \E k \in 1 .. Len(format) + 1 :
       /\ IF conv
          THEN /\ k \in Percents(Len(format)) /\ i \in k + 1 .. Letter(k)
               /\ width = NumberAt(k, i - 1) /\ (zero <=> i > k + 1)
          ELSE i = k /\ ~zero /\ width = 0
       /\ taken = Cardinality(Percents(k - 1))
       /\ \E n \in Len(str) .. Len(Printf) :
            /\ Printf = SubSeq(Printf, 1, n) \o From(k)
            /\ str = SubSeq(Printf, 1, n) <=> ~CutBefore(k)

=============================================================================
