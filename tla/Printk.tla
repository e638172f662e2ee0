------------------------------- MODULE Printk -------------------------------
(***************************************************************************)
(* The formatting half of the console (debug/printk.c): what one directive *)
(* of a format string turns into.  A text is a sequence of glyphs.         *)
(*                                                                         *)
(* An item of a format is a plain glyph or a directive; a directive is     *)
(* what vsprintf has gathered when it reaches the conversion letter.  An   *)
(* argument is the bit pattern of the register that holds it.              *)
(***************************************************************************)
EXTENDS Integers, Sequences, FiniteSets

CONSTANTS IntBits,     \* width of an int, 32 in the code
          LongBits,    \* width of a long and of a pointer, 64 in the code
          PointerWidth \* digits of a pointer, 2 * sizeof(void *)

ASSUME PrintkAssumption ==
  /\ IntBits \in Nat \ {0}
  /\ LongBits \in Nat
  /\ IntBits <= LongBits
  /\ PointerWidth \in Nat
  /\ {2 ^ IntBits, 2 ^ LongBits, 2 ^ (LongBits - 1)} \subseteq Nat \ {0}
  /\ 2 ^ IntBits <= 2 ^ LongBits

\* An item of a format string; `dot` says whether a precision is given, and
\* `star` whether the width came from the arguments, with its sign.
\* The argument is a number, or the characters it stands for.
Plain(glyph) == [conv |-> "plain", text |-> <<glyph>>]
Directive(flags, width, star, dot, precision, long, conv, arg) ==
  [flags |-> flags, width |-> width, star |-> star, dot |-> dot,
   precision |-> precision, long |-> long, conv |-> conv, arg |-> arg, text |-> <<>>]

AllFlags == {"LEFT", "PLUS", "SPACE", "SPECIAL", "ZEROPAD"}
Item ==
  [conv : {"plain"}, text : Seq(STRING)]
    \cup [flags : SUBSET AllFlags, width : Int, star : BOOLEAN, dot : BOOLEAN,
          precision : Int, long : BOOLEAN, conv : STRING, arg : Nat, text : Seq(STRING)]

Lower == <<"0", "1", "2", "3", "4", "5", "6", "7", "8", "9", "a", "b", "c", "d", "e", "f">>
Upper == <<"0", "1", "2", "3", "4", "5", "6", "7", "8", "9", "A", "B", "C", "D", "E", "F">>

Larger(a, b)      == IF a >= b THEN a ELSE b
Repeat(glyph, n)  == [k \in 1 .. Larger(n, 0) |-> glyph]

\* The loop over do_div: the digits of n, the most significant one first.
Numeral(n, base) ==
  LET f[k \in 0 .. n] == IF k < base THEN <<k>> ELSE Append(f[k \div base], k % base)
  IN  f[n]

\* number: sign and base prefix take room of the field; what is left of it
\* is filled with blanks or zeros on the left, or with blanks on the right.
number(num, base, field_width, precision0, type) ==
  LET negative  == "SIGN" \in type /\ num >= 2 ^ (LongBits - 1)
      tmp       == Numeral(IF negative THEN 2 ^ LongBits - num ELSE num, base)
      sign      == IF negative THEN <<"-">>
                   ELSE IF "PLUS" \in type THEN <<"+">>
                   ELSE IF "SPACE" \in type THEN <<" ">> ELSE <<>>
      special   == IF "SPECIAL" \notin type \/ base = 10 THEN <<>>
                   ELSE IF base = 8 THEN <<"0">>
                   ELSE <<"0", IF "SMALL" \in type THEN "x" ELSE "X">>
      precision == Larger(precision0, Len(tmp))
      size      == field_width - Len(sign) - Len(special) - precision
      Fill(glyph, when) == IF when THEN Repeat(glyph, size) ELSE <<>>
      left      == "LEFT" \in type
      zero      == ~left /\ "ZEROPAD" \in type
      Letter(d) == IF "SMALL" \in type THEN Lower[d + 1] ELSE Upper[d + 1]
  IN  Fill(" ", ~left /\ ~zero) \o sign \o special \o Fill("0", zero)
        \o Repeat("0", precision - Len(tmp)) \o [k \in DOMAIN tmp |-> Letter(tmp[k])]
        \o Fill(" ", left)

\* A negative width from the arguments is a flag and a width.
Flags(d)     == d.flags \cup IF d.star /\ d.width < 0 THEN {"LEFT"} ELSE {}
Width(d)     == IF d.star /\ d.width < 0 THEN -d.width ELSE d.width
Precision(d) == IF d.dot THEN Larger(d.precision, 0) ELSE -1

\* va_arg: without the qualifier l the argument is an unsigned int, also
\* for the signed conversions.
Argument(d) == IF d.long \/ d.conv = "p" THEN d.arg % 2 ^ LongBits ELSE d.arg % 2 ^ IntBits

\* Mutated: the flags of the conversion itself are lost.
Integer_flagless(d, base, flags) == number(Argument(d), base, Width(d), Precision(d), Flags(d))

\* number with what the directive says and the flags of its conversion.
Integer(d, base, flags) == number(Argument(d), base, Width(d), Precision(d), Flags(d) \cup flags)

\* Blanks on the side LEFT does not name.
Justify(d, text) ==
  LET blanks == Repeat(" ", Width(d) - Len(text))
  IN  IF "LEFT" \in Flags(d) THEN text \o blanks ELSE blanks \o text

\* vsprintf: what one item adds to the text.
vsprintf(d) ==
  CASE d.conv = "plain"      -> d.text
    [] d.conv = "c"          -> Justify(d, d.text)
    [] d.conv = "s"          -> Justify(d, IF d.dot /\ Precision(d) < Len(d.text)
                                           THEN SubSeq(d.text, 1, Precision(d)) ELSE d.text)
    [] d.conv = "o"          -> Integer(d, 8, {})
    [] d.conv = "p"          -> IF d.width = -1 /\ ~d.star
                                THEN number(Argument(d), 16, PointerWidth, Precision(d),
                                            d.flags \cup {"ZEROPAD"})
                                ELSE Integer(d, 16, {})
    [] d.conv = "x"          -> Integer(d, 16, {"SMALL"})
    [] d.conv = "X"          -> Integer(d, 16, {})
    [] d.conv \in {"d", "i"} -> Integer(d, 10, {"SIGN"})
    [] d.conv = "u"          -> Integer(d, 10, {})
    [] d.conv = "n"          -> <<>>
    [] d.conv = "%"          -> <<"%">>
    [] d.conv = "end"        -> <<"%">>          \* the format ends after the %
    [] OTHER                 -> <<"%", d.conv>>

-----------------------------------------------------------------------------
\* What a numeral means.
Value(digits, base) ==
  LET v[k \in 0 .. Len(digits)] == IF k = 0 THEN 0 ELSE base * v[k - 1] + digits[k]
  IN  v[Len(digits)]
DigitValue(glyph, letters) == (CHOOSE k \in DOMAIN letters : letters[k] = glyph) - 1

\* A text that shows the number n, of the given sign and base: blanks, the
\* sign, the prefix, and digits of that value, no wider than it has to be.
Shows(text, d, sign, prefix, n, base, letters) ==
  LET width     == Width(d)
      precision == Precision(d)
      left      == "LEFT" \in Flags(d)
      zero      == ~left /\ "ZEROPAD" \in Flags(d)
      head      == sign \o prefix
  IN \E from \in 0 .. Len(text), to \in 1 .. Len(text) :
       LET digits == SubSeq(text, from + Len(head) + 1, to) IN
       /\ from + Len(head) < to
       /\ SubSeq(text, 1, from) = Repeat(" ", from)
       /\ SubSeq(text, from + 1, from + Len(head)) = head
       /\ SubSeq(text, to + 1, Len(text)) = Repeat(" ", Len(text) - to)
       /\ \A k \in DOMAIN digits : \E j \in 1 .. base : letters[j] = digits[k]
       /\ Value([k \in DOMAIN digits |-> DigitValue(digits[k], letters)], base) = n
       /\ Len(digits) >= precision
       /\ from > 0 \/ to < Len(text) => Len(text) = width
       /\ Len(text) >= width
       /\ IF left THEN from = 0 ELSE to = Len(text)
       /\ zero => from = 0
       /\ digits[1] = "0" /\ Len(digits) > 1 =>
            Len(digits) = precision \/ (zero /\ Len(text) = width)

\* The text of an integer directive reads as C says, but for an int that
\* is negative (SignedDecimal of Console) and the prefix of a zero.
ReadsAs(text, d) ==
  LET n == Argument(d)
      negative == d.conv \in {"d", "i"} /\ n >= 2 ^ (LongBits - 1)
      sign == IF negative THEN <<"-">>
              ELSE IF "PLUS" \in d.flags THEN <<"+">>
              ELSE IF "SPACE" \in d.flags THEN <<" ">> ELSE <<>>
      special == "SPECIAL" \in d.flags
  IN CASE d.conv = "o" -> Shows(text, d, sign, IF special THEN <<"0">> ELSE <<>>, n, 8, Lower)
       [] d.conv = "x" -> Shows(text, d, sign, IF special THEN <<"0", "x">> ELSE <<>>, n, 16, Lower)
       [] d.conv = "X" -> Shows(text, d, sign, IF special THEN <<"0", "X">> ELSE <<>>, n, 16, Upper)
       [] d.conv \in {"d", "i", "u"} ->
            Shows(text, d, sign, <<>>, IF negative THEN 2 ^ LongBits - n ELSE n, 10, Lower)
       [] OTHER -> TRUE
=============================================================================
