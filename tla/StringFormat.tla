---------------------------- MODULE StringFormat ----------------------------
(***************************************************************************)
(* A call of console_format (console.c): string_format_args and the        *)
(* conversions of numbers (util.c).  One step handles a character or a     *)
(* directive of the format, or one digit.                                  *)
(*                                                                         *)
(* A format is given in pieces, each a character or a directive.  Numbers  *)
(* have the width of their type: -num overflows for the smallest one, and  *)
(* the remainder of a negative number is negative.                         *)
(***************************************************************************)
EXTENDS Integers, SequencesExt

CONSTANTS IntBits, LongBits,   \* 32, 64
          Formats,             \* sequences of pieces, which are sequences of characters
          Arguments            \* numbers that may be passed

NUL     == "NUL"
Unknown == "?"   \* a character that is not a digit, or what is behind the format
DIGITS  == <<"0", "1", "2", "3", "4", "5", "6", "7", "8", "9", "A", "B", "C", "D", "E", "F">>
Numeric == {"i", "l", "p"}

\* Pieces that take an argument.
Wanted(pieces) == SelectSeq(pieces, LAMBDA p : Len(p) > 1 /\ Last(p) \in Numeric)

ASSUME FormatAssumption ==
    /\ IntBits \in Nat \ {0} /\ LongBits \in Nat \ {0} /\ IntBits <= LongBits
    /\ Formats \subseteq Seq(Seq(STRING))
    /\ Arguments \subseteq Int

VARIABLES pieces, args,
          c,             \* the place in the format
          used,          \* arguments taken by va_arg
          buffer,        \* the bytes of dest written so far
          destination,   \* the next place in it, from 1
          number         \* the conversion in progress

vars == <<pieces, args, c, used, buffer, destination, number>>

Idle == [busy |-> FALSE, value |-> 0, bits |-> 0, base |-> 0, left |-> 0, digits |-> <<>>]

Init == /\ pieces \in Formats
        /\ args \in [DOMAIN Wanted(pieces) -> Arguments]
        /\ c = 1 /\ used = 0 /\ buffer = <<>> /\ destination = 1 /\ number = Idle

format  == FlattenSeq(pieces)
Char(k) == CASE k <= Len(format) -> format[k] [] k = Len(format) + 1 -> NUL [] OTHER -> Unknown

\* text is written from the next place on.
Put(text) == buffer' = SubSeq(buffer, 1, destination - 1) \o text
                           \o SubSeq(buffer, destination + Len(text), Len(buffer))
-----------------------------------------------------------------------------
\* The conversions.
Signed(n, bits)   == ((n + 2^(bits - 1)) % 2^bits) - 2^(bits - 1)
Unsigned(n, bits) == n % 2^bits

\* Division rounds towards zero.
Quotient(n, base)  == IF n < 0 THEN -((-n) \div base) ELSE n \div base
Remainder(n, base) == n - Quotient(n, base) * base

Digit(d) == IF d \in 0 .. 15 THEN DIGITS[d + 1] ELSE Unknown

\* Mistake: an int is extended to a long before it is converted.
StartWide(n, base, bits, signed) ==
    LET v == IF signed THEN Signed(n, bits) ELSE Unsigned(n, LongBits)
    IN  [busy |-> TRUE, value |-> v, bits |-> bits, base |-> base,
         left |-> IF v < 0 THEN Signed(-v, bits) ELSE v, digits |-> <<>>]

\* The number as it is when the loop over its digits begins.
Start(n, base, bits, signed) ==
    LET v == IF signed THEN Signed(n, bits) ELSE Unsigned(n, bits)
    IN  [busy |-> TRUE, value |-> v, bits |-> bits, base |-> base,
         left |-> IF v < 0 THEN Signed(-v, bits) ELSE v, digits |-> <<>>]

\* The four functions have the same loop and the same end (NextDigit, FinishNumber).
string_from_i32(n, b) == Start(n, b, IntBits, TRUE)
string_from_i64(n, b) == Start(n, b, LongBits, TRUE)
string_from_u32(n, b) == Start(n, b, IntBits, FALSE)
string_from_u64(n, b) == Start(n, b, LongBits, FALSE)

Sign == IF number.value < 0 THEN <<"-">> ELSE <<>>

\* do ... while: there is at least one digit.
MoreDigits == number.digits = <<>> \/ number.left # 0

NextDigit ==
    /\ number.busy /\ MoreDigits
    /\ number' = [number EXCEPT !.digits = Append(@, Digit(Remainder(number.left, number.base))),
                                !.left = Quotient(@, number.base)]
    /\ UNCHANGED <<pieces, args, c, used, buffer, destination>>

\* Mistake: the loop stops one exchange early.
reverse_outer(s) == [k \in DOMAIN s |->
    IF k < Len(s) \div 2 \/ k > Len(s) + 1 - (Len(s) \div 2) THEN s[Len(s) + 1 - k] ELSE s[k]]

\* The first half is exchanged with the second.
string_reverse(s) == [k \in DOMAIN s |->
    IF k <= Len(s) \div 2 \/ k > Len(s) - (Len(s) \div 2) THEN s[Len(s) + 1 - k] ELSE s[k]]

\* The sign goes behind the digits, whose order is then reversed; then a NUL.
FinishNumber ==
    /\ number.busy /\ ~MoreDigits
    /\ LET text == string_reverse(number.digits \o Sign)
       IN  Put(Append(text, NUL)) /\ destination' = destination + Len(text)
    /\ number' = Idle
    /\ UNCHANGED <<pieces, args, c, used>>
-----------------------------------------------------------------------------
\* string_format_args.
Literal == /\ ~number.busy /\ Char(c) \notin {"%", NUL, Unknown}
           /\ Put(<<Char(c)>>)
           /\ destination' = destination + 1
           /\ c' = c + 1
           /\ UNCHANGED <<pieces, args, used, number>>

\* The modifiers of the directive at c: u, then one of b, h and o.
unsign == Char(c + 1) = "u"
AfterU == IF unsign THEN c + 2 ELSE c + 1
base   == CASE Char(AfterU) = "b" -> 2 [] Char(AfterU) = "h" -> 16
            [] Char(AfterU) = "o" -> 8 [] OTHER -> 10
AtType == IF base = 10 THEN AfterU ELSE AfterU + 1

Directive == ~number.busy /\ Char(c) = "%"

DirectiveNumber ==
    /\ Directive /\ Char(AtType) \in Numeric
    /\ used' = used + 1
    /\ number' = CASE Char(AtType) = "i" /\ unsign  -> string_from_u32(args[used'], base)
                   [] Char(AtType) = "i" /\ ~unsign -> string_from_i32(args[used'], base)
                   [] Char(AtType) = "l" /\ unsign  -> string_from_u64(args[used'], base)
                   [] Char(AtType) = "l" /\ ~unsign -> string_from_i64(args[used'], base)
                   [] Char(AtType) = "p"            -> string_from_u64(args[used'], 16)
    /\ c' = AtType + 1
    /\ UNCHANGED <<pieces, args, buffer, destination>>

DirectivePercent ==
    /\ Directive /\ Char(AtType) = "%"
    /\ Put(<<"%">>)
    /\ destination' = destination + 1
    /\ c' = AtType + 1
    /\ UNCHANGED <<pieces, args, used, number>>

\* An unknown directive is left out; the loop goes on behind it, even behind the NUL.
DirectiveUnknown ==
    /\ Directive /\ Char(AtType) \notin Numeric \cup {"%"}
    /\ c' = AtType + 1
    /\ UNCHANGED <<pieces, args, used, buffer, destination, number>>

Next == NextDigit \/ FinishNumber \/ Literal
        \/ DirectiveNumber \/ DirectivePercent \/ DirectiveUnknown

Spec == Init /\ [][Next]_vars

-----------------------------------------------------------------------------
Ended == ~number.busy /\ Char(c) = NUL

TypeOK ==
    /\ pieces \in Formats
    /\ c \in 1 .. (Len(format) + 2)
    /\ used \in 0 .. Len(args)
    /\ \A k \in DOMAIN buffer : buffer[k] \in STRING
    /\ destination \in 1 .. (Len(buffer) + 1)
    /\ number.busy \in BOOLEAN /\ number.value \in Int /\ number.left \in Int

IsSmallest(n, bits) == n = -(2^(bits - 1))

\* A number as it is written, most significant digit first.
Numeral(n, b) ==
    LET f[m \in 0 .. (2^LongBits - 1)] ==
            IF m < b THEN <<DIGITS[m + 1]>> ELSE Append(f[m \div b], DIGITS[(m % b) + 1])
    IN  IF n < 0 THEN <<"-">> \o f[-n] ELSE f[n]

\* What a piece of the format stands for, with the argument n.
Bits(p)    == IF Last(p) = "i" THEN IntBits ELSE LongBits
Meaning(p, n) ==
    LET b == CASE "b" \in Range(p) -> 2 [] "o" \in Range(p) -> 8
               [] "h" \in Range(p) \/ Last(p) = "p" -> 16 [] OTHER -> 10
        v == IF "u" \in Range(p) \/ Last(p) = "p" THEN Unsigned(n, Bits(p)) ELSE Signed(n, Bits(p))
    IN  CASE Len(p) = 1                        -> p
          [] Len(p) > 1 /\ Last(p) \in Numeric -> Numeral(v, b)
          [] Len(p) > 1 /\ Last(p) = "%"       -> <<"%">>
          [] OTHER                             -> <<>>

ArgumentOf(k) == LET w == Len(Wanted(SubSeq(pieces, 1, k))) IN IF w = 0 THEN 0 ELSE args[w]
Text == FlattenSeq([k \in DOMAIN pieces |-> Meaning(pieces[k], ArgumentOf(k))])

\* No argument is the smallest number of its signed type.
Ordinary == \A k \in DOMAIN pieces :
    LET p == pieces[k] IN
        Len(p) > 1 /\ Last(p) \in Numeric /\ "u" \notin Range(p)
            => ~IsSmallest(Signed(ArgumentOf(k), Bits(p)), Bits(p))

\* util.c: the text is what the format and the numbers stand for.
FormatRight == Ended /\ Ordinary => SubSeq(buffer, 1, destination - 1) = Text

\* console.c, "char dest[sizeof(int) * 8 + 1]": digits, sign and NUL of any number but the
\* smallest fit, in any base.
FitsBuffer == number.busy /\ ~IsSmallest(number.value, number.bits)
                => Len(number.digits) + Len(Sign) + 1 <= number.bits + 1

\* console.c: console_print finds the NUL behind the text.
Terminated == Ended => destination <= Len(buffer) /\ buffer[destination] = NUL

\* util.c: the smallest number is converted like the others.
SmallestRight == Ended => SubSeq(buffer, 1, destination - 1) = Text
SmallestFits  == number.busy => Len(number.digits) + Len(Sign) + 1 <= number.bits + 1
=============================================================================
