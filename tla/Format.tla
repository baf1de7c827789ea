------------------------------- MODULE Format -------------------------------
(***************************************************************************)
(* vsprintf (kernel/libc/printf.c): the scan of a format, one step for     *)
(* each round of its loop, and number, which writes an integer.            *)
(*                                                                         *)
(* Text is a sequence of characters; position Len + 1 is the terminator.   *)
(* Integers are words of BITS bits, an int its two's complement; so is     *)
(* every argument, be it a character's code or a pointer to a string.  %n, *)
(* which nothing uses, is left out, and so is the case of letters.         *)
(***************************************************************************)
EXTENDS Integers, Sequences

CONSTANTS
  BITS,      \* width of an int; scaled down
  TMP,       \* size of the array tmp of number
  Formats,   \* formats, and the arguments vsprintf gets
  Arguments,
  StringAt   \* the text a pointer points to

Words == 0..2^BITS-1

(* tmp has 36 places, an int 32 bits.                                      *)
ASSUME FormatAssumption ==
  /\ BITS \in Nat \ {0} /\ TMP \in Nat /\ BITS <= TMP
  /\ Formats \subseteq Seq(STRING) /\ Arguments \subseteq Seq(Words)
  /\ StringAt \in [Words -> Seq(STRING)]

VARIABLES
  format,
  fmt,       \* the position the scan is at
  str,       \* what has been written to buf
  args,      \* arguments not yet taken
  field      \* the directive read last, to look at: kind, width, precision,
             \* flags, argument, and the text it came to
formatting == <<format, fmt, str, args, field>>

(* Digits, and the characters that words are the codes of.                 *)
DigitOf == <<"0", "1", "2", "3", "4", "5", "6", "7", "8", "9", "A", "B", "C", "D", "E", "F">>
Value(digit) == CHOOSE v \in 0..15 : DigitOf[v + 1] = digit
Decimal == {DigitOf[v] : v \in 1..10}

CharOf(code) == DigitOf[(code % 16) + 1]

Fill(c, n) == [i \in 1..n |-> c]
AtLeast(m, n) == IF m < n THEN n ELSE m

(* The digits of a word, most significant first: at least one.             *)
Digits(n, base) ==
  LET d[m \in 0..n] == IF m < base THEN <<DigitOf[m + 1]>>
                       ELSE Append(d[m \div base], DigitOf[(m % base) + 1])
  IN d[n]

Negative(num) == num >= 2^(BITS - 1)

Sign(num, type) ==
  IF "SIGN" \in type /\ Negative(num) THEN <<"-">>
  ELSE IF "PLUS" \in type THEN <<"+">>
  ELSE IF "SPACE" \in type THEN <<" ">>
  ELSE <<>>

Magnitude(num, type) == IF "SIGN" \in type /\ Negative(num) THEN (-num) % 2^BITS ELSE num

Prefix(base, type) ==
  IF "SPECIAL" \in type /\ base = 8 THEN <<"0">>
  ELSE IF "SPECIAL" \in type /\ base = 16 THEN <<"0", "x">>
  ELSE <<>>

(* LEFT cancels ZEROPAD.                                                   *)
number(num, base, size, precision, type) ==
  LET tmp == Digits(Magnitude(num, type), base)
      head == Sign(num, type) \o Prefix(base, type)
      body == Fill("0", precision - Len(tmp)) \o tmp
      pad == size - Len(head) - Len(body)
  IN IF "LEFT" \in type THEN head \o body \o Fill(" ", pad)
     ELSE IF "ZEROPAD" \in type THEN head \o Fill("0", pad) \o body
     ELSE Fill(" ", pad) \o head \o body

-----------------------------------------------------------------------------
(* Reading a directive.                                                    *)

Char(k) == IF k <= Len(format) THEN format[k] ELSE "NUL"

FlagOf == [c \in {"-", "+", " ", "#", "0"} |->
             CASE c = "-" -> "LEFT" [] c = "+" -> "PLUS" [] c = " " -> "SPACE"
               [] c = "#" -> "SPECIAL" [] c = "0" -> "ZEROPAD"]

(* The first position from k on whose character is not one of a set.       *)
Past(k, characters) == CHOOSE j \in k .. Len(format) + 1 :
  Char(j) \notin characters /\ \A i \in k .. j-1 : Char(i) \in characters

(* skip_atoi over the positions from k to j - 1.                           *)
Atoi(k, j) ==
  LET n[i \in k-1 .. j-1] == IF i < k THEN 0 ELSE 10 * n[i-1] + Value(Char(i))
  IN n[j-1]

(* va_arg.  Behind the last argument it takes what lies there.             *)
Taken(list) == IF list = <<>> THEN Words ELSE {Head(list)}
Left(list) == IF list = <<>> THEN <<>> ELSE Tail(list)

Signed(num) == IF Negative(num) THEN num - 2^BITS ELSE num

(* A directive's flags, width and precision, the position of its           *)
(* conversion, and the arguments left when it gets there.  '*' takes an    *)
(* argument but stays the character looked at.                             *)
FlagsRead(k) ==
  LET j == Past(k + 1, DOMAIN FlagOf)
  IN [flags |-> {FlagOf[Char(i)] : i \in k+1 .. j-1}, width |-> -1, precision |-> -1,
      at |-> j, args |-> args]

WidthRead(d) ==
  IF Char(d.at) \in Decimal
  THEN LET j == Past(d.at, Decimal) IN [d EXCEPT !.width = Atoi(d.at, j), !.at = j]
  ELSE IF Char(d.at) = "*"
  THEN LET w == Signed(Head(d.args))
       IN [d EXCEPT !.width = IF w < 0 THEN -w ELSE w,
                    !.flags = IF w < 0 THEN @ \cup {"LEFT"} ELSE @, !.args = Left(@)]
  ELSE d

PrecisionRead(d) ==
  IF Char(d.at) # "." THEN d
  ELSE IF Char(d.at + 1) \in Decimal
  THEN LET j == Past(d.at + 1, Decimal) IN [d EXCEPT !.precision = Atoi(d.at + 1, j), !.at = j]
  ELSE IF Char(d.at + 1) = "*"
  THEN [d EXCEPT !.precision = AtLeast(0, Signed(Head(d.args))), !.args = Left(@), !.at = @ + 1]
  ELSE [d EXCEPT !.precision = 0, !.at = @ + 1]

Qualified(d) == IF Char(d.at) \in {"h", "l", "L"} THEN [d EXCEPT !.at = @ + 1] ELSE d

Pointer(d) ==
  IF Char(d.at) = "p" /\ d.width = -1 THEN [d EXCEPT !.width = 8, !.flags = @ \cup {"ZEROPAD"}]
  ELSE d

Directive(k) == Pointer(Qualified(PrecisionRead(WidthRead(FlagsRead(k)))))

-----------------------------------------------------------------------------
(* Writing it.                                                             *)

(* Mutant: the upper-case X takes the base of the decimals.                *)
Base_NoFallThrough(c) == IF c = "o" THEN 8 ELSE IF c \in {"p", "x"} THEN 16 ELSE IF c = "b" THEN 2 ELSE 10

Base(c) == IF c = "o" THEN 8 ELSE IF c \in {"p", "x", "X"} THEN 16 ELSE IF c = "b" THEN 2 ELSE 10

Integer(d, c, num) ==
  number(num, Base(c), d.width, d.precision,
         d.flags \cup IF c \in {"d", "i"} THEN {"SIGN"} ELSE {})

Padded(d, text) ==
  LET pad == Fill(" ", d.width - Len(text))
  IN IF "LEFT" \in d.flags THEN text \o pad ELSE pad \o text

Converted(d, c, arg) ==
  IF c = "c" THEN Padded(d, <<CharOf(arg)>>)
  ELSE IF c # "s" THEN Integer(d, c, arg)
  ELSE LET text == StringAt[arg]
       IN Padded(d, IF d.precision < 0 \/ Len(text) <= d.precision THEN text
                    ELSE SubSeq(text, 1, d.precision))

Conversions == {"c", "s", "o", "p", "x", "X", "d", "i", "u", "b"}
NoField == [kind |-> "none"]

FormatInit ==
  /\ format \in Formats /\ args \in Arguments
  /\ fmt = 1 /\ str = <<>> /\ field = NoField

Literal ==
  /\ Char(fmt) \notin {"%", "NUL"}
  /\ str' = Append(str, Char(fmt)) /\ fmt' = fmt + 1 /\ field' = NoField
  /\ UNCHANGED <<format, args>>

Convert ==
  /\ Char(fmt) = "%"
  /\ LET d == Directive(fmt)
         c == Char(d.at)
     IN /\ c \in Conversions
        /\ \E arg \in Taken(d.args) :
             LET text == Converted(d, c, arg)
             IN /\ str' = str \o text
                /\ field' = [kind |-> c, width |-> d.width, precision |-> d.precision,
                             flags |-> d.flags, arg |-> arg, text |-> text]
        /\ args' = Left(d.args) /\ fmt' = d.at + 1
  /\ UNCHANGED format

(* Mutant: the scan is not taken back from the terminator.                 *)
Unknown_NotBack ==
  /\ Char(fmt) = "%"
  /\ LET d == Directive(fmt)
         c == Char(d.at)
     IN /\ c \notin Conversions
        /\ str' = str \o (IF c = "%" THEN <<>> ELSE <<"%">>) \o (IF c = "NUL" THEN <<>> ELSE <<c>>)
        /\ args' = d.args /\ fmt' = d.at + 1
  /\ field' = NoField /\ UNCHANGED format

(* Any other character, or the terminator, is written behind a '%'; "%%"   *)
(* is one.                                                                 *)
Unknown ==
  /\ Char(fmt) = "%"
  /\ LET d == Directive(fmt)
         c == Char(d.at)
     IN /\ c \notin Conversions
        /\ str' = str \o (IF c = "%" THEN <<>> ELSE <<"%">>) \o (IF c = "NUL" THEN <<>> ELSE <<c>>)
        /\ args' = d.args /\ fmt' = IF c = "NUL" THEN d.at ELSE d.at + 1
  /\ field' = NoField /\ UNCHANGED format

FormatNext == Literal \/ Convert \/ Unknown
FormatSpec == FormatInit /\ [][FormatNext]_formatting

-----------------------------------------------------------------------------
(* Properties.                                                             *)

(* Whatever a format breaks off in, the scan ends at the terminator: it    *)
(* never reads what is behind it.                                          *)
ScanEndsAtTerminator == fmt <= Len(format) + 1

(* The base a conversion stands for, whatever Base takes it for.           *)
Radix == [o |-> 8, p |-> 16, x |-> 16, X |-> 16, d |-> 10, i |-> 10, u |-> 10, b |-> 2]

(* A number read back in its conversion's base, without its padding, has   *)
(* the argument's sign and value, the lowest int included, and its digits  *)
(* have fitted into tmp.  The 0 of "%#o" is read as one digit more.        *)
ReadsBack ==
  field.kind \in DOMAIN Radix =>
    LET base == Radix[field.kind]
        signed == field.kind \in {"d", "i"} /\ Negative(field.arg)
        start == CHOOSE i \in 1..Len(field.text) :
                   field.text[i] \notin {" ", "+", "-"} /\ \A j \in 1..i-1 : field.text[j] \in {" ", "+", "-"}
        end == CHOOSE i \in start..Len(field.text) :
                   field.text[i] # " " /\ \A j \in i+1 .. Len(field.text) : field.text[j] = " "
        first == IF "SPECIAL" \in field.flags /\ base = 16 THEN start + 2 ELSE start
        value[i \in first-1 .. end] ==
          IF i < first THEN 0 ELSE base * value[i-1] + Value(field.text[i])
    IN /\ value[end] = IF signed THEN 2^BITS - field.arg ELSE field.arg
       /\ signed <=> \E i \in 1..Len(field.text) : field.text[i] = "-"
       /\ Len(Digits(value[end], base)) <= TMP

(* Every field vsprintf writes reads back as its argument, is as wide as   *)
(* asked, unless its text is wider, and what fills it is all on the side   *)
(* its flags say.                                                          *)
FieldsAsAsked ==
  /\ ReadsBack
  /\ field.kind # "none" =>
       LET bare == [field EXCEPT !.width = -1, !.flags = @ \ {"ZEROPAD"}]
           text == Converted(bare, field.kind, field.arg)
       IN /\ Len(field.text) = AtLeast(Len(text), field.width)
          /\ "LEFT" \in field.flags => SubSeq(field.text, 1, Len(text)) = text
          /\ "LEFT" \notin field.flags /\ "ZEROPAD" \notin field.flags =>
               SubSeq(field.text, Len(field.text) - Len(text) + 1, Len(field.text)) = text
=============================================================================
