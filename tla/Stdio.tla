-------------------------------- MODULE Stdio -------------------------------
(***************************************************************************)
(* Formatted output: the conversions of lib/stdio.c, the bounded buffer of *)
(* vsnprintf, hex_dump and print_human_readable_size, and the buffered     *)
(* console of lib/user/console.c, each beside the reference it is checked  *)
(* against.  A character is a string of length one, an argument an integer *)
(* or, for %s, a sequence of characters.                                   *)
(***************************************************************************)
EXTENDS Integers, Sequences, SequencesExt

CONSTANTS
  CHAR_BITS, SHORT_BITS, INT_BITS, INTMAX_BITS,  \* 8, 16, 32 and 64 in the code
  BufSize,       \* characters of format_integer's buffer: 64
  PerLine,       \* bytes on a line of hex_dump: 16
  Kilo,          \* 1024 in print_human_readable_size
  AuxSize        \* characters of the buffer of struct vhprintf_aux: 64

NUL == "NUL"         \* the null character
At(f, i) == IF i <= Len(f) THEN f[i] ELSE NUL
Rep(ch, cnt) == IF cnt <= 0 THEN <<>> ELSE [k \in 1..cnt |-> ch]
TakeFirst(s, n) == SubSeq(s, 1, IF n < Len(s) THEN n ELSE Len(s))

----------------------------------------------------------------------------
(* parse_conversion *)

FlagChar == {"-", "+", " ", "#", "0", "'"}
Digits10 == <<"0", "1", "2", "3", "4", "5", "6", "7", "8", "9">>
DigitVal(ch) == CHOOSE d \in 0..9 : Digits10[d + 1] = ch
IsDigit(ch) == \E d \in 1..10 : Digits10[d] = ch

\* The first position at or after I whose character is not accepted.
SkipFlags(f, i) ==
  CHOOSE j \in i..Len(f) + 1 : /\ \A k \in i..(j - 1) : f[k] \in FlagChar
                               /\ At(f, j) \notin FlagChar
SkipDigits(f, i) ==
  CHOOSE j \in i..Len(f) + 1 : (\A k \in i..(j - 1) : IsDigit(f[k])) /\ ~ IsDigit(At(f, j))

\* A number in the format, or `*' for the next argument.
Number(f, i, args) ==
  IF At(f, i) = "*" THEN [n |-> Head(args), at |-> i + 1, args |-> Tail(args)]
  ELSE LET j == SkipDigits(f, i)
       IN  [n |-> FoldLeft(LAMBDA v, ch : v * 10 + DigitVal(ch), 0, SubSeq(f, i, j - 1)),
            at |-> j, args |-> args]

TypeAt(f, i) ==
  CASE At(f, i) = "h" -> IF At(f, i + 1) = "h" THEN <<"CHAR", i + 2>> ELSE <<"SHORT", i + 1>>
    [] At(f, i) = "l" -> IF At(f, i + 1) = "l" THEN <<"LONGLONG", i + 2>> ELSE <<"LONG", i + 1>>
    [] At(f, i) = "j" -> <<"INTMAX", i + 1>>
    [] At(f, i) = "t" -> <<"PTRDIFFT", i + 1>>
    [] At(f, i) = "z" -> <<"SIZET", i + 1>>
    [] OTHER -> <<"INT", i>>

PrecisionAfter(f, width) ==
  IF At(f, width.at) = "." THEN Number(f, width.at + 1, width.args)
  ELSE [n |-> -1, at |-> width.at, args |-> width.args]

\* The conversion with the flags GIVEN and the numbers and the type read.
ConversionOf(given, width, prec, type) ==
  LET precision == IF prec.n < 0 THEN -1 ELSE prec.n
      alone == (given \ (IF "-" \in given THEN {"0"} ELSE {}))
                      \ (IF "+" \in given THEN {" "} ELSE {})
  IN  [flags |-> (alone \cup (IF width.n < 0 THEN {"-"} ELSE {}))
                   \ (IF precision >= 0 THEN {"0"} ELSE {}),
       width |-> IF width.n < 0 THEN -width.n ELSE width.n,
       precision |-> precision, type |-> type[1], at |-> type[2], args |-> prec.args]

parse_conversion(f, i, args) ==
  LET w == SkipFlags(f, i)
      width == Number(f, w, args)
      prec == PrecisionAfter(f, width)
  IN  ConversionOf({f[k] : k \in i..(w - 1)}, width, prec, TypeAt(f, prec.at))

----------------------------------------------------------------------------
(* format_integer, format_string *)

Base == [d |-> [base |-> 10, x |-> "", group |-> 3], o |-> [base |-> 8, x |-> "", group |-> 3],
         x |-> [base |-> 16, x |-> "x", group |-> 4], X |-> [base |-> 16, x |-> "X", group |-> 4]]
Lower == Digits10 \o <<"a", "b", "c", "d", "e", "f">>
Upper == Digits10 \o <<"A", "B", "C", "D", "E", "F">>
DigitsOf(b) == IF b.x = "X" THEN Upper ELSE Lower

\* The digits of VALUE in the order they enter the buffer, the last first.
RECURSIVE Digits(_, _, _, _)
Digits(value, b, group, cnt) ==
  IF value = 0 THEN <<>>
  ELSE (IF group /\ cnt > 0 /\ cnt % b.group = 0 THEN <<",">> ELSE <<>>)
         \o <<DigitsOf(b)[(value % b.base) + 1]>> \o Digits(value \div b.base, b, group, cnt + 1)

\* Characters that fill the field.
Padding(c, buf, x, sign) == c.width - Len(buf) - (IF x = "" THEN 0 ELSE 2) - Len(sign)

format_integer(value, is_signed, negative, b, c) ==
  LET sign == IF ~ is_signed THEN <<>>
              ELSE IF negative THEN <<"-">>
              ELSE IF "+" \in c.flags THEN <<"+">>
              ELSE IF " " \in c.flags THEN <<" ">> ELSE <<>>
      x == IF "#" \in c.flags /\ value # 0 THEN b.x ELSE ""
      digits == Digits(value, b, "'" \in c.flags, 0)
      precision == IF c.precision < 0 THEN 1 ELSE c.precision
      wanted == IF precision < BufSize - 1 THEN precision ELSE BufSize - 1
      padded == digits \o Rep("0", wanted - Len(digits))
      buf == IF "#" \in c.flags /\ b.base = 8 /\ (padded = <<>> \/ Last(padded) # "0")
             THEN Append(padded, "0") ELSE padded
      pad_cnt == Padding(c, buf, x, sign)
  IN  (IF c.flags \cap {"-", "0"} = {} THEN Rep(" ", pad_cnt) ELSE <<>>)
        \o sign \o (IF x = "" THEN <<>> ELSE <<"0", x>>)
        \o (IF "0" \in c.flags THEN Rep("0", pad_cnt) ELSE <<>>)
        \o Reverse(buf)
        \o (IF "-" \in c.flags THEN Rep(" ", pad_cnt) ELSE <<>>)

format_string(string, length, c) ==
  LET pad == Rep(" ", c.width - length)
  IN  (IF "-" \in c.flags THEN <<>> ELSE pad) \o SubSeq(string, 1, length)
        \o (IF "-" \in c.flags THEN pad ELSE <<>>)
----------------------------------------------------------------------------
(* The conversions of __vprintf, and the functions that call it *)

TypeBits ==
  [CHAR |-> CHAR_BITS, SHORT |-> SHORT_BITS, INT |-> INT_BITS, LONG |-> INT_BITS,
   PTRDIFFT |-> INT_BITS, SIZET |-> INT_BITS, INTMAX |-> INTMAX_BITS, LONGLONG |-> INTMAX_BITS]

ToUnsigned(v, bits) == v % 2 ^ bits
ToSigned(v, bits) == LET u == v % 2 ^ bits IN IF u >= 2 ^ (bits - 1) THEN u - 2 ^ bits ELSE u
Magnitude(v) == IF v < 0 THEN -v ELSE v

NullString == <<NUL>>                       \* a null pointer passed for %s
Refusal(ch) == <<"<", "n", "o", ch, ">">>    \* "<<no %c conversion>>"

Convert(ch, c, arg) ==
  CASE ch \in {"d", "i"} ->
         LET v == ToSigned(arg, TypeBits[c.type])
         IN  format_integer(Magnitude(v), TRUE, v < 0, Base["d"], c)
    [] ch \in {"o", "u", "x", "X"} ->
         format_integer(ToUnsigned(arg, TypeBits[c.type]), FALSE, FALSE,
                        Base[IF ch = "u" THEN "d" ELSE ch], c)
    [] ch = "p" ->
         format_integer(ToUnsigned(arg, INT_BITS), FALSE, FALSE, Base["x"],
                        [c EXCEPT !.flags = {"#"}])
    [] ch = "c" -> format_string(<<arg>>, 1, c)
    [] ch = "s" ->
         LET s == IF arg = NullString THEN <<"(", "n", "u", "l", "l", ")">> ELSE arg
         IN  format_string(s, IF c.precision < 0 \/ c.precision > Len(s)
                              THEN Len(s) ELSE c.precision, c)

\* What a conversion puts out, and where the format goes on.  A format that
\* ends inside a conversion is refused, and the loop then steps over the null
\* at its end and reads on: OVERRUN stands for whatever is output from there.
OVERRUN == "overrun"

Converted(f, c) ==
  LET ch == At(f, c.at)
  IN  CASE ch = NUL -> [out |-> Refusal(ch) \o <<OVERRUN>>, at |-> c.at, args |-> c.args]
        [] ch \in {"d", "i", "o", "u", "x", "X", "p", "c", "s"} ->
             [out |-> Convert(ch, c, Head(c.args)), at |-> c.at + 1, args |-> Tail(c.args)]
        [] OTHER -> [out |-> Refusal(ch), at |-> c.at + 1, args |-> c.args]

\* The output for the format F from position I on.
RECURSIVE vprintf(_, _, _)
vprintf(f, i, args) ==
  IF i > Len(f) THEN <<>>
  ELSE IF f[i] # "%" THEN <<f[i]>> \o vprintf(f, i + 1, args)
  ELSE IF At(f, i + 1) = "%" THEN <<"%">> \o vprintf(f, i + 2, args)
  ELSE LET r == Converted(f, parse_conversion(f, i + 1, args))
       IN  r.out \o vprintf(f, r.at, r.args)

\* vsnprintf: its helper takes one character at a time.
vsnprintf_helper(aux, ch) ==
  [aux EXCEPT !.length = @ + 1, !.buffer = IF aux.length < aux.max_length THEN Append(@, ch) ELSE @]

vsnprintf(buf_size, out) ==
  LET aux == FoldLeft(vsnprintf_helper,
                      [buffer |-> <<>>, length |-> 0,
                       max_length |-> IF buf_size > 0 THEN buf_size - 1 ELSE 0], out)
  IN  [buffer |-> IF buf_size > 0 THEN Append(aux.buffer, NUL) ELSE aux.buffer,
       ret |-> aux.length]

\* The user library's vhprintf: WRITTEN holds the arguments of the write calls.
flush(aux) ==
  [aux EXCEPT !.buf = <<>>, !.written = IF aux.buf = <<>> THEN @ ELSE Append(@, aux.buf)]
add_char(aux, ch) ==
  LET a == [aux EXCEPT !.buf = Append(@, ch)]
  IN  [(IF Len(a.buf) >= AuxSize THEN flush(a) ELSE a) EXCEPT !.char_cnt = @ + 1]
vhprintf(out) == flush(FoldLeft(add_char, [buf |-> <<>>, char_cnt |-> 0, written |-> <<>>], out))

\* hex_dump: a line has an address, the column its bytes start in, the bytes.
RECURSIVE hex_dump(_, _)
hex_dump(ofs, buf) ==
  IF buf = <<>> THEN <<>>
  ELSE LET start == ofs % PerLine
           end == IF PerLine - start > Len(buf) THEN start + Len(buf) ELSE PerLine
           n == end - start
       IN  <<[at |-> ofs - (ofs % PerLine), start |-> start, bytes |-> SubSeq(buf, 1, n)]>>
             \o hex_dump(ofs + n, SubSeq(buf, n + 1, Len(buf)))

Factors == <<"bytes", "kB", "MB", "GB", "TB">>
RECURSIVE Scaled(_, _)
Scaled(size, fp) == IF size >= Kilo /\ fp < Len(Factors) THEN Scaled(size \div Kilo, fp + 1)
                    ELSE [n |-> size, factor |-> fp]
print_human_readable_size(size) == IF size = 1 THEN [n |-> 1, factor |-> 1] ELSE Scaled(size, 1)

----------------------------------------------------------------------------
(* What the functions promise *)

DigitOf(b, ch) == CHOOSE d \in 0..15 : DigitsOf(b)[d + 1] = ch
ValueOf(b, s) == FoldLeft(LAMBDA v, ch : v * b.base + DigitOf(b, ch), 0, s)
Needed(value, base) == CHOOSE n \in 0..31 : /\ \A k \in 0..(n - 1) : value >= base ^ k
                                            /\ value < base ^ n
Count(s, ch) == Len(SelectSeq(s, LAMBDA x : x = ch))

\* An integer conversion spells the argument's value in its type, with the sign, prefix and at least
\* the digits asked for, in at least the field asked for; it is wider than the
\* field only if the number itself is.  The exception: `0' with a negative `*'
\* width keeps both `0' and `-' and pads on both sides.
IntegerRight(ch, arg, c) ==
  LET is_signed == ch = "d"
      b == Base[ch]
      bits == TypeBits[c.type]
      v == CHOOSE v \in (IF is_signed THEN -(2 ^ (bits - 1))..(2 ^ (bits - 1) - 1)
                                      ELSE 0..(2 ^ bits - 1)) : (v - arg) % 2 ^ bits = 0
      negative == v < 0
      value == Magnitude(v)
      out == Convert(ch, c, arg)
      core == SelectSeq(out, LAMBDA k : k \notin {" ", ",", "-", "+"})
      prefix == "#" \in c.flags /\ b.x # "" /\ value # 0
      number == IF prefix THEN SubSeq(core, 3, Len(core)) ELSE core
      asked == IF c.precision < 0 THEN 1 ELSE c.precision
      blank == is_signed /\ ~ negative /\ " " \in c.flags /\ "+" \notin c.flags
      padded == Count(out, " ") > (IF blank THEN 1 ELSE 0)
  IN  /\ ValueOf(b, number) = value
      /\ prefix => SubSeq(core, 1, 2) = <<"0", b.x>>
      /\ Count(out, "-") = (IF negative THEN 1 ELSE 0)
      /\ Count(out, "+") = (IF is_signed /\ ~ negative /\ "+" \in c.flags THEN 1 ELSE 0)
      /\ blank => Count(out, " ") > 0
      /\ Len(out) >= c.width
      /\ Len(number) + Count(out, ",") >= (IF asked < BufSize THEN asked ELSE BufSize - 1)
      /\ "#" \in c.flags /\ b.base = 8 => number[1] = "0"
      /\ padded /\ Len(out) > c.width => {"-", "0"} \subseteq c.flags
      /\ padded /\ "-" \in c.flags => out[1] # " " \/ blank \/ number = <<>>
      /\ padded /\ "-" \notin c.flags => Last(out) # " " \/ number = <<>>
      /\ "'" \in c.flags =>
           Count(out, ",") = IF value = 0 THEN 0 ELSE (Needed(value, b.base) - 1) \div b.group
      /\ "'" \notin c.flags => Count(out, ",") = 0

\* A conversion written with the given flags, width, precision and type is
\* parsed into exactly those, from the text or from `*' arguments.
ConversionRight(flags, width, precision, type, viaArgs) ==
  LET Text(n) == IF viaArgs THEN <<"*">> ELSE <<Digits10[n + 1]>>
      f == flags \o (IF width = -1 THEN <<>> ELSE Text(width))
                 \o (IF precision = -1 THEN <<>> ELSE <<".">> \o Text(precision))
                 \o type \o <<"d">>
      args == (IF viaArgs /\ width # -1 THEN <<width>> ELSE <<>>)
                \o (IF viaArgs /\ precision # -1 THEN <<precision>> ELSE <<>>)
      c == parse_conversion(f, 1, Append(args, 7))
  IN  /\ c.at = Len(f) /\ c.args = <<7>>
      /\ c.width = (IF width = -1 THEN 0 ELSE width) /\ c.precision = precision
      /\ c.flags \subseteq ToSet(flags)
      /\ \A ch \in ToSet(flags) \ c.flags :
           \/ ch = "0" /\ ("-" \in ToSet(flags) \/ precision >= 0)
           \/ ch = " " /\ "+" \in ToSet(flags)

\* The bounded and the buffered output are the unbounded one: vsnprintf keeps
\* what fits before the null and returns the whole length; vhprintf writes all
\* of it in pieces that fit its buffer.
OutputRight(out) ==
  /\ \A size \in 0..(Len(out) + 2) :
       LET r == vsnprintf(size, out)
       IN  /\ r.ret = Len(out)
           /\ size > 0 => r.buffer = Append(TakeFirst(out, size - 1), NUL)
           /\ size = 0 => r.buffer = <<>>
  /\ LET aux == vhprintf(out)
     IN  /\ FlattenSeq(aux.written) = out /\ aux.char_cnt = Len(out)
         /\ \A k \in DOMAIN aux.written : Len(aux.written[k]) \in 1..AuxSize

\* Each piece of a format is output as it is alone, its argument the next one
\* in order, and nothing else is, unless the format ends inside a conversion.
FormatRight(pieces, tail, ArgOf(_)) ==
  LET args(ps) == FlattenSeq([k \in DOMAIN ps |-> ArgOf(ps[k])])
      alone == FlattenSeq([k \in DOMAIN pieces |-> vprintf(pieces[k], 1, ArgOf(pieces[k]))])
      out == vprintf(FlattenSeq(pieces) \o tail, 1, args(pieces))
  IN  SubSeq(out, 1, Len(alone)) = alone /\ (tail = <<>> => out = alone)

\* Every byte appears once, at its own address.
DumpRight(ofs, buf) ==
  LET lines == hex_dump(ofs, buf)
  IN  /\ FlattenSeq([k \in DOMAIN lines |-> lines[k].bytes]) = buf
      /\ \A k \in DOMAIN lines :
           /\ lines[k].at % PerLine = 0 /\ lines[k].start + Len(lines[k].bytes) <= PerLine
           /\ lines[k].at + lines[k].start =
                ofs + Len(FlattenSeq([m \in 1..(k - 1) |-> lines[m].bytes]))

\* The size printed is the largest multiple of its unit not above SIZE.
SizeRight(size) ==
  LET p == print_human_readable_size(size)
      unit == Kilo ^ (p.factor - 1)
  IN  /\ p.n * unit <= size /\ size < (p.n + 1) * unit
      /\ p.n < Kilo \/ p.factor = Len(Factors)
      /\ p.factor > 1 => p.n > 0
=============================================================================
