------------------------------- MODULE CFormat ------------------------------
(***************************************************************************)
(* The conversions of the C library axlibc between values and text: calendar*)
(* time, formatted output and internet addresses.  They run on the calling *)
(* machine of CText.                                                       *)
(***************************************************************************)
EXTENDS CText, Integers, Sequences, FiniteSets, FiniteSetsExt, SequencesExt

(***************************************************************************)
(* Calendar time in the C library: __secs_to_tm, gmtime_r and localtime_r  *)
(* (time.c), mktime (mktime.rs) and strftime (strftime.rs).  A day has     *)
(* HOURS * MINUTES * SECONDS seconds, 24 * 60 * 60 in the code.  Division  *)
(* and remainder are C's, which truncate towards zero.                     *)
(***************************************************************************)

CONSTANTS
    HOURS, MINUTES, SECONDS, \* of a day, an hour, a minute
    Days,                    \* days since 1970-01-01 that are converted
    TextSizes,               \* sizes of the buffer given to strftime
    TextLengths              \* lengths of the pieces strftime writes

DAY == HOURS * MINUTES * SECONDS
LEAPOCH == DAY * (10957 + 31 + 29)   \* 2000-03-01
DAYS_PER_400Y == 365 * 400 + 97
DAYS_PER_100Y == 365 * 100 + 24
DAYS_PER_4Y == 365 * 4 + 1

-----------------------------------------------------------------------------

Quot(a, b) == IF a >= 0 THEN a \div b ELSE -((-a) \div b)
Rem(a, b) == a - b * Quot(a, b)

(* A truncated quotient and remainder corrected to a remainder >= 0.       *)
Corrected(a, b) ==
    IF Rem(a, b) < 0 THEN <<Quot(a, b) - 1, Rem(a, b) + b>>
    ELSE <<Quot(a, b), Rem(a, b)>>

MutCycles(days, len, count) == Quot(days, len)

(* The quotient of the last, longer cycle counts as the one before.        *)
Cycles(days, len, count) ==
    IF Quot(days, len) = count THEN count - 1 ELSE Quot(days, len)

days_in_month == <<31, 30, 31, 30, 31, 31, 30, 31, 30, 31, 31, 29>>

BeforeMonth(k) == FoldLeft(LAMBDA a, b : a + b, 0, SubSeq(days_in_month, 1, k))

__secs_to_tm(t) ==
    LET secs == Corrected(t - LEAPOCH, DAY)
        days == secs[1]
        remsecs == secs[2]
        wday == Rem(3 + days, 7)
        qc == Corrected(days, DAYS_PER_400Y)
        c_cycles == Cycles(qc[2], DAYS_PER_100Y, 4)
        rem100 == qc[2] - c_cycles * DAYS_PER_100Y
        q_cycles == Cycles(rem100, DAYS_PER_4Y, 25)
        rem4 == rem100 - q_cycles * DAYS_PER_4Y
        remyears == Cycles(rem4, 365, 4)
        remdays == rem4 - remyears * 365
        leap == IF remyears = 0 /\ (q_cycles # 0 \/ c_cycles = 0) THEN 1 ELSE 0
        yday == remdays + 31 + 28 + leap
        years == remyears + 4 * q_cycles + 100 * c_cycles + 400 * qc[1]
        months == CHOOSE m \in 0..11 : /\ BeforeMonth(m) <= remdays
                                       /\ remdays < BeforeMonth(m + 1)
    IN  [year |-> 100 + IF months >= 10 THEN years + 1 ELSE years,
         mon |-> 2 + IF months >= 10 THEN months - 12 ELSE months,
         mday |-> remdays - BeforeMonth(months) + 1,
         wday |-> IF wday < 0 THEN wday + 7 ELSE wday,
         yday |-> IF yday >= 365 + leap THEN yday - 365 - leap ELSE yday,
         hour |-> Quot(remsecs, MINUTES * SECONDS),
         min |-> Rem(Quot(remsecs, SECONDS), MINUTES),
         sec |-> Rem(remsecs, SECONDS)]

leap_year(y) == Rem(y, 4) = 0 /\ (Rem(y, 100) # 0 \/ Rem(y, 400) = 0)

MONTH_DAYS(leap) ==
    <<31, IF leap THEN 29 ELSE 28, 31, 30, 31, 30, 31, 31, 30, 31, 30, 31>>

(* The loops over whole years: 365 days each, one more for a leap year.    *)
YearsDays(ys) == 365 * Cardinality(ys) + Cardinality({y \in ys : leap_year(y)})

mktime(tm) ==
    LET year == tm.year + 1900
        month == MONTH_DAYS(leap_year(year))
        clock == (tm.hour * MINUTES + tm.min) * SECONDS + tm.sec
        back == month[tm.mon + 1] - (tm.mday - 1)
                + YearsDays((year + 1)..1969)
                + MapThenSumSet(LAMBDA m : month[m + 1], (tm.mon + 1)..11)
        forth == tm.mday - 1
                 + YearsDays(1970..(year - 1))
                 + MapThenSumSet(LAMBDA m : month[m + 1], 0..(tm.mon - 1))
    IN  IF year < 1970 THEN -(back * DAY - clock) ELSE forth * DAY + clock

(* The numeric conversions of strftime that are not a plain field.         *)
FieldOf(c, tm) ==
    CASE c = "I" -> Rem(tm.hour + 12 - 1, 12) + 1
      [] c = "u" -> Rem(tm.wday + 7 - 1, 7) + 1
      [] c = "U" -> Quot(tm.yday + 7 - tm.wday, 7)
      [] c = "W" -> Quot(tm.yday + 7 - Rem(tm.wday + 6, 7), 7)
      [] c = "m" -> tm.mon + 1
      [] c = "Y" -> tm.year + 1900

(* StringWriter::write: room is what is left of the buffer, its last byte  *)
(* reserved for the terminator; the piece is reported written in full.     *)
WritePiece(w, len) ==
    LET copy == IF w.room > 1 THEN (IF len < w.room - 1 THEN len ELSE w.room - 1) ELSE 0
    IN  [room |-> w.room - copy, filled |-> w.filled + copy, written |-> w.written + len]

strftime(pieces, size) ==
    LET w == FoldLeft(WritePiece, [room |-> size, filled |-> 0, written |-> 0], pieces)
    IN  [ret |-> IF w.written < size THEN w.written ELSE 0, filled |-> w.filled]

-----------------------------------------------------------------------------

(* gmtime_r and localtime_r: the same conversion, both in UTC.             *)
Gmtime ==
    Idle /\ \E d \in Days, s \in {0, DAY - 1} :
                Called("gmtime", d * DAY + s, __secs_to_tm(d * DAY + s))

Strftime ==
    Idle /\ \E n \in 0..3 : \E pieces \in [1..n -> TextLengths], size \in TextSizes :
                Called("strftime", <<pieces, size>>, strftime(pieces, size))

TimeNext == Gmtime \/ Strftime

TimeSpec == CallInit /\ [][TimeNext]_callVars

-----------------------------------------------------------------------------

LeapsThrough(y) == y \div 4 - y \div 100 + y \div 400

(* Days since 1970-01-01 of the first of January of year y.                *)
NewYear(y) == 365 * (y - 1970) + LeapsThrough(y - 1) - LeapsThrough(1969)

(* __secs_to_tm() of time.c, working in 400-year cycles from March 2000,   *)
(* gives the date of the Gregorian calendar: right year, day of the year,  *)
(* month, weekday; mktime() of mktime.rs, counting year by year from 1970  *)
(* in both directions, takes it back to the same second; the week numbers  *)
(* of strftime count the Sundays and Mondays of the year so far.           *)
CalendarAgrees ==
    cFun = "gmtime" =>
        LET tm == cRet
            y == tm.year + 1900
            day == cArg \div DAY
            month == MONTH_DAYS(leap_year(y))
            Count(wd) == Cardinality({i \in 0..tm.yday : (tm.wday - (tm.yday - i)) % 7 = wd})
        IN  /\ NewYear(y) + tm.yday = day
            /\ tm.yday \in 0..(YearsDays({y}) - 1)
            /\ tm.wday = (day + 4) % 7
            /\ tm.mon \in 0..11
            /\ tm.mday \in 1..month[tm.mon + 1]
            /\ tm.yday = tm.mday - 1 + MapThenSumSet(LAMBDA m : month[m + 1], 0..(tm.mon - 1))
            /\ mktime(tm) = cArg
            /\ FieldOf("U", tm) = Count(0) /\ FieldOf("W", tm) = Count(1)

(* strftime() never fills more of the buffer than leaves room for the      *)
(* terminator, and a result other than 0 means the text is all there.      *)
TextFits ==
    cFun = "strftime" =>
        /\ cArg[2] > 0 => cRet.filled < cArg[2]
        /\ cArg[2] = 0 => cRet.filled = 0
        /\ cRet.ret # 0 => cRet.ret = cRet.filled

-----------------------------------------------------------------------------

(***************************************************************************)
(* The formatted output of the C library, printf.c of axlibc: parsing a    *)
(* conversion specification, the integer, string and character             *)
(* conversions, the rounding of %f, and the output gadget that counts      *)
(* every character but stores only what fits.  A format, like the text it  *)
(* produces, is a sequence of one-character strings.                       *)
(*                                                                         *)
(* Numbers are built backwards in a buffer of PRINTF_INTEGER_BUFFER_SIZE   *)
(* characters, as in the code; a double is an exact fraction.              *)
(***************************************************************************)

CONSTANTS
    PRINTF_INTEGER_BUFFER_SIZE, \* 32 in the code
    Values,     \* arguments of the integer conversions
    WORD,       \* 2^bits of an unsigned argument
    Widths,     \* field widths, 0 for none
    Precisions, \* precisions, -1 for none
    Strings,    \* arguments of %s
    BufSizes,   \* sizes given to snprintf
    Eighths     \* arguments of %f, in eighths

DigitChars ==
    <<"0", "1", "2", "3", "4", "5", "6", "7", "8", "9", "a", "b", "c", "d", "e", "f">>

FlagChars == {"0", "-", "+", " ", "#"}

-----------------------------------------------------------------------------

Ch(f, i) == IF i > Len(f) THEN "end" ELSE f[i]

Fill(c, n) == [i \in 1..(IF n > 0 THEN n ELSE 0) |-> c]

(* The first position from i on whose character is not in S.               *)
SkipIn(f, i, S) ==
    CHOOSE j \in i..(Len(f) + 1) :
        Ch(f, j) \notin S /\ \A k \in i..(j - 1) : f[k] \in S

Decimal == {DigitChars[d] : d \in 1..10}

(* atou_: the number the digits from i on denote.                          *)
atou_(f, i) ==
    FoldLeft(LAMBDA n, c : 10 * n + (CHOOSE d \in 0..9 : DigitChars[d + 1] = c),
             0, SubSeq(f, i, SkipIn(f, i, Decimal) - 1))

(* One specification %[flags][width][.precision]: the head of the loop of  *)
(* format_string_loop.  A star takes its number from the arguments; a      *)
(* negative width means left-justified.                                    *)
Parse(f, i, star) ==
    LET w == SkipIn(f, i, FlagChars)
        flags == {f[k] : k \in i..(w - 1)}
        starred == Ch(f, w) = "*"
        width == IF starred THEN (IF star < 0 THEN -star ELSE star) ELSE atou_(f, w)
        dot == IF starred THEN w + 1 ELSE SkipIn(f, w, Decimal)
        given == Ch(f, dot) = "."
    IN  [flags |-> IF starred /\ star < 0 THEN flags \cup {"-"} ELSE flags,
         width |-> width,
         given |-> given,
         precision |-> IF given THEN atou_(f, dot + 1) ELSE 0,
         conv |-> IF given THEN SkipIn(f, dot + 1, Decimal) ELSE dot]

-----------------------------------------------------------------------------

(* out_rev_: the buffer backwards, padded with blanks to the width unless  *)
(* zeros have done so.                                                     *)
out_rev_(buf, width, flags) ==
    (IF flags \cap {"-", "0"} = {} THEN Fill(" ", width - Len(buf)) ELSE <<>>)
    \o Reverse(buf)
    \o (IF "-" \in flags THEN Fill(" ", width - Len(buf)) ELSE <<>>)

(* buf[len++] = c, where there is room.                                    *)
Push(buf, c) == IF Len(buf) < PRINTF_INTEGER_BUFFER_SIZE THEN Append(buf, c) ELSE buf

(* Zeros up to the length n, or to the end of the buffer.                  *)
ZerosTo(buf, n) ==
    buf \o Fill("0", (IF n < PRINTF_INTEGER_BUFFER_SIZE
                      THEN n ELSE PRINTF_INTEGER_BUFFER_SIZE) - Len(buf))

DropLast(buf) == SubSeq(buf, 1, Len(buf) - 1)

(* Padding digits are given back to make room for the prefix.              *)
TakeBack(buf, base, unpadded) ==
    LET one == IF unpadded < Len(buf) THEN DropLast(buf) ELSE buf
    IN  IF one # <<>> /\ base \in {2, 16} /\ unpadded < Len(one)
        THEN DropLast(one) ELSE one

print_integer_finalization(digits, negative, base, p) ==
    LET left == "-" \in p.flags
        zero == "0" \in p.flags
        width == IF ~left /\ p.width > 0 /\ zero
                    /\ (negative \/ p.flags \cap {"+", " "} # {})
                 THEN p.width - 1 ELSE p.width
        padded == IF ~left /\ zero THEN ZerosTo(digits, width) ELSE digits
        full == ZerosTo(padded, p.precision)
        hash == "#" \in p.flags /\ ~(base = 8 /\ Len(full) > Len(digits))
        room == IF ~p.given /\ full # <<>> /\ Len(full) \in {p.precision, width}
                THEN TakeBack(full, base, Len(digits)) ELSE full
        marked == CASE base = 16 -> Push(room, "x")
                    [] base = 2 -> Push(room, "b")
                    [] OTHER -> room
        prefixed == IF hash THEN Push(marked, "0") ELSE full
        signed == IF negative THEN Push(prefixed, "-")
                  ELSE IF "+" \in p.flags THEN Push(prefixed, "+")
                  ELSE IF " " \in p.flags THEN Push(prefixed, " ") ELSE prefixed
    IN  out_rev_(signed, width, p.flags)

(* The digits of value, least significant first.                           *)
RECURSIVE Backwards(_, _, _)
Backwards(value, base, buf) ==
    LET next == Append(buf, DigitChars[(value % base) + 1])
    IN  IF value \div base # 0 /\ Len(next) < PRINTF_INTEGER_BUFFER_SIZE
        THEN Backwards(value \div base, base, next) ELSE next

print_integer(value, negative, base, p) ==
    LET plain == IF ~p.given \/ base = 16 THEN p.flags \ {"#"} ELSE p.flags
    IN  IF value = 0
        THEN print_integer_finalization(IF p.given THEN <<>> ELSE <<"0">>, negative, base,
                                        [p EXCEPT !.flags = plain])
        ELSE print_integer_finalization(Backwards(value, base, <<>>), negative, base, p)

(* The cases d, u, x, o and b: a precision switches the zero flag off, an  *)
(* unsigned conversion has no sign, a decimal one no prefix.               *)
IntegerConversion(c, v, p) ==
    LET base == CASE c = "x" -> 16 [] c = "o" -> 8 [] c = "b" -> 2 [] OTHER -> 10
        dropped == (IF base = 10 THEN {"#"} ELSE {})
                   \cup (IF p.given THEN {"0"} ELSE {})
                   \cup (IF c = "d" THEN {} ELSE {"+", " "})
        q == [p EXCEPT !.flags = @ \ dropped]
    IN  IF c = "d" THEN print_integer(IF v > 0 THEN v ELSE -v, v < 0, base, q)
        ELSE print_integer(v % WORD, FALSE, base, q)

(* The case s: strnlen_s_ with the precision, or without limit when it is  *)
(* zero, and a loop that stops at the precision or the end.                *)
StringConversion(s, p) ==
    LET shown == IF p.given /\ p.precision < Len(s) THEN p.precision ELSE Len(s)
        blanks == Fill(" ", p.width - shown)
    IN  IF "-" \in p.flags THEN SubSeq(s, 1, shown) \o blanks
        ELSE blanks \o SubSeq(s, 1, shown)

(* The loop of format_string_loop over a whole format with one argument:   *)
(* plain characters are copied, a specification cut off by the end of the  *)
(* format ends the output.                                                 *)
RECURSIVE Format(_, _, _, _)
Format(f, i, star, arg) ==
    LET p == Parse(f, i + 1, star)
        c == Ch(f, p.conv)
        piece == CASE c \in {"d", "u", "x", "o", "b"} -> IntegerConversion(c, arg, p)
                   [] c = "s" -> StringConversion(arg, p)
                   [] OTHER -> <<c>>
    IN  IF i > Len(f) THEN <<>>
        ELSE IF f[i] # "%" THEN <<f[i]>> \o Format(f, i + 1, star, arg)
        ELSE IF c = "end" THEN <<>>
        ELSE piece \o Format(f, p.conv + 1, star, arg)

(* vsnprintf_: putchar_via_gadget counts every character and stores those  *)
(* below the size; append_termination_with_gadget then writes the          *)
(* terminator over the last position or behind the text.                   *)
vsnprintf_(text, n) ==
    [ret |-> Len(text),
     buf |-> IF n = 0 THEN <<>>
             ELSE Append(SubSeq(text, 1, IF Len(text) < n THEN Len(text) ELSE n - 1), "nul")]

(* get_components for the number e / 8: the integral part and the fraction *)
(* in units of 10^-precision; a remainder of one half rounds an odd or a   *)
(* zero fraction up, and with no fraction an odd integral part.            *)
get_components(e, precision) ==
    LET scale == 10 ^ precision
        whole == e \div 8
        frac == ((e % 8) * scale) \div 8
        rest == ((e % 8) * scale) % 8
        up == frac + 1 >= scale
        first == IF rest > 4
                 THEN [integral |-> IF up THEN whole + 1 ELSE whole,
                       fractional |-> IF up THEN 0 ELSE frac + 1]
                 ELSE [integral |-> whole,
                       fractional |-> IF rest = 4 /\ (frac = 0 \/ frac % 2 = 1)
                                      THEN frac + 1 ELSE frac]
    IN  IF precision = 0 /\ e - 8 * first.integral >= 4 /\ first.integral % 2 = 1
        THEN [first EXCEPT !.integral = @ + 1] ELSE first

(* print_broken_up_decimal: the fraction's digits and the zeros before     *)
(* them, the point, the integral part, zeros up to the width and the sign, *)
(* all backwards; the buffer has the size of the integer one.              *)
print_broken_up_decimal(c, negative, precision, p) ==
    LET fraction == IF precision # 0
                    THEN Push(ZerosTo(Backwards(c.fractional, 10, <<>>), precision), ".")
                    ELSE IF "#" \in p.flags THEN <<".">> ELSE <<>>
        number == fraction \o Backwards(c.integral, 10, <<>>)
        zero == "-" \notin p.flags /\ "0" \in p.flags
        signed == negative \/ p.flags \cap {"+", " "} # {}
        width == IF zero /\ p.width > 0 /\ signed THEN p.width - 1 ELSE p.width
        padded == IF zero THEN ZerosTo(number, width) ELSE number
        sign == IF negative THEN "-" ELSE IF "+" \in p.flags THEN "+" ELSE " "
    IN  out_rev_(IF signed THEN Push(padded, sign) ELSE padded, width, p.flags)

-----------------------------------------------------------------------------

(* The format with the given parts, followed by one plain character.       *)
FormatOf(flags, width, precision, c) ==
    <<"%">> \o SetToSeq(flags)
    \o (IF width > 0 THEN <<DigitChars[width + 1]>> ELSE <<>>)
    \o (IF precision >= 0 THEN <<".", DigitChars[precision + 1]>> ELSE <<>>)
    \o <<c, "z">>

PrintfInteger ==
    Idle /\ \E c \in {"d", "u", "x", "o", "b"}, flags \in SUBSET FlagChars,
               w \in Widths, p \in Precisions, v \in Values :
                Called("integer",
                       [flags |-> flags, width |-> w, precision |-> p, conv |-> c, value |-> v],
                       Format(FormatOf(flags, w, p, c), 1, 0, v))

PrintfString ==
    Idle /\ \E left \in BOOLEAN, w \in Widths, p \in Precisions, s \in Strings :
                Called("string",
                       [flags |-> IF left THEN {"-"} ELSE {}, width |-> w, precision |-> p,
                        conv |-> "s", value |-> s],
                       IF left THEN Format(<<"%", "*">> \o Tail(FormatOf({}, 0, p, "s")), 1, -w, s)
                       ELSE Format(FormatOf({}, w, p, "s"), 1, 0, s))

Snprintf ==
    Idle /\ \E s \in Strings, n \in BufSizes : Called("snprintf", <<s, n>>, vsnprintf_(s, n))

PrintfDouble ==
    Idle /\ \E e \in Eighths, p \in 0..3, neg \in BOOLEAN, w \in Widths,
               flags \in {{}, {"0", "+"}, {"0", " "}, {"-"}, {"#"}} :
                LET c == get_components(e, p) IN
                Called("double",
                       [eighths |-> e, precision |-> p, neg |-> neg, flags |-> flags, width |-> w],
                       [parts |-> c,
                        text |-> print_broken_up_decimal(c, neg, p, [flags |-> flags, width |-> w])])

PfNext == PrintfInteger \/ PrintfString \/ Snprintf \/ PrintfDouble

PfSpec == CallInit /\ [][PfNext]_callVars

-----------------------------------------------------------------------------

(* The representation of n in a base, most significant digit first.        *)
Numeral(n, base) ==
    LET len == CHOOSE k \in 1..20 : base ^ k > n /\ (k = 1 \/ base ^ (k - 1) <= n)
    IN  [i \in 1..len |-> DigitChars[((n \div base ^ (len - i)) % base) + 1]]

(* What a conversion of the C standard prints: the numeral, extended to    *)
(* the precision, its prefix and sign, filled to the width.                *)
Expected(a) ==
    LET base == CASE a.conv = "x" -> 16 [] a.conv = "o" -> 8 [] a.conv = "b" -> 2 [] OTHER -> 10
        n == IF a.conv # "d" THEN a.value % WORD ELSE IF a.value < 0 THEN -a.value ELSE a.value
        numeral == IF n = 0 /\ a.precision = 0 THEN <<>> ELSE Numeral(n, base)
        digits == Fill("0", a.precision - Len(numeral)) \o numeral
        octal == IF "#" \in a.flags /\ a.conv = "o" /\ (digits = <<>> \/ digits[1] # "0")
                 THEN <<"0">> ELSE <<>>
        prefix == IF "#" \in a.flags /\ n # 0 /\ a.conv \in {"x", "b"} THEN <<"0", a.conv>>
                  ELSE octal
        sign == IF a.conv # "d" THEN <<>> ELSE IF a.value < 0 THEN <<"-">>
                ELSE IF "+" \in a.flags THEN <<"+">> ELSE IF " " \in a.flags THEN <<" ">> ELSE <<>>
        gap == a.width - Len(sign) - Len(prefix) - Len(digits)
    IN  IF "-" \in a.flags THEN sign \o prefix \o digits \o Fill(" ", gap)
        ELSE IF "0" \in a.flags /\ a.precision < 0 THEN sign \o prefix \o Fill("0", gap) \o digits
        ELSE Fill(" ", gap) \o sign \o prefix \o digits

(* print_integer() and print_integer_finalization(), which build a number  *)
(* backwards and take padding back for a prefix, print what the C standard *)
(* asks of every mix of flags, width and precision that fits the buffer    *)
(* (%#b of 0 with a precision apart); %s honours both bounds.              *)
IntegersPrinted ==
    /\ cFun = "integer" /\ ~(cArg.conv = "b" /\ cArg.value = 0 /\ cArg.precision >= 0) =>
           cRet = Append(Expected(cArg), "z")
    /\ cFun = "string" =>
           LET n == IF cArg.precision >= 0 /\ cArg.precision < Len(cArg.value)
                    THEN cArg.precision ELSE Len(cArg.value)
               s == SubSeq(cArg.value, 1, n)
           IN  cRet = (IF cArg.flags # {} THEN s \o Fill(" ", cArg.width - n)
                         ELSE Fill(" ", cArg.width - n) \o s) \o <<"z">>

(* snprintf() returns the length of the whole text and leaves in the       *)
(* buffer a terminated prefix of it, the longest that fits; the            *)
(* get_components() of %f is within half a unit of the last place, its     *)
(* fraction has no more digits than the precision, and the printed text    *)
(* keeps the zeros in front of it.                                         *)
TruncationAndRounding ==
    /\ cFun = "snprintf" =>
           /\ cRet.ret = Len(cArg[1])
           /\ Len(cRet.buf) <= cArg[2]
           /\ cArg[2] > 0 =>
                  /\ Last(cRet.buf) = "nul"
                  /\ IsPrefix(Front(cRet.buf), cArg[1])
                  /\ \/ Front(cRet.buf) = cArg[1]
                     \/ Len(cRet.buf) = cArg[2]
    /\ cFun = "double" =>
           LET prec == cArg.precision
               scale == 10 ^ prec
               c == cRet.parts
               shown == c.integral * scale + IF prec = 0 THEN 0 ELSE c.fractional
               numeral == Numeral(c.fractional, 10)
               body == Numeral(c.integral, 10)
                       \o (IF prec > 0 THEN <<".">> \o Fill("0", prec - Len(numeral)) \o numeral
                           ELSE IF cArg.flags = {"#"} THEN <<".">> ELSE <<>>)
               sign == IF cArg.neg THEN <<"-">>
                       ELSE SetToSeq(cArg.flags \cap {"+", " "})
               gap == cArg.width - Len(sign) - Len(body)
           IN  /\ 8 * shown - cArg.eighths * scale \in -4..4
               /\ prec > 0 => c.fractional \in 0..(scale - 1)
               /\ cRet.text =
                      IF "-" \in cArg.flags THEN sign \o body \o Fill(" ", gap)
                      ELSE IF "0" \in cArg.flags THEN sign \o Fill("0", gap) \o body
                      ELSE Fill(" ", gap) \o sign \o body

-----------------------------------------------------------------------------

(***************************************************************************)
(* Internet addresses in text: inet_pton and inet_ntop of network.c.  An   *)
(* IPv6 address is eight 16-bit groups, an IPv4 address four bytes; a text *)
(* is a sequence of one-character strings.                                 *)
(***************************************************************************)

CONSTANTS
    Groups,    \* values of a group of the IPv6 addresses converted
    V4Fields   \* what stands between the dots of the texts given to the IPv4 parser

HexChars ==
    <<"0", "1", "2", "3", "4", "5", "6", "7", "8", "9", "a", "b", "c", "d", "e", "f">>

BadText == <<>>
BadGroups == [ip |-> <<>>, brk |-> -1, v4 |-> -1]

-----------------------------------------------------------------------------

TextAt(s, i) == IF i > Len(s) THEN "nul" ELSE s[i]

hexval(c) == IF \E d \in 1..16 : HexChars[d] = c THEN (CHOOSE d \in 1..16 : HexChars[d] = c) - 1
             ELSE -1

(* At most max digits of the base from i on: how many, and their value.    *)
DigitRun(s, i, base, max) ==
    LET n == CHOOSE j \in 0..max :
                 /\ \A k \in 0..(j - 1) : hexval(TextAt(s, i + k)) \in 0..(base - 1)
                 /\ j = max \/ hexval(TextAt(s, i + j)) \notin 0..(base - 1)
    IN  [len |-> n,
         val |-> FoldLeft(LAMBDA v, c : base * v + hexval(c), 0, SubSeq(s, i, i + n - 1))]

(* inet_pton(AF_INET): four numbers of at most three digits, none with a   *)
(* leading zero, none above 255.                                           *)
RECURSIVE Dotted(_, _, _)
Dotted(s, i, a) ==
    LET r == DigitRun(s, i, 10, 3)
        next == TextAt(s, i + r.len)
    IN  IF r.len = 0 \/ (r.len > 1 /\ s[i] = "0") \/ r.val > 255 THEN BadText
        ELSE IF next = "nul" /\ Len(a) = 3 THEN Append(a, r.val)
        ELSE IF next # "." \/ Len(a) = 3 THEN BadText
        ELSE Dotted(s, i + r.len + 1, Append(a, r.val))

(* The loop of inet_pton(AF_INET6) at position i with the groups so far;   *)
(* brk is the index of the :: or -1.  It ends at the end of the text or    *)
(* at an embedded IPv4 address, where v4 tells its position.               *)
RECURSIVE GroupLoop(_, _, _, _)
GroupLoop(s, i, ip, brk) ==
    LET n == Len(ip)
        r == DigitRun(s, i, 16, 4)
        next == TextAt(s, i + r.len)
        more == Append(ip, r.val)
    IN  IF TextAt(s, i) = ":" /\ brk < 0
        THEN IF TextAt(s, i + 1) = "nul" THEN [ip |-> Append(ip, 0), brk |-> n, v4 |-> 0]
             ELSE IF n = 7 THEN BadGroups
             ELSE GroupLoop(s, i + 1, Append(ip, 0), n)
        ELSE IF r.len = 0 THEN BadGroups
        ELSE IF next = "nul" /\ (brk >= 0 \/ n = 7) THEN [ip |-> more, brk |-> brk, v4 |-> 0]
        ELSE IF n = 7 THEN BadGroups
        ELSE IF next = ":" THEN GroupLoop(s, i + r.len + 1, more, brk)
        ELSE IF next # "." \/ (n < 6 /\ brk < 0) THEN BadGroups
        ELSE [ip |-> Append(more, 0), brk |-> brk, v4 |-> i]

(* The groups behind :: move to the end, zeros fill the gap, and an        *)
(* embedded IPv4 address replaces the last two groups.                     *)
inet_pton6(s) ==
    LET start == IF TextAt(s, 1) = ":" THEN 2 ELSE 1
        r == GroupLoop(s, start, <<>>, -1)
        i == Len(r.ip) - 1
        moved == IF r.brk < 0 THEN r.ip
                 ELSE SubSeq(r.ip, 1, r.brk) \o [k \in 1..(7 - i) |-> 0]
                      \o SubSeq(r.ip, r.brk + 1, i + 1)
        tail == Dotted(s, r.v4, <<>>)
    IN  IF TextAt(s, 1) = ":" /\ TextAt(s, 2) # ":" THEN BadText
        ELSE IF r = BadGroups THEN BadText
        ELSE IF r.v4 = 0 THEN moved
        ELSE IF tail = BadText THEN BadText
        ELSE SubSeq(moved, 1, 6) \o <<256 * tail[1] + tail[2], 256 * tail[3] + tail[4]>>

-----------------------------------------------------------------------------

(* %x and %d of a number.                                                  *)
NumberText(n, base) ==
    LET len == CHOOSE k \in 1..4 : base ^ k > n /\ (k = 1 \/ base ^ (k - 1) <= n)
    IN  [i \in 1..len |-> HexChars[((n \div base ^ (len - i)) % base) + 1]]

JoinText(parts, sep) ==
    FoldLeft(LAMBDA t, p : IF t = <<>> THEN p ELSE t \o <<sep>> \o p, <<>>, parts)

(* The characters from i on that strspn(":0") counts.                      *)
ZeroRun(s, i) ==
    CHOOSE n \in 0..Len(s) :
        /\ \A k \in i..(i + n - 1) : TextAt(s, k) \in {":", "0"}
        /\ TextAt(s, i + n) \notin {":", "0"}

(* inet_ntop(AF_INET6): all groups, the last two as an IPv4 address when   *)
(* the address is a mapped one, and the longest run of zero groups         *)
(* replaced by ::, the first of the longest.                               *)
inet_ntop6(a) ==
    LET mapped == \A g \in 1..6 : a[g] = IF g = 6 THEN 65535 ELSE 0
        low == <<a[7] \div 256, a[7] % 256, a[8] \div 256, a[8] % 256>>
        hex == [g \in 1..(IF mapped THEN 6 ELSE 8) |-> NumberText(a[g], 16)]
        buf == JoinText(IF mapped
                        THEN Append(hex, JoinText([g \in 1..4 |-> NumberText(low[g], 10)], "."))
                        ELSE hex, ":")
        starts == {i \in 1..Len(buf) : i = 1 \/ buf[i] = ":"}
        best == CHOOSE i \in starts : \A j \in starts :
                    ZeroRun(buf, i) > ZeroRun(buf, j) \/ (ZeroRun(buf, i) = ZeroRun(buf, j) /\ i <= j)
        max == ZeroRun(buf, best)
    IN  IF max <= 3 THEN buf
        ELSE SubSeq(buf, 1, best - 1) \o <<":", ":">> \o SubSeq(buf, best + max, Len(buf))

-----------------------------------------------------------------------------

InetNtop == Idle /\ \E a \in [1..8 -> Groups] : Called("ntop", a, inet_ntop6(a))

InetPton ==
    Idle /\ \E n \in 3..5 : \E f \in [1..n -> V4Fields] :
                Called("pton", JoinText(f, "."), Dotted(JoinText(f, "."), 1, <<>>))

InetNext == InetNtop \/ InetPton

InetSpec == CallInit /\ [][InetNext]_callVars

-----------------------------------------------------------------------------

(* A decimal byte as inet_ntop() writes it.                                *)
IsOctet(t) ==
    /\ Len(t) \in 1..3
    /\ \E n \in (IF Len(t) = 1 THEN 0 ELSE 10 ^ (Len(t) - 1))..255 : t = NumberText(n, 10)

(* inet_pton() reads back every IPv6 address inet_ntop() writes, mapped    *)
(* addresses and every placement of the :: included; the IPv4 parser       *)
(* accepts a text exactly when it is four decimal bytes between dots as    *)
(* inet_ntop() writes them, and then returns those bytes.                  *)
AddressesReadBack ==
    /\ cFun = "ntop" => inet_pton6(cRet) = cArg
    /\ cFun = "pton" =>
           LET s == cArg
               dots == {i \in 1..Len(s) : s[i] = "."}
               cut == SetToSortSeq(dots, <)
               part(k) == SubSeq(s, IF k = 1 THEN 1 ELSE cut[k - 1] + 1,
                                    IF k = 4 THEN Len(s) ELSE cut[k] - 1)
           IN  IF Cardinality(dots) = 3 /\ \A k \in 1..4 : IsOctet(part(k))
               THEN cRet # BadText /\ \A k \in 1..4 : part(k) = NumberText(cRet[k], 10)
               ELSE cRet = BadText

=============================================================================
