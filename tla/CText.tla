-------------------------------- MODULE CText -------------------------------
(***************************************************************************)
(* Text in the C library axlibc: searching and comparing strings (string.c)*)
(* and reading numbers from them (stdlib.c, strtod.rs).                    *)
(***************************************************************************)
EXTENDS Integers, Sequences, FiniteSets, SequencesExt

(* One call of a function of the C library that keeps no state: the         *)
(* function, its arguments and what it returned.  The modules of the        *)
(* library's pure functions share these variables.                          *)

VARIABLES cFun, cArg, cRet

callVars == <<cFun, cArg, cRet>>

CallInit == cFun = "none" /\ cArg = <<>> /\ cRet = <<>>

\* No call has been made yet.
Idle == cFun = "none"

\* The call of function f with argument a, which returns r.
Called(f, a, r) == cFun' = f /\ cArg' = a /\ cRet' = r

-----------------------------------------------------------------------------

(***************************************************************************)
(* The searching and comparing functions of the C library, string.c of     *)
(* axlibc.  A string is a sequence of positive numbers; the terminating    *)
(* zero is appended when a position is read, so reading past the           *)
(* terminator is an evaluation error.  A pointer into a string is the      *)
(* number of bytes before it, NULL is -1.                                  *)
(*                                                                         *)
(* The machine calls one function on one pair of strings and keeps the     *)
(* result beside the arguments; the invariant compares it with the         *)
(* definition of the function.  Bytes compare as unsigned.                 *)
(***************************************************************************)

CONSTANTS
    Bytes,      \* the values of a byte that is not the terminator
    Letters,    \* the bytes the strings of strstr are made of
    MaxHay,     \* bound: longest first argument
    MaxNeedle,  \* bound: longest second argument
    GrowMask,   \* 63 in the code: granularity of the end-of-haystack search
    LowerOf     \* [Bytes -> Bytes]: tolower

NULL == -1

-----------------------------------------------------------------------------

(* s[i], the terminator included.                                          *)
At(s, i) == (s \o <<0>>)[i + 1]

(* The string a pointer i into s denotes.                                  *)
From(s, i) == SubSeq(s, i + 1, Len(s))

(* The least i >= from at which the loop's stop condition holds.           *)
FirstFrom(from, to, Stop(_)) ==
    CHOOSE i \in from..to : Stop(i) /\ \A j \in from..(i - 1) : ~Stop(j)

(* memchr(s, 0, n) on a string: the terminator if it is among n bytes.     *)
MemchrNul(s, n) == IF Len(s) < n THEN Len(s) ELSE NULL

strnlen(s, n) == LET p == MemchrNul(s, n) IN IF p # NULL THEN p ELSE n

strchr(s, c) ==
    LET i == FirstFrom(0, Len(s), LAMBDA j : At(s, j) \in {c, 0})
    IN  IF At(s, i) = c THEN i ELSE NULL

(* The last match of the do-while loop, which also visits the terminator.  *)
strrchr(s, c) ==
    LET hits == {i \in 0..Len(s) : At(s, i) = c}
    IN  IF hits = {} THEN NULL ELSE CHOOSE i \in hits : \A j \in hits : j <= i

strcmp(l, r) ==
    LET i == FirstFrom(0, Len(l),
                 LAMBDA j : At(l, j) # At(r, j) \/ At(l, j) = 0)
    IN  At(l, i) - At(r, i)

(* The loop of strncmp and strncasecmp, entered with n already decremented *)
(* past the last byte that may be compared.                                *)
Compared(l, r, n, Same(_, _)) ==
    FirstFrom(0, Len(l),
        LAMBDA j : \/ At(l, j) = 0
                   \/ At(r, j) = 0
                   \/ j = n
                   \/ ~Same(At(l, j), At(r, j)))

strncmp(l, r, n) ==
    IF n = 0 THEN 0
    ELSE LET i == Compared(l, r, n - 1, LAMBDA a, b : a = b)
         IN  At(l, i) - At(r, i)

tolower(c) == IF c = 0 THEN 0 ELSE LowerOf[c]

strncasecmp(l, r, n) ==
    IF n = 0 THEN 0
    ELSE LET i == Compared(l, r, n - 1, LAMBDA a, b : tolower(a) = tolower(b))
         IN  tolower(At(l, i)) - tolower(At(r, i))

strspn(s, c) ==
    IF c = <<>> THEN 0
    ELSE IF Len(c) = 1
         THEN FirstFrom(0, Len(s), LAMBDA j : At(s, j) # c[1])
         ELSE FirstFrom(0, Len(s), LAMBDA j : ~\E k \in 1..Len(c) : At(s, j) = c[k])

(* The return sits inside the loop that was to skip the bytes before the   *)
(* only one of s2: with fewer than two bytes in s2 the answer is 0.        *)
strcspn(s1, s2) ==
    IF Len(s2) < 2 /\ At(s1, 0) # At(s2, 0) THEN 0
    ELSE FirstFrom(0, Len(s1),
             LAMBDA j : At(s1, j) = 0 \/ \E k \in 1..Len(s2) : At(s1, j) = s2[k])

strpbrk(s, b) == LET i == strcspn(s, b) IN IF At(s, i) # 0 THEN i ELSE NULL

-----------------------------------------------------------------------------

(* twobyte_strstr, threebyte_strstr and fourbyte_strstr: a window of k     *)
(* bytes, kept in an integer, slides until it equals the needle or the     *)
(* byte it ends with is the terminator.                                    *)
Window(h, e, k) == [i \in 1..k |-> At(h, e - k + i)]

ShortStrstr(h, n, k) ==
    LET e == FirstFrom(k - 1, Len(h),
                 LAMBDA j : At(h, j) = 0 \/ Window(h, j, k) = n)
    IN  IF At(h, e) # 0 THEN e - (k - 1) ELSE NULL

(* The maximal suffix of n under the order Less, and its period: the two   *)
(* loops of twoway_strstr that differ in the direction of the comparison.  *)
RECURSIVE MaxSuffix(_, _, _, _, _, _)
MaxSuffix(n, up, ip, jp, k, p) ==
    IF jp + k >= Len(n) THEN <<ip, p>>
    ELSE LET a == At(n, ip + k)
             b == At(n, jp + k)
         IN  IF a = b
             THEN IF k = p THEN MaxSuffix(n, up, ip, jp + p, 1, p)
                           ELSE MaxSuffix(n, up, ip, jp, k + 1, p)
             ELSE IF (a > b) = up
                  THEN MaxSuffix(n, up, ip, jp + k, 1, jp + k - ip)
                  ELSE MaxSuffix(n, up, jp, jp + 1, 1, 1)

(* shift[c]: one past the last position of c in n.                         *)
Shift(n, c) ==
    LET at == {i \in 1..Len(n) : n[i] = c}
    IN  CHOOSE i \in at : \A j \in at : j <= i

Larger(a, b) == IF a > b THEN a ELSE b

(* The incremental end of the haystack: memchr over l | 63 bytes from z    *)
(* while fewer than l bytes past h are known.  -2 when the haystack ends   *)
(* before the needle could fit.                                            *)
EndPointer(s, h, z, l) ==
    IF z - h >= l THEN z
    ELSE LET grow == l - (l % (GrowMask + 1)) + GrowMask
             z2 == MemchrNul(From(s, z), grow)
         IN  IF z2 = NULL THEN z + grow
             ELSE IF z + z2 - h < l THEN -2 ELSE z + z2

(* The search loop of twoway_strstr at offset h of s: the last byte of the *)
(* window is tried first, then the right half, then the left half down to  *)
(* the part the memory vouches for.                                        *)
RECURSIVE Search(_, _, _, _, _, _, _, _)
Search(s, n, ms, p, mem0, h, z, mem) ==
    LET l == Len(n)
        end == EndPointer(s, h, z, l)
        last == At(s, h + l - 1)
        Again(step, m) == Search(s, n, ms, p, mem0, h + step, end, m)
        right == FirstFrom(Larger(ms + 1, mem), l,
                     LAMBDA j : At(n, j) = 0 \/ At(n, j) # At(s, h + j))
        left == CHOOSE k \in 0..(ms + 1) :
                    /\ k <= mem \/ At(n, k - 1) # At(s, h + k - 1)
                    /\ \A j \in (k + 1)..(ms + 1) :
                           j > mem /\ At(n, j - 1) = At(s, h + j - 1)
    IN  IF end = -2 THEN NULL
        ELSE IF \A i \in 1..l : n[i] # last THEN Again(l, 0)
        ELSE IF Shift(n, last) # l THEN Again(Larger(l - Shift(n, last), mem), 0)
        ELSE IF At(n, right) # 0 THEN Again(right - ms, 0)
        ELSE IF left <= mem THEN h
        ELSE Again(p, mem0)

twoway_strstr(s, n) ==
    LET down == MaxSuffix(n, TRUE, -1, 0, 1, 1)
        up == MaxSuffix(n, FALSE, -1, 0, 1, 1)
        crit == IF up[1] + 1 > down[1] + 1 THEN up ELSE down
        ms == crit[1]
        periodic == \A i \in 0..ms : At(n, i) = At(n, i + crit[2])
        p == IF periodic THEN crit[2] ELSE Larger(ms, Len(n) - ms - 1) + 1
    IN  IF Len(s) < Len(n) THEN NULL
        ELSE Search(s, n, ms, p, IF periodic THEN Len(n) - p ELSE 0, 0, 0, 0)

(* strstr: the haystack is first advanced to the first byte of the needle. *)
strstr(h, n) ==
    LET start == strchr(h, n[1])
        rest == From(h, start)
        found == IF Len(rest) < Len(n) /\ Len(n) <= 4 THEN NULL
                 ELSE IF Len(n) <= 4 THEN ShortStrstr(rest, n, Len(n))
                 ELSE IF Len(rest) < 4 THEN NULL ELSE twoway_strstr(rest, n)
    IN  IF n = <<>> THEN 0
        ELSE IF start = NULL \/ Len(n) = 1 THEN start
        ELSE IF found = NULL THEN NULL ELSE start + found

-----------------------------------------------------------------------------

StrFunctions == {"strstr", "strncmp", "strncasecmp", "strspn", "strcspn",
               "strpbrk", "strrchr", "strnlen", "strcmp"}

StrResult(f, h, n, k) ==
    CASE f = "strstr" -> strstr(h, n)
      [] f = "strcmp" -> strcmp(h, n)
      [] f = "strncmp" -> strncmp(h, n, k)
      [] f = "strncasecmp" -> strncasecmp(h, n, k)
      [] f = "strspn" -> strspn(h, n)
      [] f = "strcspn" -> strcspn(h, n)
      [] f = "strpbrk" -> strpbrk(h, n)
      [] f = "strrchr" -> strrchr(h, At(n, 0))
      [] f = "strnlen" -> strnlen(h, k)

StrWords(A, max) == UNION {[1..k -> A] : k \in 0..max}

(* One call; strstr alone needs the long haystacks and needles, and only   *)
(* the bounded comparisons look at the count.                              *)
StrCall(f) ==
    Idle /\ \E h \in IF f = "strstr" THEN StrWords(Letters, MaxHay) ELSE StrWords(Bytes, 3),
               n \in IF f = "strstr" THEN StrWords(Letters, MaxNeedle) ELSE StrWords(Bytes, 3),
               k \in IF f \in {"strncmp", "strncasecmp", "strnlen"} THEN 0..4 ELSE {0} :
                Called(f, <<h, n, k>>, StrResult(f, h, n, k))

StrNext == \E f \in StrFunctions : StrCall(f)

StrSpec == CallInit /\ [][StrNext]_callVars

-----------------------------------------------------------------------------

Least(S) == IF S = {} THEN NULL ELSE CHOOSE i \in S : \A j \in S : i <= j

Sign(x) == IF x < 0 THEN -1 ELSE IF x > 0 THEN 1 ELSE 0

Take(s, k) == SubSeq(s, 1, IF k < Len(s) THEN k ELSE Len(s))

(* Lexicographic comparison of two strings: -1, 0 or 1.                    *)
Lex(a, b) ==
    IF a = b THEN 0
    ELSE IF \E i \in 0..Len(a) :
                Take(a, i) = Take(b, i) /\ i < Len(b) /\ At(a, i) < At(b, i)
         THEN -1 ELSE 1

Lowered(s) == [i \in 1..Len(s) |-> LowerOf[s[i]]]

Chars(s) == {s[i] : i \in 1..Len(s)}

(* strstr() of string.c finds the first occurrence of the needle, also     *)
(* with the two-way search and its shift table and period memory; the      *)
(* bounded comparisons order like the strings cut to n bytes, and the      *)
(* span functions return the longest prefix inside or outside the set      *)
(* (strcspn and strpbrk only for sets of two bytes or more: with fewer     *)
(* they return at once).                                                   *)
StringsAgree ==
    LET h == cArg[1] n == cArg[2] k == cArg[3] r == cRet IN
    CASE cFun = "strstr" ->
           r = Least({i \in 0..Len(h) : i + Len(n) <= Len(h)
                                        /\ SubSeq(h, i + 1, i + Len(n)) = n})
      [] cFun = "strcmp" -> Sign(r) = Lex(h, n)
      [] cFun = "strncmp" -> Sign(r) = Lex(Take(h, k), Take(n, k))
      [] cFun = "strncasecmp" ->
           Sign(r) = Lex(Lowered(Take(h, k)), Lowered(Take(n, k)))
      [] cFun = "strspn" ->
           /\ Chars(Take(h, r)) \subseteq Chars(n)
           /\ r < Len(h) => h[r + 1] \notin Chars(n)
      [] cFun \in {"strcspn", "strpbrk"} /\ Len(n) > 1 ->
           r = LET i == Least({j \in 0..(Len(h) - 1) : h[j + 1] \in Chars(n)})
               IN  IF i = NULL /\ cFun = "strcspn" THEN Len(h) ELSE i
      [] cFun = "strrchr" ->
           /\ r # NULL => At(h, r) = At(n, 0) /\ At(n, 0) \notin Chars(From(h, r + 1))
           /\ r = NULL => At(n, 0) \notin Chars(h) \cup {0}
      [] cFun = "strnlen" -> r = Len(Take(h, k))
      [] OTHER -> TRUE

-----------------------------------------------------------------------------

(***************************************************************************)
(* Reading numbers from strings in the C library: atoi (string.c), atoll   *)
(* and the strtol family (stdlib.c), and the strtod of strtod.rs.  A       *)
(* character is a one-letter string of a small alphabet; End is the        *)
(* terminator.  Integers have their width: an unsigned long wraps at       *)
(* 2^LONG_BITS, and the cutoff of the code is what keeps it from wrapping. *)
(* strtod is modelled up to floating-point rounding: its value is an exact *)
(* fraction <<numerator, denominator>>.                                    *)
(***************************************************************************)

CONSTANTS
    LONG_BITS,   \* width of long and long long; 64 in the code
    POW_BITS,    \* width of the exponent's power; 128 in the code
    IntAlphabet, \* characters of the strings of the integer functions
    MaxIntText,  \* bound: their length
    DblAlphabet, \* characters of the strings of strtod
    MaxDblText,  \* bound: their length
    Bases        \* the bases strtol is called with

LONG_MAX == 2 ^ (LONG_BITS - 1) - 1
LONG_MIN == -(2 ^ (LONG_BITS - 1))
ULONG_MAX == 2 ^ LONG_BITS - 1
End == "end"

-----------------------------------------------------------------------------

Char(s, i) == IF i > Len(s) THEN End ELSE s[i]

(* isdigit and isalpha with the value the code gives the character; 99 for *)
(* the characters it stops at.                                             *)
ValueOf(c) ==
    CASE c = "0" -> 0 [] c = "1" -> 1 [] c = "3" -> 3 [] c = "9" -> 9
      [] c = "a" -> 10 [] c = "e" -> 14 [] c = "p" -> 25 [] c = "x" -> 33
      [] OTHER -> 99

(* First position from i on that is not white space.                       *)
SkipSpace(s, i) ==
    CHOOSE j \in i..(Len(s) + 1) :
        Char(s, j) # " " /\ \A k \in i..(j - 1) : Char(s, k) = " "

(* First position from i on whose character is no digit of the base.       *)
SkipDigits(s, i, base) ==
    CHOOSE j \in i..(Len(s) + 1) :
        ValueOf(Char(s, j)) >= base /\ \A k \in i..(j - 1) : ValueOf(Char(s, k)) < base

(* The values of the characters from i up to, excluding, j.                *)
DigitsAt(s, i, j) == [k \in 1..(j - i) |-> ValueOf(s[i + k - 1])]

Neg(s, i) == Char(s, i) = "-"

SkipSign(s, i) == IF Char(s, i) \in {"-", "+"} THEN i + 1 ELSE i

(* A 0x prefix, taken only when the base allows it.                        *)
HasPrefix(s, i, base) ==
    base \in {0, 16} /\ Char(s, i) = "0" /\ Char(s, i + 1) = "x"

BaseOf(s, i, base) ==
    IF HasPrefix(s, i, base) THEN 16
    ELSE IF base # 0 THEN base
    ELSE IF Char(s, i) = "0" THEN 8 ELSE 10

(* One turn of the loop of strtol: any is -1 once the limit was passed.    *)
Accumulate(acc, c, base, limit) ==
    IF \/ acc.any < 0
       \/ acc.n > limit \div base
       \/ acc.n = limit \div base /\ c > limit % base
    THEN [acc EXCEPT !.any = -1]
    ELSE [any |-> 1, n |-> (acc.n * base + c) % 2 ^ LONG_BITS]

(* What the four strtol functions share: the sign, the digits' value       *)
(* against the limit and where the scan stopped.                           *)
Scan(s, base, limit, neg_limit) ==
    LET i == SkipSpace(s, 1)
        j == SkipSign(s, i)
        b == BaseOf(s, j, base)
        start == IF HasPrefix(s, j, base) THEN j + 2 ELSE j
        stop == SkipDigits(s, start, b)
        acc == FoldLeft(LAMBDA a, c : Accumulate(a, c, b, IF Neg(s, i) THEN neg_limit ELSE limit),
                        [any |-> 0, n |-> 0], DigitsAt(s, start, stop))
    IN  [neg |-> Neg(s, i), any |-> acc.any, n |-> acc.n,
         endptr |-> IF acc.any # 0 THEN stop ELSE 1]

BadBase(base) == base < 0 \/ base = 1 \/ base > 36

ToSigned(n) == IF n > LONG_MAX THEN n - 2 ^ LONG_BITS ELSE n

strtol(s, base) ==
    LET r == Scan(s, base, LONG_MAX, LONG_MAX + 1)
    IN  IF BadBase(base) THEN [value |-> 0, endptr |-> 1, errno |-> "EINVAL"]
        ELSE [value |-> IF r.any < 0 THEN (IF r.neg THEN LONG_MIN ELSE LONG_MAX)
                        ELSE IF r.neg THEN ToSigned((-r.n) % 2 ^ LONG_BITS)
                                      ELSE ToSigned(r.n),
              endptr |-> r.endptr,
              errno |-> IF r.any < 0 THEN "ERANGE" ELSE "none"]

strtoll(s, base) == strtol(s, base)

strtoul(s, base) ==
    LET r == Scan(s, base, ULONG_MAX, ULONG_MAX)
    IN  IF BadBase(base) THEN [value |-> 0, endptr |-> 1, errno |-> "EINVAL"]
        ELSE [value |-> IF r.any < 0 THEN ULONG_MAX
                        ELSE IF r.neg THEN (-r.n) % 2 ^ LONG_BITS ELSE r.n,
              endptr |-> r.endptr,
              errno |-> IF r.any < 0 THEN "ERANGE" ELSE "none"]

strtoull(s, base) == strtoul(s, base)

(* atoi and atoll count downwards, so that the least number is reached     *)
(* without passing the largest; what lies beyond either wraps.             *)
atoi(s) ==
    LET i == SkipSpace(s, 1)
        j == SkipSign(s, i)
        n == FoldLeft(LAMBDA a, c : ToSigned((10 * a - c) % 2 ^ LONG_BITS),
                      0, DigitsAt(s, j, SkipDigits(s, j, 10)))
    IN  [value |-> IF Neg(s, i) THEN n ELSE ToSigned((-n) % 2 ^ LONG_BITS),
         endptr |-> 1, errno |-> "none"]

atoll(s) == atoi(s)

-----------------------------------------------------------------------------

Number(digits, base) == FoldLeft(LAMBDA a, c : a * base + c, 0, digits)

(* b ^ n in POW_BITS bits; b is even, so the power is 0 from there on.     *)
PowerOf(b, n) == IF n >= POW_BITS THEN 0 ELSE (b ^ n) % 2 ^ POW_BITS

(* strtod and strtof: mantissa, fraction and exponent; an exponent without *)
(* digits is not taken.  The power is computed in an integer type and      *)
(* wraps at its width.                                                     *)
strtod(s) ==
    LET i == SkipSpace(s, 1)
        j == SkipSign(s, i)
        hex == Char(s, j) = "0" /\ Char(s, j + 1) = "x"
        radix == IF hex THEN 16 ELSE 10
        first == IF hex THEN j + 2 ELSE j
        dot == SkipDigits(s, first, radix)
        frac == IF Char(s, dot) = "." THEN dot + 1 ELSE dot
        exp == IF Char(s, dot) = "." THEN SkipDigits(s, frac, radix) ELSE dot
        marked == Char(s, exp) = IF hex THEN "p" ELSE "e"
        expDigits == SkipSign(s, exp + 1)
        taken == marked /\ ValueOf(Char(s, expDigits)) < 10
        stop == IF taken THEN SkipDigits(s, expDigits, 10) ELSE exp
        power == PowerOf(IF hex THEN 2 ELSE 10, Number(DigitsAt(s, expDigits, stop), 10))
        mantissa == Number(DigitsAt(s, first, dot) \o DigitsAt(s, frac, exp), radix)
        scale == radix ^ (exp - frac)
        sign == IF Neg(s, i) THEN -1 ELSE 1
    IN  [num |-> sign * mantissa * (IF taken /\ ~Neg(s, exp + 1) THEN power ELSE 1),
         den |-> scale * (IF taken /\ Neg(s, exp + 1) THEN power ELSE 1),
         endptr |-> stop]

-----------------------------------------------------------------------------

Texts(A, max) == UNION {[1..k -> A] : k \in 0..max}

NumIntCall(f) ==
    Idle /\ \E s \in Texts(IntAlphabet, MaxIntText), b \in IF f = "atoi" THEN {10} ELSE Bases :
                Called(f, <<s, b>>, CASE f = "strtol" -> strtoll(s, b)
                                      [] f = "strtoul" -> strtoull(s, b)
                                      [] f = "atoi" -> atoll(s))

NumDblCall ==
    Idle /\ \E s \in Texts(DblAlphabet, MaxDblText) : Called("strtod", <<s, 10>>, strtod(s))

NumNext == (\E f \in {"strtol", "strtoul", "atoi"} : NumIntCall(f)) \/ NumDblCall

NumSpec == CallInit /\ [][NumNext]_callVars

-----------------------------------------------------------------------------

(* The number a text of digits denotes, written as the sum of its digits'  *)
(* weights.                                                                *)
Weight(digits, base) ==
    FoldLeft(LAMBDA a, k : a + digits[k] * base ^ (Len(digits) - k), 0,
             [k \in 1..Len(digits) |-> k])

Clamp(n, lo, hi) == IF n < lo THEN lo ELSE IF n > hi THEN hi ELSE n

(* The longest run of digits from position i, in the base the text calls   *)
(* for.                                                                    *)
Run(s, i, b) ==
    LET ends == {j \in i..(Len(s) + 1) : \A k \in i..(j - 1) : ValueOf(s[k]) < b}
    IN  CHOOSE j \in ends : \A k \in ends : k <= j

(* What the text denotes: spaces, an optional sign, an optional prefix and *)
(* the longest run of digits; spaces and sign read from the left.          *)
Denoted(s, base) ==
    LET i == CHOOSE j \in 1..(Len(s) + 1) :
                 Char(s, j) # " " /\ \A k \in 1..(j - 1) : s[k] = " "
        start == IF Char(s, i) \in {"-", "+"} THEN i + 1 ELSE i
        hex == base \in {0, 16} /\ Char(s, start) = "0" /\ Char(s, start + 1) = "x"
        b == IF hex THEN 16 ELSE IF base # 0 THEN base
             ELSE IF Char(s, start) = "0" THEN 8 ELSE 10
        from == IF hex THEN start + 2 ELSE start
    IN  [value |-> (IF Char(s, i) = "-" THEN -1 ELSE 1)
                     * Weight(DigitsAt(s, from, Run(s, from, b)), b),
         digits |-> Run(s, from, b) > from, end |-> Run(s, from, b)]

AllDigits(t, b) == \A k \in 1..Len(t) : ValueOf(t[k]) < b

Signs == {<<>>, <<"-">>, <<"+">>}

(* t is a floating-point text: a sign, digits, a point with more digits,   *)
(* and an exponent that has at least one digit.  All but the exponent's    *)
(* digits may be missing.                                                  *)
FloatText(t, b) ==
    \E i \in 0..Len(t), j \in 0..Len(t) :
        LET whole == SubSeq(t, 1, i)
            point == SubSeq(t, i + 1, j)
            power == SubSeq(t, j + 1, Len(t))
        IN  /\ i <= j
            /\ AllDigits(whole, b)
            /\ point = <<>> \/ (point[1] = "." /\ AllDigits(Tail(point), b))
            /\ \/ power = <<>>
               \/ /\ power[1] = IF b = 16 THEN "p" ELSE "e"
                  /\ \E g \in Signs : /\ IsPrefix(g, Tail(power))
                                      /\ Len(power) > 1 + Len(g)
                                      /\ AllDigits(SubSeq(power, Len(g) + 2, Len(power)), 10)

(* strtol() returns the denoted number clamped to the range of long and    *)
(* reports ERANGE exactly when it had to, so the cutoff loop of stdlib.c   *)
(* neither wraps nor clamps too early, LONG_MIN included; strtoul()        *)
(* negates modulo 2^LONG_BITS; both leave endptr behind the digits or at   *)
(* the start of the text; atoi() is exact over the whole range.  strtod()  *)
(* of strtod.rs stops behind the longest floating-point text, giving up an *)
(* exponent without digits, and a text that is all digits keeps its value. *)
NumbersAgree ==
    LET text == cArg[1] base == cArg[2] d == Denoted(text, base) IN
    CASE cFun \in {"strtol", "strtoul"} /\ (base \in {0} \cup 2..36) ->
           /\ cRet.endptr = IF d.digits THEN d.end ELSE 1
           /\ cFun = "strtol" =>
                  /\ cRet.value = Clamp(d.value, LONG_MIN, LONG_MAX)
                  /\ (cRet.errno = "ERANGE") <=> (cRet.value # d.value)
           /\ cFun = "strtoul" =>
                  cRet.value = IF d.value \in (-ULONG_MAX)..ULONG_MAX
                                 THEN d.value % 2 ^ LONG_BITS ELSE ULONG_MAX
      [] cFun \in {"strtol", "strtoul"} /\ (base \notin {0} \cup 2..36) ->
           cRet.errno = "EINVAL" /\ cRet.endptr = 1
      [] cFun = "atoi" ->
           d.value \in LONG_MIN..LONG_MAX => cRet.value = d.value
      [] cFun = "strtod" ->
           LET i == SkipSign(text, 1)
               hex == Char(text, i) = "0" /\ Char(text, i + 1) = "x"
               from == IF hex THEN i + 2 ELSE i
               b == IF hex THEN 16 ELSE 10
               ends == {j \in from..(Len(text) + 1) :
                            FloatText(SubSeq(text, from, j - 1), b)}
           IN  /\ cRet.endptr \in ends
               /\ \A j \in ends : j <= cRet.endptr
               /\ AllDigits(text, 10) =>
                      cRet.num = cRet.den * Weight(DigitsAt(text, 1, Len(text) + 1), 10)
      [] OTHER -> TRUE

=============================================================================
