------------------------------- MODULE Printf -------------------------------
(***************************************************************************)
(* printf.c: formatted output to a function, a buffer of limited length or *)
(* nowhere.  The format is the sequence of conversions that the run        *)
(* chooses one by one; a conversion is what stands between '%' and its     *)
(* letter, with its argument.  Widths of integers and of the conversion    *)
(* buffers are parameters, so that small ones can be enumerated.           *)
(***************************************************************************)
EXTENDS Integers, Sequences, FiniteSets, SequencesExt

CONSTANTS
  CharBits, ShortBits, IntBits, LongBits,  \* 8, 16, 32, 64
  PRINTF_NTOA_BUFFER_SIZE,                 \* 32
  PRINTF_FTOA_BUFFER_SIZE,                 \* 32
  FracBits,     \* a float is a multiple of 2^-FracBits
  MantBits,     \* 53: bits of a rounded product
  ThresMax,     \* 0x7FFFFFFF
  NaN,          \* the double that is not a number
  Conversions,  \* the conversions a format may combine
  Alone,        \* the conversions that are a format by themselves
  MaxItems,     \* bound of the model: conversions and characters in a format
  MaxLens       \* buffer lengths passed to snprintf

VARIABLES
  idx,          \* characters produced so far, as the code counts them
  maxlen,
  mem,          \* the caller's buffer; "none" where nothing was written
  sent,         \* every character passed to the output function
  allowed,      \* ghost: what the format may print
  items, done

printfVars == <<idx, maxlen, mem, sent, allowed, items, done>>

Lesser(a, b) == IF a < b THEN a ELSE b
Rep(c, n) == [i \in 1..n |-> c]
PadTo(s, c, n) == s \o Rep(c, n - Len(s))
Capped(s, c, size) == IF Len(s) < size THEN Append(s, c) ELSE s

LowerDigits == <<"0","1","2","3","4","5","6","7","8","9","a","b","c","d","e","f">>
UpperDigits == <<"0","1","2","3","4","5","6","7","8","9","A","B","C","D","E","F">>
Digit(d, flags) == IF "X" \in flags THEN UpperDigits[d + 1] ELSE LowerDigits[d + 1]

(* number of digits of v                                                   *)
NDigits(v, base) ==
  CHOOSE n \in 1..(LongBits + 30) : base ^ n > v /\ (n = 1 \/ base ^ (n - 1) <= v)

(* the n low digits, least significant first                               *)
LowDigits(v, base, n, flags) ==
  [i \in 1..n |-> Digit((v \div base ^ (i - 1)) % base, flags)]

------------------------------------------------------------------------------
(* Integers                                                                *)

(* Mutant: the sign is not counted in a field padded with zeros.           *)
SignedWidth_NotCounted(negative, width, flags) == width

SignedWidth(negative, width, flags) ==
  IF width > 0 /\ "0" \in flags /\ (negative \/ flags \cap {"+", " "} # {})
    THEN width - 1 ELSE width

SignChar(buf, negative, flags, size) ==
  IF negative THEN Capped(buf, "-", size)
  ELSE IF "+" \in flags THEN Capped(buf, "+", size)
  ELSE IF " " \in flags THEN Capped(buf, " ", size)
  ELSE buf

(* '#': two of the digits that pad to the field make room for the prefix   *)
Hashed(buf, base, prec, width, flags) ==
  LET n == Len(buf)
      drop == IF "." \notin flags /\ n > 0 /\ (n = prec \/ n = width)
                THEN IF n > 1 /\ base = 16 THEN 2 ELSE 1
                ELSE 0
      mark == IF base = 16 THEN IF "X" \in flags THEN <<"X">> ELSE <<"x">>
              ELSE IF base = 2 THEN <<"b">> ELSE << >>
      rest == SubSeq(buf, 1, n - drop)
      all == rest \o mark \o <<"0">>
  IN IF "#" \notin flags THEN buf
     ELSE SubSeq(all, 1, Lesser(Len(all), PRINTF_NTOA_BUFFER_SIZE))

(* spaces on the left or on the right up to the width                      *)
Justify(s, width, flags) ==
  LET spaces == Rep(" ", width - Len(s))
  IN IF "-" \in flags THEN s \o spaces
     ELSE IF "0" \in flags THEN s ELSE spaces \o s

_ntoa_format(buf, negative, base, prec, width, flags) ==
  LET size == PRINTF_NTOA_BUFFER_SIZE
      w == IF "-" \in flags THEN width ELSE SignedWidth(negative, width, flags)
      zeros == IF "-" \in flags THEN buf
               ELSE PadTo(PadTo(buf, "0", Lesser(prec, size)), "0",
                          IF "0" \in flags THEN Lesser(w, size) ELSE 0)
  IN Justify(Reverse(SignChar(Hashed(zeros, base, prec, w, flags),
                              negative, flags, size)), w, flags)

_ntoa(value, negative, base, prec, width, flags0) ==
  LET flags == IF value = 0 THEN flags0 \ {"#"} ELSE flags0
      n == IF "." \in flags /\ value = 0 THEN 0
           ELSE Lesser(NDigits(value, base), PRINTF_NTOA_BUFFER_SIZE)
  IN _ntoa_format(LowDigits(value, base, n, flags), negative, base, prec,
                  width, flags)

------------------------------------------------------------------------------
(* Floats: m stands for m / 2^FracBits                                     *)

OneWhole == 2 ^ FracBits

(* to MantBits significant bits, ties to even                              *)
Rounded(t) ==
  LET unit == IF t < 2 ^ MantBits THEN 1
              ELSE 2 ^ (NDigits(t, 2) - MantBits)
      q == t \div unit
      r == t % unit
  IN unit * IF 2 * r > unit \/ (2 * r = unit /\ q % 2 = 1) THEN q + 1 ELSE q

(* Mutant: a fraction that rounds up to 1 is not carried over.             *)
Carried_Never(frac, whole, prec) == <<frac, whole>>

Carried(frac, whole, prec) ==
  IF frac >= 10 ^ prec THEN <<0, whole + 1>> ELSE <<frac, whole>>

(* The digits of the fraction: as many as it has, zeros up to prec (the    *)
(* unsigned counter wraps below 0 and fills the buffer), and the point.    *)
FracDigits(buf, frac, prec) ==
  LET n == NDigits(frac, 10)
      size == PRINTF_FTOA_BUFFER_SIZE
      digits == buf \o LowDigits(frac, 10, Lesser(n, size - Len(buf)), {})
      zeros == PadTo(digits, "0",
                     IF n > prec THEN size
                     ELSE Lesser(size, Len(digits) + prec - n))
  IN Capped(zeros, ".", size)

_ftoa(m, negative, prec0, width, flags) ==
  LET size == PRINTF_FTOA_BUFFER_SIZE
      want == IF "." \in flags THEN prec0 ELSE 6
      extra == IF want > 9 THEN Lesser(want - 9, size) ELSE 0
      prec == want - extra
      whole == m \div OneWhole
      tmp == Rounded((m % OneWhole) * 10 ^ prec)
      frac == tmp \div OneWhole
      diff == tmp % OneWhole
      rounded == IF 2 * diff > OneWhole THEN Carried(frac + 1, whole, prec)
                 ELSE IF 2 * diff = OneWhole /\ (frac = 0 \/ frac % 2 = 1)
                   THEN <<frac + 1, whole>>
                 ELSE <<frac, whole>>
      \* without a fraction: exactly halfway and odd rounds up
      up == IF prec = 0 /\ 2 * (m - rounded[2] * OneWhole) >= OneWhole
                 /\ rounded[2] % 2 = 1
              THEN 1 ELSE 0
      start == Rep("0", extra)
      point == IF prec = 0 THEN start ELSE FracDigits(start, rounded[1], prec)
      int == rounded[2] + up
      digits == point \o LowDigits(int, 10,
                          Lesser(NDigits(int, 10), size - Len(point)), {})
      w == IF "-" \in flags \/ "0" \notin flags THEN width
           ELSE SignedWidth(negative, width, flags)
      zeros == IF "0" \in flags /\ "-" \notin flags
                 THEN PadTo(digits, "0", Lesser(w, size)) ELSE digits
  IN Justify(Reverse(SignChar(zeros, negative, flags, size)), w, flags)

------------------------------------------------------------------------------
(* Conversions: [flags, width, prec, has_prec, len, conv, arg]             *)

Base(conv) == CASE conv \in {"x", "X"} -> 16 [] conv = "o" -> 8
                [] conv = "b" -> 2 [] OTHER -> 10

(* flags, width and precision as the parser leaves them; a width or a      *)
(* precision below 0 comes from an argument ('*')                          *)
ParsedWidth(c) == IF c.width < 0 THEN -c.width ELSE c.width
ParsedPrec(c)  == IF c.has_prec /\ c.prec > 0 THEN c.prec ELSE 0
ParsedFlags(c) == c.flags \cup (IF c.width < 0 THEN {"-"} ELSE {})
                          \cup (IF c.has_prec THEN {"."} ELSE {})

IntFlags(c) ==
  LET f == ParsedFlags(c) \cup (IF c.conv = "X" THEN {"X"} ELSE {})
      g == IF Base(c.conv) = 10 THEN f \ {"#"} ELSE f
      h == IF c.conv = "d" THEN g ELSE g \ {"+", " "}
  IN IF "." \in h THEN h \ {"0"} ELSE h

Bits(c) == CASE c.len = "hh" -> CharBits [] c.len = "h" -> ShortBits
             [] c.len = "l" -> LongBits [] OTHER -> IntBits

(* plain char is unsigned on RISC-V                                        *)
SignedArg(c) ==
  LET raw == c.arg % 2 ^ Bits(c)
  IN IF c.len # "hh" /\ raw >= 2 ^ (Bits(c) - 1) THEN raw - 2 ^ Bits(c) ELSE raw

Magnitude(v) == IF v > 0 THEN v ELSE 0 - v

int_conversion(c) ==
  LET v == IF c.conv = "d" THEN SignedArg(c) ELSE c.arg % 2 ^ Bits(c)
  IN _ntoa(Magnitude(v), v < 0, Base(c.conv), ParsedPrec(c), ParsedWidth(c),
           IntFlags(c))

(* Mutant: the precision of a string is ignored.                           *)
str_text_Whole(c) == c.arg

str_text(c) ==
  IF c.has_prec /\ c.conv = "s" THEN SubSeq(c.arg, 1, Lesser(Len(c.arg), ParsedPrec(c)))
  ELSE c.arg

str_conversion(c) ==
  Justify(str_text(c), ParsedWidth(c), ParsedFlags(c) \ {"0"})

ptr_conversion(c) ==
  _ntoa(c.arg, FALSE, 16, ParsedPrec(c), LongBits \div 4,
        ParsedFlags(c) \cup {"0", "X"})

Convert(c) ==
  CASE c.conv \in {"d", "u", "x", "X", "o", "b"} -> int_conversion(c)
    [] c.conv = "f" -> IF c.arg = NaN THEN <<"n", "a", "n">>
                       ELSE _ftoa(Magnitude(c.arg), c.arg < 0,
                                  ParsedPrec(c), ParsedWidth(c), ParsedFlags(c))
    [] c.conv \in {"c", "s"} -> str_conversion(c)
    [] c.conv = "p" -> ptr_conversion(c)
    [] c.conv = "%" -> <<"%">>

(* _ftoa returns 0, not idx, for what it does not print                    *)
TooLarge(c) == c.conv = "f" /\ c.arg # NaN /\ Magnitude(c.arg) > ThresMax * OneWhole

------------------------------------------------------------------------------
(* The C standard's meaning of a conversion                                *)

RefSign(v, flags) == IF v < 0 THEN <<"-">> ELSE IF "+" \in flags THEN <<"+">>
                     ELSE IF " " \in flags THEN <<" ">> ELSE << >>

RefField(prefix, digits, width, flags, zeropad) ==
  LET n == Len(prefix) + Len(digits)
  IN IF "-" \in flags THEN prefix \o digits \o Rep(" ", width - n)
     ELSE IF zeropad THEN prefix \o Rep("0", width - n) \o digits
     ELSE Rep(" ", width - n) \o prefix \o digits

RefDigits(v, base, upper) ==
  Reverse(LowDigits(v, base, NDigits(v, base), IF upper THEN {"X"} ELSE {}))

RefInt(c) ==
  LET v == IF c.conv = "d" THEN SignedArg(c) ELSE c.arg % 2 ^ Bits(c)
      sign == IF c.conv = "d" THEN RefSign(v, c.flags) ELSE << >>
      all == RefDigits(Magnitude(v), Base(c.conv), c.conv = "X")
      digits == IF c.has_prec /\ v = 0 /\ c.prec = 0 THEN << >>
                ELSE Rep("0", (IF c.has_prec THEN c.prec ELSE 0) - Len(all)) \o all
  IN {RefField(sign, digits, ParsedWidth(c), ParsedFlags(c),
               "0" \in c.flags /\ ~c.has_prec)}

(* a float is printed as a nearest multiple of 10^-prec, up to the rounding *)
(* of the product                                                          *)
RefFloat(c) ==
  LET prec == IF c.has_prec THEN c.prec ELSE 6
      exact == Magnitude(c.arg) * 10 ^ prec
      slack == OneWhole + 2 * (IF exact < 2 ^ MantBits THEN 0
                          ELSE 2 ^ (NDigits(exact, 2) - MantBits - 1))
      near == {n \in (exact \div OneWhole)..(exact \div OneWhole + 1) :
                 2 * n * OneWhole - 2 * exact \in (-slack)..slack}
      point(n) == IF prec = 0 THEN << >>
                  ELSE <<".">> \o Reverse(LowDigits(n, 10, prec, {}))
  IN {RefField(RefSign(c.arg, c.flags),
               RefDigits(n \div 10 ^ prec, 10, FALSE) \o point(n),
               ParsedWidth(c), ParsedFlags(c), "0" \in c.flags) : n \in near}

RefText(c) ==
  LET t == IF c.has_prec /\ c.conv = "s" THEN SubSeq(c.arg, 1, Lesser(c.prec, Len(c.arg)))
           ELSE c.arg
  IN {RefField(<< >>, t, ParsedWidth(c), ParsedFlags(c), FALSE)}

Ref(c) ==
  CASE c.conv \in {"d", "u", "x", "X", "o", "b"} -> RefInt(c)
    [] c.conv = "f" /\ c.arg # NaN -> RefFloat(c)
    [] c.conv \in {"c", "s"} -> RefText(c)
    [] c.conv = "p" ->
         {RefField(<< >>, RefDigits(c.arg, 16, TRUE), LongBits \div 4, {}, TRUE)}
    [] OTHER -> {Convert(c)}

------------------------------------------------------------------------------
(* _vsnprintf                                                              *)

PrintfInit ==
  /\ idx = 0 /\ sent = << >> /\ allowed = {<< >>} /\ items = 0 /\ done = FALSE
  /\ maxlen \in MaxLens
  /\ mem = [i \in 0..(maxlen - 1) |-> "none"]

(* Mutant: the limit of the buffer is not looked at.                       *)
Stored_NoLimit(chars) ==
  [i \in DOMAIN mem \cup (idx..(idx + Len(chars) - 1)) |->
     IF i - idx \in 0..(Len(chars) - 1) THEN chars[i - idx + 1] ELSE mem[i]]

(* _out_buffer for each character                                          *)
Stored(chars) ==
  [i \in DOMAIN mem |->
     IF i - idx \in 0..(Len(chars) - 1) THEN chars[i - idx + 1] ELSE mem[i]]

Emit(chars) ==
  /\ mem' = Stored(chars)
  /\ sent' = sent \o chars
  /\ idx' = idx + Len(chars)

Literal ==
  /\ ~done /\ items < MaxItems
  /\ Emit(<<"L">>)
  /\ allowed' = {a \o <<"L">> : a \in allowed}
  /\ items' = items + 1
  /\ UNCHANGED <<maxlen, done>>

Conversion(c) ==
  /\ ~done
  /\ IF TooLarge(c) THEN idx' = 0 /\ UNCHANGED <<mem, sent, allowed>>
     ELSE \E chars \in {Convert(c)} :
            /\ Emit(chars)
            /\ allowed' = {a \o r : a \in allowed, r \in Ref(c)}
  /\ UNCHANGED <<maxlen, done>>

Combined == /\ items < MaxItems /\ items' = items + 1
            /\ \E c \in Conversions : Conversion(c)

Single == /\ items = 0 /\ items' = MaxItems
          /\ \E c \in Alone : Conversion(c)

Terminate ==
  /\ ~done
  /\ mem' = [i \in DOMAIN mem |->
               IF i = (IF idx < maxlen THEN idx ELSE maxlen - 1) THEN "NUL"
               ELSE mem[i]]
  /\ done' = TRUE
  /\ UNCHANGED <<idx, maxlen, sent, allowed, items>>

Return == done /\ UNCHANGED printfVars

PrintfNext == Literal \/ Combined \/ Single \/ Terminate \/ Return

PrintfSpec == PrintfInit /\ [][PrintfNext]_printfVars

------------------------------------------------------------------------------
(* What is printed is what the C standard says of the conversions.         *)
MatchesC == sent \in allowed

(* When it returns, the caller's buffer holds the longest prefix of the    *)
(* output that fits before a terminator, nothing outside the buffer has    *)
(* been written, and an empty buffer is left alone.                        *)
BufferHoldsPrefix ==
  LET n == IF idx < maxlen THEN idx ELSE maxlen - 1
  IN /\ DOMAIN mem = 0..(maxlen - 1)
     /\ done /\ maxlen > 0 =>
          \A i \in DOMAIN mem :
            mem[i] = IF i < n THEN sent[i + 1]
                     ELSE IF i = n THEN "NUL" ELSE "none"
=============================================================================
