----------------------------- MODULE Sha2Words -----------------------------
(***************************************************************************)
(* The functions on words of sha256.c, sha512.c and OpenSSL's macros, and  *)
(* the conversions between big-endian memory and words.  All of them are   *)
(* linear, so that words of one and two bits tell them apart.              *)
(***************************************************************************)
EXTENDS Words, Sequences

CONSTANT MaxOnes    \* bound of the model: one bits in a word

VARIABLES word,
          Width     \* 32 for SHA-256, 64 for SHA-512

Three(op(_, _), x, s) == Xor(Xor(op(x, s[1]), op(x, s[2])), op(x, s[3]))

(* FIPS 180-4, 4.1.2 and 4.1.3: SUM_0, SUM_1 rotate by three amounts, the  *)
(* SIGMAs by two and shift by the third                                    *)
Amounts == IF Width = 32
  THEN [SUM_0 |-> <<2, 13, 22>>, SUM_1 |-> <<6, 11, 25>>,
        SIGMA_0 |-> <<7, 18, 3>>, SIGMA_1 |-> <<17, 19, 10>>]
  ELSE [SUM_0 |-> <<28, 34, 39>>, SUM_1 |-> <<14, 18, 41>>,
        SIGMA_0 |-> <<1, 8, 7>>, SIGMA_1 |-> <<19, 61, 6>>]

Standard(f, x) ==
  LET s == Amounts[f]
      third == IF f \in {"SUM_0", "SUM_1"} THEN RotateR(x, s[3], Width)
               ELSE ShiftR(x, s[3])
  IN Xor(Xor(RotateR(x, s[1], Width), RotateR(x, s[2], Width)), third)

------------------------------------------------------------------------------
(* ROR32, ROR64: both halves of the rotation are shifts                    *)
ROR(x, n) == ShiftR(x, n) \cup ShiftL(x, Width - n, Width)

(* Mutant: the right shift of the SIGMAs is written as a rotation.         *)
Scalar_Rotated(f, x) ==
  CASE f = "SUM_0" -> Three(ROR, x, IF Width = 32 THEN <<2, 13, 22>> ELSE <<28, 34, 39>>)
    [] f = "SUM_1" -> Three(ROR, x, IF Width = 32 THEN <<6, 11, 25>> ELSE <<14, 18, 41>>)
    [] f = "SIGMA_0" -> Three(ROR, x, IF Width = 32 THEN <<7, 18, 3>> ELSE <<1, 8, 7>>)
    [] f = "SIGMA_1" -> Three(ROR, x, IF Width = 32 THEN <<17, 19, 10>> ELSE <<19, 61, 6>>)

Scalar(f, x) ==
  LET Sigma(a, b, c) == Xor(Xor(ROR(x, a), ROR(x, b)), ShiftR(x, c))
      Sum(a, b, c) == Three(ROR, x, <<a, b, c>>)
  IN CASE f = "SUM_0" -> IF Width = 32 THEN Sum(2, 13, 22) ELSE Sum(28, 34, 39)
       [] f = "SUM_1" -> IF Width = 32 THEN Sum(6, 11, 25) ELSE Sum(14, 18, 41)
       [] f = "SIGMA_0" -> IF Width = 32 THEN Sigma(7, 18, 3) ELSE Sigma(1, 8, 7)
       [] f = "SIGMA_1" -> IF Width = 32 THEN Sigma(17, 19, 10) ELSE Sigma(19, 61, 6)

(* ROTATE of api_sha256.h turns to the left, ROTR of api_sha512.h right    *)
ROTATE(x, n) == IF Width = 32 THEN ShiftL(x, n, Width) \cup ShiftR(x, Width - n)
                ELSE ROR(x, n)

OpenSSL(f, x) ==
  LET Sigma(a, b, c) == Xor(Xor(ROTATE(x, a), ROTATE(x, b)), ShiftR(x, c))
      Sum(a, b, c) == Three(ROTATE, x, <<a, b, c>>)
  IN CASE f = "SUM_0" -> IF Width = 32 THEN Sum(30, 19, 10) ELSE Sum(28, 34, 39)
       [] f = "SUM_1" -> IF Width = 32 THEN Sum(26, 21, 7) ELSE Sum(14, 18, 41)
       [] f = "SIGMA_0" -> IF Width = 32 THEN Sigma(25, 14, 3) ELSE Sigma(1, 8, 7)
       [] f = "SIGMA_1" -> IF Width = 32 THEN Sigma(15, 13, 10) ELSE Sigma(19, 61, 6)

(* Memory as its bytes in order of address; the machine is little-endian.  *)
BytesIn == Width \div 8
Memory(x) == [a \in 0..(BytesIn - 1) |-> ByteOf(x, a)]

(* LOAD_BE, STORE_BE: a word, each byte moved to the other end             *)
Swapped(x) ==
  UNION {ShiftL(ByteOf(x, i), 8 * (BytesIn - 1 - i), Width) : i \in 0..(BytesIn - 1)}

(* Mutant: the bytes are taken in the order of the machine.                *)
Gathered_Little(mem) == UNION {ShiftL(mem[a], 8 * a, Width) : a \in DOMAIN mem}

(* HOST_c2l, PULL64: the bytes of memory, the first one on top             *)
Gathered(mem) ==
  UNION {ShiftL(mem[a], 8 * (BytesIn - 1 - a), Width) : a \in DOMAIN mem}

WordsInit == word = {} /\ Width \in {32, 64}

SetBit ==
  /\ Cardinality(word) < MaxOnes
  /\ \E b \in 0..(Width - 1) : word' = word \cup {b}
  /\ UNCHANGED Width

Stop == Cardinality(word) = MaxOnes /\ UNCHANGED <<word, Width>>

WordsNext == SetBit \/ Stop

WordsSpec == WordsInit /\ [][WordsNext]_<<word, Width>>

------------------------------------------------------------------------------
(* The scalar functions and OpenSSL's are the standard's.                  *)
SameFunctions ==
  \A f \in DOMAIN Amounts :
    Scalar(f, word) = Standard(f, word) /\ OpenSSL(f, word) = Standard(f, word)

(* Both ways of reading a big-endian word agree, and storing undoes them.  *)
SameByteOrder ==
  Gathered(Memory(word)) = Swapped(word) /\ Swapped(Swapped(word)) = word
=============================================================================
