------------------------------ MODULE AesBytes ------------------------------
(***************************************************************************)
(* The byte-wise AES of aes_enc.c and aes_dec.c: a byte is the set of its  *)
(* one bits, a block the sixteen bytes of memory, column after column.     *)
(* The tables of the two files and of api_aes.h are the functions they     *)
(* tabulate.                                                               *)
(***************************************************************************)
EXTENDS Words, Sequences

Bits == 0..7
Byte == SUBSET Bits
BitsOf(m) == {b \in Bits : (m \div 2 ^ b) % 2 = 1}
Index == 0..15

(* Multiplication by x in the field of FIPS 197, 4.2                       *)
xtime(b) == Xor(ShiftL(b, 1, 8), IF 7 \in b THEN {0, 1, 3, 4} ELSE {})

(* Multiplication by b: the powers at the bits of b, added                 *)
Times(a, b) ==
  LET power[i \in Bits] == IF i = 0 THEN a ELSE xtime(power[i - 1])
      terms == Tabulated([i \in b |-> power[i]])
  IN {c \in Bits : Cardinality({i \in b : c \in terms[i]}) % 2 = 1}

(* x^254: the inverse of x, and zero for zero; power[k] is x^(2^(k+1) - 1)  *)
Inverse_(x) ==
  LET square(a) == Times(a, a)
      power[k \in 0..6] == IF k = 0 THEN x ELSE Times(square(power[k - 1]), x)
  IN square(power[6])

SixtyThree == {0, 1, 5, 6}     \* 0x63

e_sbox == Tabulated([x \in Byte |->
  LET y == Inverse_(x)
  IN Xor(SixtyThree, Xor(Xor(Xor(y, RotateL(y, 1, 8)), Xor(RotateL(y, 2, 8), RotateL(y, 3, 8))),
                         RotateL(y, 4, 8)))])

d_sbox == Tabulated([y \in Byte |-> CHOOSE x \in Byte : e_sbox[x] = y])

round_const ==
  [i \in 0..10 |-> BitsOf(<<\h8d, 1, 2, 4, 8, \h10, \h20, \h40, \h80, \h1b, \h36>>[i + 1])]

------------------------------------------------------------------------------
(* What each byte of the block is replaced by, in the order of the         *)
(* assignments of the four rows: byte i comes from byte (i + 4 row) % 16.  *)
Row(i) == i % 4

aes_subbytes_shiftrows(ct) == [i \in Index |-> e_sbox[ct[(i + 4 * Row(i)) % 16]]]

aes_subbytes_shiftrows_dec(pt) == [i \in Index |-> d_sbox[pt[(i - 4 * Row(i)) % 16]]]

(* The macros compute in an int: the bits above the byte stay until the    *)
(* result is stored, but the reduction looks at bit 7 only.                *)
XT2(x) == Xor({b + 1 : b \in x}, IF 7 \in x THEN {0, 1, 3, 4} ELSE {})

(* the sums of the macros XT3, XT9, XTB, XTD and XTE                       *)
XT(digit, x) ==
  LET x2 == XT2(x)
      x4 == XT2(XT2(x))
      x8 == XT2(XT2(XT2(x)))
  IN CASE digit = 1 -> x
       [] digit = 2 -> x2
       [] digit = 3 -> Xor(x2, x)
       [] digit = 9 -> Xor(x8, x)
       [] digit = 11 -> Xor(Xor(x8, x2), x)
       [] digit = 13 -> Xor(Xor(x8, x4), x)
       [] digit = 14 -> Xor(Xor(x8, x4), x2)

(* byte r of column s times the circulant matrix whose first row is f      *)
Column(f, s, r) ==
  Xor(Xor(Xor(XT(f[(0 - r) % 4], s[0]), XT(f[(1 - r) % 4], s[1])),
          XT(f[(2 - r) % 4], s[2])), XT(f[(3 - r) % 4], s[3])) \cap Bits

ColumnsBy(f, block) ==
  [i \in Index |-> Column(f, [k \in 0..3 |-> block[4 * (i \div 4) + k]], i % 4)]

aes_mix_columns_enc(ct) == ColumnsBy([k \in 0..3 |-> <<2, 3, 1, 1>>[k + 1]], ct)

aes_mix_columns_dec(pt) == ColumnsBy([k \in 0..3 |-> <<14, 11, 13, 9>>[k + 1]], pt)

AddBytes(block, key) == [i \in Index |-> Xor(block[i], key[i])]

------------------------------------------------------------------------------
(* aes_key_schedule: words of 32 bits, the first byte the lowest.          *)
WordFrom(bytes, order) == UNION {ShiftL(bytes[k], 8 * order[k], 32) : k \in 0..3}
LittleEndian == [k \in 0..3 |-> k]
BigEndian == [k \in 0..3 |-> 3 - k]

aes_sub_word(w) == WordFrom([k \in 0..3 |-> e_sbox[ByteOf(w, k)]], LittleEndian)

Loaded(ck, i) == WordFrom([k \in 0..3 |-> ck[4 * i + k]], LittleEndian)

(* the word the second loop appends to rk                                  *)
NextWord(rk, i, Nk) ==
  LET temp == rk[i - 1]
      changed == CASE i % Nk = 0 ->
                        Xor(aes_sub_word(RotateR(temp, 8, 32)), round_const[i \div Nk])
                   [] Nk > 6 /\ i % Nk = 4 -> aes_sub_word(temp)
                   [] OTHER -> temp
  IN Xor(rk[i - Nk], changed)

(* (uint8_t* )rk + 16 * round on a little-endian machine                   *)
RoundKeyOf(rk, round) ==
  [i \in Index |-> ByteOf(rk[4 * round + (i \div 4)], i % 4)]
=============================================================================
