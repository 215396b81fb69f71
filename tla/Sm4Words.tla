------------------------------ MODULE Sm4Words ------------------------------
(* SM4's constants and functions on words of 32 bits, in sm4_reference.c    *)
(* and in OpenSSL's code in test_sm4.c.                                     *)
EXTENDS Words, Sequences, TLC

Table == <<
  214, 144, 233, 254, 204, 225, 61, 183, 22, 182, 20, 194, 40, 251, 44, 5,
  43, 103, 154, 118, 42, 190, 4, 195, 170, 68, 19, 38, 73, 134, 6, 153,
  156, 66, 80, 244, 145, 239, 152, 122, 51, 84, 11, 67, 237, 207, 172, 98,
  228, 179, 28, 169, 201, 8, 232, 149, 128, 223, 148, 250, 117, 143, 63, 166,
  71, 7, 167, 252, 243, 115, 23, 186, 131, 89, 60, 25, 230, 133, 79, 168,
  104, 107, 129, 178, 113, 100, 218, 139, 248, 235, 15, 75, 112, 86, 157, 53,
  30, 36, 14, 94, 99, 88, 209, 162, 37, 34, 124, 59, 1, 33, 120, 135,
  212, 0, 70, 87, 159, 211, 39, 82, 76, 54, 2, 231, 160, 196, 200, 158,
  234, 191, 138, 210, 64, 199, 56, 181, 163, 247, 242, 206, 249, 97, 21, 161,
  224, 174, 93, 164, 155, 52, 26, 85, 173, 147, 50, 48, 245, 140, 177, 227,
  29, 246, 226, 46, 130, 102, 202, 96, 192, 41, 35, 171, 13, 83, 78, 111,
  213, 219, 55, 69, 222, 253, 142, 47, 3, 255, 106, 114, 109, 108, 91, 81,
  141, 27, 175, 146, 187, 221, 188, 127, 17, 217, 92, 65, 31, 16, 90, 216,
  10, 193, 49, 136, 165, 205, 123, 189, 45, 116, 208, 18, 184, 229, 180, 176,
  137, 105, 151, 74, 12, 150, 119, 126, 101, 185, 241, 9, 197, 110, 198, 132,
  24, 240, 125, 236, 58, 220, 77, 32, 121, 238, 95, 62, 215, 203, 57, 72>>

SBOX == Tabulated([x \in SUBSET (0..7) |->
  BitsIn(Table[1 + CHOOSE n \in 0..255 : BitsIn(n) = x])])

FK == <<Halves(\hA3B1, \hBAC6), Halves(\h56AA, \h3350),
        Halves(\h677D, \h9197), Halves(\hB270, \h22DC)>>

(* the table's bytes count up in steps of 7                                *)
CK == [n \in 0..31 |-> UNION {ShiftL(BitsIn((7 * (4 * n + k)) % 256), 24 - 8 * k, 32)
                                : k \in 0..3}]

ROL32(x, n) == ShiftL(x, n, 32) \cup ShiftR(x, 32 - n)
TAU(x) == UNION {ShiftL(SBOX[ByteOf(x, k)], 8 * k, 32) : k \in 0..3}

L(x) == Xor(Xor(Xor(Xor(x, ROL32(x, 2)), ROL32(x, 10)), ROL32(x, 18)), ROL32(x, 24))

T(x) == UNION {L(y) : y \in {TAU(x)}}
Tp(x) == UNION {Xor(Xor(y, ROL32(y, 13)), ROL32(y, 23)) : y \in {TAU(x)}}

(* "SM4_SBOX_T[j] == L(SM4_SBOX[j])", for each place of the byte           *)
SM4_SBOX_T == Tabulated([place \in 0..3 |->
  Tabulated([x \in SUBSET (0..7) |-> L(ShiftL(SBOX[x], 24 - 8 * place, 32))])])

SM4_T(x) == Xor(Xor(Xor(SM4_SBOX_T[0][ByteOf(x, 3)], SM4_SBOX_T[1][ByteOf(x, 2)]),
                    SM4_SBOX_T[2][ByteOf(x, 1)]), SM4_SBOX_T[3][ByteOf(x, 0)])
=============================================================================
