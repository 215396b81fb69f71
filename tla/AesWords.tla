------------------------------ MODULE AesWords ------------------------------
(***************************************************************************)
(* The rounds of OpenSSL's AES of aes_enc.c and aes_dec.c, on two words of *)
(* 64 bits that hold a byte of the block in each lane of eight bits.       *)
(***************************************************************************)
EXTENDS AesBytes

Wide == 0..63
Masked(x, m) == {b \in x : (b % 8) \in BitsOf(m)}

(* ((y & 0xFE..) >> 1) | ((y & 0x01..) << 7), n times                      *)
Turned(y, n) == {8 * (b \div 8) + ((b - n) % 8) : b \in y}

(* the sum of x & m[1] and, for each further mask, of y & m[i], y turned   *)
(* by one more: the bits that an odd number of the terms has               *)
Linear(x, m) ==
  LET term == Tabulated([n \in 0..7 |-> Masked(Turned(x, n), m[n + 1])])
  IN {b \in Wide : Cardinality({n \in 0..7 : b \in term[n]}) % 2 = 1}

Lanes(m) == Masked(Wide, m)

(* the product of the lanes of x and y, pairs of bits at the top bits of m *)
Product(x, y, m) ==
  LET p == x \cap y
      q == Xor(p, ShiftR(Masked(p, m), 1))
      cross == Xor(ShiftL(x, 1, 64) \cap y, ShiftL(y, 1, 64) \cap x)
  IN Xor(q, Masked(cross, m))

Scaled(x, m) ==
  LET top == Masked(x, m)
  IN Xor(top \cup ShiftR(top, 1), Masked(ShiftL(x, 1, 64), m))

Crossed(x) == ShiftR(Masked(x, \hCC), 2) \cup ShiftL(Masked(x, \h33), 2, 64)

(* F(x), for which TLC computes x once                                     *)
Once(x, F(_)) == UNION {F(v) : v \in {x}}

(* the product of nibbles: x by y, and crossed by y                        *)
Nibbles(x, y, crossed) ==
  Once(Product(x, y, \hAA), LAMBDA low :
    Once(Product(crossed, y, \hAA), LAMBDA other :
      Xor(Xor(low, Masked(Xor(ShiftL(other, 2, 64), other), \hCC)),
          Scaled(ShiftR(Masked(low, \hCC), 2), \h22))))

(* the low nibble whose inverse the inverse of the lane is made from       *)
Norm(p) ==
  Once(Scaled(p, \hA0), LAMBDA t :
    LET c == Masked(t, \hC0)
        d == Xor(c, Masked(ShiftL(t, 2, 64), \hC0)) \cup Scaled(ShiftR(c, 2), \h20)
    IN Masked(Xor(p, ShiftR(d, 4)), \h0F))

NibbleInverse(e) ==
  Once(Xor(e, ShiftR(Masked(e, \h0C), 2)), LAMBDA a2 :
    Once(Product(e, a2, \h0A), LAMBDA f :
      Once(Masked(Xor(f, ShiftR(Scaled(f, \h08), 2)), \h03), LAMBDA g :
        Once(Xor(g, ShiftR(Masked(g, \h02), 1)), LAMBDA h :
          Product(a2, h \cup ShiftL(h, 2, 64), \h0A)))))

(* The part SubLong and InvSubLong share: the inverse of every lane.       *)
Inverted(x) ==
  Once(Xor(x, ShiftR(Masked(x, \hF0), 4)), LAMBDA a1 :
    Once(Nibbles(x, a1, Crossed(x)), LAMBDA p :
      Once(NibbleInverse(Norm(p)), LAMBDA k :
        Nibbles(a1, k \cup ShiftL(k, 4, 64), Crossed(a1)))))

SubLong(w) ==
  LET x == Inverted(Linear(w, <<\hDD, \h57, \h1C, \h4A, \h42, \h64, \hE0, 0>>))
  IN Xor(Linear(x, <<\h39, \h3F, 0, \h97, \h9B, \h3C, \hDD, \h72>>), Lanes(\h63))

InvSubLong(w) ==
  LET x == Inverted(Linear(Xor(w, Lanes(\h63)),
                           <<\hFD, \h5E, \hF3, \hF5, \h78, \h77, \h15, \hA5>>))
  IN Linear(x, <<\hB5, \h40, \h80, \h16, \hEB, \h97, \hFB, \h7D>>)

------------------------------------------------------------------------------
(* b -= b >> 7 makes 0x7F of the top bit of each lane.                     *)
XtimeLong(w) ==
  LET a == Masked(w, \h7F)
      b == UNION {{8 * (t \div 8) + j : j \in 0..6} : t \in Masked(w, \h80)}
  IN Xor(Masked(b, \h1B), ShiftL(a, 1, 64))

(* the columns, of 32 bits, rotated by n bits; bytes swapped in each half  *)
RotatedColumns(x, n) == {32 * (b \div 32) + ((b + n) % 32) : b \in x}
SwappedBytes(x) == {16 * (b \div 16) + ((b + 8) % 16) : b \in x}

(* the exclusive or of the other three bytes of the column                 *)
OtherThree(x) ==
  LET s == Xor(x, RotatedColumns(x, 16)) IN Xor(Xor(s, SwappedBytes(s)), x)

(* Mutant: the doubled column is rotated the other way.                    *)
MixedWord_Left(w) ==
  LET twice == XtimeLong(w)
  IN Xor(Xor(OtherThree(w), twice), RotatedColumns(twice, 8))

MixedWord(w) ==
  LET twice == XtimeLong(w)
  IN Xor(Xor(OtherThree(w), twice), RotatedColumns(twice, -8))

InvMixedWord(w) ==
  LET twice == XtimeLong(w)
      four == XtimeLong(twice)
      fours == Xor(four, RotatedColumns(four, 16))
      eight == XtimeLong(fours)
  IN Xor(Xor(Xor(OtherThree(w), twice), RotatedColumns(twice, -8)),
         Xor(fours, Xor(eight, SwappedBytes(eight))))

(* state[0] and state[1] are the pair's first and second word.             *)
MixColumns(state) == <<MixedWord(state[1]), MixedWord(state[2])>>
InvMixColumns(state) == <<InvMixedWord(state[1]), InvMixedWord(state[2])>>

SubLongs(state) == <<SubLong(state[1]), SubLong(state[2])>>
InvSubLongs(state) == <<InvSubLong(state[1]), InvSubLong(state[2])>>

(* memcpy between the sixteen bytes and the two words                      *)
WordsOf(bytes) ==
  LET Word(c) == UNION {ShiftL(bytes[8 * c + k], 8 * k, 64) : k \in 0..7}
  IN <<Word(0), Word(1)>>
BytesOf(state) == [i \in Index |-> ByteOf(state[1 + (i \div 8)], i % 8)]

(* byte (column c, row r) of the words takes that of column (c + r) % 4    *)
ShiftRows(state) ==
  LET s0 == BytesOf(state)
  IN WordsOf([i \in Index |-> s0[4 * (((i \div 4) + Row(i)) % 4) + Row(i)]])

InvShiftRows(state) ==
  LET s0 == BytesOf(state)
  IN WordsOf([i \in Index |-> s0[4 * ((4 - Row(i) + (i \div 4)) % 4) + Row(i)]])

AddRoundKey(state, w) == <<Xor(state[1], w[1]), Xor(state[2], w[2])>>

=============================================================================
