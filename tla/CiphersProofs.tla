--------------------------- MODULE CiphersProofs ---------------------------
(***************************************************************************)
(* The key schedules of AES write the same words, and SM4's decryption     *)
(* retraces its encryption: for every key and every block.                 *)
(***************************************************************************)
EXTENDS MCCiphers, TLAPS, FiniteSetTheorems

(* What is tabulated is the function itself.                               *)
LEMMA TabulatedIs == \A f : Tabulated(f) = f
BY DEF Tabulated

------------------------------------------------------------------------------
(* Words by their bytes.                                                   *)

(* Bit d of byte k of a word is its bit d + 8 k.                           *)
LEMMA BitOfByte ==
  ASSUME NEW x \in Word32, NEW k \in 0..3
  PROVE  ByteOf(x, k) \in Byte /\ \A d \in Bits : d \in ByteOf(x, k) <=> d + 8 * k \in x
<1>1. \A c \in x : c \in 0..31
  BY DEF Word32
<1>2. ByteOf(x, k) \in Byte
  BY <1>1 DEF ByteOf, Byte, Bits
<1>3. \A d \in Bits : (d + 8 * k) \div 8 = k /\ (d + 8 * k) - 8 * k = d
  BY DEF Bits
<1> QED
  BY <1>1, <1>2, <1>3 DEF ByteOf

(* Words with the same bytes are the same.                                 *)
LEMMA WordOfBytes ==
  ASSUME NEW x \in Word32, NEW y \in Word32,
         \A k \in 0..3 : ByteOf(x, k) = ByteOf(y, k)
  PROVE  x = y
<1>1. ASSUME NEW c \in 0..31
      PROVE  c \in x <=> c \in y
  <2>1. PICK k : k = c \div 8
    OBVIOUS
  <2>2. PICK d : d = c % 8
    OBVIOUS
  <2>3. k \in 0..3 /\ d \in Bits /\ c = d + 8 * k
    BY <2>1, <2>2 DEF Bits
  <2> QED
    BY <2>3, BitOfByte
<1> QED
  BY <1>1 DEF Word32

LEMMA XorBytes ==
  ASSUME NEW x \in Word32, NEW y \in Word32
  PROVE  /\ Xor(x, y) \in Word32
         /\ \A k \in 0..3 : ByteOf(Xor(x, y), k) = Xor(ByteOf(x, k), ByteOf(y, k))
<1>1. Xor(x, y) \in Word32
  BY DEF Xor, Word32
<1>2. ASSUME NEW k \in 0..3
      PROVE  ByteOf(Xor(x, y), k) = Xor(ByteOf(x, k), ByteOf(y, k))
  <2>1. /\ ByteOf(x, k) \subseteq Bits /\ ByteOf(y, k) \subseteq Bits
        /\ ByteOf(Xor(x, y), k) \subseteq Bits
    BY <1>1, BitOfByte DEF Byte
  <2>2. \A d \in Bits : d \in ByteOf(Xor(x, y), k) <=> d + 8 * k \in Xor(x, y)
    BY <1>1, BitOfByte
  <2>3. \A d \in Bits : /\ d \in ByteOf(x, k) <=> d + 8 * k \in x
                        /\ d \in ByteOf(y, k) <=> d + 8 * k \in y
    BY BitOfByte
  <2> QED
    BY <2>1, <2>2, <2>3 DEF Xor
<1> QED
  BY <1>1, <1>2

LEMMA RotatedBytes ==
  ASSUME NEW x \in Word32, NEW m \in 0..3
  PROVE  /\ RotateR(x, 8 * m, 32) \in Word32
         /\ \A k \in 0..3 : ByteOf(RotateR(x, 8 * m, 32), k) = ByteOf(x, (k + m) % 4)
<1> DEFINE y == RotateR(x, 8 * m, 32)
<1>1. \A b \in x : b \in 0..31 /\ (b - 8 * m) % 32 \in 0..31
  BY DEF Word32
<1>2. y \in Word32
  BY <1>1 DEF RotateR, Word32
<1>3. ASSUME NEW k \in 0..3
      PROVE  ByteOf(y, k) = ByteOf(x, (k + m) % 4)
  <2>1. PICK l : l = (k + m) % 4
    OBVIOUS
  <2>2. l \in 0..3 /\ (l = k + m \/ l = k + m - 4)
    BY <2>1
  <2>3. ASSUME NEW d \in Bits
        PROVE  d + 8 * k \in y <=> d + 8 * l \in x
    <3>1. \A b \in 0..31 : (b - 8 * m) % 32 = d + 8 * k <=> b = d + 8 * l
      BY <2>2 DEF Bits
    <3>2. d + 8 * k \in y <=> \E b \in x : (b - 8 * m) % 32 = d + 8 * k
      BY DEF RotateR
    <3> QED
      BY <1>1, <3>1, <3>2
  <2> HIDE DEF y
  <2>4. ByteOf(y, k) \subseteq Bits /\ ByteOf(x, l) \subseteq Bits
    BY <1>2, <2>2, BitOfByte DEF Byte
  <2>5. \A d \in Bits : d \in ByteOf(y, k) <=> d \in ByteOf(x, l)
    BY <1>2, <2>2, <2>3, BitOfByte
  <2>6. ByteOf(y, k) = ByteOf(x, l)
    BY <2>4, <2>5
  <2> QED
    BY <2>1, <2>6
<1> QED
  BY <1>2, <1>3

(* both orders put a byte where they find it again                         *)
Orders == {LittleEndian, BigEndian}

LEMMA OrdersTwice ==
  \A order \in Orders : order \in [0..3 -> 0..3] /\ \A k \in 0..3 : order[order[k]] = k
BY DEF Orders, LittleEndian, BigEndian

LEMMA GatheredBytes ==
  ASSUME NEW bytes \in [0..3 -> Byte], NEW order \in Orders
  PROVE  /\ WordFrom(bytes, order) \in Word32
         /\ \A k \in 0..3 : ByteOf(WordFrom(bytes, order), k) = bytes[order[k]]
<1> DEFINE w == WordFrom(bytes, order)
<1>1. order \in [0..3 -> 0..3] /\ \A k \in 0..3 : order[order[k]] = k
  BY OrdersTwice
<1>2. \A k \in 0..3 : bytes[k] \subseteq Bits
  BY DEF Byte
<1>3. \A c : c \in w <=> \E l \in 0..3 : \E e \in bytes[l] :
                            c = e + 8 * order[l] /\ e + 8 * order[l] < 32
  BY DEF WordFrom, ShiftL
<1> HIDE DEF w
<1>4. w \in Word32
  <2>1. ASSUME NEW c \in w
        PROVE  c \in 0..31
    BY <1>1, <1>2, <1>3 DEF Bits
  <2> QED
    BY <2>1 DEF Word32
<1>5. ASSUME NEW k \in 0..3
      PROVE  ByteOf(w, k) = bytes[order[k]]
  <2>1. order[k] \in 0..3 /\ order[order[k]] = k
    BY <1>1
  <2>2. ASSUME NEW d \in Bits
        PROVE  d + 8 * k \in w <=> d \in bytes[order[k]]
    <3>1. ASSUME NEW l \in 0..3, NEW e \in bytes[l], d + 8 * k = e + 8 * order[l]
          PROVE  l = order[k] /\ e = d
      <4>1. e \in Bits /\ order[l] \in 0..3
        BY <1>1, <1>2
      <4>2. \A o \in 0..3 : d + 8 * k = e + 8 * o => e = d /\ o = k
        BY <4>1 DEF Bits
      <4>3. e = d /\ order[l] = k
        BY <3>1, <4>1, <4>2
      <4> QED
        BY <4>3, <1>1
    <3>2. d + 8 * k < 32
      BY DEF Bits
    <3>3. d \in bytes[order[k]] => d + 8 * k \in w
      BY <1>3, <2>1, <3>2
    <3>4. d + 8 * k \in w => d \in bytes[order[k]]
      BY <1>3, <3>1
    <3> QED
      BY <3>3, <3>4
  <2>3. ByteOf(w, k) \subseteq Bits /\ \A d \in Bits : d \in ByteOf(w, k) <=> d + 8 * k \in w
    BY <1>4, BitOfByte DEF Byte
  <2> QED
    BY <1>2, <2>1, <2>2, <2>3
<1> QED
  BY <1>4, <1>5 DEF w

LEMMA Gathered ==
  ASSUME NEW bytes \in [0..3 -> Byte]
  PROVE  /\ WordFrom(bytes, LittleEndian) \in Word32
         /\ WordFrom(bytes, BigEndian) \in Word32
         /\ \A k \in 0..3 : /\ ByteOf(WordFrom(bytes, LittleEndian), k) = bytes[k]
                            /\ ByteOf(WordFrom(bytes, BigEndian), k) = bytes[3 - k]
<1>1. LittleEndian \in Orders /\ BigEndian \in Orders
  BY DEF Orders
<1>2. \A k \in 0..3 : LittleEndian[k] = k /\ BigEndian[k] = 3 - k
  BY DEF LittleEndian, BigEndian
<1> QED
  BY <1>1, <1>2, GatheredBytes

LEMMA SwappedBytesAre ==
  ASSUME NEW w \in Word32
  PROVE  /\ SwappedWord(w) \in Word32
         /\ \A k \in 0..3 : ByteOf(SwappedWord(w), k) = ByteOf(w, 3 - k)
<1> DEFINE bytes == [k \in 0..3 |-> ByteOf(w, 3 - k)]
<1>1. bytes \in [0..3 -> Byte]
  BY BitOfByte
<1>2. SwappedWord(w) = WordFrom(bytes, LittleEndian)
  BY DEF SwappedWord
<1>3. \A k \in 0..3 : bytes[k] = ByteOf(w, 3 - k)
  OBVIOUS
<1> HIDE DEF bytes
<1> QED
  BY <1>1, <1>2, <1>3, Gathered

LEMMA SwappedXor ==
  ASSUME NEW x \in Word32, NEW y \in Word32
  PROVE  SwappedWord(Xor(x, y)) = Xor(SwappedWord(x), SwappedWord(y))
<1>1. \A k \in 0..3 : 3 - k \in 0..3
  OBVIOUS
<1> QED
  BY <1>1, WordOfBytes, SwappedBytesAre, XorBytes

(* The tables give bytes.                                                  *)
LEMMA XorBits ==
  ASSUME NEW x \in Byte, NEW y \in Byte
  PROVE  Xor(x, y) \in Byte
BY DEF Xor, Byte

LEMMA TimesByte == \A a, b : Times(a, b) \in Byte
BY DEF Times, Byte

LEMMA InverseByte == \A x : Inverse_(x) \in Byte
BY TimesByte DEF Inverse_

LEMMA SboxByte == \A x \in Byte : e_sbox[x] \in Byte
<1> TAKE x \in Byte
<1>1. PICK y : y = Inverse_(x)
  OBVIOUS
<1>2. y \in Byte
  BY <1>1, InverseByte
<1>3. \A n \in 1..4 : RotateL(y, n, 8) \in Byte
  BY <1>2 DEF RotateL, Byte, Bits
<1>4. SixtyThree \in Byte
  BY DEF SixtyThree, Byte, Bits
<1>5. e_sbox[x] = Xor(SixtyThree, Xor(Xor(Xor(y, RotateL(y, 1, 8)),
                       Xor(RotateL(y, 2, 8), RotateL(y, 3, 8))), RotateL(y, 4, 8)))
  BY <1>1, TabulatedIs DEF e_sbox
<1> QED
  BY <1>2, <1>3, <1>4, <1>5, XorBits

LEMMA RoundConstByte == \A n \in 0..10 : round_const[n] \in Byte
BY DEF round_const, BitsOf, Byte

LEMMA XtimeByte == \A x \in Byte : xtime(x) \in Byte
<1> TAKE x \in Byte
<1>1. ShiftL(x, 1, 8) \in Byte
  BY DEF ShiftL, Byte, Bits
<1>2. (IF 7 \in x THEN {0, 1, 3, 4} ELSE {}) \in Byte
  BY DEF Byte, Bits
<1> QED
  BY <1>1, <1>2, XorBits DEF xtime

(* Byte 1 of Te0, which is byte 3, 2 and 0 of Te2, Te3 and Te1, is the     *)
(* S-box.                                                                  *)
LEMMA Te0Byte ==
  ASSUME NEW x \in Byte
  PROVE  Te0[x] \in Word32 /\ ByteOf(Te0[x], 1) = e_sbox[x]
<1> DEFINE four == <<xtime(e_sbox[x]), e_sbox[x], e_sbox[x], Times(e_sbox[x], {0, 1})>>
           bytes == [k \in 0..3 |-> four[k + 1]]
<1>1. bytes \in [0..3 -> Byte] /\ bytes[2] = e_sbox[x]
  BY SboxByte, XtimeByte, TimesByte
<1>2. Te0[x] = WordFrom(bytes, BigEndian)
  <2>1. Te0 = [y \in Byte |-> FromTop(<<xtime(e_sbox[y]), e_sbox[y], e_sbox[y], Times(e_sbox[y], {0, 1})>>)]
    BY TabulatedIs DEF Te0
  <2> QED
    BY <2>1 DEF FromTop
<1> HIDE DEF bytes
<1> QED
  BY <1>1, <1>2, Gathered

LEMMA TeBytes ==
  ASSUME NEW x \in Byte
  PROVE  /\ Te0[x] \in Word32 /\ ByteOf(Te0[x], 1) = e_sbox[x]
         /\ Te1[x] \in Word32 /\ ByteOf(Te1[x], 0) = e_sbox[x]
         /\ Te2[x] \in Word32 /\ ByteOf(Te2[x], 3) = e_sbox[x]
         /\ Te3[x] \in Word32 /\ ByteOf(Te3[x], 2) = e_sbox[x]
<1>1. Te0[x] \in Word32 /\ ByteOf(Te0[x], 1) = e_sbox[x]
  BY Te0Byte
<1>2. /\ Te1[x] = RotateR(Te0[x], 8 * 1, 32)
      /\ Te2[x] = RotateR(Te0[x], 8 * 2, 32)
      /\ Te3[x] = RotateR(Te0[x], 8 * 3, 32)
  BY TabulatedIs DEF Te1, Te2, Te3
<1>3. \A m \in 1..3 : /\ RotateR(Te0[x], 8 * m, 32) \in Word32
                      /\ \A k \in 0..3 : ByteOf(RotateR(Te0[x], 8 * m, 32), k) = ByteOf(Te0[x], (k + m) % 4)
  BY <1>1, RotatedBytes
<1>4. (0 + 1) % 4 = 1 /\ (3 + 2) % 4 = 1 /\ (2 + 3) % 4 = 1
  OBVIOUS
<1>5. \A k \in 0..3 : /\ ByteOf(Te1[x], k) = ByteOf(Te0[x], (k + 1) % 4)
                      /\ ByteOf(Te2[x], k) = ByteOf(Te0[x], (k + 2) % 4)
                      /\ ByteOf(Te3[x], k) = ByteOf(Te0[x], (k + 3) % 4)
  BY <1>2, <1>3
<1> QED
  BY <1>1, <1>2, <1>3, <1>4, <1>5

LEMMA LaneBytes ==
  ASSUME NEW w \in Word32, NEW k \in 0..3
  PROVE  /\ Lane(w, k) \in Word32 /\ ByteOf(Lane(w, k), k) = ByteOf(w, k)
         /\ \A j \in 0..3 : j # k => ByteOf(Lane(w, k), j) = {}
BY DEF Lane, ByteOf, Word32

LEMMA JoinedBytes ==
  ASSUME NEW x \in Word32, NEW y \in Word32
  PROVE  /\ x \cup y \in Word32
         /\ \A k \in 0..3 : ByteOf(x \cup y, k) = ByteOf(x, k) \cup ByteOf(y, k)
BY DEF ByteOf, Word32

(* a word of the lanes of four                                             *)
LEMMA LanesJoined ==
  ASSUME NEW a \in Word32, NEW b \in Word32, NEW c \in Word32, NEW d \in Word32
  PROVE  LET w == Lane(a, 3) \cup Lane(b, 2) \cup Lane(c, 1) \cup Lane(d, 0)
         IN  /\ w \in Word32
             /\ ByteOf(w, 3) = ByteOf(a, 3) /\ ByteOf(w, 2) = ByteOf(b, 2)
             /\ ByteOf(w, 1) = ByteOf(c, 1) /\ ByteOf(w, 0) = ByteOf(d, 0)
<1> DEFINE la == Lane(a, 3)
           lb == Lane(b, 2)
           lc == Lane(c, 1)
           ld == Lane(d, 0)
           w1 == la \cup lb
           w2 == w1 \cup lc
           w == w2 \cup ld
<1>1. la \in Word32 /\ lb \in Word32 /\ lc \in Word32 /\ ld \in Word32
  BY LaneBytes
<1>2. \A k \in 0..3 : /\ ByteOf(la, k) = IF k = 3 THEN ByteOf(a, 3) ELSE {}
                      /\ ByteOf(lb, k) = IF k = 2 THEN ByteOf(b, 2) ELSE {}
                      /\ ByteOf(lc, k) = IF k = 1 THEN ByteOf(c, 1) ELSE {}
                      /\ ByteOf(ld, k) = IF k = 0 THEN ByteOf(d, 0) ELSE {}
  BY LaneBytes
<1>3. w = Lane(a, 3) \cup Lane(b, 2) \cup Lane(c, 1) \cup Lane(d, 0)
  OBVIOUS
<1> HIDE DEF la, lb, lc, ld
<1>4. w1 \in Word32 /\ \A k \in 0..3 : ByteOf(w1, k) = ByteOf(la, k) \cup ByteOf(lb, k)
  BY ONLY <1>1 DEF w1, ByteOf, Word32
<1> HIDE DEF w1
<1>5. w2 \in Word32 /\ \A k \in 0..3 : ByteOf(w2, k) = ByteOf(w1, k) \cup ByteOf(lc, k)
  BY ONLY <1>1, <1>4 DEF w2, ByteOf, Word32
<1> HIDE DEF w2
<1>6. w \in Word32 /\ \A k \in 0..3 : ByteOf(w, k) = ByteOf(w2, k) \cup ByteOf(ld, k)
  BY ONLY <1>1, <1>5 DEF w, ByteOf, Word32
<1> HIDE DEF w
<1>7. /\ ByteOf(w, 3) = ByteOf(a, 3) /\ ByteOf(w, 2) = ByteOf(b, 2)
      /\ ByteOf(w, 1) = ByteOf(c, 1) /\ ByteOf(w, 0) = ByteOf(d, 0)
  <2>1. ASSUME NEW k \in 0..3
        PROVE  ByteOf(w, k) = ((ByteOf(la, k) \cup ByteOf(lb, k)) \cup ByteOf(lc, k)) \cup ByteOf(ld, k)
    BY ONLY <1>4, <1>5, <1>6
  <2> QED
    BY ONLY <1>2, <2>1
<1> QED
  BY ONLY <1>3, <1>6, <1>7

LEMMA RotatedIs ==
  ASSUME NEW t \in Word32
  PROVE  Rotated(t) \in Word32 /\ \A k \in 0..3 : ByteOf(Rotated(t), k) = e_sbox[ByteOf(t, (k + 3) % 4)]
<1>1. \A k \in 0..3 : ByteOf(t, k) \in Byte
  BY BitOfByte
<1>2. /\ Te2[ByteOf(t, 2)] \in Word32 /\ Te3[ByteOf(t, 1)] \in Word32
      /\ Te0[ByteOf(t, 0)] \in Word32 /\ Te1[ByteOf(t, 3)] \in Word32
  BY <1>1, TeBytes
<1>3. /\ ByteOf(Te2[ByteOf(t, 2)], 3) = e_sbox[ByteOf(t, 2)]
      /\ ByteOf(Te3[ByteOf(t, 1)], 2) = e_sbox[ByteOf(t, 1)]
      /\ ByteOf(Te0[ByteOf(t, 0)], 1) = e_sbox[ByteOf(t, 0)]
      /\ ByteOf(Te1[ByteOf(t, 3)], 0) = e_sbox[ByteOf(t, 3)]
  BY <1>1, TeBytes
<1>4. /\ Rotated(t) \in Word32
      /\ ByteOf(Rotated(t), 3) = e_sbox[ByteOf(t, 2)] /\ ByteOf(Rotated(t), 2) = e_sbox[ByteOf(t, 1)]
      /\ ByteOf(Rotated(t), 1) = e_sbox[ByteOf(t, 0)] /\ ByteOf(Rotated(t), 0) = e_sbox[ByteOf(t, 3)]
  <2> DEFINE a == Te2[ByteOf(t, 2)]
             b == Te3[ByteOf(t, 1)]
             c == Te0[ByteOf(t, 0)]
             d == Te1[ByteOf(t, 3)]
  <2>1. Rotated(t) = Lane(a, 3) \cup Lane(b, 2) \cup Lane(c, 1) \cup Lane(d, 0)
    BY DEF Rotated
  <2>2. a \in Word32 /\ b \in Word32 /\ c \in Word32 /\ d \in Word32
    BY <1>2
  <2>3. /\ ByteOf(a, 3) = e_sbox[ByteOf(t, 2)] /\ ByteOf(b, 2) = e_sbox[ByteOf(t, 1)]
        /\ ByteOf(c, 1) = e_sbox[ByteOf(t, 0)] /\ ByteOf(d, 0) = e_sbox[ByteOf(t, 3)]
    BY <1>3
  <2> HIDE DEF a, b, c, d
  <2> QED
    BY <2>1, <2>2, <2>3, LanesJoined
<1>5. /\ (0 + 3) % 4 = 3 /\ (1 + 3) % 4 = 0 /\ (2 + 3) % 4 = 1 /\ (3 + 3) % 4 = 2
      /\ \A k \in 0..3 : k = 0 \/ k = 1 \/ k = 2 \/ k = 3
  OBVIOUS
<1> QED
  BY <1>4, <1>5

LEMMA SubstitutedIs ==
  ASSUME NEW t \in Word32
  PROVE  Substituted(t) \in Word32 /\ \A k \in 0..3 : ByteOf(Substituted(t), k) = e_sbox[ByteOf(t, k)]
<1>1. \A k \in 0..3 : ByteOf(t, k) \in Byte
  BY BitOfByte
<1>2. /\ Te2[ByteOf(t, 3)] \in Word32 /\ Te3[ByteOf(t, 2)] \in Word32
      /\ Te0[ByteOf(t, 1)] \in Word32 /\ Te1[ByteOf(t, 0)] \in Word32
  BY <1>1, TeBytes
<1>3. /\ ByteOf(Te2[ByteOf(t, 3)], 3) = e_sbox[ByteOf(t, 3)]
      /\ ByteOf(Te3[ByteOf(t, 2)], 2) = e_sbox[ByteOf(t, 2)]
      /\ ByteOf(Te0[ByteOf(t, 1)], 1) = e_sbox[ByteOf(t, 1)]
      /\ ByteOf(Te1[ByteOf(t, 0)], 0) = e_sbox[ByteOf(t, 0)]
  BY <1>1, TeBytes
<1>4. /\ Substituted(t) \in Word32
      /\ ByteOf(Substituted(t), 3) = e_sbox[ByteOf(t, 3)] /\ ByteOf(Substituted(t), 2) = e_sbox[ByteOf(t, 2)]
      /\ ByteOf(Substituted(t), 1) = e_sbox[ByteOf(t, 1)] /\ ByteOf(Substituted(t), 0) = e_sbox[ByteOf(t, 0)]
  <2> DEFINE a == Te2[ByteOf(t, 3)]
             b == Te3[ByteOf(t, 2)]
             c == Te0[ByteOf(t, 1)]
             d == Te1[ByteOf(t, 0)]
  <2>1. Substituted(t) = Lane(a, 3) \cup Lane(b, 2) \cup Lane(c, 1) \cup Lane(d, 0)
    BY DEF Substituted
  <2>2. a \in Word32 /\ b \in Word32 /\ c \in Word32 /\ d \in Word32
    BY <1>2
  <2>3. /\ ByteOf(a, 3) = e_sbox[ByteOf(t, 3)] /\ ByteOf(b, 2) = e_sbox[ByteOf(t, 2)]
        /\ ByteOf(c, 1) = e_sbox[ByteOf(t, 1)] /\ ByteOf(d, 0) = e_sbox[ByteOf(t, 0)]
    BY <1>3
  <2> HIDE DEF a, b, c, d
  <2> QED
    BY <2>1, <2>2, <2>3, LanesJoined
<1>5. \A k \in 0..3 : k = 0 \/ k = 1 \/ k = 2 \/ k = 3
  OBVIOUS
<1> QED
  BY <1>4, <1>5

LEMMA SubWordIs ==
  ASSUME NEW t \in Word32
  PROVE  aes_sub_word(t) \in Word32 /\ \A k \in 0..3 : ByteOf(aes_sub_word(t), k) = e_sbox[ByteOf(t, k)]
<1> DEFINE bytes == [k \in 0..3 |-> e_sbox[ByteOf(t, k)]]
<1>1. bytes \in [0..3 -> Byte]
  BY BitOfByte, SboxByte
<1>2. aes_sub_word(t) = WordFrom(bytes, LittleEndian) /\ \A k \in 0..3 : bytes[k] = e_sbox[ByteOf(t, k)]
  BY DEF aes_sub_word
<1> HIDE DEF bytes
<1> QED
  BY <1>1, <1>2, Gathered

LEMMA LowByte ==
  ASSUME NEW x \in Byte
  PROVE  /\ x \in Word32 /\ ByteOf(x, 0) = x /\ \A k \in 1..3 : ByteOf(x, k) = {}
         /\ ShiftL(x, 24, 32) \in Word32 /\ ByteOf(ShiftL(x, 24, 32), 3) = x
         /\ \A k \in 0..2 : ByteOf(ShiftL(x, 24, 32), k) = {}
<1>1. \A c \in x : c \in 0..7
  BY DEF Byte, Bits
<1>2. x \in Word32 /\ ByteOf(x, 0) = x /\ \A k \in 1..3 : ByteOf(x, k) = {}
  BY <1>1 DEF ByteOf, Word32
<1>3. ShiftL(x, 24, 32) = {c + 24 : c \in x}
  BY <1>1 DEF ShiftL
<1>4. ShiftL(x, 24, 32) \in Word32
  BY <1>1, <1>3 DEF Word32
<1>5. \A k \in 0..2 : ByteOf(ShiftL(x, 24, 32), k) = {}
  BY <1>1, <1>3 DEF ByteOf
<1>6. ByteOf(ShiftL(x, 24, 32), 3) = x
  <2>1. \A c \in x : (c + 24) \div 8 = 3 /\ (c + 24) - 8 * 3 = c
    BY <1>1
  <2> QED
    BY <1>3, <2>1 DEF ByteOf
<1> QED
  BY <1>2, <1>4, <1>5, <1>6

LEMMA RconIs ==
  ASSUME NEW n \in 0..9
  PROVE  /\ round_const[n + 1] \in Word32 /\ rcon[n] \in Word32
         /\ SwappedWord(round_const[n + 1]) = rcon[n]
<1>1. round_const[n + 1] \in Byte /\ rcon[n] = ShiftL(round_const[n + 1], 24, 32)
  BY RoundConstByte DEF rcon
<1>2. \A k \in 0..3 : ByteOf(SwappedWord(round_const[n + 1]), k) = ByteOf(rcon[n], k)
  <2> TAKE k \in 0..3
  <2>1. ByteOf(SwappedWord(round_const[n + 1]), k) = ByteOf(round_const[n + 1], 3 - k)
    BY <1>1, LowByte, SwappedBytesAre
  <2>2. CASE k = 3
    BY <1>1, <2>1, <2>2, LowByte
  <2>3. CASE k # 3
    <3>1. 3 - k \in 1..3 /\ k \in 0..2
      BY <2>3
    <3> QED
      BY <1>1, <2>1, <3>1, LowByte
  <2> QED
    BY <2>2, <2>3
<1> QED
  BY <1>1, <1>2, LowByte, SwappedBytesAre, WordOfBytes

(* What the first word of an iteration takes in, in the reference and, its *)
(* bytes swapped, in OpenSSL.                                              *)
TakenIn(u, n) == Xor(aes_sub_word(RotateR(u, 8, 32)), round_const[n])

LEMMA RotatedSwapped ==
  ASSUME NEW u \in Word32, NEW n \in 0..9
  PROVE  /\ TakenIn(u, n + 1) \in Word32
         /\ SwappedWord(TakenIn(u, n + 1)) = Xor(Rotated(SwappedWord(u)), rcon[n])
<1> DEFINE t == RotateR(u, 8, 32)
<1>1. t \in Word32 /\ \A k \in 0..3 : ByteOf(t, k) = ByteOf(u, (k + 1) % 4)
  <2>1. t = RotateR(u, 8 * 1, 32)
    OBVIOUS
  <2> QED
    BY <2>1, RotatedBytes
<1> HIDE DEF t
<1>2. aes_sub_word(t) \in Word32 /\ \A k \in 0..3 : ByteOf(aes_sub_word(t), k) = e_sbox[ByteOf(t, k)]
  BY <1>1, SubWordIs
<1>3. SwappedWord(aes_sub_word(t)) = Rotated(SwappedWord(u))
  <2>1. ASSUME NEW k \in 0..3
        PROVE  ByteOf(SwappedWord(aes_sub_word(t)), k) = ByteOf(Rotated(SwappedWord(u)), k)
    <3>1. 3 - k \in 0..3 /\ (k + 3) % 4 \in 0..3 /\ ((3 - k) + 1) % 4 = 3 - ((k + 3) % 4)
      OBVIOUS
    <3>2. ByteOf(SwappedWord(aes_sub_word(t)), k) = e_sbox[ByteOf(u, ((3 - k) + 1) % 4)]
      BY <1>1, <1>2, <3>1, SwappedBytesAre
    <3>3. ByteOf(Rotated(SwappedWord(u)), k) = e_sbox[ByteOf(u, 3 - ((k + 3) % 4))]
      BY <3>1, SwappedBytesAre, RotatedIs
    <3> QED
      BY <3>1, <3>2, <3>3
  <2> QED
    BY <1>2, <2>1, SwappedBytesAre, RotatedIs, WordOfBytes
<1> QED
  <2> DEFINE s == aes_sub_word(t)
             c == round_const[n + 1]
  <2>1. s \in Word32 /\ c \in Word32 /\ SwappedWord(c) = rcon[n]
    BY <1>2, RconIs
  <2>2. SwappedWord(s) = Rotated(SwappedWord(u))
    BY <1>3
  <2> HIDE DEF s, c
  <2>3. Xor(s, c) \in Word32 /\ SwappedWord(Xor(s, c)) = Xor(Rotated(SwappedWord(u)), rcon[n])
    <3>1. SwappedWord(Xor(s, c)) = Xor(SwappedWord(s), SwappedWord(c))
      BY <2>1, SwappedXor
    <3>2. Xor(s, c) \in Word32
      BY <2>1, XorBytes
    <3> QED
      BY <2>1, <2>2, <3>1, <3>2
  <2> QED
    BY <2>3 DEF s, c, t, TakenIn

LEMMA SubstitutedSwapped ==
  ASSUME NEW u \in Word32
  PROVE  aes_sub_word(u) \in Word32 /\ SwappedWord(aes_sub_word(u)) = Substituted(SwappedWord(u))
<1>1. \A k \in 0..3 : 3 - k \in 0..3
  OBVIOUS
<1>2. \A k \in 0..3 : ByteOf(SwappedWord(aes_sub_word(u)), k) = ByteOf(Substituted(SwappedWord(u)), k)
  BY <1>1, SubWordIs, SwappedBytesAre, SubstitutedIs
<1> QED
  BY <1>2, SubWordIs, SwappedBytesAre, SubstitutedIs, WordOfBytes

(* the key's own words                                                     *)
LEMMA LoadedSwapped ==
  ASSUME NEW key \in [0..31 -> Byte], NEW k \in 0..7
  PROVE  Loaded(key, k) \in Word32 /\ SwappedWord(Loaded(key, k)) = GETU32(key, 4 * k)
<1> DEFINE bytes == [j \in 0..3 |-> key[4 * k + j]]
<1>1. bytes \in [0..3 -> Byte]
  BY SMT
<1>2. Loaded(key, k) = WordFrom(bytes, LittleEndian) /\ GETU32(key, 4 * k) = WordFrom(bytes, BigEndian)
  BY DEF Loaded, GETU32
<1> HIDE DEF bytes
<1>3. \A j \in 0..3 : 3 - j \in 0..3
  OBVIOUS
<1> QED
  BY <1>1, <1>2, <1>3, Gathered, SwappedBytesAre, WordOfBytes

------------------------------------------------------------------------------
(* The words that Appended and Iteration write.                            *)

LEMMA LengthIs ==
  ASSUME NEW a, NEW m \in Nat, DOMAIN a = 0..(m - 1)
  PROVE  Length(a) = m
<1>1. Cardinality(0..(m - 1)) = m
  BY FS_Interval
<1> QED
  BY <1>1 DEF Length

(* the array a has m words                                                 *)
HasLength(a, m) == m \in Nat /\ DOMAIN a = 0..(m - 1)

(* b has count words after the m words of a                                *)
Continues(b, a, m, first, count) ==
  /\ DOMAIN b = 0..(m + count - 1)
  /\ \A j \in 0..(m - 1) : b[j] = a[j]
  /\ b[m] = Xor(a[m - Nk], first)
  /\ \A k \in 1..(count - 1) : b[m + k] = Xor(a[m + k - Nk], b[m + k - 1])

LEMMA AppendedIs ==
  ASSUME Nk \in Nat, NEW a, NEW m, HasLength(a, m), NEW first, NEW count \in {2, 4}
  PROVE  Continues(Appended(a, first, count), a, m, first, count)
<1> DEFINE n == Length(a)
           word == CHOOSE word : word = [k \in 0..(count - 1) |->
                     Xor(a[n + k - Nk], IF k = 0 THEN first ELSE word[k - 1])]
           b == [j \in 0..(n + count - 1) |-> IF j < n THEN a[j] ELSE word[j - n]]
<1>1. Appended(a, first, count) = b
  BY DEF Appended
<1>2. word = [k \in 0..(count - 1) |-> Xor(a[n + k - Nk], IF k = 0 THEN first ELSE word[k - 1])]
  <2> DEFINE w0 == Xor(a[n + 0 - Nk], first)
             w1 == Xor(a[n + 1 - Nk], w0)
             w2 == Xor(a[n + 2 - Nk], w1)
             w3 == Xor(a[n + 3 - Nk], w2)
             f == [k \in 0..(count - 1) |-> IF k = 0 THEN w0 ELSE IF k = 1 THEN w1
                                            ELSE IF k = 2 THEN w2 ELSE w3]
             g == [k \in 0..(count - 1) |-> Xor(a[n + k - Nk], IF k = 0 THEN first ELSE f[k - 1])]
  <2>1. ASSUME NEW k \in 0..(count - 1)
        PROVE  f[k] = g[k]
    <3>1. k = 0 \/ k = 1 \/ k = 2 \/ k = 3
      OBVIOUS
    <3>2. g[k] = Xor(a[n + k - Nk], IF k = 0 THEN first ELSE f[k - 1])
      OBVIOUS
    <3>3. CASE k = 0
      BY <3>2, <3>3
    <3>4. CASE k = 1
      <4>1. f[0] = w0 /\ f[1] = w1
        BY <3>4
      <4> QED
        BY <3>2, <3>4, <4>1
    <3>5. CASE k = 2
      <4>1. f[1] = w1 /\ f[2] = w2
        BY <3>5
      <4> QED
        BY <3>2, <3>5, <4>1
    <3>6. CASE k = 3
      <4>1. f[2] = w2 /\ f[3] = w3
        BY <3>6
      <4> QED
        BY <3>2, <3>6, <4>1
    <3> QED
      BY <3>1, <3>3, <3>4, <3>5, <3>6
  <2>2. f = g
    BY <2>1
  <2> QED
    BY <2>2
<1>9. n = m
  BY LengthIs DEF HasLength
<1> HIDE DEF word, n
<1>10. n \in Nat
  BY <1>9 DEF HasLength
<1>3. DOMAIN b = 0..(n + count - 1) /\ \A j \in 0..(n - 1) : b[j] = a[j]
  BY <1>10
<1>4. \A k \in 0..(count - 1) : b[n + k] = word[k]
  BY <1>10
<1> HIDE DEF b
<1>5. b[n] = Xor(a[n - Nk], first)
  <2>1. word[0] = Xor(a[n + 0 - Nk], first)
    BY <1>2
  <2>2. b[n + 0] = word[0]
    BY <1>4
  <2>3. n + 0 = n /\ n + 0 - Nk = n - Nk
    BY <1>10
  <2> QED
    BY <2>1, <2>2, <2>3
<1>6. ASSUME NEW k \in 1..(count - 1)
      PROVE  b[n + k] = Xor(a[n + k - Nk], b[n + k - 1])
  <2>1. k \in 0..(count - 1) /\ k - 1 \in 0..(count - 1) /\ k # 0 /\ n + (k - 1) = n + k - 1
    BY <1>10
  <2>2. word[k] = Xor(a[n + k - Nk], word[k - 1])
    BY <1>2, <2>1
  <2>3. b[n + k] = word[k] /\ b[n + (k - 1)] = word[k - 1]
    BY <1>4, <2>1
  <2> QED
    BY <2>1, <2>2, <2>3
<1> QED
  BY <1>1, <1>3, <1>5, <1>6, <1>9 DEF Continues

(* the first m words of a are those of ref, bytes swapped                  *)
Agrees(a, m) == DOMAIN a = 0..(m - 1) /\ \A k \in 0..(m - 1) : a[k] = SwappedWord(ref[k])

(* the three sizes of keys                                                 *)
LEMMA SizesAre ==
  ASSUME bits \in {128, 192, 256}
  PROVE  \/ bits = 128 /\ Nk = 4 /\ rounds = 10 /\ Words = 44 /\ Iterations = 10
         \/ bits = 192 /\ Nk = 6 /\ rounds = 12 /\ Words = 52 /\ Iterations = 8
         \/ bits = 256 /\ Nk = 8 /\ rounds = 14 /\ Words = 60 /\ Iterations = 7
BY DEF Nk, rounds, Words, Iterations

(* what a pass over the words of the reference appends                     *)
Plain(i) == ref[i] = Xor(ref[i - Nk], ref[i - 1])

LEMMA AppendAgrees ==
  ASSUME bits \in {128, 192, 256}, ref \in [0..(Words - 1) -> Word32],
         NEW a, NEW m \in Nk..Words, NEW count \in {2, 4}, m + count <= Words,
         Agrees(a, m), NEW x \in Word32, ref[m] = Xor(ref[m - Nk], x),
         \A k \in 1..(count - 1) : Plain(m + k)
  PROVE  Agrees(Appended(a, SwappedWord(x), count), m + count)
<1> DEFINE b == Appended(a, SwappedWord(x), count)
<1>1. Nk \in {4, 6, 8} /\ Words \in Nat /\ m \in Nat
  BY SizesAre
<1>2. /\ DOMAIN b = 0..(m + count - 1)
      /\ \A j \in 0..(m - 1) : b[j] = a[j]
      /\ b[m] = Xor(a[m - Nk], SwappedWord(x))
      /\ \A k \in 1..(count - 1) : b[m + k] = Xor(a[m + k - Nk], b[m + k - 1])
  <2>1. HasLength(a, m)
    BY <1>1 DEF Agrees, HasLength
  <2>2. Continues(b, a, m, SwappedWord(x), count)
    BY <1>1, <2>1, AppendedIs
  <2> HIDE DEF b
  <2> QED
    BY <2>2 DEF Continues
<1> HIDE DEF b
<1>3. \A j \in 0..(m - 1) : b[j] = SwappedWord(ref[j])
  BY <1>2 DEF Agrees
<1>4. b[m] = SwappedWord(ref[m])
  <2>1. PICK i : i = m - Nk
    OBVIOUS
  <2>2. i \in 0..(m - 1) /\ i \in 0..(Words - 1)
    BY <1>1, <2>1
  <2>3. a[i] = SwappedWord(ref[i]) /\ ref[i] \in Word32
    BY <2>2 DEF Agrees
  <2> QED
    BY <1>2, <2>1, <2>3, SwappedXor
<1>5. ASSUME NEW k \in 1..(count - 1), b[m + k - 1] = SwappedWord(ref[m + k - 1])
      PROVE  b[m + k] = SwappedWord(ref[m + k])
  <2>1. PICK i : i = m + k - Nk
    OBVIOUS
  <2>2. PICK l : l = m + k - 1
    OBVIOUS
  <2>3. i \in 0..(m - 1) /\ i \in 0..(Words - 1) /\ l \in 0..(Words - 1)
    BY <1>1, <2>1, <2>2
  <2>4. a[i] = SwappedWord(ref[i]) /\ ref[i] \in Word32 /\ ref[l] \in Word32
    BY <2>3 DEF Agrees
  <2>5. ref[m + k] = Xor(ref[i], ref[l])
    <3>1. PICK p : p = m + k
      OBVIOUS
    <3>2. Plain(p)
      BY <3>1
    <3>3. p - Nk = i /\ p - 1 = l
      BY <1>1, <2>1, <2>2, <3>1
    <3> QED
      BY <3>1, <3>2, <3>3 DEF Plain
  <2>6. b[m + k] = Xor(a[i], b[l])
    BY <1>2, <2>1, <2>2
  <2> QED
    BY <1>5, <2>2, <2>4, <2>5, <2>6, SwappedXor
<1>6. \A k \in 0..(count - 1) : b[m + k] = SwappedWord(ref[m + k])
  <2>1. m + 0 = m /\ m + 1 - 1 = m /\ m + 2 - 1 = m + 1 /\ m + 3 - 1 = m + 2
    BY <1>1
  <2>2. b[m + 0] = SwappedWord(ref[m + 0])
    BY <1>4, <2>1
  <2>3. 1 \in 1..(count - 1)
    OBVIOUS
  <2>4. b[m + 1] = SwappedWord(ref[m + 1])
    BY <1>5, <1>4, <2>1, <2>3
  <2>5. count = 4 => 2 \in 1..(count - 1) /\ 3 \in 1..(count - 1)
    OBVIOUS
  <2>6. count = 4 => b[m + 2] = SwappedWord(ref[m + 2])
    BY <1>5, <2>1, <2>4, <2>5
  <2>7. count = 4 => b[m + 3] = SwappedWord(ref[m + 3])
    BY <1>5, <2>1, <2>5, <2>6
  <2>8. \A k \in 0..(count - 1) : k = 0 \/ k = 1 \/ (count = 4 /\ (k = 2 \/ k = 3))
    OBVIOUS
  <2> QED
    BY <2>2, <2>4, <2>6, <2>7, <2>8
<1>7. ASSUME NEW j \in 0..(m + count - 1)
      PROVE  b[j] = SwappedWord(ref[j])
  <2>1. CASE j < m
    BY <1>1, <1>3, <2>1
  <2>2. CASE ~(j < m)
    <3>1. PICK k : k = j - m
      OBVIOUS
    <3>2. k \in 0..(count - 1) /\ j = m + k
      BY <1>1, <2>2, <3>1
    <3> QED
      BY <1>6, <3>2
  <2> QED
    BY <2>1, <2>2
<1> QED
  BY <1>2, <1>7 DEF Agrees, b

(* the schedule of the reference when it is complete                       *)
RefWord(k) == ref[k] = IF k < Nk THEN Loaded(userKey, k) ELSE NextWord(ref, k, Nk)
RefDone == ref \in [0..(Words - 1) -> Word32] /\ \A k \in 0..(Words - 1) : RefWord(k)

LEMMA Recurrence ==
  ASSUME bits \in {128, 192, 256}, NEW k \in Nat, RefWord(k), k >= Nk
  PROVE  /\ k % Nk = 0 => ref[k] = Xor(ref[k - Nk], TakenIn(ref[k - 1], k \div Nk))
         /\ Nk = 8 /\ k % Nk = 4 => ref[k] = Xor(ref[k - Nk], aes_sub_word(ref[k - 1]))
         /\ k % Nk # 0 /\ ~(Nk = 8 /\ k % Nk = 4) => Plain(k)
<1>1. Nk \in {4, 6, 8}
  BY SizesAre
<1>2. ref[k] = NextWord(ref, k, Nk)
  BY <1>1 DEF RefWord
<1>3. k % Nk = 0 => NextWord(ref, k, Nk) = Xor(ref[k - Nk], TakenIn(ref[k - 1], k \div Nk))
  BY DEF NextWord, TakenIn
<1>4. Nk = 8 /\ k % Nk = 4 => NextWord(ref, k, Nk) = Xor(ref[k - Nk], aes_sub_word(ref[k - 1]))
  BY DEF NextWord
<1>5. k % Nk # 0 /\ ~(Nk = 8 /\ k % Nk = 4) => NextWord(ref, k, Nk) = Xor(ref[k - Nk], ref[k - 1])
  BY <1>1 DEF NextWord
<1> QED
  BY <1>2, <1>3, <1>4, <1>5 DEF Plain

(* the words an iteration starts from and those it leaves                  *)
Starts(n) == Nk * (n + 1)
Ends(n) == IF n + 1 = Iterations THEN Words ELSE Nk * (n + 2)

LEMMA Counting ==
  ASSUME bits \in {128, 192, 256}, NEW n \in 0..(Iterations - 1)
  PROVE  /\ n \in 0..9 /\ Starts(n) \in Nk..Words /\ Starts(n) + 4 <= Words /\ Ends(n) \in Nat
         /\ Starts(n) % Nk = 0 /\ Starts(n) \div Nk = n + 1
         /\ \A k \in 1..3 : (Starts(n) + k) % Nk = k
         /\ (bits = 128 \/ n + 1 = Iterations) => Ends(n) = Starts(n) + 4
         /\ (bits = 192 /\ n + 1 # Iterations) =>
               /\ Ends(n) = Starts(n) + 4 + 2 /\ Ends(n) <= Words
               /\ (Starts(n) + 4) % Nk = 4 /\ (Starts(n) + 5) % Nk = 5
         /\ (bits = 256 /\ n + 1 # Iterations) =>
               /\ Ends(n) = Starts(n) + 4 + 4 /\ Ends(n) <= Words
               /\ \A k \in 4..7 : (Starts(n) + k) % Nk = k
<1>1. CASE bits = 128
  <2>1. Nk = 4 /\ Words = 44 /\ Iterations = 10
    BY <1>1, SizesAre
  <2>2. Starts(n) = 4 * (n + 1) /\ Ends(n) = IF n = 9 THEN 44 ELSE 4 * (n + 2)
    BY <2>1 DEF Starts, Ends
  <2>3. (4 * (n + 1)) % 4 = 0 /\ (4 * (n + 1)) \div 4 = n + 1
        /\ \A k \in 1..3 : (4 * (n + 1) + k) % 4 = k
    BY <2>1, SMT
  <2> QED
    BY <1>1, <2>1, <2>2, <2>3
<1>2. CASE bits = 192
  <2>1. Nk = 6 /\ Words = 52 /\ Iterations = 8
    BY <1>2, SizesAre
  <2>2. Starts(n) = 6 * (n + 1) /\ Ends(n) = IF n = 7 THEN 52 ELSE 6 * (n + 2)
    BY <2>1 DEF Starts, Ends
  <2>3. (6 * (n + 1)) % 6 = 0 /\ (6 * (n + 1)) \div 6 = n + 1
        /\ \A k \in 1..5 : (6 * (n + 1) + k) % 6 = k
    BY <2>1, SMT
  <2> QED
    BY <1>2, <2>1, <2>2, <2>3
<1>3. CASE bits = 256
  <2>1. Nk = 8 /\ Words = 60 /\ Iterations = 7
    BY <1>3, SizesAre
  <2>2. Starts(n) = 8 * (n + 1) /\ Ends(n) = IF n = 6 THEN 60 ELSE 8 * (n + 2)
    BY <2>1 DEF Starts, Ends
  <2>3. (8 * (n + 1)) % 8 = 0 /\ (8 * (n + 1)) \div 8 = n + 1
        /\ \A k \in 1..7 : (8 * (n + 1) + k) % 8 = k
    BY <2>1, SMT
  <2> QED
    BY <1>3, <2>1, <2>2, <2>3
<1> QED
  BY <1>1, <1>2, <1>3

LEMMA IterationAgrees ==
  ASSUME bits \in {128, 192, 256}, RefDone, NEW n \in 0..(Iterations - 1),
         NEW a, Agrees(a, Starts(n))
  PROVE  Agrees(Iteration(a, n), Ends(n))
<1>1. PICK m : m = Starts(n)
  OBVIOUS
<1>2. Nk \in {4, 6, 8} /\ Words \in Nat /\ (Nk = 8 => bits = 256) /\ (bits = 256 => Nk = 8)
  BY SizesAre
<1>3. /\ n \in 0..9 /\ m \in Nk..Words /\ m + 4 <= Words /\ m \in Nat
      /\ m % Nk = 0 /\ m \div Nk = n + 1 /\ \A k \in 1..3 : (m + k) % Nk = k
  BY <1>1, <1>2, Counting
<1>4. ref \in [0..(Words - 1) -> Word32] /\ \A k \in 0..(Words - 1) : RefWord(k)
  BY DEF RefDone
<1> DEFINE u == ref[m - 1]
           x == TakenIn(u, n + 1)
           four == Appended(a, Xor(Rotated(a[Length(a) - 1]), rcon[n]), 4)
<1>5. u \in Word32 /\ a[Length(a) - 1] = SwappedWord(u)
  <2>1. HasLength(a, m)
    BY <1>1, <1>3 DEF Agrees, HasLength
  <2>2. Length(a) = m
    BY <2>1, LengthIs DEF HasLength
  <2>3. m - 1 \in 0..(m - 1) /\ m - 1 \in 0..(Words - 1)
    BY <1>2, <1>3
  <2> QED
    BY <1>1, <1>4, <2>2, <2>3 DEF Agrees
<1>6. x \in Word32 /\ SwappedWord(x) = Xor(Rotated(a[Length(a) - 1]), rcon[n])
  <2> HIDE DEF u
  <2>1. n \in 0..9 /\ u \in Word32
    BY <1>3, <1>5
  <2>2. x \in Word32 /\ SwappedWord(x) = Xor(Rotated(SwappedWord(u)), rcon[n])
    BY ONLY <2>1, RotatedSwapped
  <2> QED
    BY <1>5, <2>2
<1>7. ref[m] = Xor(ref[m - Nk], x)
  <2>1. RefWord(m)
    BY <1>2, <1>3, <1>4
  <2> QED
    BY <1>2, <1>3, <2>1, Recurrence
<1>8. ASSUME NEW j \in 0..(Words - 1), j >= Nk, j % Nk # 0, ~(Nk = 8 /\ j % Nk = 4)
      PROVE  Plain(j)
  <2>1. RefWord(j) /\ j \in Nat
    BY <1>4
  <2> QED
    BY <1>8, <2>1, Recurrence
<1>9. \A k \in 1..(4 - 1) : Plain(m + k)
  <2> TAKE k \in 1..(4 - 1)
  <2>1. PICK j : j = m + k
    OBVIOUS
  <2>2. j \in 0..(Words - 1) /\ j >= Nk /\ j % Nk = k /\ k \in 1..3
    BY <1>2, <1>3, <2>1
  <2> QED
    BY <1>8, <2>1, <2>2
<1> HIDE DEF x, u
<1>10. Agrees(four, m + 4)
  <2>1. Agrees(Appended(a, SwappedWord(x), 4), m + 4)
    BY <1>1, <1>3, <1>4, <1>6, <1>7, <1>9, AppendAgrees
  <2> QED
    BY <1>6, <2>1
<1>11. CASE bits = 128 \/ n + 1 = Iterations
  <2>1. Iteration(a, n) = four
    BY <1>11 DEF Iteration
  <2>2. Ends(n) = m + 4
    BY <1>1, <1>11, Counting
  <2> QED
    BY <1>10, <2>1, <2>2
<1> DEFINE last == four[Length(four) - 1]
<1>12. ref[m + 3] \in Word32 /\ last = SwappedWord(ref[m + 3])
  <2> HIDE DEF four
  <2>1. HasLength(four, m + 4)
    BY <1>3, <1>10 DEF Agrees, HasLength
  <2>2. Length(four) = m + 4
    BY <2>1, LengthIs DEF HasLength
  <2>3. m + 3 \in 0..((m + 4) - 1) /\ m + 3 \in 0..(Words - 1) /\ (m + 4) - 1 = m + 3
    BY <1>2, <1>3
  <2> QED
    BY <1>4, <1>10, <2>2, <2>3 DEF Agrees
<1>13. CASE bits = 192 /\ n + 1 # Iterations
  <2>1. Iteration(a, n) = Appended(four, last, 2)
    BY <1>13 DEF Iteration
  <2> HIDE DEF four, last
  <2>2. /\ Ends(n) = m + 4 + 2 /\ Ends(n) <= Words
        /\ (m + 4) % Nk = 4 /\ (m + 5) % Nk = 5
    BY <1>1, <1>13, Counting
  <2>3. PICK q : q = m + 4
    OBVIOUS
  <2>4. q \in Nk..Words /\ q + 2 <= Words /\ q \in 0..(Words - 1) /\ q + 1 \in 0..(Words - 1)
        /\ q + 1 = m + 5 /\ q - 1 = m + 3 /\ q >= Nk /\ q + 1 >= Nk
    BY <1>2, <1>3, <2>2, <2>3
  <2>5. Plain(q) /\ Plain(q + 1)
    BY <1>2, <1>8, <1>13, <2>2, <2>3, <2>4
  <2>6. ref[q] = Xor(ref[q - Nk], ref[m + 3])
    BY <2>4, <2>5 DEF Plain
  <2>7. \A k \in 1..(2 - 1) : Plain(q + k)
    BY <2>5
  <2>8. Agrees(four, q)
    BY <1>10, <2>3
  <2>9. Agrees(Appended(four, SwappedWord(ref[m + 3]), 2), q + 2)
    BY <1>4, <1>12, <2>4, <2>6, <2>7, <2>8, AppendAgrees
  <2> QED
    BY <1>12, <2>1, <2>2, <2>3, <2>9
<1>14. CASE bits = 256 /\ n + 1 # Iterations
  <2>1. Iteration(a, n) = Appended(four, Substituted(last), 4)
    BY <1>14 DEF Iteration
  <2> HIDE DEF four, last
  <2>2. /\ Ends(n) = m + 4 + 4 /\ Ends(n) <= Words
        /\ \A k \in 4..7 : (m + k) % Nk = k
    BY <1>1, <1>14, Counting
  <2>3. PICK q : q = m + 4
    OBVIOUS
  <2>4. q \in Nk..Words /\ q + 4 <= Words /\ q \in 0..(Words - 1)
        /\ q - 1 = m + 3 /\ q >= Nk /\ q % Nk = 4 /\ q \in Nat
    BY <1>2, <1>3, <2>2, <2>3
  <2>5. PICK y : y = aes_sub_word(ref[m + 3])
    OBVIOUS
  <2>6. y \in Word32 /\ Substituted(last) = SwappedWord(y)
    BY <1>12, <2>5, SubstitutedSwapped
  <2>7. ref[q] = Xor(ref[q - Nk], y)
    <3>1. RefWord(q)
      BY <1>4, <2>4
    <3> QED
      BY <1>2, <1>14, <2>4, <2>5, <3>1, Recurrence
  <2>8. \A k \in 1..(4 - 1) : Plain(q + k)
    <3> TAKE k \in 1..(4 - 1)
    <3>1. PICK j : j = q + k
      OBVIOUS
    <3>2. PICK l : l = k + 4
      OBVIOUS
    <3>3. j \in 0..(Words - 1) /\ j >= Nk /\ l \in 5..7 /\ j = m + l
      BY <1>2, <1>3, <2>2, <2>3, <3>1, <3>2
    <3>4. j % Nk = l
      BY <2>2, <3>3
    <3> QED
      BY <1>8, <3>1, <3>3, <3>4
  <2>9. Agrees(four, q)
    BY <1>10, <2>3
  <2>10. Agrees(Appended(four, SwappedWord(y), 4), q + 4)
    BY <1>4, <2>4, <2>6, <2>7, <2>8, <2>9, AppendAgrees
  <2> QED
    BY <2>1, <2>2, <2>3, <2>6, <2>10
<1> QED
  BY <1>11, <1>13, <1>14

------------------------------------------------------------------------------
(* The invariant of the key schedules: the array of the reference follows  *)
(* its recurrence as far as it is written, and OpenSSL's is its image      *)
(* between any two iterations, complete when the expansion returns.        *)
Sized == userKey \in [0..31 -> Byte] /\ bits \in {128, 192, 256}

RefInv ==
  /\ Length(ref) \in Nk..Words /\ (phase # "reference" => Length(ref) = Words)
  /\ ref \in [0..(Length(ref) - 1) -> Word32]
  /\ \A k \in 0..(Length(ref) - 1) : RefWord(k)

RkInv ==
  /\ phase \in {"reference", "expand", "expanded", "invert", "transform", "ready"}
  /\ phase = "reference" => Agrees(rk, 0)
  /\ phase = "expand" => step \in 0..(Iterations - 1) /\ Agrees(rk, Starts(step))
  /\ phase \notin {"reference", "expand"} => Agrees(rk, Words)

KeyInv == Sized /\ RefInv /\ RkInv

LEMMA KeyInvInit == KeyInit => KeyInv
<1> SUFFICES ASSUME KeyInit PROVE KeyInv
  OBVIOUS
<1>1. Sized /\ phase = "reference" /\ step = 0 /\ rk = <<>>
      /\ ref = [k \in 0..(Nk - 1) |-> Loaded(userKey, k)]
  BY KeyAssumption DEF KeyInit, Sized, Nk
<1>2. Nk \in {4, 6, 8} /\ Words \in Nat /\ Nk <= Words
  <2>1. bits \in {128, 192, 256}
    BY <1>1 DEF Sized
  <2> QED
    BY <2>1, SizesAre
<1>3. Length(ref) = Nk
  <2>1. HasLength(ref, Nk)
    BY <1>1, <1>2 DEF HasLength
  <2> QED
    BY <2>1, LengthIs DEF HasLength
<1>4. RefInv
  <2>1. \A k \in 0..(Nk - 1) : k \in 0..7 /\ k < Nk /\ ref[k] = Loaded(userKey, k) /\ Loaded(userKey, k) \in Word32
    <3> TAKE k \in 0..(Nk - 1)
    <3>1. k \in 0..7 /\ k < Nk
      BY <1>2
    <3>2. userKey \in [0..31 -> Byte]
      BY <1>1 DEF Sized
    <3>3. Loaded(userKey, k) \in Word32
      BY <3>1, <3>2, LoadedSwapped
    <3> QED
      BY <1>1, <3>1, <3>3
  <2> QED
    BY <1>1, <1>2, <1>3, <2>1 DEF RefInv, RefWord
<1>5. Agrees(rk, 0)
  BY <1>1 DEF Agrees
<1> QED
  BY <1>1, <1>4, <1>5 DEF KeyInv, RkInv

(* NextWord gives words.                                                   *)
LEMMA NextIsWord ==
  ASSUME bits \in {128, 192, 256}, NEW k \in Nat, k >= Nk, k < Words,
         NEW a, \A j \in 0..(k - 1) : a[j] \in Word32
  PROVE  NextWord(a, k, Nk) \in Word32
<1>1. /\ Nk \in {4, 6, 8} /\ k \in Nk..(Words - 1)
      /\ k % Nk = 0 => k \div Nk \in 1..10
  <2>1. CASE bits = 128
    BY <2>1, SizesAre
  <2>2. CASE bits = 192
    BY <2>2, SizesAre
  <2>3. CASE bits = 256
    BY <2>3, SizesAre
  <2> QED
    BY <2>1, <2>2, <2>3
<1>2. k - 1 \in 0..(k - 1) /\ k - Nk \in 0..(k - 1)
  BY <1>1
<1>3. a[k - 1] \in Word32 /\ a[k - Nk] \in Word32
  BY <1>2
<1>4. PICK temp : temp = a[k - 1]
  OBVIOUS
<1>5. /\ temp \in Word32 /\ aes_sub_word(temp) \in Word32
      /\ aes_sub_word(RotateR(temp, 8, 32)) \in Word32
  <2>1. RotateR(temp, 8 * 1, 32) \in Word32
    BY <1>3, <1>4, RotatedBytes
  <2> QED
    BY <1>3, <1>4, <2>1, SubWordIs
<1>6. CASE k % Nk = 0
  <2>1. NextWord(a, k, Nk) = Xor(a[k - Nk], Xor(aes_sub_word(RotateR(temp, 8, 32)), round_const[k \div Nk]))
    BY <1>4, <1>6 DEF NextWord
  <2>2. PICK n : n = k \div Nk
    OBVIOUS
  <2>3. n - 1 \in 0..9 /\ (n - 1) + 1 = n
    BY <1>1, <1>6, <2>2
  <2>4. round_const[n] \in Word32
    BY <2>3, RconIs
  <2> QED
    BY <1>3, <1>5, <2>1, <2>2, <2>4, XorBytes
<1>7. CASE k % Nk # 0 /\ Nk > 6 /\ k % Nk = 4
  <2>1. NextWord(a, k, Nk) = Xor(a[k - Nk], aes_sub_word(temp))
    BY <1>4, <1>7 DEF NextWord
  <2> QED
    BY <1>3, <1>5, <2>1, XorBytes
<1>8. CASE k % Nk # 0 /\ ~(Nk > 6 /\ k % Nk = 4)
  <2>1. NextWord(a, k, Nk) = Xor(a[k - Nk], temp)
    BY <1>4, <1>8 DEF NextWord
  <2> QED
    BY <1>3, <1>5, <2>1, XorBytes
<1> QED
  BY <1>6, <1>7, <1>8

LEMMA KeyInvStep == KeyInv /\ [KeyNext]_keyVars => KeyInv'
<1> SUFFICES ASSUME KeyInv, [KeyNext]_keyVars PROVE KeyInv'
  OBVIOUS
<1>1. /\ bits \in {128, 192, 256} /\ Nk \in {4, 6, 8} /\ Words \in Nat /\ Nk <= Words
      /\ Iterations \in {7, 8, 10}
  BY SizesAre DEF KeyInv, Sized
<1>2. CASE ReferenceWord
  <2>1. /\ phase = "reference" /\ phase' = phase /\ Length(ref) < Words
        /\ ref' = [k \in 0..Length(ref) |->
                    IF k = Length(ref) THEN NextWord(ref, k, Nk) ELSE ref[k]]
        /\ UNCHANGED <<userKey, bits, rk, step>>
    BY <1>2 DEF ReferenceWord
  <2>2. PICK m : m = Length(ref)
    OBVIOUS
  <2>3. /\ m \in Nk..Words /\ m < Words /\ m \in Nat /\ ref \in [0..(m - 1) -> Word32]
        /\ \A k \in 0..(m - 1) : RefWord(k)
    BY <1>1, <2>1, <2>2 DEF KeyInv, RefInv
  <2>4. ref' = [k \in 0..m |-> IF k = m THEN NextWord(ref, k, Nk) ELSE ref[k]]
    BY <2>1, <2>2
  <2>5. NextWord(ref, m, Nk) \in Word32
    BY <1>1, <2>3, NextIsWord
  <2>6. ref' \in [0..m -> Word32] /\ ref'[m] = NextWord(ref, m, Nk)
        /\ \A k \in 0..(m - 1) : ref'[k] = ref[k]
    BY <2>3, <2>4, <2>5
  <2>7. Length(ref)' = m + 1
    <3>1. HasLength(ref', m + 1)
      BY <2>3, <2>4 DEF HasLength
    <3>2. Length(ref') = m + 1
      BY <3>1, LengthIs DEF HasLength
    <3> QED
      BY <3>2
  <2>8. Nk' = Nk /\ Words' = Words /\ Iterations' = Iterations
    BY <2>1 DEF Nk, Words, rounds, Iterations
  <2>9. ASSUME NEW k \in Nk..m
        PROVE  NextWord(ref', k, Nk) = NextWord(ref, k, Nk)
    <3>1. k - 1 \in 0..(m - 1) /\ k - Nk \in 0..(m - 1)
      BY <1>1, <2>3
    <3>2. ref'[k - 1] = ref[k - 1] /\ ref'[k - Nk] = ref[k - Nk]
      BY <2>6, <3>1
    <3> QED
      BY <3>2 DEF NextWord
  <2>10. ASSUME NEW k \in 0..m
         PROVE  ref'[k] = IF k < Nk THEN Loaded(userKey, k) ELSE NextWord(ref', k, Nk)
    <3>1. CASE k = m
      BY <1>1, <2>3, <2>6, <2>9, <3>1
    <3>2. CASE k # m
      <4>1. k \in 0..(m - 1)
        BY <2>3, <3>2
      <4>2. ref[k] = IF k < Nk THEN Loaded(userKey, k) ELSE NextWord(ref, k, Nk)
        BY <2>3, <4>1 DEF RefWord
      <4>3. ~(k < Nk) => k \in Nk..m
        BY <1>1, <2>3
      <4> QED
        BY <2>6, <2>9, <4>1, <4>2, <4>3
    <3> QED
      BY <3>1, <3>2
  <2>11. RefInv'
    <3>1. \A k \in 0..m : RefWord(k)'
      BY <2>1, <2>8, <2>10 DEF RefWord
    <3>2. Length(ref)' - 1 = m /\ Length(ref)' \in Nk'..Words'
      BY <1>1, <2>3, <2>7, <2>8
    <3> QED
      BY <2>1, <2>6, <3>1, <3>2 DEF RefInv
  <2>12. RkInv'
    <3>1. Agrees(rk, 0)
      BY <2>1 DEF KeyInv, RkInv
    <3> QED
      BY <2>1, <3>1 DEF RkInv, Agrees
  <2> QED
    BY <2>1, <2>11, <2>12 DEF KeyInv, Sized
<1>3. ASSUME UNCHANGED <<userKey, bits, ref>>, Length(ref) = Words
      PROVE  Sized' /\ RefInv' /\ Nk' = Nk /\ Words' = Words /\ Iterations' = Iterations
  <2>1. /\ Nk' = Nk /\ Words' = Words /\ Iterations' = Iterations
        /\ Length(ref') = Length(ref) /\ \A k : RefWord(k)' <=> RefWord(k)
    BY <1>3 DEF Nk, Words, rounds, Iterations, RefWord
  <2>2. RefInv /\ Sized
    BY DEF KeyInv
  <2> QED
    BY <1>1, <1>3, <2>1, <2>2 DEF RefInv, Sized
<1>4. phase # "reference" => Length(ref) = Words /\ RefDone
  BY DEF KeyInv, RefInv, RefDone
<1>5. CASE SetEncryptKey
  <2>1. /\ phase = "reference" /\ phase' = "expand" /\ Length(ref) = Words /\ step' = 0
        /\ rk' = [k \in 0..(Nk - 1) |-> GETU32(userKey, 4 * k)]
        /\ UNCHANGED <<userKey, bits, ref>>
    BY <1>5 DEF SetEncryptKey
  <2>2. Sized' /\ RefInv' /\ Nk' = Nk /\ Words' = Words /\ Iterations' = Iterations
    BY <1>3, <2>1
  <2>3. \A k \in 0..(Nk - 1) : rk'[k] = SwappedWord(ref[k])
    <3> TAKE k \in 0..(Nk - 1)
    <3>1. k \in 0..7 /\ k < Nk /\ k \in 0..(Words - 1) /\ userKey \in [0..31 -> Byte]
      BY <1>1 DEF KeyInv, Sized
    <3>2. SwappedWord(Loaded(userKey, k)) = GETU32(userKey, 4 * k)
      BY <3>1, LoadedSwapped
    <3>3. ref[k] = Loaded(userKey, k)
      BY <2>1, <3>1 DEF KeyInv, RefInv, RefWord
    <3> QED
      BY <2>1, <3>2, <3>3
  <2>4. Starts(0)' = Nk /\ 0 \in 0..(Iterations - 1)
    BY <1>1, <2>2 DEF Starts
  <2>5. Agrees(rk, Nk)'
    BY <2>1, <2>2, <2>3 DEF Agrees
  <2> QED
    BY <2>1, <2>2, <2>4, <2>5 DEF KeyInv, RkInv
<1>6. CASE Expand
  <2>1. /\ phase = "expand" /\ rk' = Iteration(rk, step) /\ step' = step + 1
        /\ phase' = (IF step + 1 = Iterations THEN "expanded" ELSE "expand")
        /\ UNCHANGED <<userKey, bits, ref>>
    BY <1>6 DEF Expand
  <2>2. Length(ref) = Words /\ RefDone /\ step \in 0..(Iterations - 1) /\ Agrees(rk, Starts(step))
    BY <1>4, <2>1 DEF KeyInv, RkInv
  <2>3. Sized' /\ RefInv' /\ Nk' = Nk /\ Words' = Words /\ Iterations' = Iterations
    BY <1>3, <2>1, <2>2
  <2>4. Agrees(rk', Ends(step))
    BY <1>1, <2>1, <2>2, IterationAgrees
  <2>5. CASE step + 1 = Iterations
    <3>1. phase' = "expanded" /\ Agrees(rk', Words)
      BY <2>1, <2>4, <2>5 DEF Ends
    <3>2. Agrees(rk, Words)'
      BY <2>1, <2>3, <3>1 DEF Agrees
    <3> QED
      BY <2>3, <3>1, <3>2 DEF KeyInv, RkInv
  <2>6. CASE step + 1 # Iterations
    <3>1. phase' = "expand" /\ Ends(step) = Nk * (step + 2) /\ step' \in 0..(Iterations - 1)
      BY <1>1, <2>1, <2>2, <2>6 DEF Ends
    <3>2. Starts(step)' = Nk * (step' + 1) /\ step' + 1 = step + 2
      BY <2>1, <2>2, <2>3 DEF Starts
    <3>3. Starts(step)' = Ends(step)
      BY <3>1, <3>2
    <3>4. Agrees(rk, Starts(step))'
      BY <2>1, <2>4, <3>3 DEF Agrees
    <3> QED
      BY <2>3, <3>1, <3>4 DEF KeyInv, RkInv
  <2> QED
    BY <2>5, <2>6
<1>7. CASE SetDecryptKey \/ Invert \/ InvertDone \/ Transform
  <2>1. /\ phase \in {"expanded", "invert", "transform"} /\ phase' \in {"invert", "transform", "ready"}
        /\ UNCHANGED <<userKey, bits, ref, rk>>
    BY <1>7 DEF SetDecryptKey, Invert, InvertDone, Transform
  <2>2. Length(ref) = Words /\ Agrees(rk, Words)
    BY <1>4, <2>1 DEF KeyInv, RkInv
  <2>3. Sized' /\ RefInv' /\ Words' = Words
    BY <1>3, <2>1, <2>2
  <2>4. Agrees(rk, Words)'
    BY <2>1, <2>2, <2>3 DEF Agrees
  <2> QED
    BY <2>1, <2>3, <2>4 DEF KeyInv, RkInv
<1>8. CASE UNCHANGED keyVars
  <2>1. /\ UNCHANGED <<userKey, bits, ref, rk, step, phase>> /\ Nk' = Nk /\ Words' = Words
        /\ Iterations' = Iterations
    BY <1>8 DEF keyVars, Nk, Words, rounds, Iterations
  <2>2. Sized' /\ RefInv'
    BY <2>1 DEF KeyInv, Sized, RefInv, RefWord
  <2>3. RkInv'
    BY <2>1 DEF KeyInv, RkInv, Agrees, Starts
  <2> QED
    BY <2>2, <2>3 DEF KeyInv
<1> QED
  BY <1>2, <1>5, <1>6, <1>7, <1>8 DEF KeyNext

LEMMA KeyInvAgrees == KeyInv => SchedulesAgree
<1> SUFFICES ASSUME KeyInv PROVE SchedulesAgree
  OBVIOUS
<1>1. /\ bits \in {128, 192, 256} /\ Words \in Nat /\ Length(ref) \in Nat
      /\ DOMAIN ref = 0..(Length(ref) - 1) /\ (phase # "reference" => Length(ref) = Words)
  <2>1. bits \in {128, 192, 256}
    BY DEF KeyInv, Sized
  <2>2. Words \in Nat /\ Nk \in {4, 6, 8}
    BY <2>1, SizesAre
  <2>3. RefInv
    BY DEF KeyInv
  <2> QED
    BY <2>1, <2>2, <2>3 DEF RefInv
<1>2. PICK m \in Nat : Agrees(rk, m) /\ m <= Length(ref)
                       /\ (phase \notin {"reference", "expand"} => m = Words)
  <2>1. CASE phase = "reference"
    <3>1. Agrees(rk, 0) /\ 0 <= Length(ref)
      BY <1>1, <2>1 DEF KeyInv, RkInv
    <3> QED
      BY <2>1, <3>1
  <2>2. CASE phase = "expand"
    <3>1. step \in 0..(Iterations - 1) /\ Agrees(rk, Starts(step))
      BY <2>2 DEF KeyInv, RkInv
    <3>2. Starts(step) \in Nk..Words
      BY <1>1, <3>1, Counting
    <3>3. Nk \in Nat
      BY <1>1, SizesAre
    <3>4. Starts(step) \in Nat /\ Starts(step) <= Length(ref)
      BY <1>1, <2>2, <3>2, <3>3
    <3> QED
      BY <2>2, <3>1, <3>4
  <2>3. CASE phase \notin {"reference", "expand"}
    <3>1. Agrees(rk, Words)
      BY <2>3 DEF KeyInv, RkInv
    <3> QED
      BY <1>1, <2>3, <3>1
  <2> QED
    BY <2>1, <2>2, <2>3
<1>3. DOMAIN rk = 0..(m - 1) /\ \A k \in 0..(m - 1) : rk[k] = SwappedWord(ref[k])
  BY <1>2 DEF Agrees
<1> QED
  BY <1>1, <1>2, <1>3 DEF SchedulesAgree

(* OpenSSL's key expansion, four to eight words at a time with tables,     *)
(* writes the words of aes_key_schedule, all of them and none beyond: for  *)
(* every key of every size.                                                *)
THEOREM SchedulesAlwaysAgree == MCSpec => []SchedulesAgree
<1>1. MCInit => KeyInv
  BY KeyInvInit DEF MCInit, Init
<1>2. MCNext => [KeyNext]_keyVars
  <2>1. Next => [KeyNext]_keyVars
    BY DEF Next, Schedule, Call, Encrypt, EncryptRound, EncryptLast, Decrypt, DecryptRound,
           DecryptLast, Finished, vars
  <2> QED
    BY <2>1 DEF MCNext, OnAes, OnSm4, Sm4Finished, vars
<1>3. KeyInv /\ [MCNext]_<<vars, sm4vars>> => KeyInv'
  BY <1>2, KeyInvStep DEF vars
<1> QED
  BY <1>1, <1>3, KeyInvAgrees, PTL DEF MCSpec

------------------------------------------------------------------------------
(* SM4.  A block in memory is bytes, the state of a cipher four words.     *)

Blocks == [0..15 -> SUBSET (0..7)]

LEMMA SameXor == \A x, y : SM4!Xor(x, y) = Xor(x, y)
BY DEF SM4!Xor, Xor

(* Adding twice changes nothing, and the order of three words is free.     *)
LEMMA XorTwice == \A x, y : SM4!Xor(SM4!Xor(x, y), y) = x
BY DEF SM4!Xor

LEMMA XorOrder ==
  \A x, y, z : SM4!Xor(SM4!Xor(x, y), z) = SM4!Xor(SM4!Xor(z, y), x)
BY DEF SM4!Xor

(* The bytes that are stored are those that were loaded.                   *)
LEMMA StoredIsLoaded ==
  ASSUME NEW b \in Blocks
  PROVE  SM4!Store(SM4!Load(b)) = b
<1>1. ASSUME NEW a \in 0..15
      PROVE  SM4!ByteOf(SM4!Load(b)[a \div 4], 3 - (a % 4)) = b[a]
  <2> DEFINE n == a \div 4
             k == a % 4
  <2>1. n \in 0..3 /\ k \in 0..3 /\ a = 4 * n + k
    BY SMT
  <2>2. \A c : c \in SM4!Load(b)[n] <=>
               \E l \in 0..3 : \E d \in b[4 * n + l] :
                  c = d + 8 * (3 - l) /\ d + 8 * (3 - l) < 32
    BY <2>1 DEF SM4!Load, SM4!ShiftL
  <2> HIDE DEF n, k
  <2>3. \A l \in 0..3 : b[4 * n + l] \subseteq 0..7
    BY <2>1 DEF Blocks
  <2>4. ASSUME NEW e \in SM4!ByteOf(SM4!Load(b)[n], 3 - k)
        PROVE  e \in b[a]
    <3>1. PICK c \in SM4!Load(b)[n] : c \div 8 = 3 - k /\ e = c - 8 * (3 - k)
      BY DEF SM4!ByteOf
    <3>2. PICK l \in 0..3 : \E d \in b[4 * n + l] : c = d + 8 * (3 - l)
      BY <2>2
    <3>3. PICK d \in b[4 * n + l] : c = d + 8 * (3 - l)
      BY <3>2
    <3>4. d \in 0..7
      BY <2>3
    <3>5. l = k /\ e = d
      BY <2>1, <3>1, <3>3, <3>4
    <3> QED
      BY <2>1, <3>3, <3>5
  <2>5. ASSUME NEW d \in b[a]
        PROVE  d \in SM4!ByteOf(SM4!Load(b)[n], 3 - k)
    <3>1. d \in 0..7 /\ d + 8 * (3 - k) < 32
      BY <2>1, <2>3
    <3>2. d + 8 * (3 - k) \in SM4!Load(b)[n]
      BY <3>1, <2>1, <2>2
    <3>3. (d + 8 * (3 - k)) \div 8 = 3 - k /\ (d + 8 * (3 - k)) - 8 * (3 - k) = d
      BY <3>1, <2>1
    <3> QED
      BY <3>2, <3>3 DEF SM4!ByteOf
  <2> QED
    BY <2>4, <2>5 DEF n, k
<1> QED
  BY <1>1 DEF SM4!Store, Blocks

State == [0..3 -> Word32]
Reversed(x) == [n \in 0..3 |-> x[3 - n]]

(* The words that are loaded are those that were stored.                   *)
LEMMA LoadedIsStored ==
  ASSUME NEW x \in State
  PROVE  SM4!Load(SM4!Store(x)) = x
<1>1. ASSUME NEW n \in 0..3
      PROVE  SM4!Load(SM4!Store(x))[n] = x[n]
  <2>1. \A k \in 0..3 : SM4!Store(x)[4 * n + k] = {c - 8 * (3 - k) : c \in {d \in x[n] : d \div 8 = 3 - k}}
    <3>1. \A k \in 0..3 : 4 * n + k \in 0..15 /\ (4 * n + k) \div 4 = n /\ (4 * n + k) % 4 = k
      BY SMT
    <3> QED
      BY <3>1 DEF SM4!Store, SM4!ByteOf
  <2>2. \A k \in 0..3 : SM4!ShiftL(SM4!Store(x)[4 * n + k], 8 * (3 - k), 32)
                           = {d \in x[n] : d \div 8 = 3 - k}
    <3> TAKE k \in 0..3
    <3> DEFINE lane == {d \in x[n] : d \div 8 = 3 - k}
    <3>1. x[n] \subseteq 0..31
      BY DEF State, Word32
    <3>2. \A d \in lane : d - 8 * (3 - k) + 8 * (3 - k) = d /\ d < 32
      BY <3>1
    <3>3. SM4!Store(x)[4 * n + k] = {c - 8 * (3 - k) : c \in lane}
      BY <2>1
    <3> HIDE DEF lane
    <3>4. SM4!ShiftL(SM4!Store(x)[4 * n + k], 8 * (3 - k), 32) = lane
      BY <3>2, <3>3 DEF SM4!ShiftL
    <3> QED
      BY <3>4 DEF lane
  <2>3. \A d \in x[n] : \E k \in 0..3 : d \div 8 = 3 - k
    <3> TAKE d \in x[n]
    <3>1. d \in 0..31
      BY DEF State, Word32
    <3>2. 3 - (d \div 8) \in 0..3 /\ d \div 8 = 3 - (3 - (d \div 8))
      BY <3>1
    <3> QED
      BY <3>2
  <2> DEFINE place(k) == SM4!ShiftL(SM4!Store(x)[4 * n + k], 8 * (3 - k), 32)
  <2>4. SM4!Load(SM4!Store(x))[n] = UNION {place(k) : k \in 0..3}
    BY DEF SM4!Load
  <2>5. \A k \in 0..3 : place(k) = {d \in x[n] : d \div 8 = 3 - k}
    BY <2>2
  <2> HIDE DEF place
  <2>6. UNION {place(k) : k \in 0..3} = x[n]
    BY <2>3, <2>5
  <2> QED
    BY <2>4, <2>6
<1>2. DOMAIN SM4!Load(SM4!Store(x)) = 0..3
  BY DEF SM4!Load
<1> QED
  BY <1>1, <1>2 DEF State, SM4!Load

LEMMA LoadIsState ==
  ASSUME NEW b \in Blocks
  PROVE  SM4!Load(b) \in State
<1>1. ASSUME NEW n \in 0..3, NEW k \in 0..3
      PROVE  SM4!ShiftL(b[4 * n + k], 8 * (3 - k), 32) \in Word32
  <2>1. b[4 * n + k] \subseteq 0..7
    <3>1. 4 * n + k \in 0..15
      OBVIOUS
    <3> QED
      BY <3>1 DEF Blocks
  <2> QED
    BY <2>1 DEF SM4!ShiftL, Word32
<1> QED
  BY <1>1 DEF SM4!Load, State, Word32

(* A round with the same key undoes a round, on the reversed words.        *)
LEMMA RoundUndone ==
  ASSUME NEW x \in State, NEW n \in 0..31, NEW k, NEW w
  PROVE  SM4!Round(w, Reversed(SM4!Round(w, x, n, k)), 31 - n, k) = Reversed(x)
<1> DEFINE y == SM4!Round(w, x, n, k)
           z == Reversed(y)
           f == SM4!F(w, n, SM4!Mixed(x, n, k))
<1>1. n % 4 \in 0..3 /\ 31 - n \in 0..31 /\ (31 - n) % 4 = 3 - (n % 4)
  BY SMT
<1>2. /\ (n + 1) % 4 \in 0..3 \ {n % 4} /\ ((31 - n) + 3) % 4 = 3 - ((n + 1) % 4)
      /\ (n + 2) % 4 \in 0..3 \ {n % 4} /\ ((31 - n) + 2) % 4 = 3 - ((n + 2) % 4)
      /\ (n + 3) % 4 \in 0..3 \ {n % 4} /\ ((31 - n) + 1) % 4 = 3 - ((n + 3) % 4)
  BY SMT
<1>3. y \in [0..3 -> {y[m] : m \in 0..3}] /\ y[n % 4] = SM4!Xor(x[n % 4], f)
      /\ \A m \in 0..3 \ {n % 4} : y[m] = x[m]
  BY <1>1 DEF SM4!Round, State
<1>4. \A m \in 0..3 : z[3 - m] = y[m]
  BY DEF Reversed
<1>5. SM4!Mixed(z, 31 - n, k) = SM4!Xor(SM4!Xor(SM4!Xor(x[(n + 3) % 4], x[(n + 2) % 4]), x[(n + 1) % 4]), k)
  BY <1>2, <1>3, <1>4 DEF SM4!Mixed
<1>6. SM4!Mixed(z, 31 - n, k) = SM4!Mixed(x, n, k)
  BY <1>5, XorOrder DEF SM4!Mixed
<1>7. SM4!F(w, 31 - n, SM4!Mixed(z, 31 - n, k)) = f
  BY <1>6 DEF SM4!F
<1>8. SM4!Round(w, z, 31 - n, k) = [z EXCEPT ![3 - (n % 4)] = SM4!Xor(SM4!Xor(x[n % 4], f), f)]
  BY <1>1, <1>3, <1>4, <1>7 DEF SM4!Round
<1>9. SM4!Round(w, z, 31 - n, k) = [z EXCEPT ![3 - (n % 4)] = x[n % 4]]
  BY <1>8, XorTwice
<1> QED
  BY <1>1, <1>3, <1>9 DEF Reversed, State

------------------------------------------------------------------------------
(* What the tables and functions of the two files give is words.           *)
LEMMA XorWords == ASSUME NEW x \in Word32, NEW y \in Word32 PROVE Xor(x, y) \in Word32
BY DEF Xor, Word32

LEMMA ShiftLWord ==
  ASSUME NEW x, x \subseteq Nat, NEW n \in Nat PROVE ShiftL(x, n, 32) \in Word32
BY DEF ShiftL, Word32

LEMMA BitsInNat == \A m : BitsIn(m) \in Word32 /\ BitsIn(m) \subseteq Nat
BY DEF BitsIn, Word32

LEMMA ByteOfByte == ASSUME NEW x \in Word32, NEW k \in 0..3 PROVE ByteOf(x, k) \in SUBSET (0..7)
BY DEF ByteOf, Word32

LEMMA SboxNat == ASSUME NEW y \in SUBSET (0..7) PROVE SBOX[y] \in Word32 /\ SBOX[y] \subseteq Nat
<1>1. SBOX = [x \in SUBSET (0..7) |-> BitsIn(Table[1 + CHOOSE n \in 0..255 : BitsIn(n) = x])]
  BY TabulatedIs DEF SBOX
<1> QED
  BY <1>1, BitsInNat

LEMMA TauWord == ASSUME NEW x \in Word32 PROVE TAU(x) \in Word32
<1>1. \A k \in 0..3 : ShiftL(SBOX[ByteOf(x, k)], 8 * k, 32) \in Word32
  BY ByteOfByte, SboxNat, ShiftLWord
<1> QED
  BY <1>1 DEF TAU, Word32

LEMMA RolWord == ASSUME NEW x \in Word32, NEW n \in 0..31 PROVE ROL32(x, n) \in Word32
<1>1. ShiftL(x, n, 32) \in Word32
  <2>1. x \subseteq Nat /\ n \in Nat
    BY DEF Word32
  <2> QED
    BY <2>1, ShiftLWord
<1>2. ShiftR(x, 32 - n) \in Word32
  BY DEF ShiftR, Word32
<1> QED
  BY <1>1, <1>2 DEF ROL32, Word32

LEMMA LWord == ASSUME NEW x \in Word32 PROVE L(x) \in Word32
BY RolWord, XorWords DEF L

LEMMA TWord == ASSUME NEW x \in Word32 PROVE T(x) \in Word32
BY LWord, TauWord DEF T

LEMMA TpWord == ASSUME NEW x \in Word32 PROVE Tp(x) \in Word32
<1> DEFINE y == TAU(x)
<1>1. y \in Word32
  BY TauWord
<1>2. Tp(x) = Xor(Xor(y, ROL32(y, 13)), ROL32(y, 23))
  BY DEF Tp
<1> HIDE DEF y
<1> QED
  BY <1>1, <1>2, RolWord, XorWords

LEMMA TTableWord == ASSUME NEW place \in 0..3, NEW y \in SUBSET (0..7) PROVE SM4_SBOX_T[place][y] \in Word32
<1>1. ShiftL(SBOX[y], 24 - 8 * place, 32) \in Word32
  BY SboxNat, ShiftLWord
<1> DEFINE table(p) == Tabulated([x \in SUBSET (0..7) |-> L(ShiftL(SBOX[x], 24 - 8 * p, 32))])
<1>2. SM4_SBOX_T = [p \in 0..3 |-> table(p)]
  BY TabulatedIs DEF SM4_SBOX_T
<1>3. table(place) = [x \in SUBSET (0..7) |-> L(ShiftL(SBOX[x], 24 - 8 * place, 32))]
  BY TabulatedIs
<1> HIDE DEF table
<1>4. SM4_SBOX_T[place][y] = L(ShiftL(SBOX[y], 24 - 8 * place, 32))
  BY <1>2, <1>3
<1> QED
  BY <1>1, <1>4, LWord

LEMMA SM4_TWord == ASSUME NEW x \in Word32 PROVE SM4_T(x) \in Word32
BY ByteOfByte, TTableWord, XorWords DEF SM4_T

LEMMA HalvesWord == ASSUME NEW m, NEW n PROVE Halves(m, n) \in Word32
BY BitsInNat, ShiftLWord DEF Halves, Word32

LEMMA FkWords == FK \in [1..4 -> Word32]
BY HalvesWord DEF FK

LEMMA CkWords == CK \in [0..31 -> Word32]
<1>1. \A n \in 0..31 : \A k \in 0..3 : ShiftL(BitsIn((7 * (4 * n + k)) % 256), 24 - 8 * k, 32) \in Word32
  BY BitsInNat, ShiftLWord
<1> QED
  BY <1>1 DEF CK, Word32

OnWords ==
  /\ \A x \in Word32 : T(x) \in Word32 /\ Tp(x) \in Word32 /\ SM4_T(x) \in Word32
  /\ FK \in [1..4 -> Word32] /\ CK \in [0..31 -> Word32]
  /\ Sm4Blocks \subseteq Blocks

LEMMA WordsGiven == OnWords
BY TWord, TpWord, SM4_TWord, FkWords, CkWords, Sm4Assumption DEF OnWords, Blocks

After == {"encrypt", "encrypted", "swap", "swapped", "decrypt", "decrypted"}

(* how many rounds of the encryption are recorded                          *)
Top == IF call = "encrypt" THEN sm4r ELSE 32

(* where the round key n of the encryption is while the keys are reversed  *)
KeyAt(keys, s, n) == IF n < s \/ n > 31 - s THEN keys[31 - n] ELSE keys[n]

TypeInv ==
  /\ who \in {"reference", "openssl"}
  /\ call \in {"idle", "expand", "expanded"} \cup After
  /\ sm4i \in 0..16 /\ sm4r \in 0..32
  /\ call = "expand" => /\ sm4K \in State /\ sm4rk \in [0..(sm4r - 1) -> Word32] /\ sm4r < 32
  /\ call \in {"expanded"} \cup After => sm4rk \in [0..31 -> Word32]

(* the array is only reversed by the reference, and then completely        *)
SwapInv ==
  /\ call \in {"idle", "expand", "expanded", "encrypt", "encrypted"} => sm4i = 0
  /\ call = "swap" => who = "reference" /\ sm4i < 16
  /\ call = "swapped" => who = "reference" /\ sm4i = 16
  /\ call = "decrypt" => sm4i = IF who = "reference" THEN 16 ELSE 0

(* the record is the encryption's, with the keys where they are now        *)
TrailInv ==
  call \in After =>
    /\ in \in Blocks /\ sm4trail \in [0..Top -> State]
    /\ sm4trail[0] = SM4!Load(in)
    /\ \A n \in 0..(Top - 1) : sm4trail[n + 1] = SM4!Round(who, sm4trail[n], n, KeyAt(sm4rk, sm4i, n))

TextInv ==
  /\ call = "encrypt" => sm4X = sm4trail[sm4r]
  /\ call \in {"encrypted", "swap", "swapped"} => out = SM4!Store(Reversed(sm4trail[32]))
  /\ call = "decrypt" => sm4X = Reversed(sm4trail[32 - sm4r])
  /\ call = "decrypted" => out = in

Inv == TypeInv /\ SwapInv /\ TrailInv /\ TextInv

LEMMA SameXorWords == \A x, y \in Word32 : SM4!Xor(x, y) \in Word32
BY XorWords, SameXor

LEMMA MixedIsWord ==
  ASSUME NEW x \in State, NEW n \in 0..31, NEW k \in Word32
  PROVE  SM4!Mixed(x, n, k) \in Word32
<1>1. (n + 1) % 4 \in 0..3 /\ (n + 2) % 4 \in 0..3 /\ (n + 3) % 4 \in 0..3
  BY SMT
<1> QED
  BY <1>1, SameXorWords DEF SM4!Mixed, State

LEMMA RoundState ==
  ASSUME OnWords, NEW x \in State, NEW n \in 0..31, NEW k \in Word32, NEW w
  PROVE  SM4!Round(w, x, n, k) \in State
<1>1. SM4!F(w, n, SM4!Mixed(x, n, k)) \in Word32
  <2>1. SM4!Mixed(x, n, k) \in Word32
    BY MixedIsWord
  <2> QED
    BY <2>1 DEF SM4!F, OnWords
<1>2. n % 4 \in 0..3
  BY SMT
<1>3. SM4!Xor(x[n % 4], SM4!F(w, n, SM4!Mixed(x, n, k))) \in Word32
  BY <1>1, <1>2, SameXorWords DEF State
<1> QED
  BY <1>2, <1>3 DEF SM4!Round, State

LEMMA InvInit == SM4!Sm4Init => Inv
BY DEF SM4!Sm4Init, Inv, TypeInv, SwapInv, TrailInv, TextInv, After

LEMMA InvStep == OnWords /\ Inv /\ [SM4!Sm4Next]_sm4vars => Inv'
<1> SUFFICES ASSUME OnWords, Inv, [SM4!Sm4Next]_sm4vars
             PROVE  Inv'
  OBVIOUS
<1> USE DEF Inv
<1>1. CASE SM4!ScheduleEnc
  <2>1. mk' \in Blocks
    BY <1>1 DEF SM4!ScheduleEnc, OnWords
  <2>2. \A n \in 0..3 : SM4!Load(mk')[n] \in Word32
    BY <2>1, LoadIsState DEF State
  <2>3. \A n \in 0..3 : /\ SM4!XorTop(SM4!Load(mk')[n], FK[n + 1]) \in Word32
                          /\ SM4!Xor(SM4!Load(mk')[n], FK[n + 1]) \in Word32
    <3> TAKE n \in 0..3
    <3>1. FK[n + 1] \in Word32
      BY DEF OnWords
    <3>2. SM4!ByteLane(SM4!Load(mk')[n], {3}) \in Word32 /\ SM4!ByteLane(SM4!Load(mk')[n], {0, 1, 2}) \in Word32
      BY <2>2 DEF SM4!ByteLane, Word32
    <3>3. SM4!Xor(SM4!ByteLane(SM4!Load(mk')[n], {3}), FK[n + 1]) \in Word32
      BY <3>1, <3>2, SameXorWords
    <3> QED
      BY <2>2, <3>1, <3>2, <3>3, SameXorWords DEF SM4!XorTop, Word32
  <2>4. sm4K' \in State
    BY <1>1, <2>3 DEF SM4!ScheduleEnc, State
  <2>5. sm4rk' \in [0..(sm4r' - 1) -> Word32] /\ sm4r' = 0
    BY <1>1 DEF SM4!ScheduleEnc
  <2> QED
    BY <1>1, <2>4, <2>5 DEF SM4!ScheduleEnc, TypeInv, SwapInv, TrailInv, TextInv, After
<1>2. CASE SM4!ExpandWord
  <2>1. sm4r \in 0..31 /\ sm4K \in State /\ sm4rk \in [0..(sm4r - 1) -> Word32] /\ sm4r % 4 \in 0..3
    BY <1>2 DEF SM4!ExpandWord, TypeInv
  <2>2. CK[sm4r] \in Word32
    BY <2>1 DEF OnWords
  <2>3. SM4!Xor(sm4K[sm4r % 4], Tp(SM4!Mixed(sm4K, sm4r, CK[sm4r]))) \in Word32
    <3>1. Tp(SM4!Mixed(sm4K, sm4r, CK[sm4r])) \in Word32
      <4>1. SM4!Mixed(sm4K, sm4r, CK[sm4r]) \in Word32
        BY <2>1, <2>2, MixedIsWord
      <4> QED
        BY <4>1 DEF OnWords
    <3> QED
      BY <2>1, <3>1, SameXorWords DEF State
  <2>4. sm4K' \in State
    BY <1>2, <2>1, <2>3 DEF SM4!ExpandWord, State
  <2>5. sm4rk' \in [0..(sm4r' - 1) -> Word32] /\ sm4r' = sm4r + 1
    BY <1>2, <2>1, <2>4 DEF SM4!ExpandWord, State
  <2> QED
    <3>1. TypeInv'
      <4>1. CASE sm4r = 31
        BY <4>1, <1>2, <2>4, <2>5 DEF SM4!ExpandWord, TypeInv, After
      <4>2. CASE sm4r # 31
        BY <4>2, <1>2, <2>1, <2>4, <2>5 DEF SM4!ExpandWord, TypeInv, After
      <4> QED
        BY <4>1, <4>2
    <3>2. SwapInv' /\ TrailInv' /\ TextInv'
      BY <1>2 DEF SM4!ExpandWord, SwapInv, TrailInv, TextInv, After
    <3> QED
      BY <3>1, <3>2
<1>3. CASE SM4!Encrypt
  <2>1. in' \in Blocks /\ sm4X' = SM4!Load(in') /\ sm4X' \in State
    BY <1>3, LoadIsState DEF SM4!Encrypt, OnWords
  <2>2. sm4trail' \in [0..0 -> State] /\ sm4trail'[0] = sm4X'
    BY <1>3, <2>1 DEF SM4!Encrypt
  <2> QED
    BY <1>3, <2>1, <2>2 DEF SM4!Encrypt, TypeInv, SwapInv, TrailInv, TextInv, After, Top
<1>4. CASE SM4!EncryptRound
  <2>1. /\ call = "encrypt" /\ sm4r \in 0..31 /\ sm4i = 0
        /\ sm4rk \in [0..31 -> Word32] /\ in \in Blocks
    BY <1>4 DEF SM4!EncryptRound, TypeInv, SwapInv, TrailInv, After
  <2>2. /\ sm4trail \in [0..sm4r -> State] /\ sm4trail[0] = SM4!Load(in) /\ sm4X = sm4trail[sm4r]
        /\ \A n \in 0..(sm4r - 1) : sm4trail[n + 1] = SM4!Round(who, sm4trail[n], n, KeyAt(sm4rk, sm4i, n))
    BY <2>1 DEF TrailInv, TextInv, After, Top
  <2>3. KeyAt(sm4rk, sm4i, sm4r) = sm4rk[sm4r] /\ sm4rk[sm4r] \in Word32
    BY <2>1 DEF KeyAt
  <2>4. sm4X' = SM4!Round(who, sm4trail[sm4r], sm4r, sm4rk[sm4r]) /\ sm4X' \in State
    <3>1. sm4trail[sm4r] \in State
      <4>1. sm4r \in 0..sm4r
        BY <2>1
      <4>2. sm4trail \in [0..sm4r -> State]
        BY <2>2
      <4> QED
        BY <4>1, <4>2
    <3>2. SM4!Round(who, sm4trail[sm4r], sm4r, sm4rk[sm4r]) \in State
      BY <2>1, <2>3, <3>1, RoundState
    <3>3. sm4X' = SM4!Round(who, sm4X, sm4r, sm4rk[sm4r])
      BY <1>4 DEF SM4!EncryptRound
    <3> QED
      BY <2>2, <3>2, <3>3
  <2>5. /\ sm4trail' \in [0..(sm4r + 1) -> State] /\ sm4trail'[sm4r + 1] = sm4X'
        /\ \A n \in 0..sm4r : sm4trail'[n] = sm4trail[n]
    <3>1. sm4trail' = [n \in 0..(sm4r + 1) |-> IF n = sm4r + 1 THEN sm4X' ELSE sm4trail[n]]
      BY <1>4 DEF SM4!EncryptRound
    <3>2. sm4r + 1 \in 0..(sm4r + 1) /\ \A n \in 0..sm4r : n \in 0..(sm4r + 1) /\ n # sm4r + 1
      BY <2>1
    <3>3. \A n \in 0..(sm4r + 1) : n # sm4r + 1 => n \in 0..sm4r
      BY <2>1
    <3>4. sm4trail \in [0..sm4r -> State] /\ sm4X' \in State
      BY <2>2, <2>4
    <3> QED
      BY <3>1, <3>2, <3>3, <3>4
  <2>6. /\ call' = call /\ who' = who /\ sm4rk' = sm4rk /\ sm4i' = sm4i /\ in' = in /\ out' = out
        /\ sm4K' = sm4K /\ sm4r' = sm4r + 1 /\ Top' = sm4r + 1
    BY <1>4, <2>1 DEF SM4!EncryptRound, Top
  <2>7. ASSUME NEW n \in 0..sm4r
        PROVE  sm4trail'[n + 1] = SM4!Round(who, sm4trail'[n], n, KeyAt(sm4rk, sm4i, n))
    <3>1. CASE n = sm4r
      BY <3>1, <2>1, <2>3, <2>4, <2>5
    <3>2. CASE n # sm4r
      <4>1. n \in 0..(sm4r - 1) /\ n + 1 \in 0..sm4r
        BY <3>2, <2>1
      <4> QED
        BY <4>1, <2>2, <2>5
    <3> QED
      BY <3>1, <3>2
  <2>8. TrailInv'
    <3>1. sm4trail'[0] = SM4!Load(in)
      <4>1. 0 \in 0..sm4r
        BY <2>1
      <4> QED
        BY <4>1, <2>2, <2>5
    <3>2. Top' - 1 = sm4r
      BY <2>1, <2>6
    <3>3. sm4trail' \in [0..Top' -> State]
      BY <2>5, <2>6
    <3>4. \A n \in 0..(Top' - 1) : sm4trail'[n + 1] = SM4!Round(who', sm4trail'[n], n, KeyAt(sm4rk', sm4i', n))
      BY <2>6, <2>7, <3>2
    <3> QED
      BY <2>1, <2>6, <3>1, <3>3, <3>4 DEF TrailInv
  <2>9. TypeInv' /\ SwapInv'
    BY <2>1, <2>6 DEF TypeInv, SwapInv, After
  <2>10. TextInv'
    BY <2>1, <2>5, <2>6 DEF TextInv
  <2> QED
    BY <2>8, <2>9, <2>10
<1>5. CASE SM4!EncryptReturn
  <2>1. /\ call = "encrypt" /\ sm4r = 32 /\ call' = "encrypted"
        /\ out' = SM4!Store(Reversed(sm4trail[32])) /\ Top = 32 /\ Top' = 32
        /\ UNCHANGED <<who, sm4K, sm4rk, sm4i, in, sm4r, sm4trail>>
    BY <1>5 DEF SM4!EncryptReturn, SM4!Return, Reversed, TextInv, Top
  <2>2. TypeInv' /\ SwapInv' /\ TextInv'
    BY <2>1 DEF TypeInv, SwapInv, TextInv, After
  <2>3. TrailInv'
    BY <2>1 DEF TrailInv, After
  <2> QED
    BY <2>2, <2>3
<1>6. CASE SM4!ScheduleDec
  <2>1. /\ call = "encrypted" /\ who = "reference" /\ call' = "swap"
        /\ sm4i = 0 /\ sm4i' = 0 /\ Top = 32 /\ Top' = 32
        /\ UNCHANGED <<who, sm4K, sm4rk, in, out, sm4r, sm4trail>>
    BY <1>6 DEF SM4!ScheduleDec, SwapInv, Top
  <2>2. TypeInv' /\ SwapInv' /\ TextInv'
    BY <2>1 DEF TypeInv, SwapInv, TextInv, After
  <2>3. TrailInv'
    BY <2>1 DEF TrailInv, After
  <2> QED
    BY <2>2, <2>3
<1>7. CASE SM4!Swap
  <2>1. /\ call = "swap" /\ sm4i \in 0..15 /\ who = "reference" /\ sm4i' = sm4i + 1
        /\ sm4rk \in [0..31 -> Word32] /\ Top = 32 /\ Top' = 32
        /\ UNCHANGED <<who, sm4K, in, out, sm4r, sm4trail>>
    BY <1>7 DEF SM4!Swap, TypeInv, SwapInv, After, Top
  <2>2. /\ sm4rk' = [sm4rk EXCEPT ![sm4i] = sm4rk[31 - sm4i], ![31 - sm4i] = sm4rk[sm4i]]
        /\ call' = IF sm4i + 1 = 16 THEN "swapped" ELSE "swap"
    BY <1>7, <2>1 DEF SM4!Swap
  <2>3. sm4rk' \in [0..31 -> Word32]
    BY <2>1, <2>2
  <2>4. ASSUME NEW n \in 0..31
        PROVE  KeyAt(sm4rk', sm4i + 1, n) = KeyAt(sm4rk, sm4i, n)
    <3>1. 31 - sm4i \in 0..31 /\ 31 - sm4i # sm4i /\ 31 - n \in 0..31
      BY <2>1
    <3>2. \A l \in 0..31 : sm4rk'[l] = IF l = sm4i THEN sm4rk[31 - sm4i]
                                   ELSE IF l = 31 - sm4i THEN sm4rk[sm4i] ELSE sm4rk[l]
      BY <2>1, <2>2, <3>1
    <3>3. CASE n = sm4i
      BY <2>1, <3>1, <3>2, <3>3 DEF KeyAt
    <3>4. CASE n = 31 - sm4i
      BY <2>1, <3>1, <3>2, <3>4 DEF KeyAt
    <3>5. CASE n # sm4i /\ n # 31 - sm4i
      <4>1. sm4rk'[n] = sm4rk[n] /\ sm4rk'[31 - n] = sm4rk[31 - n]
        BY <2>1, <3>1, <3>2, <3>5
      <4>2. (n < sm4i + 1 <=> n < sm4i) /\ (n > 31 - (sm4i + 1) <=> n > 31 - sm4i)
        BY <2>1, <3>5
      <4> QED
        BY <4>1, <4>2 DEF KeyAt
    <3> QED
      BY <3>3, <3>4, <3>5
  <2>5. TypeInv' /\ SwapInv' /\ TextInv'
    BY <2>1, <2>2, <2>3 DEF TypeInv, SwapInv, TextInv, After
  <2>6. TrailInv'
    <3>1. /\ in \in Blocks /\ sm4trail \in [0..32 -> State] /\ sm4trail[0] = SM4!Load(in)
          /\ \A n \in 0..31 : sm4trail[n + 1] = SM4!Round(who, sm4trail[n], n, KeyAt(sm4rk, sm4i, n))
      BY <2>1 DEF TrailInv, After
    <3>2. \A n \in 0..31 : sm4trail[n + 1] = SM4!Round(who, sm4trail[n], n, KeyAt(sm4rk', sm4i', n))
      BY <2>1, <2>4, <3>1
    <3> QED
      BY <2>1, <3>1, <3>2 DEF TrailInv
  <2> QED
    BY <2>5, <2>6
<1>8. CASE SM4!Decrypt
  <2>1. /\ call \in {"swapped", "encrypted"} /\ call' = "decrypt" /\ sm4r' = 0
        /\ Top = 32 /\ Top' = 32 /\ sm4X' = SM4!Load(out) /\ who \in {"reference", "openssl"}
        /\ call = IF who = "reference" THEN "swapped" ELSE "encrypted"
        /\ UNCHANGED <<who, sm4K, sm4rk, sm4i, in, out, sm4trail>>
    BY <1>8 DEF SM4!Decrypt, Top, TypeInv
  <2>2. sm4trail \in [0..32 -> State] /\ out = SM4!Store(Reversed(sm4trail[32]))
    BY <2>1 DEF TrailInv, TextInv, After
  <2>3. Reversed(sm4trail[32]) \in State
    BY <2>2 DEF Reversed, State
  <2>4. sm4X' = Reversed(sm4trail[32])
    BY <2>1, <2>2, <2>3, LoadedIsStored
  <2>5. TypeInv' /\ SwapInv' /\ TextInv'
    BY <2>1, <2>4 DEF TypeInv, SwapInv, TextInv, After
  <2>6. TrailInv'
    BY <2>1 DEF TrailInv, After
  <2> QED
    BY <2>5, <2>6
<1>9. CASE SM4!DecryptRound
  <2>1. /\ call = "decrypt" /\ call' = "decrypt" /\ sm4r \in 0..31 /\ sm4r' = sm4r + 1
        /\ Top = 32 /\ Top' = 32 /\ who \in {"reference", "openssl"}
        /\ sm4i = IF who = "reference" THEN 16 ELSE 0
        /\ UNCHANGED <<who, sm4K, sm4rk, sm4i, in, out, sm4trail>>
    BY <1>9 DEF SM4!DecryptRound, Top, TypeInv, SwapInv, After
  <2>2. /\ sm4trail \in [0..32 -> State] /\ sm4X = Reversed(sm4trail[32 - sm4r])
        /\ \A n \in 0..31 : sm4trail[n + 1] = SM4!Round(who, sm4trail[n], n, KeyAt(sm4rk, sm4i, n))
    BY <2>1 DEF TrailInv, TextInv, After
  <2> DEFINE k == KeyAt(sm4rk, sm4i, 31 - sm4r)
  <2>3. (IF who = "reference" THEN sm4rk[sm4r] ELSE sm4rk[31 - sm4r]) = k
    BY <2>1 DEF KeyAt
  <2>4. sm4trail[32 - sm4r] = SM4!Round(who, sm4trail[31 - sm4r], 31 - sm4r, k)
    BY <2>1, <2>2
  <2> HIDE DEF k
  <2>5. sm4X' = SM4!Round(who, Reversed(SM4!Round(who, sm4trail[31 - sm4r], 31 - sm4r, k)), sm4r, k)
    BY <1>9, <2>2, <2>3, <2>4 DEF SM4!DecryptRound
  <2>6. sm4X' = Reversed(sm4trail[31 - sm4r])
    <3>1. 31 - sm4r \in 0..31 /\ 31 - (31 - sm4r) = sm4r /\ sm4trail[31 - sm4r] \in State
      BY <2>1, <2>2
    <3> QED
      BY <2>5, <3>1, RoundUndone
  <2>7. TypeInv' /\ SwapInv' /\ TextInv'
    BY <2>1, <2>6 DEF TypeInv, SwapInv, TextInv, After
  <2>8. TrailInv'
    BY <2>1 DEF TrailInv, After
  <2> QED
    BY <2>7, <2>8
<1>10. CASE SM4!DecryptReturn
  <2>1. /\ call = "decrypt" /\ call' = "decrypted" /\ sm4r = 32
        /\ Top = 32 /\ Top' = 32
        /\ out' = SM4!Store([n \in 0..3 |-> sm4X[3 - n]])
        /\ UNCHANGED <<who, sm4K, sm4rk, sm4i, in, sm4r, sm4trail>>
    BY <1>10 DEF SM4!DecryptReturn, SM4!Return, Top
  <2>2. /\ sm4trail[0] = SM4!Load(in) /\ in \in Blocks /\ sm4trail[0] \in State
        /\ sm4X = Reversed(sm4trail[0])
    BY <2>1 DEF TrailInv, TextInv, After
  <2>3. [n \in 0..3 |-> sm4X[3 - n]] = sm4trail[0]
    BY <2>2 DEF Reversed, State
  <2>4. out' = in
    BY <2>1, <2>2, <2>3, StoredIsLoaded
  <2>5. TypeInv' /\ SwapInv' /\ TextInv'
    BY <2>1, <2>4 DEF TypeInv, SwapInv, TextInv, After
  <2>6. TrailInv'
    BY <2>1 DEF TrailInv, After
  <2> QED
    BY <2>5, <2>6
<1>11. CASE UNCHANGED sm4vars
  <2>1. UNCHANGED <<who, mk, sm4K, sm4rk, sm4i, in, out, sm4X, sm4r, call, sm4trail>> /\ Top' = Top
    BY <1>11 DEF sm4vars, Top
  <2>2. TypeInv'
    BY <2>1 DEF TypeInv
  <2>3. SwapInv'
    BY <2>1 DEF SwapInv
  <2>4. TrailInv'
    BY <2>1 DEF TrailInv
  <2>5. TextInv'
    BY <2>1 DEF TextInv
  <2> QED
    BY <2>2, <2>3, <2>4, <2>5
<1> QED
  BY <1>1, <1>2, <1>3, <1>4, <1>5, <1>6, <1>7, <1>8, <1>9, <1>10, <1>11 DEF SM4!Sm4Next

LEMMA InvRetraces == Inv => Sm4Retraces
BY DEF Inv, TextInv, Sm4Retraces, SM4!Sm4Retraces, Reversed

(* The decryption of sm4_reference.c and that of OpenSSL meet the words of *)
(* the encryption in reverse and return its block: for every key and every *)
(* block.                                                                  *)
THEOREM Sm4DecryptionRetraces == MCSpec => []Sm4Retraces
<1>1. MCInit => Inv
  BY InvInit DEF MCInit
<1>2. MCNext => SM4!Sm4Next \/ UNCHANGED sm4vars
  BY DEF MCNext, OnAes, OnSm4, Sm4Finished
<1>3. Inv /\ [MCNext]_<<vars, sm4vars>> => Inv'
  BY <1>2, InvStep, WordsGiven
<1> QED
  BY <1>1, <1>3, InvRetraces, PTL DEF MCSpec
=============================================================================
