----------------------------- MODULE AesProofs -----------------------------
(***************************************************************************)
(* OpenSSL's AES on two words of eight lanes is the byte-wise one, and its *)
(* decryption undoes its encryption, for every key and block.              *)
(*                                                                         *)
(* A lane of a word is followed through the shifts and masks: what is in   *)
(* the lane afterwards depends on what was in it before (Agree), because   *)
(* the masks clear what a shift carries in from the next lane.  So what    *)
(* TablesAssumption says of a word with one byte holds of every lane of    *)
(* every word (SubBytes).  Columns are compared byte by byte as sums of    *)
(* the byte doubled once, twice and three times (Tw).  The last part is    *)
(* the expansion of the key for decryption (DkInv).                        *)
(***************************************************************************)
EXTENDS CiphersProofs

(* The masks                                                               *)
LEMMA PowersOfTwo ==
  /\ 2^0 = 1 /\ 2^1 = 2 /\ 2^2 = 4 /\ 2^3 = 8 /\ 2^4 = 16 /\ 2^5 = 32 /\ 2^6 = 64 /\ 2^7 = 128
OBVIOUS

OneAt(m, p) == (m \div p) % 2 = 1

LEMMA BitsAre ==
  ASSUME NEW m \in Nat
  PROVE  /\ BitsOf(m) \subseteq Bits
         /\ 0 \in BitsOf(m) <=> OneAt(m, 1)
         /\ 1 \in BitsOf(m) <=> OneAt(m, 2)
         /\ 2 \in BitsOf(m) <=> OneAt(m, 4)
         /\ 3 \in BitsOf(m) <=> OneAt(m, 8)
         /\ 4 \in BitsOf(m) <=> OneAt(m, 16)
         /\ 5 \in BitsOf(m) <=> OneAt(m, 32)
         /\ 6 \in BitsOf(m) <=> OneAt(m, 64)
         /\ 7 \in BitsOf(m) <=> OneAt(m, 128)
<1>1. \A b \in Bits : b \in BitsOf(m) <=> OneAt(m, 2^b)
  BY DEF BitsOf, OneAt
<1> QED
  BY <1>1, PowersOfTwo DEF BitsOf, Bits

LEMMA MaskBits ==
  /\ BitsOf(\hAA) = {1, 3, 5, 7} /\ BitsOf(\hCC) = {2, 3, 6, 7} /\ BitsOf(\h33) = {0, 1, 4, 5}
  /\ BitsOf(\h22) = {1, 5} /\ BitsOf(\hA0) = {5, 7} /\ BitsOf(\hC0) = {6, 7}
  /\ BitsOf(\h20) = {5} /\ BitsOf(\h0F) = 0..3 /\ BitsOf(\h0C) = {2, 3}
  /\ BitsOf(\h0A) = {1, 3} /\ BitsOf(\h08) = {3} /\ BitsOf(\h03) = {0, 1}
  /\ BitsOf(\h02) = {1} /\ BitsOf(\hF0) = 4..7
  /\ BitsOf(\h7F) = 0..6 /\ BitsOf(\h80) = {7} /\ BitsOf(\h1B) = {0, 1, 3, 4}
<1>1. BitsOf(\hAA) = {1, 3, 5, 7} /\ BitsOf(\hCC) = {2, 3, 6, 7} /\ BitsOf(\h33) = {0, 1, 4, 5}
  BY BitsAre DEF OneAt, Bits
<1>2. BitsOf(\h22) = {1, 5} /\ BitsOf(\hA0) = {5, 7} /\ BitsOf(\hC0) = {6, 7}
  BY BitsAre DEF OneAt, Bits
<1>3. BitsOf(\h20) = {5} /\ BitsOf(\h0F) = 0..3 /\ BitsOf(\h0C) = {2, 3}
  BY BitsAre DEF OneAt, Bits
<1>4. BitsOf(\h0A) = {1, 3} /\ BitsOf(\h08) = {3} /\ BitsOf(\h03) = {0, 1}
  BY BitsAre DEF OneAt, Bits
<1>5. BitsOf(\h02) = {1} /\ BitsOf(\hF0) = 4..7
  BY BitsAre DEF OneAt, Bits
<1>6. BitsOf(\h7F) = 0..6 /\ BitsOf(\h80) = {7} /\ BitsOf(\h1B) = {0, 1, 3, 4}
  BY BitsAre DEF OneAt, Bits
<1> QED
  BY <1>1, <1>2, <1>3, <1>4, <1>5, <1>6

------------------------------------------------------------------------------
(* Lanes.                                                                  *)

Lane64 == 0..7

(* lane l of w is the lowest lane of v                                     *)
Agree(w, l, v) ==
  w \subseteq Wide /\ v \subseteq Wide /\ \A d \in Bits : d + 8 * l \in w <=> d \in v

(* w has no bit in the lowest, or the highest, n of any lane; and what a    *)
(* mask keeps has none                                                      *)
Above(w, n) == \A b \in w : (b % 8) \in n..7
Below(w, n) == \A b \in w : (b % 8) \in 0..(7 - n)
KeepsAbove(m, n) == BitsOf(m) \subseteq n..7
KeepsBelow(m, n) == BitsOf(m) \subseteq 0..(7 - n)

LEMMA LaneBit ==
  ASSUME NEW l \in Lane64, NEW d \in Bits
  PROVE  d + 8 * l \in Wide /\ (d + 8 * l) % 8 = d /\ (d + 8 * l) \div 8 = l
BY DEF Lane64, Bits, Wide

LEMMA LowBit == \A d \in Bits : d % 8 = d /\ d \in Wide
BY DEF Bits, Wide

LEMMA ShiftedWide ==
  ASSUME NEW x \in SUBSET Wide, NEW n \in Bits
  PROVE  ShiftL(x, n, 64) \in SUBSET Wide /\ ShiftR(x, n) \in SUBSET Wide
<1>1. ASSUME NEW b \in x PROVE b \in 0..63
  BY DEF Wide
<1>2. ShiftL(x, n, 64) \subseteq Wide
  BY <1>1 DEF ShiftL, Wide, Bits
<1>3. ShiftR(x, n) \subseteq Wide
  BY <1>1 DEF ShiftR, Wide, Bits
<1> QED
  BY <1>2, <1>3

LEMMA ShiftedBit ==
  ASSUME NEW x \in SUBSET Wide, NEW n \in Bits, NEW l \in Lane64, NEW d \in Bits
  PROVE  d + 8 * l \in ShiftL(x, n, 64) <=> (d - n) + 8 * l \in x
<1>1. \A b \in x : b \in 0..63
  BY DEF Wide
<1>2. d + 8 * l < 64
  BY DEF Bits, Lane64
<1> QED
  BY <1>1, <1>2 DEF ShiftL, Bits, Lane64

LEMMA ShiftedLow ==
  ASSUME NEW x \in SUBSET Wide, NEW n \in Bits, NEW d \in Bits
  PROVE  d \in ShiftL(x, n, 64) <=> d - n \in x
<1>1. \A b \in x : b \in 0..63
  BY DEF Wide
<1> QED
  BY <1>1 DEF ShiftL, Bits

LEMMA LaneOf ==
  ASSUME NEW b \in Wide
  PROVE  b % 8 \in Bits /\ b \div 8 \in Lane64 /\ b = (b % 8) + 8 * (b \div 8)
BY DEF Lane64, Bits, Wide

LEMMA AgreeXor ==
  ASSUME NEW l \in Lane64, NEW x, NEW y, NEW u, NEW v, Agree(x, l, u), Agree(y, l, v)
  PROVE  Agree(Xor(x, y), l, Xor(u, v))
BY DEF Agree, Xor

LEMMA AgreeCup ==
  ASSUME NEW l \in Lane64, NEW x, NEW y, NEW u, NEW v, Agree(x, l, u), Agree(y, l, v)
  PROVE  Agree(x \cup y, l, u \cup v)
BY DEF Agree

LEMMA AgreeCap ==
  ASSUME NEW l \in Lane64, NEW x, NEW y, NEW u, NEW v, Agree(x, l, u), Agree(y, l, v)
  PROVE  Agree(x \cap y, l, u \cap v)
BY DEF Agree

LEMMA AgreeMasked ==
  ASSUME NEW l \in Lane64, NEW x, NEW u, NEW m, Agree(x, l, u)
  PROVE  Agree(Masked(x, m), l, Masked(u, m))
<1>1. ASSUME NEW d \in Bits
      PROVE  d + 8 * l \in Masked(x, m) <=> d \in Masked(u, m)
  <2>1. (d + 8 * l) % 8 = d /\ d % 8 = d
    BY LaneBit, LowBit
  <2> QED
    BY <2>1 DEF Agree, Masked
<1> QED
  BY <1>1 DEF Agree, Masked

LEMMA MaskedKeeps ==
  ASSUME NEW x, NEW m, NEW n
  PROVE  /\ KeepsAbove(m, n) => Above(Masked(x, m), n)
         /\ KeepsBelow(m, n) => Below(Masked(x, m), n)
BY DEF Above, Below, KeepsAbove, KeepsBelow, Masked

LEMMA AgreeShiftR ==
  ASSUME NEW l \in Lane64, NEW x, NEW u, NEW n \in Bits, Agree(x, l, u),
         Above(x, n), Above(u, n)
  PROVE  Agree(ShiftR(x, n), l, ShiftR(u, n))
<1>1. ASSUME NEW d \in Bits
      PROVE  d + 8 * l \in ShiftR(x, n) <=> d \in ShiftR(u, n)
  <2>1. d + 8 * l \in ShiftR(x, n) <=> (d + n) + 8 * l \in x
    BY DEF ShiftR, Bits, Lane64, Agree, Wide
  <2>2. d \in ShiftR(u, n) <=> d + n \in u
    BY DEF ShiftR, Bits, Agree, Wide
  <2>3. CASE d + n \in Bits
    BY <2>1, <2>2, <2>3 DEF Agree
  <2>4. CASE d + n \notin Bits
    <3>1. d + n \in 8..14
      BY <2>4 DEF Bits
    <3>2. ((d + n) + 8 * l) % 8 = d + n - 8 /\ (d + n) % 8 = d + n - 8
      BY <3>1 DEF Bits, Lane64
    <3>3. d + n - 8 \notin n..7
      BY DEF Bits
    <3> QED
      BY <2>1, <2>2, <3>2, <3>3 DEF Above, Below
  <2> QED
    BY <2>3, <2>4
<1>2. ShiftR(x, n) \subseteq Wide /\ ShiftR(u, n) \subseteq Wide
  BY ShiftedWide DEF Agree
<1> QED
  BY <1>1, <1>2 DEF Agree

LEMMA AgreeShiftL ==
  ASSUME NEW l \in Lane64, NEW x, NEW u, NEW n \in Bits, Agree(x, l, u),
         Below(x, n), Below(u, n)
  PROVE  Agree(ShiftL(x, n, 64), l, ShiftL(u, n, 64))
<1>1. ASSUME NEW d \in Bits
      PROVE  d + 8 * l \in ShiftL(x, n, 64) <=> d \in ShiftL(u, n, 64)
  <2>1. d + 8 * l \in ShiftL(x, n, 64) <=> (d - n) + 8 * l \in x
    BY ShiftedBit DEF Agree
  <2>2. d \in ShiftL(u, n, 64) <=> d - n \in u
    BY ShiftedLow DEF Agree
  <2>3. CASE d - n \in Bits
    BY <2>1, <2>2, <2>3 DEF Agree
  <2>4. CASE d - n \notin Bits
    <3>1. d - n \in (-7)..(-1)
      BY <2>4 DEF Bits
    <3>2. ((d - n) + 8 * l) % 8 = d - n + 8 /\ (d - n) % 8 = d - n + 8
      BY <3>1 DEF Bits, Lane64
    <3>3. d - n + 8 \notin 0..(7 - n)
      BY DEF Bits
    <3> QED
      BY <2>1, <2>2, <3>2, <3>3 DEF Above, Below
  <2> QED
    BY <2>3, <2>4
<1>2. ShiftL(x, n, 64) \subseteq Wide /\ ShiftL(u, n, 64) \subseteq Wide
  BY ShiftedWide DEF Agree
<1> QED
  BY <1>1, <1>2 DEF Agree

(* A word shifted and then masked                                          *)
LEMMA AgreeShiftLMasked ==
  ASSUME NEW l \in Lane64, NEW x, NEW u, NEW n \in Bits, NEW m, Agree(x, l, u),
         KeepsAbove(m, n)
  PROVE  Agree(Masked(ShiftL(x, n, 64), m), l, Masked(ShiftL(u, n, 64), m))
<1>1. ASSUME NEW d \in Bits
      PROVE  d + 8 * l \in Masked(ShiftL(x, n, 64), m) <=> d \in Masked(ShiftL(u, n, 64), m)
  <2>1. d + 8 * l \in ShiftL(x, n, 64) <=> (d - n) + 8 * l \in x
    BY ShiftedBit DEF Agree
  <2>2. d \in ShiftL(u, n, 64) <=> d - n \in u
    BY ShiftedLow DEF Agree
  <2>3. (d + 8 * l) % 8 = d /\ d % 8 = d
    BY LaneBit, LowBit
  <2>4. CASE d \in BitsOf(m)
    <3>1. d - n \in Bits
      BY <2>4 DEF Bits, KeepsAbove
    <3> QED
      BY <3>1, <2>1, <2>2, <2>3 DEF Agree, Masked
  <2>5. CASE d \notin BitsOf(m)
    BY <2>5, <2>3 DEF Masked
  <2> QED
    BY <2>4, <2>5
<1>2. ShiftL(x, n, 64) \subseteq Wide /\ ShiftL(u, n, 64) \subseteq Wide
  BY ShiftedWide DEF Agree
<1> QED
  BY <1>1, <1>2 DEF Agree, Masked

LEMMA MaskedParts ==
  /\ \A x, y, m : Masked(Xor(x, y), m) = Xor(Masked(x, m), Masked(y, m))
  /\ \A x, y, m : Masked(x \cap y, m) = Masked(x, m) \cap y
BY DEF Masked, Xor

LEMMA AgreeDown ==
  ASSUME NEW l \in Lane64, NEW x, NEW u, NEW m, NEW n \in Bits, Agree(x, l, u),
         KeepsAbove(m, n)
  PROVE  Agree(ShiftR(Masked(x, m), n), l, ShiftR(Masked(u, m), n))
BY AgreeMasked, MaskedKeeps, AgreeShiftR

LEMMA AgreeUp ==
  ASSUME NEW l \in Lane64, NEW x, NEW u, NEW m, NEW n \in Bits, Agree(x, l, u),
         KeepsBelow(m, n)
  PROVE  Agree(ShiftL(Masked(x, m), n, 64), l, ShiftL(Masked(u, m), n, 64))
BY AgreeMasked, MaskedKeeps, AgreeShiftL

LEMMA AgreeProduct ==
  ASSUME NEW l \in Lane64, NEW x, NEW y, NEW u, NEW v, NEW m, Agree(x, l, u), Agree(y, l, v),
         KeepsAbove(m, 1)
  PROVE  Agree(Product(x, y, m), l, Product(u, v, m))
<1> DEFINE P(a, b) == Xor(a \cap b, ShiftR(Masked(a \cap b, m), 1))
           C(a, b) == Xor(Masked(ShiftL(a, 1, 64), m) \cap b, Masked(ShiftL(b, 1, 64), m) \cap a)
<1>0. 1 \in Bits
  BY DEF Bits
<1>1. Agree(x \cap y, l, u \cap v)
  BY AgreeCap
<1>2. Agree(P(x, y), l, P(u, v))
  BY <1>0, <1>1, AgreeDown, AgreeXor
<1>3. /\ Agree(Masked(ShiftL(x, 1, 64), m), l, Masked(ShiftL(u, 1, 64), m))
      /\ Agree(Masked(ShiftL(y, 1, 64), m), l, Masked(ShiftL(v, 1, 64), m))
  BY <1>0, AgreeShiftLMasked
<1>4. Agree(C(x, y), l, C(u, v))
  BY <1>3, AgreeCap, AgreeXor
<1>5. \A a, b : Product(a, b, m) = Xor(P(a, b), C(a, b))
  <2> TAKE a, b
  <2> DEFINE s == ShiftL(a, 1, 64) \cap b
             t == ShiftL(b, 1, 64) \cap a
  <2>1. Masked(Xor(s, t), m) = Xor(Masked(s, m), Masked(t, m))
    BY MaskedParts
  <2>2. Masked(s, m) = Masked(ShiftL(a, 1, 64), m) \cap b /\ Masked(t, m) = Masked(ShiftL(b, 1, 64), m) \cap a
    BY MaskedParts
  <2>3. Product(a, b, m) = Xor(P(a, b), Masked(Xor(s, t), m))
    BY DEF Product
  <2> QED
    BY <2>1, <2>2, <2>3
<1> HIDE DEF P, C
<1> QED
  BY <1>2, <1>4, <1>5, AgreeXor

LEMMA AgreeScaled ==
  ASSUME NEW l \in Lane64, NEW x, NEW u, NEW m, Agree(x, l, u), KeepsAbove(m, 1)
  PROVE  Agree(Scaled(x, m), l, Scaled(u, m))
<1>0. 1 \in Bits
  BY DEF Bits
<1>1. Agree(Masked(x, m), l, Masked(u, m)) /\ Agree(ShiftR(Masked(x, m), 1), l, ShiftR(Masked(u, m), 1))
  BY <1>0, AgreeMasked, AgreeDown
<1>2. Agree(Masked(ShiftL(x, 1, 64), m), l, Masked(ShiftL(u, 1, 64), m))
  BY <1>0, AgreeShiftLMasked
<1> QED
  BY <1>1, <1>2, AgreeXor, AgreeCup DEF Scaled

LEMMA AgreeCrossed ==
  ASSUME NEW l \in Lane64, NEW x, NEW u, Agree(x, l, u)
  PROVE  Agree(Crossed(x), l, Crossed(u))
<1>0. 2 \in Bits /\ KeepsAbove(\hCC, 2) /\ KeepsBelow(\h33, 2)
  BY MaskBits DEF Bits, KeepsAbove, KeepsBelow
<1> QED
  BY <1>0, AgreeDown, AgreeUp, AgreeCup DEF Crossed

NibblesOf(low, other) ==
  Xor(Xor(low, Masked(Xor(ShiftL(other, 2, 64), other), \hCC)),
      Scaled(ShiftR(Masked(low, \hCC), 2), \h22))

LEMMA NibblesAre ==
  \A x, y, c : Nibbles(x, y, c) = NibblesOf(Product(x, y, \hAA), Product(c, y, \hAA))
BY DEF Nibbles, NibblesOf, Once

LEMMA AgreeNibbles ==
  ASSUME NEW l \in Lane64, NEW x, NEW y, NEW c, NEW u, NEW v, NEW e,
         Agree(x, l, u), Agree(y, l, v), Agree(c, l, e)
  PROVE  Agree(Nibbles(x, y, c), l, Nibbles(u, v, e))
<1>0. /\ 2 \in Bits /\ KeepsAbove(\hAA, 1) /\ KeepsAbove(\hCC, 2)
      /\ KeepsAbove(\h22, 1)
  BY MaskBits DEF Bits, KeepsAbove, KeepsBelow
<1>1. ASSUME NEW low, NEW other, NEW low0, NEW other0, Agree(low, l, low0), Agree(other, l, other0)
      PROVE  Agree(NibblesOf(low, other), l, NibblesOf(low0, other0))
  <2> DEFINE A(o) == Masked(Xor(ShiftL(o, 2, 64), o), \hCC)
             B(w) == Scaled(ShiftR(Masked(w, \hCC), 2), \h22)
  <2>1. \A o : A(o) = Xor(Masked(ShiftL(o, 2, 64), \hCC), Masked(o, \hCC))
    BY MaskedParts
  <2>2. Agree(A(other), l, A(other0))
    <3> HIDE DEF A
    <3> QED
      BY <1>0, <1>1, <2>1, AgreeShiftLMasked, AgreeMasked, AgreeXor
  <2>3. Agree(B(low), l, B(low0))
    BY <1>0, <1>1, AgreeDown, AgreeScaled
  <2>4. /\ NibblesOf(low, other) = Xor(Xor(low, A(other)), B(low))
        /\ NibblesOf(low0, other0) = Xor(Xor(low0, A(other0)), B(low0))
    BY DEF NibblesOf
  <2> HIDE DEF A, B
  <2> QED
    BY <1>1, <2>2, <2>3, <2>4, AgreeXor
<1>2. /\ Agree(Product(x, y, \hAA), l, Product(u, v, \hAA))
      /\ Agree(Product(c, y, \hAA), l, Product(e, v, \hAA))
  BY <1>0, AgreeProduct
<1> QED
  BY <1>1, <1>2, NibblesAre

(* Where the bits of a shifted, masked or added word are in their lanes    *)
LEMMA BelowUp ==
  ASSUME NEW x \in SUBSET Wide, NEW n \in Bits, NEW j \in Bits, NEW k \in Bits,
         Below(x, j), j = k + n
  PROVE  Below(ShiftL(x, n, 64), k)
<1> SUFFICES ASSUME NEW b \in x, b + n < 64 PROVE (b + n) % 8 \in 0..(7 - k)
  BY DEF Below, ShiftL
<1>1. b \in 0..63 /\ b % 8 \in 0..(7 - j)
  BY DEF Below, Wide
<1>2. (b + n) % 8 = (b % 8) + n
  BY <1>1 DEF Bits
<1> QED
  BY <1>1, <1>2 DEF Bits

LEMMA BelowDown ==
  ASSUME NEW x \in SUBSET Wide, NEW n \in Bits, NEW k \in Bits, Below(x, k), Above(x, n)
  PROVE  Below(ShiftR(x, n), k)
<1> SUFFICES ASSUME NEW b \in x PROVE (b - n) % 8 \in 0..(7 - k)
  BY DEF Below, ShiftR
<1>1. b \in 0..63 /\ b % 8 \in 0..(7 - k) /\ b % 8 \in n..7
  BY DEF Below, Above, Wide
<1>2. (b - n) % 8 = (b % 8) - n
  BY <1>1 DEF Bits
<1> QED
  BY <1>1, <1>2 DEF Bits

LEMMA AboveDown ==
  ASSUME NEW x \in SUBSET Wide, NEW n \in Bits, NEW j \in Bits, NEW k \in Bits,
         Above(x, j), j = k + n
  PROVE  Above(ShiftR(x, n), k)
<1> SUFFICES ASSUME NEW b \in x PROVE (b - n) % 8 \in k..7
  BY DEF Above, ShiftR
<1>1. b \in 0..63 /\ b % 8 \in j..7
  BY DEF Above, Wide
<1>2. (b - n) % 8 = (b % 8) - n
  BY <1>1 DEF Bits
<1> QED
  BY <1>1, <1>2 DEF Bits

LEMMA BelowSets ==
  ASSUME NEW x, NEW y, NEW k, Below(x, k), Below(y, k)
  PROVE  Below(Xor(x, y), k) /\ Below(x \cup y, k)
BY DEF Below, Xor

LEMMA AboveSets ==
  ASSUME NEW x, NEW y, NEW k, Above(x, k), Above(y, k)
  PROVE  Above(Xor(x, y), k) /\ Above(x \cup y, k)
BY DEF Above, Xor

LEMMA BelowPart ==
  ASSUME NEW x, NEW y, NEW k, NEW m, Below(x, k)
  PROVE  Below(Masked(x, m), k) /\ Below(y \cap x, k)
BY DEF Below, Masked

(* what each lane's own bits determine                                     *)
NormD(t) ==
  Xor(Masked(t, \hC0), Masked(ShiftL(t, 2, 64), \hC0)) \cup Scaled(ShiftR(Masked(t, \hC0), 2), \h20)

LEMMA NormIs == \A p : Norm(p) = Masked(Xor(p, ShiftR(NormD(Scaled(p, \hA0)), 4)), \h0F)
BY DEF Norm, NormD, Once

LEMMA AgreeWide == ASSUME NEW l, NEW x, NEW u, Agree(x, l, u) PROVE x \in SUBSET Wide /\ u \in SUBSET Wide
BY DEF Agree

LEMMA MaskedWide == \A x \in SUBSET Wide : \A m : Masked(x, m) \in SUBSET Wide
BY DEF Masked

LEMMA ScaledAbove ==
  ASSUME NEW x \in SUBSET Wide
  PROVE  Above(Scaled(x, \h20), 4)
<1>0. KeepsAbove(\h20, 5) /\ KeepsAbove(\h20, 4) /\ {1, 4, 5} \subseteq Bits
  BY MaskBits DEF Bits, KeepsAbove
<1> DEFINE top == Masked(x, \h20)
<1>1. top \in SUBSET Wide /\ Above(top, 5) /\ Above(top, 4)
  BY <1>0, MaskedWide, MaskedKeeps
<1>2. Above(ShiftR(top, 1), 4)
  <2>1. 5 = 4 + 1
    OBVIOUS
  <2> HIDE DEF top
  <2> QED
    BY <1>0, <1>1, <2>1, AboveDown
<1>3. Above(Masked(ShiftL(x, 1, 64), \h20), 4)
  BY <1>0, MaskedKeeps
<1>4. Scaled(x, \h20) = Xor(top \cup ShiftR(top, 1), Masked(ShiftL(x, 1, 64), \h20))
  BY DEF Scaled
<1> HIDE DEF top
<1> QED
  BY <1>1, <1>2, <1>3, <1>4, AboveSets

LEMMA AgreeNorm ==
  ASSUME NEW l \in Lane64, NEW p, NEW q, Agree(p, l, q)
  PROVE  Agree(Norm(p), l, Norm(q))
<1>0. /\ KeepsAbove(\hC0, 2) /\ KeepsAbove(\hC0, 4) /\ KeepsAbove(\h20, 1) /\ KeepsAbove(\hA0, 1)
      /\ {1, 2, 4} \subseteq Bits
  BY MaskBits DEF Bits, KeepsAbove
<1>1. ASSUME NEW t, NEW t0, Agree(t, l, t0)
      PROVE  Agree(NormD(t), l, NormD(t0))
  <2>1. Agree(Masked(t, \hC0), l, Masked(t0, \hC0))
    BY <1>1, AgreeMasked
  <2>2. Agree(Masked(ShiftL(t, 2, 64), \hC0), l, Masked(ShiftL(t0, 2, 64), \hC0))
    BY <1>0, <1>1, AgreeShiftLMasked
  <2>3. Agree(ShiftR(Masked(t, \hC0), 2), l, ShiftR(Masked(t0, \hC0), 2))
    BY <1>0, <1>1, AgreeDown
  <2>4. Agree(Scaled(ShiftR(Masked(t, \hC0), 2), \h20), l, Scaled(ShiftR(Masked(t0, \hC0), 2), \h20))
    BY <1>0, <2>3, AgreeScaled
  <2>5. Agree(Xor(Masked(t, \hC0), Masked(ShiftL(t, 2, 64), \hC0)), l,
              Xor(Masked(t0, \hC0), Masked(ShiftL(t0, 2, 64), \hC0)))
    BY <2>1, <2>2, AgreeXor
  <2> QED
    BY <2>4, <2>5, AgreeCup DEF NormD
<1>2. ASSUME NEW t \in SUBSET Wide
      PROVE  Above(NormD(t), 4)
  <2>1. Above(Masked(t, \hC0), 4) /\ Above(Masked(ShiftL(t, 2, 64), \hC0), 4)
    BY <1>0, MaskedKeeps
  <2>2. ShiftR(Masked(t, \hC0), 2) \in SUBSET Wide
    BY <1>0, ShiftedWide, MaskedWide
  <2>3. Above(Scaled(ShiftR(Masked(t, \hC0), 2), \h20), 4)
    BY <2>2, ScaledAbove
  <2> DEFINE c == Xor(Masked(t, \hC0), Masked(ShiftL(t, 2, 64), \hC0))
             s == Scaled(ShiftR(Masked(t, \hC0), 2), \h20)
  <2>4. Above(c, 4)
    BY <2>1, AboveSets
  <2>5. Above(s, 4)
    BY <2>3
  <2>6. NormD(t) = c \cup s
    BY DEF NormD
  <2> HIDE DEF c, s
  <2> QED
    BY <2>4, <2>5, <2>6, AboveSets
<1> DEFINE e == NormD(Scaled(p, \hA0))
           e0 == NormD(Scaled(q, \hA0))
<1>3. Agree(Scaled(p, \hA0), l, Scaled(q, \hA0))
  BY <1>0, AgreeScaled
<1>4. Agree(e, l, e0) /\ Above(e, 4) /\ Above(e0, 4)
  BY <1>1, <1>2, <1>3, AgreeWide
<1> HIDE DEF e, e0
<1>5. Agree(ShiftR(e, 4), l, ShiftR(e0, 4))
  BY <1>0, <1>4, AgreeShiftR
<1>6. Norm(p) = Masked(Xor(p, ShiftR(e, 4)), \h0F) /\ Norm(q) = Masked(Xor(q, ShiftR(e0, 4)), \h0F)
  BY NormIs DEF e, e0
<1> QED
  BY <1>5, <1>6, AgreeXor, AgreeMasked

HalfOf(e, a2) == LET f == Product(e, a2, \h0A)
                 IN Masked(Xor(f, ShiftR(Scaled(f, \h08), 2)), \h03)
BothOf(g) == Xor(g, ShiftR(Masked(g, \h02), 1))
TwiceOf(h) == h \cup ShiftL(h, 2, 64)

LEMMA NibbleInverseIs ==
  \A e : LET a2 == Xor(e, ShiftR(Masked(e, \h0C), 2))
         IN NibbleInverse(e) = Product(a2, TwiceOf(BothOf(HalfOf(e, a2))), \h0A)
BY DEF NibbleInverse, HalfOf, BothOf, TwiceOf, Once

LEMMA ScaledAbove2 ==
  ASSUME NEW x \in SUBSET Wide
  PROVE  Above(Scaled(x, \h08), 2)
<1>0. KeepsAbove(\h08, 3) /\ KeepsAbove(\h08, 2) /\ {1, 2, 3} \subseteq Bits
  BY MaskBits DEF Bits, KeepsAbove
<1> DEFINE top == Masked(x, \h08)
<1>1. top \in SUBSET Wide /\ Above(top, 3) /\ Above(top, 2)
  BY <1>0, MaskedWide, MaskedKeeps
<1>2. Above(ShiftR(top, 1), 2)
  <2>1. 3 = 2 + 1
    OBVIOUS
  <2> HIDE DEF top
  <2> QED
    BY <1>0, <1>1, <2>1, AboveDown
<1>3. Above(Masked(ShiftL(x, 1, 64), \h08), 2)
  BY <1>0, MaskedKeeps
<1>4. Scaled(x, \h08) = Xor(top \cup ShiftR(top, 1), Masked(ShiftL(x, 1, 64), \h08))
  BY DEF Scaled
<1> HIDE DEF top
<1> QED
  BY <1>1, <1>2, <1>3, <1>4, AboveSets

LEMMA AgreeHalf ==
  ASSUME NEW l \in Lane64, NEW e, NEW a, NEW e0, NEW a0, Agree(e, l, e0), Agree(a, l, a0)
  PROVE  /\ Agree(HalfOf(e, a), l, HalfOf(e0, a0))
         /\ Below(HalfOf(e, a), 6) /\ Below(HalfOf(e0, a0), 6)
<1>0. KeepsAbove(\h0A, 1) /\ KeepsAbove(\h08, 1) /\ KeepsBelow(\h03, 6) /\ 2 \in Bits
  BY MaskBits DEF Bits, KeepsAbove, KeepsBelow
<1> DEFINE f == Product(e, a, \h0A)
           f0 == Product(e0, a0, \h0A)
<1>1. Agree(f, l, f0)
  BY <1>0, AgreeProduct
<1>2. /\ HalfOf(e, a) = Masked(Xor(f, ShiftR(Scaled(f, \h08), 2)), \h03)
      /\ HalfOf(e0, a0) = Masked(Xor(f0, ShiftR(Scaled(f0, \h08), 2)), \h03)
  BY DEF HalfOf
<1> HIDE DEF f, f0
<1>3. Agree(Scaled(f, \h08), l, Scaled(f0, \h08)) /\ Above(Scaled(f, \h08), 2) /\ Above(Scaled(f0, \h08), 2)
  BY <1>0, <1>1, AgreeScaled, ScaledAbove2, AgreeWide
<1>4. Agree(ShiftR(Scaled(f, \h08), 2), l, ShiftR(Scaled(f0, \h08), 2))
  BY <1>0, <1>3, AgreeShiftR
<1>5. Agree(HalfOf(e, a), l, HalfOf(e0, a0))
  BY <1>1, <1>2, <1>4, AgreeXor, AgreeMasked
<1> QED
  BY <1>0, <1>2, <1>5, MaskedKeeps

LEMMA AgreeBoth ==
  ASSUME NEW l \in Lane64, NEW g, NEW g0, Agree(g, l, g0), Below(g, 6), Below(g0, 6)
  PROVE  Agree(BothOf(g), l, BothOf(g0)) /\ Below(BothOf(g), 6) /\ Below(BothOf(g0), 6)
<1>0. KeepsAbove(\h02, 1) /\ {1, 6} \subseteq Bits
  BY MaskBits DEF Bits, KeepsAbove
<1>1. Agree(BothOf(g), l, BothOf(g0))
  <2>1. Agree(ShiftR(Masked(g, \h02), 1), l, ShiftR(Masked(g0, \h02), 1))
    BY <1>0, AgreeDown
  <2> QED
    BY <2>1, AgreeXor DEF BothOf
<1>2. ASSUME NEW x \in SUBSET Wide, Below(x, 6)
      PROVE  Below(BothOf(x), 6)
  <2>1. Masked(x, \h02) \in SUBSET Wide /\ Below(Masked(x, \h02), 6) /\ Above(Masked(x, \h02), 1)
    BY <1>0, <1>2, MaskedWide, MaskedKeeps, BelowPart
  <2>2. Below(ShiftR(Masked(x, \h02), 1), 6)
    BY <1>0, <2>1, BelowDown
  <2> QED
    BY <1>2, <2>2, BelowSets DEF BothOf
<1> QED
  BY <1>1, <1>2, AgreeWide

LEMMA BelowLess ==
  /\ \A x : Below(x, 6) => Below(x, 4) /\ Below(x, 2)
BY DEF Below

LEMMA AgreeTwice ==
  ASSUME NEW l \in Lane64, NEW h, NEW h0, Agree(h, l, h0), Below(h, 6), Below(h0, 6)
  PROVE  Agree(TwiceOf(h), l, TwiceOf(h0)) /\ Below(TwiceOf(h), 4) /\ Below(TwiceOf(h0), 4)
<1>0. {2, 4, 6} \subseteq Bits /\ 6 = 4 + 2
  BY DEF Bits
<1>1. Agree(TwiceOf(h), l, TwiceOf(h0))
  <2>1. Below(h, 2) /\ Below(h0, 2)
    BY BelowLess
  <2>2. Agree(ShiftL(h, 2, 64), l, ShiftL(h0, 2, 64))
    BY <1>0, <2>1, AgreeShiftL
  <2> QED
    BY <2>2, AgreeCup DEF TwiceOf
<1>2. ASSUME NEW x \in SUBSET Wide, Below(x, 6)
      PROVE  Below(TwiceOf(x), 4)
  <2>1. Below(ShiftL(x, 2, 64), 4)
    BY <1>0, <1>2, BelowUp
  <2> QED
    BY <1>2, <2>1, BelowSets, BelowLess DEF TwiceOf
<1> QED
  BY <1>1, <1>2, AgreeWide

LEMMA ProductBelow ==
  ASSUME NEW x, NEW y \in SUBSET Wide, Below(y, 4)
  PROVE  Below(Product(x, y, \h0A), 4)
<1>0. KeepsAbove(\h0A, 1) /\ KeepsBelow(\h0A, 4) /\ {1, 4} \subseteq Bits
  BY MaskBits DEF Bits, KeepsAbove, KeepsBelow
<1> DEFINE p == x \cap y
           cross == Xor(ShiftL(x, 1, 64) \cap y, ShiftL(y, 1, 64) \cap x)
<1>1. p \in SUBSET Wide /\ Below(p, 4)
  BY BelowPart
<1>2. Product(x, y, \h0A) = Xor(Xor(p, ShiftR(Masked(p, \h0A), 1)), Masked(cross, \h0A))
  BY DEF Product
<1> HIDE DEF p, cross
<1>3. Masked(p, \h0A) \in SUBSET Wide /\ Below(Masked(p, \h0A), 4) /\ Above(Masked(p, \h0A), 1)
  BY <1>0, <1>1, MaskedWide, MaskedKeeps, BelowPart
<1>4. Below(ShiftR(Masked(p, \h0A), 1), 4)
  BY <1>0, <1>3, BelowDown
<1>5. Below(Masked(cross, \h0A), 4)
  BY <1>0, MaskedKeeps
<1> QED
  BY <1>1, <1>2, <1>4, <1>5, BelowSets

LEMMA AgreeNibbleInverse ==
  ASSUME NEW l \in Lane64, NEW e, NEW e0, Agree(e, l, e0)
  PROVE  /\ Agree(NibbleInverse(e), l, NibbleInverse(e0))
         /\ Below(NibbleInverse(e), 4) /\ Below(NibbleInverse(e0), 4)
<1>0. KeepsAbove(\h0A, 1) /\ KeepsAbove(\h0C, 2) /\ 2 \in Bits
  BY MaskBits DEF Bits, KeepsAbove
<1> DEFINE a == Xor(e, ShiftR(Masked(e, \h0C), 2))
           a0 == Xor(e0, ShiftR(Masked(e0, \h0C), 2))
           h == TwiceOf(BothOf(HalfOf(e, a)))
           h0 == TwiceOf(BothOf(HalfOf(e0, a0)))
<1>1. Agree(a, l, a0)
  BY <1>0, AgreeDown, AgreeXor
<1>2. NibbleInverse(e) = Product(a, h, \h0A) /\ NibbleInverse(e0) = Product(a0, h0, \h0A)
  BY NibbleInverseIs
<1>3. Agree(h, l, h0) /\ Below(h, 4) /\ Below(h0, 4)
  <2> HIDE DEF a, a0
  <2>1. /\ Agree(HalfOf(e, a), l, HalfOf(e0, a0))
        /\ Below(HalfOf(e, a), 6) /\ Below(HalfOf(e0, a0), 6)
    BY <1>1, AgreeHalf
  <2>2. /\ Agree(BothOf(HalfOf(e, a)), l, BothOf(HalfOf(e0, a0)))
        /\ Below(BothOf(HalfOf(e, a)), 6) /\ Below(BothOf(HalfOf(e0, a0)), 6)
    BY <2>1, AgreeBoth
  <2> QED
    BY <2>2, AgreeTwice
<1> HIDE DEF a, a0, h, h0
<1> QED
  BY <1>0, <1>1, <1>2, <1>3, AgreeProduct, ProductBelow, AgreeWide

InvertedOf(x, a1) ==
  LET k == NibbleInverse(Norm(Nibbles(x, a1, Crossed(x))))
  IN Nibbles(a1, k \cup ShiftL(k, 4, 64), Crossed(a1))

LEMMA InvertedIs == \A x : Inverted(x) = InvertedOf(x, Xor(x, ShiftR(Masked(x, \hF0), 4)))
BY DEF Inverted, InvertedOf, Once

LEMMA AgreeInverted ==
  ASSUME NEW l \in Lane64, NEW x, NEW x0, Agree(x, l, x0)
  PROVE  Agree(Inverted(x), l, Inverted(x0))
<1>0. KeepsAbove(\hF0, 4) /\ 4 \in Bits
  BY MaskBits DEF Bits, KeepsAbove
<1> DEFINE a == Xor(x, ShiftR(Masked(x, \hF0), 4))
           a0 == Xor(x0, ShiftR(Masked(x0, \hF0), 4))
           k == NibbleInverse(Norm(Nibbles(x, a, Crossed(x))))
           k0 == NibbleInverse(Norm(Nibbles(x0, a0, Crossed(x0))))
<1>1. Agree(a, l, a0)
  BY <1>0, AgreeDown, AgreeXor
<1>2. /\ Inverted(x) = Nibbles(a, k \cup ShiftL(k, 4, 64), Crossed(a))
      /\ Inverted(x0) = Nibbles(a0, k0 \cup ShiftL(k0, 4, 64), Crossed(a0))
  BY InvertedIs DEF InvertedOf
<1>3. Agree(k, l, k0) /\ Below(k, 4) /\ Below(k0, 4)
  <2> HIDE DEF a, a0
  <2>1. Agree(Nibbles(x, a, Crossed(x)), l, Nibbles(x0, a0, Crossed(x0)))
    BY <1>1, AgreeCrossed, AgreeNibbles
  <2>2. Agree(Norm(Nibbles(x, a, Crossed(x))), l, Norm(Nibbles(x0, a0, Crossed(x0))))
    BY <2>1, AgreeNorm
  <2> QED
    BY <2>2, AgreeNibbleInverse
<1> HIDE DEF a, a0, k, k0
<1>4. Below(k, 4) /\ Below(k0, 4) /\ Agree(k \cup ShiftL(k, 4, 64), l, k0 \cup ShiftL(k0, 4, 64))
  <2>1. Agree(ShiftL(k, 4, 64), l, ShiftL(k0, 4, 64))
    BY <1>0, <1>3, AgreeShiftL
  <2> QED
    BY <1>3, <2>1, AgreeCup
<1> QED
  BY <1>1, <1>2, <1>4, AgreeCrossed, AgreeNibbles

LEMMA TurnedBit ==
  ASSUME NEW x \in SUBSET Wide, NEW n \in Bits, NEW l \in Lane64, NEW d \in Bits
  PROVE  d + 8 * l \in Turned(x, n) <=> ((d + n) % 8) + 8 * l \in x
<1>1. ASSUME NEW b \in x, d + 8 * l = 8 * (b \div 8) + ((b - n) % 8)
      PROVE  b = ((d + n) % 8) + 8 * l
  <2>1. PICK q \in Lane64, r \in Bits : b = r + 8 * q /\ q = b \div 8 /\ r = b % 8
    BY LaneOf
  <2>2. (b - n) % 8 = (r - n) % 8 /\ (r - n) % 8 \in Bits
    BY <2>1 DEF Bits, Lane64
  <2>3. q = l /\ (r - n) % 8 = d
    BY <1>1, <2>1, <2>2 DEF Bits, Lane64
  <2>4. (d + n) % 8 = r
    BY <2>3 DEF Bits
  <2> QED
    BY <2>1, <2>3, <2>4
<1>2. ASSUME NEW b, b = ((d + n) % 8) + 8 * l
      PROVE  d + 8 * l = 8 * (b \div 8) + ((b - n) % 8)
  <2>1. PICK r : r = (d + n) % 8
    OBVIOUS
  <2>2. r \in Bits /\ (r - n) % 8 = d
    BY <2>1 DEF Bits
  <2>3. b = r + 8 * l /\ b \div 8 = l
    BY <1>2, <2>1, <2>2, LaneBit
  <2>4. (b - n) % 8 = (r - n) % 8
    BY <2>2, <2>3 DEF Bits, Lane64
  <2> QED
    BY <2>2, <2>3, <2>4 DEF Bits, Lane64
<1> QED
  BY <1>1, <1>2 DEF Turned

LEMMA TurnedWide ==
  ASSUME NEW x \in SUBSET Wide, NEW n \in Bits
  PROVE  Turned(x, n) \in SUBSET Wide
<1> SUFFICES ASSUME NEW b \in x PROVE 8 * (b \div 8) + ((b - n) % 8) \in Wide
  BY DEF Turned
<1>1. b \in Wide
  OBVIOUS
<1>2. b \div 8 \in 0..7 /\ (b - n) % 8 \in 0..7
  BY <1>1 DEF Wide, Bits
<1> QED
  BY <1>2 DEF Wide

LEMMA AgreeTurned ==
  ASSUME NEW l \in Lane64, NEW x, NEW u, NEW n \in Bits, Agree(x, l, u)
  PROVE  Agree(Turned(x, n), l, Turned(u, n))
<1>1. ASSUME NEW d \in Bits
      PROVE  d + 8 * l \in Turned(x, n) <=> d \in Turned(u, n)
  <2>1. PICK e : e = (d + n) % 8
    OBVIOUS
  <2>2. e \in Bits /\ 0 \in Lane64 /\ d + 8 * 0 = d /\ e + 8 * 0 = e
    BY <2>1 DEF Bits, Lane64
  <2>3. d + 8 * l \in Turned(x, n) <=> e + 8 * l \in x
    BY <2>1, TurnedBit, AgreeWide
  <2>4. d + 8 * 0 \in Turned(u, n) <=> e + 8 * 0 \in u
    BY ONLY <2>1, <2>2, TurnedBit, AgreeWide, Agree(x, l, u), n \in Bits, d \in Bits
  <2> QED
    BY <2>2, <2>3, <2>4 DEF Agree
<1> QED
  BY <1>1, TurnedWide DEF Agree

LEMMA AgreeLinear ==
  ASSUME NEW l \in Lane64, NEW x, NEW u, NEW m, Agree(x, l, u)
  PROVE  Agree(Linear(x, m), l, Linear(u, m))
<1> DEFINE Term(w, n) == Masked(Turned(w, n), m[n + 1])
           At(w, b) == {n \in 0..7 : b \in Term(w, n)}
<1>1. \A w : Linear(w, m) = {b \in Wide : Cardinality(At(w, b)) % 2 = 1}
  <2> TAKE w
  <2> DEFINE f == [n \in 0..7 |-> Masked(Turned(w, n), m[n + 1])]
  <2>1. Linear(w, m) = {b \in Wide : Cardinality({n \in 0..7 : b \in f[n]}) % 2 = 1}
    <3> DEFINE g == Tabulated(f)
    <3>1. Linear(w, m) = {b \in Wide : Cardinality({n \in 0..7 : b \in g[n]}) % 2 = 1}
      BY DEF Linear
    <3>2. g = f
      BY TabulatedIs
    <3> HIDE DEF f, g
    <3> QED
      BY <3>1, <3>2
  <2>2. \A b : {n \in 0..7 : b \in f[n]} = At(w, b)
    OBVIOUS
  <2> QED
    BY <2>1, <2>2
<1>2. ASSUME NEW d \in Bits
      PROVE  At(x, d + 8 * l) = At(u, d)
  <2>1. ASSUME NEW n \in 0..7
        PROVE  d + 8 * l \in Term(x, n) <=> d \in Term(u, n)
    <3>1. Agree(Term(x, n), l, Term(u, n))
      BY AgreeTurned, AgreeMasked DEF Bits
    <3> HIDE DEF Term
    <3> QED
      BY <3>1 DEF Agree
  <2> HIDE DEF Term
  <2> QED
    BY <2>1
<1> HIDE DEF At
<1>3. ASSUME NEW d \in Bits
      PROVE  d + 8 * l \in Linear(x, m) <=> d \in Linear(u, m)
  BY <1>1, <1>2, LaneBit, LowBit
<1> QED
  BY <1>1, <1>3 DEF Agree

LEMMA AgreeLanes == \A l \in Lane64 : \A m : Agree(Lanes(m), l, Lanes(m))
BY LaneBit, LowBit DEF Agree, Lanes, Masked

LEMMA AgreeSub ==
  ASSUME NEW l \in Lane64, NEW x, NEW u, Agree(x, l, u)
  PROVE  Agree(SubLong(x), l, SubLong(u)) /\ Agree(InvSubLong(x), l, InvSubLong(u))
<1>1. Agree(SubLong(x), l, SubLong(u))
  <2>1. \E m, n : \A w : SubLong(w) = Xor(Linear(Inverted(Linear(w, m)), n), Lanes(\h63))
    BY DEF SubLong
  <2>2. PICK m, n : \A w : SubLong(w) = Xor(Linear(Inverted(Linear(w, m)), n), Lanes(\h63))
    BY <2>1
  <2>3. Agree(Linear(Inverted(Linear(x, m)), n), l, Linear(Inverted(Linear(u, m)), n))
    BY AgreeLinear, AgreeInverted
  <2> QED
    BY <2>2, <2>3, AgreeXor, AgreeLanes
<1>2. Agree(InvSubLong(x), l, InvSubLong(u))
  <2>1. \E m, n : \A w : InvSubLong(w) = Linear(Inverted(Linear(Xor(w, Lanes(\h63)), m)), n)
    BY DEF InvSubLong
  <2>2. PICK m, n : \A w : InvSubLong(w) = Linear(Inverted(Linear(Xor(w, Lanes(\h63)), m)), n)
    BY <2>1
  <2>3. Agree(Xor(x, Lanes(\h63)), l, Xor(u, Lanes(\h63)))
    BY AgreeXor, AgreeLanes
  <2>4. Agree(Linear(Inverted(Linear(Xor(x, Lanes(\h63)), m)), n), l,
              Linear(Inverted(Linear(Xor(u, Lanes(\h63)), m)), n))
    BY <2>3, AgreeLinear, AgreeInverted
  <2> QED
    BY <2>2, <2>4
<1> QED
  BY <1>1, <1>2

(* Byte l of a word of 64 bits, which ByteOf reads                         *)
LEMMA WideByte ==
  ASSUME NEW w \in SUBSET Wide, NEW l \in Lane64
  PROVE  /\ ByteOf(w, l) \in Byte
         /\ \A d \in Bits : d \in ByteOf(w, l) <=> d + 8 * l \in w
         /\ Agree(w, l, ByteOf(w, l))
<1>1. \A c \in w : c \in 0..63
  BY DEF Wide
<1>2. ByteOf(w, l) \in Byte
  BY <1>1 DEF ByteOf, Byte, Bits, Lane64
<1>3. \A d \in Bits : d \in ByteOf(w, l) <=> d + 8 * l \in w
  BY <1>1, LaneBit DEF ByteOf, Bits, Lane64
<1>4. ByteOf(w, l) \subseteq Wide
  BY <1>2 DEF Byte, Bits, Wide
<1> QED
  BY <1>2, <1>3, <1>4 DEF Agree

(* words that agree at a lane have the same byte there                     *)
LEMMA SameByte ==
  ASSUME NEW l \in Lane64, NEW x, NEW u, Agree(x, l, u)
  PROVE  ByteOf(x, l) = ByteOf(u, 0)
<1>1. 0 \in Lane64 /\ \A d \in Bits : d + 8 * 0 = d
  BY DEF Lane64, Bits
<1>2. /\ ByteOf(x, l) \in Byte /\ ByteOf(u, 0) \in Byte
      /\ \A d \in Bits : d \in ByteOf(x, l) <=> d + 8 * l \in x
      /\ \A d \in Bits : d \in ByteOf(u, 0) <=> d + 8 * 0 \in u
  BY ONLY <1>1, WideByte, AgreeWide, Agree(x, l, u), l \in Lane64
<1> QED
  BY <1>1, <1>2 DEF Agree, Byte

LEMMA SubBytes ==
  ASSUME NEW w \in SUBSET Wide
  PROVE  /\ SubLong(w) \in SUBSET Wide /\ InvSubLong(w) \in SUBSET Wide
         /\ \A l \in Lane64 : /\ ByteOf(SubLong(w), l) = e_sbox[ByteOf(w, l)]
                              /\ ByteOf(InvSubLong(w), l) = d_sbox[ByteOf(w, l)]
<1>1. ASSUME NEW l \in Lane64
      PROVE  /\ SubLong(w) \in SUBSET Wide /\ InvSubLong(w) \in SUBSET Wide
             /\ ByteOf(SubLong(w), l) = e_sbox[ByteOf(w, l)]
             /\ ByteOf(InvSubLong(w), l) = d_sbox[ByteOf(w, l)]
  <2>1. Agree(w, l, ByteOf(w, l)) /\ ByteOf(w, l) \in Byte
    BY WideByte
  <2>2. Agree(SubLong(w), l, SubLong(ByteOf(w, l))) /\ Agree(InvSubLong(w), l, InvSubLong(ByteOf(w, l)))
    BY <2>1, AgreeSub
  <2> QED
    BY <2>1, <2>2, SameByte, AgreeWide, TablesAssumption
<1>2. 0 \in Lane64
  BY DEF Lane64
<1> QED
  BY <1>1, <1>2

------------------------------------------------------------------------------
(* The macros and the columns.                                             *)

Tw(v) == XT2(v) \cap Bits

LEMMA ByteSame ==
  ASSUME NEW x \in Byte, NEW y \in Byte, \A d \in Bits : d \in x <=> d \in y
  PROVE  x = y
BY DEF Byte

LEMMA TwBits ==
  ASSUME NEW v \in SUBSET Int
  PROVE  /\ Tw(v) \in Byte
         /\ \A d \in Bits : d \in Tw(v) <=> ~((d - 1 \in v) <=> (7 \in v /\ d \in {0, 1, 3, 4}))
<1>1. \A d \in Bits : d \in {b + 1 : b \in v} <=> d - 1 \in v
  BY DEF Bits
<1> QED
  BY <1>1 DEF Tw, XT2, Xor, Byte

LEMMA XtimeBytes ==
  ASSUME NEW w \in SUBSET Wide
  PROVE  /\ XtimeLong(w) \in SUBSET Wide
         /\ \A l \in Lane64 : ByteOf(XtimeLong(w), l) = Tw(ByteOf(w, l))
<1> DEFINE b == UNION {{8 * (t \div 8) + j : j \in 0..6} : t \in Masked(w, \h80)}
           s == ShiftL(Masked(w, \h7F), 1, 64)
<1>0. KeepsBelow(\h7F, 1) /\ 1 \in Bits
  BY MaskBits DEF Bits, KeepsBelow
<1>1. XtimeLong(w) = Xor(Masked(b, \h1B), s)
  BY DEF XtimeLong
<1>2. ASSUME NEW c \in b
      PROVE  c \in Wide
  <2>1. PICK t \in w, j \in 0..6 : c = 8 * (t \div 8) + j
    BY DEF Masked
  <2>2. t \div 8 \in 0..7
    BY DEF Wide
  <2> QED
    BY <2>1, <2>2 DEF Wide
<1>3. ASSUME NEW l \in Lane64, NEW d \in Bits
      PROVE  d + 8 * l \in b <=> d \in 0..6 /\ 7 + 8 * l \in w
  <2>1. 7 \in Bits
    BY DEF Bits
  <2>2. ASSUME NEW t \in w, t % 8 = 7, NEW j \in 0..6, d + 8 * l = 8 * (t \div 8) + j
        PROVE  d \in 0..6 /\ t = 7 + 8 * l
    <3>1. t = 7 + 8 * (t \div 8) /\ t \div 8 \in Lane64
      BY <2>2, LaneOf
    <3>2. PICK q \in 0..7 : q = t \div 8
      BY <3>1 DEF Lane64
    <3>3. q = l /\ j = d
      BY <2>2, <3>2 DEF Lane64, Bits
    <3> QED
      BY <3>1, <3>2, <3>3
  <2>3. (7 + 8 * l) % 8 = 7 /\ (7 + 8 * l) \div 8 = l
    BY <2>1, LaneBit
  <2>4. \A t : t \in Masked(w, \h80) <=> t \in w /\ t % 8 = 7
    BY MaskBits DEF Masked
  <2>5. d + 8 * l = 8 * l + d
    BY DEF Bits, Lane64
  <2>6. ASSUME d + 8 * l \in b
        PROVE  d \in 0..6 /\ 7 + 8 * l \in w
    <3>1. PICK t \in Masked(w, \h80), j \in 0..6 : d + 8 * l = 8 * (t \div 8) + j
      BY <2>6
    <3> QED
      BY <3>1, <2>2, <2>4
  <2>7. ASSUME d \in 0..6, 7 + 8 * l \in w
        PROVE  d + 8 * l \in b
    <3>1. 7 + 8 * l \in Masked(w, \h80)
      BY <2>3, <2>4, <2>7
    <3>2. d + 8 * l = 8 * ((7 + 8 * l) \div 8) + d
      BY <2>3, <2>5
    <3> DEFINE Run(t) == {8 * (t \div 8) + j : j \in 0..6}
    <3>3. d + 8 * l \in Run(7 + 8 * l)
      BY <2>7, <3>2
    <3>4. b = UNION {Run(t) : t \in Masked(w, \h80)}
      OBVIOUS
    <3> HIDE DEF Run, b
    <3> QED
      BY <3>1, <3>3, <3>4
  <2> QED
    BY <2>6, <2>7
<1>4. ASSUME NEW l \in Lane64, NEW d \in Bits
      PROVE  d + 8 * l \in s <=> (d - 1) \in ByteOf(w, l)
  <2>1. Masked(w, \h7F) \in SUBSET Wide
    BY MaskedWide
  <2>2. d + 8 * l \in s <=> (d - 1) + 8 * l \in Masked(w, \h7F)
    BY <1>0, <2>1, ShiftedBit
  <2>3. CASE d = 0
    <3>1. ((d - 1) + 8 * l) % 8 = 7
      BY <2>3 DEF Lane64
    <3>2. (d - 1) + 8 * l \notin Masked(w, \h7F)
      BY <3>1, MaskBits DEF Masked
    <3>3. d - 1 \notin ByteOf(w, l)
      BY <2>3, WideByte DEF Byte, Bits
    <3> QED
      BY <2>2, <3>2, <3>3
  <2>4. CASE d # 0
    <3>1. PICK e : e = d - 1
      OBVIOUS
    <3>2. e \in 0..6 /\ e \in Bits
      BY <2>4, <3>1 DEF Bits
    <3>3. (e + 8 * l) % 8 = e
      BY <3>2, LaneBit
    <3>4. e + 8 * l \in Masked(w, \h7F) <=> e + 8 * l \in w
      BY <3>2, <3>3, MaskBits DEF Masked
    <3>5. e \in ByteOf(w, l) <=> e + 8 * l \in w
      BY <3>2, WideByte
    <3> QED
      BY <3>1, <3>4, <3>5, <2>2
  <2> QED
    BY <2>3, <2>4
<1>5. s \in SUBSET Wide /\ Masked(b, \h1B) \in SUBSET Wide
  BY <1>0, <1>2, ShiftedWide, MaskedWide
<1> HIDE DEF b, s
<1>6. XtimeLong(w) \in SUBSET Wide
  BY <1>1, <1>5 DEF Xor
<1>7. ASSUME NEW l \in Lane64
      PROVE  ByteOf(XtimeLong(w), l) = Tw(ByteOf(w, l))
  <2>1. ASSUME NEW d \in Bits
        PROVE  d \in ByteOf(XtimeLong(w), l) <=> d \in Tw(ByteOf(w, l))
    <3>1. 7 \in Bits /\ (7 \in ByteOf(w, l) <=> 7 + 8 * l \in w)
      BY WideByte DEF Bits
    <3>2. (d + 8 * l) % 8 = d
      BY LaneBit
    <3>3. d + 8 * l \in Masked(b, \h1B) <=> d \in {0, 1, 3, 4} /\ 7 \in ByteOf(w, l)
      BY <1>3, <3>1, <3>2, MaskBits DEF Masked
    <3>4. d \in ByteOf(XtimeLong(w), l) <=> d + 8 * l \in XtimeLong(w)
      BY <1>6, WideByte
    <3>5. d + 8 * l \in XtimeLong(w) <=> ~(d + 8 * l \in Masked(b, \h1B) <=> d + 8 * l \in s)
      BY <1>1 DEF Xor
    <3>6. ByteOf(w, l) \in SUBSET Int
      BY WideByte DEF Byte, Bits
    <3> QED
      BY <1>4, <3>3, <3>4, <3>5, <3>6, TwBits
  <2>2. ByteOf(w, l) \in SUBSET Int /\ ByteOf(XtimeLong(w), l) \in Byte
    BY <1>6, WideByte DEF Byte, Bits
  <2> QED
    BY <2>1, <2>2, TwBits, ByteSame
<1> QED
  BY <1>6, <1>7

LEMMA WideXor ==
  ASSUME NEW x \in SUBSET Wide, NEW y \in SUBSET Wide
  PROVE  /\ Xor(x, y) \in SUBSET Wide
         /\ \A l \in Lane64 : ByteOf(Xor(x, y), l) = Xor(ByteOf(x, l), ByteOf(y, l))
<1>1. Xor(x, y) \in SUBSET Wide
  BY DEF Xor
<1>2. ASSUME NEW l \in Lane64
      PROVE  ByteOf(Xor(x, y), l) = Xor(ByteOf(x, l), ByteOf(y, l))
  <2>1. \A d \in Bits : d \in ByteOf(Xor(x, y), l) <=> d \in Xor(ByteOf(x, l), ByteOf(y, l))
    BY <1>1, WideByte DEF Xor
  <2> QED
    BY <1>1, <2>1, WideByte, XorBits, ByteSame
<1> QED
  BY <1>1, <1>2

LEMMA WideParts ==
  ASSUME NEW b \in Wide
  PROVE  \E d \in 0..7, r \in 0..3, c \in 0..1 : b = d + 8 * r + 32 * c
<1>1. b % 8 \in 0..7 /\ (b \div 8) % 4 \in 0..3 /\ b \div 32 \in 0..1
  BY DEF Wide
<1>2. b = (b % 8) + 8 * ((b \div 8) % 4) + 32 * (b \div 32)
  BY DEF Wide
<1> QED
  BY <1>1, <1>2

LaneFrom(l, m) == 4 * (l \div 4) + ((l - m) % 4)

LEMMA RotatedParts ==
  ASSUME NEW m \in {-1, 2}, NEW d \in 0..7, NEW r \in 0..3, NEW c \in 0..1
  PROVE  32 * ((d + 8 * r + 32 * c) \div 32) + (((d + 8 * r + 32 * c) + 8 * m) % 32)
           = d + 8 * (4 * c + ((r + m) % 4))
<1>1. (d + 8 * r + 32 * c) \div 32 = c
  OBVIOUS
<1>2. CASE m = 2
  BY <1>1, <1>2
<1>3. CASE m = -1
  BY <1>1, <1>3
<1> QED
  BY <1>2, <1>3

LEMMA RotatedColumnBytes ==
  ASSUME NEW x \in SUBSET Wide, NEW m \in {-1, 2}
  PROVE  /\ RotatedColumns(x, 8 * m) \in SUBSET Wide
         /\ \A l \in Lane64 : /\ LaneFrom(l, m) \in Lane64
                              /\ ByteOf(RotatedColumns(x, 8 * m), l) = ByteOf(x, LaneFrom(l, m))
<1> DEFINE y == RotatedColumns(x, 8 * m)
           To(b) == 32 * (b \div 32) + ((b + 8 * m) % 32)
<1>1. y = {To(b) : b \in x}
  BY DEF RotatedColumns
<1>2. \A d \in 0..7, r \in 0..3, c \in 0..1 : To(d + 8 * r + 32 * c) = d + 8 * (4 * c + ((r + m) % 4))
  BY RotatedParts
<1>3. \A r \in 0..3, c \in 0..1 : (r + m) % 4 \in 0..3 /\ 4 * c + ((r + m) % 4) \in Lane64
  BY DEF Lane64
<1> HIDE DEF y, To
<1>4. y \in SUBSET Wide
  <2> SUFFICES ASSUME NEW b \in x PROVE To(b) \in Wide
    BY <1>1
  <2>1. PICK d \in 0..7, r \in 0..3, c \in 0..1 : b = d + 8 * r + 32 * c
    BY WideParts
  <2>2. PICK k \in Lane64 : k = 4 * c + ((r + m) % 4)
    BY <1>3
  <2>3. To(b) = d + 8 * k /\ d \in Bits
    BY <1>2, <2>1, <2>2 DEF Bits
  <2> QED
    BY <2>3, LaneBit
<1>5. ASSUME NEW l \in Lane64
      PROVE  LaneFrom(l, m) \in Lane64 /\ ByteOf(y, l) = ByteOf(x, LaneFrom(l, m))
  <2>1. PICK q \in 0..3, c \in 0..1 : l = 4 * c + q /\ l \div 4 = c
    BY DEF Lane64
  <2>2. PICK r : r = (q - m) % 4
    OBVIOUS
  <2>3. r \in 0..3 /\ (r + m) % 4 = q
    BY <2>2
  <2>4. LaneFrom(l, m) = 4 * c + r
    BY <2>1, <2>2, <2>3 DEF LaneFrom
  <2>5. LaneFrom(l, m) \in Lane64
    BY <2>3, <2>4 DEF Lane64
  <2>6. ASSUME NEW d \in Bits
        PROVE  d + 8 * l \in y <=> d + 8 * LaneFrom(l, m) \in x
    <3>1. d + 8 * LaneFrom(l, m) = d + 8 * r + 32 * c
      BY <2>3, <2>4 DEF Bits
    <3>2. To(d + 8 * r + 32 * c) = d + 8 * l
      BY <1>2, <2>1, <2>3 DEF Bits
    <3>3. ASSUME NEW b \in x, To(b) = d + 8 * l
          PROVE  b = d + 8 * r + 32 * c
      <4>1. PICK dd \in 0..7, rr \in 0..3, cc \in 0..1 : b = dd + 8 * rr + 32 * cc
        BY WideParts
      <4>2. dd + 8 * (4 * cc + ((rr + m) % 4)) = d + 8 * (4 * c + q)
        BY <1>2, <2>1, <3>3, <4>1
      <4>3. PICK p \in 0..3 : p = (rr + m) % 4
        BY <1>3
      <4>4. dd = d /\ cc = c /\ p = q
        BY <4>2, <4>3 DEF Bits
      <4>5. rr = r
        BY <2>3, <4>3, <4>4
      <4> QED
        BY <4>1, <4>4, <4>5
    <3> QED
      BY <1>1, <3>1, <3>2, <3>3
  <2> QED
    BY <1>4, <2>5, <2>6, WideByte, ByteSame
<1> QED
  BY <1>4, <1>5 DEF y

LaneBeside(l) == 2 * (l \div 2) + ((l + 1) % 2)

LEMMA SwappedLaneBytes ==
  ASSUME NEW x \in SUBSET Wide
  PROVE  /\ SwappedBytes(x) \in SUBSET Wide
         /\ \A l \in Lane64 : /\ LaneBeside(l) \in Lane64
                              /\ ByteOf(SwappedBytes(x), l) = ByteOf(x, LaneBeside(l))
<1> DEFINE y == SwappedBytes(x)
           To(b) == 16 * (b \div 16) + ((b + 8) % 16)
<1>1. y = {To(b) : b \in x}
  BY DEF SwappedBytes
<1>2. ASSUME NEW d \in Bits, NEW l \in Lane64
      PROVE  To(d + 8 * l) = d + 8 * LaneBeside(l)
  <2>1. PICK c \in 0..3, q \in 0..1 : l = 2 * c + q
    BY DEF Lane64
  <2>2. CASE q = 0
    BY <2>1, <2>2 DEF LaneBeside, Bits
  <2>3. CASE q = 1
    BY <2>1, <2>3 DEF LaneBeside, Bits
  <2> QED
    BY <2>2, <2>3
<1>3. \A l \in Lane64 : LaneBeside(l) \in Lane64 /\ LaneBeside(LaneBeside(l)) = l
  BY DEF LaneBeside, Lane64
<1> HIDE DEF y, To
<1>4. y \in SUBSET Wide
  <2> SUFFICES ASSUME NEW b \in x PROVE To(b) \in Wide
    BY <1>1
  <2>1. PICK d \in Bits, l \in Lane64 : b = d + 8 * l
    BY LaneOf
  <2> QED
    BY <1>2, <1>3, <2>1, LaneBit
<1>5. ASSUME NEW l \in Lane64
      PROVE  ByteOf(y, l) = ByteOf(x, LaneBeside(l))
  <2>6. ASSUME NEW d \in Bits
        PROVE  d + 8 * l \in y <=> d + 8 * LaneBeside(l) \in x
    <3>1. To(d + 8 * LaneBeside(l)) = d + 8 * l
      BY <1>2, <1>3
    <3>3. ASSUME NEW b \in x, To(b) = d + 8 * l
          PROVE  b = d + 8 * LaneBeside(l)
      <4>1. PICK dd \in Bits, k \in Lane64 : b = dd + 8 * k
        BY LaneOf
      <4>2. dd + 8 * LaneBeside(k) = d + 8 * l
        BY <1>2, <3>3, <4>1
      <4>3. PICK p \in Lane64 : p = LaneBeside(k)
        BY <1>3
      <4>4. dd = d /\ p = l
        BY <4>2, <4>3 DEF Bits, Lane64
      <4> QED
        BY <1>3, <4>1, <4>3, <4>4
    <3> QED
      BY <1>1, <3>1, <3>3
  <2> QED
    BY <1>3, <1>4, <2>6, WideByte, ByteSame
<1> QED
  BY <1>3, <1>4, <1>5 DEF y

(* Four bytes of a column, by row                                          *)
Four == 0..3

RowByte(w, c, r) == ByteOf(w, 4 * c + (r % 4))

LEMMA RowLane ==
  ASSUME NEW c \in 0..1, NEW r \in Int
  PROVE  4 * c + (r % 4) \in Lane64
BY DEF Lane64

LEMMA RowBytes ==
  ASSUME NEW w \in SUBSET Wide, NEW c \in 0..1, NEW r \in Int
  PROVE  RowByte(w, c, r) \in Byte
BY RowLane, WideByte DEF RowByte

LEMMA RowXor ==
  ASSUME NEW x \in SUBSET Wide, NEW y \in SUBSET Wide, NEW c \in 0..1, NEW r \in Int
  PROVE  RowByte(Xor(x, y), c, r) = Xor(RowByte(x, c, r), RowByte(y, c, r))
BY RowLane, WideXor DEF RowByte

LEMMA RowTwice ==
  ASSUME NEW x \in SUBSET Wide, NEW c \in 0..1, NEW r \in Int
  PROVE  RowByte(XtimeLong(x), c, r) = Tw(RowByte(x, c, r))
BY RowLane, XtimeBytes DEF RowByte

LEMMA RowRotated ==
  ASSUME NEW x \in SUBSET Wide, NEW c \in 0..1, NEW r \in Int
  PROVE  /\ RotatedColumns(x, 16) \in SUBSET Wide /\ RotatedColumns(x, -8) \in SUBSET Wide
         /\ RowByte(RotatedColumns(x, 16), c, r) = RowByte(x, c, r + 2)
         /\ RowByte(RotatedColumns(x, -8), c, r) = RowByte(x, c, r + 1)
<1>1. PICK l \in Lane64 : l = 4 * c + (r % 4)
  BY RowLane
<1>2. 16 = 8 * 2 /\ -8 = 8 * (-1) /\ 2 \in {-1, 2} /\ -1 \in {-1, 2}
  OBVIOUS
<1>3. LaneFrom(l, 2) = 4 * c + ((r + 2) % 4) /\ LaneFrom(l, -1) = 4 * c + ((r + 1) % 4)
  BY <1>1 DEF LaneFrom
<1>4. /\ RotatedColumns(x, 8 * 2) \in SUBSET Wide /\ RotatedColumns(x, 8 * (-1)) \in SUBSET Wide
      /\ ByteOf(RotatedColumns(x, 8 * 2), l) = ByteOf(x, LaneFrom(l, 2))
      /\ ByteOf(RotatedColumns(x, 8 * (-1)), l) = ByteOf(x, LaneFrom(l, -1))
  BY <1>2, RotatedColumnBytes
<1> QED
  BY <1>1, <1>2, <1>3, <1>4 DEF RowByte

(* the byte of the other row of its half                                   *)
LEMMA RowSwapped ==
  ASSUME NEW x \in SUBSET Wide, NEW c \in 0..1
  PROVE  /\ SwappedBytes(x) \in SUBSET Wide
         /\ RowByte(SwappedBytes(x), c, 0) = RowByte(x, c, 1)
         /\ RowByte(SwappedBytes(x), c, 1) = RowByte(x, c, 0)
         /\ RowByte(SwappedBytes(x), c, 2) = RowByte(x, c, 3)
         /\ RowByte(SwappedBytes(x), c, 3) = RowByte(x, c, 2)
<1>1. \A r \in Four : r % 4 = r /\ 4 * c + r \in Lane64
  BY DEF Four, Lane64
<1>2. /\ LaneBeside(4 * c + 0) = 4 * c + 1 /\ LaneBeside(4 * c + 1) = 4 * c + 0
      /\ LaneBeside(4 * c + 2) = 4 * c + 3 /\ LaneBeside(4 * c + 3) = 4 * c + 2
  BY DEF LaneBeside
<1>3. SwappedBytes(x) \in SUBSET Wide /\ \A l \in Lane64 : ByteOf(SwappedBytes(x), l) = ByteOf(x, LaneBeside(l))
  BY SwappedLaneBytes
<1>4. {0, 1, 2, 3} \subseteq Four
  BY DEF Four
<1> QED
  BY <1>1, <1>2, <1>3, <1>4 DEF RowByte

(* What a macro's value leaves in a byte                                   *)
Stored(digit, v) == XT(digit, v) \cap Bits

LEMMA TwStays ==
  ASSUME NEW v \in SUBSET Nat
  PROVE  XT2(v) \in SUBSET Nat /\ Tw(v) = Tw(v \cap Bits)
<1>1. XT2(v) \in SUBSET Nat
  BY DEF XT2, Xor
<1>2. \A d \in Bits : d - 1 \in v <=> d - 1 \in v \cap Bits
  BY DEF Bits
<1>3. 7 \in v <=> 7 \in v \cap Bits
  BY DEF Bits
<1>4. v \in SUBSET Int /\ v \cap Bits \in SUBSET Int
  <2>1. \A b \in v : b \in Int
    OBVIOUS
  <2> QED
    BY <2>1
<1> QED
  BY <1>1, <1>2, <1>3, <1>4, TwBits, ByteSame

LEMMA StoredAre ==
  ASSUME NEW v \in Byte
  PROVE  /\ Stored(1, v) = v
         /\ Stored(2, v) = Tw(v)
         /\ Stored(3, v) = Xor(Tw(v), v)
         /\ Stored(9, v) = Xor(Tw(Tw(Tw(v))), v)
         /\ Stored(11, v) = Xor(Xor(Tw(Tw(Tw(v))), Tw(v)), v)
         /\ Stored(13, v) = Xor(Xor(Tw(Tw(Tw(v))), Tw(Tw(v))), v)
         /\ Stored(14, v) = Xor(Xor(Tw(Tw(Tw(v))), Tw(Tw(v))), Tw(v))
<1> DEFINE x2 == XT2(v)
           x4 == XT2(x2)
           x8 == XT2(x4)
<1>1. v \in SUBSET Nat /\ v \cap Bits = v
  <2>1. \A b \in v : b \in Bits /\ b \in Nat
    BY DEF Byte, Bits
  <2> QED
    BY <2>1
<1>2. x2 \in SUBSET Nat /\ x4 \in SUBSET Nat
  BY <1>1, TwStays
<1>3. x2 \cap Bits = Tw(v)
  BY DEF Tw
<1>4. x4 \cap Bits = Tw(Tw(v))
  BY <1>2, <1>3, TwStays DEF Tw
<1>5. x8 \cap Bits = Tw(Tw(Tw(v)))
  <2>1. x8 \cap Bits = Tw(x4)
    BY DEF Tw
  <2> HIDE DEF x4, x8
  <2> QED
    BY <1>2, <1>4, <2>1, TwStays
<1>6. /\ XT(1, v) = v /\ XT(2, v) = x2 /\ XT(3, v) = Xor(x2, v) /\ XT(9, v) = Xor(x8, v)
      /\ XT(11, v) = Xor(Xor(x8, x2), v) /\ XT(13, v) = Xor(Xor(x8, x4), v)
      /\ XT(14, v) = Xor(Xor(x8, x4), x2)
  BY DEF XT
<1> HIDE DEF x2, x4, x8
<1>7. /\ Xor(x2, v) \cap Bits = Xor(x2 \cap Bits, v \cap Bits)
      /\ Xor(x8, v) \cap Bits = Xor(x8 \cap Bits, v \cap Bits)
      /\ Xor(Xor(x8, x2), v) \cap Bits = Xor(Xor(x8 \cap Bits, x2 \cap Bits), v \cap Bits)
      /\ Xor(Xor(x8, x4), v) \cap Bits = Xor(Xor(x8 \cap Bits, x4 \cap Bits), v \cap Bits)
      /\ Xor(Xor(x8, x4), x2) \cap Bits = Xor(Xor(x8 \cap Bits, x4 \cap Bits), x2 \cap Bits)
  BY DEF Xor
<1> QED
  BY <1>1, <1>3, <1>4, <1>5, <1>6, <1>7 DEF Stored

Xor4(a, b, c, d) == Xor(Xor(Xor(a, b), c), d)

LEMMA ColumnIs ==
  \A f, s, r : Column(f, s, r) = Xor4(Stored(f[(0 - r) % 4], s[0]), Stored(f[(1 - r) % 4], s[1]),
                                      Stored(f[(2 - r) % 4], s[2]), Stored(f[(3 - r) % 4], s[3]))
<1>1. \A a, b, c, d : Xor(Xor(Xor(a, b), c), d) \cap Bits
                     = Xor4(a \cap Bits, b \cap Bits, c \cap Bits, d \cap Bits)
  BY DEF Xor, Xor4
<1> QED
  BY <1>1 DEF Column, Stored

LEMMA RowsAround == \A k \in 0..3, r \in 0..3 : (k - r) % 4 = IF k < r THEN k - r + 4 ELSE k - r
OBVIOUS

LEMMA RowsModFour ==
  /\ (0 - 0) % 4 = 0 /\ (1 - 0) % 4 = 1 /\ (2 - 0) % 4 = 2 /\ (3 - 0) % 4 = 3
  /\ (0 - 1) % 4 = 3 /\ (1 - 1) % 4 = 0 /\ (2 - 1) % 4 = 1 /\ (3 - 1) % 4 = 2
  /\ (0 - 2) % 4 = 2 /\ (1 - 2) % 4 = 3 /\ (2 - 2) % 4 = 0 /\ (3 - 2) % 4 = 1
  /\ (0 - 3) % 4 = 1 /\ (1 - 3) % 4 = 2 /\ (2 - 3) % 4 = 3 /\ (3 - 3) % 4 = 0
BY RowsAround

MixRow == [k \in 0..3 |-> <<2, 3, 1, 1>>[k + 1]]
InvMixRow == [k \in 0..3 |-> <<14, 11, 13, 9>>[k + 1]]

LEMMA MixedColumn ==
  ASSUME NEW s, s[0] \in Byte, s[1] \in Byte, s[2] \in Byte, s[3] \in Byte
  PROVE  LET X1(k) == Tw(s[k])
         IN  /\ Column(MixRow, s, 0) = Xor4(X1(0), Xor(X1(1), s[1]), s[2], s[3])
             /\ Column(MixRow, s, 1) = Xor4(s[0], X1(1), Xor(X1(2), s[2]), s[3])
             /\ Column(MixRow, s, 2) = Xor4(s[0], s[1], X1(2), Xor(X1(3), s[3]))
             /\ Column(MixRow, s, 3) = Xor4(Xor(X1(0), s[0]), s[1], s[2], X1(3))
<1>1. MixRow[0] = 2 /\ MixRow[1] = 3 /\ MixRow[2] = 1 /\ MixRow[3] = 1
  BY DEF MixRow
<1> QED
  BY <1>1, RowsModFour, ColumnIs, StoredAre

LEMMA InvMixedColumn ==
  ASSUME NEW s, s[0] \in Byte, s[1] \in Byte, s[2] \in Byte, s[3] \in Byte
  PROVE  LET S(n, k) == Stored(n, s[k])
         IN  /\ Column(InvMixRow, s, 0) = Xor4(S(14, 0), S(11, 1), S(13, 2), S(9, 3))
             /\ Column(InvMixRow, s, 1) = Xor4(S(9, 0), S(14, 1), S(11, 2), S(13, 3))
             /\ Column(InvMixRow, s, 2) = Xor4(S(13, 0), S(9, 1), S(14, 2), S(11, 3))
             /\ Column(InvMixRow, s, 3) = Xor4(S(11, 0), S(13, 1), S(9, 2), S(14, 3))
<1>1. InvMixRow[0] = 14 /\ InvMixRow[1] = 11 /\ InvMixRow[2] = 13 /\ InvMixRow[3] = 9
  BY DEF InvMixRow
<1> QED
  BY <1>1, RowsModFour, ColumnIs

(* The columns of a word, mixed                                            *)
LEMMA OtherThreeIs ==
  ASSUME NEW w \in SUBSET Wide, NEW c \in 0..1
  PROVE  LET a(k) == RowByte(w, c, k)
         IN  /\ OtherThree(w) \in SUBSET Wide
             /\ RowByte(OtherThree(w), c, 0) = Xor(Xor(a(1), a(2)), a(3))
             /\ RowByte(OtherThree(w), c, 1) = Xor(Xor(a(0), a(2)), a(3))
             /\ RowByte(OtherThree(w), c, 2) = Xor(Xor(a(0), a(1)), a(3))
             /\ RowByte(OtherThree(w), c, 3) = Xor(Xor(a(0), a(1)), a(2))
<1> DEFINE a(k) == RowByte(w, c, k)
           s == Xor(w, RotatedColumns(w, 16))
           t == Xor(s, SwappedBytes(s))
<1>1. OtherThree(w) = Xor(t, w)
  BY DEF OtherThree
<1>2. a(2 + 2) = a(0) /\ a(3 + 2) = a(1) /\ a(0 + 2) = a(2) /\ a(1 + 2) = a(3)
  BY DEF RowByte
<1>3. /\ s \in SUBSET Wide
      /\ RowByte(s, c, 0) = Xor(a(0), a(2)) /\ RowByte(s, c, 1) = Xor(a(1), a(3))
      /\ RowByte(s, c, 2) = Xor(a(2), a(0)) /\ RowByte(s, c, 3) = Xor(a(3), a(1))
  <2> DEFINE z == RotatedColumns(w, 16)
  <2>1. z \in SUBSET Wide /\ \A r \in 0..3 : RowByte(z, c, r) = a(r + 2)
    BY RowRotated
  <2> HIDE DEF z
  <2>2. s = Xor(w, z)
    BY DEF z
  <2>6. \A r \in 0..3 : RowByte(Xor(w, z), c, r) = Xor(RowByte(w, c, r), RowByte(z, c, r))
    <3>1. z \in SUBSET Wide /\ \A r \in 0..3 : r \in Int
      BY <2>1
    <3> QED
      BY <3>1, RowXor
  <2> HIDE DEF a
  <2>7. \A r \in 0..3 : RowByte(w, c, r) = a(r)
    BY DEF a
  <2>3. \A r \in 0..3 : RowByte(Xor(w, z), c, r) = Xor(a(r), a(r + 2))
    BY <2>1, <2>6, <2>7
  <2>4. Xor(w, z) \in SUBSET Wide
    BY <2>1, WideXor
  <2>5. {0, 1, 2, 3} \subseteq 0..3
    OBVIOUS
  <2> HIDE DEF s
  <2> QED
    BY <1>2, <2>2, <2>3, <2>4, <2>5
<1> HIDE DEF s, a
<1>4. /\ t \in SUBSET Wide
      /\ RowByte(t, c, 0) = Xor(Xor(a(0), a(2)), Xor(a(1), a(3)))
      /\ RowByte(t, c, 1) = Xor(Xor(a(1), a(3)), Xor(a(0), a(2)))
      /\ RowByte(t, c, 2) = Xor(Xor(a(2), a(0)), Xor(a(3), a(1)))
      /\ RowByte(t, c, 3) = Xor(Xor(a(3), a(1)), Xor(a(2), a(0)))
  <2> DEFINE z == SwappedBytes(s)
  <2>1. /\ z \in SUBSET Wide
        /\ RowByte(z, c, 0) = RowByte(s, c, 1) /\ RowByte(z, c, 1) = RowByte(s, c, 0)
        /\ RowByte(z, c, 2) = RowByte(s, c, 3) /\ RowByte(z, c, 3) = RowByte(s, c, 2)
    BY <1>3, RowSwapped
  <2> HIDE DEF z
  <2>2. t = Xor(s, z) /\ Xor(s, z) \in SUBSET Wide
    BY <1>3, <2>1, WideXor DEF z
  <2>3. \A r \in 0..3 : RowByte(Xor(s, z), c, r) = Xor(RowByte(s, c, r), RowByte(z, c, r))
    BY <1>3, <2>1, RowXor
  <2> HIDE DEF t
  <2> QED
    BY <1>3, <2>1, <2>2, <2>3
<1> HIDE DEF t
<1>5. \A r \in 0..3 : RowByte(Xor(t, w), c, r) = Xor(RowByte(t, c, r), a(r))
  BY <1>4, RowXor DEF a
<1>6. Xor(t, w) \in SUBSET Wide
  BY <1>4, WideXor
<1>7. \A x, y, u, v : /\ Xor(Xor(Xor(x, u), Xor(y, v)), x) = Xor(Xor(y, u), v)
                      /\ Xor(Xor(Xor(x, u), Xor(y, v)), y) = Xor(Xor(x, u), v)
                      /\ Xor(Xor(Xor(x, u), Xor(y, v)), u) = Xor(Xor(x, y), v)
                      /\ Xor(Xor(Xor(x, u), Xor(y, v)), v) = Xor(Xor(x, y), u)
                      /\ Xor(Xor(Xor(x, u), Xor(y, v)), y) = Xor(Xor(u, x), v)
                      /\ Xor(Xor(x, u), y) = Xor(Xor(x, y), u)
                      /\ Xor(Xor(x, u), y) = Xor(Xor(u, x), y)
  BY DEF Xor
<1>8. /\ RowByte(Xor(t, w), c, 0) = Xor(Xor(a(1), a(2)), a(3))
      /\ RowByte(Xor(t, w), c, 1) = Xor(Xor(a(0), a(2)), a(3))
      /\ RowByte(Xor(t, w), c, 2) = Xor(Xor(a(0), a(1)), a(3))
      /\ RowByte(Xor(t, w), c, 3) = Xor(Xor(a(0), a(1)), a(2))
  <2>1. RowByte(Xor(t, w), c, 0) = Xor(Xor(a(1), a(2)), a(3))
    BY <1>4, <1>5 DEF Xor
  <2>2. RowByte(Xor(t, w), c, 1) = Xor(Xor(a(0), a(2)), a(3))
    BY <1>4, <1>5 DEF Xor
  <2>3. RowByte(Xor(t, w), c, 2) = Xor(Xor(a(0), a(1)), a(3))
    BY <1>4, <1>5 DEF Xor
  <2>4. RowByte(Xor(t, w), c, 3) = Xor(Xor(a(0), a(1)), a(2))
    BY <1>4, <1>5 DEF Xor
  <2> QED
    BY <2>1, <2>2, <2>3, <2>4
<1> QED
  BY <1>1, <1>6, <1>8 DEF a

(* The sums of a mixed column in the two orders of the additions           *)
LEMMA MixedSums ==
  /\ \A a1, a2, a3, x, y :
       Xor(Xor(Xor(Xor(a1, a2), a3), x), y) = Xor4(x, Xor(y, a1), a2, a3)
  /\ \A a0, a2, a3, x, y :
       Xor(Xor(Xor(Xor(a0, a2), a3), x), y) = Xor4(a0, x, Xor(y, a2), a3)
  /\ \A a0, a1, a3, x, y :
       Xor(Xor(Xor(Xor(a0, a1), a3), x), y) = Xor4(a0, a1, x, Xor(y, a3))
  /\ \A a0, a1, a2, x, y :
       Xor(Xor(Xor(Xor(a0, a1), a2), x), y) = Xor4(Xor(y, a0), a1, a2, x)
BY DEF Xor, Xor4

LEMMA RowsOf ==
  ASSUME NEW w \in SUBSET Wide, NEW c \in 0..1, NEW s, s = [k \in 0..3 |-> RowByte(w, c, k)]
  PROVE  /\ s[0] = RowByte(w, c, 0) /\ s[1] = RowByte(w, c, 1)
         /\ s[2] = RowByte(w, c, 2) /\ s[3] = RowByte(w, c, 3)
         /\ s[0] \in Byte /\ s[1] \in Byte /\ s[2] \in Byte /\ s[3] \in Byte
         /\ RowByte(w, c, 3 + 1) = s[0]
<1>1. \A k \in 0..3 : s[k] = RowByte(w, c, k) /\ s[k] \in Byte
  BY RowBytes
<1>2. RowByte(w, c, 3 + 1) = RowByte(w, c, 0)
  BY DEF RowByte
<1> QED
  BY <1>1, <1>2

LEMMA MixedWordBytes ==
  ASSUME NEW w \in SUBSET Wide, NEW c \in 0..1
  PROVE  /\ MixedWord(w) \in SUBSET Wide
         /\ \A r \in 0..3 :
              RowByte(MixedWord(w), c, r) = Column(MixRow, [k \in 0..3 |-> RowByte(w, c, k)], r)
<1> DEFINE o == OtherThree(w)
           twice == XtimeLong(w)
           turned == RotatedColumns(twice, -8)
           s == [k \in 0..3 |-> RowByte(w, c, k)]
<1>1. MixedWord(w) = Xor(Xor(o, twice), turned)
  BY DEF MixedWord
<1>2. PICK t : t = s
  OBVIOUS
<1>3. /\ t[0] = RowByte(w, c, 0) /\ t[1] = RowByte(w, c, 1)
      /\ t[2] = RowByte(w, c, 2) /\ t[3] = RowByte(w, c, 3)
      /\ t[0] \in Byte /\ t[1] \in Byte /\ t[2] \in Byte /\ t[3] \in Byte
      /\ RowByte(w, c, 3 + 1) = t[0]
  BY <1>2, RowsOf
<1>4. /\ o \in SUBSET Wide
      /\ RowByte(o, c, 0) = Xor(Xor(t[1], t[2]), t[3])
      /\ RowByte(o, c, 1) = Xor(Xor(t[0], t[2]), t[3])
      /\ RowByte(o, c, 2) = Xor(Xor(t[0], t[1]), t[3])
      /\ RowByte(o, c, 3) = Xor(Xor(t[0], t[1]), t[2])
  BY <1>3, OtherThreeIs
<1>5. twice \in SUBSET Wide /\ \A r \in 0..4 : RowByte(twice, c, r) = Tw(RowByte(w, c, r))
  BY XtimeBytes, RowTwice
<1>6. turned \in SUBSET Wide /\ \A r \in 0..3 : RowByte(turned, c, r) = RowByte(twice, c, r + 1)
  BY <1>5, RowRotated
<1> HIDE DEF o, twice, turned, s
<1>7. Xor(o, twice) \in SUBSET Wide /\ Xor(Xor(o, twice), turned) \in SUBSET Wide
  BY <1>4, <1>5, <1>6, WideXor
<1>8. \A r \in 0..3 : RowByte(Xor(Xor(o, twice), turned), c, r)
                        = Xor(Xor(RowByte(o, c, r), RowByte(twice, c, r)), RowByte(turned, c, r))
  <2>1. \A r \in 0..3 : r \in Int
    OBVIOUS
  <2> QED
    BY <2>1, <1>4, <1>5, <1>6, <1>7, RowXor
<1>9. /\ RowByte(turned, c, 0) = Tw(t[1]) /\ RowByte(turned, c, 1) = Tw(t[2])
      /\ RowByte(turned, c, 2) = Tw(t[3]) /\ RowByte(turned, c, 3) = Tw(t[0])
      /\ RowByte(twice, c, 0) = Tw(t[0]) /\ RowByte(twice, c, 1) = Tw(t[1])
      /\ RowByte(twice, c, 2) = Tw(t[2]) /\ RowByte(twice, c, 3) = Tw(t[3])
  BY <1>3, <1>5, <1>6
<1>10. /\ Column(MixRow, t, 0) = Xor4(Tw(t[0]), Xor(Tw(t[1]), t[1]), t[2], t[3])
       /\ Column(MixRow, t, 1) = Xor4(t[0], Tw(t[1]), Xor(Tw(t[2]), t[2]), t[3])
       /\ Column(MixRow, t, 2) = Xor4(t[0], t[1], Tw(t[2]), Xor(Tw(t[3]), t[3]))
       /\ Column(MixRow, t, 3) = Xor4(Xor(Tw(t[0]), t[0]), t[1], t[2], Tw(t[3]))
  BY <1>3, MixedColumn
<1> DEFINE m == MixedWord(w)
<1> HIDE DEF m
<1>11. /\ RowByte(m, c, 0) = Column(MixRow, t, 0) /\ RowByte(m, c, 1) = Column(MixRow, t, 1)
       /\ RowByte(m, c, 2) = Column(MixRow, t, 2) /\ RowByte(m, c, 3) = Column(MixRow, t, 3)
  <2>0. m = Xor(Xor(o, twice), turned)
    BY <1>1 DEF m
  <2>1. RowByte(m, c, 0) = Column(MixRow, t, 0)
    BY <2>0, <1>4, <1>8, <1>9, <1>10, MixedSums
  <2>2. RowByte(m, c, 1) = Column(MixRow, t, 1)
    BY <2>0, <1>4, <1>8, <1>9, <1>10, MixedSums
  <2>3. RowByte(m, c, 2) = Column(MixRow, t, 2)
    BY <2>0, <1>4, <1>8, <1>9, <1>10, MixedSums
  <2>4. RowByte(m, c, 3) = Column(MixRow, t, 3)
    BY <2>0, <1>4, <1>8, <1>9, <1>10, MixedSums
  <2> QED
    BY <2>1, <2>2, <2>3, <2>4
<1>12. \A r \in 0..3 : r = 0 \/ r = 1 \/ r = 2 \/ r = 3
  OBVIOUS
<1> QED
  BY <1>1, <1>2, <1>7, <1>11, <1>12 DEF m, s

(* Doubling is linear.                                                     *)
LEMMA TwXor ==
  ASSUME NEW x \in Byte, NEW y \in Byte
  PROVE  /\ Tw(x) \in Byte /\ Xor(x, y) \in Byte
         /\ Tw(Xor(x, y)) = Xor(Tw(x), Tw(y))
<1>1. x \in SUBSET Int /\ y \in SUBSET Int /\ Xor(x, y) \in SUBSET Int
  <2>1. \A b : (b \in x => b \in Int) /\ (b \in y => b \in Int)
    <3>1. Bits \subseteq Int /\ x \subseteq Bits /\ y \subseteq Bits
      BY DEF Byte, Bits
    <3> QED
      BY <3>1
  <2>2. \A b \in Xor(x, y) : b \in Int
    BY <2>1 DEF Xor
  <2> QED
    BY <2>1, <2>2
<1>2. \A d \in Bits : d \in Xor(Tw(x), Tw(y)) <=> ~(d \in Tw(x) <=> d \in Tw(y))
  BY DEF Xor
<1>3. Xor(Tw(x), Tw(y)) \in Byte /\ Tw(Xor(x, y)) \in Byte /\ Tw(x) \in Byte
  BY <1>1, TwBits DEF Xor, Byte
<1>4. \A d : d \in Xor(x, y) <=> ~(d \in x <=> d \in y)
  BY DEF Xor
<1>5. \A d \in Bits : d \in Tw(Xor(x, y)) <=> d \in Xor(Tw(x), Tw(y))
  <2> SUFFICES ASSUME NEW d \in Bits
               PROVE  d \in Tw(Xor(x, y)) <=> d \in Xor(Tw(x), Tw(y))
    OBVIOUS
  <2>1. d \in Tw(Xor(x, y)) <=> ~((d - 1 \in Xor(x, y)) <=> (7 \in Xor(x, y) /\ d \in {0, 1, 3, 4}))
    BY <1>1, TwBits
  <2>2. d \in Tw(x) <=> ~((d - 1 \in x) <=> (7 \in x /\ d \in {0, 1, 3, 4}))
    BY <1>1, TwBits
  <2>3. d \in Tw(y) <=> ~((d - 1 \in y) <=> (7 \in y /\ d \in {0, 1, 3, 4}))
    BY <1>1, TwBits
  <2> QED
    BY <1>2, <1>4, <2>1, <2>2, <2>3
<1>6. Xor(x, y) \in Byte
  BY DEF Xor, Byte
<1> QED
  BY <1>3, <1>5, <1>6, ByteSame

LEMMA InvMixedSums ==
  /\ \A a0, a1, a2, a3, t0, t1, u0, u2, v0, v1, v2, v3 :
       Xor(Xor(Xor(Xor(Xor(a1, a2), a3), t0), t1),
           Xor(Xor(u0, u2), Xor(Xor(v0, v2), Xor(v1, v3))))
         = Xor4(Xor(Xor(v0, u0), t0), Xor(Xor(v1, t1), a1), Xor(Xor(v2, u2), a2), Xor(v3, a3))
  /\ \A a0, a1, a2, a3, t1, t2, u1, u3, v0, v1, v2, v3 :
       Xor(Xor(Xor(Xor(Xor(a0, a2), a3), t1), t2),
           Xor(Xor(u1, u3), Xor(Xor(v1, v3), Xor(v0, v2))))
         = Xor4(Xor(v0, a0), Xor(Xor(v1, u1), t1), Xor(Xor(v2, t2), a2), Xor(Xor(v3, u3), a3))
  /\ \A a0, a1, a2, a3, t2, t3, u0, u2, v0, v1, v2, v3 :
       Xor(Xor(Xor(Xor(Xor(a0, a1), a3), t2), t3),
           Xor(Xor(u2, u0), Xor(Xor(v2, v0), Xor(v3, v1))))
         = Xor4(Xor(Xor(v0, u0), a0), Xor(v1, a1), Xor(Xor(v2, u2), t2), Xor(Xor(v3, t3), a3))
  /\ \A a0, a1, a2, a3, t0, t3, u1, u3, v0, v1, v2, v3 :
       Xor(Xor(Xor(Xor(Xor(a0, a1), a2), t3), t0),
           Xor(Xor(u3, u1), Xor(Xor(v3, v1), Xor(v2, v0))))
         = Xor4(Xor(Xor(v0, t0), a0), Xor(Xor(v1, u1), a1), Xor(v2, a2), Xor(Xor(v3, u3), t3))
<1>1. \A x, y, b : b \in Xor(x, y) <=> ~(b \in x <=> b \in y)
  BY DEF Xor
<1>2. \A x, y : (\A b : b \in x <=> b \in y) => x = y
  OBVIOUS
<1>3. \A a0, a1, a2, a3, t0, t1, u0, u2, v0, v1, v2, v3 :
       Xor(Xor(Xor(Xor(Xor(a1, a2), a3), t0), t1),
           Xor(Xor(u0, u2), Xor(Xor(v0, v2), Xor(v1, v3))))
         = Xor4(Xor(Xor(v0, u0), t0), Xor(Xor(v1, t1), a1), Xor(Xor(v2, u2), a2), Xor(v3, a3))
  <2> TAKE a0, a1, a2, a3, t0, t1, u0, u2, v0, v1, v2, v3
  <2> DEFINE left == Xor(Xor(Xor(Xor(Xor(a1, a2), a3), t0), t1), Xor(Xor(u0, u2), Xor(Xor(v0, v2), Xor(v1, v3))))
             right == Xor4(Xor(Xor(v0, u0), t0), Xor(Xor(v1, t1), a1), Xor(Xor(v2, u2), a2), Xor(v3, a3))
  <2>1. \A b : b \in left <=> b \in right
    BY <1>1 DEF Xor4
  <2> HIDE DEF left, right
  <2>2. left = right
    BY <2>1, <1>2
  <2> QED
    BY <2>2 DEF left, right
<1>4. \A a0, a1, a2, a3, t1, t2, u1, u3, v0, v1, v2, v3 :
       Xor(Xor(Xor(Xor(Xor(a0, a2), a3), t1), t2),
           Xor(Xor(u1, u3), Xor(Xor(v1, v3), Xor(v0, v2))))
         = Xor4(Xor(v0, a0), Xor(Xor(v1, u1), t1), Xor(Xor(v2, t2), a2), Xor(Xor(v3, u3), a3))
  <2> TAKE a0, a1, a2, a3, t1, t2, u1, u3, v0, v1, v2, v3
  <2> DEFINE left == Xor(Xor(Xor(Xor(Xor(a0, a2), a3), t1), t2), Xor(Xor(u1, u3), Xor(Xor(v1, v3), Xor(v0, v2))))
             right == Xor4(Xor(v0, a0), Xor(Xor(v1, u1), t1), Xor(Xor(v2, t2), a2), Xor(Xor(v3, u3), a3))
  <2>1. \A b : b \in left <=> b \in right
    BY <1>1 DEF Xor4
  <2> HIDE DEF left, right
  <2>2. left = right
    BY <2>1, <1>2
  <2> QED
    BY <2>2 DEF left, right
<1>5. \A a0, a1, a2, a3, t2, t3, u0, u2, v0, v1, v2, v3 :
       Xor(Xor(Xor(Xor(Xor(a0, a1), a3), t2), t3),
           Xor(Xor(u2, u0), Xor(Xor(v2, v0), Xor(v3, v1))))
         = Xor4(Xor(Xor(v0, u0), a0), Xor(v1, a1), Xor(Xor(v2, u2), t2), Xor(Xor(v3, t3), a3))
  <2> TAKE a0, a1, a2, a3, t2, t3, u0, u2, v0, v1, v2, v3
  <2> DEFINE left == Xor(Xor(Xor(Xor(Xor(a0, a1), a3), t2), t3), Xor(Xor(u2, u0), Xor(Xor(v2, v0), Xor(v3, v1))))
             right == Xor4(Xor(Xor(v0, u0), a0), Xor(v1, a1), Xor(Xor(v2, u2), t2), Xor(Xor(v3, t3), a3))
  <2>1. \A b : b \in left <=> b \in right
    BY <1>1 DEF Xor4
  <2> HIDE DEF left, right
  <2>2. left = right
    BY <2>1, <1>2
  <2> QED
    BY <2>2 DEF left, right
<1>6. \A a0, a1, a2, a3, t0, t3, u1, u3, v0, v1, v2, v3 :
       Xor(Xor(Xor(Xor(Xor(a0, a1), a2), t3), t0),
           Xor(Xor(u3, u1), Xor(Xor(v3, v1), Xor(v2, v0))))
         = Xor4(Xor(Xor(v0, t0), a0), Xor(Xor(v1, u1), a1), Xor(v2, a2), Xor(Xor(v3, u3), t3))

  <2> TAKE a0, a1, a2, a3, t0, t3, u1, u3, v0, v1, v2, v3
  <2> DEFINE left == Xor(Xor(Xor(Xor(Xor(a0, a1), a2), t3), t0), Xor(Xor(u3, u1), Xor(Xor(v3, v1), Xor(v2, v0))))
             right == Xor4(Xor(Xor(v0, t0), a0), Xor(Xor(v1, u1), a1), Xor(v2, a2), Xor(Xor(v3, u3), t3))
  <2>1. \A b : b \in left <=> b \in right
    BY <1>1 DEF Xor4
  <2> HIDE DEF left, right
  <2>2. left = right
    BY <2>1, <1>2
  <2> QED
    BY <2>2 DEF left, right
<1> QED
  BY <1>3, <1>4, <1>5, <1>6

LEMMA InvMixedWordBytes ==
  ASSUME NEW w \in SUBSET Wide, NEW c \in 0..1
  PROVE  /\ InvMixedWord(w) \in SUBSET Wide
         /\ \A r \in 0..3 :
              RowByte(InvMixedWord(w), c, r)
                = Column(InvMixRow, [k \in 0..3 |-> RowByte(w, c, k)], r)
<1> DEFINE o == OtherThree(w)
           twice == XtimeLong(w)
           turned == RotatedColumns(twice, -8)
           four == XtimeLong(twice)
           across == RotatedColumns(four, 16)
           fours == Xor(four, across)
           eight == XtimeLong(fours)
           beside == SwappedBytes(eight)
           s == [k \in 0..3 |-> RowByte(w, c, k)]
           m == InvMixedWord(w)
<1>1. m = Xor(Xor(Xor(o, twice), turned), Xor(fours, Xor(eight, beside)))
  BY DEF InvMixedWord
<1>2. PICK t : t = s
  OBVIOUS
<1>3. /\ t[0] = RowByte(w, c, 0) /\ t[1] = RowByte(w, c, 1)
      /\ t[2] = RowByte(w, c, 2) /\ t[3] = RowByte(w, c, 3)
      /\ t[0] \in Byte /\ t[1] \in Byte /\ t[2] \in Byte /\ t[3] \in Byte
      /\ RowByte(w, c, 3 + 1) = t[0]
  BY <1>2, RowsOf
<1> DEFINE X1(k) == Tw(t[k])
           X2(k) == Tw(Tw(t[k]))
           X3(k) == Tw(Tw(Tw(t[k])))
<1>4. /\ o \in SUBSET Wide
      /\ RowByte(o, c, 0) = Xor(Xor(t[1], t[2]), t[3])
      /\ RowByte(o, c, 1) = Xor(Xor(t[0], t[2]), t[3])
      /\ RowByte(o, c, 2) = Xor(Xor(t[0], t[1]), t[3])
      /\ RowByte(o, c, 3) = Xor(Xor(t[0], t[1]), t[2])
  BY <1>3, OtherThreeIs
<1>5. twice \in SUBSET Wide /\ \A r \in 0..5 : RowByte(twice, c, r) = Tw(RowByte(w, c, r))
  BY XtimeBytes, RowTwice
<1>6. turned \in SUBSET Wide /\ \A r \in 0..3 : RowByte(turned, c, r) = RowByte(twice, c, r + 1)
  BY <1>5, RowRotated
<1>7. four \in SUBSET Wide /\ \A r \in 0..5 : RowByte(four, c, r) = Tw(RowByte(twice, c, r))
  BY <1>5, XtimeBytes, RowTwice
<1>8. across \in SUBSET Wide /\ \A r \in 0..3 : RowByte(across, c, r) = RowByte(four, c, r + 2)
  BY <1>7, RowRotated
<1> HIDE DEF o, twice, turned, four, across, s
<1>9. fours \in SUBSET Wide
  BY <1>7, <1>8, WideXor
<1>10. \A r \in 0..3 : RowByte(fours, c, r) = Xor(RowByte(four, c, r), RowByte(across, c, r))
  <2>1. \A r \in 0..3 : r \in Int
    OBVIOUS
  <2> QED
    BY <2>1, <1>7, <1>8, RowXor
<1> HIDE DEF fours
<1>11. eight \in SUBSET Wide /\ \A r \in 0..3 : RowByte(eight, c, r) = Tw(RowByte(fours, c, r))
  BY <1>9, XtimeBytes, RowTwice
<1> HIDE DEF eight
<1>12. /\ beside \in SUBSET Wide
       /\ RowByte(beside, c, 0) = RowByte(eight, c, 1) /\ RowByte(beside, c, 1) = RowByte(eight, c, 0)
       /\ RowByte(beside, c, 2) = RowByte(eight, c, 3) /\ RowByte(beside, c, 3) = RowByte(eight, c, 2)
  BY <1>11, RowSwapped
<1> HIDE DEF beside
<1>13. /\ Xor(o, twice) \in SUBSET Wide /\ Xor(Xor(o, twice), turned) \in SUBSET Wide
       /\ Xor(eight, beside) \in SUBSET Wide /\ Xor(fours, Xor(eight, beside)) \in SUBSET Wide
       /\ m \in SUBSET Wide
  <2>1. Xor(o, twice) \in SUBSET Wide
    BY <1>4, <1>5, WideXor
  <2>2. Xor(Xor(o, twice), turned) \in SUBSET Wide
    BY <2>1, <1>6, WideXor
  <2>3. Xor(eight, beside) \in SUBSET Wide
    BY <1>11, <1>12, WideXor
  <2>4. Xor(fours, Xor(eight, beside)) \in SUBSET Wide
    BY <2>3, <1>9, WideXor
  <2> QED
    BY <2>1, <2>2, <2>3, <2>4, <1>1, WideXor
<1> HIDE DEF m
<1>14. \A r \in 0..3 :
         RowByte(m, c, r)
           = Xor(Xor(Xor(RowByte(o, c, r), RowByte(twice, c, r)), RowByte(turned, c, r)),
                 Xor(RowByte(fours, c, r), Xor(RowByte(eight, c, r), RowByte(beside, c, r))))
  <2> SUFFICES ASSUME NEW r \in 0..3
               PROVE  RowByte(m, c, r)
                        = Xor(Xor(Xor(RowByte(o, c, r), RowByte(twice, c, r)), RowByte(turned, c, r)),
                              Xor(RowByte(fours, c, r), Xor(RowByte(eight, c, r), RowByte(beside, c, r))))
    OBVIOUS
  <2>1. r \in Int
    OBVIOUS
  <2>2. RowByte(Xor(o, twice), c, r) = Xor(RowByte(o, c, r), RowByte(twice, c, r))
    BY <2>1, <1>4, <1>5, RowXor
  <2>3. RowByte(Xor(Xor(o, twice), turned), c, r) = Xor(RowByte(Xor(o, twice), c, r), RowByte(turned, c, r))
    <3>1. PICK a : a = Xor(o, twice)
      OBVIOUS
    <3>2. a \in SUBSET Wide
      BY <3>1, <1>13
    <3>3. RowByte(Xor(a, turned), c, r) = Xor(RowByte(a, c, r), RowByte(turned, c, r))
      BY <3>2, <2>1, <1>6, RowXor
    <3> QED
      BY <3>1, <3>3
  <2>4. RowByte(Xor(eight, beside), c, r) = Xor(RowByte(eight, c, r), RowByte(beside, c, r))
    BY <2>1, <1>11, <1>12, RowXor
  <2>5. RowByte(Xor(fours, Xor(eight, beside)), c, r)
          = Xor(RowByte(fours, c, r), RowByte(Xor(eight, beside), c, r))
    BY <2>1, <1>9, <1>13, RowXor
  <2>6. RowByte(m, c, r) = Xor(RowByte(Xor(Xor(o, twice), turned), c, r),
                               RowByte(Xor(fours, Xor(eight, beside)), c, r))
    BY <2>1, <1>1, <1>13, RowXor
  <2> QED
    BY <2>2, <2>3, <2>4, <2>5, <2>6
<1>15. /\ RowByte(turned, c, 0) = X1(1) /\ RowByte(turned, c, 1) = X1(2)
       /\ RowByte(turned, c, 2) = X1(3) /\ RowByte(turned, c, 3) = X1(0)
       /\ RowByte(twice, c, 0) = X1(0) /\ RowByte(twice, c, 1) = X1(1)
       /\ RowByte(twice, c, 2) = X1(2) /\ RowByte(twice, c, 3) = X1(3)
  BY <1>3, <1>5, <1>6
<1>16. /\ RowByte(four, c, 0) = X2(0) /\ RowByte(four, c, 1) = X2(1)
       /\ RowByte(four, c, 2) = X2(2) /\ RowByte(four, c, 3) = X2(3)
       /\ RowByte(across, c, 0) = X2(2) /\ RowByte(across, c, 1) = X2(3)
       /\ RowByte(across, c, 2) = X2(0) /\ RowByte(across, c, 3) = X2(1)
  <2>1. RowByte(four, c, 4) = RowByte(four, c, 0) /\ RowByte(four, c, 5) = RowByte(four, c, 1)
    BY DEF RowByte
  <2>2. /\ RowByte(four, c, 0) = X2(0) /\ RowByte(four, c, 1) = X2(1)
        /\ RowByte(four, c, 2) = X2(2) /\ RowByte(four, c, 3) = X2(3)
    BY <1>7, <1>15
  <2>3. /\ RowByte(across, c, 0) = RowByte(four, c, 2) /\ RowByte(across, c, 1) = RowByte(four, c, 3)
        /\ RowByte(across, c, 2) = RowByte(four, c, 4) /\ RowByte(across, c, 3) = RowByte(four, c, 5)
    BY <1>8
  <2> QED
    BY <2>1, <2>2, <2>3
<1>17. /\ X1(0) \in Byte /\ X1(1) \in Byte /\ X1(2) \in Byte /\ X1(3) \in Byte
       /\ X2(0) \in Byte /\ X2(1) \in Byte /\ X2(2) \in Byte /\ X2(3) \in Byte
  BY <1>3, TwXor
<1>18. /\ RowByte(fours, c, 0) = Xor(X2(0), X2(2)) /\ RowByte(fours, c, 1) = Xor(X2(1), X2(3))
       /\ RowByte(fours, c, 2) = Xor(X2(2), X2(0)) /\ RowByte(fours, c, 3) = Xor(X2(3), X2(1))
  BY <1>10, <1>16
<1>19. /\ RowByte(eight, c, 0) = Xor(X3(0), X3(2)) /\ RowByte(eight, c, 1) = Xor(X3(1), X3(3))
       /\ RowByte(eight, c, 2) = Xor(X3(2), X3(0)) /\ RowByte(eight, c, 3) = Xor(X3(3), X3(1))
  BY <1>11, <1>17, <1>18, TwXor
<1>20. /\ Column(InvMixRow, t, 0)
            = Xor4(Xor(Xor(X3(0), X2(0)), X1(0)), Xor(Xor(X3(1), X1(1)), t[1]),
                   Xor(Xor(X3(2), X2(2)), t[2]), Xor(X3(3), t[3]))
       /\ Column(InvMixRow, t, 1)
            = Xor4(Xor(X3(0), t[0]), Xor(Xor(X3(1), X2(1)), X1(1)),
                   Xor(Xor(X3(2), X1(2)), t[2]), Xor(Xor(X3(3), X2(3)), t[3]))
       /\ Column(InvMixRow, t, 2)
            = Xor4(Xor(Xor(X3(0), X2(0)), t[0]), Xor(X3(1), t[1]),
                   Xor(Xor(X3(2), X2(2)), X1(2)), Xor(Xor(X3(3), X1(3)), t[3]))
       /\ Column(InvMixRow, t, 3)
            = Xor4(Xor(Xor(X3(0), X1(0)), t[0]), Xor(Xor(X3(1), X2(1)), t[1]),
                   Xor(X3(2), t[2]), Xor(Xor(X3(3), X2(3)), X1(3)))
  BY <1>3, InvMixedColumn, StoredAre
<1> HIDE DEF X1, X2, X3
<1>21. RowByte(m, c, 0) = Column(InvMixRow, t, 0)
  <2>1. RowByte(m, c, 0)
          = Xor(Xor(Xor(Xor(Xor(t[1], t[2]), t[3]), X1(0)), X1(1)),
                Xor(Xor(X2(0), X2(2)),
                    Xor(Xor(X3(0), X3(2)), Xor(X3(1), X3(3)))))
    BY <1>4, <1>12, <1>14, <1>15, <1>18, <1>19
  <2>2. Xor(Xor(Xor(Xor(Xor(t[1], t[2]), t[3]), X1(0)), X1(1)),
                Xor(Xor(X2(0), X2(2)),
                    Xor(Xor(X3(0), X3(2)), Xor(X3(1), X3(3)))))
          = Xor4(Xor(Xor(X3(0), X2(0)), X1(0)), Xor(Xor(X3(1), X1(1)), t[1]),
                Xor(Xor(X3(2), X2(2)), t[2]), Xor(X3(3), t[3]))
    BY InvMixedSums
  <2> QED
    BY <2>1, <2>2, <1>20
<1>22. RowByte(m, c, 1) = Column(InvMixRow, t, 1)
  <2>1. RowByte(m, c, 1)
          = Xor(Xor(Xor(Xor(Xor(t[0], t[2]), t[3]), X1(1)), X1(2)),
                Xor(Xor(X2(1), X2(3)),
                    Xor(Xor(X3(1), X3(3)), Xor(X3(0), X3(2)))))
    BY <1>4, <1>12, <1>14, <1>15, <1>18, <1>19
  <2>2. Xor(Xor(Xor(Xor(Xor(t[0], t[2]), t[3]), X1(1)), X1(2)),
                Xor(Xor(X2(1), X2(3)),
                    Xor(Xor(X3(1), X3(3)), Xor(X3(0), X3(2)))))
          = Xor4(Xor(X3(0), t[0]), Xor(Xor(X3(1), X2(1)), X1(1)),
                Xor(Xor(X3(2), X1(2)), t[2]), Xor(Xor(X3(3), X2(3)), t[3]))
    BY InvMixedSums
  <2> QED
    BY <2>1, <2>2, <1>20
<1>23. RowByte(m, c, 2) = Column(InvMixRow, t, 2)
  <2>1. RowByte(m, c, 2)
          = Xor(Xor(Xor(Xor(Xor(t[0], t[1]), t[3]), X1(2)), X1(3)),
                Xor(Xor(X2(2), X2(0)),
                    Xor(Xor(X3(2), X3(0)), Xor(X3(3), X3(1)))))
    BY <1>4, <1>12, <1>14, <1>15, <1>18, <1>19
  <2>2. Xor(Xor(Xor(Xor(Xor(t[0], t[1]), t[3]), X1(2)), X1(3)),
                Xor(Xor(X2(2), X2(0)),
                    Xor(Xor(X3(2), X3(0)), Xor(X3(3), X3(1)))))
          = Xor4(Xor(Xor(X3(0), X2(0)), t[0]), Xor(X3(1), t[1]),
                Xor(Xor(X3(2), X2(2)), X1(2)), Xor(Xor(X3(3), X1(3)), t[3]))
    BY InvMixedSums
  <2> QED
    BY <2>1, <2>2, <1>20
<1>24. RowByte(m, c, 3) = Column(InvMixRow, t, 3)
  <2>1. RowByte(m, c, 3)
          = Xor(Xor(Xor(Xor(Xor(t[0], t[1]), t[2]), X1(3)), X1(0)),
                Xor(Xor(X2(3), X2(1)),
                    Xor(Xor(X3(3), X3(1)), Xor(X3(2), X3(0)))))
    BY <1>4, <1>12, <1>14, <1>15, <1>18, <1>19
  <2>2. Xor(Xor(Xor(Xor(Xor(t[0], t[1]), t[2]), X1(3)), X1(0)),
                Xor(Xor(X2(3), X2(1)),
                    Xor(Xor(X3(3), X3(1)), Xor(X3(2), X3(0)))))
          = Xor4(Xor(Xor(X3(0), X1(0)), t[0]), Xor(Xor(X3(1), X2(1)), t[1]),
                Xor(X3(2), t[2]), Xor(Xor(X3(3), X2(3)), X1(3)))
    BY InvMixedSums
  <2> QED
    BY <2>1, <2>2, <1>20
<1>25. \A r \in 0..3 : r = 0 \/ r = 1 \/ r = 2 \/ r = 3
  OBVIOUS
<1> QED
  BY <1>2, <1>13, <1>21, <1>22, <1>23, <1>24, <1>25 DEF m, s

------------------------------------------------------------------------------
(* A block in two words                                                    *)
TwoWords(s) == s[1] \in SUBSET Wide /\ s[2] \in SUBSET Wide

(* Byte i of the block is in word h, in row r of its column c.             *)
LEMMA PlaceOf ==
  ASSUME NEW i \in Index
  PROVE  \E h \in 0..1, c \in 0..1, r \in 0..3 :
           /\ i = 8 * h + (4 * c + r) /\ i \div 8 = h /\ i % 8 = 4 * c + r
           /\ i \div 4 = 2 * h + c /\ i % 4 = r /\ 4 * c + r \in Lane64
<1>1. PICK n : n = i \div 4
  OBVIOUS
<1>2. PICK r : r = i % 4
  OBVIOUS
<1>3. n \in 0..3 /\ r \in 0..3 /\ i = 4 * n + r
  BY <1>1, <1>2 DEF Index
<1>4. PICK h \in 0..1, c \in 0..1 : n = 2 * h + c
  <2>1. n = 2 * 0 + 0 \/ n = 2 * 0 + 1 \/ n = 2 * 1 + 0 \/ n = 2 * 1 + 1
    BY <1>3
  <2>2. 0 \in 0..1 /\ 1 \in 0..1
    OBVIOUS
  <2> QED
    BY <2>1, <2>2
<1>5. i = 8 * h + (4 * c + r) /\ 4 * c + r \in Lane64
  BY <1>3, <1>4 DEF Lane64
<1>6. i \div 8 = h /\ i % 8 = 4 * c + r
  BY <1>3, <1>4, <1>5
<1> QED
  BY <1>1, <1>2, <1>3, <1>4, <1>5, <1>6

LEMMA ByteAt ==
  ASSUME NEW s, TwoWords(s), NEW i \in Index
  PROVE  /\ 1 + (i \div 8) \in {1, 2} /\ i % 8 \in Lane64
         /\ s[1 + (i \div 8)] \in SUBSET Wide
         /\ BytesOf(s)[i] = ByteOf(s[1 + (i \div 8)], i % 8)
         /\ BytesOf(s)[i] \in Byte
<1>1. i \div 8 \in 0..1 /\ i % 8 \in Lane64
  BY DEF Index, Lane64
<1>2. 1 + (i \div 8) \in {1, 2}
  BY <1>1
<1>3. s[1 + (i \div 8)] \in SUBSET Wide
  BY <1>2 DEF TwoWords
<1> QED
  BY <1>1, <1>2, <1>3, WideByte DEF BytesOf

LEMMA BytesOfBytes == ASSUME NEW s, TwoWords(s) PROVE BytesOf(s) \in Bytes
<1>1. BytesOf(s) = [i \in Index |-> BytesOf(s)[i]]
  BY DEF BytesOf
<1> QED
  BY <1>1, ByteAt DEF Bytes

(* What was copied into the words is copied out of them.                   *)
LEMMA WordBytes ==
  ASSUME NEW bytes \in Bytes, NEW h \in 0..1, NEW w,
         w = UNION {ShiftL(bytes[8 * h + k], 8 * k, 64) : k \in 0..7}
  PROVE  w \in SUBSET Wide /\ \A l \in Lane64 : ByteOf(w, l) = bytes[8 * h + l]
<1>1. \A k \in 0..7 : bytes[8 * h + k] \in Byte
  <2>1. \A k \in 0..7 : 8 * h + k \in Index
    BY DEF Index
  <2> QED
    BY <2>1 DEF Bytes
<1>2. \A k \in 0..7 : \A b \in bytes[8 * h + k] : b \in 0..7
  BY <1>1 DEF Byte, Bits
<1>3. \A c : c \in w <=> \E k \in 0..7 : c \in ShiftL(bytes[8 * h + k], 8 * k, 64)
  OBVIOUS
<1>4. \A k \in 0..7 : \A c : c \in ShiftL(bytes[8 * h + k], 8 * k, 64)
                              <=> \E b \in bytes[8 * h + k] : c = b + 8 * k
  <2> TAKE k \in 0..7
  <2>1. \A b \in bytes[8 * h + k] : b + 8 * k < 64
    BY <1>2
  <2> QED
    BY <2>1 DEF ShiftL
<1>5. \A c \in w : \E k \in 0..7 : \E b \in bytes[8 * h + k] : c = b + 8 * k
  BY <1>3, <1>4
<1>6. w \in SUBSET Wide
  <2> SUFFICES ASSUME NEW c \in w PROVE c \in 0..63
    BY DEF Wide
  <2>3. PICK k \in 0..7 : \E b \in bytes[8 * h + k] : c = b + 8 * k
    BY <1>5
  <2>1. PICK b \in bytes[8 * h + k] : c = b + 8 * k
    BY <2>3
  <2>2. b \in 0..7
    BY <1>2
  <2> QED
    BY <2>1, <2>2
<1>7. ASSUME NEW l \in Lane64
      PROVE  ByteOf(w, l) = bytes[8 * h + l]
  <2>1. l \in 0..7
    BY DEF Lane64
  <2>2. ASSUME NEW d \in Bits
        PROVE  d + 8 * l \in w <=> d \in bytes[8 * h + l]
    <3>1. d \in 0..7
      BY DEF Bits
    <3>2. ASSUME d + 8 * l \in w PROVE d \in bytes[8 * h + l]
      <4>0. PICK k \in 0..7 : \E b \in bytes[8 * h + k] : d + 8 * l = b + 8 * k
        BY <1>5, <3>2
      <4>1. PICK b \in bytes[8 * h + k] : d + 8 * l = b + 8 * k
        BY <4>0
      <4>2. b \in 0..7
        BY <1>2
      <4>3. k = l /\ b = d
        BY <2>1, <3>1, <4>1, <4>2
      <4> QED
        BY <4>3
    <3> QED
      BY <2>1, <3>2, <1>3, <1>4
  <2>3. ByteOf(w, l) \in Byte /\ \A d \in Bits : d \in ByteOf(w, l) <=> d + 8 * l \in w
    BY <1>6, WideByte
  <2>4. PICK v : v = bytes[8 * h + l]
    OBVIOUS
  <2>5. v \in Byte /\ \A d \in Bits : d \in ByteOf(w, l) <=> d \in v
    BY <1>1, <2>1, <2>2, <2>3, <2>4
  <2> QED
    BY <2>3, <2>4, <2>5, ByteSame
<1> QED
  BY <1>6, <1>7

LEMMA BytesOfWords ==
  ASSUME NEW bytes \in Bytes
  PROVE  TwoWords(WordsOf(bytes)) /\ BytesOf(WordsOf(bytes)) = bytes
<1> DEFINE Word(h) == UNION {ShiftL(bytes[8 * h + k], 8 * k, 64) : k \in 0..7}
           s == WordsOf(bytes)
<1>1. s[1] = Word(0) /\ s[2] = Word(1)
  BY DEF WordsOf
<1>2. /\ Word(0) \in SUBSET Wide /\ Word(1) \in SUBSET Wide
      /\ \A l \in Lane64 : ByteOf(Word(0), l) = bytes[8 * 0 + l]
      /\ \A l \in Lane64 : ByteOf(Word(1), l) = bytes[8 * 1 + l]
  <2>1. ASSUME NEW h \in 0..1
        PROVE  Word(h) \in SUBSET Wide /\ \A l \in Lane64 : ByteOf(Word(h), l) = bytes[8 * h + l]
    <3>1. PICK w : w = Word(h)
      OBVIOUS
    <3>2. w = UNION {ShiftL(bytes[8 * h + k], 8 * k, 64) : k \in 0..7}
      BY ONLY <3>1 DEF Word
    <3> HIDE DEF Word
    <3>3. w \in SUBSET Wide /\ \A l \in Lane64 : ByteOf(w, l) = bytes[8 * h + l]
      BY <2>1, <3>2, WordBytes
    <3> QED
      BY <3>1, <3>3
  <2> HIDE DEF Word
  <2>2. 0 \in 0..1 /\ 1 \in 0..1
    OBVIOUS
  <2> QED
    BY <2>1, <2>2
<1> HIDE DEF Word, s
<1>3. TwoWords(s)
  BY <1>1, <1>2 DEF TwoWords
<1>4. ASSUME NEW i \in Index
      PROVE  BytesOf(s)[i] = bytes[i]
  <2>1. PICK h \in 0..1, c \in 0..1, r \in 0..3 :
           i = 8 * h + (4 * c + r) /\ i \div 8 = h /\ i % 8 = 4 * c + r /\ 4 * c + r \in Lane64
    BY PlaceOf
  <2>2. PICK l \in Lane64 : l = 4 * c + r
    BY <2>1
  <2>3. BytesOf(s)[i] = ByteOf(s[1 + h], l) /\ i = 8 * h + l
    BY <1>3, <2>1, <2>2, ByteAt
  <2>4. h = 0 \/ h = 1
    OBVIOUS
  <2>5. 1 + 0 = 1 /\ 1 + 1 = 2
    OBVIOUS
  <2> QED
    BY <1>1, <1>2, <2>3, <2>4, <2>5
<1>5. BytesOf(s) = [i \in Index |-> BytesOf(s)[i]] /\ bytes = [i \in Index |-> bytes[i]]
  BY DEF BytesOf, Bytes
<1> QED
  BY <1>3, <1>4, <1>5 DEF s

(* The rounds of the words are those of the bytes.                         *)
LEMMA SubbedBytes ==
  ASSUME NEW s, TwoWords(s)
  PROVE  /\ TwoWords(SubLongs(s)) /\ TwoWords(InvSubLongs(s))
         /\ \A i \in Index : /\ BytesOf(SubLongs(s))[i] = e_sbox[BytesOf(s)[i]]
                             /\ BytesOf(InvSubLongs(s))[i] = d_sbox[BytesOf(s)[i]]
<1>1. /\ SubLongs(s)[1] = SubLong(s[1]) /\ SubLongs(s)[2] = SubLong(s[2])
      /\ InvSubLongs(s)[1] = InvSubLong(s[1]) /\ InvSubLongs(s)[2] = InvSubLong(s[2])
  BY DEF SubLongs, InvSubLongs
<1>2. s[1] \in SUBSET Wide /\ s[2] \in SUBSET Wide
  BY DEF TwoWords
<1>3. TwoWords(SubLongs(s)) /\ TwoWords(InvSubLongs(s))
  BY <1>1, <1>2, SubBytes DEF TwoWords
<1>4. ASSUME NEW i \in Index
      PROVE  /\ BytesOf(SubLongs(s))[i] = e_sbox[BytesOf(s)[i]]
             /\ BytesOf(InvSubLongs(s))[i] = d_sbox[BytesOf(s)[i]]
  <2>1. PICK n, l : n = 1 + (i \div 8) /\ l = i % 8
    OBVIOUS
  <2>2. n \in {1, 2} /\ l \in Lane64 /\ BytesOf(s)[i] = ByteOf(s[n], l)
    BY <2>1, ByteAt
  <2>3. BytesOf(SubLongs(s))[i] = ByteOf(SubLongs(s)[n], l)
    BY <2>1, <1>3, ByteAt
  <2>4. BytesOf(InvSubLongs(s))[i] = ByteOf(InvSubLongs(s)[n], l)
    BY <2>1, <1>3, ByteAt
  <2> QED
    BY <1>1, <1>2, <2>2, <2>3, <2>4, SubBytes
<1> QED
  BY <1>3, <1>4

LEMMA SourceOf ==
  ASSUME NEW i \in Index
  PROVE  /\ 4 * (((i \div 4) + Row(i)) % 4) + Row(i) \in Index
         /\ 4 * (((i \div 4) + Row(i)) % 4) + Row(i) = (i + 4 * Row(i)) % 16
         /\ 4 * ((4 - Row(i) + (i \div 4)) % 4) + Row(i) \in Index
         /\ 4 * ((4 - Row(i) + (i \div 4)) % 4) + Row(i) = (i - 4 * Row(i)) % 16
<1>1. PICK n : n = i \div 4
  OBVIOUS
<1>2. PICK r : r = Row(i)
  OBVIOUS
<1>3. n \in 0..3 /\ r \in 0..3 /\ i = 4 * n + r
  BY <1>1, <1>2 DEF Index, Row
<1>4. \/ n + r < 4 /\ (n + r) % 4 = n + r /\ (i + 4 * r) % 16 = i + 4 * r
      \/ n + r >= 4 /\ (n + r) % 4 = n + r - 4 /\ (i + 4 * r) % 16 = i + 4 * r - 16
  BY <1>3
<1>5. \/ n < r /\ (4 - r + n) % 4 = 4 - r + n /\ (i - 4 * r) % 16 = i - 4 * r + 16
      \/ n >= r /\ (4 - r + n) % 4 = n - r /\ (i - 4 * r) % 16 = i - 4 * r
  BY <1>3
<1>6. /\ 4 * ((n + r) % 4) + r = (i + 4 * r) % 16 /\ 4 * ((n + r) % 4) + r \in 0..15
      /\ 4 * ((4 - r + n) % 4) + r = (i - 4 * r) % 16 /\ 4 * ((4 - r + n) % 4) + r \in 0..15
  BY <1>3, <1>4, <1>5
<1> QED
  BY <1>1, <1>2, <1>6 DEF Index

LEMMA ShiftedRows ==
  ASSUME NEW s, TwoWords(s)
  PROVE  /\ TwoWords(ShiftRows(s)) /\ TwoWords(InvShiftRows(s))
         /\ BytesOf(ShiftRows(s)) = [i \in Index |-> BytesOf(s)[(i + 4 * Row(i)) % 16]]
         /\ BytesOf(InvShiftRows(s)) = [i \in Index |-> BytesOf(s)[(i - 4 * Row(i)) % 16]]
         /\ \A i \in Index : (i + 4 * Row(i)) % 16 \in Index /\ (i - 4 * Row(i)) % 16 \in Index
<1>1. PICK b : b = BytesOf(s)
  OBVIOUS
<1>2. b \in Bytes
  BY <1>1, BytesOfBytes
<1> DEFINE to == [i \in Index |-> b[4 * (((i \div 4) + Row(i)) % 4) + Row(i)]]
           from == [i \in Index |-> b[4 * ((4 - Row(i) + (i \div 4)) % 4) + Row(i)]]
<1>3. ShiftRows(s) = WordsOf(to) /\ InvShiftRows(s) = WordsOf(from)
  BY <1>1 DEF ShiftRows, InvShiftRows
<1>4. to \in Bytes /\ from \in Bytes
  BY <1>2, SourceOf DEF Bytes
<1>5. /\ to = [i \in Index |-> b[(i + 4 * Row(i)) % 16]]
      /\ from = [i \in Index |-> b[(i - 4 * Row(i)) % 16]]
  BY SourceOf
<1>6. \A i \in Index : (i + 4 * Row(i)) % 16 \in Index /\ (i - 4 * Row(i)) % 16 \in Index
  BY SourceOf
<1> HIDE DEF to, from
<1>7. /\ TwoWords(WordsOf(to)) /\ BytesOf(WordsOf(to)) = to
      /\ TwoWords(WordsOf(from)) /\ BytesOf(WordsOf(from)) = from
  BY <1>4, BytesOfWords
<1> QED
  BY <1>1, <1>3, <1>5, <1>6, <1>7

(* SubBytes and ShiftRows, in the order of each direction                  *)
LEMMA SubbedAndShifted ==
  ASSUME NEW s, TwoWords(s)
  PROVE  /\ TwoWords(ShiftRows(SubLongs(s)))
         /\ BytesOf(ShiftRows(SubLongs(s))) = aes_subbytes_shiftrows(BytesOf(s))
         /\ TwoWords(InvSubLongs(InvShiftRows(s)))
         /\ BytesOf(InvSubLongs(InvShiftRows(s))) = aes_subbytes_shiftrows_dec(BytesOf(s))
<1>1. PICK b : b = BytesOf(s)
  OBVIOUS
<1>2. PICK u : u = SubLongs(s)
  OBVIOUS
<1>3. PICK v : v = InvShiftRows(s)
  OBVIOUS
<1>4. TwoWords(u) /\ \A i \in Index : BytesOf(u)[i] = e_sbox[b[i]]
  BY <1>1, <1>2, SubbedBytes
<1>5. TwoWords(v) /\ BytesOf(v) = [i \in Index |-> b[(i - 4 * Row(i)) % 16]]
  BY <1>1, <1>3, ShiftedRows
<1>6. /\ TwoWords(ShiftRows(u))
      /\ BytesOf(ShiftRows(u)) = [i \in Index |-> BytesOf(u)[(i + 4 * Row(i)) % 16]]
      /\ \A i \in Index : (i + 4 * Row(i)) % 16 \in Index
  BY <1>4, ShiftedRows
<1>7. BytesOf(ShiftRows(u)) = aes_subbytes_shiftrows(b)
  BY <1>4, <1>6 DEF aes_subbytes_shiftrows
<1>8. TwoWords(InvSubLongs(v)) /\ \A i \in Index : BytesOf(InvSubLongs(v))[i] = d_sbox[BytesOf(v)[i]]
  BY <1>5, SubbedBytes
<1>9. BytesOf(InvSubLongs(v)) = [i \in Index |-> BytesOf(InvSubLongs(v))[i]]
  BY DEF BytesOf
<1>10. \A i \in Index : BytesOf(InvSubLongs(v))[i] = d_sbox[b[(i - 4 * Row(i)) % 16]]
  BY <1>5, <1>8
<1>11. BytesOf(InvSubLongs(v)) = aes_subbytes_shiftrows_dec(b)
  BY <1>9, <1>10 DEF aes_subbytes_shiftrows_dec
<1> QED
  BY <1>1, <1>2, <1>3, <1>6, <1>7, <1>8, <1>11

LEMMA ColumnsMixed ==
  ASSUME NEW s, TwoWords(s)
  PROVE  /\ TwoWords(MixColumns(s)) /\ TwoWords(InvMixColumns(s))
         /\ BytesOf(MixColumns(s)) = aes_mix_columns_enc(BytesOf(s))
         /\ BytesOf(InvMixColumns(s)) = aes_mix_columns_dec(BytesOf(s))
<1>1. /\ MixColumns(s)[1] = MixedWord(s[1]) /\ MixColumns(s)[2] = MixedWord(s[2])
      /\ InvMixColumns(s)[1] = InvMixedWord(s[1]) /\ InvMixColumns(s)[2] = InvMixedWord(s[2])
  BY DEF MixColumns, InvMixColumns
<1>2. s[1] \in SUBSET Wide /\ s[2] \in SUBSET Wide
  BY DEF TwoWords
<1>3. TwoWords(MixColumns(s)) /\ TwoWords(InvMixColumns(s))
  <2>1. 0 \in 0..1
    OBVIOUS
  <2> QED
    BY <2>1, <1>1, <1>2, MixedWordBytes, InvMixedWordBytes DEF TwoWords
<1>4. PICK m, v : m = MixColumns(s) /\ v = InvMixColumns(s)
  OBVIOUS
<1>5. PICK b : b = BytesOf(s)
  OBVIOUS
<1>6. ASSUME NEW i \in Index
      PROVE  /\ BytesOf(m)[i] = Column(MixRow, [k \in 0..3 |-> b[4 * (i \div 4) + k]], i % 4)
             /\ BytesOf(v)[i] = Column(InvMixRow, [k \in 0..3 |-> b[4 * (i \div 4) + k]], i % 4)
  <2>1. PICK h \in 0..1, c \in 0..1, r \in 0..3 :
           /\ i = 8 * h + (4 * c + r) /\ i \div 8 = h /\ i % 8 = 4 * c + r
           /\ i \div 4 = 2 * h + c /\ i % 4 = r /\ 4 * c + r \in Lane64
    BY PlaceOf
  <2>2. PICK w : w = s[1 + h]
    OBVIOUS
  <2>3. w \in SUBSET Wide /\ m[1 + h] = MixedWord(w) /\ v[1 + h] = InvMixedWord(w)
    <3>1. h = 0 \/ h = 1
      OBVIOUS
    <3> QED
      BY <3>1, <2>2, <1>1, <1>2, <1>4
  <2>4. \A k \in 0..3 : b[4 * (i \div 4) + k] = RowByte(w, c, k)
    <3> TAKE k \in 0..3
    <3>1. PICK j : j = 4 * (i \div 4) + k
      OBVIOUS
    <3>2. j \in Index /\ j \div 8 = h /\ j % 8 = 4 * c + k
      BY <2>1, <3>1 DEF Index
    <3>3. b[j] = ByteOf(w, 4 * c + k)
      BY <1>5, <2>2, <3>2, ByteAt
    <3>4. k % 4 = k
      OBVIOUS
    <3> QED
      BY <3>1, <3>3, <3>4 DEF RowByte
  <2>5. BytesOf(m)[i] = RowByte(MixedWord(w), c, r) /\ BytesOf(v)[i] = RowByte(InvMixedWord(w), c, r)
    <3>1. BytesOf(m)[i] = ByteOf(m[1 + h], 4 * c + r) /\ BytesOf(v)[i] = ByteOf(v[1 + h], 4 * c + r)
      BY <1>3, <1>4, <2>1, ByteAt
    <3>2. r % 4 = r
      OBVIOUS
    <3> QED
      BY <2>3, <3>1, <3>2 DEF RowByte
  <2>6. [k \in 0..3 |-> b[4 * (i \div 4) + k]] = [k \in 0..3 |-> RowByte(w, c, k)]
    BY <2>4
  <2>7. PICK t : t = [k \in 0..3 |-> RowByte(w, c, k)]
    OBVIOUS
  <2>8. RowByte(MixedWord(w), c, r) = Column(MixRow, t, r)
    BY <2>3, <2>7, MixedWordBytes
  <2>9. RowByte(InvMixedWord(w), c, r) = Column(InvMixRow, t, r)
    BY <2>3, <2>7, InvMixedWordBytes
  <2> QED
    BY <2>1, <2>5, <2>6, <2>7, <2>8, <2>9
<1>7. /\ BytesOf(m) = [i \in Index |-> BytesOf(m)[i]]
      /\ BytesOf(v) = [i \in Index |-> BytesOf(v)[i]]
  BY DEF BytesOf
<1>8. /\ aes_mix_columns_enc(b)
           = [i \in Index |-> Column(MixRow, [k \in 0..3 |-> b[4 * (i \div 4) + k]], i % 4)]
      /\ aes_mix_columns_dec(b)
           = [i \in Index |-> Column(InvMixRow, [k \in 0..3 |-> b[4 * (i \div 4) + k]], i % 4)]
  BY DEF aes_mix_columns_enc, aes_mix_columns_dec, ColumnsBy, MixRow, InvMixRow
<1> QED
  BY <1>3, <1>4, <1>5, <1>6, <1>7, <1>8

(* Two words of the expanded key in one of 64 bits                         *)
LEMMA JoinedWords ==
  ASSUME NEW x \in Word32, NEW y \in Word32, NEW w, w = x \cup ShiftL(y, 32, 64)
  PROVE  /\ w \in SUBSET Wide
         /\ \A r \in 0..3 : ByteOf(w, 4 * 0 + r) = ByteOf(x, r) /\ ByteOf(w, 4 * 1 + r) = ByteOf(y, r)
<1>1. (\A b \in x : b \in 0..31) /\ (\A b \in y : b \in 0..31)
  BY DEF Word32
<1>2. \A c : c \in w <=> c \in x \/ (\E b \in y : c = b + 32)
  BY <1>1 DEF ShiftL
<1>3. w \in SUBSET Wide
  <2>1. \A c \in w : c \in 0..63
    BY <1>1, <1>2
  <2> QED
    BY <2>1 DEF Wide
<1>4. ASSUME NEW r \in 0..3
      PROVE  ByteOf(w, 4 * 0 + r) = ByteOf(x, r) /\ ByteOf(w, 4 * 1 + r) = ByteOf(y, r)
  <2>1. PICK l, m : l = 4 * 0 + r /\ m = 4 * 1 + r
    OBVIOUS
  <2>2. l \in Lane64 /\ m \in Lane64 /\ l = r /\ m = r + 4
    BY <2>1 DEF Lane64
  <2>3. /\ ByteOf(w, l) \in Byte /\ \A d \in Bits : d \in ByteOf(w, l) <=> d + 8 * l \in w
        /\ ByteOf(w, m) \in Byte /\ \A d \in Bits : d \in ByteOf(w, m) <=> d + 8 * m \in w
    BY <1>3, <2>2, WideByte
  <2>4. /\ ByteOf(x, r) \in Byte /\ \A d \in Bits : d \in ByteOf(x, r) <=> d + 8 * r \in x
        /\ ByteOf(y, r) \in Byte /\ \A d \in Bits : d \in ByteOf(y, r) <=> d + 8 * r \in y
    BY BitOfByte
  <2>5. ASSUME NEW d \in Bits
        PROVE  (d + 8 * l \in w <=> d + 8 * r \in x) /\ (d + 8 * m \in w <=> d + 8 * r \in y)
    <3>1. d \in 0..7
      BY DEF Bits
    <3>2. PICK p : p = d + 8 * r
      OBVIOUS
    <3>3. p \in 0..31 /\ d + 8 * l = p /\ d + 8 * m = p + 32
      BY <2>2, <3>1, <3>2
    <3>4. p \in w <=> p \in x
      BY <1>1, <1>2, <3>3
    <3>5. p + 32 \in w <=> p \in y
      <4>1. p + 32 \notin x
        BY <1>1, <3>3
      <4>2. \A b \in y : p + 32 = b + 32 => b = p
        BY <1>1, <3>3
      <4> QED
        BY <1>2, <4>1, <4>2
    <3> QED
      BY <3>2, <3>3, <3>4, <3>5
  <2>6. ByteOf(w, l) = ByteOf(x, r)
    <3>1. \A d \in Bits : d \in ByteOf(w, l) <=> d \in ByteOf(x, r)
      BY <2>3, <2>4, <2>5
    <3> QED
      BY <3>1, <2>3, <2>4, ByteSame
  <2>7. ByteOf(w, m) = ByteOf(y, r)
    <3>1. \A d \in Bits : d \in ByteOf(w, m) <=> d \in ByteOf(y, r)
      BY <2>3, <2>4, <2>5
    <3> QED
      BY <3>1, <2>3, <2>4, ByteSame
  <2> QED
    BY <2>1, <2>6, <2>7
<1> QED
  BY <1>3, <1>4

(* the words of round n of an expanded key                                 *)
HasRound(key, n) == \A k \in 0..3 : key[4 * n + k] \in Word32

LEMMA KeyBytes ==
  ASSUME NEW key, NEW n \in Nat, HasRound(key, n)
  PROVE  /\ TwoWords(RoundWords(key, n)) /\ RoundKeyOf(key, n) \in Bytes
         /\ BytesOf(RoundWords(key, n)) = RoundKeyOf(key, n)
<1>1. PICK z \in Int : z = 4 * n
  OBVIOUS
<1>2. PICK w : w = RoundWords(key, n)
  OBVIOUS
<1>3. \A k \in 0..3 : key[z + k] \in Word32
  BY <1>1 DEF HasRound
<1>4. key[z] \in Word32 /\ key[z + 1] \in Word32 /\ key[z + 2] \in Word32 /\ key[z + 3] \in Word32
  <2>1. z + 0 = z /\ {0, 1, 2, 3} \subseteq 0..3
    OBVIOUS
  <2> QED
    BY <1>3, <2>1
<1>5. /\ w[1] = key[z] \cup ShiftL(key[z + 1], 32, 64)
      /\ w[2] = key[z + 2] \cup ShiftL(key[z + 3], 32, 64)
  BY <1>1, <1>2 DEF RoundWords
<1>6. /\ w[1] \in SUBSET Wide /\ w[2] \in SUBSET Wide
      /\ \A r \in 0..3 : /\ ByteOf(w[1], 4 * 0 + r) = ByteOf(key[z], r)
                         /\ ByteOf(w[1], 4 * 1 + r) = ByteOf(key[z + 1], r)
                         /\ ByteOf(w[2], 4 * 0 + r) = ByteOf(key[z + 2], r)
                         /\ ByteOf(w[2], 4 * 1 + r) = ByteOf(key[z + 3], r)
  <2>1. \A x, y \in Word32 : \A v :
          v = x \cup ShiftL(y, 32, 64) =>
            /\ v \in SUBSET Wide
            /\ \A r \in 0..3 : ByteOf(v, 4 * 0 + r) = ByteOf(x, r) /\ ByteOf(v, 4 * 1 + r) = ByteOf(y, r)
    BY JoinedWords
  <2>2. /\ w[1] \in SUBSET Wide
        /\ \A r \in 0..3 : /\ ByteOf(w[1], 4 * 0 + r) = ByteOf(key[z], r)
                           /\ ByteOf(w[1], 4 * 1 + r) = ByteOf(key[z + 1], r)
    BY ONLY <2>1, <1>4, <1>5
  <2>3. /\ w[2] \in SUBSET Wide
        /\ \A r \in 0..3 : /\ ByteOf(w[2], 4 * 0 + r) = ByteOf(key[z + 2], r)
                           /\ ByteOf(w[2], 4 * 1 + r) = ByteOf(key[z + 3], r)
    BY ONLY <2>1, <1>4, <1>5
  <2> QED
    BY <2>2, <2>3
<1>7. TwoWords(w)
  BY <1>6 DEF TwoWords
<1>8. ASSUME NEW i \in Index
      PROVE  BytesOf(w)[i] = ByteOf(key[z + (i \div 4)], i % 4)
  <2>1. PICK h \in 0..1, c \in 0..1, r \in 0..3 :
           /\ i = 8 * h + (4 * c + r) /\ i \div 8 = h /\ i % 8 = 4 * c + r
           /\ i \div 4 = 2 * h + c /\ i % 4 = r /\ 4 * c + r \in Lane64
    BY PlaceOf
  <2>2. BytesOf(w)[i] = ByteOf(w[1 + h], 4 * c + r)
    BY <1>7, <2>1, ByteAt
  <2>3. CASE h = 0 /\ c = 0
    <3>1. i \div 4 = 0 /\ z + 0 = z /\ 1 + h = 1
      BY <2>1, <2>3
    <3> QED
      BY <1>6, <2>1, <2>2, <2>3, <3>1
  <2>4. CASE h = 0 /\ c = 1
    <3>1. i \div 4 = 1 /\ 1 + h = 1
      BY <2>1, <2>4
    <3> QED
      BY <1>6, <2>1, <2>2, <2>4, <3>1
  <2>5. CASE h = 1 /\ c = 0
    <3>1. i \div 4 = 2 /\ 1 + h = 2
      BY <2>1, <2>5
    <3> QED
      BY <1>6, <2>1, <2>2, <2>5, <3>1
  <2>6. CASE h = 1 /\ c = 1
    <3>1. i \div 4 = 3 /\ 1 + h = 2
      BY <2>1, <2>6
    <3> QED
      BY <1>6, <2>1, <2>2, <2>6, <3>1
  <2> QED
    BY <2>3, <2>4, <2>5, <2>6
<1>9. BytesOf(w) = [i \in Index |-> BytesOf(w)[i]]
  BY DEF BytesOf
<1>10. BytesOf(w) = RoundKeyOf(key, n)
  BY <1>1, <1>8, <1>9 DEF RoundKeyOf
<1> QED
  BY <1>2, <1>7, <1>10, BytesOfBytes

LEMMA AddedBytes ==
  ASSUME NEW s, TwoWords(s), NEW w, TwoWords(w)
  PROVE  TwoWords(AddRoundKey(s, w)) /\ BytesOf(AddRoundKey(s, w)) = AddBytes(BytesOf(s), BytesOf(w))
<1>1. PICK t : t = AddRoundKey(s, w)
  OBVIOUS
<1>2. /\ t[1] = Xor(s[1], w[1]) /\ t[2] = Xor(s[2], w[2])
      /\ s[1] \in SUBSET Wide /\ s[2] \in SUBSET Wide /\ w[1] \in SUBSET Wide /\ w[2] \in SUBSET Wide
  BY <1>1 DEF AddRoundKey, TwoWords
<1>3. TwoWords(t)
  BY <1>2, WideXor DEF TwoWords
<1>4. ASSUME NEW i \in Index
      PROVE  BytesOf(t)[i] = Xor(BytesOf(s)[i], BytesOf(w)[i])
  <2>1. PICK n, l : n = 1 + (i \div 8) /\ l = i % 8
    OBVIOUS
  <2>2. /\ n \in {1, 2} /\ l \in Lane64 /\ BytesOf(s)[i] = ByteOf(s[n], l)
        /\ BytesOf(w)[i] = ByteOf(w[n], l) /\ BytesOf(t)[i] = ByteOf(t[n], l)
    BY <2>1, <1>3, ByteAt
  <2>3. t[n] = Xor(s[n], w[n]) /\ s[n] \in SUBSET Wide /\ w[n] \in SUBSET Wide
    BY <2>2, <1>2
  <2> QED
    BY <2>2, <2>3, WideXor
<1>5. BytesOf(t) = [i \in Index |-> BytesOf(t)[i]]
  BY DEF BytesOf
<1> QED
  BY <1>1, <1>3, <1>4, <1>5 DEF AddBytes

LEMMA KeyAdded ==
  ASSUME NEW s, TwoWords(s), NEW key, NEW n \in Nat, HasRound(key, n)
  PROVE  /\ TwoWords(AddRoundKey(s, RoundWords(key, n)))
         /\ BytesOf(AddRoundKey(s, RoundWords(key, n))) = AddBytes(BytesOf(s), RoundKeyOf(key, n))
<1>1. PICK w : w = RoundWords(key, n)
  OBVIOUS
<1>2. TwoWords(w) /\ BytesOf(w) = RoundKeyOf(key, n)
  BY <1>1, KeyBytes
<1> QED
  BY <1>1, <1>2, AddedBytes

------------------------------------------------------------------------------
(* The bytes of the block form a cipher.                                   *)
LEMMA AddedTwice ==
  ASSUME NEW b \in Bytes, NEW k \in Bytes
  PROVE  AddBytes(b, k) \in Bytes /\ AddBytes(AddBytes(b, k), k) = b
<1>1. \A i \in Index : b[i] \in Byte /\ k[i] \in Byte
  BY DEF Bytes
<1>2. \A i \in Index : Xor(b[i], k[i]) \in Byte
  BY <1>1, XorBits
<1>3. \A x, y : Xor(Xor(x, y), y) = x
  <2> TAKE x, y
  <2>1. \A d : d \in Xor(Xor(x, y), y) <=> d \in x
    BY DEF Xor
  <2>2. \A u, v : (\A d : d \in u <=> d \in v) => u = v
    OBVIOUS
  <2> QED
    BY <2>1, <2>2
<1>4. AddBytes(b, k) \in Bytes
  BY <1>2 DEF AddBytes, Bytes
<1>5. AddBytes(AddBytes(b, k), k) = [i \in Index |-> b[i]]
  BY <1>3 DEF AddBytes
<1> QED
  BY <1>4, <1>5 DEF Bytes

LEMMA ShiftedBack ==
  ASSUME NEW i \in Index
  PROVE  /\ (i + 4 * Row(i)) % 16 \in Index /\ (i - 4 * Row(i)) % 16 \in Index
         /\ Row((i - 4 * Row(i)) % 16) = Row(i)
         /\ (((i - 4 * Row(i)) % 16) + 4 * Row(i)) % 16 = i
<1>1. PICK n : n = i \div 4
  OBVIOUS
<1>2. PICK r : r = Row(i)
  OBVIOUS
<1>3. n \in 0..3 /\ r \in 0..3 /\ i = 4 * n + r
  BY <1>1, <1>2 DEF Index, Row
<1>4. PICK j : j = (i - 4 * r) % 16
  OBVIOUS
<1>5. \/ n < r /\ j = 4 * (n - r + 4) + r /\ n - r + 4 \in 0..3
      \/ n >= r /\ j = 4 * (n - r) + r /\ n - r \in 0..3
  BY <1>3, <1>4
<1>6. PICK m \in 0..3 : j = 4 * m + r /\ (m = n - r \/ m = n - r + 4)
  BY <1>5
<1>7. j \in 0..15 /\ j % 4 = r
  BY <1>3, <1>6
<1>8. (j + 4 * r) % 16 = i
  <2>1. CASE m = n - r
    <3>1. j + 4 * r = i
      BY <1>3, <1>6, <2>1
    <3> QED
      BY <1>3, <3>1
  <2>2. CASE m = n - r + 4
    <3>1. j + 4 * r = i + 16
      BY <1>3, <1>6, <2>2
    <3> QED
      BY <1>3, <3>1
  <2> QED
    BY <1>6, <2>1, <2>2
<1>9. (i + 4 * r) % 16 \in 0..15
  BY <1>3
<1> QED
  BY <1>2, <1>4, <1>7, <1>8, <1>9 DEF Index, Row

LEMMA DboxByte == \A x \in Byte : d_sbox[e_sbox[x]] = x
BY TablesAssumption

LEMMA SubstitutedBack ==
  ASSUME NEW b \in Bytes
  PROVE  /\ aes_subbytes_shiftrows(b) \in Bytes
         /\ aes_subbytes_shiftrows_dec(aes_subbytes_shiftrows(b)) = b
<1>1. PICK u : u = aes_subbytes_shiftrows(b)
  OBVIOUS
<1>2. u = [i \in Index |-> e_sbox[b[(i + 4 * Row(i)) % 16]]]
  BY <1>1 DEF aes_subbytes_shiftrows
<1>3. \A i \in Index : b[i] \in Byte
  BY DEF Bytes
<1>4. u \in Bytes
  <2>1. \A i \in Index : e_sbox[b[(i + 4 * Row(i)) % 16]] \in Byte
    BY <1>3, ShiftedBack, SboxByte
  <2> QED
    BY <1>2, <2>1 DEF Bytes
<1>5. ASSUME NEW i \in Index
      PROVE  d_sbox[u[(i - 4 * Row(i)) % 16]] = b[i]
  <2>1. PICK j \in Index : j = (i - 4 * Row(i)) % 16
    BY ShiftedBack
  <2>2. (j + 4 * Row(j)) % 16 = i
    BY <2>1, ShiftedBack
  <2>3. u[j] = e_sbox[b[i]]
    BY <1>2, <2>2
  <2> QED
    BY <1>3, <2>1, <2>3, DboxByte
<1>6. aes_subbytes_shiftrows_dec(u) = [i \in Index |-> b[i]]
  BY <1>5 DEF aes_subbytes_shiftrows_dec
<1> QED
  BY <1>1, <1>4, <1>6 DEF Bytes

LEMMA Xor4Turned == \A a, b, c, d : Xor4(a, b, c, d) = Xor4(b, c, d, a)
<1> TAKE a, b, c, d
<1>1. \A e : e \in Xor4(a, b, c, d) <=> e \in Xor4(b, c, d, a)
  BY DEF Xor, Xor4
<1>2. \A u, v : (\A e : e \in u <=> e \in v) => u = v
  OBVIOUS
<1> QED
  BY <1>1, <1>2

(* the products of the bytes e and f of two columns that OpenSSL's and the *)
(* macros' InvMixColumns add                                               *)
Unmixed(e0, e1, e2, e3) ==
  Xor4(Stored(14, e0), Stored(11, e1), Stored(13, e2), Stored(9, e3))

LEMMA UnmixedIs ==
  ASSUME NEW e0 \in Byte, NEW e1 \in Byte, NEW e2 \in Byte, NEW e3 \in Byte
  PROVE  Unmixed(e0, e1, e2, e3)
           = Xor4(Tw(Tw(Tw(Xor4(e0, e1, e2, e3)))), Tw(Tw(Xor(e0, e2))), Tw(Xor(e0, e1)),
                  Xor(Xor(e1, e2), e3))
<1> DEFINE x1(e) == Tw(e)
           x2(e) == Tw(Tw(e))
           x3(e) == Tw(Tw(Tw(e)))
<1>1. ASSUME NEW x \in Byte, NEW y \in Byte
      PROVE  /\ x1(Xor(x, y)) = Xor(x1(x), x1(y)) /\ x2(Xor(x, y)) = Xor(x2(x), x2(y))
             /\ x3(Xor(x, y)) = Xor(x3(x), x3(y)) /\ Xor(x, y) \in Byte
  <2>1. Tw(x) \in Byte /\ Tw(y) \in Byte /\ Tw(Tw(x)) \in Byte /\ Tw(Tw(y)) \in Byte
    BY TwXor
  <2>2. Tw(Xor(x, y)) = Xor(Tw(x), Tw(y))
    BY TwXor
  <2>3. Tw(Xor(Tw(x), Tw(y))) = Xor(Tw(Tw(x)), Tw(Tw(y)))
    BY <2>1, TwXor
  <2>4. Tw(Xor(Tw(Tw(x)), Tw(Tw(y)))) = Xor(Tw(Tw(Tw(x))), Tw(Tw(Tw(y))))
    BY <2>1, TwXor
  <2> QED
    BY <2>2, <2>3, <2>4, TwXor
<1>2. /\ Stored(14, e0) = Xor(Xor(x3(e0), x2(e0)), x1(e0))
      /\ Stored(11, e1) = Xor(Xor(x3(e1), x1(e1)), e1)
      /\ Stored(13, e2) = Xor(Xor(x3(e2), x2(e2)), e2)
      /\ Stored(9, e3) = Xor(x3(e3), e3)
  BY StoredAre
<1> HIDE DEF x1, x2, x3
<1>3. x3(Xor4(e0, e1, e2, e3)) = Xor4(x3(e0), x3(e1), x3(e2), x3(e3))
  <2>1. Xor(e0, e1) \in Byte /\ Xor(Xor(e0, e1), e2) \in Byte
    BY <1>1
  <2>2. /\ x3(Xor(e0, e1)) = Xor(x3(e0), x3(e1))
        /\ x3(Xor(Xor(e0, e1), e2)) = Xor(x3(Xor(e0, e1)), x3(e2))
        /\ x3(Xor(Xor(Xor(e0, e1), e2), e3)) = Xor(x3(Xor(Xor(e0, e1), e2)), x3(e3))
    BY <1>1, <2>1
  <2> QED
    BY <2>2 DEF Xor4
<1>4. x2(Xor(e0, e2)) = Xor(x2(e0), x2(e2)) /\ x1(Xor(e0, e1)) = Xor(x1(e0), x1(e1))
  BY <1>1
<1>5. \A d0, d1, d2, d3, u0, u2, v0, v1, a1, a2, a3 :
         Xor4(Xor(Xor(d0, u0), v0), Xor(Xor(d1, v1), a1), Xor(Xor(d2, u2), a2), Xor(d3, a3))
           = Xor4(Xor4(d0, d1, d2, d3), Xor(u0, u2), Xor(v0, v1), Xor(Xor(a1, a2), a3))
  <2> TAKE d0, d1, d2, d3, u0, u2, v0, v1, a1, a2, a3
  <2> DEFINE left == Xor4(Xor(Xor(d0, u0), v0), Xor(Xor(d1, v1), a1), Xor(Xor(d2, u2), a2), Xor(d3, a3))
             right == Xor4(Xor4(d0, d1, d2, d3), Xor(u0, u2), Xor(v0, v1), Xor(Xor(a1, a2), a3))
  <2>0. \A x, y, e : e \in Xor(x, y) <=> ~(e \in x <=> e \in y)
    BY DEF Xor
  <2>1. \A e : e \in left <=> e \in right
    BY <2>0 DEF Xor4
  <2>2. \A x, y : (\A e : e \in x <=> e \in y) => x = y
    OBVIOUS
  <2> HIDE DEF left, right
  <2>3. left = right
    BY <2>1, <2>2
  <2> QED
    BY <2>3 DEF left, right
<1>6. Unmixed(e0, e1, e2, e3)
        = Xor4(x3(Xor4(e0, e1, e2, e3)), x2(Xor(e0, e2)), x1(Xor(e0, e1)), Xor(Xor(e1, e2), e3))
  BY <1>2, <1>3, <1>4, <1>5 DEF Unmixed
<1> QED
  BY <1>6 DEF x1, x2, x3

(* A column whose bytes are a, b, c, d is mixed into e0 to e3.             *)
LEMMA ColumnUnmixed ==
  ASSUME NEW a \in Byte, NEW b \in Byte, NEW c \in Byte, NEW d \in Byte,
         NEW e0, e0 = Xor4(Tw(a), Xor(Tw(b), b), c, d),
         NEW e1, e1 = Xor4(a, Tw(b), Xor(Tw(c), c), d),
         NEW e2, e2 = Xor4(a, b, Tw(c), Xor(Tw(d), d)),
         NEW e3, e3 = Xor4(Xor(Tw(a), a), b, c, Tw(d))
  PROVE  /\ e0 \in Byte /\ e1 \in Byte /\ e2 \in Byte /\ e3 \in Byte
         /\ Unmixed(e0, e1, e2, e3) = a
<1>1. Tw(a) \in Byte /\ Tw(b) \in Byte /\ Tw(c) \in Byte /\ Tw(d) \in Byte
  BY TwXor
<1>2. \A x, y, z, w \in Byte : Xor4(x, y, z, w) \in Byte
  BY DEF Xor4, Xor, Byte
<1>3. \A x, y \in Byte : Xor(x, y) \in Byte
  BY XorBits
<1>4. e0 \in Byte /\ e1 \in Byte /\ e2 \in Byte /\ e3 \in Byte
  BY <1>1, <1>2, <1>3
<1>5. PICK p, q, r, s : p = Tw(a) /\ q = Tw(b) /\ r = Tw(c) /\ s = Tw(d)
  OBVIOUS
<1>6. \A x, y, e : e \in Xor(x, y) <=> ~(e \in x <=> e \in y)
  BY DEF Xor
<1>7. \A x, y : (\A e : e \in x <=> e \in y) => x = y
  OBVIOUS
<1>8. \A e : /\ e \in e0 <=> e \in Xor4(p, Xor(q, b), c, d)
             /\ e \in e1 <=> e \in Xor4(a, q, Xor(r, c), d)
             /\ e \in e2 <=> e \in Xor4(a, b, r, Xor(s, d))
             /\ e \in e3 <=> e \in Xor4(Xor(p, a), b, c, s)
  BY <1>5
<1>9. Xor4(e0, e1, e2, e3) = Xor(Xor(a, c), Xor(b, d))
  <2>1. \A e : e \in Xor4(e0, e1, e2, e3) <=> e \in Xor(Xor(a, c), Xor(b, d))
    BY <1>6, <1>8 DEF Xor4
  <2> QED
    BY <1>7, <2>1
<1>10. Xor(e0, e2) = Xor(Xor(Xor(p, r), Xor(q, s)), Xor(a, c))
  <2>1. \A e : e \in Xor(e0, e2) <=> e \in Xor(Xor(Xor(p, r), Xor(q, s)), Xor(a, c))
    BY <1>6, <1>8 DEF Xor4
  <2> QED
    BY <1>7, <2>1
<1>11. Xor(e0, e1) = Xor(Xor(p, r), Xor(a, b))
  <2>1. \A e : e \in Xor(e0, e1) <=> e \in Xor(Xor(p, r), Xor(a, b))
    BY <1>6, <1>8 DEF Xor4
  <2> QED
    BY <1>7, <2>1
<1>12. Xor(Xor(e1, e2), e3) = Xor(Xor(p, q), a)
  <2>1. \A e : e \in Xor(Xor(e1, e2), e3) <=> e \in Xor(Xor(p, q), a)
    BY <1>6, <1>8 DEF Xor4
  <2> QED
    BY <1>7, <2>1
<1>13. Tw(Tw(Tw(Xor4(e0, e1, e2, e3)))) = Tw(Tw(Xor(Xor(p, r), Xor(q, s))))
  <2>1. Tw(Xor(Xor(a, c), Xor(b, d))) = Xor(Xor(p, r), Xor(q, s))
    BY <1>3, <1>5, TwXor
  <2> QED
    BY <1>9, <2>1
<1>14. Tw(Tw(Xor(e0, e2))) = Xor(Tw(Tw(Xor(Xor(p, r), Xor(q, s)))), Tw(Xor(p, r)))
  <2>1. PICK m : m = Xor(Xor(p, r), Xor(q, s))
    OBVIOUS
  <2>2. PICK n : n = Xor(a, c)
    OBVIOUS
  <2>3. m \in Byte /\ n \in Byte
    BY <1>1, <1>3, <1>5, <2>1, <2>2
  <2>4. Tw(Xor(m, n)) = Xor(Tw(m), Tw(n)) /\ Tw(m) \in Byte /\ Tw(n) \in Byte
    BY <2>3, TwXor
  <2>5. Tw(Xor(Tw(m), Tw(n))) = Xor(Tw(Tw(m)), Tw(Tw(n)))
    BY <2>4, TwXor
  <2>6. Tw(n) = Xor(p, r)
    BY <1>5, <2>2, TwXor
  <2> QED
    BY <1>10, <2>1, <2>2, <2>4, <2>5, <2>6
<1>15. Tw(Xor(e0, e1)) = Xor(Tw(Xor(p, r)), Xor(p, q))
  <2>1. PICK m : m = Xor(p, r)
    OBVIOUS
  <2>2. PICK n : n = Xor(a, b)
    OBVIOUS
  <2>3. m \in Byte /\ n \in Byte
    BY <1>1, <1>3, <1>5, <2>1, <2>2
  <2>4. Tw(Xor(m, n)) = Xor(Tw(m), Tw(n))
    BY <2>3, TwXor
  <2>5. Tw(n) = Xor(p, q)
    BY <1>5, <2>2, TwXor
  <2> QED
    BY <1>11, <2>1, <2>2, <2>4, <2>5
<1>16. \A x, y, z : Xor4(x, Xor(x, y), Xor(y, z), Xor(z, a)) = a
  <2> TAKE x, y, z
  <2>1. \A e : e \in Xor4(x, Xor(x, y), Xor(y, z), Xor(z, a)) <=> e \in a
    BY <1>6 DEF Xor4
  <2> QED
    BY <1>7, <2>1
<1>17. Unmixed(e0, e1, e2, e3)
         = Xor4(Tw(Tw(Tw(Xor4(e0, e1, e2, e3)))), Tw(Tw(Xor(e0, e2))), Tw(Xor(e0, e1)),
                Xor(Xor(e1, e2), e3))
  BY <1>4, UnmixedIs
<1> QED
  BY <1>4, <1>12, <1>13, <1>14, <1>15, <1>16, <1>17

LEMMA RowUnmixed ==
  ASSUME NEW s, s[0] \in Byte, s[1] \in Byte, s[2] \in Byte, s[3] \in Byte,
         NEW e, \A r \in 0..3 : e[r] = Column(MixRow, s, r)
  PROVE  \A r \in 0..3 : e[r] \in Byte /\ Column(InvMixRow, e, r) = s[r]
<1>1. PICK a, b, c, d : a = s[0] /\ b = s[1] /\ c = s[2] /\ d = s[3]
  OBVIOUS
<1>2. a \in Byte /\ b \in Byte /\ c \in Byte /\ d \in Byte
  BY <1>1
<1>3. PICK e0, e1, e2, e3 : e0 = e[0] /\ e1 = e[1] /\ e2 = e[2] /\ e3 = e[3]
  OBVIOUS
<1>4. /\ e0 = Xor4(Tw(a), Xor(Tw(b), b), c, d)
      /\ e1 = Xor4(a, Tw(b), Xor(Tw(c), c), d)
      /\ e2 = Xor4(a, b, Tw(c), Xor(Tw(d), d))
      /\ e3 = Xor4(Xor(Tw(a), a), b, c, Tw(d))
  BY <1>1, <1>2, <1>3, MixedColumn
<1>5. e0 \in Byte /\ e1 \in Byte /\ e2 \in Byte /\ e3 \in Byte /\ Unmixed(e0, e1, e2, e3) = a
  BY <1>2, <1>4, ColumnUnmixed
<1>6. Unmixed(e1, e2, e3, e0) = b
  <2>1. /\ e1 = Xor4(Tw(b), Xor(Tw(c), c), d, a)
        /\ e2 = Xor4(b, Tw(c), Xor(Tw(d), d), a)
        /\ e3 = Xor4(b, c, Tw(d), Xor(Tw(a), a))
        /\ e0 = Xor4(Xor(Tw(b), b), c, d, Tw(a))
    BY <1>4, Xor4Turned
  <2> QED
    BY <1>2, <2>1, ColumnUnmixed
<1>7. Unmixed(e2, e3, e0, e1) = c
  <2>1. /\ e2 = Xor4(Tw(c), Xor(Tw(d), d), a, b)
        /\ e3 = Xor4(c, Tw(d), Xor(Tw(a), a), b)
        /\ e0 = Xor4(c, d, Tw(a), Xor(Tw(b), b))
        /\ e1 = Xor4(Xor(Tw(c), c), d, a, Tw(b))
    BY <1>4, Xor4Turned
  <2> QED
    BY <1>2, <2>1, ColumnUnmixed
<1>8. Unmixed(e3, e0, e1, e2) = d
  <2>1. /\ e3 = Xor4(Tw(d), Xor(Tw(a), a), b, c)
        /\ e0 = Xor4(d, Tw(a), Xor(Tw(b), b), c)
        /\ e1 = Xor4(d, a, Tw(b), Xor(Tw(c), c))
        /\ e2 = Xor4(Xor(Tw(d), d), a, b, Tw(c))
    BY <1>4, Xor4Turned
  <2> QED
    BY <1>2, <2>1, ColumnUnmixed
<1>9. /\ Column(InvMixRow, e, 0) = Xor4(Stored(14, e0), Stored(11, e1), Stored(13, e2), Stored(9, e3))
      /\ Column(InvMixRow, e, 1) = Xor4(Stored(9, e0), Stored(14, e1), Stored(11, e2), Stored(13, e3))
      /\ Column(InvMixRow, e, 2) = Xor4(Stored(13, e0), Stored(9, e1), Stored(14, e2), Stored(11, e3))
      /\ Column(InvMixRow, e, 3) = Xor4(Stored(11, e0), Stored(13, e1), Stored(9, e2), Stored(14, e3))
  BY <1>3, <1>5, InvMixedColumn
<1>10. Column(InvMixRow, e, 0) = a
  BY <1>5, <1>9 DEF Unmixed
<1>11. Column(InvMixRow, e, 1) = b
  BY <1>6, <1>9, Xor4Turned DEF Unmixed
<1>12. Column(InvMixRow, e, 2) = c
  BY <1>7, <1>9, Xor4Turned DEF Unmixed
<1>13. Column(InvMixRow, e, 3) = d
  BY <1>8, <1>9, Xor4Turned DEF Unmixed
<1>14. \A r \in 0..3 : r = 0 \/ r = 1 \/ r = 2 \/ r = 3
  OBVIOUS
<1> QED
  BY <1>1, <1>3, <1>5, <1>10, <1>11, <1>12, <1>13, <1>14

LEMMA MixedBack ==
  ASSUME NEW b \in Bytes
  PROVE  /\ aes_mix_columns_enc(b) \in Bytes
         /\ aes_mix_columns_dec(aes_mix_columns_enc(b)) = b
<1>1. PICK m : m = aes_mix_columns_enc(b)
  OBVIOUS
<1>2. m = [i \in Index |-> Column(MixRow, [k \in 0..3 |-> b[4 * (i \div 4) + k]], i % 4)]
  BY <1>1 DEF aes_mix_columns_enc, ColumnsBy, MixRow
<1>3. aes_mix_columns_dec(m)
        = [i \in Index |-> Column(InvMixRow, [k \in 0..3 |-> m[4 * (i \div 4) + k]], i % 4)]
  BY DEF aes_mix_columns_dec, ColumnsBy, InvMixRow
<1>4. ASSUME NEW i \in Index
      PROVE  /\ m[i] \in Byte
             /\ Column(InvMixRow, [k \in 0..3 |-> m[4 * (i \div 4) + k]], i % 4) = b[i]
  <2>1. PICK n, r : n = i \div 4 /\ r = i % 4
    OBVIOUS
  <2>2. n \in 0..3 /\ r \in 0..3 /\ i = 4 * n + r
    BY <2>1 DEF Index
  <2>3. PICK z \in Int : z = 4 * n
    BY <2>2
  <2>4. \A k \in 0..3 : z + k \in Index /\ (z + k) \div 4 = n /\ (z + k) % 4 = k
    BY <2>2, <2>3 DEF Index
  <2>5. PICK s : s = [k \in 0..3 |-> b[z + k]]
    OBVIOUS
  <2>6. \A k \in 0..3 : s[k] = b[z + k] /\ s[k] \in Byte
    BY <2>4, <2>5 DEF Bytes
  <2>7. s[0] \in Byte /\ s[1] \in Byte /\ s[2] \in Byte /\ s[3] \in Byte
    BY <2>6
  <2>8. PICK e : e = [k \in 0..3 |-> m[z + k]]
    OBVIOUS
  <2>9. \A k \in 0..3 : e[k] = Column(MixRow, s, k)
    <3> TAKE k \in 0..3
    <3>1. PICK j \in Index : j = z + k /\ j \div 4 = n /\ j % 4 = k
      BY <2>4
    <3>2. m[j] = Column(MixRow, [q \in 0..3 |-> b[4 * n + q]], k)
      BY <1>2, <3>1
    <3> QED
      BY <2>3, <2>5, <2>8, <3>1, <3>2
  <2>10. \A k \in 0..3 : e[k] \in Byte /\ Column(InvMixRow, e, k) = s[k]
    BY <2>7, <2>9, RowUnmixed
  <2>11. i = z + r
    BY <2>2, <2>3
  <2>12. m[i] = e[r] /\ s[r] = b[i]
    BY <2>2, <2>5, <2>8, <2>11
  <2>13. [k \in 0..3 |-> m[4 * (i \div 4) + k]] = e
    BY <2>1, <2>3, <2>8
  <2> QED
    BY <2>1, <2>2, <2>10, <2>12, <2>13
<1>5. m \in Bytes
  BY <1>2, <1>4 DEF Bytes
<1>6. aes_mix_columns_dec(m) = [i \in Index |-> b[i]]
  BY <1>3, <1>4
<1> QED
  BY <1>1, <1>5, <1>6 DEF Bytes

------------------------------------------------------------------------------
(* The words of the expanded key are complete while blocks are ciphered.   *)
OpInv ==
  /\ op \in {"idle", "called", "encrypt", "encrypted", "decrypt", "decrypted"}
  /\ op # "idle" => phase = "ready" /\ pt \in Bytes
  /\ op \in {"idle", "called"} => state = <<>> /\ trail = <<>>
  /\ op \notin {"idle", "called"} => state # <<>> /\ TwoWords(state) /\ trail # <<>>
  /\ op = "encrypt" => round \in 1..rounds /\ DOMAIN trail = 0..(round - 1)
  /\ op = "decrypt" => round \in 0..(rounds - 1)

AesInv == KeyInv /\ OpInv

LEMMA ReadyKey ==
  ASSUME KeyInv, phase = "ready"
  PROVE  rounds \in {10, 12, 14} /\ \A n \in 0..rounds : n \in Nat /\ HasRound(rk, n)
<1>1. rounds \in {10, 12, 14} /\ Words = 4 * (rounds + 1)
  <2>1. bits \in {128, 192, 256}
    BY DEF KeyInv, Sized
  <2> QED
    BY <2>1, SizesAre
<1>2. ref \in [0..(Words - 1) -> Word32]
  BY DEF KeyInv, RefInv
<1>3. \A k \in 0..(Words - 1) : rk[k] \in Word32
  <2>1. Agrees(rk, Words)
    BY DEF KeyInv, RkInv
  <2> QED
    BY <1>2, <2>1, SwappedBytesAre DEF Agrees
<1>4. ASSUME NEW n \in 0..rounds
      PROVE  n \in Nat /\ HasRound(rk, n)
  <2>1. PICK m \in Nat : m = Words
    BY <1>1
  <2>2. PICK q \in Nat : q = rounds
    BY <1>1
  <2>3. n \in 0..q /\ m = 4 * (q + 1)
    BY <1>1, <2>1, <2>2
  <2>4. \A k \in 0..3 : 4 * n + k \in 0..(m - 1)
    BY <2>1, <2>2, <2>3
  <2> QED
    BY <1>3, <2>1, <2>2, <2>3, <2>4 DEF HasRound
<1> QED
  BY <1>1, <1>4

(* A round on the words                                                    *)
LEMMA RoundIs ==
  ASSUME NEW s, TwoWords(s), NEW key, NEW n \in Nat, HasRound(key, n)
  PROVE  LET k == RoundKeyOf(key, n)
             w == RoundWords(key, n)
             last == AddRoundKey(ShiftRows(SubLongs(s)), w)
             invLast == AddRoundKey(InvSubLongs(InvShiftRows(s)), w)
         IN  /\ \A t \in CipherRound(s, w) :
                  /\ TwoWords(t) /\ t # <<>>
                  /\ BytesOf(t) = AddBytes(aes_mix_columns_enc(aes_subbytes_shiftrows(BytesOf(s))), k)
             /\ TwoWords(last) /\ last # <<>>
             /\ BytesOf(last) = AddBytes(aes_subbytes_shiftrows(BytesOf(s)), k)
             /\ \A t \in InvCipherRound(s, w) :
                  /\ TwoWords(t) /\ t # <<>>
                  /\ BytesOf(t) = aes_mix_columns_dec(AddBytes(aes_subbytes_shiftrows_dec(BytesOf(s)), k))
             /\ TwoWords(invLast) /\ invLast # <<>>
             /\ BytesOf(invLast) = AddBytes(aes_subbytes_shiftrows_dec(BytesOf(s)), k)
<1> DEFINE w == RoundWords(key, n)
           k == RoundKeyOf(key, n)
<1>1. PICK u : u = ShiftRows(SubLongs(s))
  OBVIOUS
<1>2. PICK v : v = InvSubLongs(InvShiftRows(s))
  OBVIOUS
<1>3. /\ TwoWords(u) /\ BytesOf(u) = aes_subbytes_shiftrows(BytesOf(s))
      /\ TwoWords(v) /\ BytesOf(v) = aes_subbytes_shiftrows_dec(BytesOf(s))
  BY <1>1, <1>2, SubbedAndShifted
<1>4. CipherRound(s, w) = {AddRoundKey(MixColumns(u), w)}
  BY <1>1 DEF CipherRound
<1>5. InvCipherRound(s, w) = {InvMixColumns(AddRoundKey(v, w))}
  BY <1>2 DEF InvCipherRound
<1>6. \A a, b : AddRoundKey(a, b) # <<>> /\ InvMixColumns(a) # <<>>
  BY DEF AddRoundKey, InvMixColumns
<1>7. TwoWords(MixColumns(u)) /\ BytesOf(MixColumns(u)) = aes_mix_columns_enc(BytesOf(u))
  BY <1>3, ColumnsMixed
<1>8. /\ TwoWords(AddRoundKey(MixColumns(u), w))
      /\ BytesOf(AddRoundKey(MixColumns(u), w)) = AddBytes(BytesOf(MixColumns(u)), k)
  BY <1>7, KeyAdded
<1>9. TwoWords(AddRoundKey(u, w)) /\ BytesOf(AddRoundKey(u, w)) = AddBytes(BytesOf(u), k)
  BY <1>3, KeyAdded
<1>10. TwoWords(AddRoundKey(v, w)) /\ BytesOf(AddRoundKey(v, w)) = AddBytes(BytesOf(v), k)
  BY <1>3, KeyAdded
<1>11. /\ TwoWords(InvMixColumns(AddRoundKey(v, w)))
       /\ BytesOf(InvMixColumns(AddRoundKey(v, w))) = aes_mix_columns_dec(BytesOf(AddRoundKey(v, w)))
  BY <1>10, ColumnsMixed
<1> HIDE DEF w, k
<1> QED
  BY <1>1, <1>2, <1>3, <1>4, <1>5, <1>6, <1>7, <1>8, <1>9, <1>10, <1>11 DEF w, k

LEMMA AesInvInit == Init => AesInv
BY KeyInvInit DEF Init, AesInv, OpInv

LEMMA AesInvStep == ASSUME DecryptWith = "rk", AesInv, Next PROVE AesInv'
<1>1. KeyInv'
  <2>1. [KeyNext]_keyVars
    BY DEF Next, Schedule, Call, Encrypt, EncryptRound, EncryptLast, Decrypt, DecryptRound,
           DecryptLast, Finished, vars
  <2> QED
    BY <2>1, KeyInvStep DEF AesInv
<1>2. CASE Schedule
  <2>1. phase # "ready" /\ UNCHANGED cipherVars
    BY <1>2 DEF Schedule, KeyNext, ReferenceWord, SetEncryptKey, Expand, SetDecryptKey, Invert,
                InvertDone, Transform
  <2>2. op = "idle"
    BY <2>1 DEF AesInv, OpInv
  <2> QED
    BY <1>1, <2>1, <2>2 DEF AesInv, OpInv, cipherVars
<1>3. ASSUME UNCHANGED keyVars
      PROVE  rounds' = rounds /\ phase' = phase
  BY <1>3 DEF keyVars, rounds
<1>4. CASE Call
  <2>1. pt' \in Bytes
    BY <1>4, BlocksAssumption DEF Call, Bytes
  <2> QED
    BY <1>1, <1>3, <1>4, <2>1 DEF AesInv, OpInv, Call
<1>5. CASE Finished
  BY <1>1, <1>3, <1>5 DEF AesInv, OpInv, Finished, vars, cipherVars
<1>6. ASSUME op # "idle"
      PROVE  rounds \in {10, 12, 14} /\ \A n \in 0..rounds : n \in Nat /\ HasRound(rk, n)
  BY <1>6, ReadyKey DEF AesInv, OpInv
<1>7. CASE Encrypt
  <2>1. op = "called" /\ pt \in Bytes /\ phase = "ready" /\ UNCHANGED keyVars /\ pt' = pt
        /\ round' = 1 /\ op' = "encrypt"
        /\ state' = AddRoundKey(WordsOf(pt), RoundWords(rk, 0)) /\ trail' = [r \in {0} |-> state']
    BY <1>7 DEF AesInv, OpInv, Encrypt
  <2>2. HasRound(rk, 0) /\ rounds \in {10, 12, 14}
    BY <1>6, <2>1
  <2>3. TwoWords(state')
    BY <2>1, <2>2, BytesOfWords, KeyAdded
  <2>4. state' # <<>>
    BY <2>1 DEF AddRoundKey
  <2>5. DOMAIN trail' = 0..(round' - 1) /\ trail' # <<>>
    <3>1. DOMAIN trail' = {0} /\ DOMAIN <<>> # {0} /\ 0..(round' - 1) = {0}
      BY <2>1
    <3> QED
      BY <3>1
  <2> QED
    BY <1>1, <1>3, <2>1, <2>2, <2>3, <2>4, <2>5 DEF AesInv, OpInv
<1>8. CASE EncryptRound
  <2>1. op = "encrypt" /\ pt \in Bytes /\ phase = "ready" /\ UNCHANGED <<keyVars, pt, op>>
        /\ round' = round + 1 /\ round \in 1..rounds /\ round < rounds /\ TwoWords(state)
        /\ state' \in CipherRound(state, RoundWords(rk, round))
        /\ DOMAIN trail' = 0..round
    BY <1>8 DEF AesInv, OpInv, EncryptRound
  <2>2. rounds \in {10, 12, 14} /\ round \in Nat /\ HasRound(rk, round)
    <3>1. rounds \in {10, 12, 14}
      BY <1>6, <2>1
    <3>2. round \in 0..rounds
      BY <2>1, <3>1
    <3> QED
      BY <1>6, <2>1, <3>1, <3>2
  <2>3. TwoWords(state') /\ state' # <<>>
    BY <2>1, <2>2, RoundIs
  <2>4. DOMAIN trail' = 0..(round' - 1) /\ round' \in 1..rounds /\ trail' # <<>>
    <3>1. 0 \in DOMAIN trail' /\ 0 \notin DOMAIN <<>>
      BY <2>1, <2>2
    <3> QED
      BY <2>1, <2>2, <3>1
  <2> QED
    BY <1>1, <1>3, <2>1, <2>3, <2>4 DEF AesInv, OpInv
<1>9. CASE EncryptLast
  <2>1. op = "encrypt" /\ pt \in Bytes /\ phase = "ready" /\ UNCHANGED <<keyVars, pt, trail>>
        /\ op' = "encrypted" /\ round = rounds /\ TwoWords(state) /\ trail # <<>>
        /\ state' = AddRoundKey(ShiftRows(SubLongs(state)), RoundWords(rk, round))
    BY <1>9 DEF AesInv, OpInv, EncryptLast
  <2>2. round \in Nat /\ HasRound(rk, round)
    BY <1>6, <2>1
  <2>3. TwoWords(state') /\ state' # <<>>
    BY <2>1, <2>2, RoundIs
  <2> QED
    BY <1>1, <1>3, <2>1, <2>3 DEF AesInv, OpInv
<1>10. CASE Decrypt
  <2>1. op = "encrypted" /\ pt \in Bytes /\ phase = "ready" /\ UNCHANGED <<keyVars, pt, trail>>
        /\ op' = "decrypt" /\ round' = rounds - 1 /\ TwoWords(state) /\ trail # <<>>
        /\ state' = AddRoundKey(state, RoundWords(rk, rounds))
    BY <1>10 DEF AesInv, OpInv, Decrypt, DecryptKey
  <2>2. rounds \in {10, 12, 14} /\ HasRound(rk, rounds)
    BY <1>6, <2>1
  <2>3. TwoWords(state') /\ state' # <<>> /\ round' \in 0..(rounds - 1)
    BY <2>1, <2>2, KeyAdded DEF AddRoundKey
  <2> QED
    BY <1>1, <1>3, <2>1, <2>3 DEF AesInv, OpInv
<1>11. CASE DecryptRound
  <2>1. op = "decrypt" /\ pt \in Bytes /\ phase = "ready" /\ UNCHANGED <<keyVars, pt, op, trail>>
        /\ round' = round - 1 /\ round >= 1 /\ round \in 0..(rounds - 1) /\ TwoWords(state) /\ trail # <<>>
        /\ state' \in InvCipherRound(state, RoundWords(rk, round))
    BY <1>11 DEF AesInv, OpInv, DecryptRound, DecryptKey
  <2>2. rounds \in {10, 12, 14} /\ round \in Nat /\ HasRound(rk, round)
    <3>1. rounds \in {10, 12, 14}
      BY <1>6, <2>1
    <3>2. round \in 0..rounds
      BY <2>1, <3>1
    <3> QED
      BY <1>6, <2>1, <3>1, <3>2
  <2>3. TwoWords(state') /\ state' # <<>>
    BY <2>1, <2>2, RoundIs
  <2>4. round' \in 0..(rounds - 1)
    BY <2>1, <2>2
  <2> QED
    BY <1>1, <1>3, <2>1, <2>3, <2>4 DEF AesInv, OpInv
<1>12. CASE DecryptLast
  <2>1. op = "decrypt" /\ pt \in Bytes /\ phase = "ready" /\ UNCHANGED <<keyVars, pt, trail>>
        /\ op' = "decrypted" /\ TwoWords(state) /\ trail # <<>>
        /\ state' = AddRoundKey(InvSubLongs(InvShiftRows(state)), RoundWords(rk, 0))
    BY <1>12 DEF AesInv, OpInv, DecryptLast, DecryptKey
  <2>2. HasRound(rk, 0)
    BY <1>6, <2>1
  <2>3. TwoWords(state') /\ state' # <<>>
    BY <2>1, <2>2, RoundIs
  <2> QED
    BY <1>1, <1>3, <2>1, <2>3 DEF AesInv, OpInv
<1> QED
  BY <1>2, <1>4, <1>5, <1>7, <1>8, <1>9, <1>10, <1>11, <1>12 DEF Next

(* The variables of AesEcb                                                 *)
Rk == IF op = "idle" THEN <<>> ELSE [r \in 0..rounds |-> RoundKeyOf(rk, r)]
Nr == IF op = "idle" THEN 0 ELSE rounds
St == IF state = <<>> THEN <<>> ELSE BytesOf(state)
Tr == IF trail = <<>> THEN <<>> ELSE [r \in DOMAIN trail |-> BytesOf(trail[r])]

LEMMA EcbInit ==
  Ecb!Init <=> /\ Rk = <<>> /\ Nr = 0 /\ pt = <<>> /\ St = <<>>
               /\ round = 0 /\ op = "idle" /\ Tr = <<>>
BY DEF Ecb!Init, Rk, Nr, St, Tr

LEMMA EcbVars == UNCHANGED <<Rk, Nr, pt, St, round, op, Tr>> => UNCHANGED Ecb!vars
BY DEF Ecb!vars, Rk, Nr, St, Tr

LEMMA EcbCall ==
  Ecb!Call <=> /\ op \in {"idle", "decrypted"}
               /\ Nr' \in {10, 12, 14} /\ Rk' \in [0..Nr' -> Bytes]
               /\ pt' \in Bytes /\ op' = "called"
               /\ UNCHANGED <<St, round, Tr>>
BY DEF Ecb!Call, Rk, Nr, St, Tr

LEMMA EcbEncrypt ==
  Ecb!Encrypt <=> /\ op = "called"
                  /\ St' = AddBytes(pt, Rk[0])
                  /\ round' = 1 /\ op' = "encrypt"
                  /\ Tr' = [r \in {0} |-> St']
                  /\ UNCHANGED <<Rk, Nr, pt>>
BY DEF Ecb!Encrypt, Rk, Nr, St, Tr

LEMMA EcbEncryptRound ==
  Ecb!EncryptRound <=>
    /\ op = "encrypt" /\ round < Nr
    /\ St' = AddBytes(aes_mix_columns_enc(aes_subbytes_shiftrows(St)), Rk[round])
    /\ Tr' = [r \in 0..round |-> IF r = round THEN St' ELSE Tr[r]]
    /\ round' = round + 1
    /\ UNCHANGED <<Rk, Nr, pt, op>>
BY DEF Ecb!EncryptRound, Rk, Nr, St, Tr

LEMMA EcbEncryptLast ==
  Ecb!EncryptLast <=>
    /\ op = "encrypt" /\ round = Nr
    /\ St' = AddBytes(aes_subbytes_shiftrows(St), Rk[round])
    /\ op' = "encrypted"
    /\ UNCHANGED <<Rk, Nr, pt, round, Tr>>
BY DEF Ecb!EncryptLast, Rk, Nr, St, Tr

LEMMA EcbDecrypt ==
  Ecb!Decrypt <=> /\ op = "encrypted"
                  /\ St' = AddBytes(St, Rk[Nr])
                  /\ round' = Nr - 1 /\ op' = "decrypt"
                  /\ UNCHANGED <<Rk, Nr, pt, Tr>>
BY DEF Ecb!Decrypt, Rk, Nr, St, Tr

LEMMA EcbDecryptRound ==
  Ecb!DecryptRound <=>
    /\ op = "decrypt" /\ round >= 1
    /\ St' = aes_mix_columns_dec(AddBytes(aes_subbytes_shiftrows_dec(St), Rk[round]))
    /\ round' = round - 1
    /\ UNCHANGED <<Rk, Nr, pt, op, Tr>>
BY DEF Ecb!DecryptRound, Ecb!InvRound, Rk, Nr, St, Tr

LEMMA EcbDecryptLast ==
  Ecb!DecryptLast <=>
    /\ op = "decrypt" /\ round = 0
    /\ St' = AddBytes(aes_subbytes_shiftrows_dec(St), Rk[0])
    /\ op' = "decrypted"
    /\ UNCHANGED <<Rk, Nr, pt, round, Tr>>
BY DEF Ecb!DecryptLast, Rk, Nr, St, Tr

(* The key of AesEcb                                                       *)
LEMMA EcbKey ==
  ASSUME AesInv, op # "idle"
  PROVE  /\ Nr = rounds /\ Nr \in {10, 12, 14} /\ Rk \in [0..Nr -> Bytes]
         /\ \A n \in 0..rounds : n \in Nat /\ HasRound(rk, n) /\ Rk[n] = RoundKeyOf(rk, n)
<1>1. rounds \in {10, 12, 14} /\ \A n \in 0..rounds : n \in Nat /\ HasRound(rk, n)
  BY ReadyKey DEF AesInv, OpInv
<1>2. \A n \in 0..rounds : RoundKeyOf(rk, n) \in Bytes
  BY <1>1, KeyBytes
<1> QED
  BY <1>1, <1>2 DEF Rk, Nr

LEMMA SameKey == ASSUME UNCHANGED keyVars, op # "idle", op' # "idle" PROVE UNCHANGED <<Rk, Nr>>
<1>1. rk' = rk /\ rounds' = rounds
  BY DEF keyVars, rounds
<1> QED
  BY <1>1 DEF Rk, Nr

(* Every step of OpenSSL's functions is one of the byte-wise ones.         *)
LEMMA EcbStep ==
  ASSUME DecryptWith = "rk", AesInv, AesInv', Next
  PROVE  Ecb!Next \/ UNCHANGED Ecb!vars
<1>1. CASE Schedule
  <2>1. phase # "ready" /\ UNCHANGED cipherVars
    BY <1>1 DEF Schedule, KeyNext, ReferenceWord, SetEncryptKey, Expand, SetDecryptKey, Invert,
                InvertDone, Transform
  <2>2. op = "idle"
    BY <2>1 DEF AesInv, OpInv
  <2>3. UNCHANGED <<Rk, Nr, pt, St, round, op, Tr>>
    BY <2>1, <2>2 DEF cipherVars, Rk, Nr, St, Tr
  <2> QED
    BY <2>3, EcbVars
<1>2. CASE Finished
  <2>1. UNCHANGED <<keyVars, cipherVars>> /\ op = "decrypted"
    BY <1>2 DEF Finished, vars
  <2>2. op' = op /\ UNCHANGED <<pt, St, round, op, Tr>>
    BY <2>1 DEF cipherVars, St, Tr
  <2>3. UNCHANGED <<Rk, Nr>>
    BY <2>1, <2>2, SameKey
  <2> QED
    BY <2>2, <2>3, EcbVars
<1>3. CASE Call
  <2>1. op = "idle" /\ op' = "called" /\ UNCHANGED <<state, round, trail>>
    BY <1>3 DEF Call
  <2>2. pt' \in Bytes
    BY <2>1 DEF AesInv, OpInv
  <2>3. Nr' \in {10, 12, 14} /\ Rk' \in [0..Nr' -> Bytes]
    <3>1. /\ rounds' \in {10, 12, 14} /\ \A n \in 0..rounds' : n \in Nat /\ HasRound(rk', n)
      <4>1. rounds \in {10, 12, 14} /\ \A n \in 0..rounds : n \in Nat /\ HasRound(rk, n)
        BY <1>3, ReadyKey DEF AesInv, Call
      <4>2. UNCHANGED <<rk, bits>>
        BY <1>3 DEF Call, keyVars
      <4>3. rk' = rk /\ rounds' = rounds
        BY <4>2 DEF rounds
      <4> QED
        BY <4>1, <4>3
    <3>2. \A n \in 0..rounds' : RoundKeyOf(rk', n) \in Bytes
      BY <3>1, KeyBytes
    <3>3. Nr' = rounds' /\ Rk' = [r \in 0..rounds' |-> RoundKeyOf(rk', r)]
      BY <2>1 DEF Nr, Rk
    <3> QED
      BY <3>1, <3>2, <3>3
  <2>4. Ecb!Call
    BY <2>1, <2>2, <2>3, EcbCall DEF St, Tr
  <2> QED
    BY <2>4 DEF Ecb!Next
<1>4. CASE Encrypt
  <2>1. /\ op = "called" /\ round' = 1 /\ op' = "encrypt" /\ pt' = pt /\ UNCHANGED keyVars
        /\ state' = AddRoundKey(WordsOf(pt), RoundWords(rk, 0)) /\ trail' = [r \in {0} |-> state']
    BY <1>4 DEF Encrypt
  <2>2. UNCHANGED <<Rk, Nr>>
    BY <2>1, SameKey
  <2>3. pt \in Bytes /\ HasRound(rk, 0) /\ Rk[0] = RoundKeyOf(rk, 0)
    BY <2>1, EcbKey DEF AesInv, OpInv
  <2>4. BytesOf(state') = AddBytes(pt, Rk[0])
    BY <2>1, <2>3, BytesOfWords, KeyAdded
  <2>5. state' # <<>> /\ trail' # <<>>
    BY <2>1 DEF AesInv, OpInv
  <2>6. St' = BytesOf(state') /\ Tr' = [r \in DOMAIN trail' |-> BytesOf(trail'[r])]
    BY <2>5 DEF St, Tr
  <2>7. Tr' = [r \in {0} |-> St']
    BY <2>1, <2>6
  <2>8. Ecb!Encrypt
    BY <2>1, <2>2, <2>4, <2>6, <2>7, EcbEncrypt
  <2> QED
    BY <2>8 DEF Ecb!Next
<1>5. CASE EncryptRound
  <2>1. /\ op = "encrypt" /\ op' = "encrypt" /\ round < rounds /\ round' = round + 1
        /\ pt' = pt /\ UNCHANGED keyVars
        /\ state' \in CipherRound(state, RoundWords(rk, round))
        /\ trail' = [r \in 0..round |-> IF r = round THEN state' ELSE trail[r]]
    BY <1>5 DEF EncryptRound
  <2>2. UNCHANGED <<Rk, Nr>> /\ Nr = rounds /\ rounds \in {10, 12, 14}
    BY <2>1, SameKey, EcbKey
  <2>3. /\ TwoWords(state) /\ state # <<>> /\ trail # <<>> /\ state' # <<>> /\ trail' # <<>>
        /\ round \in 1..rounds /\ DOMAIN trail = 0..(round - 1)
    BY <2>1 DEF AesInv, OpInv
  <2>4. round \in Nat /\ HasRound(rk, round) /\ Rk[round] = RoundKeyOf(rk, round)
    <3>1. round \in 0..rounds
      BY <2>2, <2>3
    <3> QED
      BY <2>1, <3>1, EcbKey
  <2>5. BytesOf(state') = AddBytes(aes_mix_columns_enc(aes_subbytes_shiftrows(BytesOf(state))), Rk[round])
    BY <2>1, <2>3, <2>4, RoundIs
  <2>6. /\ St = BytesOf(state) /\ St' = BytesOf(state')
        /\ Tr = [r \in DOMAIN trail |-> BytesOf(trail[r])]
        /\ Tr' = [r \in DOMAIN trail' |-> BytesOf(trail'[r])]
    BY <2>3 DEF St, Tr
  <2>7. Tr' = [r \in 0..round |-> IF r = round THEN St' ELSE Tr[r]]
    <3>1. \A r \in 0..round : r # round => r \in DOMAIN trail
      BY <2>2, <2>3
    <3>2. DOMAIN trail' = 0..round /\ \A r \in 0..round : trail'[r] = IF r = round THEN state' ELSE trail[r]
      BY <2>1
    <3>3. \A r \in 0..round : BytesOf(trail'[r]) = IF r = round THEN St' ELSE Tr[r]
      BY <2>6, <3>1, <3>2
    <3> QED
      BY <2>6, <3>2, <3>3
  <2>8. Ecb!EncryptRound
    BY <2>1, <2>2, <2>5, <2>6, <2>7, EcbEncryptRound
  <2> QED
    BY <2>8 DEF Ecb!Next
<1>6. CASE EncryptLast
  <2>1. /\ op = "encrypt" /\ op' = "encrypted" /\ round = rounds /\ UNCHANGED <<pt, round, trail, keyVars>>
        /\ state' = AddRoundKey(ShiftRows(SubLongs(state)), RoundWords(rk, round))
    BY <1>6 DEF EncryptLast
  <2>2. UNCHANGED <<Rk, Nr>> /\ Nr = rounds /\ rounds \in {10, 12, 14}
    BY <2>1, SameKey, EcbKey
  <2>3. TwoWords(state) /\ state # <<>> /\ state' # <<>>
    BY <2>1 DEF AesInv, OpInv
  <2>4. round \in Nat /\ HasRound(rk, round) /\ Rk[round] = RoundKeyOf(rk, round)
    BY <2>1, <2>2, EcbKey
  <2>5. BytesOf(state') = AddBytes(aes_subbytes_shiftrows(BytesOf(state)), Rk[round])
    BY <2>1, <2>3, <2>4, RoundIs
  <2>6. St = BytesOf(state) /\ St' = BytesOf(state') /\ Tr' = Tr
    BY <2>1, <2>3 DEF St, Tr
  <2>7. Ecb!EncryptLast
    BY <2>1, <2>2, <2>5, <2>6, EcbEncryptLast
  <2> QED
    BY <2>7 DEF Ecb!Next
<1>7. CASE Decrypt
  <2>1. /\ op = "encrypted" /\ op' = "decrypt" /\ round' = rounds - 1 /\ UNCHANGED <<pt, trail, keyVars>>
        /\ state' = AddRoundKey(state, RoundWords(rk, rounds))
    BY <1>7 DEF Decrypt, DecryptKey
  <2>2. UNCHANGED <<Rk, Nr>> /\ Nr = rounds /\ rounds \in {10, 12, 14}
    BY <2>1, SameKey, EcbKey
  <2>3. TwoWords(state) /\ state # <<>> /\ state' # <<>>
    BY <2>1 DEF AesInv, OpInv
  <2>4. rounds \in Nat /\ HasRound(rk, rounds) /\ Rk[rounds] = RoundKeyOf(rk, rounds)
    BY <2>1, <2>2, EcbKey
  <2>5. BytesOf(state') = AddBytes(BytesOf(state), Rk[rounds])
    BY <2>1, <2>3, <2>4, KeyAdded
  <2>6. St = BytesOf(state) /\ St' = BytesOf(state') /\ Tr' = Tr
    BY <2>1, <2>3 DEF St, Tr
  <2>7. Ecb!Decrypt
    BY <2>1, <2>2, <2>5, <2>6, EcbDecrypt
  <2> QED
    BY <2>7 DEF Ecb!Next
<1>8. CASE DecryptRound
  <2>1. /\ op = "decrypt" /\ op' = "decrypt" /\ round >= 1 /\ round' = round - 1
        /\ UNCHANGED <<pt, trail, keyVars>>
        /\ state' \in InvCipherRound(state, RoundWords(rk, round))
    BY <1>8 DEF DecryptRound, DecryptKey
  <2>2. UNCHANGED <<Rk, Nr>> /\ Nr = rounds /\ rounds \in {10, 12, 14}
    BY <2>1, SameKey, EcbKey
  <2>3. TwoWords(state) /\ state # <<>> /\ state' # <<>> /\ round \in 0..(rounds - 1)
    BY <2>1 DEF AesInv, OpInv
  <2>4. round \in Nat /\ HasRound(rk, round) /\ Rk[round] = RoundKeyOf(rk, round)
    <3>1. round \in 0..rounds
      BY <2>2, <2>3
    <3> QED
      BY <2>1, <3>1, EcbKey
  <2>5. BytesOf(state') = aes_mix_columns_dec(AddBytes(aes_subbytes_shiftrows_dec(BytesOf(state)), Rk[round]))
    BY <2>1, <2>3, <2>4, RoundIs
  <2>6. St = BytesOf(state) /\ St' = BytesOf(state') /\ Tr' = Tr
    BY <2>1, <2>3 DEF St, Tr
  <2>7. Ecb!DecryptRound
    BY <2>1, <2>2, <2>5, <2>6, EcbDecryptRound
  <2> QED
    BY <2>7 DEF Ecb!Next
<1>9. CASE DecryptLast
  <2>1. /\ op = "decrypt" /\ op' = "decrypted" /\ round = 0 /\ UNCHANGED <<pt, round, trail, keyVars>>
        /\ state' = AddRoundKey(InvSubLongs(InvShiftRows(state)), RoundWords(rk, 0))
    BY <1>9 DEF DecryptLast, DecryptKey
  <2>2. UNCHANGED <<Rk, Nr>> /\ Nr = rounds /\ rounds \in {10, 12, 14}
    BY <2>1, SameKey, EcbKey
  <2>3. TwoWords(state) /\ state # <<>> /\ state' # <<>>
    BY <2>1 DEF AesInv, OpInv
  <2>4. HasRound(rk, 0) /\ Rk[0] = RoundKeyOf(rk, 0)
    BY <2>1, <2>2, EcbKey
  <2>5. BytesOf(state') = AddBytes(aes_subbytes_shiftrows_dec(BytesOf(state)), Rk[0])
    BY <2>1, <2>3, <2>4, RoundIs
  <2>6. St = BytesOf(state) /\ St' = BytesOf(state') /\ Tr' = Tr
    BY <2>1, <2>3 DEF St, Tr
  <2>7. Ecb!DecryptLast
    BY <2>1, <2>2, <2>5, <2>6, EcbDecryptLast
  <2> QED
    BY <2>7 DEF Ecb!Next
<1> QED
  BY <1>1, <1>2, <1>3, <1>4, <1>5, <1>6, <1>7, <1>8, <1>9 DEF Next

(* SM4's steps leave AES alone.                                            *)
LEMMA StaysUnlessNext ==
  [MCNext]_<<vars, sm4vars>> => Next \/ UNCHANGED vars
BY DEF MCNext, OnAes, OnSm4, Sm4Finished, vars

LEMMA AesUnchanged == ASSUME UNCHANGED vars, AesInv PROVE AesInv' /\ UNCHANGED Ecb!vars
<1>1. UNCHANGED keyVars /\ UNCHANGED cipherVars /\ rounds' = rounds
  BY DEF vars, keyVars, rounds
<1>2. KeyInv'
  BY <1>1, KeyInvStep DEF AesInv
<1>3. UNCHANGED <<pt, state, round, op, trail>>
  BY <1>1 DEF cipherVars
<1>4. OpInv'
  BY <1>1, <1>3 DEF AesInv, OpInv, keyVars
<1>5. UNCHANGED <<Rk, Nr, pt, St, round, op, Tr>>
  <2>1. rk' = rk
    BY <1>1 DEF keyVars
  <2> QED
    BY <1>1, <1>3, <2>1 DEF Rk, Nr, St, Tr
<1> QED
  BY <1>2, <1>3, <1>4, <1>5, EcbVars DEF AesInv

LEMMA AesAlways == ASSUME DecryptWith = "rk" PROVE MCSpec => []AesInv
<1>1. MCInit => AesInv
  BY AesInvInit DEF MCInit
<1>2. AesInv /\ [MCNext]_<<vars, sm4vars>> => AesInv'
  BY StaysUnlessNext, AesUnchanged, AesInvStep
<1> QED
  BY <1>1, <1>2, PTL DEF MCSpec

(* OpenSSL's encryption, and its decryption with the key expanded for      *)
(* encryption, do round by round what aes_ecb_encrypt and aes_ecb_decrypt  *)
(* do to the bytes of the two words: for every key of every size and every *)
(* block.                                                                  *)
THEOREM OpensslIsEcb == ASSUME DecryptWith = "rk" PROVE MCSpec => EcbSpec
<1>1. MCInit => Ecb!Init
  BY EcbInit DEF MCInit, Init, Rk, Nr, St, Tr
<1>2. AesInv /\ AesInv' /\ [MCNext]_<<vars, sm4vars>> => [Ecb!Next]_(Ecb!vars)
  BY StaysUnlessNext, AesUnchanged, EcbStep
<1> QED
  BY <1>1, <1>2, AesAlways, PTL DEF MCSpec, EcbSpec, Ecb!Spec

------------------------------------------------------------------------------
(* The round trip.                                                         *)
EcbCalled == Nr \in {10, 12, 14} /\ Rk \in [0..Nr -> Bytes] /\ pt \in Bytes

(* t is the history of an encryption that has made n rounds                *)
EcbTrail(t, n) ==
  /\ \A r \in 0..n : t[r] \in Bytes
  /\ t[0] = AddBytes(pt, Rk[0])
  /\ \A r \in 1..n :
       t[r] = AddBytes(aes_mix_columns_enc(aes_subbytes_shiftrows(t[r - 1])), Rk[r])

(* What holds while each function runs: the encryption is at the end of    *)
(* its history, the decryption at the place of it that round says.         *)
RetraceInv ==
  /\ op \in {"idle", "called", "encrypt", "encrypted", "decrypt", "decrypted"}
  /\ op # "idle" => EcbCalled
  /\ op = "encrypt" =>
       round \in 1..Nr /\ EcbTrail(Tr, round - 1) /\ St = Tr[round - 1]
  /\ op = "encrypted" =>
       EcbTrail(Tr, Nr - 1) /\ St = AddBytes(aes_subbytes_shiftrows(Tr[Nr - 1]), Rk[Nr])
  /\ op = "decrypt" =>
       round \in 0..(Nr - 1) /\ EcbTrail(Tr, Nr - 1) /\ St = aes_subbytes_shiftrows(Tr[round])
  /\ op = "decrypted" => St = pt

LEMMA EcbUndo ==
  ASSUME NEW b \in Bytes, NEW k \in Bytes
  PROVE  /\ AddBytes(b, k) \in Bytes
         /\ AddBytes(AddBytes(b, k), k) = b
         /\ aes_subbytes_shiftrows(b) \in Bytes /\ aes_mix_columns_enc(b) \in Bytes
         /\ aes_subbytes_shiftrows_dec(aes_subbytes_shiftrows(b)) = b
         /\ aes_mix_columns_dec(aes_mix_columns_enc(b)) = b
BY AddedTwice, SubstitutedBack, MixedBack

LEMMA RetraceStep ==
  ASSUME RetraceInv, Ecb!Next \/ UNCHANGED <<Rk, Nr, pt, St, round, op, Tr>>
  PROVE  RetraceInv'
<1> USE DEF RetraceInv, EcbCalled
<1>1. CASE UNCHANGED <<Rk, Nr, pt, St, round, op, Tr>>
  BY <1>1 DEF EcbTrail
<1>2. CASE Ecb!Call
  BY <1>2, EcbCall
<1>3. CASE Ecb!Encrypt
  <2>1. Rk[0] \in Bytes BY <1>3, EcbEncrypt
  <2>2. AddBytes(pt, Rk[0]) \in Bytes BY <1>3, <2>1, EcbUndo, EcbEncrypt
  <2>3. Tr'[0] = St' /\ EcbTrail(Tr, 0)' BY <1>3, <2>2, EcbEncrypt DEF EcbTrail
  <2> QED BY <1>3, <2>3, EcbEncrypt
<1>4. CASE Ecb!EncryptRound
  <2> USE <1>4, EcbEncryptRound
  <2>1. round \in 1..(Nr - 1) /\ Rk[round] \in Bytes OBVIOUS
  <2>2. St \in Bytes BY <2>1 DEF EcbTrail
  <2>3. aes_mix_columns_enc(aes_subbytes_shiftrows(St)) \in Bytes BY <2>1, <2>2, EcbUndo
  <2>4. St' \in Bytes BY <2>1, <2>3, EcbUndo
  <2>5. /\ Tr'[round] = St'
        /\ \A r \in 0..(round - 1) : Tr'[r] = Tr[r]
    BY <2>1
  <2>6. EcbTrail(Tr', round)
    <3>1. \A r \in 0..round : Tr'[r] \in Bytes
      <4>1. \A r \in 0..round : r = round \/ r \in 0..(round - 1) BY <2>1
      <4> QED BY <4>1, <2>4, <2>5 DEF EcbTrail
    <3>2. Tr'[0] = AddBytes(pt, Rk[0]) BY <2>1, <2>5 DEF EcbTrail
    <3>3. ASSUME NEW r \in 1..round
          PROVE  Tr'[r] = AddBytes(aes_mix_columns_enc(aes_subbytes_shiftrows(Tr'[r - 1])), Rk[r])
      <4>1. r - 1 \in 0..(round - 1) BY <2>1
      <4>2. CASE r = round BY <4>1, <4>2, <2>5
      <4>3. CASE r # round
        <5>1. r \in 1..(round - 1) BY <2>1, <4>3
        <5> QED BY <4>1, <5>1, <2>5 DEF EcbTrail
      <4> QED BY <4>2, <4>3
    <3> QED BY <3>1, <3>2, <3>3 DEF EcbTrail
  <2>7. (round - 1)' = round BY <2>1
  <2>8. round' \in 1..Nr /\ St' = Tr'[round' - 1] BY <2>1, <2>5
  <2>9. EcbTrail(Tr, round - 1)' BY <2>6, <2>7 DEF EcbTrail
  <2> QED BY <2>8, <2>9
<1>5. CASE Ecb!EncryptLast
  <2>1. round = Nr BY <1>5, EcbEncryptLast
  <2>2. EcbTrail(Tr, Nr - 1) /\ St = Tr[Nr - 1] BY <1>5, <2>1, EcbEncryptLast
  <2>3. EcbTrail(Tr, Nr - 1)' BY <1>5, <2>2, EcbEncryptLast DEF EcbTrail
  <2> QED BY <1>5, <2>1, <2>2, <2>3, EcbEncryptLast
<1>6. CASE Ecb!Decrypt
  <2> USE <1>6, EcbDecrypt
  <2>1. Nr - 1 \in 0..(Nr - 1) /\ Rk[Nr] \in Bytes OBVIOUS
  <2>2. Tr[Nr - 1] \in Bytes BY <2>1 DEF EcbTrail
  <2>3. aes_subbytes_shiftrows(Tr[Nr - 1]) \in Bytes BY <2>1, <2>2, EcbUndo
  <2>4. St' = aes_subbytes_shiftrows(Tr[Nr - 1]) BY <2>1, <2>3, EcbUndo
  <2>5. EcbTrail(Tr, Nr - 1)' BY DEF EcbTrail
  <2> QED BY <2>1, <2>4, <2>5
<1>7. CASE Ecb!DecryptRound
  <2> USE <1>7, EcbDecryptRound
  <2>1. round \in 1..(Nr - 1) /\ Rk[round] \in Bytes /\ round - 1 \in 0..(Nr - 1) OBVIOUS
  <2>2. Tr[round] \in Bytes /\ Tr[round - 1] \in Bytes BY <2>1 DEF EcbTrail
  <2>3. aes_subbytes_shiftrows_dec(St) = Tr[round] BY <2>1, <2>2, EcbUndo
  <2>4. aes_subbytes_shiftrows(Tr[round - 1]) \in Bytes BY <2>1, <2>2, EcbUndo
  <2>5. aes_mix_columns_enc(aes_subbytes_shiftrows(Tr[round - 1])) \in Bytes BY <2>1, <2>4, EcbUndo
  <2>6. Tr[round] = AddBytes(aes_mix_columns_enc(aes_subbytes_shiftrows(Tr[round - 1])), Rk[round])
    BY <2>1 DEF EcbTrail
  <2>7. AddBytes(Tr[round], Rk[round]) = aes_mix_columns_enc(aes_subbytes_shiftrows(Tr[round - 1]))
    BY <2>1, <2>5, <2>6, EcbUndo
  <2>8. St' = aes_subbytes_shiftrows(Tr[round - 1])
    BY <2>1, <2>3, <2>4, <2>7, EcbUndo
  <2>9. EcbTrail(Tr, Nr - 1)' BY DEF EcbTrail
  <2> QED BY <2>1, <2>8, <2>9
<1>8. CASE Ecb!DecryptLast
  <2> USE <1>8, EcbDecryptLast
  <2>1. 0 \in 0..(Nr - 1) /\ Rk[0] \in Bytes OBVIOUS
  <2>2. Tr[0] \in Bytes /\ Tr[0] = AddBytes(pt, Rk[0]) BY <2>1 DEF EcbTrail
  <2>3. aes_subbytes_shiftrows_dec(St) = Tr[0] BY <2>1, <2>2, EcbUndo
  <2>4. AddBytes(AddBytes(pt, Rk[0]), Rk[0]) = pt BY <2>1, EcbUndo
  <2>5. St' = pt BY <2>2, <2>3, <2>4
  <2> QED BY <2>5
<1> QED
  BY <1>1, <1>2, <1>3, <1>4, <1>5, <1>6, <1>7, <1>8 DEF Ecb!Next

LEMMA RetraceAlways == Ecb!Spec => []RetraceInv
<1>1. Ecb!Init => RetraceInv
  BY EcbInit DEF RetraceInv
<1>2. RetraceInv /\ [Ecb!Next]_(Ecb!vars) => RetraceInv'
  <2>1. UNCHANGED Ecb!vars => UNCHANGED <<Rk, Nr, pt, St, round, op, Tr>>
    BY DEF Ecb!vars, Rk, Nr, St, Tr
  <2> QED
    BY <2>1, RetraceStep
<1> QED
  BY <1>1, <1>2, PTL DEF Ecb!Spec

(* The decryption is before each of its rounds at the block the encryption *)
(* was at, substituted and shifted.                                        *)
THEOREM DecryptionRetraces == ASSUME DecryptWith = "rk" PROVE MCSpec => []DecryptRetraces
<1>1. RetraceInv => DecryptRetraces
  BY DEF RetraceInv, DecryptRetraces, Ecb!DecryptRetraces, St, Tr
<1> QED
  BY <1>1, OpensslIsEcb, RetraceAlways, PTL DEF EcbSpec

(* Decrypting with the expanded key of the encryption returns the block.   *)
THEOREM RoundTrip == ASSUME DecryptWith = "rk" PROVE MCSpec => []DecryptReturnsPlaintext
<1>1. RetraceInv => DecryptReturnsPlaintext
  BY DEF RetraceInv, DecryptReturnsPlaintext, Ecb!DecryptReturnsPlaintext, St
<1> QED
  BY <1>1, OpensslIsEcb, RetraceAlways, PTL DEF EcbSpec

------------------------------------------------------------------------------
(* Multiplication by x, as the macros do it and as the field defines it    *)
LEMMA XtimeIs == ASSUME NEW v \in Byte PROVE xtime(v) = Tw(v) /\ Tw(v) \in Byte
<1>1. \A b \in v : b \in 0..7
  BY DEF Byte, Bits
<1>2. \A d : d \in ShiftL(v, 1, 8) <=> d \in {b + 1 : b \in v} /\ d \in Bits
  BY <1>1 DEF ShiftL, Bits
<1>3. (IF 7 \in v THEN {0, 1, 3, 4} ELSE {}) \subseteq Bits
  BY DEF Bits
<1>4. xtime(v) = Tw(v)
  BY <1>2, <1>3 DEF xtime, Tw, XT2, Xor
<1>5. Tw(v) \in Byte
  BY DEF Tw, Byte
<1> QED
  BY <1>4, <1>5

(* the powers of a at the bits 0 to 3                                      *)
PowerOf(a, i) == IF i = 0 THEN a ELSE IF i = 1 THEN Tw(a) ELSE IF i = 2 THEN Tw(Tw(a)) ELSE Tw(Tw(Tw(a)))

LEMMA TimesIs ==
  ASSUME NEW a \in Byte, NEW J \in SUBSET (0..3)
  PROVE  Times(a, J) = {c \in Bits : Cardinality({i \in J : c \in PowerOf(a, i)}) % 2 = 1}
<1> DEFINE power == CHOOSE power : power = [i \in Bits |-> IF i = 0 THEN a ELSE xtime(power[i - 1])]
<1>1. power = [i \in Bits |-> IF i = 0 THEN a ELSE xtime(power[i - 1])]
  <2> DEFINE p1 == xtime(a)
             p2 == xtime(p1)
             p3 == xtime(p2)
             p4 == xtime(p3)
             p5 == xtime(p4)
             p6 == xtime(p5)
             p7 == xtime(p6)
             f == [i \in Bits |-> IF i = 0 THEN a ELSE IF i = 1 THEN p1 ELSE IF i = 2 THEN p2
                                  ELSE IF i = 3 THEN p3 ELSE IF i = 4 THEN p4 ELSE IF i = 5 THEN p5
                                  ELSE IF i = 6 THEN p6 ELSE p7]
             g == [i \in Bits |-> IF i = 0 THEN a ELSE xtime(f[i - 1])]
  <2>1. /\ p1 = xtime(a) /\ p2 = xtime(p1) /\ p3 = xtime(p2) /\ p4 = xtime(p3) /\ p5 = xtime(p4)
        /\ p6 = xtime(p5) /\ p7 = xtime(p6)
    OBVIOUS
  <2> HIDE DEF p1, p2, p3, p4, p5, p6, p7
  <2>2. /\ f[0] = a /\ f[1] = p1 /\ f[2] = p2 /\ f[3] = p3 /\ f[4] = p4 /\ f[5] = p5 /\ f[6] = p6
        /\ f[7] = p7
    BY DEF Bits
  <2>3. \A i \in Bits : i = 0 \/ i = 1 \/ i = 2 \/ i = 3 \/ i = 4 \/ i = 5 \/ i = 6 \/ i = 7
    BY DEF Bits
  <2>4. \A i \in Bits : g[i] = IF i = 0 THEN a ELSE xtime(f[i - 1])
    OBVIOUS
  <2>5. f = [i \in Bits |-> f[i]] /\ g = [i \in Bits |-> g[i]]
    OBVIOUS
  <2> HIDE DEF f, g
  <2>6. ASSUME NEW i \in Bits
        PROVE  f[i] = g[i]
    <3>1. 1 - 1 = 0 /\ 2 - 1 = 1 /\ 3 - 1 = 2 /\ 4 - 1 = 3 /\ 5 - 1 = 4 /\ 6 - 1 = 5 /\ 7 - 1 = 6
      OBVIOUS
    <3> QED
      BY <2>1, <2>2, <2>3, <2>4, <3>1
  <2>7. f = g
    BY <2>5, <2>6
  <2>8. f = [i \in Bits |-> IF i = 0 THEN a ELSE xtime(f[i - 1])]
    BY <2>7 DEF g
  <2> QED
    BY <2>8
<1>2. Times(a, J) = {c \in Bits : Cardinality({i \in J : c \in [j \in J |-> power[j]][i]}) % 2 = 1}
  BY TabulatedIs DEF Times
<1> HIDE DEF power
<1>3. /\ power[0] = a /\ power[1] = xtime(power[0]) /\ power[2] = xtime(power[1])
      /\ power[3] = xtime(power[2])
  BY <1>1 DEF Bits
<1>4. Tw(a) \in Byte /\ Tw(Tw(a)) \in Byte
  BY XtimeIs
<1>5. power[0] = a /\ power[1] = Tw(a) /\ power[2] = Tw(Tw(a)) /\ power[3] = Tw(Tw(Tw(a)))
  BY <1>3, <1>4, XtimeIs
<1>6. \A i \in J : power[i] = PowerOf(a, i)
  BY <1>5 DEF PowerOf
<1>7. \A c : {i \in J : c \in [j \in J |-> power[j]][i]} = {i \in J : c \in PowerOf(a, i)}
  BY <1>6
<1> QED
  BY <1>2, <1>7

(* Of two or three members, an odd number                                  *)
LEMMA OddOfTwo ==
  ASSUME NEW x, NEW y, x # y, NEW M \in SUBSET {x, y}
  PROVE  Cardinality(M) % 2 = 1 <=> ((x \in M) # (y \in M))
<1>1. M = {} \/ M = {x} \/ M = {y} \/ M = {x, y}
  OBVIOUS
<1>2. Cardinality({}) = 0 /\ Cardinality({x}) = 1 /\ Cardinality({y}) = 1
  BY FS_EmptySet, FS_Singleton
<1>3. Cardinality({x, y}) = 2
  <2>1. IsFiniteSet({x}) /\ {x, y} = {x} \cup {y} /\ y \notin {x}
    BY FS_Singleton
  <2> QED
    BY <1>2, <2>1, FS_AddElement
<1> QED
  BY <1>1, <1>2, <1>3

LEMMA OddOfThree ==
  ASSUME NEW x, NEW y, NEW z, x # y, x # z, y # z, NEW M \in SUBSET {x, y, z}
  PROVE  Cardinality(M) % 2 = 1 <=> (((x \in M) # (y \in M)) # (z \in M))
<1> DEFINE Less == M \ {z}
<1>1. Less \in SUBSET {x, y} /\ (x \in Less <=> x \in M) /\ (y \in Less <=> y \in M) /\ z \notin Less
  OBVIOUS
<1>2. IsFiniteSet(Less)
  <2>1. IsFiniteSet({x, y})
    <3>1. {x, y} = {x} \cup {y}
      OBVIOUS
    <3>2. IsFiniteSet({x})
      BY FS_Singleton
    <3>3. IsFiniteSet({x} \cup {y})
      BY <3>2, FS_AddElement
    <3> QED
      BY ONLY <3>1, <3>3
  <2> QED
    BY <1>1, <2>1, FS_Subset
<1>3. M = IF z \in M THEN Less \cup {z} ELSE Less
  OBVIOUS
<1> HIDE DEF Less
<1>4. Cardinality(Less) % 2 = 1 <=> ((x \in Less) # (y \in Less))
  BY <1>1, OddOfTwo
<1>5. Cardinality(Less) \in Nat /\ Cardinality(Less \cup {z}) = Cardinality(Less) + 1
  BY <1>1, <1>2, FS_CardinalityType, FS_AddElement
<1>6. (Cardinality(Less) + 1) % 2 = 1 <=> ~(Cardinality(Less) % 2 = 1)
  BY <1>5
<1>7. CASE z \in M
  <2>1. PICK n : n = Cardinality(Less)
    OBVIOUS
  <2>2. M = Less \cup {z}
    BY <1>3, <1>7
  <2>3. Cardinality(M) = n + 1
    BY <1>5, <2>1, <2>2
  <2>4. n % 2 = 1 <=> ((x \in M) # (y \in M))
    BY <1>1, <1>4, <2>1
  <2>5. (n + 1) % 2 = 1 <=> ~(n % 2 = 1)
    BY <1>6, <2>1
  <2> QED
    BY ONLY <1>7, <2>3, <2>4, <2>5
<1>8. CASE z \notin M
  <2>1. M = Less
    BY <1>3, <1>8
  <2> QED
    BY <1>1, <1>4, <1>8, <2>1
<1> QED
  BY <1>7, <1>8

(* The products of the tables are those of the macros.                     *)
LEMMA ProductsAreStored ==
  ASSUME NEW a \in Byte
  PROVE  /\ Times(a, {1, 2, 3}) = Stored(14, a) /\ Times(a, {0, 3}) = Stored(9, a)
         /\ Times(a, {0, 2, 3}) = Stored(13, a) /\ Times(a, {0, 1, 3}) = Stored(11, a)
<1> DEFINE odd(J) == {c \in Bits : Cardinality({i \in J : c \in PowerOf(a, i)}) % 2 = 1}
<1>1. PICK p0, p1, p2, p3 : p0 = a /\ p1 = Tw(a) /\ p2 = Tw(Tw(a)) /\ p3 = Tw(Tw(Tw(a)))
  OBVIOUS
<1>2. p0 \in Byte /\ p1 \in Byte /\ p2 \in Byte /\ p3 \in Byte
  BY <1>1, XtimeIs
<1>3. PowerOf(a, 0) = p0 /\ PowerOf(a, 1) = p1 /\ PowerOf(a, 2) = p2 /\ PowerOf(a, 3) = p3
  BY <1>1 DEF PowerOf
<1>4. \A c, i, j : i # j => (Cardinality({k \in {i, j} : c \in PowerOf(a, k)}) % 2 = 1
                              <=> ((c \in PowerOf(a, i)) # (c \in PowerOf(a, j))))
  <2> TAKE c, i, j
  <2> HAVE i # j
  <2> DEFINE M == {k \in {i, j} : c \in PowerOf(a, k)}
  <2>1. M \in SUBSET {i, j} /\ (i \in M <=> c \in PowerOf(a, i)) /\ (j \in M <=> c \in PowerOf(a, j))
    OBVIOUS
  <2> HIDE DEF M
  <2>2. Cardinality(M) % 2 = 1 <=> ((i \in M) # (j \in M))
    BY <2>1, OddOfTwo
  <2> QED
    BY <2>1, <2>2 DEF M
<1>5. \A c, i, j, l : i # j /\ i # l /\ j # l =>
         (Cardinality({k \in {i, j, l} : c \in PowerOf(a, k)}) % 2 = 1
           <=> (((c \in PowerOf(a, i)) # (c \in PowerOf(a, j))) # (c \in PowerOf(a, l))))
  <2> TAKE c, i, j, l
  <2> HAVE i # j /\ i # l /\ j # l
  <2> DEFINE M == {k \in {i, j, l} : c \in PowerOf(a, k)}
  <2>1. M \in SUBSET {i, j, l} /\ (i \in M <=> c \in PowerOf(a, i)) /\ (j \in M <=> c \in PowerOf(a, j))
        /\ (l \in M <=> c \in PowerOf(a, l))
    OBVIOUS
  <2> HIDE DEF M
  <2>2. Cardinality(M) % 2 = 1 <=> (((i \in M) # (j \in M)) # (l \in M))
    BY <2>1, OddOfThree
  <2> QED
    BY <2>1, <2>2 DEF M
<1>6. \A c : Cardinality({k \in {1, 2, 3} : c \in PowerOf(a, k)}) % 2 = 1
               <=> (((c \in p1) # (c \in p2)) # (c \in p3))
  BY <1>3, <1>5
<1>7. \A c : Cardinality({k \in {0, 3} : c \in PowerOf(a, k)}) % 2 = 1 <=> ((c \in p0) # (c \in p3))
  BY <1>3, <1>4
<1>8. \A c : Cardinality({k \in {0, 2, 3} : c \in PowerOf(a, k)}) % 2 = 1
               <=> (((c \in p0) # (c \in p2)) # (c \in p3))
  BY <1>3, <1>5
<1>9. \A c : Cardinality({k \in {0, 1, 3} : c \in PowerOf(a, k)}) % 2 = 1
               <=> (((c \in p0) # (c \in p1)) # (c \in p3))
  BY <1>3, <1>5
<1>10. /\ Times(a, {1, 2, 3}) = odd({1, 2, 3}) /\ Times(a, {0, 3}) = odd({0, 3})
       /\ Times(a, {0, 2, 3}) = odd({0, 2, 3}) /\ Times(a, {0, 1, 3}) = odd({0, 1, 3})
  BY TimesIs
<1>11. odd({1, 2, 3}) = Xor(Xor(p3, p2), p1)
  BY <1>2, <1>6 DEF Xor, Byte
<1>12. odd({0, 3}) = Xor(p3, p0)
  BY <1>2, <1>7 DEF Xor, Byte
<1>13. odd({0, 2, 3}) = Xor(Xor(p3, p2), p0)
  BY <1>2, <1>8 DEF Xor, Byte
<1>14. odd({0, 1, 3}) = Xor(Xor(p3, p1), p0)
  BY <1>2, <1>9 DEF Xor, Byte
<1>15. /\ Stored(14, a) = Xor(Xor(p3, p2), p1) /\ Stored(9, a) = Xor(p3, p0)
       /\ Stored(13, a) = Xor(Xor(p3, p2), p0) /\ Stored(11, a) = Xor(Xor(p3, p1), p0)
  BY <1>1, StoredAre
<1> HIDE DEF odd
<1> QED
  BY <1>10, <1>11, <1>12, <1>13, <1>14, <1>15

(* The bytes of the tables for decryption                                  *)
LEMMA TdBytes ==
  ASSUME NEW x \in Byte, NEW y \in Byte, d_sbox[x] = y
  PROVE  /\ Td0[x] \in Word32 /\ Td1[x] \in Word32 /\ Td2[x] \in Word32 /\ Td3[x] \in Word32
         /\ ByteOf(Td0[x], 3) = Stored(14, y) /\ ByteOf(Td0[x], 2) = Stored(9, y)
         /\ ByteOf(Td0[x], 1) = Stored(13, y) /\ ByteOf(Td0[x], 0) = Stored(11, y)
         /\ ByteOf(Td1[x], 3) = Stored(11, y) /\ ByteOf(Td1[x], 2) = Stored(14, y)
         /\ ByteOf(Td1[x], 1) = Stored(9, y) /\ ByteOf(Td1[x], 0) = Stored(13, y)
         /\ ByteOf(Td2[x], 3) = Stored(13, y) /\ ByteOf(Td2[x], 2) = Stored(11, y)
         /\ ByteOf(Td2[x], 1) = Stored(14, y) /\ ByteOf(Td2[x], 0) = Stored(9, y)
         /\ ByteOf(Td3[x], 3) = Stored(9, y) /\ ByteOf(Td3[x], 2) = Stored(13, y)
         /\ ByteOf(Td3[x], 1) = Stored(11, y) /\ ByteOf(Td3[x], 0) = Stored(14, y)
<1>1. PICK s14, s9, s13, s11 : /\ s14 = Stored(14, y) /\ s9 = Stored(9, y)
                               /\ s13 = Stored(13, y) /\ s11 = Stored(11, y)
  OBVIOUS
<1>2. /\ Times(y, {1, 2, 3}) = s14 /\ Times(y, {0, 3}) = s9
      /\ Times(y, {0, 2, 3}) = s13 /\ Times(y, {0, 1, 3}) = s11
  BY <1>1, ProductsAreStored
<1>3. s14 \in Byte /\ s9 \in Byte /\ s13 \in Byte /\ s11 \in Byte
  BY <1>2, TimesByte
<1> DEFINE four == <<s14, s9, s13, s11>>
           bytes == [k \in 0..3 |-> four[k + 1]]
<1>4. bytes \in [0..3 -> Byte] /\ bytes[0] = s14 /\ bytes[1] = s9 /\ bytes[2] = s13 /\ bytes[3] = s11
  BY <1>3
<1>5. Td0[x] = WordFrom(bytes, BigEndian)
  <2>1. Td0 = [z \in Byte |-> FromTop(<<Times(d_sbox[z], {1, 2, 3}), Times(d_sbox[z], {0, 3}),
                                        Times(d_sbox[z], {0, 2, 3}), Times(d_sbox[z], {0, 1, 3})>>)]
    BY TabulatedIs DEF Td0
  <2>2. Td0[x] = FromTop(four)
    BY <1>2, <2>1
  <2> QED
    BY <2>2 DEF FromTop
<1> HIDE DEF bytes
<1>6. PICK w : w = Td0[x]
  OBVIOUS
<1>7. w \in Word32 /\ ByteOf(w, 3) = s14 /\ ByteOf(w, 2) = s9 /\ ByteOf(w, 1) = s13 /\ ByteOf(w, 0) = s11
  <2>1. w \in Word32 /\ \A k \in 0..3 : ByteOf(w, k) = bytes[3 - k]
    BY <1>4, <1>5, <1>6, Gathered
  <2>2. /\ ByteOf(w, 3) = bytes[3 - 3] /\ ByteOf(w, 2) = bytes[3 - 2]
        /\ ByteOf(w, 1) = bytes[3 - 1] /\ ByteOf(w, 0) = bytes[3 - 0]
    BY ONLY <2>1
  <2>3. 3 - 3 = 0 /\ 3 - 2 = 1 /\ 3 - 1 = 2 /\ 3 - 0 = 3
    OBVIOUS
  <2> QED
    BY <1>4, <2>1, <2>2, <2>3
<1>8. ASSUME NEW m \in 1..3, NEW v, v = RotateR(w, 8 * m, 32)
      PROVE  /\ v \in Word32
             /\ ByteOf(v, 0) = ByteOf(w, (0 + m) % 4) /\ ByteOf(v, 1) = ByteOf(w, (1 + m) % 4)
             /\ ByteOf(v, 2) = ByteOf(w, (2 + m) % 4) /\ ByteOf(v, 3) = ByteOf(w, (3 + m) % 4)
  <2>1. m \in 0..3 /\ {0, 1, 2, 3} \subseteq 0..3
    OBVIOUS
  <2> QED
    BY <1>7, <1>8, <2>1, RotatedBytes
<1>9. PICK v1, v2, v3 : v1 = Td1[x] /\ v2 = Td2[x] /\ v3 = Td3[x]
  OBVIOUS
<1>10. v1 = RotateR(w, 8 * 1, 32) /\ v2 = RotateR(w, 8 * 2, 32) /\ v3 = RotateR(w, 8 * 3, 32)
  BY <1>6, <1>9, TabulatedIs DEF Td1, Td2, Td3
<1>11. /\ (0 + 1) % 4 = 1 /\ (1 + 1) % 4 = 2 /\ (2 + 1) % 4 = 3 /\ (3 + 1) % 4 = 0
       /\ (0 + 2) % 4 = 2 /\ (1 + 2) % 4 = 3 /\ (2 + 2) % 4 = 0 /\ (3 + 2) % 4 = 1
       /\ (0 + 3) % 4 = 3 /\ (1 + 3) % 4 = 0 /\ (2 + 3) % 4 = 1 /\ (3 + 3) % 4 = 2
  OBVIOUS
<1>12. v1 \in Word32 /\ ByteOf(v1, 3) = s11 /\ ByteOf(v1, 2) = s14 /\ ByteOf(v1, 1) = s9 /\ ByteOf(v1, 0) = s13
  <2>1. 1 \in 1..3
    OBVIOUS
  <2>2. /\ v1 \in Word32
        /\ ByteOf(v1, 0) = ByteOf(w, (0 + 1) % 4) /\ ByteOf(v1, 1) = ByteOf(w, (1 + 1) % 4)
        /\ ByteOf(v1, 2) = ByteOf(w, (2 + 1) % 4) /\ ByteOf(v1, 3) = ByteOf(w, (3 + 1) % 4)
    BY ONLY <1>8, <1>10, <2>1
  <2> QED
    BY ONLY <1>7, <1>11, <2>2
<1>13. v2 \in Word32 /\ ByteOf(v2, 3) = s13 /\ ByteOf(v2, 2) = s11 /\ ByteOf(v2, 1) = s14 /\ ByteOf(v2, 0) = s9
  <2>1. 2 \in 1..3
    OBVIOUS
  <2>2. /\ v2 \in Word32
        /\ ByteOf(v2, 0) = ByteOf(w, (0 + 2) % 4) /\ ByteOf(v2, 1) = ByteOf(w, (1 + 2) % 4)
        /\ ByteOf(v2, 2) = ByteOf(w, (2 + 2) % 4) /\ ByteOf(v2, 3) = ByteOf(w, (3 + 2) % 4)
    BY ONLY <1>8, <1>10, <2>1
  <2> QED
    BY ONLY <1>7, <1>11, <2>2
<1>14. v3 \in Word32 /\ ByteOf(v3, 3) = s9 /\ ByteOf(v3, 2) = s13 /\ ByteOf(v3, 1) = s11 /\ ByteOf(v3, 0) = s14
  <2>1. 3 \in 1..3
    OBVIOUS
  <2>2. /\ v3 \in Word32
        /\ ByteOf(v3, 0) = ByteOf(w, (0 + 3) % 4) /\ ByteOf(v3, 1) = ByteOf(w, (1 + 3) % 4)
        /\ ByteOf(v3, 2) = ByteOf(w, (2 + 3) % 4) /\ ByteOf(v3, 3) = ByteOf(w, (3 + 3) % 4)
    BY ONLY <1>8, <1>10, <2>1
  <2> QED
    BY ONLY <1>7, <1>11, <2>2
<1> QED
  BY ONLY <1>1, <1>6, <1>7, <1>9, <1>12, <1>13, <1>14

(* The S-box, which Te1 has in its lowest byte, and its inverse in Td undo *)
(* each other: what is left is the inverse column.                         *)
LEMMA TransformedIs ==
  ASSUME NEW w \in Word32
  PROVE  /\ Transformed(w) \in Word32
         /\ LET s == [k \in 0..3 |-> ByteOf(w, 3 - k)]
            IN  \A r \in 0..3 : ByteOf(Transformed(w), 3 - r) = Column(InvMixRow, s, r)
<1>1. PICK y0, y1, y2, y3 : y0 = ByteOf(w, 0) /\ y1 = ByteOf(w, 1) /\ y2 = ByteOf(w, 2) /\ y3 = ByteOf(w, 3)
  OBVIOUS
<1>2. y0 \in Byte /\ y1 \in Byte /\ y2 \in Byte /\ y3 \in Byte
  BY <1>1, BitOfByte
<1>3. \A y \in Byte : ByteOf(Te1[y], 0) \in Byte /\ d_sbox[ByteOf(Te1[y], 0)] = y
  BY TeBytes, SboxByte, DboxByte
<1>4. PICK a, b, c, d : /\ a = Td0[ByteOf(Te1[y3], 0)] /\ b = Td1[ByteOf(Te1[y2], 0)]
                        /\ c = Td2[ByteOf(Te1[y1], 0)] /\ d = Td3[ByteOf(Te1[y0], 0)]
  OBVIOUS
<1>5. /\ a \in Word32 /\ ByteOf(a, 3) = Stored(14, y3) /\ ByteOf(a, 2) = Stored(9, y3)
      /\ ByteOf(a, 1) = Stored(13, y3) /\ ByteOf(a, 0) = Stored(11, y3)
  BY <1>2, <1>3, <1>4, TdBytes
<1>6. /\ b \in Word32 /\ ByteOf(b, 3) = Stored(11, y2) /\ ByteOf(b, 2) = Stored(14, y2)
      /\ ByteOf(b, 1) = Stored(9, y2) /\ ByteOf(b, 0) = Stored(13, y2)
  BY <1>2, <1>3, <1>4, TdBytes
<1>7. /\ c \in Word32 /\ ByteOf(c, 3) = Stored(13, y1) /\ ByteOf(c, 2) = Stored(11, y1)
      /\ ByteOf(c, 1) = Stored(14, y1) /\ ByteOf(c, 0) = Stored(9, y1)
  BY <1>2, <1>3, <1>4, TdBytes
<1>8. /\ d \in Word32 /\ ByteOf(d, 3) = Stored(9, y0) /\ ByteOf(d, 2) = Stored(13, y0)
      /\ ByteOf(d, 1) = Stored(11, y0) /\ ByteOf(d, 0) = Stored(14, y0)
  BY <1>2, <1>3, <1>4, TdBytes
<1>9. PICK t : t = Transformed(w)
  OBVIOUS
<1>10. t = Xor(Xor(a, b), Xor(c, d))
  BY <1>1, <1>4, <1>9 DEF Transformed
<1>11. t \in Word32 /\ \A k \in 0..3 : ByteOf(t, k) = Xor(Xor(ByteOf(a, k), ByteOf(b, k)), Xor(ByteOf(c, k), ByteOf(d, k)))
  <2>1. PICK e, f : e = Xor(a, b) /\ f = Xor(c, d)
    OBVIOUS
  <2>2. /\ e \in Word32 /\ \A k \in 0..3 : ByteOf(e, k) = Xor(ByteOf(a, k), ByteOf(b, k))
        /\ f \in Word32 /\ \A k \in 0..3 : ByteOf(f, k) = Xor(ByteOf(c, k), ByteOf(d, k))
    BY <1>5, <1>6, <1>7, <1>8, <2>1, XorBytes
  <2>3. t = Xor(e, f)
    BY <1>10, <2>1
  <2>4. t \in Word32 /\ \A k \in 0..3 : ByteOf(t, k) = Xor(ByteOf(e, k), ByteOf(f, k))
    BY <2>2, <2>3, XorBytes
  <2> QED
    BY <2>2, <2>4
<1>12. PICK s : s = [k \in 0..3 |-> ByteOf(w, 3 - k)]
  OBVIOUS
<1>13. s[0] = y3 /\ s[1] = y2 /\ s[2] = y1 /\ s[3] = y0
  BY <1>1, <1>12
<1>14. /\ Column(InvMixRow, s, 0) = Xor4(Stored(14, y3), Stored(11, y2), Stored(13, y1), Stored(9, y0))
       /\ Column(InvMixRow, s, 1) = Xor4(Stored(9, y3), Stored(14, y2), Stored(11, y1), Stored(13, y0))
       /\ Column(InvMixRow, s, 2) = Xor4(Stored(13, y3), Stored(9, y2), Stored(14, y1), Stored(11, y0))
       /\ Column(InvMixRow, s, 3) = Xor4(Stored(11, y3), Stored(13, y2), Stored(9, y1), Stored(14, y0))
  BY <1>2, <1>13, InvMixedColumn
<1>15. \A u1, u2, u3, u4 : Xor(Xor(u1, u2), Xor(u3, u4)) = Xor4(u1, u2, u3, u4)
  BY DEF Xor4, Xor
<1>16. /\ ByteOf(t, 3) = Column(InvMixRow, s, 0) /\ ByteOf(t, 2) = Column(InvMixRow, s, 1)
       /\ ByteOf(t, 1) = Column(InvMixRow, s, 2) /\ ByteOf(t, 0) = Column(InvMixRow, s, 3)
  <2>1. /\ ByteOf(t, 3) = Xor4(ByteOf(a, 3), ByteOf(b, 3), ByteOf(c, 3), ByteOf(d, 3))
        /\ ByteOf(t, 2) = Xor4(ByteOf(a, 2), ByteOf(b, 2), ByteOf(c, 2), ByteOf(d, 2))
        /\ ByteOf(t, 1) = Xor4(ByteOf(a, 1), ByteOf(b, 1), ByteOf(c, 1), ByteOf(d, 1))
        /\ ByteOf(t, 0) = Xor4(ByteOf(a, 0), ByteOf(b, 0), ByteOf(c, 0), ByteOf(d, 0))
    BY ONLY <1>11, <1>15
  <2> QED
    BY ONLY <1>5, <1>6, <1>7, <1>8, <1>14, <2>1
<1>17. \A r \in 0..3 : ByteOf(t, 3 - r) = Column(InvMixRow, s, r)
  <2>1. \A r \in 0..3 : (r = 0 /\ 3 - r = 3) \/ (r = 1 /\ 3 - r = 2) \/ (r = 2 /\ 3 - r = 1) \/ (r = 3 /\ 3 - r = 0)
    OBVIOUS
  <2> QED
    BY ONLY <1>16, <2>1
<1> QED
  BY <1>9, <1>11, <1>12, <1>17

------------------------------------------------------------------------------
(* The words of the key for decryption, while round keys change places and *)
(* when they are transformed: `n' counts the round keys done.              *)
Counterpart(n, k) == rk[4 * (rounds - n) + k]

InvertInv ==
  \E m \in 0..7 :
    /\ step = 4 * m /\ 2 * m <= rounds
    /\ \A n \in 0..rounds, k \in 0..3 :
         dk[4 * n + k] = IF n < m \/ n > rounds - m THEN Counterpart(n, k) ELSE rk[4 * n + k]

TransformedTo(m) ==
  \A n \in 0..rounds, k \in 0..3 :
    dk[4 * n + k] = IF n \in 1..(m - 1) THEN Transformed(Counterpart(n, k)) ELSE Counterpart(n, k)

DkInv ==
  /\ phase \in {"invert", "transform", "ready"} => DOMAIN dk = 0..(Words - 1)
  /\ phase = "invert" => InvertInv
  /\ phase = "transform" => step \in 1..(rounds - 1) /\ TransformedTo(step)
  /\ phase = "ready" => TransformedTo(rounds)

LEMMA RoundsAre ==
  ASSUME KeyInv
  PROVE  rounds \in {10, 12, 14} /\ Words = 4 * (rounds + 1)
<1>1. bits \in {128, 192, 256}
  BY DEF KeyInv, Sized
<1> QED
  BY <1>1, SizesAre

LEMMA DkInvInit == KeyInit => DkInv
BY DEF KeyInit, DkInv

(* word k of round key n                                                   *)
LEMMA WordAt ==
  ASSUME NEW q \in {10, 12, 14}, NEW n \in 0..q, NEW k \in 0..3
  PROVE  /\ 4 * n + k \in 0..(4 * (q + 1) - 1)
         /\ (4 * n + k) \div 4 = n /\ (4 * n + k) % 4 = k
OBVIOUS

LEMMA InvertKeeps ==
  ASSUME KeyInv, DkInv, Invert
  PROVE  InvertInv' /\ DOMAIN dk' = 0..(Words - 1)
<1>1. PICK q \in {10, 12, 14} : rounds = q /\ Words = 4 * (q + 1)
  BY RoundsAre
<1>2. PICK m \in 0..7 :
        /\ step = 4 * m /\ 2 * m <= q
        /\ \A n \in 0..q, k \in 0..3 :
             dk[4 * n + k] = IF n < m \/ n > q - m THEN Counterpart(n, k) ELSE rk[4 * n + k]
  BY <1>1 DEF Invert, DkInv, InvertInv
<1>3. /\ step < 4 * rounds - step /\ step' = step + 4 /\ UNCHANGED <<bits, rk>>
      /\ dk' = [k \in DOMAIN dk |->
             IF k \in step..(step + 3) \/ k \in (4 * rounds - step)..(4 * rounds - step + 3)
             THEN dk[4 * (rounds - (k \div 4)) + (k % 4)] ELSE dk[k]]
      /\ DOMAIN dk = 0..(Words - 1)
  BY DEF Invert, DkInv
<1>4. 2 * m < q
  <2>1. step = 4 * m /\ step < 4 * q - step
    BY <1>1, <1>2, <1>3
  <2> QED
    BY ONLY <2>1, q \in {10, 12, 14}, m \in 0..7
<1>5. m + 1 \in 0..7 /\ 2 * (m + 1) <= q /\ step' = 4 * (m + 1)
  <2>1. step' = 4 * m + 4
    BY <1>2, <1>3
  <2> QED
    BY ONLY <1>4, <2>1, q \in {10, 12, 14}, m \in 0..7
<1>6. rounds' = q /\ \A n, k : Counterpart(n, k)' = Counterpart(n, k)
  BY <1>1, <1>3 DEF rounds, Counterpart
<1>7. ASSUME NEW n \in 0..q, NEW k \in 0..3
      PROVE  dk'[4 * n + k] = IF n < m + 1 \/ n > q - (m + 1) THEN Counterpart(n, k) ELSE rk[4 * n + k]
  <2>1. PICK j \in Int : j = 4 * n + k
    OBVIOUS
  <2>2. j \in 0..(4 * (q + 1) - 1) /\ j \div 4 = n /\ j % 4 = k
    BY <2>1, WordAt
  <2>3. dk'[j] = IF j \in step..(step + 3) \/ j \in (4 * rounds - step)..(4 * rounds - step + 3)
                 THEN dk[4 * (q - n) + k] ELSE dk[j]
    BY <1>1, <1>3, <2>2
  <2>4. (j \in step..(step + 3) \/ j \in (4 * rounds - step)..(4 * rounds - step + 3)) <=> n = m \/ n = q - m
    BY <1>1, <1>2, <2>1
  <2>5. CASE n = m \/ n = q - m
    <3>1. q - n \in 0..q /\ ~(q - n < m \/ q - n > q - m)
      BY <1>4, <2>5
    <3>2. dk[4 * (q - n) + k] = rk[4 * (q - n) + k]
      BY <1>2, <3>1
    <3>3. n < m + 1 \/ n > q - (m + 1)
      BY <1>4, <2>5
    <3> QED
      BY <1>1, <2>1, <2>3, <2>4, <2>5, <3>2, <3>3 DEF Counterpart
  <2>6. CASE ~(n = m \/ n = q - m)
    <3>1. (n < m + 1 \/ n > q - (m + 1)) <=> (n < m \/ n > q - m)
      BY <2>6
    <3>2. dk'[j] = dk[j]
      BY <2>3, <2>4, <2>6
    <3> QED
      BY <1>2, <2>1, <3>1, <3>2
  <2> QED
    BY <2>5, <2>6
<1>8. DOMAIN dk' = 0..(Words - 1)
  BY <1>3
<1> QED
  <2>1. PICK p \in 0..7 : p = m + 1
    BY <1>5
  <2>2. /\ step' = 4 * p /\ 2 * p <= q
        /\ \A n \in 0..q, k \in 0..3 :
             dk'[4 * n + k] = IF n < p \/ n > q - p THEN Counterpart(n, k) ELSE rk[4 * n + k]
    BY <1>5, <1>7, <2>1
  <2>3. /\ step' = 4 * p /\ 2 * p <= rounds'
        /\ \A n \in 0..rounds', k \in 0..3 :
             dk'[4 * n + k] = IF n < p \/ n > rounds' - p THEN Counterpart(n, k)' ELSE rk'[4 * n + k]
    <3>1. rounds' = q /\ rk' = rk /\ step' = 4 * p /\ 2 * p <= q
      BY <1>3, <1>6, <2>2
    <3>2. ASSUME NEW n \in 0..rounds', NEW k \in 0..3
          PROVE  dk'[4 * n + k] = IF n < p \/ n > rounds' - p THEN Counterpart(n, k)' ELSE rk'[4 * n + k]
      <4>1. Counterpart(n, k)' = Counterpart(n, k) /\ n \in 0..q
        BY <1>6, <3>1
      <4> QED
        BY <2>2, <3>1, <4>1
    <3> QED
      BY <3>1, <3>2
  <2>4. InvertInv'
    BY <2>1, <2>3 DEF InvertInv
  <2> QED
    BY <1>8, <2>4

(* The loop ends when only the middle one, its own counterpart, is left.   *)
LEMMA InvertEnds ==
  ASSUME KeyInv, DkInv, InvertDone
  PROVE  TransformedTo(1)' /\ step' \in 1..(rounds' - 1)
<1>1. PICK q \in {10, 12, 14} : rounds = q /\ Words = 4 * (q + 1)
  BY RoundsAre
<1>2. PICK m \in 0..7 :
        /\ step = 4 * m /\ 2 * m <= q
        /\ \A n \in 0..q, k \in 0..3 :
             dk[4 * n + k] = IF n < m \/ n > q - m THEN Counterpart(n, k) ELSE rk[4 * n + k]
  BY <1>1 DEF InvertDone, DkInv, InvertInv
<1>3. step >= 4 * rounds - step /\ step' = 1 /\ UNCHANGED <<bits, rk, dk>>
  BY DEF InvertDone
<1>4. q = 2 * m
  BY <1>1, <1>2, <1>3
<1>5. ASSUME NEW n \in 0..q, NEW k \in 0..3
      PROVE  dk[4 * n + k] = Counterpart(n, k)
  <2>1. CASE n = m
    <3>1. q - n = n
      BY <1>4, <2>1
    <3>2. dk[4 * n + k] = rk[4 * n + k]
      BY <1>2, <1>4, <2>1
    <3> QED
      BY <1>1, <3>1, <3>2 DEF Counterpart
  <2>2. CASE n # m
    <3>1. n < m \/ n > q - m
      BY <1>4, <2>2
    <3> QED
      BY <1>2, <3>1
  <2> QED
    BY <2>1, <2>2
<1>6. rounds' = q /\ \A n, k : Counterpart(n, k)' = Counterpart(n, k)
  BY <1>1, <1>3 DEF rounds, Counterpart
<1>7. \A n : n \notin 1..(1 - 1)
  OBVIOUS
<1> QED
  BY <1>1, <1>3, <1>5, <1>6, <1>7 DEF TransformedTo

LEMMA TransformKeeps ==
  ASSUME KeyInv, DkInv, Transform
  PROVE  /\ TransformedTo(step)' /\ DOMAIN dk' = 0..(Words - 1) /\ rounds' = rounds
         /\ step' = step + 1 /\ step \in 1..(rounds - 1)
         /\ phase' = (IF step + 1 < rounds THEN "transform" ELSE "ready")
<1>1. PICK q \in {10, 12, 14} : rounds = q /\ Words = 4 * (q + 1)
  BY RoundsAre
<1>2. /\ phase = "transform" /\ step' = step + 1 /\ UNCHANGED <<bits, rk>>
      /\ phase' = (IF step + 1 < rounds THEN "transform" ELSE "ready")
      /\ dk' = [k \in DOMAIN dk |-> IF k \div 4 = step THEN Transformed(dk[k]) ELSE dk[k]]
  BY DEF Transform
<1>3. DOMAIN dk = 0..(4 * (q + 1) - 1) /\ step \in 1..(q - 1) /\ TransformedTo(step)
  BY <1>1, <1>2 DEF DkInv
<1>4. rounds' = q /\ \A n, k : Counterpart(n, k)' = Counterpart(n, k)
  BY <1>1, <1>2 DEF rounds, Counterpart
<1>5. ASSUME NEW n \in 0..q, NEW k \in 0..3
      PROVE  dk'[4 * n + k] = IF n \in 1..step THEN Transformed(Counterpart(n, k)) ELSE Counterpart(n, k)
  <2>1. PICK j \in Int : j = 4 * n + k
    OBVIOUS
  <2>2. j \in 0..(4 * (q + 1) - 1) /\ j \div 4 = n
    BY <2>1, WordAt
  <2>3. dk'[j] = IF n = step THEN Transformed(dk[j]) ELSE dk[j]
    BY <1>2, <1>3, <2>2
  <2>4. dk[j] = IF n \in 1..(step - 1) THEN Transformed(Counterpart(n, k)) ELSE Counterpart(n, k)
    BY <1>1, <1>3, <2>1 DEF TransformedTo
  <2>5. CASE n = step
    <3>1. n \in 1..step /\ n \notin 1..(step - 1)
      BY <1>3, <2>5
    <3> QED
      BY <2>1, <2>3, <2>4, <2>5, <3>1
  <2>6. CASE n # step
    <3>1. n \in 1..step <=> n \in 1..(step - 1)
      BY <1>3, <2>6
    <3> QED
      BY <2>1, <2>3, <2>4, <2>6, <3>1
  <2> QED
    BY <2>5, <2>6
<1>6. TransformedTo(step)'
  <2>1. step' - 1 = step
    BY <1>2, <1>3
  <2>2. ASSUME NEW n \in 0..rounds', NEW k \in 0..3
        PROVE  dk'[4 * n + k] = IF n \in 1..(step' - 1) THEN Transformed(Counterpart(n, k)') ELSE Counterpart(n, k)'
    <3>1. Counterpart(n, k)' = Counterpart(n, k) /\ n \in 0..q
      BY <1>4
    <3> QED
      BY <1>5, <2>1, <3>1
  <2> QED
    BY <2>2 DEF TransformedTo, Transformed
<1>7. DOMAIN dk' = 0..(Words - 1)
  BY <1>1, <1>2, <1>3
<1> QED
  BY <1>1, <1>2, <1>3, <1>4, <1>6, <1>7

LEMMA DkInvStep == KeyInv /\ DkInv /\ [KeyNext]_keyVars => DkInv'
<1> SUFFICES ASSUME KeyInv, DkInv, [KeyNext]_keyVars PROVE DkInv'
  OBVIOUS
<1>1. PICK q \in {10, 12, 14} : rounds = q /\ Words = 4 * (q + 1)
  BY RoundsAre
<1>2. ASSUME UNCHANGED bits
      PROVE  rounds' = rounds /\ Words' = Words
  BY <1>2 DEF rounds, Words
<1>3. CASE ReferenceWord \/ SetEncryptKey \/ Expand
  <2>1. phase' \in {"reference", "expand", "expanded"}
    BY <1>3 DEF ReferenceWord, SetEncryptKey, Expand
  <2> QED
    BY <2>1 DEF DkInv
<1>4. CASE SetDecryptKey
  <2>1. /\ phase = "expanded" /\ phase' = "invert" /\ dk' = rk /\ step' = 0
        /\ UNCHANGED <<bits, rk>>
    BY <1>4 DEF SetDecryptKey
  <2>2. DOMAIN rk = 0..(Words - 1)
    <3>1. Agrees(rk, Words)
      BY <2>1 DEF KeyInv, RkInv
    <3> QED
      BY <3>1 DEF Agrees
  <2>3. rounds' = q /\ Words' = Words
    BY <1>1, <1>2, <2>1
  <2>4. \A n \in 0..q : ~(n < 0 \/ n > q - 0)
    OBVIOUS
  <2>5. InvertInv'
    <3>1. /\ 0 \in 0..7 /\ step' = 4 * 0 /\ 2 * 0 <= rounds'
          /\ \A n \in 0..rounds', k \in 0..3 :
               dk'[4 * n + k] = IF n < 0 \/ n > rounds' - 0 THEN Counterpart(n, k)' ELSE rk'[4 * n + k]
      BY <2>1, <2>3, <2>4
    <3> QED
      BY <3>1 DEF InvertInv
  <2> QED
    BY <2>1, <2>2, <2>3, <2>5 DEF DkInv
<1>5. CASE Invert
  <2>1. phase' = "invert" /\ UNCHANGED bits
    BY <1>5 DEF Invert
  <2> QED
    BY <1>2, <1>5, <2>1, InvertKeeps DEF DkInv
<1>6. CASE InvertDone
  <2>1. phase = "invert" /\ phase' = "transform" /\ step' = 1 /\ UNCHANGED <<bits, dk>>
    BY <1>6 DEF InvertDone
  <2>2. TransformedTo(1)' /\ step' \in 1..(rounds' - 1)
    BY <1>6, InvertEnds
  <2>3. TransformedTo(step)'
    BY <2>1, <2>2 DEF TransformedTo
  <2>4. DOMAIN dk' = 0..(Words' - 1)
    BY <1>2, <2>1 DEF DkInv
  <2> QED
    BY <2>1, <2>2, <2>3, <2>4 DEF DkInv
<1>7. CASE Transform
  <2>1. /\ TransformedTo(step)' /\ DOMAIN dk' = 0..(Words - 1) /\ rounds' = q
        /\ step' = step + 1 /\ step \in 1..(q - 1)
        /\ phase' = (IF step + 1 < q THEN "transform" ELSE "ready")
    BY <1>1, <1>7, TransformKeeps
  <2>2. Words' = Words
    BY <1>2, <1>7 DEF Transform
  <2>3. CASE step + 1 < q
    <3>1. phase' = "transform" /\ step' \in 1..(rounds' - 1)
      BY <2>1, <2>3
    <3> QED
      BY <2>1, <2>2, <3>1 DEF DkInv
  <2>4. CASE ~(step + 1 < q)
    <3>1. phase' = "ready" /\ step' = rounds'
      BY <2>1, <2>4
    <3>2. TransformedTo(rounds)'
      BY <2>1, <3>1 DEF TransformedTo
    <3> QED
      BY <2>1, <2>2, <3>1, <3>2 DEF DkInv
  <2> QED
    BY <2>3, <2>4
<1>8. CASE UNCHANGED keyVars
  <2>1. UNCHANGED <<bits, rk, dk, step, phase>> /\ rounds' = rounds /\ Words' = Words
    BY <1>2, <1>8 DEF keyVars
  <2>2. InvertInv' = InvertInv /\ (\A m : TransformedTo(m)' = TransformedTo(m))
    BY <2>1 DEF InvertInv, TransformedTo, Counterpart
  <2> QED
    BY <2>1, <2>2 DEF DkInv, InvertInv, TransformedTo, Counterpart
<1> QED
  BY <1>3, <1>4, <1>5, <1>6, <1>7, <1>8 DEF KeyNext

(* a byte of the round key of a schedule whose words are swapped           *)
LEMMA SwappedTwice == ASSUME NEW w \in Word32 PROVE SwappedWord(SwappedWord(w)) = w
<1>1. SwappedWord(w) \in Word32 /\ \A k \in 0..3 : ByteOf(SwappedWord(w), k) = ByteOf(w, 3 - k)
  BY SwappedBytesAre
<1>2. PICK v : v = SwappedWord(w)
  OBVIOUS
<1>3. SwappedWord(v) \in Word32 /\ \A k \in 0..3 : ByteOf(SwappedWord(v), k) = ByteOf(v, 3 - k)
  BY <1>1, <1>2, SwappedBytesAre
<1>4. \A k \in 0..3 : 3 - k \in 0..3 /\ 3 - (3 - k) = k
  OBVIOUS
<1>5. \A k \in 0..3 : ByteOf(SwappedWord(v), k) = ByteOf(w, k)
  BY <1>1, <1>2, <1>3, <1>4
<1> QED
  BY <1>2, <1>3, <1>5, WordOfBytes

LEMMA KeyReady ==
  ASSUME KeyInv, DkInv, phase = "ready"
  PROVE  \A r \in 0..rounds :
           RoundKeyOf([k \in DOMAIN dk |-> SwappedWord(dk[k])], r)
             = IF r \in {0, rounds} THEN RoundKeyOf(ref, rounds - r)
               ELSE aes_mix_columns_dec(RoundKeyOf(ref, rounds - r))
<1>1. PICK q \in {10, 12, 14} : rounds = q /\ Words = 4 * (q + 1)
  BY RoundsAre
<1>2. TransformedTo(q) /\ DOMAIN dk = 0..(4 * (q + 1) - 1)
  BY <1>1 DEF DkInv
<1>3. \A j \in 0..(4 * (q + 1) - 1) : ref[j] \in Word32 /\ rk[j] = SwappedWord(ref[j])
  <2>1. ref \in [0..(Words - 1) -> Word32] /\ Agrees(rk, Words)
    BY DEF KeyInv, RefInv, RkInv
  <2> QED
    BY <1>1, <2>1 DEF Agrees
<1>4. ASSUME NEW r \in 0..q
      PROVE  RoundKeyOf([k \in DOMAIN dk |-> SwappedWord(dk[k])], r)
               = IF r \in {0, q} THEN RoundKeyOf(ref, q - r) ELSE aes_mix_columns_dec(RoundKeyOf(ref, q - r))
  <2>1. PICK p \in 0..q : p = q - r
    OBVIOUS
  <2>2. PICK sk : sk = [k \in DOMAIN dk |-> SwappedWord(dk[k])]
    OBVIOUS
  <2>3. PICK given : given = RoundKeyOf(ref, p)
    OBVIOUS
  <2>4. ASSUME NEW n \in 0..3
        PROVE  /\ ref[4 * p + n] \in Word32
               /\ sk[4 * r + n] = SwappedWord(dk[4 * r + n])
               /\ rk[4 * p + n] = SwappedWord(ref[4 * p + n])
               /\ dk[4 * r + n] = IF r \in 1..(q - 1) THEN Transformed(rk[4 * p + n]) ELSE rk[4 * p + n]
    <3>1. 4 * p + n \in 0..(4 * (q + 1) - 1) /\ 4 * r + n \in 0..(4 * (q + 1) - 1)
      BY WordAt
    <3>2. Counterpart(r, n) = rk[4 * p + n]
      BY <1>1, <2>1 DEF Counterpart
    <3>3. dk[4 * r + n] = IF r \in 1..(q - 1) THEN Transformed(Counterpart(r, n)) ELSE Counterpart(r, n)
      BY <1>1, <1>2 DEF TransformedTo
    <3> QED
      BY <1>2, <1>3, <2>2, <3>1, <3>2, <3>3
  <2>5. \A i \in Index : i \div 4 \in 0..3 /\ i % 4 \in 0..3
    BY DEF Index
  <2>6. /\ RoundKeyOf(sk, r) = [i \in Index |-> ByteOf(sk[4 * r + (i \div 4)], i % 4)]
        /\ given = [i \in Index |-> ByteOf(ref[4 * p + (i \div 4)], i % 4)]
    BY <2>3 DEF RoundKeyOf
  <2>7. CASE r \in {0, q}
    <3>1. r \notin 1..(q - 1)
      BY <2>7
    <3>2. \A n \in 0..3 : sk[4 * r + n] = ref[4 * p + n]
      <4> TAKE n \in 0..3
      <4>1. PICK v \in Word32 : v = ref[4 * p + n]
        BY <2>4
      <4>2. sk[4 * r + n] = SwappedWord(SwappedWord(v))
        BY <2>4, <3>1, <4>1
      <4> QED
        BY <4>1, <4>2, SwappedTwice
    <3>3. RoundKeyOf(sk, r) = given
      BY <2>5, <2>6, <3>2
    <3> QED
      BY <2>1, <2>2, <2>3, <2>7, <3>3
  <2>8. CASE r \notin {0, q}
    <3>1. r \in 1..(q - 1)
      BY <2>8
    <3>2. aes_mix_columns_dec(given) =
            [i \in Index |-> Column(InvMixRow, [k \in 0..3 |-> given[4 * (i \div 4) + k]], i % 4)]
      BY DEF aes_mix_columns_dec, ColumnsBy, InvMixRow
    <3>3. ASSUME NEW i \in Index
          PROVE  ByteOf(sk[4 * r + (i \div 4)], i % 4)
                   = Column(InvMixRow, [k \in 0..3 |-> given[4 * (i \div 4) + k]], i % 4)
      <4>1. PICK n \in 0..3, m \in 0..3 : n = i \div 4 /\ m = i % 4
        BY <2>5
      <4>2. PICK v \in Word32 : v = ref[4 * p + n]
        BY <2>4
      <4>3. PICK u : u = SwappedWord(v)
        OBVIOUS
      <4>4. u \in Word32 /\ \A k \in 0..3 : ByteOf(u, 3 - k) = ByteOf(v, k)
        <5>1. u \in Word32 /\ \A k \in 0..3 : ByteOf(u, k) = ByteOf(v, 3 - k)
          BY <4>3, SwappedBytesAre
        <5>2. \A k \in 0..3 : 3 - k \in 0..3 /\ 3 - (3 - k) = k
          OBVIOUS
        <5> QED
          BY <5>1, <5>2
      <4>5. PICK t : t = Transformed(u)
        OBVIOUS
      <4>6. sk[4 * r + n] = SwappedWord(t)
        BY <2>4, <3>1, <4>2, <4>3, <4>5
      <4>7. PICK s : s = [k \in 0..3 |-> ByteOf(u, 3 - k)]
        OBVIOUS
      <4>8. t \in Word32 /\ ByteOf(t, 3 - m) = Column(InvMixRow, s, m)
        BY <4>4, <4>5, <4>7, TransformedIs
      <4>9. ByteOf(SwappedWord(t), m) = ByteOf(t, 3 - m)
        BY <4>8, SwappedBytesAre
      <4>10. [k \in 0..3 |-> given[4 * n + k]] = s
        <5>1. \A k \in 0..3 : given[4 * n + k] = ByteOf(v, k)
          <6> TAKE k \in 0..3
          <6>1. 4 * n + k \in Index /\ (4 * n + k) \div 4 = n /\ (4 * n + k) % 4 = k
            BY DEF Index
          <6> QED
            BY <2>6, <4>2, <6>1
        <5> QED
          BY <4>4, <4>7, <5>1
      <4> QED
        BY <4>1, <4>6, <4>8, <4>9, <4>10
    <3>4. RoundKeyOf(sk, r) = aes_mix_columns_dec(given)
      BY <2>6, <3>2, <3>3
    <3> QED
      BY <2>1, <2>2, <2>3, <2>8, <3>4
  <2> QED
    BY <2>7, <2>8
<1> QED
  BY <1>1, <1>4

LEMMA KeyAlways == KeyInit /\ [][KeyNext]_keyVars => [](KeyInv /\ DkInv)
<1>1. KeyInit => KeyInv /\ DkInv
  BY KeyInvInit, DkInvInit
<1>2. (KeyInv /\ DkInv) /\ [KeyNext]_keyVars => (KeyInv /\ DkInv)'
  BY KeyInvStep, DkInvStep
<1> QED
  BY <1>1, <1>2, PTL

(* The key expanded for decryption is that of FIPS 197's equivalent        *)
(* inverse cipher when AES_set_decrypt_key_openssl returns: the round keys *)
(* in reverse order, those in between with the columns that InvMixColumns  *)
(* makes of them, which the loop looks up in Te1 and Td0 to Td3.           *)
THEOREM DecryptionKeys == MCSpec => []DecryptionSchedule
<1>1. MCInit => KeyInit
  BY DEF MCInit, Init
<1>2. [MCNext]_<<vars, sm4vars>> => [KeyNext]_keyVars
  <2>1. Next => [KeyNext]_keyVars
    BY DEF Next, Schedule, Call, Encrypt, EncryptRound, EncryptLast, Decrypt, DecryptRound,
           DecryptLast, Finished, vars
  <2>2. MCNext => [KeyNext]_keyVars
    BY <2>1 DEF MCNext, OnAes, OnSm4, Sm4Finished, vars
  <2> QED
    BY <2>2 DEF vars
<1>3. KeyInv /\ DkInv => DecryptionSchedule
  BY KeyReady DEF DecryptionSchedule
<1> QED
  BY <1>1, <1>2, <1>3, KeyAlways, PTL DEF MCSpec
=============================================================================
