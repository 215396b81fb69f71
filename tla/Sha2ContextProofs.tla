------------------------- MODULE Sha2ContextProofs -------------------------
(***************************************************************************)
(* However a message is cut into pieces, and for every block size, the     *)
(* contexts have hashed its whole blocks and keep the bytes that are left. *)
(***************************************************************************)
EXTENDS Sha2Context, SequenceTheorems, WellFoundedInduction, TLAPS

(* Powers of two and division                                              *)

LEMMA LessRel == OpToRel(<, Nat) = {ss \in Nat \X Nat : ss[1] < ss[2]}
BY DEF OpToRel

LEMMA LessPair ==
  ASSUME NEW x \in Nat, NEW y \in Nat, x < y PROVE <<x, y>> \in OpToRel(<, Nat)
BY LessRel

(* a nonempty set of numbers has a least one                               *)
LEMMA LeastElement ==
  ASSUME NEW T, T \subseteq Nat, T # {}
  PROVE \E x \in T : \A y \in T : x <= y
<1>1. \E x \in T : \A y \in T : ~(<<y, x>> \in OpToRel(<, Nat))
  BY NatLessThanWellFounded, WFMin
<1>2. PICK x \in T : \A y \in T : ~(<<y, x>> \in OpToRel(<, Nat))
  BY <1>1
<1>3. ASSUME NEW y \in T PROVE x <= y
  <2>1. x \in Nat /\ y \in Nat
    OBVIOUS
  <2>2. ~(y < x)
    BY <1>2, <2>1, LessPair
  <2> QED BY <2>1, <2>2
<1> QED BY <1>3

(* induction, for a set that a formula defines                             *)
LEMMA SetInduction ==
  ASSUME NEW S, 0 \in S, \A n \in Nat : n \in S => n + 1 \in S
  PROVE Nat \subseteq S
<1> SUFFICES ASSUME ~(Nat \subseteq S) PROVE FALSE
  OBVIOUS
<1>1. Nat \ S # {}
  OBVIOUS
<1>2. PICK x \in Nat \ S : \A y \in Nat \ S : x <= y
  BY <1>1, LeastElement
<1>3. x # 0 /\ x - 1 \in Nat
  BY <1>2
<1>4. x - 1 \in S
  BY <1>2, <1>3
<1>5. (x - 1) + 1 \in S
  BY <1>3, <1>4
<1> QED BY <1>2, <1>5

(* Pow2 exists, so that its equation holds                                 *)
PowersTo(n, f) == 
  f \in [0..n -> Nat] /\ \A k \in 0..n : f[k] = IF k = 0 THEN 1 ELSE 2 * f[k - 1]

LEMMA PowersUnique ==
  ASSUME NEW n \in Nat, NEW m \in Nat, n <= m, NEW f, NEW g,
         PowersTo(n, f), PowersTo(m, g)
  PROVE \A k \in 0..n : f[k] = g[k]
<1> DEFINE S == {k \in Nat : k <= n => f[k] = g[k]}
<1>1. 0 \in S
  BY DEF PowersTo
<1>2. ASSUME NEW k \in Nat, k \in S PROVE k + 1 \in S
  <2>1. SUFFICES ASSUME k + 1 <= n PROVE f[k + 1] = g[k + 1]
    OBVIOUS
  <2>2. f[k] = g[k] /\ k + 1 \in 0..n /\ k + 1 \in 0..m /\ k + 1 # 0 /\ (k + 1) - 1 = k
    BY <1>2, <2>1
  <2> QED BY <2>2 DEF PowersTo
<1> HIDE DEF S
<1>3. Nat \subseteq S
  BY <1>1, <1>2, SetInduction
<1> QED BY <1>3 DEF S

LEMMA PowersExist == \A n \in Nat : \E f : PowersTo(n, f)
<1> DEFINE S == {n \in Nat : \E f : PowersTo(n, f)}
<1>1. 0 \in S
  <2>1. PowersTo(0, [k \in 0..0 |-> 1])
    BY DEF PowersTo
  <2> QED BY <2>1
<1>2. ASSUME NEW n \in Nat, n \in S PROVE n + 1 \in S
  <2>1. PICK f : PowersTo(n, f)
    BY <1>2
  <2> DEFINE g == [k \in 0..(n + 1) |-> IF k = n + 1 THEN 2 * f[n] ELSE f[k]]
  <2>2. f[n] \in Nat /\ \A k \in 0..n : f[k] \in Nat
    BY <2>1 DEF PowersTo
  <2>3. g \in [0..(n + 1) -> Nat]
    BY <2>2
  <2>4. ASSUME NEW k \in 0..(n + 1) PROVE g[k] = IF k = 0 THEN 1 ELSE 2 * g[k - 1]
    <3>1. CASE k = n + 1
      BY <3>1
    <3>2. CASE k # n + 1
      <4>1. k \in 0..n /\ g[k] = f[k] /\ (k # 0 => k - 1 \in 0..(n + 1) /\ k - 1 # n + 1)
        BY <3>2
      <4>2. k # 0 => g[k - 1] = f[k - 1]
        BY <4>1
      <4> QED BY <4>1, <4>2, <2>1 DEF PowersTo
    <3> QED BY <3>1, <3>2
  <2>5. PowersTo(n + 1, g)
    BY <2>3, <2>4 DEF PowersTo
  <2> QED BY <2>5
<1> HIDE DEF S
<1>3. Nat \subseteq S
  BY <1>1, <1>2, SetInduction
<1> QED BY <1>3 DEF S

LEMMA Pow2Def ==
  \A n \in Nat : Pow2[n] = IF n = 0 THEN 1 ELSE 2 * Pow2[n - 1]
<1> DEFINE F == [n \in Nat |-> CHOOSE f : PowersTo(n, f)]
           p == [n \in Nat |-> F[n][n]]
           Eq(h) == h = [n \in Nat |-> IF n = 0 THEN 1 ELSE 2 * h[n - 1]]
<1>1. \A n \in Nat : PowersTo(n, F[n])
  BY PowersExist
<1> HIDE DEF F
<1>2. \A n \in Nat : p[n] \in Nat
  BY <1>1 DEF PowersTo
<1>3. ASSUME NEW n \in Nat PROVE p[n] = IF n = 0 THEN 1 ELSE 2 * p[n - 1]
  <2>1. CASE n = 0
    BY <1>1, <2>1 DEF PowersTo
  <2>2. CASE n # 0
    <3>1. n - 1 \in Nat /\ n - 1 <= n /\ n - 1 \in 0..(n - 1) /\ n \in 0..n
      BY <2>2
    <3>2. F[n - 1][n - 1] = F[n][n - 1]
      BY <1>1, <3>1, PowersUnique
    <3>3. F[n][n] = 2 * F[n][n - 1]
      BY <1>1, <2>2, <3>1 DEF PowersTo
    <3> QED BY <2>2, <3>1, <3>2, <3>3
  <2> QED BY <2>1, <2>2
<1>4. Eq(p)
  BY <1>3
<1> HIDE DEF p
<1>5. Pow2 = CHOOSE h : Eq(h)
  BY DEF Pow2
<1>6. Eq(Pow2)
  BY <1>4, <1>5
<1>7. Pow2 = [n \in Nat |-> IF n = 0 THEN 1 ELSE 2 * Pow2[n - 1]]
  BY <1>6
<1> HIDE DEF Eq
<1> QED BY <1>7

LEMMA Pow2Step == ASSUME NEW n \in Nat PROVE Pow2[n + 1] = 2 * Pow2[n] /\ Pow2[0] = 1
<1>1. n + 1 \in Nat /\ n + 1 # 0 /\ (n + 1) - 1 = n
  OBVIOUS
<1> QED BY <1>1, Pow2Def

LEMMA Pow2Positive == \A n \in Nat : Pow2[n] \in Nat \ {0}
<1> DEFINE S == {n \in Nat : Pow2[n] \in Nat \ {0}}
<1>1. 0 \in S
  BY Pow2Def
<1>2. ASSUME NEW n \in Nat, n \in S PROVE n + 1 \in S
  BY <1>2, Pow2Step
<1> HIDE DEF S
<1>3. Nat \subseteq S
  BY <1>1, <1>2, SetInduction
<1> QED BY <1>3 DEF S

LEMMA Pow2Sum == ASSUME NEW m \in Nat, NEW n \in Nat PROVE Pow2[m + n] = Pow2[m] * Pow2[n]
<1> DEFINE S == {k \in Nat : Pow2[m + k] = Pow2[m] * Pow2[k]}
<1>1. 0 \in S
  <2>1. m + 0 = m /\ Pow2[m] \in Nat /\ Pow2[0] = 1
    BY Pow2Def, Pow2Positive
  <2> QED BY <2>1
<1>2. ASSUME NEW k \in Nat, k \in S PROVE k + 1 \in S
  <2>1. Pow2[m + k] = Pow2[m] * Pow2[k]
    BY <1>2
  <2>2. m + (k + 1) = (m + k) + 1 /\ m + k \in Nat
    OBVIOUS
  <2>3. Pow2[m + (k + 1)] = 2 * Pow2[m + k] /\ Pow2[k + 1] = 2 * Pow2[k]
    BY <2>2, Pow2Step
  <2>4. Pow2[m] \in Nat /\ Pow2[k] \in Nat
    BY Pow2Positive
  <2>5. 2 * (Pow2[m] * Pow2[k]) = Pow2[m] * (2 * Pow2[k])
    BY <2>4
  <2> QED BY <2>1, <2>3, <2>5
<1> HIDE DEF S
<1>3. Nat \subseteq S
  BY <1>1, <1>2, SetInduction
<1> QED BY <1>3 DEF S

(* q and r are the quotient and the remainder of x by M                    *)
IsDivMod(x, M, q, r) ==
  M \in Nat \ {0} /\ q \in Int /\ r \in 0..(M - 1) /\ x = M * q + r

LEMMA DivModUnique ==
  ASSUME NEW x, NEW M, NEW q, NEW r, IsDivMod(x, M, q, r)
  PROVE x \div M = q /\ x % M = r
<1>0. M \in Nat \ {0} /\ q \in Int /\ r \in 0..(M - 1) /\ x = M * q + r
  BY DEF IsDivMod
<1> DEFINE d == x \div M
           e == x % M
<1>1. x \in Int
  BY <1>0
<1>2. d \in Int /\ e \in 0..(M - 1) /\ x = M * d + e
  BY <1>0, <1>1
<1> HIDE DEF d, e
<1>3. M * d + e = M * q + r
  BY <1>0, <1>2
<1>4. ~(d >= q + 1)
  <2>1. SUFFICES ASSUME d >= q + 1 PROVE FALSE
    OBVIOUS
  <2>2. M * d >= M * (q + 1)
    BY <1>0, <1>2, <2>1
  <2>3. M * (q + 1) = M * q + M
    BY <1>0
  <2> QED BY <1>0, <1>2, <1>3, <2>2, <2>3
<1>5. ~(q >= d + 1)
  <2>1. SUFFICES ASSUME q >= d + 1 PROVE FALSE
    OBVIOUS
  <2>2. M * q >= M * (d + 1)
    BY <1>0, <1>2, <2>1
  <2>3. M * (d + 1) = M * d + M
    BY <1>0, <1>2
  <2> QED BY <1>0, <1>2, <1>3, <2>2, <2>3
<1>6. d = q
  BY <1>0, <1>2, <1>4, <1>5
<1>7. e = r
  BY <1>0, <1>2, <1>3, <1>6
<1> QED BY <1>6, <1>7 DEF d, e

(* the words that Count leaves                                             *)
LowWord(P, l, x) == (l + x) % P
HighWord(P, h, l, x) == (h + (IF LowWord(P, l, x) < l THEN 1 ELSE 0) + x \div P) % P

(* h and l count y                                                         *)
TwoWords(P, h, l, y) ==
  /\ P \in Nat \ {0} /\ h \in 0..(P - 1) /\ l \in 0..(P - 1) /\ y \in Nat
  /\ h * P + l = y % (P * P)

(* what Count leaves: two words that count modulo the square of their size *)
LEMMA CountTwoWords ==
  ASSUME NEW P, NEW h, NEW l, NEW y, TwoWords(P, h, l, y), NEW x \in Nat
  PROVE TwoWords(P, HighWord(P, h, l, x), LowWord(P, l, x), y + x)
<1> DEFINE a == x \div P
           r == x % P
           m == (l + x) % P
           c == IF m < l THEN 1 ELSE 0
           z == h + c + a
           k == z % P
           t == z \div P
           u == y \div (P * P)
<1>0. P \in Nat \ {0} /\ h \in 0..(P - 1) /\ l \in 0..(P - 1) /\ y \in Nat
  BY DEF TwoWords
<1>1. a \in Nat /\ r \in 0..(P - 1) /\ x = P * a + r
  BY <1>0
<1> HIDE DEF a, r
<1>2. m \in 0..(P - 1) /\ l + r = m + c * P
  <2>0. l + r \in Nat /\ l + r < P + P
    BY <1>0, <1>1
  <2>1. CASE l + r < P
    <3>1. IsDivMod(l + x, P, a, l + r)
      BY <1>0, <1>1, <2>1 DEF IsDivMod
    <3>2. m = l + r
      BY <3>1, DivModUnique
    <3>3. c = 0
      BY <1>0, <1>1, <3>2
    <3> QED BY <1>0, <1>1, <2>0, <2>1, <3>2, <3>3
  <2>2. CASE l + r >= P
    <3>1. IsDivMod(l + x, P, a + 1, l + r - P)
      <4>1. l + x = P * (a + 1) + (l + r - P)
        BY <1>0, <1>1
      <4> QED BY <1>0, <1>1, <2>0, <2>2, <4>1 DEF IsDivMod
    <3>2. m = l + r - P
      BY <3>1, DivModUnique
    <3>3. c = 1
      BY <1>0, <1>1, <3>2
    <3> QED BY <1>0, <1>1, <2>0, <2>2, <3>2, <3>3
  <2> QED BY <2>0, <2>1, <2>2, <1>0
<1>3. c \in {0, 1}
  OBVIOUS
<1> HIDE DEF m, c
<1>4. z \in Nat /\ k \in 0..(P - 1) /\ t \in Nat /\ z = P * t + k
  BY <1>0, <1>1, <1>3
<1>5. P * P \in Nat \ {0}
  BY <1>0
<1>6. u \in Nat /\ y = (P * P) * u + (h * P + l)
  <2>1. u \in Nat /\ y = (P * P) * u + (y % (P * P))
    BY <1>0, <1>5
  <2> QED BY <2>1 DEF TwoWords
<1> HIDE DEF z, k, t, u
<1>7. y + x = (P * P) * (u + t) + (k * P + m)
  <2>1. y + x = (P * P) * u + (h * P + l + P * a + r)
    BY <1>0, <1>1, <1>6
  <2>2. h * P + l + P * a + r = z * P + m
    <3>1. z * P = h * P + c * P + a * P
      BY <1>0, <1>1, <1>3 DEF z
    <3> QED BY <1>0, <1>1, <1>2, <1>3, <3>1
  <2>3. z * P = (P * P) * t + k * P
    BY <1>0, <1>4
  <2>4. (P * P) * (u + t) = (P * P) * u + (P * P) * t
    BY <1>4, <1>5, <1>6
  <2>5. z * P \in Nat /\ k * P \in Nat /\ (P * P) * u \in Nat /\ (P * P) * t \in Nat
    BY <1>0, <1>4, <1>5, <1>6
  <2> QED BY <1>0, <1>2, <2>1, <2>2, <2>3, <2>4, <2>5
<1>8. k * P + m \in 0..(P * P - 1)
  <2>1. k * P <= (P - 1) * P /\ (P - 1) * P = P * P - P
    BY <1>0, <1>4
  <2> QED BY <1>0, <1>2, <1>4, <1>5, <2>1
<1>9. (y + x) % (P * P) = k * P + m
  <2>1. u + t \in Nat /\ y + x \in Nat
    BY <1>0, <1>4, <1>6
  <2>2. IsDivMod(y + x, P * P, u + t, k * P + m)
    BY <1>5, <1>7, <1>8, <2>1 DEF IsDivMod
  <2> QED BY <2>2, DivModUnique
<1>10. LowWord(P, l, x) = m /\ HighWord(P, h, l, x) = k
  BY DEF LowWord, HighWord, a, m, c, z, k
<1>11. y + x \in Nat
  BY <1>0
<1> QED BY <1>0, <1>2, <1>4, <1>9, <1>10, <1>11 DEF TwoWords

------------------------------------------------------------------------------

DataBytes == {D!DataByte(i) : i \in Nat}

LengthInv == num \in Nat /\ length \in Nat /\ impl \in {"sha256", "sha512"}

IInv == LengthInv /\ BytesAccounted /\ PartialBlockKept /\ UnusedZeroed

LEMMA DivMod ==
  ASSUME NEW n \in Nat
  PROVE /\ n \div B \in Nat /\ n % B \in 0..(B - 1)
        /\ n = B * (n \div B) + (n % B)
BY BlockAssumption

LEMMA DataFacts ==
  ASSUME NEW from \in Nat, NEW n \in Nat
  PROVE /\ Data(from, n) \in Seq(DataBytes) /\ Len(Data(from, n)) = n
        /\ \A i \in 1..n : Data(from, n)[i] = D!DataByte(from + i)
<1>1. \A i \in 1..n : D!DataByte(from + i) \in DataBytes
  BY DEF DataBytes
<1>2. Data(from, n) \in [1..n -> DataBytes]
  BY <1>1 DEF Data
<1> QED BY <1>2 DEF Data

LEMMA WholeFacts ==
  ASSUME NEW from \in Nat, NEW n \in Nat
  PROVE /\ Whole(from, n) \in Seq(Seq(DataBytes)) /\ Len(Whole(from, n)) = n
        /\ \A k \in 1..n : Whole(from, n)[k] = Data(from + (k - 1) * B, B)
<1>1. \A k \in 1..n : Data(from + (k - 1) * B, B) \in Seq(DataBytes)
  <2>1. ASSUME NEW k \in 1..n PROVE Data(from + (k - 1) * B, B) \in Seq(DataBytes)
    <3>1. from + (k - 1) * B \in Nat /\ B \in Nat
      BY BlockAssumption
    <3> QED BY <3>1, DataFacts
  <2> QED BY <2>1
<1>2. Whole(from, n) \in [1..n -> Seq(DataBytes)]
  BY <1>1 DEF Whole
<1> QED BY <1>2 DEF Whole

(* whole blocks followed by the whole blocks after them                    *)
LEMMA WholeConcat ==
  ASSUME NEW q \in Nat, NEW n \in Nat
  PROVE Whole(0, q) \o Whole(q * B, n) = Whole(0, q + n)
<1> DEFINE s == Whole(0, q)
           u == Whole(q * B, n)
           r == Whole(0, q + n)
<1>0. B \in Nat /\ q * B \in Nat /\ q + n \in Nat
  BY BlockAssumption
<1>1. /\ s \in Seq(Seq(DataBytes)) /\ Len(s) = q
      /\ u \in Seq(Seq(DataBytes)) /\ Len(u) = n
      /\ r \in Seq(Seq(DataBytes)) /\ Len(r) = q + n
  BY <1>0, WholeFacts
<1> HIDE DEF s, u, r
<1>2. ASSUME NEW k \in 1..(q + n) PROVE (s \o u)[k] = r[k]
  <2>0. (s \o u)[k] = IF k <= q THEN s[k] ELSE u[k - q]
    BY <1>1, ConcatProperties
  <2>1. r[k] = Data((k - 1) * B, B)
    BY <1>0, WholeFacts DEF r
  <2>2. CASE k <= q
    <3>1. s[k] = Data((k - 1) * B, B)
      BY <1>0, <2>2, WholeFacts DEF s
    <3> QED BY <2>0, <2>1, <2>2, <3>1
  <2>3. CASE k > q
    <3>1. k - q \in 1..n /\ (s \o u)[k] = u[k - q]
      BY <2>0, <2>3
    <3>2. u[k - q] = Data(q * B + (k - q - 1) * B, B)
      BY <1>0, <3>1, WholeFacts DEF u
    <3>3. q * B + (k - q - 1) * B = (k - 1) * B
      BY <1>0
    <3>4. Data(q * B + (k - q - 1) * B, B) = Data((k - 1) * B, B)
      BY <3>3
    <3> QED BY <2>1, <3>1, <3>2, <3>4
  <2>4. k <= q \/ k > q
    OBVIOUS
  <2> QED BY <2>2, <2>3, <2>4
<1>3. s \o u \in Seq(Seq(DataBytes)) /\ Len(s \o u) = q + n
  BY <1>1, ConcatProperties
<1>4. s \o u = r
  BY <1>1, <1>2, <1>3, SeqEqual
<1> QED BY <1>4 DEF s, u, r

LEMMA OneWhole == ASSUME NEW from \in Nat PROVE <<Data(from, B)>> = Whole(from, 1)
<1>1. from + (1 - 1) * B = from
  BY BlockAssumption
<1>2. Whole(from, 1) = [k \in 1..1 |-> Data(from, B)]
  <2>1. \A k \in 1..1 : from + (k - 1) * B = from
    BY <1>1
  <2> QED BY <2>1 DEF Whole
<1> QED BY <1>2

(* what a memcpy of message bytes leaves in a buffer                       *)
LEMMA OverlayFacts ==
  ASSUME NEW n \in Nat, NEW from \in Nat, NEW k \in Nat, NEW i \in 1..B
  PROVE \A buf : Overlay(buf, n, Data(from, k))[i] =
          IF i - n \in 1..k THEN D!DataByte(from + i - n) ELSE buf[i]
<1>1. Len(Data(from, k)) = k /\ \A j \in 1..k : Data(from, k)[j] = D!DataByte(from + j)
  BY DataFacts
<1>2. i - n \in 1..k => Data(from, k)[i - n] = D!DataByte(from + i - n)
  <2>1. from + (i - n) = from + i - n
    BY BlockAssumption
  <2> QED BY <1>1, <2>1
<1> QED BY <1>1, <1>2 DEF Overlay

LEMMA ZerosFact == \A i \in 1..B : D!Zeros(B)[i] = D!Value(0)
BY DEF D!Zeros

LEMMA InitIInv == ASSUME Init PROVE IInv
BY DEF Init, IInv, LengthInv, BytesAccounted, PartialBlockKept, UnusedZeroed

LEMMA ShaInitIInv == ASSUME IInv, ShaInit PROVE IInv'
<1>1. Whole(0, 0) = << >> /\ Len(<< >>) = 0
  BY DEF Whole
<1>2. LengthInv' /\ BytesAccounted'
  BY <1>1, BlockAssumption DEF ShaInit, IInv, LengthInv, BytesAccounted
<1>3. PartialBlockKept' /\ UnusedZeroed'
  BY ZerosFact DEF ShaInit, PartialBlockKept, UnusedZeroed
<1> QED BY <1>2, <1>3 DEF IInv

LEMMA KeepIInv ==
  ASSUME IInv, NEW n \in Nat, n > 0, open, FitsWithRoom(n), Keep(n),
         length' = length + n, UNCHANGED <<impl, open>>
  PROVE IInv'
<1> DEFINE q == Len(blocks)
<1>1. /\ num \in Nat /\ length \in Nat /\ num + n < B /\ B \in Nat
      /\ length = B * q + num /\ blocks = Whole(0, q)
  BY BlockAssumption DEF IInv, LengthInv, BytesAccounted, FitsWithRoom
<1>2. num' = num + n /\ blocks' = blocks /\ data' = Overlay(data, num, Data(length, n))
  BY DEF Keep
<1>3. q \in Nat
  BY <1>1 DEF BytesAccounted, IInv, Whole
<1>4. LengthInv' /\ BytesAccounted'
  BY <1>1, <1>2, <1>3 DEF IInv, LengthInv, BytesAccounted
<1>5. \A i \in 1..B : data'[i] =
        IF i - num \in 1..n THEN D!DataByte(length + i - num) ELSE data[i]
  BY <1>1, <1>2, OverlayFacts
<1>6. PartialBlockKept'
  <2>1. ASSUME NEW i \in 1..(num + n) PROVE data'[i] = D!DataByte(B * q + i)
    <3>1. i \in 1..B /\ i \in Nat
      BY <1>1
    <3>2. CASE i <= num
      BY <1>1, <1>5, <3>1, <3>2 DEF IInv, PartialBlockKept
    <3>3. CASE i > num
      <4>1. i - num \in 1..n /\ length + i - num = B * q + i
        BY <1>1, <1>3, <3>1, <3>3
      <4> QED BY <1>5, <3>1, <4>1
    <3> QED BY <3>1, <3>2, <3>3, <1>1
  <2> QED BY <1>2, <2>1 DEF PartialBlockKept
<1>7. UnusedZeroed'
  BY <1>1, <1>2, <1>5 DEF IInv, UnusedZeroed
<1> QED BY <1>4, <1>6, <1>7 DEF IInv

LEMMA ConsumeIInv ==
  ASSUME IInv, NEW n \in Nat, NEW aligned \in BOOLEAN, n > 0, open,
         ~FitsWithRoom(n), Consume(n, aligned),
         length' = length + n, UNCHANGED <<impl, open>>
  PROVE IInv'
<1> DEFINE q == Len(blocks)
           head == IF num = 0 THEN 0 ELSE B - num
           full == IF num = 0 THEN << >>
                   ELSE <<Overlay(data, num, Data(length, head))>>
           whole == (n - head) \div B
           tail == (n - head) % B
           copied == IF impl = "sha512" /\ ~aligned /\ whole > 0
                       THEN Data(length + head + (whole - 1) * B, B)
                     ELSE IF impl = "sha512" /\ num # 0 THEN full[1]
                     ELSE Emptied
           one == IF num = 0 THEN 0 ELSE 1
<1>1. /\ num \in 0..(B - 1) /\ length \in Nat /\ B \in Nat /\ B > 0
      /\ length = B * q + num /\ blocks = Whole(0, q)
  BY BlockAssumption DEF IInv, LengthInv, BytesAccounted
<1>2. q \in Nat
  BY <1>1 DEF Whole
<1>3. head \in Nat /\ n - head \in Nat /\ one \in Nat
  BY <1>1 DEF FitsWithRoom
<1>4. /\ whole \in Nat /\ tail \in 0..(B - 1) /\ n - head = B * whole + tail
  BY <1>3, DivMod
<1>5. /\ blocks' = blocks \o full \o Whole(length + head, whole) /\ num' = tail
      /\ data' = Overlay(copied, 0, Data(length + head + whole * B, tail))
  BY DEF Consume
<1>6. length + head = (q + one) * B
  BY <1>1, <1>2, <1>3
<1>7. full = IF num = 0 THEN << >> ELSE <<Data(q * B, B)>>
  <2>1. CASE num = 0
    BY <2>1
  <2>2. CASE num # 0
    <3>0. \A h \in Nat : \A i \in 1..B : Overlay(data, num, Data(length, h))[i] =
            IF i - num \in 1..h THEN D!DataByte(length + i - num) ELSE data[i]
      BY <1>1, OverlayFacts
    <3>1. \A i \in 1..B : Overlay(data, num, Data(length, head))[i] =
            IF i - num \in 1..head THEN D!DataByte(length + i - num) ELSE data[i]
      BY <1>3, <3>0
    <3>2. \A i \in 1..B : (IF i - num \in 1..head THEN D!DataByte(length + i - num)
                           ELSE data[i]) = D!DataByte(q * B + i)
      <4>1. ASSUME NEW i \in 1..B
            PROVE (IF i - num \in 1..head THEN D!DataByte(length + i - num)
                   ELSE data[i]) = D!DataByte(q * B + i)
        <5>1. CASE i <= num
          <6>1. i \in 1..num /\ ~(i - num \in 1..head) /\ q * B = B * q
            BY <1>1, <1>2, <5>1
          <6>2. data[i] = D!DataByte(B * q + i)
            BY <6>1 DEF IInv, PartialBlockKept
          <6> QED BY <6>1, <6>2
        <5>2. CASE i > num
          <6>1. i - num \in 1..head /\ length + i - num = q * B + i
            BY <1>1, <1>2, <2>2, <5>2
          <6> QED BY <6>1
        <5> QED BY <1>1, <5>1, <5>2
      <4> QED BY <4>1
    <3>3. \A i \in 1..B : Overlay(data, num, Data(length, head))[i] = D!DataByte(q * B + i)
      BY <3>1, <3>2
    <3>4. Overlay(data, num, Data(length, head)) = [i \in 1..B |-> D!DataByte(q * B + i)]
      BY <3>3 DEF Overlay
    <3>5. Overlay(data, num, Data(length, head)) = Data(q * B, B)
      BY <3>4 DEF Data
    <3> QED BY <2>2, <3>5
  <2> QED BY <2>1, <2>2
<1>8. blocks \o full = Whole(0, q + one)
  <2>1. CASE num = 0
    <3>1. Whole(0, q) \in Seq(Seq(DataBytes)) /\ q + one = q
      BY <1>2, <2>1, WholeFacts
    <3> QED BY <1>1, <1>7, <2>1, <3>1
  <2>2. CASE num # 0
    <3>1. q * B \in Nat /\ full = Whole(q * B, 1) /\ q + one = q + 1
      BY <1>1, <1>2, <1>7, <2>2, OneWhole
    <3>2. Whole(0, q) \o Whole(q * B, 1) = Whole(0, q + 1)
      BY <1>2, WholeConcat
    <3> QED BY <1>1, <3>1, <3>2
  <2> QED BY <2>1, <2>2
<1> HIDE DEF q, full, whole, tail, copied, one, head
<1>9. blocks' = Whole(0, q + one + whole)
  <2>1. q + one \in Nat
    BY <1>2, <1>3
  <2>2. Whole(0, q + one) \o Whole((q + one) * B, whole) = Whole(0, q + one + whole)
    BY <2>1, <1>4, WholeConcat
  <2> QED BY <1>5, <1>6, <1>8, <2>2
<1>10. Len(blocks') = q + one + whole
  BY <1>2, <1>3, <1>4, <1>9, WholeFacts
<1>11. length' = B * (q + one + whole) + tail
  <2>1. length' = (length + head) + (n - head)
    BY <1>1, <1>3
  <2>2. B * (q + one + whole) = (q + one) * B + B * whole
    BY <1>1, <1>2, <1>3, <1>4
  <2> QED BY <1>1, <1>2, <1>3, <1>4, <1>6, <2>1, <2>2
<1>12. LengthInv' /\ BytesAccounted'
  <2>1. num' \in 0..(B - 1) /\ num' \in Nat
    BY <1>1, <1>4, <1>5
  <2>2. length' \in Nat
    BY <1>1
  <2>3. length' = B * Len(blocks') + num'
    BY <1>5, <1>10, <1>11
  <2>4. blocks' = Whole(0, Len(blocks'))
    BY <1>9, <1>10
  <2> QED BY <2>1, <2>2, <2>3, <2>4 DEF IInv, LengthInv, BytesAccounted
<1>13. \A i \in 1..B : data'[i] =
         IF i \in 1..tail THEN D!DataByte(length + head + whole * B + i) ELSE copied[i]
  <2>1. length + head + whole * B \in Nat /\ tail \in Nat
    BY <1>1, <1>3, <1>4
  <2>2. \A i \in 1..B : i - 0 = i
    OBVIOUS
  <2>3. \A i \in 1..B : length + head + whole * B + i - 0 = length + head + whole * B + i
    BY <2>1
  <2> QED BY <1>5, <2>1, <2>2, <2>3, OverlayFacts
<1>14. PartialBlockKept'
  <2>1. length + head + whole * B = B * (q + one + whole)
    BY <1>1, <1>2, <1>3, <1>4, <1>6
  <2>2. \A i \in 1..tail : i \in 1..B
    BY <1>1, <1>4
  <2> QED BY <1>5, <1>10, <1>13, <2>1, <2>2 DEF PartialBlockKept
<1>15. UnusedZeroed'
  <2>1. ASSUME impl = "sha256", NEW i \in (tail + 1)..B PROVE data'[i] = D!Value(0)
    <3>1. i \in 1..B /\ ~(i \in 1..tail)
      BY <1>1, <1>4
    <3>2. copied = Emptied
      BY <2>1 DEF copied
    <3>3. Emptied[i] = D!Value(0)
      BY <2>1, <3>1, <1>1, ZerosFact DEF Emptied, IInv, UnusedZeroed
    <3> QED BY <1>13, <3>1, <3>2, <3>3
  <2> QED BY <1>5, <2>1 DEF UnusedZeroed
<1> QED BY <1>12, <1>14, <1>15 DEF IInv

LEMMA NextIInv == ASSUME IInv, [Next]_vars PROVE IInv'
<1>1. CASE ShaInit
  BY <1>1, ShaInitIInv
<1>2. ASSUME NEW n \in 0..MaxLen, NEW aligned \in BOOLEAN, Update(n, aligned) PROVE IInv'
  <2>1. n \in Nat
    BY BlockAssumption
  <2>2. CASE n = 0
    BY <1>2, <2>2 DEF Update, IInv, LengthInv, BytesAccounted, PartialBlockKept,
                      UnusedZeroed
  <2>3. CASE n > 0 /\ FitsWithRoom(n)
    BY <1>2, <2>1, <2>3, KeepIInv DEF Update
  <2>4. CASE n > 0 /\ ~FitsWithRoom(n)
    BY <1>2, <2>1, <2>4, ConsumeIInv DEF Update
  <2> QED BY <2>1, <2>2, <2>3, <2>4
<1>3. CASE Final
  <2>1. ~open' /\ length' = length /\ impl' = impl /\ (num' = 0 \/ num' = num)
    BY <1>3 DEF Final
  <2> QED BY <2>1 DEF IInv, LengthInv, BytesAccounted, PartialBlockKept, UnusedZeroed
<1>4. ASSUME NEW n \in 0..MaxLen, NEW vec \in BOOLEAN, Hash(n, vec) PROVE IInv'
  <2>1. ~open' /\ length' = n /\ impl' = impl /\ num' = num /\ n \in Nat
    BY <1>4, BlockAssumption DEF Hash
  <2> QED BY <2>1 DEF IInv, LengthInv, BytesAccounted, PartialBlockKept, UnusedZeroed
<1>5. CASE UNCHANGED vars
  BY <1>5 DEF vars, IInv, LengthInv, BytesAccounted, PartialBlockKept, UnusedZeroed
<1> QED BY <1>1, <1>2, <1>3, <1>4, <1>5 DEF Next

LEMMA SpecIInv == Spec => []IInv
<1>1. Init => IInv
  BY InitIInv
<1>2. IInv /\ [Next]_vars => IInv'
  BY NextIInv
<1> QED BY <1>1, <1>2, PTL DEF Spec

(* crypto_md32_update and SHA512_Update pass each whole block on once and  *)
(* in order, and num counts the rest.                                      *)
THEOREM UpdatesAccount == Spec => []BytesAccounted
<1>1. IInv => BytesAccounted
  BY DEF IInv
<1> QED BY <1>1, SpecIInv, PTL

(* The buffer always holds the bytes that are left.                        *)
THEOREM UpdatesKeep == Spec => []PartialBlockKept
<1>1. IInv => PartialBlockKept
  BY DEF IInv
<1> QED BY <1>1, SpecIInv, PTL

(* SHA-256 keeps the rest of its buffer zero.                              *)
THEOREM UpdatesClear == Spec => []UnusedZeroed
<1>1. IInv => UnusedZeroed
  BY DEF IInv
<1> QED BY <1>1, SpecIInv, PTL

------------------------------------------------------------------------------
(* The length                                                              *)

(* the two words stay words, and count the length while the context is     *)
(* open; so long its order is the array's and it has no digest             *)
CountInv ==
  /\ Nh \in 0..(Pow2[WordBits] - 1) /\ Nl \in 0..(Pow2[WordBits] - 1)
  /\ length \in 0..MaxLen
  /\ open => order = Ordered /\ result = << >>
  /\ LengthCounted

LEMMA WordBitsFacts ==
  /\ WordBits \in Nat /\ L \div 2 \in Nat /\ L = L \div 2 + L \div 2
  /\ WordBits = (L \div 2) * ByteBits
  /\ Pow2[WordBits] \in Nat \ {0}
  /\ Pow2[2 * WordBits] = Pow2[WordBits] * Pow2[WordBits]
<1>1. L \in Nat /\ ByteBits \in Nat /\ L % 2 = 0
  BY BlockAssumption
<1>2. L \div 2 \in Nat /\ L = 2 * (L \div 2) + (L % 2)
  BY <1>1
<1>3. WordBits \in Nat
  BY <1>1, <1>2 DEF WordBits
<1>4. 2 * WordBits = WordBits + WordBits
  BY <1>3
<1>5. Pow2[WordBits + WordBits] = Pow2[WordBits] * Pow2[WordBits]
  BY <1>3, Pow2Sum
<1>6. Pow2[WordBits] \in Nat \ {0}
  BY <1>3, Pow2Positive
<1>7. L = L \div 2 + L \div 2
  BY <1>1, <1>2
<1> QED BY <1>2, <1>3, <1>4, <1>5, <1>6, <1>7 DEF WordBits

LEMMA CountKeeps ==
  ASSUME CountInv, open, NEW n \in Nat, Count(n), length' = length + n
  PROVE /\ Nh' \in 0..(Pow2[WordBits] - 1) /\ Nl' \in 0..(Pow2[WordBits] - 1)
        /\ LengthCounted'
<1> DEFINE P == Pow2[WordBits]
           y == length * ByteBits
           x == n * ByteBits
<1>1. P \in Nat \ {0} /\ Pow2[2 * WordBits] = P * P
  BY WordBitsFacts
<1>2. ByteBits \in Nat /\ length \in Nat
  BY BlockAssumption DEF CountInv
<1>3. y \in Nat /\ x \in Nat /\ y + x = (length + n) * ByteBits
  BY <1>2
<1>4. TwoWords(P, Nh, Nl, y)
  BY <1>1, <1>3 DEF CountInv, LengthCounted, TwoWords
<1>5. Nl' = LowWord(P, Nl, x) /\ Nh' = HighWord(P, Nh, Nl, x)
  BY DEF Count, LowWord, HighWord
<1> HIDE DEF P, x, y
<1>6. TwoWords(P, Nh', Nl', y + x)
  BY <1>3, <1>4, <1>5, CountTwoWords
<1>7. Nh' * P + Nl' = (length' * ByteBits) % (P * P)
  BY <1>3, <1>6 DEF TwoWords
<1>8. Nh' \in 0..(P - 1) /\ Nl' \in 0..(P - 1)
  BY <1>6 DEF TwoWords
<1> QED BY <1>1, <1>7, <1>8 DEF P, LengthCounted, WordBits

LEMMA InitCountInv == ASSUME Init PROVE CountInv
BY WordBitsFacts, BlockAssumption DEF Init, CountInv, LengthCounted

LEMMA NextCountInv == ASSUME CountInv, [Next]_vars PROVE CountInv'
<1>0. Pow2[WordBits] \in Nat \ {0} /\ MaxLen \in Nat
  BY WordBitsFacts, BlockAssumption
<1>1. CASE ShaInit
  <2>1. (length * ByteBits)' = 0 /\ (Nh * Pow2[WordBits] + Nl)' = 0
    BY <1>0, <1>1, BlockAssumption DEF ShaInit, WordBits
  <2>2. 0 % Pow2[2 * WordBits] = 0
    <3>1. Pow2[2 * WordBits] \in Nat \ {0}
      BY WordBitsFacts, Pow2Positive
    <3>2. 0 = Pow2[2 * WordBits] * 0 + 0 /\ 0 \in 0..(Pow2[2 * WordBits] - 1)
      BY <3>1
    <3>3. IsDivMod(0, Pow2[2 * WordBits], 0, 0)
      BY <3>1, <3>2 DEF IsDivMod
    <3> QED BY <3>3, DivModUnique
  <2>3. LengthCounted'
    BY <2>1, <2>2 DEF LengthCounted, WordBits
  <2> QED BY <1>0, <1>1, <2>3 DEF ShaInit, CountInv, WordBits
<1>2. ASSUME NEW n \in 0..MaxLen, NEW aligned \in BOOLEAN, Update(n, aligned)
      PROVE CountInv'
  <2>1. n \in Nat /\ open /\ length' = length + n /\ length' \in 0..MaxLen
        /\ UNCHANGED <<order, open, result>>
    BY <1>0, <1>2 DEF Update, CountInv
  <2>2. CASE n = 0
    <3>1. length' = length /\ UNCHANGED <<Nh, Nl>>
      BY <1>2, <2>1, <2>2 DEF Update, CountInv
    <3> QED BY <2>1, <3>1 DEF CountInv, LengthCounted, WordBits
  <2>3. CASE n # 0
    <3>1. Count(n)
      BY <1>2, <2>3 DEF Update
    <3>2. /\ Nh' \in 0..(Pow2[WordBits] - 1) /\ Nl' \in 0..(Pow2[WordBits] - 1)
          /\ LengthCounted'
      BY <2>1, <3>1, CountKeeps
    <3> QED BY <2>1, <3>2 DEF CountInv, WordBits
  <2> QED BY <2>2, <2>3
<1>3. CASE Final
  BY <1>3 DEF Final, CountInv, LengthCounted, WordBits
<1>4. ASSUME NEW n \in 0..MaxLen, NEW vec \in BOOLEAN, Hash(n, vec) PROVE CountInv'
  BY <1>4 DEF Hash, CountInv, LengthCounted, WordBits
<1>5. CASE UNCHANGED vars
  BY <1>5 DEF vars, CountInv, LengthCounted, WordBits
<1> QED BY <1>1, <1>2, <1>3, <1>4, <1>5 DEF Next

LEMMA SpecCountInv == Spec => []CountInv
<1>1. Init => CountInv
  BY InitCountInv
<1>2. CountInv /\ [Next]_vars => CountInv'
  BY NextCountInv
<1> QED BY <1>1, <1>2, PTL DEF Spec

(* The two words of the length count its bits through every carry, modulo  *)
(* the square of what one word holds.                                      *)
THEOREM UpdatesCount == Spec => []LengthCounted
<1>1. CountInv => LengthCounted
  BY DEF CountInv
<1> QED BY <1>1, SpecCountInv, PTL

------------------------------------------------------------------------------
(* The padded message                                                      *)

AnyByte == DataBytes \cup {D!Value(v) : v \in Int}
AnyBlock == [1..B -> AnyByte]

ZerosFor(n) == (B - L - n - 1) % B
Length(n) == D!BigEndian(n * ByteBits, L)

(* byte j of the padded message, and its block k                           *)
PadByte(n, j) ==
  IF j <= n THEN D!DataByte(j)
  ELSE IF j = n + 1 THEN One
  ELSE IF j <= n + 1 + ZerosFor(n) THEN D!Value(0)
  ELSE Length(n)[j - (n + 1 + ZerosFor(n))]
PadBlock(n, k) == [i \in 1..B |-> PadByte(n, (k - 1) * B + i)]

(* n bytes are q blocks and m bytes more                                   *)
Split(n, q, m) == n \in Nat /\ q \in Nat /\ m \in 0..(B - 1) /\ n = B * q + m

(* blocks that the rest of m bytes and the padding fill                    *)
TailCount(m) == IF Spills(m + 1) THEN 2 ELSE 1

LEMMA ZerosFill ==
  ASSUME NEW n, NEW q, NEW m, Split(n, q, m)
  PROVE /\ ZerosFor(n) = B * TailCount(m) - L - m - 1
        /\ ZerosFor(n) \in Nat
<1>1. n \in Nat /\ q \in Nat /\ m \in 0..(B - 1) /\ n = B * q + m
  BY DEF Split
<1>2. B \in Nat \ {0} /\ L \in Nat /\ L > 0 /\ L < B
  BY BlockAssumption
<1>3. CASE Spills(m + 1)
  <2>1. m + 1 > B - L /\ TailCount(m) = 2
    BY <1>3 DEF Spills, TailCount
  <2>2. B - L - n - 1 = B * (-1 - q) + (2 * B - L - m - 1)
    BY <1>1, <1>2
  <2>3. 2 * B - L - m - 1 \in 0..(B - 1) /\ -1 - q \in Int
    BY <1>1, <1>2, <2>1
  <2>4. IsDivMod(B - L - n - 1, B, -1 - q, 2 * B - L - m - 1)
    BY <1>2, <2>2, <2>3 DEF IsDivMod
  <2>5. ZerosFor(n) = 2 * B - L - m - 1
    BY <2>4, DivModUnique DEF ZerosFor
  <2> QED BY <1>1, <1>2, <2>1, <2>3, <2>5
<1>4. CASE ~Spills(m + 1)
  <2>1. m + 1 <= B - L /\ TailCount(m) = 1
    BY <1>1, <1>2, <1>4 DEF Spills, TailCount
  <2>2. B - L - n - 1 = B * (0 - q) + (B - L - m - 1)
    BY <1>1, <1>2
  <2>3. B - L - m - 1 \in 0..(B - 1) /\ 0 - q \in Int
    BY <1>1, <1>2, <2>1
  <2>4. IsDivMod(B - L - n - 1, B, 0 - q, B - L - m - 1)
    BY <1>2, <2>2, <2>3 DEF IsDivMod
  <2>5. ZerosFor(n) = B - L - m - 1
    BY <2>4, DivModUnique DEF ZerosFor
  <2> QED BY <1>1, <1>2, <2>1, <2>3, <2>5
<1> QED BY <1>3, <1>4

(* a byte of a number, the n-th most significant                           *)
LEMMA ByteInt ==
  ASSUME NEW v \in Nat, NEW e \in Nat
  PROVE /\ v \div Pow2[e] \in Nat
        /\ (v \div Pow2[e]) % Pow2[ByteBits] \in Nat
<1>1. Pow2[e] \in Nat \ {0} /\ Pow2[ByteBits] \in Nat \ {0}
  BY BlockAssumption, Pow2Positive
<1>2. v \div Pow2[e] \in Nat
  BY <1>1
<1> QED BY <1>1, <1>2

LEMMA BigEndianFacts ==
  ASSUME NEW v \in Nat, NEW n \in Nat
  PROVE /\ D!BigEndian(v, n) \in Seq(AnyByte) /\ Len(D!BigEndian(v, n)) = n
        /\ \A i \in 1..n : D!BigEndian(v, n)[i] =
             D!Value((v \div Pow2[ByteBits * (n - i)]) % Pow2[ByteBits])
<1>1. ASSUME NEW i \in 1..n
      PROVE D!Value((v \div Pow2[ByteBits * (n - i)]) % Pow2[ByteBits]) \in AnyByte
  <2>1. PICK e \in Nat : e = ByteBits * (n - i)
    BY BlockAssumption
  <2>2. (v \div Pow2[e]) % Pow2[ByteBits] \in Int
    BY ByteInt
  <2> QED BY <2>1, <2>2 DEF AnyByte
<1>2. D!BigEndian(v, n) =
        [i \in 1..n |-> D!Value((v \div Pow2[ByteBits * (n - i)]) % Pow2[ByteBits])]
  BY DEF D!BigEndian, D!Pow2, Pow2
<1>3. D!BigEndian(v, n) \in [1..n -> AnyByte]
  BY <1>1, <1>2
<1> QED BY <1>2, <1>3

LEMMA PadParts ==
  ASSUME NEW n \in Nat
  PROVE /\ D!Feed(0, n) \in Seq(AnyByte) /\ Len(D!Feed(0, n)) = n
        /\ \A i \in 1..n : D!Feed(0, n)[i] = D!DataByte(i)
        /\ D!Zeros(n) \in Seq(AnyByte) /\ Len(D!Zeros(n)) = n
        /\ \A i \in 1..n : D!Zeros(n)[i] = D!Value(0)
        /\ <<One>> \in Seq(AnyByte) /\ Len(<<One>>) = 1 /\ <<One>>[1] = One
        /\ D!Value(0) \in AnyByte
<1>1. \A i \in 1..n : 0 + i = i /\ D!DataByte(i) \in AnyByte
  BY DEF AnyByte, DataBytes
<1>2. D!Feed(0, n) \in [1..n -> AnyByte]
  BY <1>1 DEF D!Feed
<1>3. \A i \in 1..n : D!Feed(0, n)[i] = D!DataByte(i)
  BY <1>1 DEF D!Feed
<1>4. D!Value(0) \in AnyByte
  BY DEF AnyByte
<1>5. D!Zeros(n) \in [1..n -> AnyByte] /\ \A i \in 1..n : D!Zeros(n)[i] = D!Value(0)
  BY <1>4 DEF D!Zeros
<1>6. One \in AnyByte
  <2>1. ByteBits - 1 \in Nat
    BY BlockAssumption
  <2>2. Pow2[ByteBits - 1] \in Int
    BY <2>1, Pow2Positive
  <2> QED BY <2>2 DEF One, AnyByte
<1> QED BY <1>2, <1>3, <1>4, <1>5, <1>6

PaddedBytes(n) ==
  D!Feed(0, n) \o <<One>> \o D!Zeros(ZerosFor(n)) \o Length(n)

LEMMA PaddedBytesFacts ==
  ASSUME NEW n, NEW q, NEW m, Split(n, q, m)
  PROVE /\ PaddedBytes(n) \in Seq(AnyByte)
        /\ Len(PaddedBytes(n)) = B * (q + TailCount(m))
        /\ \A j \in 1..(B * (q + TailCount(m))) : PaddedBytes(n)[j] = PadByte(n, j)
<1> DEFINE z == ZerosFor(n)
           s1 == D!Feed(0, n)
           s2 == s1 \o <<One>>
           s3 == s2 \o D!Zeros(z)
           s4 == s3 \o Length(n)
<1>0. /\ n \in Nat /\ q \in Nat /\ m \in 0..(B - 1) /\ n = B * q + m
      /\ B \in Nat /\ L \in Nat /\ TailCount(m) \in Nat
  BY BlockAssumption DEF Split, TailCount
<1>1. z \in Nat /\ z = B * TailCount(m) - L - m - 1
  BY ZerosFill
<1>2. n + 1 + z + L = B * (q + TailCount(m))
  <2>1. B * (q + TailCount(m)) = B * q + B * TailCount(m)
    BY <1>0
  <2> QED BY <1>0, <1>1, <2>1
<1>3. s1 \in Seq(AnyByte) /\ Len(s1) = n /\ <<One>> \in Seq(AnyByte) /\ Len(<<One>>) = 1
  BY <1>0, PadParts
<1>4. D!Zeros(z) \in Seq(AnyByte) /\ Len(D!Zeros(z)) = z
  BY <1>1, PadParts
<1>5. n * ByteBits \in Nat
  BY <1>0, BlockAssumption
<1>6. Length(n) \in Seq(AnyByte) /\ Len(Length(n)) = L
  BY <1>0, <1>5, BigEndianFacts DEF Length
<1>7. /\ \A j \in 1..n : s1[j] = D!DataByte(j)
      /\ <<One>>[1] = One
  BY <1>0, PadParts
<1>8. \A j \in 1..z : D!Zeros(z)[j] = D!Value(0)
  BY <1>1, PadParts
<1> HIDE DEF s1, z
<1>9. /\ s2 \in Seq(AnyByte) /\ Len(s2) = n + 1
      /\ \A j \in 1..(n + 1) : s2[j] = IF j <= n THEN D!DataByte(j) ELSE One
  <2>1. /\ s2 \in Seq(AnyByte) /\ Len(s2) = n + 1
        /\ \A j \in 1..(n + 1) : s2[j] = IF j <= n THEN s1[j] ELSE <<One>>[j - n]
    BY <1>3, ConcatProperties
  <2>2. ASSUME NEW j \in 1..(n + 1)
        PROVE s2[j] = IF j <= n THEN D!DataByte(j) ELSE One
    <3>1. CASE j <= n
      BY <1>0, <1>7, <2>1, <3>1
    <3>2. CASE ~(j <= n)
      <4>1. j - n = 1
        BY <1>0, <3>2
      <4> QED BY <1>7, <2>1, <3>2, <4>1
    <3> QED BY <3>1, <3>2
  <2> QED BY <2>1, <2>2
<1> HIDE DEF s2
<1>10. /\ s3 \in Seq(AnyByte) /\ Len(s3) = n + 1 + z
       /\ \A j \in 1..(n + 1 + z) :
            s3[j] = IF j <= n + 1 THEN s2[j] ELSE D!Value(0)
  <2>0. /\ s3 \in Seq(AnyByte) /\ Len(s3) = Len(s2) + Len(D!Zeros(z))
        /\ \A j \in 1..(Len(s2) + Len(D!Zeros(z))) :
             s3[j] = IF j <= Len(s2) THEN s2[j] ELSE D!Zeros(z)[j - Len(s2)]
    <3>1. s2 \in Seq(AnyByte) /\ D!Zeros(z) \in Seq(AnyByte)
      BY <1>4, <1>9
    <3> QED BY <3>1, ConcatProperties
  <2>1. /\ s3 \in Seq(AnyByte) /\ Len(s3) = n + 1 + z
        /\ \A j \in 1..(n + 1 + z) :
             s3[j] = IF j <= n + 1 THEN s2[j] ELSE D!Zeros(z)[j - (n + 1)]
    BY <1>4, <1>9, <2>0
  <2>2. \A j \in 1..(n + 1 + z) : ~(j <= n + 1) => j - (n + 1) \in 1..z
    BY <1>0, <1>1
  <2> QED BY <1>8, <2>1, <2>2
<1> HIDE DEF s3
<1>11. /\ s4 \in Seq(AnyByte) /\ Len(s4) = n + 1 + z + L
       /\ \A j \in 1..(n + 1 + z + L) :
            s4[j] = IF j <= n + 1 + z THEN s3[j] ELSE Length(n)[j - (n + 1 + z)]
  BY <1>6, <1>10, ConcatProperties
<1>12. s4 = PaddedBytes(n)
  BY DEF s1, s2, s3, s4, z, PaddedBytes
<1> HIDE DEF s4
<1>13. ASSUME NEW j \in 1..(n + 1 + z + L) PROVE s4[j] = PadByte(n, j)
  <2>1. CASE j <= n + 1
    <3>1. j \in 1..(n + 1) /\ j \in 1..(n + 1 + z) /\ j <= n + 1 + z
      BY <1>0, <1>1, <2>1
    <3>2. s4[j] = IF j <= n THEN D!DataByte(j) ELSE One
      BY <1>9, <1>10, <1>11, <2>1, <3>1
    <3>3. ~(j <= n) => j = n + 1
      BY <1>0, <2>1
    <3> QED BY <3>2, <3>3 DEF PadByte
  <2>2. CASE j > n + 1 /\ j <= n + 1 + z
    <3>1. j \in 1..(n + 1 + z) /\ ~(j <= n + 1) /\ ~(j <= n) /\ j # n + 1
      BY <1>0, <1>1, <2>2
    <3>2. s4[j] = D!Value(0)
      BY <1>10, <1>11, <2>2, <3>1
    <3> QED BY <2>2, <3>1, <3>2 DEF PadByte, z
  <2>3. CASE j > n + 1 + z
    <3>1. ~(j <= n + 1 + z) /\ ~(j <= n) /\ j # n + 1
      BY <1>0, <1>1, <2>3
    <3> QED BY <1>11, <3>1 DEF PadByte, z
  <2> QED BY <1>0, <1>1, <2>1, <2>2, <2>3
<1> QED BY <1>2, <1>11, <1>12, <1>13

LEMMA PaddedBlocks ==
  ASSUME NEW n, NEW q, NEW m, Split(n, q, m)
  PROVE D!Padded(n) = [k \in 1..(q + TailCount(m)) |-> PadBlock(n, k)]
<1> DEFINE K == q + TailCount(m)
           s == PaddedBytes(n)
<1>0. K \in Nat /\ B \in Nat \ {0}
  BY BlockAssumption DEF Split, TailCount
<1>1. D!Padded(n) = D!Blocks(s)
  BY DEF D!Padded, PaddedBytes, One, Length, ZerosFor, D!Pow2, Pow2
<1>2. s \in Seq(AnyByte) /\ Len(s) = B * K /\ \A j \in 1..(B * K) : s[j] = PadByte(n, j)
  BY PaddedBytesFacts
<1> HIDE DEF s, K
<1>3. Len(s) \div B = K
  <2>1. IsDivMod(Len(s), B, K, 0)
    BY <1>0, <1>2 DEF IsDivMod
  <2> QED BY <2>1, DivModUnique
<1>4. ASSUME NEW k \in 1..K PROVE SubSeq(s, (k - 1) * B + 1, k * B) = PadBlock(n, k)
  <2> DEFINE a == (k - 1) * B + 1
             b == k * B
  <2>1. (k - 1) * B \in Nat /\ k * B = (k - 1) * B + B
    BY <1>0
  <2>2. k * B <= B * K
    <3>1. B * K = k * B + (K - k) * B /\ (K - k) * B \in Nat
      BY <1>0
    <3> QED BY <1>0, <3>1
  <2>3. a \in 1..(Len(s) + 1) /\ b \in 0..Len(s) /\ b = a + B - 1 /\ a \in Nat
    BY <1>0, <1>2, <2>1, <2>2
  <2> HIDE DEF a, b
  <2>4. SubSeq(s, a, b) = [i \in 1..B |-> s[a + i - 1]]
    <3>1. SubSeq(s, a, b) = [i \in 1..(1 + b - a) |-> s[i + a - 1]]
      BY <1>0, <1>2, <2>3
    <3>2. 1 + b - a = B /\ \A i \in 1..B : i + a - 1 = a + i - 1
      BY <1>0, <2>3
    <3> QED BY <3>1, <3>2
  <2>5. ASSUME NEW i \in 1..B PROVE s[a + i - 1] = PadByte(n, (k - 1) * B + i)
    <3>1. a + i - 1 = (k - 1) * B + i
      BY <2>1 DEF a
    <3>2. (k - 1) * B + i \in 1..(B * K)
      BY <1>0, <2>1, <2>2
    <3> QED BY <1>2, <3>1, <3>2
  <2> QED BY <2>4, <2>5 DEF PadBlock, a, b
<1>5. D!Blocks(s) = [k \in 1..K |-> SubSeq(s, (k - 1) * B + 1, k * B)]
  BY <1>3 DEF D!Blocks
<1>6. D!Padded(n) = [k \in 1..K |-> PadBlock(n, k)]
  BY <1>1, <1>4, <1>5
<1> QED BY <1>6 DEF K

(* the blocks of the padded message, byte by byte                          *)
LEMMA PadBlockBytes ==
  ASSUME NEW n, NEW q, NEW m, Split(n, q, m)
  PROVE /\ \A k \in 1..q : PadBlock(n, k) = Data((k - 1) * B, B)
        /\ \A i \in 1..B : i <= m => PadBlock(n, q + 1)[i] = D!DataByte(B * q + i)
        /\ PadBlock(n, q + 1)[m + 1] = One
        /\ Spills(m + 1) =>
             \A i \in 1..B : i > m + 1 => PadBlock(n, q + 1)[i] = D!Value(0)
        /\ LET t == q + TailCount(m)
               c == IF Spills(m + 1) THEN 0 ELSE m + 1
           IN /\ \A i \in 1..B : i > c /\ i <= B - L => PadBlock(n, t)[i] = D!Value(0)
              /\ \A i \in 1..B : i > B - L => PadBlock(n, t)[i] = Length(n)[i - (B - L)]
<1> DEFINE z == ZerosFor(n)
           x == B * q
<1>0. /\ n \in Nat /\ q \in Nat /\ m \in 0..(B - 1) /\ x \in Nat /\ n = x + m
      /\ B \in Nat /\ L \in Nat /\ L > 0 /\ L < B /\ m + 1 \in 1..B
  BY BlockAssumption DEF Split
<1>1. z \in Nat /\ z = B * TailCount(m) - L - m - 1
  BY ZerosFill
<1>2. (q + 1 - 1) * B = x /\ (q + 2 - 1) * B = x + B
  BY <1>0
<1>3. /\ \A i \in 1..B : PadBlock(n, q + 1)[i] = PadByte(n, x + i)
      /\ \A i \in 1..B : PadBlock(n, q + 2)[i] = PadByte(n, x + B + i)
  <2>1. ASSUME NEW k, NEW y, (k - 1) * B = y
        PROVE \A i \in 1..B : PadBlock(n, k)[i] = PadByte(n, y + i)
    BY <2>1 DEF PadBlock
  <2>2. PICK k : k = q + 1
    OBVIOUS
  <2>3. PICK y : y = x
    OBVIOUS
  <2>4. \A i \in 1..B : PadBlock(n, k)[i] = PadByte(n, y + i)
    <3>1. (k - 1) * B = y
      <4>1. k - 1 = q /\ q * B = y
        BY <1>0, <2>2, <2>3
      <4> QED BY <4>1
    <3> QED BY <2>1, <3>1
  <2>5. PICK j : j = q + 2
    OBVIOUS
  <2>6. PICK w : w = x + B
    OBVIOUS
  <2>7. \A i \in 1..B : PadBlock(n, j)[i] = PadByte(n, w + i)
    <3>1. (j - 1) * B = w
      <4>1. j - 1 = q + 1 /\ (q + 1) * B = w
        BY <1>0, <2>5, <2>6
      <4> QED BY <4>1
    <3> QED BY <2>1, <3>1
  <2> QED BY <2>2, <2>3, <2>4, <2>5, <2>6, <2>7
<1>4. ASSUME NEW k \in 1..q PROVE PadBlock(n, k) = Data((k - 1) * B, B)
  <2>1. (k - 1) * B + B <= x /\ (k - 1) * B \in Nat
    <3>1. x = (k - 1) * B + B + (q - k) * B /\ (q - k) * B \in Nat /\ (k - 1) * B \in Nat
      BY <1>0
    <3> QED BY <1>0, <3>1
  <2>2. \A i \in 1..B : (k - 1) * B + i <= n
    BY <1>0, <2>1
  <2> QED BY <2>2 DEF PadBlock, PadByte, Data
<1> HIDE DEF x, z
<1>5. ASSUME NEW i \in 1..B, i <= m PROVE PadBlock(n, q + 1)[i] = D!DataByte(x + i)
  <2>1. x + i <= n
    BY <1>0, <1>5
  <2> QED BY <1>3, <2>1 DEF PadByte
<1>6. PadBlock(n, q + 1)[m + 1] = One
  <2>1. x + (m + 1) = n + 1 /\ ~(n + 1 <= n)
    BY <1>0
  <2> QED BY <1>0, <1>3, <2>1 DEF PadByte
<1>9. ASSUME NEW j, NEW l, ~(j <= n), j # n + 1, ~(j <= n + 1 + z),
             l = j - (n + 1 + z)
      PROVE PadByte(n, j) = Length(n)[l]
  BY <1>9 DEF PadByte, z
<1>7. CASE Spills(m + 1)
  <2>1. z = B + B - L - m - 1 /\ q + TailCount(m) = q + 2
    BY <1>0, <1>1, <1>7 DEF TailCount
  <2>2. ASSUME NEW i \in 1..B, i > m + 1 PROVE PadBlock(n, q + 1)[i] = D!Value(0)
    <3>1. ~(x + i <= n) /\ x + i # n + 1 /\ x + i <= n + 1 + z
      BY <1>0, <2>1, <2>2
    <3> QED BY <1>3, <3>1 DEF PadByte, z
  <2>3. ASSUME NEW i \in 1..B, i > 0, i <= B - L
        PROVE PadBlock(n, q + 2)[i] = D!Value(0)
    <3>1. ~(x + B + i <= n) /\ x + B + i # n + 1 /\ x + B + i <= n + 1 + z
      BY <1>0, <2>1, <2>3
    <3> QED BY <1>3, <3>1 DEF PadByte, z
  <2>4. ASSUME NEW i \in 1..B, i > B - L
        PROVE PadBlock(n, q + 2)[i] = Length(n)[i - (B - L)]
    <3>1. PICK j : j = x + B + i
      OBVIOUS
    <3>2. PICK l : l = i - (B - L)
      OBVIOUS
    <3>3. ~(j <= n) /\ j # n + 1 /\ ~(j <= n + 1 + z) /\ l = j - (n + 1 + z)
      BY <1>0, <1>1, <2>1, <2>4, <3>1, <3>2
    <3>4. PadByte(n, j) = Length(n)[l]
      BY <1>9, <3>3
    <3> QED BY <1>3, <3>1, <3>2, <3>4
  <2> QED BY <1>4, <1>5, <1>6, <1>7, <2>1, <2>2, <2>3, <2>4 DEF x
<1>8. CASE ~Spills(m + 1)
  <2>1. z = B - L - m - 1 /\ q + TailCount(m) = q + 1
    BY <1>0, <1>1, <1>8 DEF TailCount
  <2>3. ASSUME NEW i \in 1..B, i > m + 1, i <= B - L
        PROVE PadBlock(n, q + 1)[i] = D!Value(0)
    <3>1. ~(x + i <= n) /\ x + i # n + 1 /\ x + i <= n + 1 + z
      BY <1>0, <2>1, <2>3
    <3> QED BY <1>3, <3>1 DEF PadByte, z
  <2>4. ASSUME NEW i \in 1..B, i > B - L
        PROVE PadBlock(n, q + 1)[i] = Length(n)[i - (B - L)]
    <3>1. PICK j : j = x + i
      OBVIOUS
    <3>2. PICK l : l = i - (B - L)
      OBVIOUS
    <3>3. ~(j <= n) /\ j # n + 1 /\ ~(j <= n + 1 + z) /\ l = j - (n + 1 + z)
      BY <1>0, <1>1, <2>1, <2>4, <3>1, <3>2
    <3>4. PadByte(n, j) = Length(n)[l]
      BY <1>9, <3>3
    <3> QED BY <1>3, <3>1, <3>2, <3>4
  <2> QED BY <1>4, <1>5, <1>6, <1>8, <2>1, <2>3, <2>4 DEF x
<1> QED BY <1>7, <1>8

(* the whole blocks of a message are blocks                                *)
LEMMA WholeBlocks ==
  ASSUME NEW q \in Nat
  PROVE /\ Whole(0, q) \in Seq(AnyBlock) /\ Len(Whole(0, q)) = q
        /\ \A k \in 1..q : Whole(0, q)[k] = Data((k - 1) * B, B)
<1>0. B \in Nat
  BY BlockAssumption
<1>1. ASSUME NEW k \in 1..q
      PROVE 0 + (k - 1) * B = (k - 1) * B /\ Data((k - 1) * B, B) \in AnyBlock
  <2>1. (k - 1) * B \in Nat
    BY <1>0
  <2>2. \A i \in 1..B : D!DataByte((k - 1) * B + i) \in AnyByte
    <3>1. \A i \in 1..B : (k - 1) * B + i \in Nat
      BY <1>0, <2>1
    <3> QED BY <3>1 DEF AnyByte, DataBytes
  <2> QED BY <2>1, <2>2 DEF Data, AnyBlock
<1>2. Whole(0, q) = [k \in 1..q |-> Data((k - 1) * B, B)]
  BY <1>1 DEF Whole
<1>3. Whole(0, q) \in [1..q -> AnyBlock]
  BY <1>1, <1>2
<1> QED BY <1>2, <1>3

(* the whole blocks and what fills the rest are the padded message         *)
LEMMA PaddedTail ==
  ASSUME NEW n, NEW q, NEW m, Split(n, q, m), NEW tail,
         DOMAIN tail = 1..TailCount(m), tail \in Seq(AnyBlock),
         \A j \in 1..TailCount(m) : tail[j] = PadBlock(n, q + j)
  PROVE Whole(0, q) \o tail = D!Padded(n)
<1>0. n \in Nat /\ q \in Nat /\ B \in Nat /\ TailCount(m) \in Nat
  BY BlockAssumption DEF Split, TailCount
<1>1. /\ Whole(0, q) \in Seq(AnyBlock) /\ Len(Whole(0, q)) = q
      /\ \A k \in 1..q : Whole(0, q)[k] = PadBlock(n, k)
  BY <1>0, WholeBlocks, PadBlockBytes
<1>2. Len(tail) = TailCount(m)
  BY <1>0
<1> DEFINE s == Whole(0, q)
<1> HIDE DEF s
<1>3. /\ s \o tail \in Seq(AnyBlock) /\ Len(s \o tail) = q + TailCount(m)
      /\ \A k \in 1..(q + TailCount(m)) :
           (s \o tail)[k] = IF k <= q THEN s[k] ELSE tail[k - q]
  <2>1. s \in Seq(AnyBlock) /\ Len(s) = q
    BY <1>1 DEF s
  <2>2. /\ s \o tail \in Seq(AnyBlock) /\ Len(s \o tail) = Len(s) + Len(tail)
        /\ \A k \in 1..(Len(s) + Len(tail)) :
             (s \o tail)[k] = IF k <= Len(s) THEN s[k] ELSE tail[k - Len(s)]
    BY <2>1, ConcatProperties
  <2> QED BY <1>2, <2>1, <2>2
<1>4. ASSUME NEW k \in 1..(q + TailCount(m)) PROVE (s \o tail)[k] = PadBlock(n, k)
  <2>1. CASE k <= q
    BY <1>0, <1>1, <1>3, <2>1 DEF s
  <2>2. CASE ~(k <= q)
    <3>1. k - q \in 1..TailCount(m) /\ q + (k - q) = k
      BY <1>0, <2>2
    <3> QED BY <1>3, <2>2, <3>1
  <2> QED BY <2>1, <2>2
<1>5. s \o tail = [k \in 1..(q + TailCount(m)) |-> PadBlock(n, k)]
  <2> DEFINE u == s \o tail
  <2>1. u \in Seq(AnyBlock) /\ Len(u) = q + TailCount(m)
    BY <1>3
  <2>2. \A k \in 1..(q + TailCount(m)) : u[k] = PadBlock(n, k)
    BY <1>4
  <2> HIDE DEF u
  <2>3. u = [k \in 1..(q + TailCount(m)) |-> u[k]]
    BY <2>1
  <2>4. u = [k \in 1..(q + TailCount(m)) |-> PadBlock(n, k)]
    BY <2>2, <2>3
  <2> QED BY <2>4 DEF u
<1> QED BY <1>5, PaddedBlocks DEF s

------------------------------------------------------------------------------
(* The length field                                                        *)

(* v is divided by P and by c                                              *)
Divided(v, P, c) == v \in Nat /\ P \in Nat \ {0} /\ c \in Nat \ {0}

LEMMA DivTwice ==
  ASSUME NEW v, NEW P, NEW c, Divided(v, P, c)
  PROVE v \div (P * c) = (v \div P) \div c
<1> DEFINE a == v \div P
           r == v % P
           b == a \div c
           s == a % c
<1>0. v \in Nat /\ P \in Nat \ {0} /\ c \in Nat \ {0}
  BY DEF Divided
<1>1. a \in Nat /\ r \in 0..(P - 1) /\ v = P * a + r
  BY <1>0
<1> HIDE DEF a, r
<1>2. b \in Nat /\ s \in 0..(c - 1) /\ a = c * b + s
  BY <1>0, <1>1
<1> HIDE DEF b, s
<1>3. v = (P * c) * b + (P * s + r)
  <2>1. P * a = P * (c * b) + P * s
    BY <1>0, <1>2
  <2>2. P * (c * b) = (P * c) * b
    BY <1>0, <1>2
  <2>3. P * a \in Nat /\ P * s \in Nat /\ (P * c) * b \in Nat
    BY <1>0, <1>1, <1>2
  <2> QED BY <1>0, <1>1, <2>1, <2>2, <2>3
<1>4. P * s + r \in 0..(P * c - 1) /\ P * c \in Nat \ {0}
  <2>1. P * s <= P * (c - 1) /\ P * (c - 1) = P * c - P /\ P * s \in Nat
    BY <1>0, <1>2
  <2>2. P * c \in Nat \ {0}
    BY <1>0
  <2> QED BY <1>0, <1>1, <2>1, <2>2
<1>5. IsDivMod(v, P * c, b, P * s + r)
  BY <1>2, <1>3, <1>4 DEF IsDivMod
<1>6. v \div (P * c) = b
  BY <1>5, DivModUnique
<1> QED BY <1>6 DEF a, b

(* what is added above a byte does not change it                           *)
AddedAbove(v, u, w, c, Q, e) ==
  /\ c \in Nat \ {0} /\ Q \in Nat \ {0} /\ e \in Nat \ {0}
  /\ u \in Nat /\ w \in Nat /\ v = (c * (Q * e)) * u + w

LEMMA ByteOfLow ==
  ASSUME NEW c, NEW Q, NEW e, NEW u, NEW w, NEW v, AddedAbove(v, u, w, c, Q, e)
  PROVE (v \div c) % Q = (w \div c) % Q
<1> DEFINE d == w \div c
           r == w % c
           f == d \div Q
           g == d % Q
<1>0. /\ c \in Nat \ {0} /\ Q \in Nat \ {0} /\ e \in Nat \ {0}
      /\ u \in Nat /\ w \in Nat /\ v = (c * (Q * e)) * u + w
  BY DEF AddedAbove
<1>1. d \in Nat /\ r \in 0..(c - 1) /\ w = c * d + r
  BY <1>0
<1> HIDE DEF d, r
<1>2. f \in Nat /\ g \in 0..(Q - 1) /\ d = Q * f + g
  BY <1>0, <1>1
<1> HIDE DEF f
<1>3. (Q * e) * u + d \in Nat /\ v = c * ((Q * e) * u + d) + r
  <2>1. (c * (Q * e)) * u = c * ((Q * e) * u) /\ (Q * e) * u \in Nat
    BY <1>0
  <2>2. c * ((Q * e) * u + d) = c * ((Q * e) * u) + c * d
    BY <1>0, <1>1, <2>1
  <2>3. c * ((Q * e) * u) \in Nat /\ c * d \in Nat
    BY <1>0, <1>1, <2>1
  <2> QED BY <1>0, <1>1, <2>1, <2>2, <2>3
<1>4. IsDivMod(v, c, (Q * e) * u + d, r)
  BY <1>0, <1>1, <1>3 DEF IsDivMod
<1>5. v \div c = (Q * e) * u + d
  BY <1>4, DivModUnique
<1>6. e * u + f \in Nat /\ (Q * e) * u + d = Q * (e * u + f) + g
  <2>1. (Q * e) * u = Q * (e * u) /\ e * u \in Nat
    BY <1>0
  <2>2. Q * (e * u + f) = Q * (e * u) + Q * f
    BY <1>0, <1>2, <2>1
  <2> QED BY <1>0, <1>2, <2>1, <2>2
<1>7. IsDivMod((Q * e) * u + d, Q, e * u + f, g)
  BY <1>0, <1>2, <1>6 DEF IsDivMod
<1>8. ((Q * e) * u + d) % Q = g
  BY <1>7, DivModUnique
<1> QED BY <1>5, <1>8 DEF d

(* the big-endian bytes of the two words are those of the length           *)
LEMMA Halves ==
  ASSUME CountInv, open
  PROVE D!BigEndian(Nh, L \div 2) \o D!BigEndian(Nl, L \div 2) = Length(length)
<1> DEFINE h == L \div 2
           y == length * ByteBits
           P == Pow2[WordBits]
           Q == Pow2[ByteBits]
           u == y \div (P * P)
           s == D!BigEndian(Nh, h)
           t == D!BigEndian(Nl, h)
<1>0. /\ h \in Nat /\ L \in Nat /\ L = h + h /\ ByteBits \in Nat /\ WordBits = h * ByteBits
      /\ WordBits \in Nat /\ length \in Nat /\ y \in Nat
      /\ P \in Nat \ {0} /\ Q \in Nat \ {0} /\ Pow2[2 * WordBits] = P * P
  BY WordBitsFacts, BlockAssumption, Pow2Positive DEF CountInv
<1>1. Nh \in 0..(P - 1) /\ Nl \in 0..(P - 1) /\ Nh * P + Nl = y % (P * P)
      /\ Nh \in Nat /\ Nl \in Nat
  BY <1>0 DEF CountInv, LengthCounted
<1>2. u \in Nat /\ y = (P * P) * u + (Nh * P + Nl)
  <2>1. P * P \in Nat \ {0}
    BY <1>0
  <2>2. \A R \in Nat \ {0} : y \div R \in Nat /\ y = R * (y \div R) + (y % R)
    BY <1>0
  <2>3. u \in Nat /\ y = (P * P) * u + (y % (P * P))
    BY <2>1, <2>2, Zenon
  <2> QED BY <1>1, <2>3, Zenon
<1> HIDE DEF u, P, Q, y, h
<1>3. P * u + Nh \in Nat /\ y = P * (P * u + Nh) + Nl
  <2>1. (P * P) * u = P * (P * u) /\ P * u \in Nat
    BY <1>0, <1>2
  <2>2. P * (P * u + Nh) = P * (P * u) + Nh * P
    BY <1>0, <1>1, <2>1
  <2>3. P * (P * u) \in Nat /\ Nh * P \in Nat
    BY <1>0, <1>1, <2>1
  <2> QED BY <1>0, <1>1, <1>2, <2>1, <2>2, <2>3
<1>4. y \div P = P * u + Nh
  <2>1. IsDivMod(y, P, P * u + Nh, Nl)
    BY <1>0, <1>1, <1>3 DEF IsDivMod
  <2> QED BY <2>1, DivModUnique
<1>5. ASSUME NEW k \in 0..(h - 1)
      PROVE LET c == Pow2[ByteBits * k]
                e == Pow2[ByteBits * (h - 1 - k)]
            IN /\ c \in Nat \ {0} /\ e \in Nat \ {0} /\ P = c * (Q * e)
               /\ Pow2[ByteBits * (h + k)] = P * c
  <2>1. PICK a \in Nat : a = ByteBits * k
    BY <1>0
  <2>2. PICK b \in Nat : b = ByteBits * (h - 1 - k)
    BY <1>0
  <2>3. ByteBits + b \in Nat /\ WordBits = a + (ByteBits + b)
    <3>1. ByteBits * (h - 1 - k) = ByteBits * h - ByteBits - ByteBits * k
      BY <1>0
    <3> QED BY <1>0, <2>1, <2>2, <3>1
  <2>4. Pow2[ByteBits + b] = Q * Pow2[b]
    BY <1>0, Pow2Sum DEF Q
  <2>5. P = Pow2[a] * Pow2[ByteBits + b]
    BY <2>3, Pow2Sum DEF P
  <2>6. ByteBits * (h + k) = WordBits + a
    <3>1. ByteBits * (h + k) = ByteBits * h + ByteBits * k
      BY <1>0
    <3> QED BY <1>0, <2>1, <3>1
  <2>7. Pow2[WordBits + a] = P * Pow2[a]
    BY <1>0, Pow2Sum DEF P
  <2>8. Pow2[a] \in Nat \ {0} /\ Pow2[b] \in Nat \ {0}
    BY Pow2Positive
  <2> QED BY <2>1, <2>2, <2>4, <2>5, <2>6, <2>7, <2>8
<1>6. /\ s \in Seq(AnyByte) /\ Len(s) = h
      /\ \A i \in 1..h : s[i] = D!Value((Nh \div Pow2[ByteBits * (h - i)]) % Q)
  BY <1>0, <1>1, BigEndianFacts, Zenon DEF Q
<1>7. /\ t \in Seq(AnyByte) /\ Len(t) = h
      /\ \A i \in 1..h : t[i] = D!Value((Nl \div Pow2[ByteBits * (h - i)]) % Q)
  BY <1>0, <1>1, BigEndianFacts, Zenon DEF Q
<1>8. /\ Length(length) \in Seq(AnyByte) /\ Len(Length(length)) = L
      /\ \A i \in 1..L :
           Length(length)[i] = D!Value((y \div Pow2[ByteBits * (L - i)]) % Q)
  BY <1>0, BigEndianFacts DEF Q, y, Length
<1> HIDE DEF s, t
<1>9. /\ s \o t \in Seq(AnyByte) /\ Len(s \o t) = L
      /\ \A i \in 1..L : (s \o t)[i] = IF i <= h THEN s[i] ELSE t[i - h]
  <2>1. /\ s \o t \in Seq(AnyByte) /\ Len(s \o t) = Len(s) + Len(t)
        /\ \A i \in 1..(Len(s) + Len(t)) :
             (s \o t)[i] = IF i <= Len(s) THEN s[i] ELSE t[i - Len(s)]
    BY <1>6, <1>7, ConcatProperties
  <2> QED BY <1>0, <1>6, <1>7, <2>1
<1>10. ASSUME NEW i \in 1..L PROVE (s \o t)[i] = Length(length)[i]
  <2>1. CASE i <= h
    <3>1. PICK k \in 0..(h - 1) : k = h - i
      BY <1>0, <2>1
    <3>2. PICK c \in Nat \ {0}, e \in Nat \ {0} :
            /\ c = Pow2[ByteBits * k] /\ P = c * (Q * e)
            /\ Pow2[ByteBits * (h + k)] = P * c
      BY <1>5
    <3>3. (y \div (P * c)) % Q = (Nh \div c) % Q
      <4>1. y \div (P * c) = (P * u + Nh) \div c
        <5>1. Divided(y, P, c)
          BY <1>0 DEF Divided
        <5> QED BY <1>4, <5>1, DivTwice
      <4>2. PICK v : v = P * u + Nh
        OBVIOUS
      <4>3. v = (c * (Q * e)) * u + Nh
        BY <3>2, <4>2
      <4>4. (v \div c) % Q = (Nh \div c) % Q
        <5>1. AddedAbove(v, u, Nh, c, Q, e)
          BY <1>0, <1>1, <1>2, <4>3 DEF AddedAbove
        <5> QED BY <5>1, ByteOfLow
      <4> QED BY <4>1, <4>2, <4>4
    <3>4. i \in 1..h /\ L - i = h + k /\ h - i = k
      BY <1>0, <2>1, <3>1
    <3>5. s[i] = D!Value((Nh \div c) % Q)
      BY <1>6, <3>2, <3>4
    <3>6. Length(length)[i] = D!Value((y \div (P * c)) % Q)
      BY <1>8, <3>2, <3>4
    <3> QED BY <1>9, <2>1, <3>3, <3>5, <3>6
  <2>2. CASE ~(i <= h)
    <3>1. PICK k \in 0..(h - 1) : k = L - i
      BY <1>0, <2>2
    <3>2. PICK c \in Nat \ {0}, e \in Nat \ {0} :
            c = Pow2[ByteBits * k] /\ P = c * (Q * e)
      BY <1>5
    <3>3. (y \div c) % Q = (Nl \div c) % Q
      <4>1. PICK v \in Nat : v = P * u + Nh
        BY <1>3
      <4>2. y = (c * (Q * e)) * v + Nl
        BY <1>3, <3>2, <4>1
      <4>3. AddedAbove(y, v, Nl, c, Q, e)
        BY <1>0, <1>1, <4>2 DEF AddedAbove
      <4> QED BY <4>3, ByteOfLow
    <3>4. PICK j \in 1..h : j = i - h
      BY <1>0, <2>2
    <3>5. h - j = k
      BY <1>0, <3>1, <3>4
    <3>6. t[j] = D!Value((Nl \div c) % Q)
      BY <1>7, <3>2, <3>5
    <3>7. Length(length)[i] = D!Value((y \div c) % Q)
      BY <1>8, <3>1, <3>2
    <3> QED BY <1>9, <2>2, <3>3, <3>4, <3>6, <3>7
  <2> QED BY <2>1, <2>2
<1>11. s \o t = Length(length)
  <2> DEFINE z == s \o t
             l == Length(length)
  <2>1. /\ z \in Seq(AnyByte) /\ l \in Seq(AnyByte) /\ Len(z) = Len(l)
        /\ \A i \in 1..Len(z) : z[i] = l[i]
    BY <1>8, <1>9, <1>10
  <2> HIDE DEF z, l
  <2>2. z = l
    BY <2>1, SeqEqual
  <2> QED BY <2>2 DEF z, l
<1> QED BY <1>11 DEF s, t, h

------------------------------------------------------------------------------
(* The last blocks                                                         *)

(* the place from which the last block is filled                           *)
FillFrom(m) == IF Spills(m + 1) THEN 0 ELSE m + 1

(* buf starts with the bytes that are left and the mark                    *)
Marked(buf, q, m) ==
  buf[m + 1] = One /\ \A i \in 1..B : i <= m => buf[i] = D!DataByte(B * q + i)

(* f is buf, filled with zeros and the length                              *)
Filled(f, buf, n, c) ==
  /\ f = [i \in 1..B |-> f[i]]
  /\ \A i \in 1..B : i <= c => f[i] = buf[i]
  /\ \A i \in 1..B : i > c /\ i <= B - L => f[i] = D!Value(0)
  /\ \A i \in 1..B : i > B - L => f[i] = Length(n)[i - (B - L)]

LEMMA LastIsPadBlock ==
  ASSUME NEW n, NEW q, NEW m, Split(n, q, m), NEW buf, NEW f,
         Spills(m + 1) \/ Marked(buf, q, m), Filled(f, buf, n, FillFrom(m))
  PROVE f = PadBlock(n, q + TailCount(m))
<1> DEFINE g == PadBlock(n, q + TailCount(m))
<1>0. m \in 0..(B - 1) /\ B \in Nat /\ L \in Nat /\ m + 1 \in 1..B
  BY BlockAssumption DEF Split
<1>1. \A i \in 1..B : i > FillFrom(m) /\ i <= B - L => g[i] = D!Value(0)
  BY PadBlockBytes DEF FillFrom
<1>2. \A i \in 1..B : i > B - L => g[i] = Length(n)[i - (B - L)]
  BY PadBlockBytes
<1>3. ASSUME NEW i \in 1..B, i <= FillFrom(m) PROVE g[i] = buf[i]
  <2>1. ~Spills(m + 1) /\ i <= m + 1 /\ TailCount(m) = 1
    BY <1>0, <1>3 DEF FillFrom, TailCount
  <2>2. Marked(buf, q, m)
    BY <2>1
  <2>3. g[m + 1] = One /\ \A j \in 1..B : j <= m => g[j] = D!DataByte(B * q + j)
    BY <2>1, PadBlockBytes
  <2>4. i <= m \/ i = m + 1
    BY <1>0, <2>1
  <2> QED BY <2>2, <2>3, <2>4 DEF Marked
<1>4. g = [i \in 1..B |-> g[i]]
  BY DEF PadBlock
<1> HIDE DEF g
<1>5. ASSUME NEW i \in 1..B PROVE f[i] = g[i]
  <2>1. CASE i <= FillFrom(m)
    BY <1>3, <2>1 DEF Filled
  <2>2. CASE i > FillFrom(m) /\ i <= B - L
    BY <1>1, <2>2 DEF Filled
  <2>3. CASE i > B - L
    BY <1>2, <2>3 DEF Filled
  <2>4. FillFrom(m) \in Int /\ B - L \in Int
    BY <1>0 DEF FillFrom
  <2> QED BY <2>1, <2>2, <2>3, <2>4
<1>6. f = g
  BY <1>4, <1>5 DEF Filled
<1> QED BY <1>6 DEF g

(* a marked buffer, zeros behind the mark: the block before the last       *)
LEMMA SpilledIsPadBlock ==
  ASSUME NEW n, NEW q, NEW m, Split(n, q, m), Spills(m + 1), NEW f,
         Marked(f, q, m), f = [i \in 1..B |-> f[i]],
         \A i \in 1..B : i > m + 1 => f[i] = D!Value(0)
  PROVE f = PadBlock(n, q + 1)
<1> DEFINE g == PadBlock(n, q + 1)
<1>0. m \in 0..(B - 1) /\ B \in Nat /\ m + 1 \in 1..B
  BY BlockAssumption DEF Split
<1>1. /\ \A i \in 1..B : i <= m => g[i] = D!DataByte(B * q + i)
      /\ g[m + 1] = One
      /\ \A i \in 1..B : i > m + 1 => g[i] = D!Value(0)
  BY PadBlockBytes
<1>2. g = [i \in 1..B |-> g[i]]
  BY DEF PadBlock
<1> HIDE DEF g
<1>3. ASSUME NEW i \in 1..B PROVE f[i] = g[i]
  <2>1. i <= m \/ i = m + 1 \/ i > m + 1
    BY <1>0
  <2> QED BY <1>1, <2>1 DEF Marked
<1>4. f = g
  BY <1>2, <1>3
<1> QED BY <1>4 DEF g

LEMMA PadBlockType ==
  ASSUME NEW n, NEW q, NEW m, Split(n, q, m)
  PROVE \A j \in 1..TailCount(m) : PadBlock(n, q + j) \in AnyBlock
<1>0. /\ n \in Nat /\ q \in Nat /\ m \in 0..(B - 1) /\ B \in Nat
      /\ TailCount(m) \in Nat
  BY BlockAssumption DEF Split, TailCount
<1>1. \A j \in 1..(B * (q + TailCount(m))) : PadByte(n, j) \in AnyByte
  <2>1. /\ PaddedBytes(n) \in Seq(AnyByte)
        /\ Len(PaddedBytes(n)) = B * (q + TailCount(m))
        /\ \A j \in 1..(B * (q + TailCount(m))) : PaddedBytes(n)[j] = PadByte(n, j)
    BY PaddedBytesFacts
  <2>2. \A j \in 1..Len(PaddedBytes(n)) : PaddedBytes(n)[j] \in AnyByte
    BY <2>1, ElementOfSeq
  <2> QED BY <2>1, <2>2
<1>2. ASSUME NEW j \in 1..TailCount(m) PROVE PadBlock(n, q + j) \in AnyBlock
  <2>0. PICK k \in Nat : k = q + j
    BY <1>0
  <2>1. ASSUME NEW i \in 1..B
        PROVE (k - 1) * B + i \in 1..(B * (q + TailCount(m)))
    <3>1. B * (q + TailCount(m)) = (k - 1) * B + B + (q + TailCount(m) - k) * B
      BY <1>0, <2>0
    <3>2. (q + TailCount(m) - k) * B \in Nat /\ (k - 1) * B \in Nat
      BY <1>0, <2>0
    <3> QED BY <1>0, <3>1, <3>2
  <2>2. \A i \in 1..B : PadByte(n, (k - 1) * B + i) \in AnyByte
    BY <1>1, <2>1
  <2>3. PadBlock(n, k) \in AnyBlock
    BY <2>2 DEF PadBlock, AnyBlock
  <2> QED BY <2>0, <2>3
<1> QED BY <1>2

LEMMA PairConcat == \A a, b : <<a>> \o <<b>> = <<a, b>>
<1>1. ASSUME NEW a, NEW b PROVE <<a>> \o <<b>> = <<a, b>>
  <2>1. /\ <<a>> \in Seq({a, b}) /\ Len(<<a>>) = 1 /\ <<a>>[1] = a
        /\ <<b>> \in Seq({a, b}) /\ Len(<<b>>) = 1 /\ <<b>>[1] = b
        /\ <<a, b>> \in Seq({a, b}) /\ Len(<<a, b>>) = 2
        /\ <<a, b>>[1] = a /\ <<a, b>>[2] = b
    OBVIOUS
  <2> DEFINE s == <<a>>
             t == <<b>>
             u == <<a, b>>
             v == s \o t
  <2> HIDE DEF s, t, u
  <2>2. /\ v \in Seq({a, b}) /\ Len(v) = Len(s) + Len(t)
        /\ \A i \in 1..(Len(s) + Len(t)) :
             v[i] = IF i <= Len(s) THEN s[i] ELSE t[i - Len(s)]
    BY <2>1, ConcatProperties DEF s, t
  <2>3. Len(v) = 2 /\ v[1] = a /\ v[2] = b
    <3>1. Len(s) = 1 /\ Len(t) = 1 /\ s[1] = a /\ t[1] = b
      BY <2>1 DEF s, t
    <3> QED BY <2>2, <3>1
  <2> HIDE DEF v
  <2>4. \A i \in 1..Len(v) : v[i] = u[i]
    <3>1. \A i \in 1..Len(v) : i = 1 \/ i = 2
      BY <2>3
    <3> QED BY <2>1, <2>3, <3>1 DEF u
  <2>5. u \in Seq({a, b}) /\ Len(u) = 2
    BY <2>1 DEF u
  <2>6. v = u
    BY <2>2, <2>3, <2>4, <2>5, SeqEqual
  <2> QED BY <2>6 DEF v, s, t, u
<1> QED BY <1>1

(* what is hashed after the whole blocks completes the padded message      *)
Endings(m, filled, last) == IF Spills(m + 1) THEN <<filled, last>> ELSE <<last>>
Completes(n, q, m, filled, last) ==
  /\ Spills(m + 1) => filled = PadBlock(n, q + 1)
  /\ last = PadBlock(n, q + TailCount(m))

LEMMA Completed ==
  ASSUME NEW n, NEW q, NEW m, Split(n, q, m), NEW filled, NEW last,
         Completes(n, q, m, filled, last)
  PROVE Whole(0, q) \o Endings(m, filled, last) = D!Padded(n)
<1>0. q \in Nat /\ \A j \in 1..TailCount(m) : PadBlock(n, q + j) \in AnyBlock
  BY PadBlockType DEF Split
<1>1. CASE Spills(m + 1)
  <2> DEFINE tail == <<filled, last>>
  <2>1. TailCount(m) = 2
    BY <1>1 DEF TailCount
  <2>2. filled = PadBlock(n, q + 1) /\ last = PadBlock(n, q + 2)
    BY <1>1, <2>1 DEF Completes
  <2>3. filled \in AnyBlock /\ last \in AnyBlock
    BY <1>0, <2>1, <2>2
  <2>4. /\ DOMAIN tail = 1..TailCount(m) /\ tail \in Seq(AnyBlock)
        /\ \A j \in 1..TailCount(m) : tail[j] = PadBlock(n, q + j)
    <3>1. \A j \in 1..TailCount(m) : j = 1 \/ j = 2
      BY <2>1
    <3> QED BY <2>1, <2>2, <2>3, <3>1
  <2> HIDE DEF tail
  <2>5. Whole(0, q) \o tail = D!Padded(n)
    BY <2>4, PaddedTail
  <2> QED BY <1>1, <2>5 DEF tail, Endings
<1>2. CASE ~Spills(m + 1)
  <2> DEFINE tail == <<last>>
  <2>1. TailCount(m) = 1
    BY <1>2 DEF TailCount
  <2>2. last = PadBlock(n, q + 1)
    BY <2>1 DEF Completes
  <2>3. last \in AnyBlock
    BY <1>0, <2>1, <2>2
  <2>4. /\ DOMAIN tail = 1..TailCount(m) /\ tail \in Seq(AnyBlock)
        /\ \A j \in 1..TailCount(m) : tail[j] = PadBlock(n, q + j)
    <3>1. \A j \in 1..TailCount(m) : j = 1
      BY <2>1
    <3> QED BY <2>1, <2>2, <2>3, <3>1
  <2> HIDE DEF tail
  <2>5. Whole(0, q) \o tail = D!Padded(n)
    BY <2>4, PaddedTail
  <2> QED BY <1>2, <2>5 DEF tail, Endings
<1> QED BY <1>1, <1>2

(* SHA256_Final, SHA512_Final: with the bytes that are left in the buffer, *)
(* the padded message has been hashed                                      *)
LEMMA FinalPadded ==
  ASSUME IInv, CountInv, Final
  PROVE blocks' = D!Padded(length) /\ result' = <<blocks', order>>
<1> DEFINE n == length
           q == Len(blocks)
           m == num
           marked == Overlay(data, num, <<One>>)
           spill == Spills(num + 1)
           c == IF spill THEN 0 ELSE num + 1
           filled == IF spill THEN Overlay(marked, num + 1, D!Zeros(B - (num + 1)))
                     ELSE marked
           zeroed == Overlay(filled, c, D!Zeros(B - L - c))
           halves == D!BigEndian(Nh, L \div 2) \o D!BigEndian(Nl, L \div 2)
           last == Overlay(zeroed, B - L, halves)
<1>0. /\ open /\ B \in Nat /\ L \in Nat /\ L < B /\ L > 0
      /\ num \in 0..(B - 1) /\ n \in Nat /\ n = B * q + num /\ blocks = Whole(0, q)
  BY BlockAssumption DEF Final, IInv, LengthInv, BytesAccounted
<1>1. q \in Nat
  BY <1>0 DEF Whole
<1>2. Split(n, q, m)
  BY <1>0, <1>1 DEF Split
<1>3. blocks' = blocks \o (IF spill THEN <<filled>> ELSE << >>) \o <<last>>
  BY DEF Final
<1>4. halves = Length(n)
  BY <1>0, Halves
<1>5. Len(Length(n)) = L
  <2>1. n * ByteBits \in Nat /\ L \in Nat
    BY <1>0, BlockAssumption
  <2> QED BY <2>1, BigEndianFacts DEF Length
<1>6. Marked(marked, q, m)
  <2>1. \A i \in 1..B : marked[i] = IF i = m + 1 THEN One ELSE data[i]
    <3>1. \A i \in 1..B : marked[i] = IF i - m \in 1..1 THEN <<One>>[i - m] ELSE data[i]
      BY DEF Overlay
    <3>2. \A i \in 1..B : (i - m \in 1..1) <=> i = m + 1
      BY <1>0
    <3>3. \A i \in 1..B : i = m + 1 => i - m = 1
      BY <1>0
    <3> QED BY <3>1, <3>2, <3>3
  <2>2. m + 1 \in 1..B /\ \A i \in 1..B : i <= m => i \in 1..m /\ i # m + 1
    BY <1>0
  <2> QED BY <1>0, <2>1, <2>2 DEF Marked, IInv, PartialBlockKept
<1> HIDE DEF marked, q, n
<1>7. ASSUME spill
      PROVE filled = PadBlock(n, q + 1)
  <2>1. filled = Overlay(marked, m + 1, D!Zeros(B - (m + 1)))
    BY <1>7
  <2>2. Len(D!Zeros(B - (m + 1))) = B - (m + 1)
        /\ \A i \in 1..(B - (m + 1)) : D!Zeros(B - (m + 1))[i] = D!Value(0)
    <3>1. B - (m + 1) \in Nat
      BY <1>0
    <3> QED BY <3>1, PadParts
  <2>3. \A i \in 1..B : filled[i] = IF i > m + 1 THEN D!Value(0) ELSE marked[i]
    <3>1. \A i \in 1..B : filled[i] = IF i - (m + 1) \in 1..(B - (m + 1))
                                      THEN D!Zeros(B - (m + 1))[i - (m + 1)]
                                      ELSE marked[i]
      BY <2>1, <2>2 DEF Overlay
    <3>2. \A i \in 1..B : (i - (m + 1) \in 1..(B - (m + 1))) <=> i > m + 1
      BY <1>0
    <3> QED BY <2>2, <3>1, <3>2
  <2>4. Marked(filled, q, m)
    <3>1. m + 1 \in 1..B /\ ~(m + 1 > m + 1) /\ \A i \in 1..B : i <= m => ~(i > m + 1)
      BY <1>0
    <3> QED BY <1>6, <2>3, <3>1 DEF Marked
  <2>5. filled = [i \in 1..B |-> filled[i]]
    BY <2>1 DEF Overlay
  <2> HIDE DEF filled
  <2> QED BY <1>2, <1>7, <2>3, <2>4, <2>5, SpilledIsPadBlock
<1>8. spill \/ Marked(filled, q, m)
  BY <1>6
<1> HIDE DEF filled
<1>9. c = FillFrom(m) /\ c \in 0..(B - L) /\ B - L - c \in Nat
  <2>1. ~spill => num + 1 <= B - L
    BY <1>0 DEF Spills
  <2> QED BY <1>0, <2>1 DEF FillFrom
<1> HIDE DEF c
<1>10. \A i \in 1..B : zeroed[i] = IF i > c /\ i <= B - L THEN D!Value(0) ELSE filled[i]
  <2>1. /\ Len(D!Zeros(B - L - c)) = B - L - c
        /\ \A i \in 1..(B - L - c) : D!Zeros(B - L - c)[i] = D!Value(0)
    BY <1>9, PadParts
  <2>2. \A i \in 1..B : zeroed[i] = IF i - c \in 1..(B - L - c)
                                    THEN D!Zeros(B - L - c)[i - c] ELSE filled[i]
    BY <2>1 DEF Overlay
  <2>3. \A i \in 1..B : (i - c \in 1..(B - L - c)) <=> (i > c /\ i <= B - L)
    BY <1>0, <1>9
  <2> QED BY <2>1, <2>2, <2>3
<1> HIDE DEF zeroed
<1>11. \A i \in 1..B : last[i] = IF i > B - L THEN Length(n)[i - (B - L)] ELSE zeroed[i]
  <2>1. \A i \in 1..B : last[i] = IF i - (B - L) \in 1..L
                                  THEN Length(n)[i - (B - L)] ELSE zeroed[i]
    BY <1>4, <1>5 DEF Overlay
  <2>2. \A i \in 1..B : (i - (B - L) \in 1..L) <=> i > B - L
    BY <1>0
  <2> QED BY <2>1, <2>2
<1>12. last = [i \in 1..B |-> last[i]]
  BY DEF Overlay
<1> HIDE DEF last
<1>13. Filled(last, filled, n, c)
  <2>1. \A i \in 1..B : i <= c => ~(i > B - L) /\ ~(i > c)
    BY <1>0, <1>9
  <2>2. \A i \in 1..B : i <= B - L => ~(i > B - L)
    BY <1>0
  <2> QED BY <1>10, <1>11, <1>12, <2>1, <2>2 DEF Filled
<1>14. last = PadBlock(n, q + TailCount(m))
  BY <1>2, <1>8, <1>9, <1>13, LastIsPadBlock
<1>15. Completes(n, q, m, filled, last)
  BY <1>7, <1>14 DEF Completes
<1>16. Whole(0, q) \o Endings(m, filled, last) = D!Padded(n)
  BY <1>2, <1>15, Completed
<1>17. blocks' = D!Padded(n)
  <2>1. CASE spill
    <3>1. Whole(0, q) \o <<filled, last>> = D!Padded(n)
      BY <1>16, <2>1 DEF Endings
    <3>2. blocks \in Seq(AnyBlock) /\ <<filled>> \in Seq(AnyBlock) /\ <<last>> \in Seq(AnyBlock)
      <4>1. TailCount(m) = 2 /\ 1 \in 1..2 /\ 2 \in 1..2
        BY <2>1 DEF TailCount
      <4>2. filled \in AnyBlock /\ last \in AnyBlock
        BY <1>2, <1>7, <1>14, <2>1, <4>1, PadBlockType
      <4> QED BY <1>0, <1>1, <4>2, WholeBlocks
    <3>3. (blocks \o <<filled>>) \o <<last>> = blocks \o (<<filled>> \o <<last>>)
      BY <3>2, ConcatAssociative
    <3>4. <<filled>> \o <<last>> = <<filled, last>>
      BY PairConcat
    <3> QED BY <1>0, <1>3, <2>1, <3>1, <3>3, <3>4
  <2>2. CASE ~spill
    <3>1. Whole(0, q) \o <<last>> = D!Padded(n)
      BY <1>16, <2>2 DEF Endings
    <3>2. blocks \o << >> = blocks
      BY <1>0, <1>1, WholeBlocks
    <3> QED BY <1>0, <1>3, <2>2, <3>1, <3>2
  <2> QED BY <2>1, <2>2
<1>18. result' = <<blocks', order>>
  BY DEF Final
<1> QED BY <1>17, <1>18 DEF n

(* the number of bytes up to the highest that is not zero                  *)
Highest(bits) ==
  IF LengthBytes(bits) = {} THEN 0
  ELSE CHOOSE i \in LengthBytes(bits) : \A j \in LengthBytes(bits) : j <= i

LEMMA HighestFacts ==
  ASSUME NEW bits \in Nat
  PROVE /\ Highest(bits) \in 0..L
        /\ \A j \in (Highest(bits) + 1)..L : bits < Pow2[ByteBits * (j - 1)]
<1> DEFINE S == LengthBytes(bits)
<1>0. L \in Nat /\ ByteBits \in Nat
  BY BlockAssumption
<1>1. S \subseteq 1..L
  BY DEF LengthBytes
<1>2. ASSUME NEW j \in 1..L, j \notin S PROVE bits < Pow2[ByteBits * (j - 1)]
  <2>1. PICK e \in Nat : e = ByteBits * (j - 1)
    BY <1>0
  <2>2. ~(bits >= Pow2[e])
    BY <1>2, <2>1 DEF LengthBytes
  <2>3. Pow2[e] \in Nat
    BY Pow2Positive
  <2> QED BY <2>1, <2>2, <2>3
<1> HIDE DEF S
<1>3. CASE S = {}
  <2>1. Highest(bits) = 0
    BY <1>3 DEF Highest, S
  <2> QED BY <1>0, <1>2, <1>3, <2>1
<1>4. CASE S # {}
  <2> DEFINE T == {L - x : x \in S}
  <2>1. T \subseteq Nat /\ T # {}
    <3>1. \A x \in S : L - x \in Nat
      BY <1>0, <1>1
    <3>2. PICK x \in S : TRUE
      BY <1>4
    <3>3. L - x \in T
      BY <3>2
    <3> QED BY <3>1, <3>3
  <2> HIDE DEF T
  <2>2. PICK t \in T : \A y \in T : t <= y
    BY <2>1, LeastElement
  <2>3. PICK x \in S : t = L - x
    BY <2>2 DEF T
  <2>4. ASSUME NEW j \in S PROVE j <= x
    <3>1. t <= L - j
      BY <2>2 DEF T
    <3> QED BY <1>0, <1>1, <2>3, <3>1
  <2>5. \E i \in S : \A j \in S : j <= i
    BY <2>4
  <2>6. Highest(bits) = CHOOSE i \in S : \A j \in S : j <= i
    BY <1>4 DEF Highest, S
  <2>7. Highest(bits) \in S /\ \A j \in S : j <= Highest(bits)
    BY <2>5, <2>6
  <2>8. PICK k \in S : k = Highest(bits)
    BY <2>7
  <2>9. k \in 1..L /\ \A j \in S : j <= k
    BY <1>1, <2>7, <2>8
  <2>10. ASSUME NEW j \in (k + 1)..L PROVE bits < Pow2[ByteBits * (j - 1)]
    <3>1. j \in 1..L /\ ~(j <= k)
      BY <1>0, <2>9
    <3> QED BY <1>2, <2>9, <3>1
  <2> QED BY <1>0, <2>8, <2>9, <2>10
<1> QED BY <1>3, <1>4

(* the last block of sha256_hash and sha512_hash is filled                 *)
LEMMA LastBlockFilled ==
  ASSUME NEW n \in Nat, NEW c \in 0..(B - L), NEW buf
  PROVE Filled(LastBlock(buf, c, n * ByteBits), buf, n, c)
<1> DEFINE bits == n * ByteBits
           k == Highest(bits)
           Q == Pow2[ByteBits]
           cleared == [i \in 1..B |-> IF i \in (c + 1)..(B - k) THEN D!Value(0) ELSE buf[i]]
           f == Overlay(cleared, B - k, D!BigEndian(bits, k))
<1>0. B \in Nat /\ L \in Nat /\ L < B /\ bits \in Nat /\ ByteBits \in Nat
  BY BlockAssumption
<1>1. LastBlock(buf, c, bits) = f
  BY DEF LastBlock, Highest
<1> HIDE DEF bits
<1>2. k \in 0..L /\ \A j \in (k + 1)..L : bits < Pow2[ByteBits * (j - 1)]
  BY <1>0, HighestFacts
<1> HIDE DEF k
<1>3. /\ Len(D!BigEndian(bits, k)) = k
      /\ \A i \in 1..k : D!BigEndian(bits, k)[i] =
           D!Value((bits \div Pow2[ByteBits * (k - i)]) % Q)
  <2>1. k \in Nat
    BY <1>2
  <2> QED BY <1>0, <2>1, BigEndianFacts, Zenon DEF Q
<1>4. \A i \in 1..L : Length(n)[i] = D!Value((bits \div Pow2[ByteBits * (L - i)]) % Q)
  BY <1>0, BigEndianFacts, Zenon DEF Q, Length, bits
<1>5. \A i \in 1..B : f[i] = IF i - (B - k) \in 1..k THEN D!BigEndian(bits, k)[i - (B - k)]
                             ELSE cleared[i]
  BY <1>3 DEF Overlay
<1>6. f = [i \in 1..B |-> f[i]]
  BY DEF Overlay
<1>7. \A i \in 1..B : cleared[i] = IF i \in (c + 1)..(B - k) THEN D!Value(0) ELSE buf[i]
  OBVIOUS
<1> HIDE DEF f, cleared
<1>8. ASSUME NEW i \in 1..B, i <= c PROVE f[i] = buf[i]
  <2>1. ~(i - (B - k) \in 1..k) /\ ~(i \in (c + 1)..(B - k))
    BY <1>0, <1>2, <1>8
  <2> QED BY <1>5, <1>7, <2>1
<1>9. ASSUME NEW i \in 1..B, i > c, i <= B - L PROVE f[i] = D!Value(0)
  <2>1. ~(i - (B - k) \in 1..k) /\ i \in (c + 1)..(B - k)
    BY <1>0, <1>2, <1>9
  <2> QED BY <1>5, <1>7, <2>1
<1>10. ASSUME NEW i \in 1..B, i > B - L PROVE f[i] = Length(n)[i - (B - L)]
  <2>1. PICK l \in 1..L : l = i - (B - L)
    BY <1>0, <1>10
  <2>2. PICK e \in 0..(L - 1) : e = L - l
    BY <1>0
  <2>3. Length(n)[l] = D!Value((bits \div Pow2[ByteBits * e]) % Q)
    BY <1>4, <2>2
  <2>4. CASE i <= B - k
    <3>1. ~(i - (B - k) \in 1..k) /\ i \in (c + 1)..(B - k)
      BY <1>0, <1>2, <1>10, <2>4
    <3>2. f[i] = D!Value(0)
      BY <1>5, <1>7, <3>1
    <3>3. bits < Pow2[ByteBits * e]
      <4>1. PICK j \in (k + 1)..L : j - 1 = e
        <5>1. e + 1 \in (k + 1)..L /\ (e + 1) - 1 = e
          BY <1>0, <1>2, <2>1, <2>2, <2>4
        <5> QED BY <5>1
      <4> QED BY <1>2, <4>1
    <3>4. PICK d \in Nat \ {0} : d = Pow2[ByteBits * e]
      <4>1. ByteBits * e \in Nat
        BY <1>0, <2>2
      <4> QED BY <4>1, Pow2Positive
    <3>5. bits \div d = 0
      <4>1. IsDivMod(bits, d, 0, bits)
        BY <1>0, <3>3, <3>4 DEF IsDivMod
      <4> QED BY <4>1, DivModUnique
    <3>6. 0 % Q = 0
      <4>1. IsDivMod(0, Q, 0, 0)
        BY <1>0, Pow2Positive DEF IsDivMod
      <4> QED BY <4>1, DivModUnique
    <3> QED BY <2>1, <2>3, <3>2, <3>4, <3>5, <3>6
  <2>5. CASE ~(i <= B - k)
    <3>1. PICK p \in 1..k : p = i - (B - k)
      BY <1>0, <1>2, <2>5
    <3>2. k - p = e
      BY <1>0, <1>2, <2>1, <2>2, <3>1
    <3>3. f[i] = D!BigEndian(bits, k)[p]
      BY <1>5, <3>1
    <3>4. D!BigEndian(bits, k)[p] = D!Value((bits \div Pow2[ByteBits * e]) % Q)
      BY <1>3, <3>2
    <3> QED BY <2>1, <2>3, <3>3, <3>4
  <2> QED BY <2>4, <2>5
<1>11. Filled(f, buf, n, c)
  BY <1>6, <1>8, <1>9, <1>10 DEF Filled
<1> QED BY <1>1, <1>11 DEF bits

(* sha256_hash, sha512_hash: the padded message has been hashed            *)
LEMMA HashPadded == ASSUME NEW n \in Nat PROVE sha_hash(n) = D!Padded(n)
<1> DEFINE q == n \div B
           m == n % B
           from == n - m
           bits == n * ByteBits
           s == Data(from, m) \o <<One>>
           bp == Overlay(Unset, 0, s)
           spilled == Overlay(bp, m + 1, D!Zeros(B - (m + 1)))
           last == IF Spills(m + 1) THEN LastBlock(spilled, 0, bits)
                   ELSE LastBlock(bp, m + 1, bits)
<1>0. B \in Nat /\ L \in Nat /\ L < B /\ L > 0
  BY BlockAssumption
<1>1. q \in Nat /\ m \in 0..(B - 1) /\ n = B * q + m
  BY DivMod
<1>2. sha_hash(n) = Whole(0, q) \o Endings(m, spilled, last)
  BY DEF sha_hash, LastBlocks, Endings
<1> HIDE DEF q, m
<1>3. Split(n, q, m)
  BY <1>1 DEF Split
<1>4. from \in Nat /\ from = B * q /\ m \in Nat /\ m + 1 \in 1..B
  BY <1>0, <1>1
<1> HIDE DEF from
<1>5. /\ Len(s) = m + 1 /\ s[m + 1] = One
      /\ \A i \in 1..m : s[i] = D!DataByte(from + i)
  <2> DEFINE d == Data(from, m)
  <2>1. /\ d \in Seq(DataBytes) /\ Len(d) = m
        /\ \A i \in 1..m : d[i] = D!DataByte(from + i)
    BY <1>4, DataFacts
  <2> HIDE DEF d
  <2>2. d \in Seq(AnyByte) /\ <<One>> \in Seq(AnyByte) /\ Len(<<One>>) = 1 /\ <<One>>[1] = One
    <3>1. DataBytes \subseteq AnyByte /\ 0 \in Nat
      BY DEF AnyByte
    <3>2. <<One>> \in Seq(AnyByte) /\ Len(<<One>>) = 1 /\ <<One>>[1] = One
      BY <3>1, PadParts
    <3> QED BY <2>1, <3>1, <3>2
  <2>3. /\ Len(d \o <<One>>) = Len(d) + Len(<<One>>)
        /\ \A i \in 1..(Len(d) + Len(<<One>>)) :
             (d \o <<One>>)[i] = IF i <= Len(d) THEN d[i] ELSE <<One>>[i - Len(d)]
    BY <2>2, ConcatProperties
  <2>4. s = d \o <<One>>
    BY DEF d
  <2> HIDE DEF s
  <2>5. s[m + 1] = One
    <3>1. m + 1 \in 1..(m + 1) /\ ~(m + 1 <= m) /\ (m + 1) - m = 1
      BY <1>4
    <3> QED BY <2>1, <2>2, <2>3, <2>4, <3>1
  <2> QED BY <1>4, <2>1, <2>2, <2>3, <2>4, <2>5
<1> HIDE DEF s
<1>6. \A i \in 1..B : i <= m + 1 => bp[i] = s[i]
  <2>1. \A i \in 1..B : bp[i] = IF i - 0 \in 1..(m + 1) THEN s[i - 0] ELSE Unset[i]
    BY <1>5 DEF Overlay
  <2>2. \A i \in 1..B : i - 0 = i /\ (i <= m + 1 => i \in 1..(m + 1))
    BY <1>4
  <2> QED BY <2>1, <2>2
<1>7. Marked(bp, q, m)
  <2>1. m + 1 <= m + 1 /\ \A i \in 1..B : i <= m => i \in 1..m /\ i <= m + 1
    BY <1>4
  <2> QED BY <1>4, <1>5, <1>6, <2>1 DEF Marked
<1> HIDE DEF bp
<1>8. \A i \in 1..B : spilled[i] = IF i > m + 1 THEN D!Value(0) ELSE bp[i]
  <2>1. /\ Len(D!Zeros(B - (m + 1))) = B - (m + 1)
        /\ \A i \in 1..(B - (m + 1)) : D!Zeros(B - (m + 1))[i] = D!Value(0)
    <3>1. B - (m + 1) \in Nat
      BY <1>0, <1>4
    <3> QED BY <3>1, PadParts
  <2>2. \A i \in 1..B : spilled[i] = IF i - (m + 1) \in 1..(B - (m + 1))
                                     THEN D!Zeros(B - (m + 1))[i - (m + 1)] ELSE bp[i]
    BY <2>1 DEF Overlay
  <2>3. \A i \in 1..B : (i - (m + 1) \in 1..(B - (m + 1))) <=> i > m + 1
    BY <1>0, <1>4
  <2> QED BY <2>1, <2>2, <2>3
<1>9. spilled = [i \in 1..B |-> spilled[i]]
  BY DEF Overlay
<1> HIDE DEF spilled
<1>10. Marked(spilled, q, m)
  <2>1. ~(m + 1 > m + 1) /\ \A i \in 1..B : i <= m => ~(i > m + 1)
    BY <1>4
  <2> QED BY <1>4, <1>7, <1>8, <2>1 DEF Marked
<1>11. Spills(m + 1) => spilled = PadBlock(n, q + 1)
  BY <1>3, <1>8, <1>9, <1>10, SpilledIsPadBlock
<1>12. last = PadBlock(n, q + TailCount(m))
  <2>1. CASE Spills(m + 1)
    <3>1. last = LastBlock(spilled, 0, bits) /\ FillFrom(m) = 0 /\ 0 \in 0..(B - L)
      BY <1>0, <2>1 DEF FillFrom
    <3>2. Filled(last, spilled, n, FillFrom(m))
      BY <3>1, LastBlockFilled
    <3> QED BY <1>3, <2>1, <3>2, LastIsPadBlock
  <2>2. CASE ~Spills(m + 1)
    <3>1. last = LastBlock(bp, m + 1, bits) /\ FillFrom(m) = m + 1 /\ m + 1 \in 0..(B - L)
      BY <1>0, <1>4, <2>2 DEF FillFrom, Spills
    <3>2. Filled(last, bp, n, FillFrom(m))
      BY <3>1, LastBlockFilled
    <3> QED BY <1>3, <1>7, <3>2, LastIsPadBlock
  <2> QED BY <2>1, <2>2
<1> HIDE DEF last
<1>13. Completes(n, q, m, spilled, last)
  BY <1>11, <1>12 DEF Completes
<1>14. Whole(0, q) \o Endings(m, spilled, last) = D!Padded(n)
  BY <1>3, <1>13, Completed
<1> QED BY <1>2, <1>14

(* the vector forms store their words in the order of the digest           *)
LEMMA VecOrdered == Reorder(VecOrder) = Ordered
<1>1. VecOrder \in [0..7 -> Nat]
  BY DEF VecOrder
<1>2. /\ VecOrder[0] = 5 /\ VecOrder[1] = 4 /\ VecOrder[2] = 1 /\ VecOrder[3] = 0
      /\ VecOrder[4] = 7 /\ VecOrder[5] = 6 /\ VecOrder[6] = 3 /\ VecOrder[7] = 2
  BY DEF VecOrder
<1>3. ASSUME NEW i \in 0..7 PROVE Reorder(VecOrder)[i] = i
  <2>1. i = 0 \/ i = 1 \/ i = 2 \/ i = 3 \/ i = 4 \/ i = 5 \/ i = 6 \/ i = 7
    OBVIOUS
  <2> QED BY <1>2, <2>1 DEF Reorder
<1> QED BY <1>3 DEF Reorder, Ordered

------------------------------------------------------------------------------
(* The contexts and the one-call forms implement Digest                    *)

LEMMA InitDigest == ASSUME Init PROVE D!Init
BY DEF Init, D!Init

LEMMA NextDigest ==
  ASSUME IInv, CountInv, [Next]_vars PROVE [D!Next]_<<length, result>>
<1>0. MaxLen \in Nat
  BY BlockAssumption
<1>1. CASE ShaInit
  BY <1>1 DEF ShaInit, D!Next, D!Restart
<1>2. ASSUME NEW n \in 0..MaxLen, NEW aligned \in BOOLEAN, Update(n, aligned)
      PROVE D!Next
  <2>1. /\ result = << >> /\ result' = result /\ length' = length + n
        /\ length \in Nat /\ n \in 0..(MaxLen - length)
    BY <1>0, <1>2 DEF Update, CountInv
  <2>2. D!Absorb
    BY <2>1 DEF D!Absorb
  <2> QED BY <2>1, <2>2 DEF D!Next
<1>3. CASE Final
  <2>1. result = << >> /\ order = Ordered /\ length' = length
    BY <1>3 DEF Final, CountInv
  <2>2. result' = <<D!Padded(length), Ordered>>
    BY <1>3, <2>1, FinalPadded
  <2>3. result' = D!Digested(length)
    BY <2>2 DEF D!Digested, Ordered
  <2> QED BY <2>1, <2>3 DEF D!Next, D!Finish
<1>4. ASSUME NEW n \in 0..MaxLen, NEW vec \in BOOLEAN, Hash(n, vec) PROVE D!Next
  <2>1. /\ result' = <<blocks', order'>> /\ blocks' = sha_hash(n) /\ length' = n
        /\ order' = Ordered
    BY <1>4, VecOrdered DEF Hash
  <2>2. result' = D!Digested(n)
    <3>1. sha_hash(n) = D!Padded(n)
      BY <1>0, HashPadded
    <3> QED BY <2>1, <3>1 DEF D!Digested, Ordered
  <2> QED BY <2>1, <2>2 DEF D!Next, D!Hash
<1>5. CASE UNCHANGED vars
  BY <1>5 DEF vars
<1> QED BY <1>1, <1>2, <1>3, <1>4, <1>5 DEF Next

(* For every block size, length field, byte and bound: whatever the pieces *)
(* in which SHA256_Update or SHA512_Update took it, and by the one-call    *)
(* forms, scalar and vector, what is hashed is the padded message of the   *)
(* standard, and the words of the digest come out in order.                *)
THEOREM ContextsDigest == Spec => DigestSpec
<1>1. Init => D!Init
  BY InitDigest
<1>2. IInv /\ CountInv /\ [Next]_vars => [D!Next]_<<length, result>>
  BY NextDigest
<1> QED BY <1>1, <1>2, SpecIInv, SpecCountInv, PTL DEF Spec, DigestSpec, D!Spec
=============================================================================
