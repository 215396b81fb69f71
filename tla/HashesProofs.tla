---------------------------- MODULE HashesProofs ----------------------------
(***************************************************************************)
(* Both forms of the compression function of SHA-2 compute the standard's, *)
(* for every algebra of words, every message and every number of rounds    *)
(* that is a multiple of sixteen; the functions on words of the two forms  *)
(* are the standard's for every word; and sm3_256 computes SM3 for every   *)
(* message.                                                                *)
(***************************************************************************)
EXTENDS MCHashes, SequenceTheorems, FiniteSetTheorems, WellFoundedInduction, TLAPS

TypeInv ==
  /\ form \in {"scalar", "openssl"}
  /\ t \in 0..(Rounds + 1)
  /\ nw \in 16..Rounds
  /\ regs \in [0..7 -> Words] /\ v \in [0..7 -> Words]
  /\ m \in [0..15 -> Words] /\ w \in [0..(nw - 1) -> Words]
  /\ hash \in [0..7 -> Words] /\ hash0 \in [0..7 -> Words]

(* where the code is between its rounds and its schedule words             *)
Control ==
  /\ form = "scalar" /\ nw % 16 # 0 => t = nw - (nw % 16)
  /\ form = "openssl" /\ t <= Rounds => nw = IF t < 16 THEN 16 ELSE t
  /\ t <= Rounds => hash = hash0

IInv == TypeInv /\ Control /\ RegistersRotated /\ RingIsSchedule /\ ReturnsStandard

LEMMA Assoc == ASSUME NEW a \in Words, NEW b \in Words, NEW c \in Words
               PROVE Plus(a, Plus(b, c)) = Plus(Plus(a, b), c)
BY PlusAssumption

LEMMA Comm == ASSUME NEW a \in Words, NEW b \in Words
              PROVE Plus(a, b) \in Words /\ Plus(a, b) = Plus(b, a)
BY PlusAssumption

LEMMA Closed == \A a, b \in Words : Plus(a, b) \in Words
BY PlusAssumption

(* the four terms of a schedule word, in the orders of the two forms        *)
LEMMA FourTerms ==
  ASSUME NEW a \in Words, NEW b \in Words, NEW c \in Words, NEW d \in Words
  PROVE Plus(a, Plus(Plus(b, c), d)) = Plus(Plus(Plus(c, d), b), a)
<1>1. Plus(Plus(b, c), d) = Plus(b, Plus(c, d))
  BY Assoc
<1>2. Plus(b, Plus(c, d)) = Plus(Plus(c, d), b)
  BY Comm
<1>3. Plus(Plus(c, d), b) \in Words
  BY Comm
<1> QED BY <1>1, <1>2, <1>3, Comm

(* the renaming of the registers of SHA-2                                   *)
LEMMA RoleFacts ==
  ASSUME NEW i \in Nat, NEW q \in 0..7
  PROVE /\ Role(i, q) \in 0..7
        /\ \A k \in 0..7 : Role(i, q) = Role(i, k) => q = k
        /\ q > 0 => Role(i + 1, q) = Role(i, q - 1)
        /\ Role(i + 1, 0) = Role(i, 7)
        /\ i % 16 = 0 => Role(i, q) = q
BY DEF Role

(* a round of either form is the standard's, seen through the renaming     *)
LEMMA RoundIsMoved ==
  ASSUME NEW i \in Nat, NEW r \in [0..7 -> Words], NEW x \in [0..7 -> Words],
         NEW k \in Words, NEW wt \in Words,
         \A q \in 0..7 : r[Role(i, q)] = x[q]
  PROVE /\ ROUND(r, i, k, wt) = ROUND_00_15(r, i, k, wt)
        /\ ROUND(r, i, k, wt) \in [0..7 -> Words]
        /\ Moved(x, k, wt) \in [0..7 -> Words]
        /\ \A q \in 0..7 : ROUND(r, i, k, wt)[Role(i + 1, q)] = Moved(x, k, wt)[q]
<1> DEFINE u == Plus(Plus(Plus(x[7], SUM_1(x[4])), CH(x[4], x[5], x[6])), k)
           h == Plus(u, wt)
           s0 == SUM_0(x[0])
           mj == MAJ(x[0], x[1], x[2])
           new == [r EXCEPT ![Role(i, 3)] = Plus(x[3], h),
                            ![Role(i, 7)] = Plus(Plus(h, s0), mj)]
           mv == [q \in 0..7 |-> IF q = 0 THEN Plus(h, Plus(s0, mj))
                                 ELSE IF q = 4 THEN Plus(x[3], h) ELSE x[q - 1]]
<1>1. \A q \in 0..7 : x[q] \in Words
  OBVIOUS
<1>2. u \in Words
  BY <1>1, WordAssumption, Closed
<1>3. h \in Words /\ s0 \in Words /\ mj \in Words
  BY <1>1, <1>2, WordAssumption, Closed
<1>0. /\ r[Role(i, 0)] = x[0] /\ r[Role(i, 1)] = x[1] /\ r[Role(i, 2)] = x[2]
      /\ r[Role(i, 3)] = x[3] /\ r[Role(i, 4)] = x[4] /\ r[Role(i, 5)] = x[5]
      /\ r[Role(i, 6)] = x[6] /\ r[Role(i, 7)] = x[7]
  OBVIOUS
<1> HIDE DEF u, h, s0, mj
<1>4. Plus(wt, u) = h
  BY <1>2, Comm DEF h
<1>5. /\ Plus(Plus(h, s0), mj) = Plus(h, Plus(s0, mj))
      /\ Plus(Plus(s0, mj), h) = Plus(h, Plus(s0, mj))
      /\ Plus(h, Plus(s0, mj)) \in Words /\ Plus(x[3], h) \in Words
  <2>1. Plus(s0, mj) \in Words /\ Plus(x[3], h) \in Words
    BY <1>1, <1>3, Closed
  <2>2. Plus(h, Plus(s0, mj)) \in Words /\ Plus(h, Plus(s0, mj)) = Plus(Plus(s0, mj), h)
    BY <1>3, <2>1, Comm
  <2>3. Plus(h, Plus(s0, mj)) = Plus(Plus(h, s0), mj)
    BY <1>3, Assoc
  <2> QED
    BY <2>1, <2>2, <2>3
<1>6. ROUND(r, i, k, wt) = new
  BY <1>0 DEF ROUND, new, h, u, s0, mj
<1>7. ROUND_00_15(r, i, k, wt) = new
  <2>1. ROUND_00_15(r, i, k, wt) =
          [r EXCEPT ![Role(i, 3)] = Plus(x[3], Plus(wt, u)),
                    ![Role(i, 7)] = Plus(Plus(s0, mj), Plus(wt, u))]
    BY <1>0 DEF ROUND_00_15, u, s0, mj
  <2> QED BY <2>1, <1>4, <1>5 DEF new
<1>8. Moved(x, k, wt) = mv
  BY DEF Moved, mv, h, u, s0, mj
<1>9. new \in [0..7 -> Words] /\ mv \in [0..7 -> Words]
  BY <1>1, <1>5, RoleFacts DEF new, mv
<1>10. ASSUME NEW q \in 0..7 PROVE new[Role(i + 1, q)] = mv[q]
  <2>1. Role(i, 3) \in 0..7 /\ Role(i, 7) \in 0..7 /\ Role(i, 3) # Role(i, 7)
    BY RoleFacts
  <2>2. CASE q = 0
    BY <2>1, <2>2, <1>5, RoleFacts DEF new, mv
  <2>3. CASE q = 4
    BY <2>1, <2>3, RoleFacts DEF new, mv
  <2>4. CASE q # 0 /\ q # 4
    <3>1. q - 1 \in 0..7 /\ q - 1 # 3 /\ q - 1 # 7 /\ Role(i + 1, q) = Role(i, q - 1)
      BY <2>4, RoleFacts
    <3>2. /\ Role(i, q - 1) \in 0..7
          /\ Role(i, q - 1) # Role(i, 3) /\ Role(i, q - 1) # Role(i, 7)
      BY <3>1, RoleFacts
    <3>3. new[Role(i, q - 1)] = r[Role(i, q - 1)]
      BY <3>2, <2>1 DEF new
    <3> QED BY <3>1, <3>3, <2>4 DEF mv
  <2> QED BY <2>2, <2>3, <2>4
<1> QED BY <1>6, <1>7, <1>8, <1>9, <1>10

(* the word computed in place is the standard's next word                  *)
LEMMA WordInPlace ==
  ASSUME TypeInv, RingIsSchedule
  PROVE /\ SCHEDULE(m, nw) = NextW(w, nw) /\ ROUND_16_63(m, nw) = NextW(w, nw)
        /\ NextW(w, nw) \in Words
<1> DEFINE a == SIGMA_1(w[nw - 2])
           b == w[nw - 7]
           c == SIGMA_0(w[nw - 15])
           d == w[nw - 16]
<1>1. /\ nw \in Nat /\ nw >= 16
      /\ \A i \in (nw - 16)..(nw - 1) : m[i % 16] = w[i] /\ w[i] \in Words
  BY DEF TypeInv, RingIsSchedule
<1>2. /\ (nw + 14) % 16 = (nw - 2) % 16 /\ (nw + 9) % 16 = (nw - 7) % 16
      /\ (nw + 1) % 16 = (nw - 15) % 16 /\ nw % 16 = (nw - 16) % 16
  BY <1>1
<1>3. /\ m[(nw + 14) % 16] = w[nw - 2] /\ m[(nw + 9) % 16] = w[nw - 7]
      /\ m[(nw + 1) % 16] = w[nw - 15] /\ m[nw % 16] = w[nw - 16]
  BY <1>1, <1>2
<1>4. a \in Words /\ b \in Words /\ c \in Words /\ d \in Words
  BY <1>1, WordAssumption
<1>5. /\ SCHEDULE(m, nw) = Plus(Plus(Plus(a, b), c), d)
      /\ ROUND_16_63(m, nw) = Plus(d, Plus(Plus(c, a), b))
      /\ NextW(w, nw) = Plus(Plus(Plus(a, b), c), d)
  BY <1>3 DEF SCHEDULE, ROUND_16_63, NextW
<1> HIDE DEF a, b, c, d
<1> QED BY <1>4, <1>5, FourTerms, Comm

(* the invariant of the rounds of SHA-2, action by action                   *)
LEMMA InitIInv == ASSUME Init PROVE IInv
<1>0. Rounds >= 16
  BY RoundAssumption
<1>1. Rounds >= 16 /\ m \in [0..15 -> Words] /\ hash \in [0..7 -> Words]
  BY <1>0, RoundAssumption DEF Init
<1>2. TypeInv /\ Control
  BY <1>1, RoundAssumption DEF Init, TypeInv, Control
<1>3. RegistersRotated
  BY RoleFacts DEF Init, RegistersRotated
<1>4. RingIsSchedule /\ ReturnsStandard
  BY <1>1, RoundAssumption DEF Init, RingIsSchedule, ReturnsStandard
<1> QED BY <1>2, <1>3, <1>4 DEF IInv

(* the word of the next round                                              *)
LEMMA NextWord ==
  ASSUME IInv, t \in Nat, t < nw, t < Rounds
  PROVE m[t % 16] = w[t] /\ w[t] \in Words /\ K[t] \in Words
<1>1. t \in (nw - 16)..(nw - 1) /\ t \in 0..(nw - 1) /\ t \in 0..(Rounds - 1)
  BY RoundAssumption DEF IInv, TypeInv, RingIsSchedule
<1> QED BY <1>1, RoundAssumption DEF IInv, TypeInv, RingIsSchedule

(* what a round does to the registers and the standard's variables         *)
LEMMA RoundStep ==
  ASSUME IInv, t \in Nat, t < Rounds, t' = t + 1,
         NEW wt \in Words, NEW k \in Words,
         regs' = ROUND(regs, t, k, wt) \/ regs' = ROUND_00_15(regs, t, k, wt),
         v' = Moved(v, k, wt)
  PROVE regs' \in [0..7 -> Words] /\ v' \in [0..7 -> Words] /\ RegistersRotated'
<1>1. /\ \A q \in 0..7 : regs[Role(t, q)] = v[q]
      /\ regs \in [0..7 -> Words] /\ v \in [0..7 -> Words]
  BY RoundAssumption DEF IInv, TypeInv, RegistersRotated
<1>2. /\ regs' = ROUND(regs, t, k, wt) /\ regs' \in [0..7 -> Words]
      /\ v' \in [0..7 -> Words]
      /\ \A q \in 0..7 : regs'[Role(t + 1, q)] = v'[q]
  BY <1>1, RoundIsMoved
<1> QED BY <1>2 DEF RegistersRotated

(* what a new schedule word does to the ring                               *)
LEMMA RingStep ==
  ASSUME IInv, nw < Rounds, WordComputed, m' = [m EXCEPT ![nw % 16] = NextW(w, nw)]
  PROVE /\ nw' = nw + 1 /\ nw' \in 16..Rounds
        /\ m' \in [0..15 -> Words] /\ w' \in [0..(nw' - 1) -> Words]
        /\ \A i \in (nw' - 16)..(nw' - 1) : m'[i % 16] = w'[i]
<1>1. /\ nw \in 16..Rounds /\ nw' = nw + 1 /\ nw' \in 16..Rounds
      /\ nw % 16 \in 0..15 /\ NextW(w, nw) \in Words
  BY WordInPlace, RoundAssumption DEF IInv, TypeInv, WordComputed
<1>2. m' \in [0..15 -> Words] /\ w' \in [0..(nw' - 1) -> Words]
  <2>1. m' \in [0..15 -> Words]
    BY <1>1 DEF IInv, TypeInv
  <2>2. \A i \in 0..nw : i < nw => w[i] \in Words
    BY <1>1 DEF IInv, TypeInv
  <2>3. w' \in [0..nw -> Words]
    BY <1>1, <2>2 DEF WordComputed
  <2>4. nw' - 1 = nw
    BY <1>1
  <2> QED
    BY <2>1, <2>3, <2>4
<1>3. ASSUME NEW i \in (nw' - 16)..(nw' - 1) PROVE m'[i % 16] = w'[i]
  <2>1. CASE i = nw
    BY <1>1, <2>1 DEF IInv, TypeInv, WordComputed
  <2>2. CASE i # nw
    <3>1. i \in (nw - 16)..(nw - 1) /\ i % 16 # nw % 16 /\ i % 16 \in 0..15 /\ i \in 0..nw
      BY <1>1, <2>2
    <3>2. m'[i % 16] = m[i % 16]
      BY <3>1, <1>1 DEF IInv, TypeInv
    <3>3. w'[i] = w[i]
      BY <3>1, <1>1 DEF WordComputed
    <3> QED BY <3>1, <3>2, <3>3 DEF IInv, RingIsSchedule
  <2> QED BY <2>1, <2>2
<1> QED BY <1>1, <1>2, <1>3

LEMMA NextIInv == ASSUME IInv, [Next]_vars PROVE IInv'
<1>0. /\ t \in Nat /\ Rounds \in Nat /\ Rounds % 16 = 0 /\ nw \in 16..Rounds
  BY RoundAssumption DEF IInv, TypeInv
<1>1. CASE ScalarRound
  <2>1. t < Rounds /\ m[t % 16] = w[t] /\ w[t] \in Words /\ K[t] \in Words
    BY <1>0, <1>1, NextWord DEF ScalarRound
  <2>2. regs' \in [0..7 -> Words] /\ v' \in [0..7 -> Words] /\ RegistersRotated'
    BY <1>0, <1>1, <2>1, RoundStep DEF ScalarRound
  <2>3. TypeInv'
    BY <1>0, <1>1, <2>1, <2>2 DEF ScalarRound, IInv, TypeInv
  <2>4. Control' /\ RingIsSchedule' /\ ReturnsStandard'
    BY <1>0, <1>1, <2>1 DEF ScalarRound, IInv, Control, RingIsSchedule, ReturnsStandard
  <2> QED BY <2>2, <2>3, <2>4 DEF IInv
<1>2. CASE ScalarSchedule
  <2>1. nw < Rounds
    BY <1>0, <1>2 DEF ScalarSchedule, IInv, RingIsSchedule, Control
  <2>2. m' = [m EXCEPT ![nw % 16] = NextW(w, nw)]
    BY <1>2, WordInPlace DEF ScalarSchedule, IInv
  <2>3. /\ nw' = nw + 1 /\ nw' \in 16..Rounds
        /\ m' \in [0..15 -> Words] /\ w' \in [0..(nw' - 1) -> Words]
        /\ \A i \in (nw' - 16)..(nw' - 1) : m'[i % 16] = w'[i]
    BY <1>2, <2>1, <2>2, RingStep DEF ScalarSchedule
  <2>4. TypeInv'
    BY <1>2, <2>3 DEF ScalarSchedule, IInv, TypeInv
  <2>5. t = nw - (nw % 16)
    BY <1>0, <1>2 DEF ScalarSchedule, IInv, Control
  <2>6. Control'
    BY <1>0, <1>2, <2>3, <2>5 DEF ScalarSchedule, IInv, Control
  <2>7. RingIsSchedule'
    BY <1>0, <1>2, <2>3, <2>5 DEF ScalarSchedule, RingIsSchedule
  <2>8. RegistersRotated' /\ ReturnsStandard'
    BY <1>2 DEF ScalarSchedule, IInv, RegistersRotated, ReturnsStandard
  <2> QED BY <2>4, <2>6, <2>7, <2>8 DEF IInv
<1>3. CASE OpensslFirst
  <2>0. t < nw /\ t < Rounds /\ t % 16 = t
    BY <1>0, <1>3 DEF OpensslFirst
  <2>1. m[t] = w[t] /\ w[t] \in Words /\ K[t] \in Words
    BY <1>0, <2>0, NextWord
  <2>2. regs' \in [0..7 -> Words] /\ v' \in [0..7 -> Words] /\ RegistersRotated'
    BY <1>0, <1>3, <2>0, <2>1, RoundStep DEF OpensslFirst
  <2>3. TypeInv'
    BY <1>0, <1>3, <2>0, <2>2 DEF OpensslFirst, IInv, TypeInv
  <2>4. Control' /\ RingIsSchedule' /\ ReturnsStandard'
    BY <1>0, <1>3, <2>0
    DEF OpensslFirst, IInv, Control, RingIsSchedule, ReturnsStandard
  <2> QED BY <2>2, <2>3, <2>4 DEF IInv
<1>4. CASE OpensslRound
  <2>0. t \in 16..(Rounds - 1) /\ nw = t /\ nw < Rounds /\ t < Rounds /\ t % 16 \in 0..15
    BY <1>0, <1>4 DEF OpensslRound, IInv, Control
  <2>1. m' = [m EXCEPT ![nw % 16] = NextW(w, nw)]
    BY <1>4, <2>0, WordInPlace DEF OpensslRound, IInv
  <2>2. /\ nw' = nw + 1 /\ nw' \in 16..Rounds
        /\ m' \in [0..15 -> Words] /\ w' \in [0..(nw' - 1) -> Words]
        /\ \A i \in (nw' - 16)..(nw' - 1) : m'[i % 16] = w'[i]
    BY <1>4, <2>0, <2>1, RingStep DEF OpensslRound
  <2>3. m'[t % 16] = w'[t] /\ w'[t] \in Words /\ K[t] \in Words
    <3>1. t \in (nw' - 16)..(nw' - 1) /\ t \in 0..(nw' - 1) /\ t \in 0..(Rounds - 1)
      BY <2>0, <2>2, <1>0
    <3> QED BY <3>1, <2>2, RoundAssumption
  <2>4. regs' \in [0..7 -> Words] /\ v' \in [0..7 -> Words] /\ RegistersRotated'
    BY <1>0, <1>4, <2>0, <2>3, RoundStep DEF OpensslRound
  <2>5. TypeInv'
    BY <1>0, <1>4, <2>0, <2>2, <2>4 DEF OpensslRound, IInv, TypeInv
  <2>6. Control' /\ RingIsSchedule' /\ ReturnsStandard'
    BY <1>0, <1>4, <2>0, <2>2
    DEF OpensslRound, IInv, Control, RingIsSchedule, ReturnsStandard
  <2> QED BY <2>4, <2>5, <2>6 DEF IInv
<1>5. CASE AddBack
  <2>1. \A q \in 0..7 : regs[q] = v[q]
    BY <1>0, <1>5, RoleFacts DEF AddBack, IInv, RegistersRotated
  <2>2. hash' = [q \in 0..7 |-> Plus(hash0[q], v[q])]
    BY <1>0, <1>5, <2>1 DEF AddBack, IInv, Control
  <2>3. hash' \in [0..7 -> Words]
    BY <2>2, Comm DEF IInv, TypeInv
  <2>4. TypeInv' /\ Control'
    BY <1>0, <1>5, <2>3 DEF AddBack, IInv, TypeInv, Control
  <2>5. RegistersRotated' /\ RingIsSchedule' /\ ReturnsStandard'
    BY <1>0, <1>5, <2>2
    DEF AddBack, IInv, RegistersRotated, RingIsSchedule, ReturnsStandard
  <2> QED BY <2>4, <2>5 DEF IInv
<1>6. CASE UNCHANGED vars
  BY <1>6 DEF vars, IInv, TypeInv, Control, RegistersRotated, RingIsSchedule,
              ReturnsStandard
<1> QED BY <1>1, <1>2, <1>3, <1>4, <1>5, <1>6 DEF Next, Done

LEMMA SpecIInv == Spec => []IInv
<1>1. Init => IInv
  BY InitIInv
<1>2. IInv /\ [Next]_vars => IInv'
  BY NextIInv
<1> QED BY <1>1, <1>2, PTL DEF Spec

(* sha256_hash_block, sha512_hash_block and the OpenSSL functions return   *)
(* the standard's chaining value.                                          *)
THEOREM BlockIsStandard == Spec => []ReturnsStandard
<1>1. IInv => ReturnsStandard
  BY DEF IInv
<1> QED BY <1>1, SpecIInv, PTL

(* The sixteen words of the ring are the last sixteen of the schedule      *)
(* whenever they are read, although they are overwritten in place.         *)
THEOREM RingIsLastSixteen == Spec => []RingIsSchedule
<1>1. IInv => RingIsSchedule
  BY DEF IInv
<1> QED BY <1>1, SpecIInv, PTL

(* The renamed registers are the standard's moved ones.                    *)
THEOREM RenamingIsMoving == Spec => []RegistersRotated
<1>1. IInv => RegistersRotated
  BY DEF IInv
<1> QED BY <1>1, SpecIInv, PTL

------------------------------------------------------------------------------
(* SM3: words and bytes                                                    *)
Word32 == SUBSET (0..31)
Registers == [0..7 -> Word32]

(* the order of the numbers, for the least element of a set                 *)
LEMMA LessPair ==
  ASSUME NEW y \in Nat, NEW x \in Nat, y < x
  PROVE  <<y, x>> \in OpToRel(<, Nat)
BY DEF OpToRel

LEMMA LeastElement ==
  ASSUME NEW Q, Q \subseteq Nat, Q # {}
  PROVE \E x \in Q : \A y \in Q : x <= y
<1>1. \E x \in Q : \A y \in Q : ~(<<y, x>> \in OpToRel(<, Nat))
  BY NatLessThanWellFounded, WFMin
<1>2. PICK x \in Q : \A y \in Q : ~(<<y, x>> \in OpToRel(<, Nat))
  BY <1>1
<1>3. ASSUME NEW y \in Q PROVE x <= y
  <2>1. x \in Nat /\ y \in Nat
    OBVIOUS
  <2>2. ~(y < x)
    BY <1>2, <2>1, LessPair
  <2> QED BY <2>1, <2>2
<1> QED BY <1>3

(* a set that has 0 and the successor of each of its elements has all       *)
LEMMA AllNumbers ==
  ASSUME NEW Q, 0 \in Q, \A b \in Q : b + 1 \in Q
  PROVE  Nat \subseteq Q
<1> SUFFICES ASSUME NEW y \in Nat, y \notin Q PROVE FALSE
  OBVIOUS
<1> DEFINE R == Nat \ Q
<1>1. PICK x \in R : \A z \in R : x <= z
  <2>1. R \subseteq Nat /\ R # {}
    OBVIOUS
  <2> HIDE DEF R
  <2> QED
    BY <2>1, LeastElement
<1>2. x # 0 /\ x - 1 \in Nat
  BY <1>1
<1>3. x - 1 \in Q
  BY <1>1, <1>2
<1>4. (x - 1) + 1 \in Q
  BY <1>3
<1> QED
  BY <1>1, <1>2, <1>4

------------------------------------------------------------------------------
(* Addition of words                                                        *)
LEMMA CarryStarts ==
  ASSUME NEW x \in SUBSET Nat, NEW y \in SUBSET Nat
  PROVE  ~Carry(x, y, 0)
BY DEF Carry

LEMMA CarryGoesOn ==
  ASSUME NEW x \in SUBSET Nat, NEW y \in SUBSET Nat, NEW b \in Nat
  PROVE  Carry(x, y, b + 1)
           <=> (b \in x /\ b \in y) \/ (Carry(x, y, b) /\ (b \in x \/ b \in y))
<1>1. ASSUME b \in x, b \in y PROVE Carry(x, y, b + 1)
  BY <1>1 DEF Carry
<1>2. ASSUME Carry(x, y, b), b \in x \/ b \in y PROVE Carry(x, y, b + 1)
  <2>1. PICK i \in x \cap y : i < b /\ \A k \in (i + 1)..(b - 1) : k \in x \cup y
    BY <1>2 DEF Carry
  <2>2. \A k \in (i + 1)..((b + 1) - 1) : k \in x \cup y
    BY <2>1, <1>2
  <2> QED
    BY <2>1, <2>2 DEF Carry
<1>3. ASSUME Carry(x, y, b + 1), ~(b \in x /\ b \in y)
      PROVE  Carry(x, y, b) /\ (b \in x \/ b \in y)
  <2>1. PICK i \in x \cap y : i < b + 1 /\ \A k \in (i + 1)..((b + 1) - 1) : k \in x \cup y
    BY <1>3 DEF Carry
  <2>2. i < b
    BY <2>1, <1>3
  <2>3. b \in (i + 1)..((b + 1) - 1) /\ \A k \in (i + 1)..(b - 1) : k \in (i + 1)..((b + 1) - 1)
    BY <2>1, <2>2
  <2> QED
    BY <2>1, <2>2, <2>3 DEF Carry
<1> QED
  BY <1>1, <1>2, <1>3

LEMMA AddWord == \A x, y : Add(x, y, 32) \in Word32
BY DEF Add, Word32

LEMMA InSum ==
  ASSUME NEW x, NEW y, NEW b \in 0..31
  PROVE  b \in Add(x, y, 32) <=> (b \in x <=> (b \in y <=> Carry(x, y, b)))
<1>1. PICK c \in BOOLEAN : c = Carry(x, y, b)
  BY DEF Carry
<1>2. b \in Add(x, y, 32) <=> (((b \in x) # (b \in y)) # c)
  BY <1>1 DEF Add
<1> QED
  BY <1>1, <1>2

(* addition modulo 2^32, bit by bit with its carries                        *)
LEMMA AddCommutes ==
  ASSUME NEW x, NEW y
  PROVE  Add(x, y, 32) = Add(y, x, 32)
<1>1. ASSUME NEW b \in 0..31
      PROVE  b \in Add(x, y, 32) <=> b \in Add(y, x, 32)
  <2>1. Carry(x, y, b) <=> Carry(y, x, b)
    BY DEF Carry
  <2>2. /\ b \in Add(x, y, 32) <=> (b \in x <=> (b \in y <=> Carry(x, y, b)))
        /\ b \in Add(y, x, 32) <=> (b \in y <=> (b \in x <=> Carry(y, x, b)))
    BY InSum
  <2> QED
    BY <2>1, <2>2
<1> QED
  BY <1>1, AddWord DEF Word32

(* Adding three words in one order or in the other, the two carries into a  *)
(* place are the same ones, perhaps exchanged.                              *)
LEMMA AddAssociates ==
  ASSUME NEW x \in Word32, NEW y \in Word32, NEW z \in Word32
  PROVE  Add(Add(x, y, 32), z, 32) = Add(x, Add(y, z, 32), 32)
<1>1. PICK xy \in Word32 : xy = Add(x, y, 32)
  BY AddWord
<1>2. PICK yz \in Word32 : yz = Add(y, z, 32)
  BY AddWord
<1>3. /\ x \in SUBSET Nat /\ y \in SUBSET Nat /\ z \in SUBSET Nat
      /\ xy \in SUBSET Nat /\ yz \in SUBSET Nat
  BY DEF Word32
<1> DEFINE same(b) == /\ (Carry(x, y, b) /\ Carry(xy, z, b)) <=> (Carry(y, z, b) /\ Carry(x, yz, b))
                      /\ (Carry(x, y, b) \/ Carry(xy, z, b)) <=> (Carry(y, z, b) \/ Carry(x, yz, b))
           Q == {b \in Nat : b > 31 \/ same(b)}
<1>4. \A b \in 0..31 : /\ b \in xy <=> (b \in x <=> (b \in y <=> Carry(x, y, b)))
                       /\ b \in yz <=> (b \in y <=> (b \in z <=> Carry(y, z, b)))
  BY <1>1, <1>2, InSum
<1>5. 0 \in Q
  BY <1>3, CarryStarts
<1>6. ASSUME NEW b \in Q PROVE b + 1 \in Q
  <2>1. b \in Nat
    OBVIOUS
  <2>2. CASE b > 31
    BY <2>1, <2>2
  <2>3. CASE b \in 0..31 /\ same(b)
    <3>1. PICK cxy \in BOOLEAN, czy \in BOOLEAN, dyz \in BOOLEAN, dxy \in BOOLEAN :
            cxy = Carry(x, y, b) /\ czy = Carry(xy, z, b) /\ dyz = Carry(y, z, b) /\ dxy = Carry(x, yz, b)
      BY DEF Carry
    <3>2. /\ Carry(x, y, b + 1) <=> (b \in x /\ b \in y) \/ (cxy /\ (b \in x \/ b \in y))
          /\ Carry(xy, z, b + 1) <=> (b \in xy /\ b \in z) \/ (czy /\ (b \in xy \/ b \in z))
          /\ Carry(y, z, b + 1) <=> (b \in y /\ b \in z) \/ (dyz /\ (b \in y \/ b \in z))
          /\ Carry(x, yz, b + 1) <=> (b \in x /\ b \in yz) \/ (dxy /\ (b \in x \/ b \in yz))
      BY <1>3, <2>1, <3>1, CarryGoesOn
    <3>3. /\ b \in xy <=> (b \in x <=> (b \in y <=> cxy))
          /\ b \in yz <=> (b \in y <=> (b \in z <=> dyz))
      BY <1>4, <2>3, <3>1
    <3>4. /\ (cxy /\ czy) <=> (dyz /\ dxy)
          /\ (cxy \/ czy) <=> (dyz \/ dxy)
      BY <2>3, <3>1
    <3> HIDE DEF Q
    <3>5. same(b + 1)
      BY <3>2, <3>3, <3>4
    <3> QED
      BY <3>5, <2>1 DEF Q
  <2> QED
    BY <2>1, <2>2, <2>3
<1>7. Nat \subseteq Q
  <2> HIDE DEF Q
  <2> QED
    BY <1>5, <1>6, AllNumbers
<1>8. ASSUME NEW b \in 0..31
      PROVE  b \in Add(xy, z, 32) <=> b \in Add(x, yz, 32)
  <2>1. same(b)
    BY <1>7
  <2>2. /\ b \in Add(xy, z, 32) <=> (b \in xy <=> (b \in z <=> Carry(xy, z, b)))
        /\ b \in Add(x, yz, 32) <=> (b \in x <=> (b \in yz <=> Carry(x, yz, b)))
    BY InSum
  <2> QED
    BY <2>1, <2>2, <1>4
<1>9. Add(xy, z, 32) \subseteq 0..31 /\ Add(x, yz, 32) \subseteq 0..31
  BY DEF Add
<1> QED
  BY <1>1, <1>2, <1>8, <1>9

------------------------------------------------------------------------------
(* Rotations, bytes and their order                                         *)
LEMMA XorWord == \A x, y \in Word32 : Xor(x, y) \in Word32
BY DEF Xor, Word32

LEMMA RotatedWord == \A x \in Word32 : \A n \in Int : ROTL(x, n) \in Word32
<1> SUFFICES ASSUME NEW x \in Word32, NEW n \in Int, NEW c \in ROTL(x, n) PROVE c \in 0..31
  BY DEF Word32
<1>1. PICK b \in x : c = (b + n) % 32
  BY DEF ROTL, RotateL
<1>2. b + n \in Int
  BY DEF Word32
<1> QED
  BY <1>1, <1>2

(* where a bit of a rotated word comes from                                 *)
LEMMA InRotated ==
  ASSUME NEW x \in Word32, NEW n \in Int, NEW c \in 0..31
  PROVE  c \in ROTL(x, n) <=> (c - n) % 32 \in x
<1>1. ASSUME NEW b \in x, c = (b + n) % 32
      PROVE  (c - n) % 32 = b
  <2>1. b \in 0..31
    BY DEF Word32
  <2> QED
    BY <2>1, <1>1
<1>2. (((c - n) % 32) + n) % 32 = c
  OBVIOUS
<1>3. c \in ROTL(x, n) <=> \E b \in x : c = (b + n) % 32
  BY DEF ROTL, RotateL
<1> QED
  BY <1>1, <1>2, <1>3

LEMMA RotatedTwice ==
  ASSUME NEW x \in Word32, NEW n \in Int, NEW o \in Int
  PROVE  ROTL(ROTL(x, n), o) = ROTL(x, n + o)
<1> DEFINE y == ROTL(x, n)
<1>1. y \in Word32
  BY RotatedWord
<1>2. ASSUME NEW c \in 0..31 PROVE c \in ROTL(y, o) <=> c \in ROTL(x, n + o)
  <2>1. (c - o) % 32 \in 0..31 /\ (((c - o) % 32) - n) % 32 = (c - (n + o)) % 32
    OBVIOUS
  <2>2. c \in ROTL(y, o) <=> (c - o) % 32 \in y
    BY <1>1, InRotated
  <2>3. (c - o) % 32 \in y <=> (((c - o) % 32) - n) % 32 \in x
    BY <2>1, InRotated
  <2>4. c \in ROTL(x, n + o) <=> (c - (n + o)) % 32 \in x
    <3>1. PICK p \in Int : p = n + o
      OBVIOUS
    <3>2. c \in ROTL(x, p) <=> (c - p) % 32 \in x
      BY InRotated
    <3> QED
      BY <3>1, <3>2
  <2> QED
    BY <2>1, <2>2, <2>3, <2>4
<1>3. ROTL(y, o) \in Word32 /\ ROTL(x, n + o) \in Word32
  <2> HIDE DEF y
  <2> QED
    BY <1>1, RotatedWord
<1> QED
  BY <1>2, <1>3 DEF Word32

LEMMA RotatedRound ==
  ASSUME NEW x \in Word32, NEW n \in Int, NEW o \in Int, n % 32 = o % 32
  PROVE  ROTL(x, n) = ROTL(x, o)
<1>1. ASSUME NEW c \in 0..31 PROVE c \in ROTL(x, n) <=> c \in ROTL(x, o)
  <2>1. (c - n) % 32 = (c - o) % 32
    OBVIOUS
  <2> QED
    BY <2>1, InRotated
<1> QED
  BY <1>1, RotatedWord DEF Word32

------------------------------------------------------------------------------
(* words of z + 1 bytes, and the word with its bytes in the other order     *)
WordsTo(z) == SUBSET (0..(8 * z + 7))
EndForEnd(x, z) == UNION {ShiftL(ByteOf(x, k), 8 * (z - k), 8 * z + 8) : k \in 0..z}

(* a byte of a word, moved to the place at the other end                    *)
LEMMA InByteShifted ==
  ASSUME NEW z \in Nat, NEW x \in WordsTo(z), NEW k \in 0..z, NEW c
  PROVE  c \in ShiftL(ByteOf(x, k), 8 * (z - k), 8 * z + 8)
           <=> c \in 0..(8 * z + 7) /\ c \div 8 = z - k /\ 8 * z + c - 16 * (c \div 8) \in x
<1>1. \A b \in x : b \in 0..(8 * z + 7)
  BY DEF WordsTo
<1>2. PICK i \in Nat : i = z - k /\ i <= z
  OBVIOUS
<1>3. ASSUME c \in ShiftL(ByteOf(x, k), 8 * (z - k), 8 * z + 8)
      PROVE  c \in 0..(8 * z + 7) /\ c \div 8 = z - k /\ 8 * z + c - 16 * (c \div 8) \in x
  <2>1. PICK d \in ByteOf(x, k) : c = d + 8 * i
    BY <1>2, <1>3 DEF ShiftL
  <2>2. PICK b \in x : b \div 8 = k /\ d = b - 8 * k
    BY DEF ByteOf
  <2>3. b \in 0..(8 * z + 7) /\ c = b - 8 * k + 8 * i
    BY <1>1, <2>1, <2>2
  <2>4. 8 * k <= b /\ b < 8 * k + 8
    BY <2>2, <2>3
  <2>5. c \in 0..(8 * z + 7) /\ c \div 8 = i
    BY <1>2, <2>3, <2>4
  <2>6. 8 * z + c - 16 * i = b
    BY <1>2, <2>3
  <2> QED
    BY <1>2, <2>5, <2>6
<1>4. ASSUME c \in 0..(8 * z + 7), c \div 8 = z - k, 8 * z + c - 16 * (c \div 8) \in x
      PROVE  c \in ShiftL(ByteOf(x, k), 8 * (z - k), 8 * z + 8)
  <2>1. PICK b \in x : b = 8 * z + c - 16 * i
    BY <1>2, <1>4
  <2>2. 8 * i <= c /\ c < 8 * i + 8
    BY <1>2, <1>4
  <2>3. b \div 8 = k
    BY <1>2, <2>1, <2>2, <1>4
  <2>4. b - 8 * k \in ByteOf(x, k)
    BY <2>3 DEF ByteOf
  <2>5. b - 8 * k + 8 * i < 8 * z + 8 /\ c = (b - 8 * k) + 8 * i
    BY <1>2, <1>4, <2>1
  <2> QED
    BY <1>2, <2>4, <2>5 DEF ShiftL
<1> QED
  BY <1>3, <1>4

(* where a bit comes from when the bytes of its word change ends            *)
LEMMA InEndForEnd ==
  ASSUME NEW z \in Nat, NEW x \in WordsTo(z), NEW c
  PROVE  c \in EndForEnd(x, z) <=> c \in 0..(8 * z + 7) /\ 8 * z + c - 16 * (c \div 8) \in x
<1>1. c \in EndForEnd(x, z) <=> \E k \in 0..z : c \in ShiftL(ByteOf(x, k), 8 * (z - k), 8 * z + 8)
  BY DEF EndForEnd
<1>2. \A k \in 0..z : c \in ShiftL(ByteOf(x, k), 8 * (z - k), 8 * z + 8)
        <=> c \in 0..(8 * z + 7) /\ c \div 8 = z - k /\ 8 * z + c - 16 * (c \div 8) \in x
  BY InByteShifted
<1>3. c \in 0..(8 * z + 7) => \E k \in 0..z : c \div 8 = z - k
  <2> SUFFICES ASSUME c \in 0..(8 * z + 7) PROVE \E k \in 0..z : c \div 8 = z - k
    OBVIOUS
  <2>1. PICK q \in Int : q = c \div 8 /\ 8 * q <= c /\ c < 8 * q + 8
    <3>1. c \div 8 \in Int /\ 8 * (c \div 8) <= c /\ c < 8 * (c \div 8) + 8
      OBVIOUS
    <3> QED
      BY <3>1
  <2>2. q \in 0..z /\ z - q \in 0..z /\ q = z - (z - q)
    BY <2>1
  <2> QED
    BY <2>1, <2>2
<1> QED
  BY <1>1, <1>2, <1>3

(* doing it twice does nothing                                              *)
LEMMA EndForEndTwice ==
  ASSUME NEW z \in Nat, NEW x \in WordsTo(z)
  PROVE  EndForEnd(x, z) \in WordsTo(z) /\ EndForEnd(EndForEnd(x, z), z) = x
<1>1. PICK y : y = EndForEnd(x, z)
  OBVIOUS
<1>2. y \in WordsTo(z)
  BY <1>1, InEndForEnd DEF WordsTo
<1>3. ASSUME NEW c PROVE c \in EndForEnd(y, z) <=> c \in x
  <2>1. CASE c \in 0..(8 * z + 7)
    <3>1. PICK q \in Int : q = c \div 8 /\ 8 * q <= c /\ c < 8 * q + 8
      <4>1. c \div 8 \in Int /\ 8 * (c \div 8) <= c /\ c < 8 * (c \div 8) + 8
        BY <2>1
      <4> QED
        BY <4>1
    <3>2. PICK d \in Int : d = 8 * z + c - 16 * q
      BY <2>1
    <3>3. d \in 0..(8 * z + 7) /\ d \div 8 = z - q
      <4>1. 8 * (z - q) <= d /\ d < 8 * (z - q) + 8
        BY <2>1, <3>1, <3>2
      <4>2. 0 <= q /\ q <= z
        BY <2>1, <3>1
      <4> QED
        BY <4>1, <4>2
    <3>4. 8 * z + d - 16 * (d \div 8) = c
      BY <2>1, <3>2, <3>3
    <3>5. c \in EndForEnd(y, z) <=> d \in y
      BY <1>2, <2>1, <3>1, <3>2, InEndForEnd
    <3>6. d \in y <=> c \in x
      BY <1>1, <3>3, <3>4, InEndForEnd
    <3> QED
      BY <3>5, <3>6
  <2>2. CASE c \notin 0..(8 * z + 7)
    <3>1. c \notin x
      BY <2>2 DEF WordsTo
    <3>2. c \notin EndForEnd(y, z)
      BY <1>2, <2>2, InEndForEnd
    <3> QED
      BY <3>1, <3>2
  <2> QED
    BY <2>1, <2>2
<1> QED
  BY <1>1, <1>2, <1>3

LEMMA ReversedIs == \A x : REV8(x) = EndForEnd(x, 3)
  BY DEF REV8, EndForEnd

LEMMA InReversed ==
  ASSUME NEW x \in Word32, NEW c \in Int
  PROVE  c \in REV8(x) <=> c \in 0..31 /\ 24 + c - 16 * (c \div 8) \in x
<1>1. x \in WordsTo(3)
  BY DEF Word32, WordsTo
<1>2. c \in EndForEnd(x, 3) <=> c \in 0..(8 * 3 + 7) /\ 8 * 3 + c - 16 * (c \div 8) \in x
  BY <1>1, InEndForEnd
<1> QED
  BY <1>2, ReversedIs

LEMMA ReversedTwice ==
  ASSUME NEW x \in Word32
  PROVE  REV8(x) \in Word32 /\ REV8(REV8(x)) = x
<1>1. WordsTo(3) = Word32
  BY DEF Word32, WordsTo
<1>2. EndForEnd(x, 3) \in WordsTo(3) /\ EndForEnd(EndForEnd(x, 3), 3) = x
  BY <1>1, EndForEndTwice
<1> QED
  BY <1>1, <1>2, ReversedIs

LEMMA ReversedWord == \A x \in Word32 : REV8(x) \in Word32
  BY ReversedTwice

------------------------------------------------------------------------------
(* Words in memory: a block holds bytes, numbered from 1                    *)
Byte == SUBSET (0..7)

LEMMA InByteAt ==
  ASSUME NEW y \in Byte, NEW i \in 0..3, NEW c
  PROVE  c \in ShiftL(y, 8 * i, 32) <=> c \in 0..31 /\ c \div 8 = i /\ c % 8 \in y
<1>1. \A b \in y : b \in 0..7
  BY DEF Byte
<1>2. ASSUME c \in ShiftL(y, 8 * i, 32)
      PROVE  c \in 0..31 /\ c \div 8 = i /\ c % 8 \in y
  <2>1. PICK b \in y : c = b + 8 * i
    BY <1>2 DEF ShiftL
  <2>2. c % 8 = b /\ c \in 0..31 /\ c \div 8 = i
    BY <1>1, <2>1
  <2> QED
    BY <2>2
<1>3. ASSUME c \in 0..31, c \div 8 = i, c % 8 \in y
      PROVE  c \in ShiftL(y, 8 * i, 32)
  <2>1. PICK b \in y : b = c % 8
    BY <1>3
  <2>2. b + 8 * i < 32 /\ c = b + 8 * i
    BY <1>1, <1>3, <2>1
  <2> QED
    BY <2>2 DEF ShiftL
<1> QED
  BY <1>2, <1>3

(* the bits of the little-endian and of the big-endian word of memory       *)
LEMMA InWordAt ==
  ASSUME NEW b, NEW k \in Int, \A i \in 1..4 : b[4 * k + i] \in Byte, NEW c
  PROVE  c \in WordAt(b, k) <=> c \in 0..31 /\ c % 8 \in b[4 * k + (1 + (c \div 8))]
<1>1. c \in WordAt(b, k) <=> \E n \in 1..4 : c \in ShiftL(b[4 * k + n], 8 * (n - 1), 32)
  BY DEF WordAt
<1>2. \A n \in 1..4 : c \in ShiftL(b[4 * k + n], 8 * (n - 1), 32)
                        <=> c \in 0..31 /\ c \div 8 = n - 1 /\ c % 8 \in b[4 * k + n]
  <2> TAKE n \in 1..4
  <2>1. n - 1 \in 0..3
    OBVIOUS
  <2> QED
    BY <2>1, InByteAt
<1>3. ASSUME c \in WordAt(b, k) PROVE c \in 0..31 /\ c % 8 \in b[4 * k + (1 + (c \div 8))]
  <2>1. PICK n \in 1..4 : c \in 0..31 /\ c \div 8 = n - 1 /\ c % 8 \in b[4 * k + n]
    BY <1>1, <1>2, <1>3
  <2>2. n = 1 + (c \div 8)
    BY <2>1
  <2> QED
    BY <2>1, <2>2
<1>4. ASSUME c \in 0..31, c % 8 \in b[4 * k + (1 + (c \div 8))] PROVE c \in WordAt(b, k)
  <2>1. PICK n \in 1..4 : n = 1 + (c \div 8)
    BY <1>4
  <2>2. c \div 8 = n - 1 /\ c % 8 \in b[4 * k + n]
    BY <1>4, <2>1
  <2> QED
    BY <1>1, <1>2, <1>4, <2>2
<1> QED
  BY <1>3, <1>4

LEMMA InBigEndian ==
  ASSUME NEW b, NEW a \in Int, \A i \in 1..4 : b[a + i] \in Byte, NEW c
  PROVE  c \in BigEndianWord(b, a) <=> c \in 0..31 /\ c % 8 \in b[a + (4 - (c \div 8))]
<1>1. c \in BigEndianWord(b, a) <=> \E n \in 1..4 : c \in ShiftL(b[a + n], 8 * (4 - n), 32)
  BY DEF BigEndianWord
<1>2. \A n \in 1..4 : c \in ShiftL(b[a + n], 8 * (4 - n), 32)
                        <=> c \in 0..31 /\ c \div 8 = 4 - n /\ c % 8 \in b[a + n]
  <2> TAKE n \in 1..4
  <2>1. 4 - n \in 0..3
    OBVIOUS
  <2> QED
    BY <2>1, InByteAt
<1>3. ASSUME c \in BigEndianWord(b, a) PROVE c \in 0..31 /\ c % 8 \in b[a + (4 - (c \div 8))]
  <2>1. PICK n \in 1..4 : c \in 0..31 /\ c \div 8 = 4 - n /\ c % 8 \in b[a + n]
    BY <1>1, <1>2, <1>3
  <2>2. n = 4 - (c \div 8)
    BY <2>1
  <2> QED
    BY <2>1, <2>2
<1>4. ASSUME c \in 0..31, c % 8 \in b[a + (4 - (c \div 8))] PROVE c \in BigEndianWord(b, a)
  <2>1. PICK n \in 1..4 : n = 4 - (c \div 8)
    BY <1>4
  <2>2. c \div 8 = 4 - n /\ c % 8 \in b[a + n]
    BY <1>4, <2>1
  <2> QED
    BY <1>1, <1>2, <1>4, <2>2
<1> QED
  BY <1>3, <1>4

(* A little-endian word with its bytes reversed is the big-endian one.      *)
LEMMA LoadedIsBigEndian ==
  ASSUME NEW b, NEW p, NEW k \in Int, NEW a \in Int,
         \A i \in 1..4 : p[a + i] \in Byte /\ b[4 * k + i] = p[a + i]
  PROVE  REV8(WordAt(b, k)) = BigEndianWord(p, a) /\ BigEndianWord(p, a) \in Word32
<1>1. PICK x : x = WordAt(b, k)
  OBVIOUS
<1>2. \A c : c \in x <=> c \in 0..31 /\ c % 8 \in b[4 * k + (1 + (c \div 8))]
  BY <1>1, InWordAt
<1>3. x \in Word32
  BY <1>2 DEF Word32
<1>4. \A c : c \in BigEndianWord(p, a) <=> c \in 0..31 /\ c % 8 \in p[a + (4 - (c \div 8))]
  BY InBigEndian
<1>5. BigEndianWord(p, a) \in Word32 /\ REV8(x) \in Word32
  BY <1>3, <1>4, ReversedWord DEF Word32
<1>6. ASSUME NEW c \in 0..31 PROVE c \in REV8(x) <=> c \in BigEndianWord(p, a)
  <2>1. PICK d \in 0..31 : d = 24 + c - 16 * (c \div 8)
    OBVIOUS
  <2>2. c \in REV8(x) <=> d \in x
    BY <1>3, <2>1, InReversed
  <2>3. d % 8 = c % 8 /\ 1 + (d \div 8) = 4 - (c \div 8) /\ 4 - (c \div 8) \in 1..4
    BY <2>1
  <2>4. PICK i \in 1..4 : i = 4 - (c \div 8)
    BY <2>3
  <2>5. d \in x <=> d % 8 \in b[4 * k + i]
    BY <1>2, <2>3, <2>4
  <2>6. c \in BigEndianWord(p, a) <=> c % 8 \in p[a + i]
    BY <1>4, <2>4
  <2>7. b[4 * k + i] = p[a + i]
    OBVIOUS
  <2> QED
    BY <2>2, <2>3, <2>5, <2>6, <2>7
<1> QED
  BY <1>1, <1>5, <1>6 DEF Word32

------------------------------------------------------------------------------
(* Numbers as words                                                         *)
(* what is needed of the powers of two, one by one                         *)
Fits(p, b) == (b > 7 => p >= 256) /\ (b > 15 => p >= 65536)

(* the powers of two as numbers, one by one                                 *)
LEMMA PowersOfTwo ==
  ASSUME NEW b \in 0..30
  PROVE  \E p \in Nat \ {0} : p = 2^b /\ Fits(p, b)
<1>1. b = 0 => \E p \in Nat \ {0} : p = 2^b /\ Fits(p, b)
  BY DEF Fits
<1>2. b = 1 => \E p \in Nat \ {0} : p = 2^b /\ Fits(p, b)
  BY DEF Fits
<1>3. b = 2 => \E p \in Nat \ {0} : p = 2^b /\ Fits(p, b)
  BY DEF Fits
<1>4. b = 3 => \E p \in Nat \ {0} : p = 2^b /\ Fits(p, b)
  BY DEF Fits
<1>5. b = 4 => \E p \in Nat \ {0} : p = 2^b /\ Fits(p, b)
  BY DEF Fits
<1>6. b = 5 => \E p \in Nat \ {0} : p = 2^b /\ Fits(p, b)
  BY DEF Fits
<1>7. b = 6 => \E p \in Nat \ {0} : p = 2^b /\ Fits(p, b)
  BY DEF Fits
<1>8. b = 7 => \E p \in Nat \ {0} : p = 2^b /\ Fits(p, b)
  BY DEF Fits
<1>9. b = 8 => \E p \in Nat \ {0} : p = 2^b /\ Fits(p, b)
  BY DEF Fits
<1>10. b = 9 => \E p \in Nat \ {0} : p = 2^b /\ Fits(p, b)
  BY DEF Fits
<1>11. b = 10 => \E p \in Nat \ {0} : p = 2^b /\ Fits(p, b)
  BY DEF Fits
<1>12. b = 11 => \E p \in Nat \ {0} : p = 2^b /\ Fits(p, b)
  BY DEF Fits
<1>13. b = 12 => \E p \in Nat \ {0} : p = 2^b /\ Fits(p, b)
  BY DEF Fits
<1>14. b = 13 => \E p \in Nat \ {0} : p = 2^b /\ Fits(p, b)
  BY DEF Fits
<1>15. b = 14 => \E p \in Nat \ {0} : p = 2^b /\ Fits(p, b)
  BY DEF Fits
<1>16. b = 15 => \E p \in Nat \ {0} : p = 2^b /\ Fits(p, b)
  BY DEF Fits
<1>17. b = 16 => \E p \in Nat \ {0} : p = 2^b /\ Fits(p, b)
  BY DEF Fits
<1>18. b = 17 => \E p \in Nat \ {0} : p = 2^b /\ Fits(p, b)
  BY DEF Fits
<1>19. b = 18 => \E p \in Nat \ {0} : p = 2^b /\ Fits(p, b)
  BY DEF Fits
<1>20. b = 19 => \E p \in Nat \ {0} : p = 2^b /\ Fits(p, b)
  BY DEF Fits
<1>21. b = 20 => \E p \in Nat \ {0} : p = 2^b /\ Fits(p, b)
  BY DEF Fits
<1>22. b = 21 => \E p \in Nat \ {0} : p = 2^b /\ Fits(p, b)
  BY DEF Fits
<1>23. b = 22 => \E p \in Nat \ {0} : p = 2^b /\ Fits(p, b)
  BY DEF Fits
<1>24. b = 23 => \E p \in Nat \ {0} : p = 2^b /\ Fits(p, b)
  BY DEF Fits
<1>25. b = 24 => \E p \in Nat \ {0} : p = 2^b /\ Fits(p, b)
  BY DEF Fits
<1>26. b = 25 => \E p \in Nat \ {0} : p = 2^b /\ Fits(p, b)
  BY DEF Fits
<1>27. b = 26 => \E p \in Nat \ {0} : p = 2^b /\ Fits(p, b)
  BY DEF Fits
<1>28. b = 27 => \E p \in Nat \ {0} : p = 2^b /\ Fits(p, b)
  BY DEF Fits
<1>29. b = 28 => \E p \in Nat \ {0} : p = 2^b /\ Fits(p, b)
  BY DEF Fits
<1>30. b = 29 => \E p \in Nat \ {0} : p = 2^b /\ Fits(p, b)
  BY DEF Fits
<1>31. b = 30 => \E p \in Nat \ {0} : p = 2^b /\ Fits(p, b)
  BY DEF Fits
<1> QED
  BY <1>1, <1>2, <1>3, <1>4, <1>5, <1>6, <1>7, <1>8, <1>9, <1>10, <1>11, <1>12,
     <1>13, <1>14, <1>15, <1>16, <1>17, <1>18, <1>19, <1>20, <1>21, <1>22, <1>23,
     <1>24, <1>25, <1>26, <1>27, <1>28, <1>29, <1>30, <1>31

(* a bit of a number is its quotient by a power of two                      *)
LEMMA NumberBit ==
  ASSUME NEW n \in Nat, NEW b \in BitsIn(n)
  PROVE  b \in 0..30 /\ n # 0 /\ (n < 256 => b < 8) /\ (n < 65536 => b < 16)
<1>1. b \in 0..30 /\ (n \div 2^b) % 2 = 1
  BY DEF BitsIn
<1>2. PICK p \in Nat \ {0} : p = 2^b /\ Fits(p, b)
  BY <1>1, PowersOfTwo
<1>3. (n \div p) % 2 = 1
  BY <1>1, <1>2
<1>4. n >= p
  <2>1. n < p => n \div p = 0
    BY <1>2
  <2> QED
    BY <2>1, <1>2, <1>3
<1> QED
  BY <1>1, <1>2, <1>4 DEF Fits

LEMMA NumberBits ==
  ASSUME NEW n \in Nat
  PROVE  /\ n = 0 => BitsIn(n) = {}
         /\ n < 256 => BitsIn(n) \in Byte
         /\ n < 65536 => BitsIn(n) \in SUBSET (0..15)
<1>1. \A b \in BitsIn(n) : b \in 0..30 /\ n # 0 /\ (n < 256 => b < 8) /\ (n < 65536 => b < 16)
  BY NumberBit
<1> QED
  BY <1>1 DEF Byte

LEMMA HalvesWord ==
  ASSUME NEW hi \in Nat, NEW lo \in Nat, hi < 65536, lo < 65536
  PROVE  /\ Halves(hi, lo) \in Word32
         /\ \A c \in 0..31 : c \in Halves(hi, lo)
              <=> IF c < 16 THEN c \in BitsIn(lo) ELSE c - 16 \in BitsIn(hi)
<1>1. BitsIn(hi) \in SUBSET (0..15) /\ BitsIn(lo) \in SUBSET (0..15)
  BY NumberBits
<1>2. \A c : c \in ShiftL(BitsIn(hi), 16, 32) <=> \E b \in BitsIn(hi) : c = b + 16
  BY <1>1 DEF ShiftL
<1>3. \A c \in Int : c \in ShiftL(BitsIn(hi), 16, 32) <=> c - 16 \in BitsIn(hi)
  <2> TAKE c \in Int
  <2>1. ASSUME NEW b \in BitsIn(hi), c = b + 16 PROVE c - 16 = b
    BY <2>1, <1>1
  <2>2. (c - 16) + 16 = c
    OBVIOUS
  <2> QED
    BY <1>2, <2>1, <2>2
<1>4. \A c \in ShiftL(BitsIn(hi), 16, 32) : c \in 16..31
  BY <1>1, <1>2
<1>5. \A c : c \in Halves(hi, lo) <=> c \in ShiftL(BitsIn(hi), 16, 32) \/ c \in BitsIn(lo)
  BY DEF Halves
<1> QED
  BY <1>1, <1>3, <1>4, <1>5 DEF Word32

LEMMA HalfTurn ==
  ASSUME NEW x \in Word32, NEW y \in Word32,
         \A c \in 0..31 : c \in y <=> IF c < 16 THEN c + 16 \in x ELSE c - 16 \in x
  PROVE  ROTL(x, 16) = y
<1>1. 16 \in Int
  OBVIOUS
<1>2. ASSUME NEW c \in 0..31 PROVE c \in ROTL(x, 16) <=> c \in y
  <2>1. c \in ROTL(x, 16) <=> (c - 16) % 32 \in x
    BY <1>1, InRotated
  <2>2. (c - 16) % 32 = IF c < 16 THEN c + 16 ELSE c - 16
    OBVIOUS
  <2> QED
    BY <2>1, <2>2
<1>3. ROTL(x, 16) \in Word32
  BY <1>1, RotatedWord
<1> QED
  BY <1>2, <1>3 DEF Word32

(* a word made of two halves, turned by sixteen bits                        *)
LEMMA HalvesTurned ==
  ASSUME NEW hi \in Nat, NEW lo \in Nat, hi < 65536, lo < 65536
  PROVE  ROTL(Halves(hi, lo), 16) = Halves(lo, hi)
<1>1. ASSUME NEW c \in 0..31
      PROVE  c \in Halves(lo, hi)
               <=> IF c < 16 THEN c + 16 \in Halves(hi, lo) ELSE c - 16 \in Halves(hi, lo)
  <2>1. c \in Halves(lo, hi) <=> IF c < 16 THEN c \in BitsIn(hi) ELSE c - 16 \in BitsIn(lo)
    BY HalvesWord
  <2>2. CASE c < 16
    <3>1. PICK d \in 0..31 : d = c + 16 /\ d >= 16
      BY <2>2
    <3>2. d \in Halves(hi, lo) <=> d - 16 \in BitsIn(hi)
      BY <3>1, HalvesWord
    <3> QED
      BY <2>1, <2>2, <3>1, <3>2
  <2>3. CASE ~(c < 16)
    <3>1. PICK d \in 0..31 : d = c - 16 /\ d < 16
      BY <2>3
    <3>2. d \in Halves(hi, lo) <=> d \in BitsIn(lo)
      BY <3>1, HalvesWord
    <3> QED
      BY <2>1, <2>3, <3>1, <3>2
  <2> QED
    BY <2>2, <2>3
<1>2. Halves(hi, lo) \in Word32 /\ Halves(lo, hi) \in Word32
  BY HalvesWord
<1> QED
  BY <1>1, <1>2, HalfTurn

LEMMA TabulatedIs == \A f : Tabulated(f) = f
BY DEF Tabulated

(* the constants are words, and the second is turned by a half              *)
LEMMA ConstantWords ==
  /\ T0 \in Word32 /\ T16 \in Word32
  /\ ROTL(T16, 16) = Halves(\h9D8A, \h7A87)
  /\ InitialS \in [0..7 -> Word32]
<1>1. T0 \in Word32 /\ T16 \in Word32
  BY HalvesWord DEF T0, T16
<1>2. ROTL(T16, 16) = Halves(\h9D8A, \h7A87)
  BY HalvesTurned DEF T16
<1>3. \A k \in 0..7 : InitialS[k] \in Word32
  <2>1. /\ Halves(\h6F16, \h8073) \in Word32 /\ Halves(\hB9B2, \h1449) \in Word32
        /\ Halves(\hD742, \h2417) \in Word32 /\ Halves(\h0006, \h8ADA) \in Word32
    BY HalvesWord
  <2>2. /\ Halves(\hBC30, \h6FA9) \in Word32 /\ Halves(\hAA38, \h3116) \in Word32
        /\ Halves(\h4DEE, \h8DE3) \in Word32 /\ Halves(\h4E0E, \hFBB0) \in Word32
    BY HalvesWord
  <2> QED
    BY <2>1, <2>2, TabulatedIs DEF InitialS
<1> QED
  BY <1>1, <1>2, <1>3, TabulatedIs DEF InitialS

------------------------------------------------------------------------------
(* A round                                                                  *)
LEMMA SumsOfFour ==
  ASSUME NEW a \in Word32, NEW b \in Word32, NEW c \in Word32, NEW d \in Word32
  PROVE  /\ Plus32(Plus32(Plus32(a, b), c), d) = Plus32(Plus32(Plus32(d, a), c), b)
         /\ Plus32(Plus32(Plus32(a, b), c), d) = Plus32(Plus32(Plus32(c, a), b), d)
         /\ Plus32(Plus32(Plus32(a, b), c), d) \in Word32
<1>1. \A x, y \in Word32 : Plus32(x, y) \in Word32 /\ Plus32(x, y) = Plus32(y, x)
  BY AddWord, AddCommutes DEF Plus32
<1>2. \A x, y, z \in Word32 : Plus32(Plus32(x, y), z) = Plus32(x, Plus32(y, z))
  BY AddAssociates DEF Plus32
<1>3. PICK ab \in Word32 : ab = Plus32(a, b) /\ ab = Plus32(b, a)
  BY <1>1
<1>4. Plus32(ab, c) = Plus32(c, ab) /\ Plus32(c, ab) = Plus32(Plus32(c, a), b)
  BY <1>1, <1>2, <1>3
<1>5. PICK ac \in Word32 : ac = Plus32(a, c)
  BY <1>1
<1>6. PICK da \in Word32 : da = Plus32(d, a)
  BY <1>1
<1>7. PICK dac \in Word32 : dac = Plus32(da, c) /\ dac = Plus32(d, ac)
  BY <1>1, <1>2, <1>5, <1>6
<1>8. Plus32(ab, c) = Plus32(b, ac)
  BY <1>2, <1>3, <1>5
<1>9. Plus32(dac, b) = Plus32(d, Plus32(ac, b)) /\ Plus32(ac, b) = Plus32(b, ac)
  BY <1>1, <1>2, <1>5, <1>7
<1>10. PICK s3 \in Word32 : s3 = Plus32(b, ac)
  BY <1>1, <1>5
<1>11. Plus32(s3, d) = Plus32(d, s3)
  BY <1>1, <1>10
<1> QED
  BY <1>1, <1>3, <1>4, <1>6, <1>7, <1>8, <1>9, <1>10, <1>11

(* the renaming of the registers                                            *)
LEMMA PlaysFacts ==
  ASSUME NEW n \in Nat
  PROVE  /\ \A k \in 0..7 : Plays(n, k) \in 0..7
         /\ \A k, l \in 0..7 : Plays(n, k) = Plays(n, l) => k = l
         /\ \A k \in {1, 2, 3, 5, 6, 7} : Plays(n + 1, k) = Plays(n, k - 1)
         /\ Plays(n + 1, 0) = Plays(n, 3) /\ Plays(n + 1, 4) = Plays(n, 7)
<1>1. \A k \in 0..7 : Plays(n, k) \in 0..7
  BY DEF Plays
<1>2. \A k, l \in 0..7 : Plays(n, k) = Plays(n, l) => k = l
  <2> SUFFICES ASSUME NEW k \in 0..7, NEW l \in 0..7, Plays(n, k) = Plays(n, l) PROVE k = l
    OBVIOUS
  <2>1. CASE k < 4 /\ l < 4
    BY <2>1 DEF Plays
  <2>2. CASE ~(k < 4) /\ ~(l < 4)
    BY <2>2 DEF Plays
  <2>3. CASE (k < 4) # (l < 4)
    BY <2>3 DEF Plays
  <2> QED
    BY <2>1, <2>2, <2>3
<1>3. \A k \in {1, 2, 3, 5, 6, 7} : Plays(n + 1, k) = Plays(n, k - 1)
  BY DEF Plays
<1>4. Plays(n + 1, 0) = Plays(n, 3) /\ Plays(n + 1, 4) = Plays(n, 7)
  BY DEF Plays
<1> QED
  BY <1>1, <1>2, <1>3, <1>4

(* The four registers a round changes, and the roles of the next one        *)
Changed(R, n, d, h, b, f) ==
  [R EXCEPT ![Plays(n, 3)] = d, ![Plays(n, 7)] = h, ![Plays(n, 1)] = b, ![Plays(n, 5)] = f]

(* four registers change, and the renaming moves the others                 *)
LEMMA RegistersMove ==
  ASSUME NEW R, NEW n, NEW d, NEW h, NEW b, NEW f, NEW S,
         S = Changed(R, n, d, h, b, f), R \in Registers, n \in Nat,
         d \in Word32, h \in Word32, b \in Word32, f \in Word32
  PROVE  /\ S \in Registers
         /\ S[Plays(n + 1, 0)] = d /\ S[Plays(n + 1, 2)] = b
         /\ S[Plays(n + 1, 4)] = h /\ S[Plays(n + 1, 6)] = f
         /\ \A k \in {1, 3, 5, 7} : S[Plays(n + 1, k)] = R[Plays(n, k - 1)]
<1>1. PICK p \in [0..7 -> 0..7] : \A k \in 0..7 : p[k] = Plays(n, k)
  <2>1. [k \in 0..7 |-> Plays(n, k)] \in [0..7 -> 0..7]
    BY PlaysFacts
  <2> QED
    BY <2>1
<1>2. /\ \A k \in 0..7 : p[k] \in 0..7
      /\ \A k, l \in 0..7 : p[k] = p[l] => k = l
  BY <1>1, PlaysFacts
<1>3. S = [R EXCEPT ![p[3]] = d, ![p[7]] = h, ![p[1]] = b, ![p[5]] = f]
  <2>1. Plays(n, 3) = p[3] /\ Plays(n, 7) = p[7] /\ Plays(n, 1) = p[1] /\ Plays(n, 5) = p[5]
    BY <1>1
  <2> QED
    BY <2>1 DEF Changed
<1>4. R \in [0..7 -> Word32]
  BY DEF Registers
<1>5. S \in Registers
  <2>1. p[3] \in 0..7 /\ p[7] \in 0..7 /\ p[1] \in 0..7 /\ p[5] \in 0..7
    BY <1>2
  <2>2. PICK p3 \in 0..7, p7 \in 0..7, p1 \in 0..7, p5 \in 0..7 :
          p3 = p[3] /\ p7 = p[7] /\ p1 = p[1] /\ p5 = p[5]
    BY <2>1
  <2>3. S = [[[[R EXCEPT ![p3] = d] EXCEPT ![p7] = h] EXCEPT ![p1] = b] EXCEPT ![p5] = f]
    BY <1>3, <2>2
  <2>4. PICK R1 \in [0..7 -> Word32] : R1 = [R EXCEPT ![p3] = d]
    BY <1>4
  <2>5. PICK R2 \in [0..7 -> Word32] : R2 = [R1 EXCEPT ![p7] = h]
    BY <2>4
  <2>6. PICK R3 \in [0..7 -> Word32] : R3 = [R2 EXCEPT ![p1] = b]
    BY <2>5
  <2>7. [R3 EXCEPT ![p5] = f] \in [0..7 -> Word32]
    BY <2>6
  <2> QED
    BY <2>3, <2>4, <2>5, <2>6, <2>7 DEF Registers
<1>6. S[p[3]] = d /\ S[p[7]] = h /\ S[p[1]] = b /\ S[p[5]] = f
  <2>1. p[3] # p[7] /\ p[3] # p[1] /\ p[3] # p[5] /\ p[7] # p[1] /\ p[7] # p[5] /\ p[1] # p[5]
    BY <1>2
  <2> QED
    BY <1>2, <1>3, <1>4, <2>1
<1>7. ASSUME NEW k \in {0, 2, 4, 6} PROVE S[p[k]] = R[p[k]]
  <2>1. p[k] # p[3] /\ p[k] # p[7] /\ p[k] # p[1] /\ p[k] # p[5] /\ p[k] \in 0..7
    BY <1>2
  <2> QED
    BY <1>2, <1>3, <1>4, <2>1
<1>8. /\ Plays(n + 1, 0) = p[3] /\ Plays(n + 1, 2) = p[1]
      /\ Plays(n + 1, 4) = p[7] /\ Plays(n + 1, 6) = p[5]
  BY <1>1, PlaysFacts
<1>9. ASSUME NEW k \in {1, 3, 5, 7}
      PROVE  S[Plays(n + 1, k)] = R[Plays(n, k - 1)]
  <2>1. k - 1 \in {0, 2, 4, 6} /\ k - 1 \in 0..7
    OBVIOUS
  <2>2. Plays(n + 1, k) = Plays(n, k - 1) /\ Plays(n, k - 1) = p[k - 1]
    BY <1>1, <2>1, PlaysFacts
  <2> QED
    BY <1>7, <2>1, <2>2
<1> QED
  BY <1>5, <1>6, <1>8, <1>9

LEMMA LogicSame ==
  /\ \A a, b, c : ((a \cup c) \cap b) \cup (a \cap c) = (a \cap b) \cup (a \cap c) \cup (b \cap c)
  /\ \A a, b, c : Xor(a \cap b, c \ a) = (a \cap b) \cup (c \ a)
BY DEF Xor

LEMMA LogicWords ==
  ASSUME NEW a \in Word32, NEW b \in Word32, NEW c \in Word32
  PROVE  /\ (a \cap b) \cup (a \cap c) \cup (b \cap c) \in Word32
         /\ (a \cap b) \cup (c \ a) \in Word32
         /\ Xor3(a, b, c) \in Word32
<1>1. Xor3(a, b, c) \in Word32
  BY XorWord DEF Xor3
<1>2. /\ (a \cap b) \cup (a \cap c) \cup (b \cap c) \in Word32
      /\ (a \cap b) \cup (c \ a) \in Word32
  BY DEF Word32
<1> QED
  BY <1>1, <1>2

LEMMA P0Word == \A x \in Word32 : P0(x) \in Word32
<1> SUFFICES ASSUME NEW x \in Word32 PROVE P0(x) \in Word32
  OBVIOUS
<1>1. 9 \in Int /\ 17 \in Int
  OBVIOUS
<1>2. ROTL(x, 9) \in Word32 /\ ROTL(x, 17) \in Word32
  BY <1>1, RotatedWord
<1> QED
  BY <1>2, XorWord DEF P0

(* what turns with the rounds                                               *)
Turning(n) == ROTL(IF n < 16 THEN T0 ELSE T16, n % 32)

(* The macros, with a name for what each step computes                      *)
LEMMA FirstRounds ==
  ASSUME NEW R, NEW n, NEW w0, NEW w4,
         NEW y, y = ROTL(R[Plays(n, 0)], 12),
         NEW u, u = ROTL(Plus32(Plus32(y, R[Plays(n, 4)]), tj), 7),
         NEW g, g = Xor3(R[Plays(n, 0)], R[Plays(n, 1)], R[Plays(n, 2)]),
         NEW o, o = Xor3(R[Plays(n, 4)], R[Plays(n, 5)], R[Plays(n, 6)]),
         NEW d, d = Plus32(Plus32(Plus32(R[Plays(n, 3)], Xor(y, u)), g), Xor(w0, w4)),
         NEW e, e = P0(Plus32(Plus32(Plus32(R[Plays(n, 7)], w0), u), o)),
         NEW b, b = ROTL(R[Plays(n, 1)], 9),
         NEW q, q = ROTL(R[Plays(n, 5)], 19)
  PROVE  STEP_SM3_RF0(R, n, w0, w4)
           = Changed(R, n, d, e, b, q)
BY DEF STEP_SM3_RF0, Changed

(* A round of either macro, seen through the renaming, is the standard's.   *)
RoundAs(R, x, n, f, S) ==
  /\ R \in [0..7 -> Word32] /\ x \in [0..7 -> Word32]
  /\ \A k \in 0..7 : R[Plays(n, k)] = x[k]
  /\ f[n] \in Word32 /\ f[n + 4] \in Word32 /\ tj = Turning(n)
  /\ S = IF n < 16 THEN STEP_SM3_RF0(R, n, f[n], f[n + 4])
         ELSE STEP_SM3_RF1(R, n, f[n], f[n + 4])

RoundDone(R, x, n, f, S) ==
  /\ S \in [0..7 -> Word32]
  /\ \A k \in 0..7 : S[Plays(n + 1, k)] = RoundOf(x, n, f)[k]
  /\ RoundOf(x, n, f) \in [0..7 -> Word32]

LEMMA RoundIsStandard ==
  ASSUME NEW R, NEW x, NEW n \in Nat, n < 64, NEW f, NEW S, RoundAs(R, x, n, f, S)
  PROVE  RoundDone(R, x, n, f, S)
<1> USE DEF RoundAs, RoundDone
<1>1. \A k \in 0..7 : x[k] \in Word32
  OBVIOUS
<1>2. 12 \in Int /\ 7 \in Int /\ 9 \in Int /\ 19 \in Int /\ n % 32 \in Int
  OBVIOUS
<1>3. PICK y \in Word32 : y = ROTL(x[0], 12)
  BY <1>1, <1>2, RotatedWord
<1>4. tj \in Word32
  <2>1. PICK T : T = IF n < 16 THEN T0 ELSE T16
    OBVIOUS
  <2>2. T \in Word32 /\ tj = ROTL(T, n % 32)
    BY <2>1, ConstantWords DEF Turning
  <2> QED
    BY <1>2, <2>2, RotatedWord
<1>5. PICK u \in Word32 : u = ROTL(Plus32(Plus32(y, x[4]), tj), 7)
  <2>1. Plus32(Plus32(y, x[4]), tj) \in Word32
    BY AddWord DEF Plus32
  <2> QED
    BY <2>1, <1>2, RotatedWord
<1>6. PICK g \in Word32 : g = IF n < 16 THEN Xor3(x[0], x[1], x[2])
                              ELSE (x[0] \cap x[1]) \cup (x[0] \cap x[2]) \cup (x[1] \cap x[2])
  <2>1. x[0] \in Word32 /\ x[1] \in Word32 /\ x[2] \in Word32
    BY <1>1
  <2> QED
    BY <2>1, LogicWords
<1>7. PICK o \in Word32 : o = IF n < 16 THEN Xor3(x[4], x[5], x[6])
                              ELSE (x[4] \cap x[5]) \cup (x[6] \ x[4])
  <2>1. x[4] \in Word32 /\ x[5] \in Word32 /\ x[6] \in Word32
    BY <1>1
  <2> QED
    BY <2>1, LogicWords
<1>8. PICK w0 \in Word32 : w0 = f[n]
  OBVIOUS
<1>9. PICK w4 \in Word32 : w4 = f[n + 4]
  OBVIOUS
<1>10. Xor(u, y) \in Word32 /\ Xor(w0, w4) \in Word32 /\ Xor(y, u) = Xor(u, y)
  <2>1. Xor(u, y) \in Word32 /\ Xor(w0, w4) \in Word32
    BY XorWord
  <2> QED
    BY <2>1 DEF Xor
<1>11. PICK d \in Word32 : d = Plus32(Plus32(Plus32(x[3], Xor(y, u)), g), Xor(w0, w4))
                           /\ d = Plus32(Plus32(Plus32(g, x[3]), Xor(u, y)), Xor(w0, w4))
  BY <1>1, <1>10, SumsOfFour
<1>12. PICK h \in Word32 : h = Plus32(Plus32(Plus32(x[7], w0), u), o)
                           /\ h = Plus32(Plus32(Plus32(o, x[7]), u), w0)
  BY <1>1, SumsOfFour
<1>13. PICK e \in Word32 : e = P0(h)
  BY P0Word
<1>14. PICK b \in Word32 : b = ROTL(x[1], 9)
  BY <1>1, <1>2, RotatedWord
<1>15. PICK q \in Word32 : q = ROTL(x[5], 19)
  BY <1>1, <1>2, RotatedWord
<1>16. S = Changed(R, n, d, e, b, q)
  <2>1. /\ R[Plays(n, 0)] = x[0] /\ R[Plays(n, 1)] = x[1] /\ R[Plays(n, 2)] = x[2]
        /\ R[Plays(n, 3)] = x[3] /\ R[Plays(n, 4)] = x[4] /\ R[Plays(n, 5)] = x[5]
        /\ R[Plays(n, 6)] = x[6] /\ R[Plays(n, 7)] = x[7]
    OBVIOUS
  <2>2. /\ y = ROTL(R[Plays(n, 0)], 12) /\ u = ROTL(Plus32(Plus32(y, R[Plays(n, 4)]), tj), 7)
        /\ d = Plus32(Plus32(Plus32(R[Plays(n, 3)], Xor(y, u)), g), Xor(w0, w4))
        /\ e = P0(Plus32(Plus32(Plus32(R[Plays(n, 7)], w0), u), o))
        /\ b = ROTL(R[Plays(n, 1)], 9) /\ q = ROTL(R[Plays(n, 5)], 19)
    BY <2>1, <1>3, <1>5, <1>11, <1>12, <1>13, <1>14, <1>15
  <2>3. CASE n < 16
    <3>1. /\ g = Xor3(R[Plays(n, 0)], R[Plays(n, 1)], R[Plays(n, 2)])
          /\ o = Xor3(R[Plays(n, 4)], R[Plays(n, 5)], R[Plays(n, 6)])
      BY <2>3, <2>1, <1>6, <1>7
    <3>2. S = STEP_SM3_RF0(R, n, w0, w4)
      BY <2>3, <1>8, <1>9
    <3> QED
      BY ONLY <2>2, <3>1, <3>2, FirstRounds
  <2>4. CASE ~(n < 16)
    <3>1. /\ ((x[0] \cup x[2]) \cap x[1]) \cup (x[0] \cap x[2])
               = (x[0] \cap x[1]) \cup (x[0] \cap x[2]) \cup (x[1] \cap x[2])
          /\ Xor(x[4] \cap x[5], x[6] \ x[4]) = (x[4] \cap x[5]) \cup (x[6] \ x[4])
      BY LogicSame
    <3>2. /\ g = ((R[Plays(n, 0)] \cup R[Plays(n, 2)]) \cap R[Plays(n, 1)])
                   \cup (R[Plays(n, 0)] \cap R[Plays(n, 2)])
          /\ o = Xor(R[Plays(n, 4)] \cap R[Plays(n, 5)], R[Plays(n, 6)] \ R[Plays(n, 4)])
      BY <2>4, <2>1, <3>1, <1>6, <1>7
    <3>3. S = STEP_SM3_RF1(R, n, w0, w4)
      BY <2>4, <1>8, <1>9
    <3> QED
      BY ONLY <2>2, <3>2, <3>3 DEF STEP_SM3_RF1, Changed
  <2> QED
    BY <2>3, <2>4
<1>17. RoundOf(x, n, f) = [k \in 0..7 |-> CASE k = 0 -> d [] k = 2 -> b [] k = 4 -> e
                                           [] k = 6 -> q [] OTHER -> x[k - 1]]
  <2>1. CASE n < 16
    <3>1. /\ g = Xor3(x[0], x[1], x[2]) /\ o = Xor3(x[4], x[5], x[6])
          /\ tj = ROTL(T0, n % 32)
      BY <2>1, <1>6, <1>7 DEF Turning
    <3> QED
      BY <2>1, <3>1, <1>3, <1>5, <1>8, <1>9, <1>11, <1>12, <1>13, <1>14, <1>15, TabulatedIs DEF RoundOf
  <2>2. CASE ~(n < 16)
    <3>1. /\ g = (x[0] \cap x[1]) \cup (x[0] \cap x[2]) \cup (x[1] \cap x[2])
          /\ o = (x[4] \cap x[5]) \cup (x[6] \ x[4])
          /\ tj = ROTL(T16, n % 32)
      BY <2>2, <1>6, <1>7 DEF Turning
    <3> QED
      BY <2>2, <3>1, <1>3, <1>5, <1>8, <1>9, <1>11, <1>12, <1>13, <1>14, <1>15, TabulatedIs DEF RoundOf
  <2> QED
    BY <2>1, <2>2
<1>18. RoundOf(x, n, f) \in [0..7 -> Word32]
  <2>1. ASSUME NEW k \in {1, 3, 5, 7} PROVE x[k - 1] \in Word32
    BY <1>1
  <2> QED
    BY <1>17, <2>1, <1>11, <1>13, <1>14, <1>15
<1>19. /\ S \in Registers
       /\ S[Plays(n + 1, 0)] = d /\ S[Plays(n + 1, 2)] = b
       /\ S[Plays(n + 1, 4)] = e /\ S[Plays(n + 1, 6)] = q
       /\ \A k \in {1, 3, 5, 7} : S[Plays(n + 1, k)] = R[Plays(n, k - 1)]
  <2>1. n \in Nat /\ R \in Registers
    BY DEF Registers
  <2>2. d \in Word32 /\ e \in Word32 /\ b \in Word32 /\ q \in Word32
    BY <1>11, <1>13, <1>14, <1>15
  <2> QED
    BY ONLY <2>1, <2>2, <1>16, RegistersMove
<1>20. ASSUME NEW k \in 0..7 PROVE S[Plays(n + 1, k)] = RoundOf(x, n, f)[k]
  <2>1. CASE k \in {0, 2, 4, 6}
    BY <2>1, <1>17, <1>19
  <2>2. CASE k \in {1, 3, 5, 7}
    <3>1. R[Plays(n, k - 1)] = x[k - 1]
      BY <2>2
    <3> QED
      BY <2>2, <3>1, <1>17, <1>19
  <2> QED
    BY <2>1, <2>2
<1> QED
  BY <1>18, <1>19, <1>20 DEF Registers

LEMMA P1Word == \A x \in Word32 : P1(x) \in Word32
<1> SUFFICES ASSUME NEW x \in Word32 PROVE P1(x) \in Word32
  OBVIOUS
<1>1. 15 \in Int /\ 23 \in Int
  OBVIOUS
<1>2. ROTL(x, 15) \in Word32 /\ ROTL(x, 23) \in Word32
  BY <1>1, RotatedWord
<1> QED
  BY <1>2, XorWord DEF P1

(* words less than sixteen apart lie in different places of the ring        *)
LEMMA RingApart ==
  ASSUME NEW n \in Nat, NEW i \in Nat, i < n, n < i + 16
  PROVE  i % 16 # n % 16
<1>1. n = 16 * (n \div 16) + (n % 16) /\ i = 16 * (i \div 16) + (i % 16)
  OBVIOUS
<1>2. n \div 16 \in Int /\ i \div 16 \in Int
  OBVIOUS
<1> QED
  BY <1>1, <1>2

(* The word computed over the oldest one is the next of the schedule.       *)
KeyAs(X, n, f, Y, g) ==
  /\ X \in [0..15 -> Word32] /\ f \in [0..(n - 1) -> Word32]
  /\ \A i \in (n - 16)..(n - 1) : X[i % 16] = f[i]
  /\ Y = [X EXCEPT ![n % 16] =
            LET k(l) == X[(n + l) % 16]
            IN Xor3(k(10), ROTL(k(3), 7), P1(Xor3(@, k(7), ROTL(k(13), 15))))]
  /\ g = [k \in 0..n |-> IF k = n THEN Expanded(f, n) ELSE f[k]]

KeyDone(n, Y, g) ==
  /\ Y \in [0..15 -> Word32] /\ g \in [0..n -> Word32]
  /\ \A i \in (n - 15)..n : Y[i % 16] = g[i]

(* a word computed in place is the next one of the schedule                 *)
LEMMA KeyIsStandard ==
  ASSUME NEW X, NEW n \in Nat, 16 <= n, n <= 67, NEW f, NEW Y, NEW g, KeyAs(X, n, f, Y, g)
  PROVE  KeyDone(n, Y, g)
<1> USE DEF KeyAs, KeyDone
<1>1. ASSUME NEW i \in (n - 16)..(n - 1)
      PROVE  X[i % 16] = f[i] /\ f[i] \in Word32
  <2>1. i \in 0..(n - 1)
    BY ONLY i \in (n - 16)..(n - 1), n \in 16..67
  <2> QED
    BY <2>1
<1>2. PICK a \in Word32 : a = X[n % 16] /\ a = f[n - 16]
  <2>1. n % 16 = (n - 16) % 16 /\ n - 16 \in (n - 16)..(n - 1)
    OBVIOUS
  <2>2. X[(n - 16) % 16] = f[n - 16] /\ f[n - 16] \in Word32
    BY <1>1, <2>1
  <2> QED
    BY <2>1, <2>2
<1>3. PICK b \in Word32 : b = X[(n + 3) % 16] /\ b = f[n - 13]
  <2>1. (n + 3) % 16 = (n - 13) % 16 /\ n - 13 \in (n - 16)..(n - 1)
    OBVIOUS
  <2>2. X[(n - 13) % 16] = f[n - 13] /\ f[n - 13] \in Word32
    BY <1>1, <2>1
  <2> QED
    BY <2>1, <2>2
<1>4. PICK c \in Word32 : c = X[(n + 7) % 16] /\ c = f[n - 9]
  <2>1. (n + 7) % 16 = (n - 9) % 16 /\ n - 9 \in (n - 16)..(n - 1)
    OBVIOUS
  <2>2. X[(n - 9) % 16] = f[n - 9] /\ f[n - 9] \in Word32
    BY <1>1, <2>1
  <2> QED
    BY <2>1, <2>2
<1>5. PICK d \in Word32 : d = X[(n + 10) % 16] /\ d = f[n - 6]
  <2>1. (n + 10) % 16 = (n - 6) % 16 /\ n - 6 \in (n - 16)..(n - 1)
    OBVIOUS
  <2>2. X[(n - 6) % 16] = f[n - 6] /\ f[n - 6] \in Word32
    BY <1>1, <2>1
  <2> QED
    BY <2>1, <2>2
<1>6. PICK e \in Word32 : e = X[(n + 13) % 16] /\ e = f[n - 3]
  <2>1. (n + 13) % 16 = (n - 3) % 16 /\ n - 3 \in (n - 16)..(n - 1)
    OBVIOUS
  <2>2. X[(n - 3) % 16] = f[n - 3] /\ f[n - 3] \in Word32
    BY <1>1, <2>1
  <2> QED
    BY <2>1, <2>2
<1>7. PICK y \in Word32 : y = ROTL(b, 7)
  <2>1. 7 \in Int /\ b \in Word32
    BY <1>3
  <2> QED
    BY <2>1, RotatedWord
<1>8. PICK q \in Word32 : q = P1(Xor3(a, c, ROTL(e, 15)))
  <2>1. 15 \in Int /\ e \in Word32
    BY <1>6
  <2>2. ROTL(e, 15) \in Word32
    BY <2>1, RotatedWord
  <2>3. Xor3(a, c, ROTL(e, 15)) \in Word32
    BY <1>2, <1>4, <2>2, XorWord DEF Xor3
  <2> QED
    BY <2>3, P1Word
<1>9. PICK o \in Word32 : o = Xor3(d, y, q) /\ o = Xor3(q, y, d)
  <2>1. Xor3(d, y, q) \in Word32
    BY <1>5, <1>7, <1>8, XorWord DEF Xor3
  <2>2. Xor3(d, y, q) = Xor3(q, y, d)
    BY DEF Xor3, Xor
  <2> QED
    BY <2>1, <2>2
<1>10. Y = [X EXCEPT ![n % 16] = o]
  BY <1>2, <1>3, <1>4, <1>5, <1>6, <1>7, <1>8, <1>9
<1>11. Expanded(f, n) = o
  BY <1>2, <1>3, <1>4, <1>5, <1>6, <1>7, <1>8, <1>9 DEF Expanded
<1>12. Y \in [0..15 -> Word32]
  BY <1>9, <1>10
<1>13. g \in [0..n -> Word32]
  <2>1. \A k \in 0..n : k # n => k \in 0..(n - 1)
    OBVIOUS
  <2> QED
    BY <2>1, <1>9, <1>11
<1>14. ASSUME NEW i \in (n - 15)..n PROVE Y[i % 16] = g[i]
  <2>1. CASE i = n
    <3>1. n % 16 \in 0..15 /\ n \in 0..n
      OBVIOUS
    <3> QED
      BY <2>1, <3>1, <1>10, <1>11
  <2>2. CASE i # n
    <3>1. i \in (n - 16)..(n - 1) /\ i \in 0..n /\ i % 16 \in 0..15
      BY <2>2
    <3>2. i % 16 # n % 16
      <4>1. n \in Nat /\ i \in Nat /\ i < n /\ n < i + 16
        BY <2>2
      <4> QED
        BY <4>1, RingApart
    <3>3. Y[i % 16] = X[i % 16]
      BY <3>1, <3>2, <1>10
    <3>4. X[i % 16] = f[i]
      BY <3>1, <1>1
    <3> QED
      BY <2>2, <3>1, <3>3, <3>4
  <2> QED
    BY <2>1, <2>2
<1> QED
  BY <1>12, <1>13, <1>14

------------------------------------------------------------------------------
(* The bytes of the length                                                  *)
LengthByte(x, e) == BitsIn((x \div 256 ^ e) % 256)

(* the bytes of the length that are written                                 *)
LEMMA PlacesOfBytes ==
  \E p \in [0..3 -> Nat \ {0}] :
    /\ p[0] < p[1] /\ p[1] < p[2] /\ p[2] < p[3]
    /\ \A e \in 0..3 : p[e] = 256 ^ e
<1> DEFINE p == [e \in 0..3 |-> 256 ^ e]
<1>1. p[0] = 1
  OBVIOUS
<1>2. p[1] = 256
  OBVIOUS
<1>3. p[2] = 65536
  OBVIOUS
<1>4. p[3] = 16777216
  OBVIOUS
<1>5. \A e \in 0..3 : p[e] = 256 ^ e
  OBVIOUS
<1>6. DOMAIN p = 0..3 /\ p = [e \in 0..3 |-> p[e]]
  OBVIOUS
<1> HIDE DEF p
<1>7. p \in [0..3 -> Nat \ {0}]
  <2>1. \A e \in 0..3 : p[e] \in Nat \ {0}
    BY <1>1, <1>2, <1>3, <1>4, SMT
  <2> QED
    BY <1>6, <2>1
<1>8. p[0] < p[1] /\ p[1] < p[2] /\ p[2] < p[3]
  BY <1>1, <1>2, <1>3, <1>4, SMT
<1> QED
  BY <1>5, <1>7, <1>8

LEMMA LengthByteIs ==
  ASSUME NEW x \in Nat, NEW e \in 0..3
  PROVE  /\ LengthByte(x, e) \in Byte
         /\ x < 256 ^ e => LengthByte(x, e) = {}
<1>1. PICK q \in Nat \ {0} : q = 256 ^ e
  BY PlacesOfBytes
<1>2. (x \div q) % 256 \in Nat /\ (x \div q) % 256 < 256
  BY <1>1
<1>3. LengthByte(x, e) = BitsIn((x \div q) % 256)
  BY <1>1 DEF LengthByte
<1>4. ASSUME x < q PROVE (x \div q) % 256 = 0
  <2>1. x \div q = 0
    BY <1>1, <1>4
  <2> QED
    BY <2>1
<1> QED
  BY <1>1, <1>2, <1>3, <1>4, NumberBits

(* The places with a byte are the lowest ones.                              *)
LEMMA PlacesBelow ==
  ASSUME NEW x \in Nat
  PROVE  \E c \in 0..4 : /\ {n \in 0..3 : x >= 256 ^ n} = 0..(c - 1)
                         /\ \A e \in c..3 : x < 256 ^ e
<1>1. PICK p \in [0..3 -> Nat \ {0}] :
        /\ p[0] < p[1] /\ p[1] < p[2] /\ p[2] < p[3]
        /\ \A e \in 0..3 : p[e] = 256 ^ e
  BY PlacesOfBytes
<1>2. PICK p0 \in Nat, p1 \in Nat, p2 \in Nat, p3 \in Nat :
        p0 = p[0] /\ p1 = p[1] /\ p2 = p[2] /\ p3 = p[3] /\ p0 < p1 /\ p1 < p2 /\ p2 < p3
  BY <1>1
<1>3. PICK c \in 0..4 : /\ c = 0 => x < p0
                        /\ c = 1 => p0 <= x /\ x < p1
                        /\ c = 2 => p1 <= x /\ x < p2
                        /\ c = 3 => p2 <= x /\ x < p3
                        /\ c = 4 => p3 <= x
  <2>1. x < p0 \/ (p0 <= x /\ x < p1) \/ (p1 <= x /\ x < p2) \/ (p2 <= x /\ x < p3) \/ p3 <= x
    BY <1>2
  <2> QED
    BY <2>1
<1>4. ASSUME NEW e \in 0..3 PROVE IF e < c THEN p[e] <= x ELSE x < p[e]
  <2>1. CASE e = 0
    BY <2>1, <1>2, <1>3
  <2>2. CASE e = 1
    BY <2>2, <1>2, <1>3
  <2>3. CASE e = 2
    BY <2>3, <1>2, <1>3
  <2>4. CASE e = 3
    BY <2>4, <1>2, <1>3
  <2> QED
    BY <2>1, <2>2, <2>3, <2>4
<1>5. ASSUME NEW e \in 0..3 PROVE x >= p[e] <=> e < c
  BY <1>1, <1>4
<1>6. {n \in 0..3 : x >= 256 ^ n} = {n \in 0..3 : x >= p[n]}
  BY <1>1
<1>7. {n \in 0..3 : x >= p[n]} = 0..(c - 1)
  <2>1. c \in 0..4
    BY <1>3
  <2> QED
    BY <1>5, <2>1
<1>8. ASSUME NEW e \in c..3 PROVE x < 256 ^ e
  <2>1. e \in 0..3 /\ ~(e < c)
    BY <1>3
  <2> QED
    BY <2>1, <1>1, <1>4
<1> QED
  BY <1>3, <1>6, <1>7, <1>8

(* sequences by their elements                                              *)
LEMMA Made ==
  ASSUME NEW S, NEW n \in Nat, NEW q \in [1..n -> S]
  PROVE  q \in Seq(S) /\ Len(q) = n
<1>1. q \in Seq(S)
  BY SeqDef
<1>2. DOMAIN q = 1..n /\ DOMAIN q = 1..Len(q) /\ Len(q) \in Nat
  BY <1>1, LenProperties
<1> QED
  BY <1>1, <1>2

(* LengthBytes has the last bytes of the length, the others are 0.          *)
LEMMA LengthBytesAre ==
  ASSUME NEW x \in Nat
  PROVE  \E c \in 0..4 : /\ LengthBytes(x) \in Seq(Byte) /\ Len(LengthBytes(x)) = c
                         /\ \A k \in 1..c : LengthBytes(x)[k] = LengthByte(x, c - k)
                         /\ \A e \in c..3 : LengthByte(x, e) = {}
<1>1. PICK c \in 0..4 : /\ {n \in 0..3 : x >= 256 ^ n} = 0..(c - 1)
                        /\ \A e \in c..3 : x < 256 ^ e
  BY PlacesBelow
<1>2. Cardinality({n \in 0..3 : x >= 256 ^ n}) = c
  <2>1. c \in 0..4 /\ 0 \in Int /\ c - 1 \in Int
    BY <1>1
  <2>2. Cardinality(0..(c - 1)) = IF 0 > c - 1 THEN 0 ELSE c - 1 - 0 + 1
    BY <2>1, FS_Interval
  <2>3. (IF 0 > c - 1 THEN 0 ELSE c - 1 - 0 + 1) = c
    BY <2>1
  <2>4. \A S : S = 0..(c - 1) => Cardinality(S) = c
    BY <2>2, <2>3
  <2>5. {n \in 0..3 : x >= 256 ^ n} = 0..(c - 1)
    BY <1>1
  <2> QED
    BY ONLY <2>4, <2>5
<1>3. LengthBytes(x) = [k \in 1..c |-> LengthByte(x, c - k)]
  BY <1>2 DEF LengthBytes, LengthByte
<1>4. \A k \in 1..c : LengthByte(x, c - k) \in Byte
  <2> TAKE k \in 1..c
  <2>1. c - k \in 0..3
    BY <1>1
  <2> QED
    BY <2>1, LengthByteIs
<1>5. [k \in 1..c |-> LengthByte(x, c - k)] \in [1..c -> Byte]
  BY <1>4
<1>6. c \in Nat
  BY <1>1
<1>7. LengthBytes(x) \in Seq(Byte) /\ Len(LengthBytes(x)) = c
  BY <1>3, <1>5, <1>6, Made
<1>8. \A e \in c..3 : LengthByte(x, e) = {}
  <2> TAKE e \in c..3
  <2>1. e \in 0..3
    BY <1>1
  <2> QED
    BY <1>1, <2>1, LengthByteIs
<1> QED
  BY <1>1, <1>3, <1>7, <1>8

------------------------------------------------------------------------------
(* The padding                                                              *)
LEMMA Zeros ==
  ASSUME NEW n \in Nat, NEW q, q = [k \in 1..n |-> {}]
  PROVE  q \in Seq(Byte) /\ Len(q) = n /\ \A k \in 1..n : q[k] = {}
<1>1. {} \in Byte
  BY DEF Byte
<1>2. q \in [1..n -> Byte]
  BY <1>1
<1> QED
  BY <1>2, Made

LEMMA One ==
  ASSUME NEW S, NEW e \in S
  PROVE  <<e>> \in Seq(S) /\ Len(<<e>>) = 1 /\ <<e>>[1] = e
OBVIOUS

(* the length field of the standard, its upper bytes 0                      *)
LEMMA LengthFieldIs ==
  ASSUME NEW n \in Nat, NEW q, q = LengthField(n)
  PROVE  /\ q \in Seq(Byte) /\ Len(q) = 8
         /\ \A k \in 1..8 : q[k] = IF k < 5 THEN {} ELSE LengthByte(8 * n, 8 - k)
<1>1. q = [k \in 1..8 |-> IF k < 5 THEN {} ELSE LengthByte(8 * n, 8 - k)]
  BY DEF LengthField, LengthByte
<1>2. \A k \in 1..8 : (IF k < 5 THEN {} ELSE LengthByte(8 * n, 8 - k)) \in Byte
  <2> TAKE k \in 1..8
  <2>1. CASE k < 5
    BY <2>1 DEF Byte
  <2>2. CASE ~(k < 5)
    <3>1. 8 - k \in 0..3 /\ 8 * n \in Nat
      BY <2>2
    <3> QED
      BY <2>2, <3>1, LengthByteIs
  <2> QED
    BY <2>1, <2>2
<1>3. q \in [1..8 -> Byte]
  BY <1>1, <1>2
<1> QED
  BY <1>1, <1>3, Made

LEMMA Joined ==
  ASSUME NEW S, NEW x, NEW y, NEW q, q = x \o y, x \in Seq(S), y \in Seq(S)
  PROVE  /\ q \in Seq(S) /\ Len(x) \in Nat /\ Len(y) \in Nat /\ Len(q) = Len(x) + Len(y)
         /\ \A i \in 1..Len(x) : q[i] = x[i]
         /\ \A i \in 1..Len(y) : q[Len(x) + i] = y[i]
<1>1. PICK n \in Nat : n = Len(x)
  BY LenProperties
<1>2. PICK o \in Nat : o = Len(y)
  BY LenProperties
<1>3. q \in Seq(S) /\ Len(q) = n + o
  BY <1>1, <1>2, ConcatProperties
<1>4. \A i \in 1..(Len(x) + Len(y)) : (x \o y)[i] = IF i <= Len(x) THEN x[i] ELSE y[i - Len(x)]
  BY ConcatProperties
<1>5. \A i \in 1..(n + o) : q[i] = IF i <= n THEN x[i] ELSE y[i - n]
  BY <1>1, <1>2, <1>4
<1>6. \A i \in 1..n : q[i] = x[i]
  BY <1>1, <1>2, <1>5
<1>7. ASSUME NEW i \in 1..o PROVE q[n + i] = y[i]
  <2>1. PICK k \in 1..(n + o) : k = n + i
    BY <1>1, <1>2
  <2>2. ~(k <= n) /\ k - n = i
    BY <1>1, <1>2, <2>1
  <2> QED
    BY <2>1, <2>2, <1>5
<1> QED
  BY <1>1, <1>2, <1>3, <1>6, <1>7

LEMMA Room == \A n \in Nat : (55 - n) % 64 \in Nat /\ (55 - n) % 64 < 64
OBVIOUS

(* the places of the length field                                           *)
Eight == 1..8

PaddedAs(b, n, z, p) ==
  b \in Seq(Byte) /\ n = Len(b) /\ z = (55 - n) % 64 /\ p = Padded(b)

PaddedOf(b, n, z, p) ==
  /\ z < 64
  /\ p \in Seq(Byte) /\ Len(p) = n + z + 9
  /\ \A i \in 1..n : p[i] = b[i]
  /\ p[n + 1] = {7}
  /\ \A i \in (n + 2)..(n + 1 + z) : p[i] = {}
  /\ \A k \in Eight : p[n + 1 + z + k] = LengthField(n)[k]

(* what each byte of the padded message is                                  *)
LEMMA PaddedIs ==
  ASSUME NEW b, NEW n, NEW z, NEW p, PaddedAs(b, n, z, p)
  PROVE  PaddedOf(b, n, z, p)
<1> USE DEF PaddedAs
<1>1. n \in Nat /\ z \in Nat /\ z < 64
  <2>1. n \in Nat
    BY LenProperties
  <2>2. (55 - n) % 64 \in Nat /\ (55 - n) % 64 < 64
    BY <2>1, Room
  <2> QED
    BY <2>1, <2>2
<1>2. PICK one : one = <<{7}>> /\ one \in Seq(Byte) /\ Len(one) = 1 /\ one[1] = {7}
  <2>1. {7} \in Byte
    BY DEF Byte
  <2> QED
    BY <2>1, One
<1>3. PICK q : q = [k \in 1..z |-> {}] /\ q \in Seq(Byte) /\ Len(q) = z /\ \A k \in 1..z : q[k] = {}
  <2>1. z \in Nat
    BY <1>1
  <2> QED
    BY <2>1, Zeros
<1>4. PICK f : f = LengthField(n) /\ f \in Seq(Byte) /\ Len(f) = 8
  BY <1>1, LengthFieldIs
<1>5. PICK p1 : p1 = b \o one
  OBVIOUS
<1>6. /\ p1 \in Seq(Byte) /\ Len(p1) = n + 1
      /\ \A i \in 1..n : p1[i] = b[i]
      /\ \A i \in 1..1 : p1[n + i] = one[i]
  BY <1>2, <1>5, Joined
<1>7. PICK p2 : p2 = p1 \o q
  OBVIOUS
<1>8. /\ p2 \in Seq(Byte) /\ Len(p2) = (n + 1) + z
      /\ \A i \in 1..(n + 1) : p2[i] = p1[i]
      /\ \A i \in 1..z : p2[(n + 1) + i] = q[i]
  <2>1. p1 \in Seq(Byte) /\ q \in Seq(Byte)
    BY <1>3, <1>6
  <2>2. /\ p2 \in Seq(Byte) /\ Len(p2) = Len(p1) + Len(q)
        /\ \A i \in 1..Len(p1) : p2[i] = p1[i]
        /\ \A i \in 1..Len(q) : p2[Len(p1) + i] = q[i]
    BY ONLY <2>1, <1>7, Joined
  <2>3. Len(p1) = n + 1 /\ Len(q) = z
    BY <1>3, <1>6
  <2> QED
    BY <2>1, <2>2, <2>3
<1>9. PICK p3 : p3 = p2 \o f
  OBVIOUS
<1>10. /\ p3 \in Seq(Byte) /\ Len(p3) = ((n + 1) + z) + 8
       /\ \A i \in 1..((n + 1) + z) : p3[i] = p2[i]
       /\ \A i \in Eight : p3[((n + 1) + z) + i] = f[i]
  <2>1. p2 \in Seq(Byte) /\ f \in Seq(Byte)
    BY <1>4, <1>8
  <2>2. /\ p3 \in Seq(Byte) /\ Len(p3) = Len(p2) + Len(f)
        /\ \A i \in 1..Len(p2) : p3[i] = p2[i]
        /\ \A i \in 1..Len(f) : p3[Len(p2) + i] = f[i]
    BY ONLY <2>1, <1>9, Joined
  <2>3. Len(p2) = (n + 1) + z /\ Len(f) = 8
    BY <1>4, <1>8
  <2>4. 1..Len(f) = Eight
    BY <2>3 DEF Eight
  <2> QED
    BY <2>1, <2>2, <2>3, <2>4
<1>11. p = p3
  BY <1>2, <1>3, <1>4, <1>5, <1>7, <1>9 DEF Padded
<1>12. ASSUME NEW i \in 1..n PROVE p3[i] = b[i]
  <2>1. i \in 1..(n + 1) /\ i \in 1..((n + 1) + z)
    BY <1>1
  <2> QED
    BY <2>1, <1>6, <1>8, <1>10
<1>13. p3[n + 1] = {7}
  <2>1. n + 1 \in 1..(n + 1) /\ n + 1 \in 1..((n + 1) + z)
    BY <1>1
  <2>2. p1[n + 1] = one[1]
    BY <1>6
  <2> QED
    BY <2>1, <2>2, <1>2, <1>8, <1>10
<1>14. ASSUME NEW i \in (n + 2)..(n + 1 + z) PROVE p3[i] = {}
  <2>1. PICK k \in 1..z : i = (n + 1) + k /\ (n + 1) + k \in 1..((n + 1) + z)
    <3>1. i - (n + 1) \in 1..z /\ i = (n + 1) + (i - (n + 1)) /\ i \in 1..((n + 1) + z)
      BY <1>1
    <3> QED
      BY <3>1
  <2>2. p3[(n + 1) + k] = p2[(n + 1) + k] /\ p2[(n + 1) + k] = q[k] /\ q[k] = {}
    BY <2>1, <1>3, <1>8, <1>10
  <2> QED
    BY <2>1, <2>2
<1>15. \A k \in Eight : p3[n + 1 + z + k] = f[k]
  BY <1>1, <1>10 DEF Eight
<1>16. Len(p3) = n + z + 9
  BY <1>1, <1>10
<1> QED
  BY <1>1, <1>4, <1>10, <1>11, <1>12, <1>13, <1>14, <1>15, <1>16 DEF PaddedOf

(* Block i of the padded message, from 1, and what a call is given          *)
BlockOf(p, i) == [k \in 1..64 |-> p[64 * (i - 1) + k]]
Ahead(p, a, l) == [k \in 1..l |-> BlockOf(p, a + k)]
Singles(p, a, l) == [k \in 1..l |-> <<BlockOf(p, a + k)>>]

BlockAs(p, i, q) ==
  /\ q \in Seq(Byte) /\ Len(q) = 64
  /\ \A k \in 1..Len(q) : q[k] = p[64 * (i - 1) + k]

LEMMA IsBlock ==
  ASSUME NEW p, NEW i, NEW q, BlockAs(p, i, q)
  PROVE  q = BlockOf(p, i)
<1> USE DEF BlockAs
<1>1. q \in [1..64 -> Byte]
  BY LenProperties
<1>2. q = [k \in 1..64 |-> q[k]]
  BY <1>1
<1> QED
  BY <1>2 DEF BlockOf

(* the bytes of the length at the end of the field                          *)
LengthEnds(n, c, y) ==
  /\ c <= 4
  /\ y \in Seq(Byte) /\ Len(y) = c
  /\ \A k \in 1..(8 - c) : LengthField(n)[k] = {}
  /\ \A k \in 1..c : LengthField(n)[8 - c + k] = y[k]

(* the bytes of the length are the last ones of the length field            *)
LEMMA LengthAtEnd ==
  ASSUME NEW n \in Nat
  PROVE  \E c \in Nat : LengthEnds(n, c, LengthBytes(8 * n))
<1>1. PICK x \in Nat : x = 8 * n
  OBVIOUS
<1>2. PICK c \in 0..4 :
        /\ LengthBytes(x) \in Seq(Byte) /\ Len(LengthBytes(x)) = c
        /\ \A k \in 1..c : LengthBytes(x)[k] = LengthByte(x, c - k)
        /\ \A e \in c..3 : LengthByte(x, e) = {}
  BY LengthBytesAre
<1>3. \A k \in 1..8 : LengthField(n)[k] = IF k < 5 THEN {} ELSE LengthByte(x, 8 - k)
  BY <1>1, LengthFieldIs
<1>4. ASSUME NEW k \in 1..(8 - c) PROVE LengthField(n)[k] = {}
  <2>1. k \in 1..8 /\ (k >= 5 => 8 - k \in c..3)
    BY <1>2
  <2> QED
    BY <2>1, <1>2, <1>3
<1>5. ASSUME NEW k \in 1..c PROVE LengthField(n)[8 - c + k] = LengthBytes(x)[k]
  <2>1. PICK i \in 5..8 : i = 8 - c + k /\ 8 - i = c - k
    BY <1>2
  <2>2. LengthField(n)[i] = LengthByte(x, 8 - i)
    BY <1>3, <2>1
  <2> QED
    BY <2>1, <2>2, <1>2
<1> QED
  BY <1>1, <1>2, <1>4, <1>5 DEF LengthEnds

(* The padded message from its last whole block on                          *)
LEMMA Wraps == ASSUME NEW n \in Nat, 56 <= n % 64 PROVE (55 - n) % 64 = 119 - (n % 64)
  BY SMTT(60)

RoomFor(n, a, r, z) ==
  n = 64 * a + r /\ r < 64 /\ (r < 56 => z = 55 - r) /\ (r >= 56 => z = 119 - r)

LEMMA RoomIs ==
  ASSUME NEW n \in Nat
  PROVE  RoomFor(n, n \div 64, n % 64, (55 - n) % 64)
<1>1. n \div 64 \in Nat /\ n % 64 \in Nat /\ n % 64 < 64
  OBVIOUS
<1>2. n % 64 < 56 => (55 - n) % 64 = 55 - (n % 64)
  OBVIOUS
<1>3. n % 64 >= 56 => (55 - n) % 64 = 119 - (n % 64)
  BY Wraps
<1>4. n = 64 * (n \div 64) + (n % 64)
  OBVIOUS
<1> QED
  BY <1>1, <1>2, <1>3, <1>4 DEF RoomFor

(* A buffer filled up to the length                                         *)
FilledAs(x, n, y, c, q) ==
  /\ n <= 56 /\ c <= 8
  /\ x \in Seq(Byte) /\ Len(x) = n /\ y \in Seq(Byte) /\ Len(y) = c
  /\ q = x \o [k \in 1..(64 - Len(x) - Len(y)) |-> {}] \o y

FilledOf(x, n, y, c, q) ==
  /\ q \in Seq(Byte) /\ Len(q) = 64
  /\ \A k \in 1..n : q[k] = x[k]
  /\ \A k \in (n + 1)..(64 - c) : q[k] = {}
  /\ \A k \in 1..c : q[64 - c + k] = y[k]

LEMMA FilledIs ==
  ASSUME NEW x, NEW n \in Nat, NEW y, NEW c \in Nat, NEW q, FilledAs(x, n, y, c, q)
  PROVE  FilledOf(x, n, y, c, q)
<1> USE DEF FilledAs
<1>1. PICK l \in Nat : l = 64 - n - c
  OBVIOUS
<1>2. PICK o : o = [k \in 1..l |-> {}]
  OBVIOUS
<1>3. o \in Seq(Byte) /\ Len(o) = l /\ \A k \in 1..l : o[k] = {}
  BY <1>1, <1>2, Zeros
<1>4. PICK f : f = x \o o
  OBVIOUS
<1>5. /\ f \in Seq(Byte) /\ Len(f) = n + l
      /\ \A k \in 1..n : f[k] = x[k]
      /\ \A k \in 1..l : f[n + k] = o[k]
  <2>1. x \in Seq(Byte) /\ o \in Seq(Byte)
    BY <1>3
  <2>2. /\ f \in Seq(Byte) /\ Len(f) = Len(x) + Len(o)
        /\ \A k \in 1..Len(x) : f[k] = x[k]
        /\ \A k \in 1..Len(o) : f[Len(x) + k] = o[k]
    BY ONLY <2>1, <1>4, Joined
  <2> QED
    BY <2>2, <1>3
<1>6. q = f \o y
  BY <1>1, <1>2, <1>4
<1>7. /\ q \in Seq(Byte) /\ Len(q) = (n + l) + c
      /\ \A k \in 1..(n + l) : q[k] = f[k]
      /\ \A k \in 1..c : q[(n + l) + k] = y[k]
  <2>1. f \in Seq(Byte) /\ y \in Seq(Byte)
    BY <1>5
  <2>2. /\ q \in Seq(Byte) /\ Len(q) = Len(f) + Len(y)
        /\ \A k \in 1..Len(f) : q[k] = f[k]
        /\ \A k \in 1..Len(y) : q[Len(f) + k] = y[k]
    BY ONLY <2>1, <1>6, Joined
  <2> QED
    BY <2>2, <1>5
<1>8. n + l = 64 - c
  BY <1>1
<1>9. \A k \in 1..n : q[k] = x[k]
  <2> TAKE k \in 1..n
  <2>1. k \in 1..(n + l)
    BY <1>1
  <2> QED
    BY <2>1, <1>5, <1>7
<1>10. ASSUME NEW k \in (n + 1)..(64 - c) PROVE q[k] = {}
  <2>1. PICK i \in 1..l : k = n + i
    BY <1>1
  <2>2. k \in 1..(n + l)
    BY <1>8
  <2> QED
    BY <2>1, <2>2, <1>3, <1>5, <1>7
<1>11. Len(q) = 64
  BY <1>7, <1>8
<1>12. \A k \in 1..c : q[64 - c + k] = y[k]
  BY <1>7, <1>8
<1> QED
  BY <1>7, <1>9, <1>10, <1>11, <1>12 DEF FilledOf

SplitAs(b, n, p, a, r, l) ==
  /\ b \in Seq(Byte) /\ n = Len(b) /\ p = Padded(b)
  /\ a = n \div 64 /\ r = n % 64 /\ l = IF r < 56 THEN 1 ELSE 2

LEMMA SplitTypes ==
  ASSUME NEW b, NEW n, NEW p, NEW a, NEW r, NEW l, SplitAs(b, n, p, a, r, l)
  PROVE  n \in Nat /\ a \in Nat /\ r \in Nat /\ l \in Nat
<1>1. n \in Nat
  BY LenProperties DEF SplitAs
<1>2. n \div 64 \in Nat /\ n % 64 \in Nat
  BY <1>1
<1> QED
  BY <1>1, <1>2 DEF SplitAs

SplitOf(b, n, p, a, r, l) ==
  /\ n = 64 * a + r /\ r < 64 /\ l = IF r < 56 THEN 1 ELSE 2
  /\ p \in Seq(Byte) /\ Len(p) = 64 * (a + l)
  /\ \A k \in 1..n : p[k] = b[k]
  /\ p[n + 1] = {7}
  /\ \A i \in (n + 2)..(64 * (a + l) - 8) : p[i] = {}
  /\ \A k \in Eight : p[64 * (a + l) - 8 + k] = LengthField(n)[k]

(* how the padded message ends: zeros, then the length                      *)
LEMMA PaddedEnd ==
  ASSUME NEW b, NEW n \in Nat, NEW p, NEW a \in Nat, NEW r \in Nat, NEW l \in Nat,
         SplitAs(b, n, p, a, r, l)
  PROVE  SplitOf(b, n, p, a, r, l)
<1>1. PICK z \in Nat : z = (55 - n) % 64
  BY Room
<1>2. PaddedOf(b, n, z, p)
  <2>1. PaddedAs(b, n, z, p)
    BY <1>1 DEF PaddedAs, SplitAs
  <2> QED
    BY ONLY <2>1, PaddedIs
<1>3. RoomFor(n, a, r, z)
  <2>1. RoomFor(n, n \div 64, n % 64, (55 - n) % 64)
    BY RoomIs
  <2> QED
    BY <1>1, <2>1 DEF SplitAs
<1>4. l = IF r < 56 THEN 1 ELSE 2
  BY DEF SplitAs
<1>5. n + 1 + z = 64 * (a + l) - 8
  <2>1. CASE r < 56
    BY <2>1, <1>3, <1>4 DEF RoomFor
  <2>2. CASE ~(r < 56)
    BY <2>2, <1>3, <1>4 DEF RoomFor
  <2> QED
    BY <2>1, <2>2
<1>6. Len(p) = 64 * (a + l)
  BY <1>2, <1>5 DEF PaddedOf
<1>7. \A i \in (n + 2)..(64 * (a + l) - 8) : p[i] = {}
  BY <1>2, <1>5 DEF PaddedOf
<1>8. \A k \in Eight : p[64 * (a + l) - 8 + k] = LengthField(n)[k]
  BY <1>2, <1>5 DEF PaddedOf
<1> QED
  BY <1>2, <1>3, <1>4, <1>6, <1>7, <1>8 DEF SplitOf, RoomFor, PaddedOf

(* The rest of the message with the one bit behind it                       *)
MarkedOf(x, p, a, r) ==
  x \in Seq(Byte) /\ Len(x) = r + 1 /\ \A k \in 1..(r + 1) : x[k] = p[64 * a + k]

(* the rest of the message and the marker, as they lie in the buffer        *)
LEMMA MarkedIs ==
  ASSUME NEW b, NEW n \in Nat, NEW p, NEW a \in Nat, NEW r \in Nat, NEW l \in Nat,
         SplitAs(b, n, p, a, r, l)
  PROVE  MarkedOf(SubSeq(b, 64 * a + 1, n) \o <<{7}>>, p, a, r)
<1>1. /\ n = 64 * a + r
      /\ \A k \in 1..n : p[k] = b[k]
      /\ p[n + 1] = {7}
  <2>1. SplitOf(b, n, p, a, r, l)
    BY PaddedEnd, Zenon
  <2> QED
    BY <2>1 DEF SplitOf
<1>2. b \in Seq(Byte) /\ Len(b) = n
  BY DEF SplitAs
<1>3. PICK c : c = SubSeq(b, 64 * a + 1, n)
  OBVIOUS
<1>4. /\ c \in Seq(Byte) /\ Len(c) = r
      /\ \A k \in 1..r : c[k] = b[64 * a + k]
  <2>1. PICK m1 \in Nat : m1 = 64 * a + 1 /\ n - m1 + 1 = r
    BY <1>1
  <2>2. c = SubSeq(b, m1, n)
    BY <2>1, <1>3
  <2>3. m1 \in 1..(Len(b) + 1) /\ n \in (m1 - 1)..Len(b)
    BY <1>1, <1>2, <2>1
  <2>4. /\ c \in Seq(Byte)
        /\ Len(c) = IF m1 <= n THEN n - m1 + 1 ELSE 0
        /\ \A i \in 1..(n - m1 + 1) : c[i] = b[m1 + i - 1]
    BY <1>2, <2>2, <2>3, SubSeqProperties
  <2>5. Len(c) = r
    BY <2>1, <2>4, <1>1
  <2>6. ASSUME NEW k \in 1..r PROVE c[k] = b[64 * a + k]
    <3>1. m1 + k - 1 = 64 * a + k
      BY <2>1, <1>1
    <3> QED
      BY <3>1, <2>1, <2>4
  <2> QED
    BY <2>4, <2>5, <2>6
<1>5. {7} \in Byte
  BY DEF Byte
<1>6. PICK o : o = <<{7}>>
  OBVIOUS
<1>7. o \in Seq(Byte) /\ Len(o) = 1 /\ o[1] = {7}
  BY ONLY <1>5, <1>6, One
<1>8. PICK x : x = c \o o
  OBVIOUS
<1>9. /\ x \in Seq(Byte) /\ Len(x) = Len(c) + Len(o)
      /\ \A i \in 1..Len(c) : x[i] = c[i]
      /\ \A i \in 1..Len(o) : x[Len(c) + i] = o[i]
  <2>1. c \in Seq(Byte) /\ o \in Seq(Byte)
    BY <1>4, <1>7
  <2> QED
    BY ONLY <1>8, <2>1, Joined
<1>10. Len(x) = r + 1
  BY <1>4, <1>7, <1>9
<1>11. ASSUME NEW k \in 1..r PROVE x[k] = p[64 * a + k]
  <2>1. 64 * a + k \in 1..n
    BY <1>1
  <2> QED
    BY <2>1, <1>1, <1>4, <1>9
<1>12. x[r + 1] = p[64 * a + (r + 1)]
  <2>1. 64 * a + (r + 1) = n + 1
    BY <1>1
  <2>2. x[r + 1] = o[1]
    BY <1>4, <1>7, <1>9
  <2>3. x[r + 1] = p[n + 1]
    BY ONLY <2>2, <1>7, <1>1
  <2> QED
    BY ONLY <2>1, <2>3
<1>13. \A k \in 1..(r + 1) : x[k] = p[64 * a + k]
  <2> SUFFICES ASSUME NEW k \in 1..(r + 1) PROVE x[k] = p[64 * a + k]
    OBVIOUS
  <2>1. k \in 1..r \/ k = r + 1
    OBVIOUS
  <2> QED
    BY <2>1, <1>11, <1>12
<1>14. x = SubSeq(b, 64 * a + 1, n) \o <<{7}>>
  BY <1>3, <1>6, <1>8
<1> QED
  BY ONLY <1>9, <1>10, <1>13, <1>14 DEF MarkedOf

(* The block the length is in                                               *)
TopOf(x, e, p, g, n) ==
  /\ x \in Seq(Byte) /\ Len(x) = e /\ e <= 56 /\ g + e >= n + 1
  /\ \A k \in 1..e : x[k] = p[g + k]

FilledUp(x, y) == x \o [k \in 1..(64 - Len(x) - Len(y)) |-> {}] \o y

(* the buffer with the length is a block of the padded message              *)
LEMMA FilledBlock ==
  ASSUME NEW b, NEW n \in Nat, NEW p, NEW a \in Nat, NEW r \in Nat, NEW l \in Nat,
         SplitAs(b, n, p, a, r, l),
         NEW x, NEW e \in Nat, NEW i \in Nat, i = a + l, TopOf(x, e, p, 64 * (i - 1), n)
  PROVE  FilledUp(x, LengthBytes(8 * n)) = BlockOf(p, i)
<1>1. /\ n = 64 * a + r /\ r < 64 /\ l = IF r < 56 THEN 1 ELSE 2
      /\ \A k \in (n + 2)..(64 * (a + l) - 8) : p[k] = {}
      /\ \A k \in Eight : p[64 * (a + l) - 8 + k] = LengthField(n)[k]
  <2>1. SplitOf(b, n, p, a, r, l)
    BY PaddedEnd, Zenon
  <2> QED
    BY <2>1 DEF SplitOf
<1>2. PICK y : y = LengthBytes(8 * n)
  OBVIOUS
<1>3. PICK c \in Nat : LengthEnds(n, c, y)
  BY <1>2, LengthAtEnd
<1>4. /\ c <= 4
      /\ y \in Seq(Byte) /\ Len(y) = c
      /\ \A k \in 1..(8 - c) : LengthField(n)[k] = {}
      /\ \A k \in 1..c : LengthField(n)[8 - c + k] = y[k]
  BY <1>3 DEF LengthEnds
<1>5. PICK g \in Int : g = 64 * (i - 1) /\ g + 64 = 64 * (a + l)
  OBVIOUS
<1>6. /\ x \in Seq(Byte) /\ Len(x) = e /\ e <= 56 /\ g + e >= n + 1
      /\ \A k \in 1..e : x[k] = p[g + k]
  BY <1>5 DEF TopOf
<1>7. PICK q : q = FilledUp(x, y)
  OBVIOUS
<1>8. FilledOf(x, e, y, c, q)
  <2>1. FilledAs(x, e, y, c, q)
    BY <1>4, <1>6, <1>7 DEF FilledAs, FilledUp
  <2> QED
    BY ONLY <2>1, e \in Nat, c \in Nat, FilledIs, Zenon
<1>9. /\ q \in Seq(Byte) /\ Len(q) = 64
      /\ \A k \in 1..e : q[k] = x[k]
      /\ \A k \in (e + 1)..(64 - c) : q[k] = {}
      /\ \A k \in 1..c : q[64 - c + k] = y[k]
  BY <1>8 DEF FilledOf
<1>10. \A k \in (n + 2)..(g + 56) : p[k] = {}
  BY <1>1, <1>5
<1>11. \A k \in Eight : p[g + 56 + k] = LengthField(n)[k]
  <2> SUFFICES ASSUME NEW k \in Eight PROVE p[g + 56 + k] = LengthField(n)[k]
    OBVIOUS
  <2>1. 64 * (a + l) - 8 = g + 56
    BY <1>5
  <2>2. p[64 * (a + l) - 8 + k] = LengthField(n)[k]
    BY <1>1
  <2> QED
    BY ONLY <2>1, <2>2
<1>12. ASSUME NEW k \in 1..Len(q) PROVE q[k] = p[g + k]
  <2>1. CASE k \in 1..e
    BY <2>1, <1>6, <1>9
  <2>2. CASE k \in (e + 1)..56
    <3>1. g + k \in (n + 2)..(g + 56)
      BY <2>2, <1>6
    <3>2. k \in (e + 1)..(64 - c)
      BY <2>2, <1>4
    <3>3. q[k] = {}
      BY <3>2, <1>9
    <3>4. p[g + k] = {}
      BY <3>1, <1>10
    <3> QED
      BY <3>3, <3>4
  <2>3. CASE k \in 57..(64 - c)
    <3>1. k \in (e + 1)..(64 - c)
      BY <2>3, <1>6
    <3>2. PICK h \in Int : h = k - 56
      BY <2>3
    <3>3. h \in 1..(8 - c) /\ h \in Eight /\ g + 56 + h = g + k
      BY <2>3, <3>2, <1>4 DEF Eight
    <3>4. q[k] = {}
      BY <3>1, <1>9
    <3>5. p[g + 56 + h] = LengthField(n)[h] /\ LengthField(n)[h] = {}
      BY <3>3, <1>4, <1>11
    <3> QED
      BY ONLY <3>3, <3>4, <3>5
  <2>4. CASE k \in (65 - c)..64
    <3>1. PICK h \in Int : h = k - (64 - c)
      BY <2>4
    <3>2. PICK m1 \in Int : m1 = 8 - c + h
      BY <3>1
    <3>3. h \in 1..c /\ m1 \in Eight /\ g + 56 + m1 = g + k /\ 64 - c + h = k
      <4>1. h \in 1..c /\ 64 - c + h = k
        BY <2>4, <3>1
      <4>2. m1 >= 8 - c + 1 /\ m1 <= 8
        BY <3>2, <4>1
      <4>3. m1 \in Eight
        BY <4>2, <1>4 DEF Eight
      <4>4. g + 56 + m1 = g + k
        BY <3>1, <3>2
      <4> QED
        BY <4>1, <4>3, <4>4
    <3>4. q[k] = y[h]
      BY <3>3, <1>9
    <3>5. LengthField(n)[m1] = y[h]
      BY <3>2, <3>3, <1>4
    <3>6. p[g + 56 + m1] = LengthField(n)[m1]
      BY <3>3, <1>11
    <3> QED
      BY ONLY <3>3, <3>4, <3>5, <3>6
  <2> QED
    BY <1>4, <1>6, <1>9, <2>1, <2>2, <2>3, <2>4
<1>13. BlockAs(p, i, q)
  BY <1>5, <1>9, <1>12 DEF BlockAs
<1> QED
  BY ONLY <1>2, <1>7, <1>13, IsBlock

(* The blocks the buffer m holds are the last of the padded message         *)
LEMMA LastIsPadded ==
  ASSUME NEW b, NEW n \in Nat, NEW p, NEW a \in Nat, NEW r \in Nat, NEW l \in Nat,
         SplitAs(b, n, p, a, r, l)
  PROVE  LastBlocks(SubSeq(b, 64 * a + 1, n), 8 * n) = [k \in 1..l |-> BlockOf(p, a + k)]
<1>1. /\ n = 64 * a + r /\ r < 64 /\ l = IF r < 56 THEN 1 ELSE 2
      /\ \A k \in (n + 2)..(64 * (a + l) - 8) : p[k] = {}
  <2>1. SplitOf(b, n, p, a, r, l)
    BY PaddedEnd, Zenon
  <2> QED
    BY <2>1 DEF SplitOf
<1>2. PICK x : x = SubSeq(b, 64 * a + 1, n) \o <<{7}>>
  OBVIOUS
<1>3. /\ x \in Seq(Byte) /\ Len(x) = r + 1
      /\ \A k \in 1..(r + 1) : x[k] = p[64 * a + k]
  <2>1. MarkedOf(x, p, a, r)
    BY <1>2, MarkedIs
  <2> QED
    BY <2>1 DEF MarkedOf
<1>4. PICK y : y = LengthBytes(8 * n)
  OBVIOUS
<1>5. PICK z : z = LastBlocks(SubSeq(b, 64 * a + 1, n), 8 * n)
  OBVIOUS
<1>6. z = IF Len(x) > 56
            THEN <<x \o [k \in 1..(64 - Len(x)) |-> {}], FilledUp(<<>>, y)>>
            ELSE <<FilledUp(x, y)>>
  BY ONLY <1>2, <1>4, <1>5 DEF LastBlocks, FilledUp
<1>7. PICK i \in Nat : i = a + l
  OBVIOUS
<1>8. CASE r < 56
  <2>1. l = 1 /\ z = <<FilledUp(x, y)>>
    BY <1>1, <1>3, <1>6, <1>8
  <2>2. PICK e \in Nat : e = r + 1 /\ e <= 56
    BY <1>1, <1>8
  <2>3. 64 * (i - 1) = 64 * a
    BY <1>7, <2>1
  <2>4. TopOf(x, e, p, 64 * (i - 1), n)
    <3>1. PICK g \in Int : g = 64 * (i - 1) /\ g = 64 * a
      BY <2>3
    <3>2. \A k \in 1..e : x[k] = p[g + k]
      BY <1>3, <2>2, <3>1
    <3>3. Len(x) = e /\ g + e >= n + 1
      BY <1>1, <1>3, <2>2, <3>1
    <3>4. TopOf(x, e, p, g, n)
      BY ONLY <1>3, <2>2, <3>2, <3>3 DEF TopOf
    <3> QED
      BY <3>1, <3>4
  <2>5. FilledUp(x, y) = BlockOf(p, i)
    BY ONLY SplitAs(b, n, p, a, r, l), n \in Nat, a \in Nat, r \in Nat, l \in Nat, e \in Nat,
            i \in Nat, <1>4, <1>7, <2>4, FilledBlock
  <2>6. z = [k \in 1..1 |-> BlockOf(p, a + k)]
    <3>1. z = <<BlockOf(p, a + 1)>>
      BY <1>7, <2>1, <2>5
    <3> QED
      BY <3>1
  <2> QED
    BY <1>5, <2>1, <2>6
<1>9. CASE r >= 56
  <2>1. l = 2
    BY <1>1, <1>9
  <2>2. PICK w1 : w1 = <<>>
    OBVIOUS
  <2>3. w1 \in Seq(Byte) /\ Len(w1) = 0
    BY <2>2, EmptySeq
  <2>4. PICK e \in Nat : e = 0
    OBVIOUS
  <2>5. TopOf(w1, e, p, 64 * (i - 1), n)
    <3>1. 64 * (i - 1) = 64 * a + 64
      BY <1>7, <2>1
    <3> QED
      BY <1>1, <2>3, <2>4, <3>1 DEF TopOf
  <2>6. FilledUp(w1, y) = BlockOf(p, i)
    BY ONLY SplitAs(b, n, p, a, r, l), n \in Nat, a \in Nat, r \in Nat, l \in Nat, e \in Nat,
            i \in Nat, <1>4, <1>7, <2>5, FilledBlock
  <2>7. PICK u \in Nat : u = 63 - r
    BY <1>1
  <2>8. PICK o : o = [k \in 1..u |-> {}]
    OBVIOUS
  <2>9. o \in Seq(Byte) /\ Len(o) = u /\ \A k \in 1..u : o[k] = {}
    BY <2>7, <2>8, Zeros
  <2>10. PICK f : f = x \o o
    OBVIOUS
  <2>11. /\ f \in Seq(Byte) /\ Len(f) = Len(x) + Len(o)
         /\ \A k \in 1..Len(x) : f[k] = x[k]
         /\ \A k \in 1..Len(o) : f[Len(x) + k] = o[k]
    <3>1. x \in Seq(Byte) /\ o \in Seq(Byte)
      BY <1>3, <2>9
    <3> QED
      BY ONLY <3>1, <2>10, Joined
  <2>12. Len(f) = 64
    BY <1>1, <1>3, <2>7, <2>9, <2>11
  <2>13. PICK h \in Nat : h = a + 1 /\ 64 * (h - 1) = 64 * a
    <3>1. a + 1 \in Nat /\ 64 * ((a + 1) - 1) = 64 * a
      OBVIOUS
    <3> QED
      BY <3>1
  <2>14. ASSUME NEW k \in 1..Len(f) PROVE f[k] = p[64 * a + k]
    <3>1. CASE k \in 1..(r + 1)
      BY <3>1, <1>3, <2>11
    <3>2. CASE k \in (r + 2)..64
      <4>1. PICK v1 \in Int : v1 = k - (r + 1)
        BY <3>2
      <4>2. v1 \in 1..u /\ (r + 1) + v1 = k
        BY <3>2, <4>1, <2>7
      <4>3. f[k] = {}
        BY <4>2, <1>3, <2>9, <2>11
      <4>4. 64 * a + k \in (n + 2)..(64 * (a + l) - 8)
        BY <1>1, <2>1, <3>2
      <4>5. p[64 * a + k] = {}
        BY <4>4, <1>1
      <4> QED
        BY <4>3, <4>5
    <3>3. k \in 1..(r + 1) \/ k \in (r + 2)..64
      BY <2>12
    <3> QED
      BY <3>1, <3>2, <3>3
  <2>15. f = BlockOf(p, h)
    <3>1. BlockAs(p, h, f)
      BY <2>11, <2>12, <2>13, <2>14 DEF BlockAs
    <3> QED
      BY ONLY <3>1, IsBlock
  <2>16. z = <<f, FilledUp(w1, y)>>
    <3>1. Len(x) > 56 /\ 64 - Len(x) = u
      BY <1>1, <1>3, <1>9, <2>7
    <3> QED
      BY <3>1, <1>6, <2>2, <2>8, <2>10
  <2>17. z = [k \in 1..2 |-> BlockOf(p, a + k)]
    <3>1. z = <<BlockOf(p, a + 1), BlockOf(p, a + 2)>>
      BY <1>7, <2>1, <2>6, <2>13, <2>15, <2>16
    <3> QED
      BY <3>1
  <2> QED
    BY <1>5, <2>1, <2>17
<1> QED
  BY <1>1, <1>8, <1>9

(* The head and the tail of a sequence written out                          *)
LEMMA HeadTail ==
  ASSUME NEW q, NEW n \in Nat, n # 0, q = [k \in 1..n |-> q[k]]
  PROVE  /\ q # <<>> /\ Head(q) = q[1]
         /\ Tail(q) = [k \in 1..(n - 1) |-> q[k + 1]]
<1>1. PICK S : S = {q[k] : k \in 1..n}
  OBVIOUS
<1>2. q \in [1..n -> S]
  BY <1>1
<1>3. q \in Seq(S) /\ Len(q) = n
  BY <1>2, Made
<1>4. q # <<>>
  BY <1>3, EmptySeq
<1>5. PICK t1 : t1 = Tail(q)
  OBVIOUS
<1>6. t1 \in Seq(S) /\ Len(t1) = n - 1 /\ \A k \in 1..Len(t1) : t1[k] = q[k + 1]
  BY <1>3, <1>4, <1>5, HeadTailProperties
<1>7. t1 \in [1..(n - 1) -> S]
  BY <1>6, LenProperties
<1>8. t1 = [k \in 1..(n - 1) |-> q[k + 1]]
  BY <1>6, <1>7
<1> QED
  BY <1>4, <1>3, <1>5, <1>8

LEMMA OneAhead ==
  ASSUME NEW p, NEW a \in Nat
  PROVE  Ahead(p, a, 1) = <<BlockOf(p, a + 1)>>
  BY DEF Ahead

(* a call with one block, and the calls that are left                       *)
LEMMA SinglesMove ==
  ASSUME NEW p, NEW a \in Nat, NEW l \in Nat
  PROVE  /\ l = 0 <=> Singles(p, a, l) = <<>>
         /\ l # 0 => /\ Head(Singles(p, a, l)) = Ahead(p, a, 1)
                     /\ Tail(Singles(p, a, l)) = Singles(p, a + 1, l - 1)
<1>1. PICK q : q = Singles(p, a, l)
  OBVIOUS
<1>2. q = [k \in 1..l |-> <<BlockOf(p, a + k)>>]
  BY <1>1 DEF Singles
<1>3. CASE l = 0
  <2>1. q = <<>>
    BY <1>2, <1>3
  <2> QED
    BY <1>1, <1>3, <2>1
<1>4. CASE l # 0
  <2>1. q = [k \in 1..l |-> q[k]] /\ \A k \in 1..l : q[k] = <<BlockOf(p, a + k)>>
    BY <1>2
  <2>2. /\ q # <<>> /\ Head(q) = q[1]
        /\ Tail(q) = [k \in 1..(l - 1) |-> q[k + 1]]
    BY <1>4, <2>1, HeadTail
  <2>3. q[1] = Ahead(p, a, 1)
    BY <1>4, <2>1, OneAhead
  <2>4. ASSUME NEW k \in 1..(l - 1) PROVE q[k + 1] = <<BlockOf(p, (a + 1) + k)>>
    <3>1. k + 1 \in 1..l /\ a + (k + 1) = (a + 1) + k
      OBVIOUS
    <3> QED
      BY <2>1, <3>1
  <2>5. Tail(q) = Singles(p, a + 1, l - 1)
    BY <2>2, <2>4 DEF Singles
  <2> QED
    BY <1>1, <1>4, <2>2, <2>3, <2>5
<1> QED
  BY <1>3, <1>4

(* a block of the running call, and the blocks that are left                *)
LEMMA AheadMoves ==
  ASSUME NEW p, NEW a \in Nat, NEW l \in Nat
  PROVE  /\ l = 0 <=> Ahead(p, a, l) = <<>>
         /\ l # 0 => /\ Head(Ahead(p, a, l)) = BlockOf(p, a + 1)
                     /\ Tail(Ahead(p, a, l)) = Ahead(p, a + 1, l - 1)
<1>1. PICK q : q = Ahead(p, a, l)
  OBVIOUS
<1>2. q = [k \in 1..l |-> BlockOf(p, a + k)]
  BY <1>1 DEF Ahead
<1>3. CASE l = 0
  <2>1. q = <<>>
    BY <1>2, <1>3
  <2> QED
    BY <1>1, <1>3, <2>1
<1>4. CASE l # 0
  <2>1. q = [k \in 1..l |-> q[k]] /\ \A k \in 1..l : q[k] = BlockOf(p, a + k)
    BY <1>2
  <2>2. /\ q # <<>> /\ Head(q) = q[1]
        /\ Tail(q) = [k \in 1..(l - 1) |-> q[k + 1]]
    BY <1>4, <2>1, HeadTail
  <2>3. q[1] = BlockOf(p, a + 1)
    BY <1>4, <2>1
  <2>4. ASSUME NEW k \in 1..(l - 1) PROVE q[k + 1] = BlockOf(p, (a + 1) + k)
    <3>1. k + 1 \in 1..l /\ a + (k + 1) = (a + 1) + k
      OBVIOUS
    <3> QED
      BY <2>1, <3>1
  <2>5. Tail(q) = Ahead(p, a + 1, l - 1)
    BY <2>2, <2>4 DEF Ahead
  <2> QED
    BY <1>1, <1>4, <2>2, <2>3, <2>5
<1> QED
  BY <1>3, <1>4

(* The calls for a whole blocks and l of the buffer                         *)
Plan(p, a, l) ==
  IF a = 0 THEN Singles(p, 0, l) ELSE <<Ahead(p, 0, a)>> \o Singles(p, a, l)

(* the first call, and the calls that are left                              *)
LEMMA PlanMoves ==
  ASSUME NEW p, NEW a \in Nat, NEW l \in Nat, a # 0
  PROVE  /\ Plan(p, a, l) # <<>> /\ Head(Plan(p, a, l)) = Ahead(p, 0, a)
         /\ Tail(Plan(p, a, l)) = Singles(p, a, l)
<1>1. PICK o : o = Singles(p, a, l)
  OBVIOUS
<1>2. PICK e : e = Ahead(p, 0, a)
  OBVIOUS
<1>3. PICK S : S = {e} \cup {o[k] : k \in 1..l}
  OBVIOUS
<1>4. o \in [1..l -> S]
  BY <1>1, <1>3 DEF Singles
<1>5. o \in Seq(S) /\ Len(o) = l
  BY <1>4, Made
<1>6. e \in S
  BY <1>3
<1>7. PICK f : f = <<e>>
  OBVIOUS
<1>8. f \in Seq(S) /\ Len(f) = 1 /\ f[1] = e
  BY ONLY <1>6, <1>7, One
<1>9. PICK q : q = f \o o
  OBVIOUS
<1>10. /\ q \in Seq(S) /\ Len(q) = Len(f) + Len(o)
       /\ \A k \in 1..Len(f) : q[k] = f[k]
       /\ \A k \in 1..Len(o) : q[Len(f) + k] = o[k]
  <2>1. f \in Seq(S) /\ o \in Seq(S)
    BY <1>5, <1>8
  <2> QED
    BY ONLY <1>9, <2>1, Joined
<1>11. q \in [1..(l + 1) -> S]
  BY <1>5, <1>8, <1>10, LenProperties
<1>12. PICK n \in Nat : n = l + 1
  OBVIOUS
<1>13. q = [k \in 1..n |-> q[k]] /\ n # 0
  BY <1>11, <1>12
<1>14. /\ q # <<>> /\ Head(q) = q[1]
       /\ Tail(q) = [k \in 1..(n - 1) |-> q[k + 1]]
  BY ONLY <1>12, <1>13, HeadTail
<1>15. q[1] = e
  BY <1>8, <1>10
<1>16. ASSUME NEW k \in 1..l PROVE q[k + 1] = o[k]
  <2>1. q[Len(f) + k] = o[k] /\ Len(f) + k = k + 1
    BY <1>5, <1>8, <1>10
  <2> QED
    BY <2>1
<1>17. n - 1 = l
  BY <1>12
<1>18. o = [k \in 1..l |-> o[k]]
  BY <1>4
<1>19. Tail(q) = o
  BY <1>14, <1>16, <1>17, <1>18
<1>20. q = Plan(p, a, l)
  BY <1>1, <1>2, <1>7, <1>9 DEF Plan
<1> QED
  BY <1>1, <1>2, <1>14, <1>15, <1>19, <1>20

(* Block k of the message as the call finds it                              *)
WholeOf(b, p, a) == \A i \in 1..a : SubSeq(b, 64 * i - 63, 64 * i) = BlockOf(p, i)

(* a whole block of the message is one of the padded message                *)
LEMMA WholeBlock ==
  ASSUME NEW b, NEW n \in Nat, NEW p, NEW a \in Nat, NEW r \in Nat, NEW l \in Nat,
         SplitAs(b, n, p, a, r, l)
  PROVE  WholeOf(b, p, a)
<1> SUFFICES ASSUME NEW i \in 1..a PROVE SubSeq(b, 64 * i - 63, 64 * i) = BlockOf(p, i)
  BY DEF WholeOf
<1>1. n = 64 * a + r /\ \A k \in 1..n : p[k] = b[k]
  <2>1. SplitOf(b, n, p, a, r, l)
    BY PaddedEnd, Zenon
  <2> QED
    BY <2>1 DEF SplitOf
<1>2. b \in Seq(Byte) /\ Len(b) = n
  BY DEF SplitAs
<1>3. PICK g \in Nat : g = 64 * (i - 1)
  OBVIOUS
<1>4. PICK c : c = SubSeq(b, g + 1, g + 64)
  OBVIOUS
<1>5. g + 64 <= n
  BY <1>1, <1>3
<1>6. /\ c \in Seq(Byte) /\ Len(c) = 64
      /\ \A k \in 1..Len(c) : c[k] = b[g + k]
  <2>1. PICK m1 \in Nat, h \in Nat : m1 = g + 1 /\ h = g + 64
    OBVIOUS
  <2>2. m1 \in 1..(Len(b) + 1) /\ h \in (m1 - 1)..Len(b)
    BY <1>2, <1>5, <2>1
  <2>3. /\ c \in Seq(Byte)
        /\ Len(c) = IF m1 <= h THEN h - m1 + 1 ELSE 0
        /\ \A k \in 1..(h - m1 + 1) : c[k] = b[m1 + k - 1]
    BY <1>2, <1>4, <2>1, <2>2, SubSeqProperties
  <2>4. m1 <= h /\ h - m1 + 1 = 64
    BY <2>1
  <2>5. Len(c) = 64
    BY ONLY <2>3, <2>4
  <2>6. ASSUME NEW k \in 1..Len(c) PROVE c[k] = b[g + k]
    <3>1. k \in 1..(h - m1 + 1) /\ m1 + k - 1 = g + k
      BY <2>1, <2>4, <2>5
    <3> QED
      BY <2>3, <3>1
  <2> QED
    BY <2>3, <2>5, <2>6
<1>7. ASSUME NEW k \in 1..Len(c) PROVE c[k] = p[g + k]
  <2>3. Len(c) = 64
    BY <1>6
  <2>1. k >= 1 /\ k <= 64
    BY <2>3
  <2>2. g + k \in 1..n
    BY <1>5, <2>1
  <2> QED
    BY <2>2, <1>1, <1>6
<1>8. BlockAs(p, i, c)
  BY <1>3, <1>6, <1>7 DEF BlockAs
<1>9. c = BlockOf(p, i)
  BY ONLY <1>8, IsBlock
<1>10. 64 * i - 63 = g + 1 /\ 64 * i = g + 64
  BY <1>3
<1> QED
  BY <1>4, <1>9, <1>10

(* the calls of sm3_compress get the padded message, in order               *)
LEMMA CallsArePadded ==
  ASSUME NEW b, NEW n \in Nat, NEW p, NEW a \in Nat, NEW r \in Nat, NEW l \in Nat,
         SplitAs(b, n, p, a, r, l)
  PROVE  Calls(b) = Plan(p, a, l)
<1>1. n = Len(b) /\ a = n \div 64
  BY DEF SplitAs
<1>2. PICK z : z = LastBlocks(SubSeq(b, 64 * a + 1, n), 8 * n)
  OBVIOUS
<1>3. z = [k \in 1..l |-> BlockOf(p, a + k)]
  BY <1>2, LastIsPadded
<1>4. Len(z) = l /\ \A k \in 1..l : z[k] = BlockOf(p, a + k)
  <2>1. z \in [1..l -> {z[k] : k \in 1..l}]
    BY <1>3
  <2>2. Len(z) = l
    BY <2>1, Made
  <2> QED
    BY <1>3, <2>2
<1>5. [k \in 1..Len(z) |-> <<z[k]>>] = Singles(p, a, l)
  BY <1>4 DEF Singles
<1>6. Calls(b) = (IF a = 0 THEN <<>> ELSE <<[k \in 1..a |-> SubSeq(b, 64 * k - 63, 64 * k)]>>)
                   \o [k \in 1..Len(z) |-> <<z[k]>>]
  BY <1>1, <1>2 DEF Calls
<1>7. [k \in 1..a |-> SubSeq(b, 64 * k - 63, 64 * k)] = Ahead(p, 0, a)
  <2>1. ASSUME NEW k \in 1..a PROVE SubSeq(b, 64 * k - 63, 64 * k) = BlockOf(p, 0 + k)
    <3>1. SubSeq(b, 64 * k - 63, 64 * k) = BlockOf(p, k)
      <4>1. WholeOf(b, p, a)
        BY ONLY n \in Nat, a \in Nat, r \in Nat, l \in Nat, SplitAs(b, n, p, a, r, l), WholeBlock, Zenon
      <4> QED
        BY <4>1 DEF WholeOf
    <3>2. 0 + k = k
      OBVIOUS
    <3> QED
      BY ONLY <3>1, <3>2
  <2> QED
    BY <2>1 DEF Ahead
<1>8. CASE a = 0
  <2>1. PICK o : o = Singles(p, 0, l)
    OBVIOUS
  <2>2. o \in [1..l -> {o[k] : k \in 1..l}]
    BY <2>1 DEF Singles
  <2>3. o \in Seq({o[k] : k \in 1..l})
    BY <2>2, Made
  <2>4. <<>> \o o = o
    BY <2>3, ConcatEmptySeq
  <2>5. Calls(b) = <<>> \o o
    BY <1>5, <1>6, <1>8, <2>1
  <2> QED
    BY <1>8, <2>1, <2>4, <2>5 DEF Plan
<1>9. CASE a # 0
  BY <1>5, <1>6, <1>7, <1>9 DEF Plan
<1> QED
  BY <1>8, <1>9

(* the whole blocks of a message, and the blocks the buffer m makes          *)
WholeIn(b) == Len(b) \div 64
OnesIn(b) == IF Len(b) % 64 < 56 THEN 1 ELSE 2
Whole == WholeIn(bytes)
Ones == OnesIn(bytes)

(* the calls to come, with no call running                                  *)
Pending(p, a, l) ==
  \/ \E o \in Nat : block + o = a + l /\ calls = Singles(p, block, o)
  \/ block = 0 /\ a # 0 /\ calls = Plan(p, a, l)

(* the blocks of the running call and the calls after it                    *)
Running(p, a, l) ==
  \E d \in Nat, o \in Nat :
    /\ (block + d) + o = a + l
    /\ mem = Ahead(p, block, d) /\ calls = Singles(p, block + d, o)
    /\ at = "rounds" => d # 0

WorkInv ==
  /\ bytes \in Seq(Byte) /\ block \in Nat
  /\ at \in {"idle", "calls", "block", "rounds"}
  /\ at = "calls" => Pending(Padded(bytes), Whole, Ones)
  /\ at \in {"block", "rounds"} => Running(Padded(bytes), Whole, Ones)
  /\ at = "idle" /\ s # <<>> => block = Whole + Ones

Reversed(f) == [k \in 0..7 |-> REV8(f[k])]

(* memory has the chaining value reversed between the calls                 *)
ChainInv ==
  /\ at = "calls" \/ (at = "idle" /\ s # <<>>) => s \in Registers /\ H = Reversed(s)
  /\ at \in {"block", "rounds"} => s \in Registers /\ H = s

(* four words come before each four rounds from the thirteenth on           *)
Paced(n, w1) ==
  \E q \in Nat :
    /\ 4 * q <= n /\ n < 4 * q + 4
    /\ q < 3 => w1 = 16
    /\ q >= 3 => 4 * q + 4 <= w1 /\ w1 <= 4 * q + 8
    /\ q >= 3 /\ n # 4 * q => w1 = 4 * q + 8

(* the ring holds the last sixteen words of the schedule                    *)
Schedule ==
  /\ next \in Nat /\ 16 <= next /\ next <= 68
  /\ m16 \in [0..15 -> Word32] /\ W \in [0..(next - 1) -> Word32]
  /\ \A i \in (next - 16)..(next - 1) : m16[i % 16] = W[i]

(* the registers, under their names of the round                            *)
Variables ==
  /\ abcd \in Registers /\ V \in Registers
  /\ \A k \in 0..7 : abcd[Plays(j, k)] = V[k]

RoundsInv ==
  at = "rounds" =>
    /\ j \in Nat /\ j <= 64 /\ Paced(j, next)
    /\ j < 64 => tj = Turning(j)
    /\ Schedule /\ Variables

Sm3Inv == WorkInv /\ ChainInv /\ RoundsInv

LEMMA BytesSplit ==
  ASSUME NEW b, b \in Seq(Byte)
  PROVE  /\ WholeIn(b) \in Nat /\ OnesIn(b) \in Nat /\ OnesIn(b) # 0
         /\ Padded(b) \in Seq(Byte) /\ Len(Padded(b)) = 64 * (WholeIn(b) + OnesIn(b))
         /\ Calls(b) = Plan(Padded(b), WholeIn(b), OnesIn(b))
<1>1. PICK n, p, a, r, l : /\ n = Len(b) /\ p = Padded(b)
                           /\ a = WholeIn(b) /\ r = n % 64 /\ l = OnesIn(b)
  OBVIOUS
<1>2. SplitAs(b, n, p, a, r, l)
  BY <1>1 DEF SplitAs, WholeIn, OnesIn
<1>3. n \in Nat /\ a \in Nat /\ r \in Nat /\ l \in Nat
  BY <1>2, SplitTypes
<1>4. SplitOf(b, n, p, a, r, l)
  BY ONLY <1>2, <1>3, PaddedEnd, Zenon
<1>5. p \in Seq(Byte) /\ Len(p) = 64 * (a + l)
  BY <1>4 DEF SplitOf
<1>6. l # 0
  BY <1>2 DEF SplitAs
<1>7. Calls(b) = Plan(p, a, l)
  BY ONLY <1>2, <1>3, CallsArePadded, Zenon
<1> QED
  BY ONLY <1>1, <1>3, <1>5, <1>6, <1>7

LEMMA ReversedRegisters ==
  ASSUME NEW f \in Registers
  PROVE  Reversed(f) \in Registers /\ Reversed(Reversed(f)) = f
<1>1. \A k \in 0..7 : REV8(f[k]) \in Word32 /\ REV8(REV8(f[k])) = f[k]
  BY ReversedWord, ReversedTwice DEF Registers
<1>2. Reversed(f) \in Registers
  BY <1>1 DEF Reversed, Registers
<1>3. Reversed(Reversed(f)) = f
  BY <1>1 DEF Reversed, Registers
<1> QED
  BY <1>2, <1>3

(* each action keeps the invariant                                          *)
LEMMA Sm3Starts == Sm3Init => Sm3Inv
<1> SUFFICES ASSUME Sm3Init PROVE Sm3Inv
  OBVIOUS
<1>1. bytes = <<>> /\ s = <<>> /\ at = "idle" /\ block = 0
  BY DEF Sm3Init
<1>2. bytes \in Seq(Byte)
  BY <1>1, EmptySeq
<1>3. WorkInv
  BY <1>1, <1>2 DEF WorkInv
<1>4. ChainInv
  BY <1>1 DEF ChainInv
<1>5. RoundsInv
  BY <1>1 DEF RoundsInv
<1> QED
  BY <1>3, <1>4, <1>5 DEF Sm3Inv

LEMMA Sm3Stays == Sm3Inv /\ UNCHANGED sm3vars => Sm3Inv'
<1> SUFFICES ASSUME Sm3Inv, UNCHANGED sm3vars PROVE Sm3Inv'
  OBVIOUS
<1>1. UNCHANGED <<bytes, calls, s, mem, abcd, m16, tj, j, next, at, W, V, H, block>>
  BY DEF sm3vars, ghosts
<1>2. WorkInv'
  BY <1>1 DEF Sm3Inv, WorkInv, Pending, Running, Whole, Ones
<1>3. ChainInv'
  BY <1>1 DEF Sm3Inv, ChainInv
<1>4. RoundsInv'
  BY <1>1 DEF Sm3Inv, RoundsInv, Schedule, Variables, Turning
<1> QED
  BY <1>2, <1>3, <1>4 DEF Sm3Inv

LEMMA Sm3Begins == Sm3Inv /\ sm3_256 => Sm3Inv'
<1> SUFFICES ASSUME Sm3Inv, sm3_256 PROVE Sm3Inv'
  OBVIOUS
<1>1. /\ bytes' \in Inputs /\ calls' = Calls(bytes') /\ s' = InitialS /\ at' = "calls"
      /\ block' = 0 /\ H' = Reversed(InitialS)
  BY TabulatedIs DEF sm3_256, Reversed
<1>2. bytes' \in Seq(Byte)
  BY <1>1, InputsAssumption DEF Byte
<1>3. Pending(Padded(bytes), Whole, Ones)'
  <2>1. Calls(bytes') = Plan(Padded(bytes'), Whole', Ones')
    BY <1>2, BytesSplit DEF Whole, Ones
  <2>2. Ones' \in Nat /\ Whole' \in Nat
    BY <1>2, BytesSplit DEF Whole, Ones
  <2>3. calls' = Plan(Padded(bytes)', Whole', Ones')
    BY <1>1, <2>1
  <2>4. CASE Whole' = 0
    <3>1. calls' = Singles(Padded(bytes)', 0, Ones')
      BY <2>3, <2>4 DEF Plan
    <3>2. 0 + Ones' = Whole' + Ones'
      BY <2>2, <2>4
    <3> QED
      BY <1>1, <2>2, <3>1, <3>2 DEF Pending
  <2>5. CASE Whole' # 0
    BY <1>1, <2>3, <2>5 DEF Pending
  <2> QED
    BY <2>4, <2>5
<1>4. WorkInv'
  BY <1>1, <1>2, <1>3 DEF WorkInv
<1>5. ChainInv'
  BY <1>1, ConstantWords DEF ChainInv, Registers
<1>6. RoundsInv'
  BY <1>1 DEF RoundsInv
<1> QED
  BY <1>4, <1>5, <1>6 DEF Sm3Inv

LEMMA Sm3Calls == Sm3Inv /\ Compress => Sm3Inv'
<1> SUFFICES ASSUME Sm3Inv, Compress PROVE Sm3Inv'
  OBVIOUS
<1>1. /\ at = "calls" /\ calls # <<>> /\ mem' = Head(calls) /\ calls' = Tail(calls)
      /\ s' = Reversed(s) /\ at' = "block"
      /\ bytes' = bytes /\ H' = H /\ block' = block
  BY TabulatedIs DEF Compress, Reversed, ghosts
<1>2. /\ bytes \in Seq(Byte) /\ block \in Nat /\ Pending(Padded(bytes), Whole, Ones)
      /\ s \in Registers /\ H = Reversed(s)
  BY <1>1 DEF Sm3Inv, WorkInv, ChainInv
<1>20. Whole \in Nat /\ Ones \in Nat /\ Ones # 0
  BY <1>2, BytesSplit DEF Whole, Ones
<1>21. PICK p : p = Padded(bytes)
  OBVIOUS
<1>22. PICK a \in Nat : a = Whole
  BY <1>20
<1>23. PICK l \in Nat : l = Ones
  BY <1>20
<1>3. p = Padded(bytes) /\ a = Whole /\ l = Ones /\ l # 0
  BY <1>20, <1>21, <1>22, <1>23
<1>4. \E d \in Nat, o \in Nat :
        /\ (block + d) + o = a + l
        /\ mem' = Ahead(p, block, d) /\ calls' = Singles(p, block + d, o)
  <2>1. CASE \E o \in Nat : block + o = a + l /\ calls = Singles(p, block, o)
    <3>1. PICK o \in Nat : block + o = a + l /\ calls = Singles(p, block, o)
      BY <2>1
    <3>2. PICK c \in Nat : c = block
      BY <1>2
    <3>3. o # 0 /\ Head(calls) = Ahead(p, c, 1) /\ Tail(calls) = Singles(p, c + 1, o - 1)
      <4>1. c \in Nat /\ o \in Nat /\ calls = Singles(p, c, o)
        BY <3>1, <3>2
      <4>2. /\ o = 0 <=> calls = <<>>
            /\ o # 0 => /\ Head(calls) = Ahead(p, c, 1)
                        /\ Tail(calls) = Singles(p, c + 1, o - 1)
        BY ONLY <4>1, SinglesMove
      <4> QED
        BY <1>1, <4>2
    <3>4. o - 1 \in Nat /\ (block + 1) + (o - 1) = a + l
      BY <3>1, <3>2, <3>3
    <3> QED
      BY <1>1, <3>2, <3>3, <3>4
  <2>2. CASE block = 0 /\ a # 0 /\ calls = Plan(p, a, l)
    <3>1. Head(calls) = Ahead(p, 0, a) /\ Tail(calls) = Singles(p, a, l)
      BY <2>2, PlanMoves
    <3>2. 0 + a = a
      OBVIOUS
    <3> QED
      BY <1>1, <2>2, <3>1, <3>2
  <2> QED
    BY <1>2, <1>3, <2>1, <2>2 DEF Pending
<1>5. Padded(bytes)' = p /\ Whole' = a /\ Ones' = l
  BY <1>1, <1>3 DEF Whole, Ones
<1>6. Running(Padded(bytes), Whole, Ones)'
  BY <1>1, <1>4, <1>5 DEF Running
<1>7. WorkInv'
  BY <1>1, <1>2, <1>6 DEF WorkInv
<1>8. ChainInv'
  BY <1>1, <1>2, ReversedRegisters DEF ChainInv
<1>9. RoundsInv'
  BY <1>1 DEF RoundsInv
<1> QED
  BY <1>7, <1>8, <1>9 DEF Sm3Inv

LEMMA Sm3Uncalls == Sm3Inv /\ Uncompress => Sm3Inv'
<1> SUFFICES ASSUME Sm3Inv, Uncompress PROVE Sm3Inv'
  OBVIOUS
<1>1. /\ at = "block" /\ mem = <<>> /\ calls' = calls
      /\ s' = Reversed(s) /\ at' = "calls"
      /\ bytes' = bytes /\ H' = H /\ block' = block
  BY TabulatedIs DEF Uncompress, Reversed, ghosts
<1>2. /\ bytes \in Seq(Byte) /\ block \in Nat /\ Running(Padded(bytes), Whole, Ones)
      /\ s \in Registers /\ H = s
  BY <1>1 DEF Sm3Inv, WorkInv, ChainInv
<1>20. Whole \in Nat /\ Ones \in Nat /\ Ones # 0
  BY <1>2, BytesSplit DEF Whole, Ones
<1>21. PICK p : p = Padded(bytes)
  OBVIOUS
<1>22. PICK a \in Nat : a = Whole
  BY <1>20
<1>23. PICK l \in Nat : l = Ones
  BY <1>20
<1>3. p = Padded(bytes) /\ a = Whole /\ l = Ones /\ l # 0
  BY <1>20, <1>21, <1>22, <1>23
<1>4. PICK d \in Nat, o \in Nat :
        /\ (block + d) + o = a + l
        /\ mem = Ahead(p, block, d) /\ calls = Singles(p, block + d, o)
  BY <1>2, <1>3 DEF Running
<1>5. d = 0
  <2>1. PICK c \in Nat : c = block
    BY <1>2
  <2>2. mem = Ahead(p, c, d)
    BY <1>4, <2>1
  <2>3. d = 0 <=> Ahead(p, c, d) = <<>>
    BY ONLY d \in Nat, c \in Nat, AheadMoves
  <2> QED
    BY ONLY <1>1, <2>2, <2>3
<1>6. block + o = a + l /\ calls' = Singles(p, block', o) /\ block' + o = a + l
  <2>1. block + d = block
    BY <1>2, <1>5
  <2> QED
    BY <1>1, <1>4, <2>1
<1>7. Padded(bytes)' = p /\ Whole' = a /\ Ones' = l
  BY <1>1, <1>3 DEF Whole, Ones
<1>8. Pending(Padded(bytes), Whole, Ones)'
  BY <1>6, <1>7 DEF Pending
<1>9. WorkInv'
  BY <1>1, <1>2, <1>8 DEF WorkInv
<1>10. ChainInv'
  BY <1>1, <1>2, ReversedRegisters DEF ChainInv
<1>11. RoundsInv'
  BY <1>1 DEF RoundsInv
<1> QED
  BY <1>9, <1>10, <1>11 DEF Sm3Inv

LEMMA Sm3Returns == Sm3Inv /\ Sm3Return => Sm3Inv'
<1> SUFFICES ASSUME Sm3Inv, Sm3Return PROVE Sm3Inv'
  OBVIOUS
<1>1. /\ at = "calls" /\ calls = <<>> /\ at' = "idle"
      /\ s' = s /\ bytes' = bytes /\ H' = H /\ block' = block
  BY DEF Sm3Return, ghosts
<1>2. /\ bytes \in Seq(Byte) /\ block \in Nat /\ Pending(Padded(bytes), Whole, Ones)
      /\ s \in Registers /\ H = Reversed(s)
  BY <1>1 DEF Sm3Inv, WorkInv, ChainInv
<1>20. Whole \in Nat /\ Ones \in Nat /\ Ones # 0
  BY <1>2, BytesSplit DEF Whole, Ones
<1>21. PICK p : p = Padded(bytes)
  OBVIOUS
<1>22. PICK a \in Nat : a = Whole
  BY <1>20
<1>23. PICK l \in Nat : l = Ones
  BY <1>20
<1>3. p = Padded(bytes) /\ a = Whole /\ l = Ones /\ l # 0
  BY <1>20, <1>21, <1>22, <1>23
<1>4. block = a + l
  <2>1. CASE \E o \in Nat : block + o = a + l /\ calls = Singles(p, block, o)
    <3>1. PICK o \in Nat : block + o = a + l /\ calls = Singles(p, block, o)
      BY <2>1
    <3>2. o = 0
      <4>1. PICK c \in Nat : c = block
        BY <1>2
      <4>2. calls = Singles(p, c, o)
        BY <3>1, <4>1
      <4>3. o = 0 <=> Singles(p, c, o) = <<>>
        BY ONLY o \in Nat, c \in Nat, SinglesMove
      <4> QED
        BY ONLY <1>1, <4>2, <4>3
    <3> QED
      BY <1>2, <3>1, <3>2
  <2>2. CASE block = 0 /\ a # 0 /\ calls = Plan(p, a, l)
    BY <1>1, <2>2, PlanMoves
  <2> QED
    BY <1>2, <1>3, <2>1, <2>2 DEF Pending
<1>5. Whole' = a /\ Ones' = l
  BY <1>1, <1>3 DEF Whole, Ones
<1>6. WorkInv'
  BY <1>1, <1>2, <1>4, <1>5 DEF WorkInv
<1>7. ChainInv'
  BY <1>1, <1>2 DEF ChainInv
<1>8. RoundsInv'
  BY <1>1 DEF RoundsInv
<1> QED
  BY <1>6, <1>7, <1>8 DEF Sm3Inv

(* a word turned by no bit                                                  *)
LEMMA NotTurned == ASSUME NEW x \in Word32 PROVE ROTL(x, 0) = x
<1>1. \A b \in x : (b + 0) % 32 = b
  BY DEF Word32
<1>2. ROTL(x, 0) = {(b + 0) % 32 : b \in x}
  BY DEF ROTL, RotateL
<1> QED
  BY <1>1, <1>2

(* the round constant of the next round                                     *)
LEMMA TurningOn ==
  ASSUME NEW n \in Nat, n < 63
  PROVE  Turning(n + 1) = IF n = 15 THEN Halves(\h9D8A, \h7A87) ELSE ROTL(Turning(n), 1)
<1>1. T0 \in Word32 /\ T16 \in Word32 /\ ROTL(T16, 16) = Halves(\h9D8A, \h7A87)
  BY ConstantWords
<1>2. CASE n = 15
  <2>1. Turning(16) = ROTL(T16, 16)
    BY DEF Turning
  <2> QED
    BY <1>1, <1>2, <2>1
<1>3. CASE n # 15
  <2>1. PICK x \in Word32 : x = IF n < 16 THEN T0 ELSE T16
    BY <1>1
  <2>2. x = IF n + 1 < 16 THEN T0 ELSE T16
    BY <1>3, <2>1
  <2>3. PICK m1 \in Int : m1 = n % 32
    OBVIOUS
  <2>4. PICK u \in Int : u = (n + 1) % 32
    OBVIOUS
  <2>5. Turning(n) = ROTL(x, m1)
    BY <2>1, <2>3 DEF Turning
  <2>6. Turning(n + 1) = ROTL(x, u)
    BY <2>2, <2>4 DEF Turning
  <2>7. ROTL(ROTL(x, m1), 1) = ROTL(x, m1 + 1)
    BY RotatedTwice
  <2>8. (m1 + 1) % 32 = u % 32
    BY <2>3, <2>4
  <2>9. ROTL(x, m1 + 1) = ROTL(x, u)
    BY <2>8, RotatedRound
  <2> QED
    BY <1>3, <2>5, <2>6, <2>7, <2>9
<1> QED
  BY <1>2, <1>3

LEMMA PlaysItself == \A k \in 0..7 : Plays(0, k) = k /\ Plays(64, k) = k
  BY DEF Plays

(* Word k of block c + 1                                                    *)
LEMMA LoadedWord ==
  ASSUME NEW p \in Seq(Byte), NEW c \in Nat, NEW t1 \in Nat, Len(p) = 64 * t1, c < t1,
         NEW k \in Nat, k < 16
  PROVE  /\ REV8(WordAt(BlockOf(p, c + 1), k)) = BigEndianWord(p, 64 * c + 4 * k)
         /\ BigEndianWord(p, 64 * c + 4 * k) \in Word32
<1>1. PICK g \in Nat : g = 64 * c
  OBVIOUS
<1>2. PICK h \in Nat : h = g + 4 * k
  BY <1>1
<1>3. PICK x : x = BlockOf(p, c + 1)
  OBVIOUS
<1>4. 64 * ((c + 1) - 1) = g
  BY <1>1
<1>5. x = [i \in 1..64 |-> p[g + i]]
  BY <1>3, <1>4 DEF BlockOf
<1>6. g + 64 <= Len(p)
  BY <1>1
<1>7. \A i \in 1..Len(p) : p[i] \in Byte
  BY LenProperties
<1>8. ASSUME NEW i \in 1..4 PROVE p[h + i] \in Byte /\ x[4 * k + i] = p[h + i]
  <2>1. PICK m1 \in Nat : m1 = 4 * k + i
    OBVIOUS
  <2>2. m1 \in 1..64 /\ g + m1 = h + i /\ h + i \in 1..Len(p)
    BY <1>2, <1>6, <2>1
  <2>3. x[m1] = p[g + m1]
    BY <1>5, <2>2
  <2> QED
    BY <1>7, <2>1, <2>2, <2>3
<1>9. REV8(WordAt(x, k)) = BigEndianWord(p, h) /\ BigEndianWord(p, h) \in Word32
  <2>1. k \in Int /\ h \in Int
    OBVIOUS
  <2> QED
    BY ONLY <1>8, <2>1, LoadedIsBigEndian
<1>10. 64 * c + 4 * k = h
  BY <1>1, <1>2
<1> QED
  BY <1>3, <1>9, <1>10

LEMMA Sm3Loads == Sm3Inv /\ NextBlock => Sm3Inv'
<1> SUFFICES ASSUME Sm3Inv, NextBlock PROVE Sm3Inv'
  OBVIOUS
<1>1. /\ at = "block" /\ mem # <<>> /\ abcd' = s /\ tj' = T0 /\ j' = 0 /\ next' = 16
      /\ at' = "rounds" /\ V' = H
      /\ m16' = [k \in 0..15 |-> REV8(WordAt(Head(mem), k))]
      /\ W' = [k \in 0..15 |-> BigEndianWord(Padded(bytes), 64 * block + 4 * k)]
      /\ bytes' = bytes /\ calls' = calls /\ s' = s /\ mem' = mem /\ H' = H /\ block' = block
  BY TabulatedIs DEF NextBlock
<1>2. /\ bytes \in Seq(Byte) /\ block \in Nat /\ Running(Padded(bytes), Whole, Ones)
      /\ s \in Registers /\ H = s
  BY <1>1 DEF Sm3Inv, WorkInv, ChainInv
<1>3. Whole \in Nat /\ Ones \in Nat
  BY <1>2, BytesSplit DEF Whole, Ones
<1>4. PICK p : p = Padded(bytes)
  OBVIOUS
<1>5. PICK a \in Nat : a = Whole
  BY <1>3
<1>6. PICK l \in Nat : l = Ones
  BY <1>3
<1>7. p \in Seq(Byte) /\ Len(p) = 64 * (a + l)
  BY <1>2, <1>4, <1>5, <1>6, BytesSplit DEF Whole, Ones
<1>8. PICK d \in Nat, o \in Nat :
        /\ (block + d) + o = a + l
        /\ mem = Ahead(p, block, d) /\ calls = Singles(p, block + d, o)
  BY <1>2, <1>4, <1>5, <1>6 DEF Running
<1>9. PICK c \in Nat : c = block
  BY <1>2
<1>10. d # 0 /\ Head(mem) = BlockOf(p, c + 1)
  <2>1. mem = Ahead(p, c, d)
    BY <1>8, <1>9
  <2>2. /\ d = 0 <=> mem = <<>>
        /\ d # 0 => Head(mem) = BlockOf(p, c + 1)
    BY ONLY <2>1, c \in Nat, d \in Nat, AheadMoves
  <2> QED
    BY <1>1, <2>2
<1>11. Padded(bytes)' = p /\ Whole' = a /\ Ones' = l
  BY <1>1, <1>4, <1>5, <1>6 DEF Whole, Ones
<1>12. Running(Padded(bytes), Whole, Ones)'
  BY <1>1, <1>8, <1>10, <1>11 DEF Running
<1>13. WorkInv'
  BY <1>1, <1>2, <1>12 DEF WorkInv
<1>14. ChainInv'
  BY <1>1, <1>2 DEF ChainInv
<1>15. m16' \in [0..15 -> Word32] /\ W' = m16'
  <2>1. PICK u \in Nat : u = a + l /\ c < u
    BY <1>8, <1>9, <1>10
  <2>2. ASSUME NEW k \in 0..15
        PROVE  /\ REV8(WordAt(Head(mem), k)) = BigEndianWord(p, 64 * block + 4 * k)
               /\ BigEndianWord(p, 64 * block + 4 * k) \in Word32
    <3>1. k \in Nat /\ k < 16 /\ Len(p) = 64 * u
      BY <1>7, <2>1
    <3>2. /\ REV8(WordAt(BlockOf(p, c + 1), k)) = BigEndianWord(p, 64 * c + 4 * k)
          /\ BigEndianWord(p, 64 * c + 4 * k) \in Word32
      BY ONLY <1>7, <2>1, <3>1, c \in Nat, u \in Nat, LoadedWord
    <3> QED
      BY <1>9, <1>10, <3>2
  <2> QED
    BY <1>1, <1>4, <2>2
<1>16. Schedule'
  <2>1. W' \in [0..(next' - 1) -> Word32]
    BY <1>1, <1>15
  <2>2. ASSUME NEW i \in (next' - 16)..(next' - 1) PROVE m16'[i % 16] = W'[i]
    <3>1. i % 16 = i
      <4>1. i \in 0..15
        BY <1>1
      <4> QED
        BY <4>1
    <3> QED
      BY <1>15, <3>1
  <2> QED
    BY <1>1, <1>15, <2>1, <2>2 DEF Schedule
<1>17. Variables'
  BY <1>1, <1>2, PlaysItself DEF Variables
<1>18. Paced(0, 16)
  BY DEF Paced
<1>19. Turning(0) = T0
  <2>1. Turning(0) = ROTL(T0, 0)
    BY DEF Turning
  <2> QED
    BY <2>1, NotTurned, ConstantWords
<1>20. tj' = Turning(j)'
  BY <1>1, <1>19 DEF Turning
<1>21. RoundsInv'
  BY <1>1, <1>16, <1>17, <1>18, <1>20 DEF RoundsInv
<1> QED
  BY <1>13, <1>14, <1>21 DEF Sm3Inv

(* A step among the rounds                                                  *)
LEMMA InRounds ==
  ASSUME Sm3Inv, at = "rounds", at' = "rounds", UNCHANGED <<bytes, calls, s, mem, H, block>>
  PROVE  WorkInv' /\ ChainInv'
<1>1. WorkInv'
  BY DEF Sm3Inv, WorkInv, Running, Whole, Ones
<1>2. ChainInv'
  BY DEF Sm3Inv, ChainInv
<1> QED
  BY <1>1, <1>2

LEMMA Due ==
  ASSUME NEW n \in Nat, NEW q \in Nat, 4 * q <= n, n < 4 * q + 4
  PROVE  n \div 4 = q
  OBVIOUS

LEMMA Sm3Expands == Sm3Inv /\ STEP_SM3_KEY => Sm3Inv'
<1> SUFFICES ASSUME Sm3Inv, STEP_SM3_KEY PROVE Sm3Inv'
  OBVIOUS
<1>1. /\ at = "rounds" /\ j < 64 /\ ~KeysDue(j) /\ next' = next + 1
      /\ m16' = [m16 EXCEPT ![next % 16] =
           LET k(l) == m16[(next + l) % 16]
           IN Xor3(k(10), ROTL(k(3), 7), P1(Xor3(@, k(7), ROTL(k(13), 15))))]
      /\ W' = [k \in 0..next |-> IF k = next THEN Expanded(W, next) ELSE W[k]]
      /\ UNCHANGED <<bytes, calls, s, mem, abcd, tj, j, at, V, H, block>>
  BY TabulatedIs DEF STEP_SM3_KEY
<1>2. /\ j \in Nat /\ j <= 64 /\ Paced(j, next) /\ tj = Turning(j)
      /\ Schedule /\ Variables
  BY <1>1 DEF Sm3Inv, RoundsInv
<1>3. WorkInv' /\ ChainInv'
  BY <1>1, InRounds
<1>4. PICK q \in Nat :
        /\ 4 * q <= j /\ j < 4 * q + 4
        /\ q < 3 => next = 16
        /\ q >= 3 => 4 * q + 4 <= next /\ next <= 4 * q + 8
        /\ q >= 3 /\ j # 4 * q => next = 4 * q + 8
  BY <1>2 DEF Paced
<1>5. next \in Nat /\ 16 <= next /\ next <= 68
  BY <1>2 DEF Schedule
<1>6. j \div 4 = q
  BY <1>2, <1>4, Due
<1>7. ~(j < 12) /\ next # 4 * q + 8
  BY <1>1, <1>6 DEF KeysDue
<1>8. q >= 3 /\ q <= 15 /\ j = 4 * q /\ next < 4 * q + 8
  BY <1>1, <1>2, <1>4, <1>5, <1>7
<1>9. next <= 67
  BY <1>5, <1>8
<1>10. Paced(j, next)'
  BY <1>1, <1>4, <1>5, <1>8 DEF Paced
<1>11. PICK n \in Nat : n = next
  BY <1>5
<1>12. KeyDone(n, m16', W')
  <2>1. KeyAs(m16, n, W, m16', W')
    BY <1>1, <1>2, <1>11 DEF KeyAs, Schedule
  <2>2. 16 <= n /\ n <= 67
    BY <1>5, <1>9, <1>11
  <2> QED
    BY ONLY <2>1, <2>2, n \in Nat, KeyIsStandard
<1>13. Schedule'
  <2>1. next' = n + 1 /\ next' - 1 = n /\ next' - 16 = n - 15
    BY <1>1, <1>11
  <2>2. /\ m16' \in [0..15 -> Word32] /\ W' \in [0..n -> Word32]
        /\ \A i \in (n - 15)..n : m16'[i % 16] = W'[i]
    BY <1>12 DEF KeyDone
  <2>3. next' \in Nat /\ 16 <= next' /\ next' <= 68
    BY <1>5, <1>9, <1>11, <2>1
  <2> QED
    BY ONLY <2>1, <2>2, <2>3 DEF Schedule
<1>14. Variables'
  BY <1>1, <1>2 DEF Variables
<1>15. tj' = Turning(j)'
  BY <1>1, <1>2 DEF Turning
<1>16. RoundsInv'
  BY <1>1, <1>2, <1>10, <1>13, <1>14, <1>15 DEF RoundsInv
<1> QED
  BY <1>3, <1>16 DEF Sm3Inv

LEMMA Sm3Rounds == Sm3Inv /\ STEP_SM3_RF => Sm3Inv'
<1> SUFFICES ASSUME Sm3Inv, STEP_SM3_RF PROVE Sm3Inv'
  OBVIOUS
<1>1. /\ at = "rounds" /\ j < 64 /\ KeysDue(j) /\ j' = j + 1 /\ tj' = Turned
      /\ abcd' = IF j < 16 THEN STEP_SM3_RF0(abcd, j, m16[j % 16], m16[(j + 4) % 16])
                 ELSE STEP_SM3_RF1(abcd, j, m16[j % 16], m16[(j + 4) % 16])
      /\ V' = RoundOf(V, j, W)
      /\ UNCHANGED <<bytes, calls, s, mem, m16, next, at, W, H, block>>
  BY DEF STEP_SM3_RF
<1>2. /\ j \in Nat /\ j <= 64 /\ Paced(j, next) /\ tj = Turning(j)
      /\ Schedule /\ Variables
  BY <1>1 DEF Sm3Inv, RoundsInv
<1>3. WorkInv' /\ ChainInv'
  BY <1>1, InRounds
<1>4. PICK q \in Nat :
        /\ 4 * q <= j /\ j < 4 * q + 4
        /\ q < 3 => next = 16
        /\ q >= 3 => 4 * q + 4 <= next /\ next <= 4 * q + 8
        /\ q >= 3 /\ j # 4 * q => next = 4 * q + 8
  BY <1>2 DEF Paced
<1>5. next \in Nat /\ 16 <= next /\ next <= 68
  BY <1>2 DEF Schedule
<1>6. j \div 4 = q
  BY <1>2, <1>4, Due
<1>7. j < 12 \/ next = 4 * q + 8
  BY <1>1, <1>6 DEF KeysDue
<1>8. next - 16 <= j /\ j + 4 <= next - 1
  BY <1>2, <1>4, <1>5, <1>7
<1>9. Paced(j, next)'
  <2>1. CASE j < 4 * q + 3
    BY <1>1, <1>2, <1>4, <1>5, <1>7, <2>1 DEF Paced
  <2>2. CASE j = 4 * q + 3
    <3>1. PICK u \in Nat : u = q + 1
      OBVIOUS
    <3>2. 4 * u <= j' /\ j' < 4 * u + 4 /\ j' = 4 * u
      BY <1>1, <2>2, <3>1
    <3>3. u < 3 => next' = 16
      BY <1>1, <1>4, <3>1
    <3>4. u >= 3 => 4 * u + 4 <= next' /\ next' <= 4 * u + 8
      BY <1>1, <1>4, <1>7, <2>2, <3>1
    <3> QED
      BY <3>2, <3>3, <3>4 DEF Paced
  <2> QED
    BY <1>2, <1>4, <2>1, <2>2
<1>10. m16[j % 16] = W[j] /\ m16[(j + 4) % 16] = W[j + 4]
       /\ W[j] \in Word32 /\ W[j + 4] \in Word32
  <2>1. PICK c \in Nat, e \in Nat : c = j /\ e = j + 4
    BY <1>2
  <2>2. c \in (next - 16)..(next - 1) /\ e \in (next - 16)..(next - 1)
    BY <1>5, <1>8, <2>1
  <2>3. m16[c % 16] = W[c] /\ m16[e % 16] = W[e]
    BY <1>2, <2>2 DEF Schedule
  <2>4. W[c] \in Word32 /\ W[e] \in Word32
    BY <1>2, <1>5, <2>2 DEF Schedule
  <2> QED
    BY <2>1, <2>3, <2>4
<1>11. PICK n \in Nat : n = j
  BY <1>2
<1>12. RoundDone(abcd, V, n, W, abcd')
  <2>1. RoundAs(abcd, V, n, W, abcd')
    BY <1>1, <1>2, <1>10, <1>11 DEF RoundAs, Variables, Registers
  <2>2. n < 64
    BY <1>1, <1>11
  <2> QED
    BY ONLY <2>1, <2>2, n \in Nat, RoundIsStandard
<1>13. Variables'
  BY <1>1, <1>11, <1>12 DEF Variables, RoundDone, Registers
<1>14. Schedule'
  BY <1>1, <1>2 DEF Schedule
<1>15. j' < 64 => tj' = Turning(j')
  <2>1. n < 63 => Turning(n + 1) = IF n = 15 THEN Halves(\h9D8A, \h7A87) ELSE ROTL(Turning(n), 1)
    BY TurningOn
  <2> QED
    BY <1>1, <1>2, <1>11, <2>1 DEF Turned
<1>16. RoundsInv'
  <2>1. Turning(j)' = Turning(j')
    BY DEF Turning
  <2> QED
    BY <1>1, <1>2, <1>9, <1>13, <1>14, <1>15, <2>1 DEF RoundsInv
<1> QED
  BY <1>3, <1>16 DEF Sm3Inv

LEMMA Sm3Ends == Sm3Inv /\ EndBlock => Sm3Inv'
<1> SUFFICES ASSUME Sm3Inv, EndBlock PROVE Sm3Inv'
  OBVIOUS
<1>1. /\ at = "rounds" /\ j = 64 /\ at' = "block"
      /\ s' = [k \in 0..7 |-> Xor(s[k], abcd[k])] /\ mem' = Tail(mem)
      /\ H' = [k \in 0..7 |-> Xor(H[k], V[k])] /\ block' = block + 1
      /\ bytes' = bytes /\ calls' = calls
  BY DEF EndBlock
<1>2. /\ bytes \in Seq(Byte) /\ block \in Nat /\ Running(Padded(bytes), Whole, Ones)
      /\ s \in Registers /\ H = s /\ Variables
  BY <1>1 DEF Sm3Inv, WorkInv, ChainInv, RoundsInv
<1>3. Whole \in Nat /\ Ones \in Nat
  BY <1>2, BytesSplit DEF Whole, Ones
<1>4. PICK p : p = Padded(bytes)
  OBVIOUS
<1>5. PICK a \in Nat : a = Whole
  BY <1>3
<1>6. PICK l \in Nat : l = Ones
  BY <1>3
<1>7. PICK d \in Nat, o \in Nat :
        /\ (block + d) + o = a + l /\ d # 0
        /\ mem = Ahead(p, block, d) /\ calls = Singles(p, block + d, o)
  BY <1>1, <1>2, <1>4, <1>5, <1>6 DEF Running
<1>8. PICK c \in Nat : c = block
  BY <1>2
<1>9. Tail(mem) = Ahead(p, c + 1, d - 1)
  <2>1. mem = Ahead(p, c, d)
    BY <1>7, <1>8
  <2>2. d # 0 => Tail(mem) = Ahead(p, c + 1, d - 1)
    BY ONLY <2>1, c \in Nat, d \in Nat, AheadMoves
  <2> QED
    BY <1>7, <2>2
<1>10. Padded(bytes)' = p /\ Whole' = a /\ Ones' = l
  BY <1>1, <1>4, <1>5, <1>6 DEF Whole, Ones
<1>11. Running(Padded(bytes), Whole, Ones)'
  <2>1. PICK e \in Nat : e = d - 1
    BY <1>7
  <2>2. block' = c + 1 /\ (block' + e) + o = a + l /\ block + d = block' + e
    <3>1. block' = c + 1 /\ (c + d) + o = a + l
      BY <1>1, <1>7, <1>8
    <3>2. (c + 1) + e = c + d
      BY <2>1
    <3> QED
      BY <1>8, <3>1, <3>2
  <2>3. mem' = Ahead(p, block', e) /\ calls' = Singles(p, block' + e, o)
    BY <1>1, <1>7, <1>9, <2>1, <2>2
  <2> QED
    BY <1>1, <1>10, <2>2, <2>3 DEF Running
<1>12. WorkInv'
  BY <1>1, <1>2, <1>11 DEF WorkInv
<1>13. ChainInv'
  <2>1. \A k \in 0..7 : abcd[k] = V[k] /\ abcd[k] \in Word32 /\ s[k] \in Word32
    BY <1>1, <1>2, PlaysItself DEF Variables, Registers
  <2>2. \A k \in 0..7 : Xor(s[k], abcd[k]) \in Word32
    BY <2>1, XorWord
  <2>3. s' \in Registers
    BY <1>1, <2>2 DEF Registers
  <2>4. H' = s'
    BY <1>1, <1>2, <2>1
  <2> QED
    BY <1>1, <2>3, <2>4 DEF ChainInv
<1>14. RoundsInv'
  BY <1>1 DEF RoundsInv
<1> QED
  BY <1>12, <1>13, <1>14 DEF Sm3Inv

LEMMA Sm3Steps == Sm3Inv /\ Sm3Next => Sm3Inv'
  BY Sm3Begins, Sm3Calls, Sm3Loads, Sm3Expands, Sm3Rounds, Sm3Ends, Sm3Uncalls, Sm3Returns
     DEF Sm3Next

LEMMA Sm3Held == Sm3Inv => Sm3IsStandard
<1> SUFFICES ASSUME Sm3Inv PROVE Sm3IsStandard
  OBVIOUS
<1>1. at = "rounds" => \A k \in 0..7 : abcd[Plays(j, k)] = V[k]
  BY DEF Sm3Inv, RoundsInv, Variables
<1>2. at = "idle" /\ s # <<>> =>
        /\ 64 * block = Len(Padded(bytes))
        /\ \A k \in 0..7 : REV8(s[k]) = H[k]
  <2> SUFFICES ASSUME at = "idle", s # <<>>
               PROVE  /\ 64 * block = Len(Padded(bytes))
                      /\ \A k \in 0..7 : REV8(s[k]) = H[k]
    OBVIOUS
  <2>1. bytes \in Seq(Byte) /\ block = Whole + Ones
    BY DEF Sm3Inv, WorkInv
  <2>2. Len(Padded(bytes)) = 64 * (Whole + Ones)
    BY <2>1, BytesSplit DEF Whole, Ones
  <2>3. H = Reversed(s)
    BY DEF Sm3Inv, ChainInv
  <2>4. \A k \in 0..7 : H[k] = REV8(s[k])
    BY <2>3 DEF Reversed
  <2> QED
    BY <2>1, <2>2, <2>4
<1> QED
  BY <1>1, <1>2 DEF Sm3IsStandard

------------------------------------------------------------------------------
(* The functions on words of SHA-2                                          *)
WordInv == Width \in {32, 64} /\ word \subseteq 0..(Width - 1)

(* both halves of a rotation are shifts                                     *)
LEMMA RorTurns ==
  ASSUME NEW x, NEW n \in Nat, 0 < n, n < Width, Width \in {32, 64}, x \subseteq 0..(Width - 1)
  PROVE  ROR(x, n) = RotateR(x, n, Width)
<1>1. PICK u \in Nat : u = Width
  OBVIOUS
<1>2. \A b \in x : b \in 0..(u - 1)
  BY <1>1
<1>3. ASSUME NEW b \in 0..(u - 1) PROVE (b - n) % u = IF b >= n THEN b - n ELSE b + (u - n)
  <2>1. CASE u = 32
    BY <1>1, <2>1
  <2>2. CASE u = 64
    BY <1>1, <2>2
  <2> QED
    BY <1>1, <2>1, <2>2
<1>4. ASSUME NEW c, c \in ROR(x, n) PROVE c \in RotateR(x, n, u)
  <2>1. CASE c \in ShiftR(x, n)
    <3>1. PICK b \in x : b >= n /\ c = b - n
      BY <2>1 DEF ShiftR
    <3> QED
      BY <1>2, <1>3, <3>1 DEF RotateR
  <2>2. CASE c \in ShiftL(x, u - n, u)
    <3>1. PICK b \in x : b + (u - n) < u /\ c = b + (u - n)
      BY <2>2 DEF ShiftL
    <3>2. ~(b >= n)
      BY <1>2, <3>1
    <3> QED
      BY <1>2, <1>3, <3>1, <3>2 DEF RotateR
  <2> QED
    BY <1>1, <1>4, <2>1, <2>2 DEF ROR
<1>5. ASSUME NEW c, c \in RotateR(x, n, u) PROVE c \in ROR(x, n)
  <2>1. PICK b \in x : c = (b - n) % u
    BY <1>5 DEF RotateR
  <2>2. CASE b >= n
    <3>1. c = b - n
      BY <1>2, <1>3, <2>1, <2>2
    <3>2. c \in ShiftR(x, n)
      BY <2>2, <3>1 DEF ShiftR
    <3> QED
      BY <3>2 DEF ROR
  <2>3. CASE ~(b >= n)
    <3>1. c = b + (u - n) /\ b + (u - n) < u
      BY <1>1, <1>2, <1>3, <2>1, <2>3
    <3>2. c \in ShiftL(x, u - n, u)
      BY <3>1 DEF ShiftL
    <3> QED
      BY <1>1, <3>2 DEF ROR
  <2> QED
    BY <2>2, <2>3
<1> QED
  BY <1>1, <1>4, <1>5

(* ROTATE of the macros of SHA-256 turns to the left                        *)
LEMMA RotateTurns ==
  ASSUME NEW x, NEW n \in Nat, 0 < n, n < 32, Width = 32
  PROVE  ROTATE(x, n) = ROR(x, 32 - n)
<1>1. ROTATE(x, n) = ShiftL(x, n, 32) \cup ShiftR(x, 32 - n)
  BY DEF ROTATE
<1>2. 32 - (32 - n) = n
  OBVIOUS
<1>3. ROR(x, 32 - n) = ShiftR(x, 32 - n) \cup ShiftL(x, n, 32)
  BY <1>2 DEF ROR
<1> QED
  BY <1>1, <1>3

(* the functions, through the rotations they are made of                    *)
LEMMA SameWords32 ==
  ASSUME WordInv, Width = 32
  PROVE  SameFunctions
<1> DEFINE R(n) == RotateR(word, n, Width)
<1>1. \A n \in Nat : 0 < n /\ n < 32 => ROR(word, n) = R(n)
  BY RorTurns DEF WordInv
<1>2. \A n \in Nat : 0 < n /\ n < 32 => ROTATE(word, n) = R(32 - n)
  <2> SUFFICES ASSUME NEW n \in Nat, 0 < n, n < 32 PROVE ROTATE(word, n) = R(32 - n)
    OBVIOUS
  <2>1. ROTATE(word, n) = ROR(word, 32 - n)
    BY RotateTurns
  <2>2. 32 - n \in Nat /\ 0 < 32 - n /\ 32 - n < 32
    OBVIOUS
  <2> QED
    BY <1>1, <2>1, <2>2
<1>3. /\ ROR(word, 2) = R(2) /\ ROR(word, 13) = R(13) /\ ROR(word, 22) = R(22)
      /\ ROR(word, 6) = R(6) /\ ROR(word, 11) = R(11) /\ ROR(word, 25) = R(25)
      /\ ROR(word, 7) = R(7) /\ ROR(word, 18) = R(18)
      /\ ROR(word, 17) = R(17) /\ ROR(word, 19) = R(19)
  BY <1>1
<1>4. /\ ROTATE(word, 30) = R(2) /\ ROTATE(word, 19) = R(13) /\ ROTATE(word, 10) = R(22)
      /\ ROTATE(word, 26) = R(6) /\ ROTATE(word, 21) = R(11) /\ ROTATE(word, 7) = R(25)
      /\ ROTATE(word, 25) = R(7) /\ ROTATE(word, 14) = R(18)
      /\ ROTATE(word, 15) = R(17) /\ ROTATE(word, 13) = R(19)
  BY <1>2
<1>5. Standard("SUM_0", word) = Xor(Xor(R(2), R(13)), R(22))
  BY DEF Standard, Amounts
<1>6. Standard("SUM_1", word) = Xor(Xor(R(6), R(11)), R(25))
  BY DEF Standard, Amounts
<1>7. Standard("SIGMA_0", word) = Xor(Xor(R(7), R(18)), ShiftR(word, 3))
  BY DEF Standard, Amounts
<1>8. Standard("SIGMA_1", word) = Xor(Xor(R(17), R(19)), ShiftR(word, 10))
  BY DEF Standard, Amounts
<1> HIDE DEF R
<1>9. /\ Scalar("SUM_0", word) = Standard("SUM_0", word)
      /\ Scalar("SUM_1", word) = Standard("SUM_1", word)
      /\ Scalar("SIGMA_0", word) = Standard("SIGMA_0", word)
      /\ Scalar("SIGMA_1", word) = Standard("SIGMA_1", word)
  BY <1>3, <1>5, <1>6, <1>7, <1>8 DEF Scalar, Three
<1>10. /\ OpenSSL("SUM_0", word) = Standard("SUM_0", word)
       /\ OpenSSL("SUM_1", word) = Standard("SUM_1", word)
       /\ OpenSSL("SIGMA_0", word) = Standard("SIGMA_0", word)
       /\ OpenSSL("SIGMA_1", word) = Standard("SIGMA_1", word)
  BY <1>4, <1>5, <1>6, <1>7, <1>8 DEF OpenSSL, Three
<1>11. DOMAIN Amounts = {"SUM_0", "SUM_1", "SIGMA_0", "SIGMA_1"}
  BY DEF Amounts
<1> QED
  BY <1>9, <1>10, <1>11 DEF SameFunctions

LEMMA SameWords64 ==
  ASSUME WordInv, Width = 64
  PROVE  SameFunctions
<1> DEFINE R(n) == RotateR(word, n, Width)
<1>1. \A n \in Nat : 0 < n /\ n < 64 => ROR(word, n) = R(n)
  BY RorTurns DEF WordInv
<1>2. \A n : ROTATE(word, n) = ROR(word, n)
  BY DEF ROTATE
<1>3. /\ ROR(word, 28) = R(28) /\ ROR(word, 34) = R(34) /\ ROR(word, 39) = R(39)
      /\ ROR(word, 14) = R(14) /\ ROR(word, 18) = R(18) /\ ROR(word, 41) = R(41)
      /\ ROR(word, 1) = R(1) /\ ROR(word, 8) = R(8)
      /\ ROR(word, 19) = R(19) /\ ROR(word, 61) = R(61)
  BY <1>1
<1>5. Standard("SUM_0", word) = Xor(Xor(R(28), R(34)), R(39))
  BY DEF Standard, Amounts
<1>6. Standard("SUM_1", word) = Xor(Xor(R(14), R(18)), R(41))
  BY DEF Standard, Amounts
<1>7. Standard("SIGMA_0", word) = Xor(Xor(R(1), R(8)), ShiftR(word, 7))
  BY DEF Standard, Amounts
<1>8. Standard("SIGMA_1", word) = Xor(Xor(R(19), R(61)), ShiftR(word, 6))
  BY DEF Standard, Amounts
<1> HIDE DEF R
<1>9. /\ Scalar("SUM_0", word) = Standard("SUM_0", word)
      /\ Scalar("SUM_1", word) = Standard("SUM_1", word)
      /\ Scalar("SIGMA_0", word) = Standard("SIGMA_0", word)
      /\ Scalar("SIGMA_1", word) = Standard("SIGMA_1", word)
  BY <1>3, <1>5, <1>6, <1>7, <1>8 DEF Scalar, Three
<1>10. /\ OpenSSL("SUM_0", word) = Standard("SUM_0", word)
       /\ OpenSSL("SUM_1", word) = Standard("SUM_1", word)
       /\ OpenSSL("SIGMA_0", word) = Standard("SIGMA_0", word)
       /\ OpenSSL("SIGMA_1", word) = Standard("SIGMA_1", word)
  BY <1>2, <1>3, <1>5, <1>6, <1>7, <1>8 DEF OpenSSL, Three
<1>11. DOMAIN Amounts = {"SUM_0", "SUM_1", "SIGMA_0", "SIGMA_1"}
  BY DEF Amounts
<1> QED
  BY <1>9, <1>10, <1>11 DEF SameFunctions

(* both ways to read a big-endian word, and what storing does               *)
LEMMA SameEnds ==
  ASSUME WordInv
  PROVE  SameByteOrder
<1>1. PICK z \in Nat : z = BytesIn - 1 /\ Width = 8 * z + 8
  <2>1. CASE Width = 32
    <3>1. BytesIn - 1 = 3
      BY <2>1 DEF BytesIn
    <3> QED
      BY <2>1, <3>1
  <2>2. CASE Width = 64
    <3>1. BytesIn - 1 = 7
      BY <2>2 DEF BytesIn
    <3> QED
      BY <2>2, <3>1
  <2> QED
    BY <2>1, <2>2 DEF WordInv
<1>2. \A x : Swapped(x) = EndForEnd(x, z)
  BY <1>1 DEF Swapped, EndForEnd
<1>3. word \in WordsTo(z)
  <2>1. Width - 1 = 8 * z + 7
    BY <1>1
  <2> QED
    BY <2>1 DEF WordInv, WordsTo
<1>4. Swapped(Swapped(word)) = word
  BY <1>2, <1>3, EndForEndTwice
<1>5. Gathered(Memory(word)) = Swapped(word)
  <2>1. DOMAIN Memory(word) = 0..(BytesIn - 1)
        /\ \A a \in 0..(BytesIn - 1) : Memory(word)[a] = ByteOf(word, a)
    BY DEF Memory
  <2> QED
    BY <2>1 DEF Gathered, Swapped
<1> QED
  BY <1>4, <1>5 DEF SameByteOrder

LEMMA WordsHeld == WordInv => SameFunctions /\ SameByteOrder
  BY SameWords32, SameWords64, SameEnds DEF WordInv

LEMMA WordsStart == WordsInit => WordInv
  BY DEF WordsInit, WordInv

LEMMA WordsStep == WordInv /\ WordsNext => WordInv'
  BY DEF WordInv, WordsNext, SetBit, Stop

------------------------------------------------------------------------------
(* The three parts side by side: what one leaves alone keeps its invariant. *)
PartsInv == Sm3Inv /\ WordInv

LEMMA PartsStart == MCInit => PartsInv
  BY Sm3Starts, WordsStart DEF MCInit, PartsInv

LEMMA WordsStay == WordInv /\ UNCHANGED <<word, Width>> => WordInv'
  BY DEF WordInv

LEMMA PartsStep == PartsInv /\ [MCNext]_<<vars, word, Width, sm3vars>> => PartsInv'
<1> SUFFICES ASSUME PartsInv, [MCNext]_<<vars, word, Width, sm3vars>> PROVE PartsInv'
  OBVIOUS
<1>1. CASE OnWords
  <2>1. WordsNext /\ UNCHANGED sm3vars
    BY <1>1 DEF OnWords
  <2> QED
    BY <2>1, WordsStep, Sm3Stays DEF PartsInv
<1>2. CASE OnBlocks
  <2>1. UNCHANGED <<word, Width>> /\ UNCHANGED sm3vars
    BY <1>2 DEF OnBlocks
  <2> QED
    BY <2>1, WordsStay, Sm3Stays DEF PartsInv
<1>3. CASE OnSm3
  <2>1. UNCHANGED <<word, Width>> /\ Sm3Next
    BY <1>3 DEF OnSm3
  <2> QED
    BY <2>1, WordsStay, Sm3Steps DEF PartsInv
<1>4. CASE UNCHANGED <<vars, word, Width, sm3vars>>
  <2>1. UNCHANGED <<word, Width>> /\ UNCHANGED sm3vars
    BY <1>4
  <2> QED
    BY <2>1, WordsStay, Sm3Stays DEF PartsInv
<1> QED
  BY <1>1, <1>2, <1>3, <1>4 DEF MCNext

LEMMA PartsHold == MCSpec => []PartsInv
  BY PartsStart, PartsStep, PTL DEF MCSpec

(* sm3_256 renames, rotates and overwrites in place, and the registers are  *)
(* the standard's in every round; when it returns, memory holds the         *)
(* standard's digest of the message with its padding, for every message.    *)
THEOREM Sm3Correct == MCSpec => []Sm3IsStandard
<1>1. PartsInv => Sm3IsStandard
  BY Sm3Held DEF PartsInv
<1> QED
  BY <1>1, PartsHold, PTL

(* The functions on words of sha256.c, of sha512.c and of OpenSSL's macros  *)
(* are FIPS 180-4's, and both ways of reading a big-endian word agree and   *)
(* undo themselves, for every word of 32 and of 64 bits that is reached.    *)
THEOREM WordsCorrect == MCSpec => []WordsAreStandard
<1>1. PartsInv => WordsAreStandard
  BY WordsHeld DEF PartsInv, WordsAreStandard
<1> QED
  BY <1>1, PartsHold, PTL
=============================================================================
