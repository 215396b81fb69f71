-------------------------------- MODULE Sm3 --------------------------------
(***************************************************************************)
(* sm3_256 of sm3_api.c with sm3_cf256_zksh as its compression function:   *)
(* the padding of a message in one call, the words as they lie in memory,  *)
(* and the rounds, which rename the working variables, rotate two of them  *)
(* in place and compute four words of the schedule at a time over the      *)
(* sixteen they have.                                                      *)
(***************************************************************************)
EXTENDS Words, Sequences

CONSTANT Inputs      \* the messages: sequences of bytes

(* Bound of the model: the length in bits fits four bytes; the code has     *)
(* eight for it.                                                            *)
ASSUME InputsAssumption ==
  /\ Inputs \subseteq Seq(SUBSET (0..7))
  /\ \A b \in Inputs : Len(b) < 2 ^ 29

VARIABLES
  bytes,   \* the message
  calls,   \* the calls of sm3_compress to come: blocks of 64 bytes
  s,       \* sm3_256's s, *sp of the compression
  mem,     \* the blocks the running call has left
  abcd,    \* 0 .. 7: a .. h as the code names them
  m16,     \* 0 .. 15: m0 .. mf
  tj,
  j,       \* rounds done
  next,    \* words of the schedule there have been
  at,      \* where the two functions are
  W, V, H, \* ghost: the standard's schedule, variables and chaining value
  block    \* ghost: blocks compressed

ghosts == <<W, V, H, block>>
sm3vars == <<bytes, calls, s, mem, abcd, m16, tj, j, next, at, ghosts>>

------------------------------------------------------------------------------
ROTL(x, n) == RotateL(x, n, 32)
Plus32(x, y) == Add(x, y, 32)
P0(x) == Xor(Xor(x, ROTL(x, 9)), ROTL(x, 17))
P1(x) == Xor(Xor(x, ROTL(x, 15)), ROTL(x, 23))
Xor3(x, y, z) == Xor(Xor(x, y), z)

T0 == Halves(\h79CC, \h4519)
T16 == Halves(\h7A87, \h9D8A)

(* GB/T 32905: the message with its padding, the schedule, a round         *)
LengthField(n) ==   \* of 8 bytes; no message here needs more than four
  [k \in 1..8 |-> IF k < 5 THEN {} ELSE BitsIn(((8 * n) \div 256 ^ (8 - k)) % 256)]
Padded(b) == b \o <<{7}>> \o [k \in 1..((55 - Len(b)) % 64) |-> {}] \o LengthField(Len(b))

BigEndianWord(b, at4) == UNION {ShiftL(b[at4 + k], 8 * (4 - k), 32) : k \in 1..4}

Expanded(w, n) ==
  Xor3(P1(Xor3(w[n - 16], w[n - 9], ROTL(w[n - 3], 15))), ROTL(w[n - 13], 7), w[n - 6])

RoundOf(v, n, w) ==
  LET first == n < 16
      SS1 == ROTL(Plus32(Plus32(ROTL(v[0], 12), v[4]),
                       ROTL(IF first THEN T0 ELSE T16, n % 32)), 7)
      FF == IF first THEN Xor3(v[0], v[1], v[2])
            ELSE (v[0] \cap v[1]) \cup (v[0] \cap v[2]) \cup (v[1] \cap v[2])
      GG == IF first THEN Xor3(v[4], v[5], v[6])
            ELSE (v[4] \cap v[5]) \cup (v[6] \ v[4])
      TT1 == Plus32(Plus32(Plus32(FF, v[3]), Xor(SS1, ROTL(v[0], 12))), Xor(w[n], w[n + 4]))
      TT2 == Plus32(Plus32(Plus32(GG, v[7]), SS1), w[n])
  IN Tabulated([k \in 0..7 |-> CASE k = 0 -> TT1
                                  [] k = 2 -> ROTL(v[1], 9)
                                  [] k = 4 -> P0(TT2)
                                  [] k = 6 -> ROTL(v[5], 19)
                                  [] OTHER -> v[k - 1]])

------------------------------------------------------------------------------
(* The words of little-endian memory, and REV8_BE32                        *)
WordAt(b, k) == UNION {ShiftL(b[4 * k + n], 8 * (n - 1), 32) : n \in 1..4}
REV8(x) == UNION {ShiftL(ByteOf(x, k), 8 * (3 - k), 32) : k \in 0..3}

(* sm3_256: the initial value, represented as little-endian                *)
InitialS == Tabulated([k \in 0..7 |->
  CASE k = 0 -> Halves(\h6F16, \h8073) [] k = 1 -> Halves(\hB9B2, \h1449)
    [] k = 2 -> Halves(\hD742, \h2417) [] k = 3 -> Halves(\h0006, \h8ADA)
    [] k = 4 -> Halves(\hBC30, \h6FA9) [] k = 5 -> Halves(\hAA38, \h3116)
    [] k = 6 -> Halves(\h4DEE, \h8DE3) [] k = 7 -> Halves(\h4E0E, \hFBB0)])

(* the bytes of the length, none on top of the highest that is not 0       *)
LengthBytes(x) ==
  LET places == {n \in 0..3 : x >= 256 ^ n}
  IN [k \in 1..Cardinality(places) |-> BitsIn((x \div 256 ^ (Cardinality(places) - k)) % 256)]

(* The buffer m: the rest of the message and a one bit; if the length has  *)
(* no room left a block is filled and compressed, and all but the length   *)
(* is cleared.                                                             *)
LastBlocks(b, x) ==
  LET marked == b \o <<{7}>>
      length == LengthBytes(x)
      filled(c) == c \o [k \in 1..(64 - Len(c) - Len(length)) |-> {}] \o length
  IN IF Len(marked) > 56
       THEN <<marked \o [k \in 1..(64 - Len(marked)) |-> {}], filled(<<>>)>>
       ELSE <<filled(marked)>>

(* whole blocks in one call, the last ones in a call each                  *)
Calls(b) ==
  LET whole == Len(b) \div 64
      rest == SubSeq(b, 64 * whole + 1, Len(b))
      last == LastBlocks(rest, 8 * Len(b))
  IN (IF whole = 0 THEN <<>> ELSE <<[k \in 1..whole |-> SubSeq(b, 64 * k - 63, 64 * k)]>>)
       \o [k \in 1..Len(last) |-> <<last[k]>>]

Sm3Init ==
  /\ bytes = <<>> /\ calls = <<>> /\ s = <<>> /\ mem = <<>>
  /\ abcd = <<>> /\ m16 = <<>> /\ tj = {} /\ j = 0 /\ next = 0 /\ at = "idle"
  /\ W = <<>> /\ V = <<>> /\ H = <<>> /\ block = 0

sm3_256 ==
  /\ at = "idle"
  /\ bytes' \in Inputs
  /\ calls' = Calls(bytes') /\ s' = InitialS /\ at' = "calls"
  /\ H' = Tabulated([k \in 0..7 |-> REV8(InitialS[k])]) /\ block' = 0
  /\ UNCHANGED <<mem, abcd, m16, tj, j, next, W, V>>

Compress ==
  /\ at = "calls" /\ calls # <<>>
  /\ mem' = Head(calls) /\ calls' = Tail(calls)
  /\ s' = Tabulated([k \in 0..7 |-> REV8(s[k])]) /\ at' = "block"
  /\ UNCHANGED <<bytes, abcd, m16, tj, j, next, ghosts>>

(* load and reverse bytes                                                  *)
NextBlock ==
  /\ at = "block" /\ mem # <<>>
  /\ abcd' = s /\ tj' = T0 /\ j' = 0 /\ next' = 16 /\ at' = "rounds"
  /\ m16' = Tabulated([k \in 0..15 |-> REV8(WordAt(Head(mem), k))])
  /\ V' = H
  /\ W' = Tabulated([k \in 0..15 |-> BigEndianWord(Padded(bytes), 64 * block + 4 * k)])
  /\ UNCHANGED <<bytes, calls, s, mem, H, block>>

(* the register that plays a .. h in round n                               *)
Plays(n, k) == IF k < 4 THEN (k - n) % 4 ELSE 4 + ((k - n) % 4)

(* rounds 0..15                                                            *)
STEP_SM3_RF0(R, n, w0, w4) ==
  LET r(k) == R[Plays(n, k)]
      t == ROTL(r(0), 12)
      u == ROTL(Plus32(Plus32(t, r(4)), tj), 7)
      h == Plus32(Plus32(Plus32(r(7), w0), u), Xor3(r(4), r(5), r(6)))
  IN [R EXCEPT
       ![Plays(n, 3)] = Plus32(Plus32(Plus32(@, Xor(t, u)), Xor3(r(0), r(1), r(2))), Xor(w0, w4)),
       ![Plays(n, 7)] = P0(h),
       ![Plays(n, 1)] = ROTL(@, 9), ![Plays(n, 5)] = ROTL(@, 19)]

(* rounds 16..63                                                           *)
STEP_SM3_RF1(R, n, w0, w4) ==
  LET r(k) == R[Plays(n, k)]
      t == ROTL(r(0), 12)
      u == ROTL(Plus32(Plus32(t, r(4)), tj), 7)
      FF == ((r(0) \cup r(2)) \cap r(1)) \cup (r(0) \cap r(2))
      h == Plus32(Plus32(Plus32(r(7), w0), u), Xor(r(4) \cap r(5), r(6) \ r(4)))
  IN [R EXCEPT
       ![Plays(n, 3)] = Plus32(Plus32(Plus32(@, Xor(t, u)), FF), Xor(w0, w4)),
       ![Plays(n, 7)] = P0(h),
       ![Plays(n, 1)] = ROTL(@, 9), ![Plays(n, 5)] = ROTL(@, 19)]

(* four words before each four rounds from the thirteenth on               *)
KeysDue(n) == n < 12 \/ next = 4 * (n \div 4) + 8

STEP_SM3_KEY ==
  /\ at = "rounds" /\ j < 64 /\ ~KeysDue(j)
  /\ m16' = [m16 EXCEPT ![next % 16] =
       LET w(k) == m16[(next + k) % 16]
       IN Xor3(w(10), ROTL(w(3), 7), P1(Xor3(@, w(7), ROTL(w(13), 15))))]
  /\ next' = next + 1
  /\ W' = Tabulated([k \in 0..next |-> IF k = next THEN Expanded(W, next) ELSE W[k]])
  /\ UNCHANGED <<bytes, calls, s, mem, abcd, tj, j, at, V, H, block>>

(* Mutant: tj goes on turning into the seventeenth round.                  *)
Turned_On == ROTL(tj, 1)

(* tj after a round                                                        *)
Turned == IF j = 15 THEN Halves(\h9D8A, \h7A87) ELSE ROTL(tj, 1)

STEP_SM3_RF ==
  /\ at = "rounds" /\ j < 64 /\ KeysDue(j)
  /\ abcd' = IF j < 16 THEN STEP_SM3_RF0(abcd, j, m16[j % 16], m16[(j + 4) % 16])
             ELSE STEP_SM3_RF1(abcd, j, m16[j % 16], m16[(j + 4) % 16])
  /\ tj' = Turned /\ j' = j + 1
  /\ V' = RoundOf(V, j, W)
  /\ UNCHANGED <<bytes, calls, s, mem, m16, next, at, W, H, block>>

EndBlock ==
  /\ at = "rounds" /\ j = 64
  /\ s' = [k \in 0..7 |-> Xor(s[k], abcd[k])]
  /\ mem' = Tail(mem) /\ at' = "block"
  /\ H' = [k \in 0..7 |-> Xor(H[k], V[k])] /\ block' = block + 1
  /\ UNCHANGED <<bytes, calls, abcd, m16, tj, j, next, W, V>>

Uncompress ==
  /\ at = "block" /\ mem = <<>>
  /\ s' = Tabulated([k \in 0..7 |-> REV8(s[k])])
  /\ at' = "calls"
  /\ UNCHANGED <<bytes, calls, mem, abcd, m16, tj, j, next, ghosts>>

(* memcpy to md, and another message                                       *)
Sm3Return ==
  /\ at = "calls" /\ calls = <<>>
  /\ at' = "idle"
  /\ UNCHANGED <<bytes, calls, s, mem, abcd, m16, tj, j, next, ghosts>>

Sm3Next == sm3_256 \/ Compress \/ NextBlock \/ STEP_SM3_KEY \/ STEP_SM3_RF
             \/ EndBlock \/ Uncompress \/ Sm3Return

Sm3Spec == Sm3Init /\ [][Sm3Next]_sm3vars

------------------------------------------------------------------------------
(* The registers hold the standard's variables, rotated in place and       *)
(* renamed; and when sm3_256 returns, memory holds the digest of the       *)
(* padded message, most significant byte first.                            *)
Sm3IsStandard ==
  /\ at = "rounds" => \A k \in 0..7 : abcd[Plays(j, k)] = V[k]
  /\ at = "idle" /\ s # <<>> =>
       /\ 64 * block = Len(Padded(bytes))
       /\ \A k \in 0..7 : REV8(s[k]) = H[k]
=============================================================================
