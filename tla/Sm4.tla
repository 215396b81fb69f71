-------------------------------- MODULE Sm4 --------------------------------
(***************************************************************************)
(* SM4 as sm4_reference.c has it and as OpenSSL's functions in test_sm4.c  *)
(* have it: expand a key, encrypt a block, decrypt it.  The reference      *)
(* reverses the round keys in place and runs one function both ways;       *)
(* OpenSSL decrypts with a function that takes the keys from the end.      *)
(***************************************************************************)
EXTENDS Words, Sequences, TLC

CONSTANTS
  T(_), Tp(_), SM4_T(_),     \* what Sm4Words has of the two files
  FK, CK,
  Keys, InputBlocks          \* blocks of 16 bytes, by address

VARIABLES
  who,     \* "reference" or "openssl"
  mk,      \* the key
  K,       \* K0 .. K3 of the key schedule
  rk,      \* the round keys written so far
  i,       \* of the loop that reverses them
  in, out, \* the block that is encrypted, and what the last call returned
  X,       \* X0 .. X3, B0 .. B3
  r,       \* rounds done, words of the key schedule too
  call,    \* what runs, or has returned
  trail    \* history: X before each round of the encryption

sm4vars == <<who, mk, K, rk, i, in, out, X, r, call, trail>>

------------------------------------------------------------------------------
(* The words in memory are big-endian.  REV8_BE32 swaps the bytes of one   *)
(* that was loaded, load_u32_be gathers them; Store is both ways back.     *)
Load(bytes) ==
  [n \in 0..3 |-> UNION {ShiftL(bytes[4 * n + k], 8 * (3 - k), 32) : k \in 0..3}]
Store(words) == [a \in 0..15 |-> ByteOf(words[a \div 4], 3 - (a % 4))]

(* REV8_BE32 is not in parentheses: what follows takes its last operand,   *)
(* the byte on top, and the bytes below are joined by |.                   *)
XorTop(word, k) == ByteLane(word, {0, 1, 2}) \cup Xor(ByteLane(word, {3}), k)

------------------------------------------------------------------------------

Sm4Init ==
  /\ who \in {"reference", "openssl"}
  /\ mk = <<>> /\ K = <<>> /\ rk = <<>> /\ i = 0
  /\ in = <<>> /\ out = <<>> /\ X = <<>> /\ r = 0
  /\ call = "idle" /\ trail = <<>>

ScheduleEnc ==
  /\ call = "idle"
  /\ mk' \in Keys
  /\ K' = [n \in 0..3 |-> IF who = "reference" THEN XorTop(Load(mk')[n], FK[n + 1])
                          ELSE Xor(Load(mk')[n], FK[n + 1])]
  /\ rk' = <<>> /\ r' = 0 /\ call' = "expand"
  /\ UNCHANGED <<who, i, in, out, X, trail>>

(* one of the four words of an iteration; XOR has no order                 *)
Mixed(w, n, k) == Xor(Xor(Xor(w[(n + 1) % 4], w[(n + 2) % 4]), w[(n + 3) % 4]), k)

ExpandWord ==
  /\ call = "expand" /\ r < 32
  /\ K' = [K EXCEPT ![r % 4] = Xor(@, Tp(Mixed(K, r, CK[r])))]
  /\ rk' = [n \in 0..r |-> IF n = r THEN K'[r % 4] ELSE rk[n]]
  /\ r' = r + 1
  /\ call' = IF r = 31 THEN "expanded" ELSE call
  /\ UNCHANGED <<who, mk, i, in, out, X, trail>>

Encrypt ==
  /\ call = "expanded"
  /\ in' \in InputBlocks
  /\ X' = Load(in') /\ r' = 0
  /\ trail' = [n \in {0} |-> X']
  /\ call' = "encrypt"
  /\ UNCHANGED <<who, mk, K, rk, i, out>>

(* OpenSSL: the first and the last four rounds without tables              *)
F(w, n, x) == IF w = "openssl" /\ n \in 4..27 THEN SM4_T(x) ELSE T(x)

(* Mutant: a word goes into its own substitution.                          *)
Round_Own(w, x, n, k) ==
  [x EXCEPT ![n % 4] = Xor(@, F(w, n, Xor(Mixed(x, n, k), x[n % 4])))]

Round(w, x, n, k) == [x EXCEPT ![n % 4] = Xor(@, F(w, n, Mixed(x, n, k)))]

EncryptRound ==
  /\ call = "encrypt" /\ r < 32
  /\ X' = Round(who, X, r, rk[r])
  /\ r' = r + 1
  /\ trail' = [n \in 0..(r + 1) |-> IF n = r + 1 THEN X' ELSE trail[n]]
  /\ UNCHANGED <<who, mk, K, rk, i, in, out, call>>

(* the words are stored in reverse                                         *)
Return(name) ==
  /\ r = 32
  /\ out' = Store([n \in 0..3 |-> X[3 - n]])
  /\ call' = name
  /\ UNCHANGED <<who, mk, K, rk, i, in, X, r, trail>>

EncryptReturn == call = "encrypt" /\ Return("encrypted")

(* sm4_key_schedule_dec expands the same key again, and swaps; OpenSSL has *)
(* no such function                                                        *)
ScheduleDec ==
  /\ call = "encrypted" /\ who = "reference"
  /\ i' = 0 /\ call' = "swap"
  /\ UNCHANGED <<who, mk, K, rk, in, out, X, r, trail>>

(* Mutant: every key is swapped, and so swapped back.                      *)
Swap_All ==
  /\ call = "swap"
  /\ rk' = [rk EXCEPT ![i] = rk[31 - i], ![31 - i] = rk[i]]
  /\ i' = i + 1
  /\ call' = IF i' = 32 THEN "swapped" ELSE call
  /\ UNCHANGED <<who, mk, K, in, out, X, r, trail>>

Swap ==
  /\ call = "swap"
  /\ rk' = [rk EXCEPT ![i] = rk[31 - i], ![31 - i] = rk[i]]
  /\ i' = i + 1
  /\ call' = IF i' = 16 THEN "swapped" ELSE call
  /\ UNCHANGED <<who, mk, K, in, out, X, r, trail>>

Decrypt ==
  /\ call = IF who = "reference" THEN "swapped" ELSE "encrypted"
  /\ X' = Load(out) /\ r' = 0 /\ call' = "decrypt"
  /\ UNCHANGED <<who, mk, K, rk, i, in, out, trail>>

DecryptRound ==
  /\ call = "decrypt" /\ r < 32
  /\ X' = Round(who, X, r, IF who = "reference" THEN rk[r] ELSE rk[31 - r])
  /\ r' = r + 1
  /\ UNCHANGED <<who, mk, K, rk, i, in, out, call, trail>>

DecryptReturn == call = "decrypt" /\ Return("decrypted")

Sm4Next ==
  \/ ScheduleEnc \/ ExpandWord \/ Encrypt \/ EncryptRound \/ EncryptReturn
  \/ ScheduleDec \/ Swap \/ Decrypt \/ DecryptRound \/ DecryptReturn

Sm4Spec == Sm4Init /\ [][Sm4Next]_sm4vars

------------------------------------------------------------------------------
(* The decryption meets the words of the encryption again, from the last   *)
(* round to the first and in reverse order, whichever way the keys are     *)
(* reversed; what comes back is the block that went in.                    *)
Sm4Retraces ==
  /\ call = "decrypt" => \A n \in 0..3 : X[n] = trail[32 - r][3 - n]
  /\ call = "decrypted" => out = in

(* sm4_api.h:17: "Generated key expansion from sm4 specs example 1", of    *)
(* the key spec_input.                                                     *)
SpecInput == [a \in 0..15 |-> BitsIn(<<\h01, \h23, \h45, \h67, \h89, \hAB, \hCD, \hEF,
                                       \hFE, \hDC, \hBA, \h98, \h76, \h54, \h32, \h10>>[a + 1])]
Published == 0 :> Halves(\hF121, \h86F9) @@ 1 :> Halves(\h4166, \h2B61)
          @@ 30 :> Halves(\h01CF, \h72E5) @@ 31 :> Halves(\h9124, \hA012)

ExpandsAsPublished ==
  call = "expanded" /\ mk = SpecInput => \A n \in DOMAIN Published : rk[n] = Published[n]
=============================================================================
