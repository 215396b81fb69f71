----------------------------- MODULE MCCiphers -----------------------------
(* Keys and blocks for AesOpenssl and Sm4, which share nothing and run one  *)
(* or the other.                                                            *)
EXTENDS AesOpenssl, Sm4Words

CONSTANT Sm4Blocks     \* the keys and blocks for SM4

ASSUME Sm4Assumption == Sm4Blocks \subseteq [0..15 -> SUBSET (0..7)]

VARIABLES who, mk, sm4K, sm4rk, sm4i, in, out, sm4X, sm4r, call, sm4trail
sm4vars == <<who, mk, sm4K, sm4rk, sm4i, in, out, sm4X, sm4r, call, sm4trail>>

(* the key of sm4_api.h's example, and another block                        *)
SpecInput == [a \in 0..15 |-> BitsOf(
  <<\h01, \h23, \h45, \h67, \h89, \hAB, \hCD, \hEF,
    \hFE, \hDC, \hBA, \h98, \h76, \h54, \h32, \h10>>[a + 1])]
MCBlocks == {SpecInput, [a \in 0..15 |-> BitsOf((37 * a + 11) % 256)]}

SM4 == INSTANCE Sm4 WITH Keys <- Sm4Blocks, InputBlocks <- Sm4Blocks,
                         K <- sm4K, rk <- sm4rk, i <- sm4i, X <- sm4X,
                         r <- sm4r, trail <- sm4trail

Zeros == [k \in 0..31 |-> {}]
Counted == [k \in 0..31 |-> BitsOf(k)]
Scattered == [k \in 0..31 |-> BitsOf((37 * k + 101) % 256)]

(* the benchmark's key of zeros, and keys of different bytes               *)
MCUserKeys == {Zeros, Counted, Scattered}

(* the benchmark's block of zeros, and FIPS 197's 00112233..ff             *)
MCPlaintexts == {[k \in Index |-> {}], [k \in Index |-> BitsOf(17 * k)]}

MCInit == Init /\ SM4!Sm4Init

OnAes == call = "idle" /\ Next /\ UNCHANGED sm4vars

(* one initial state of AES stands by                                       *)
OnSm4 == /\ bits = 128 /\ userKey = Zeros /\ phase = "reference" /\ Length(ref) = Nk
         /\ SM4!Sm4Next /\ UNCHANGED vars

Sm4Finished == call = "decrypted" /\ UNCHANGED <<vars, sm4vars>>

MCNext == OnAes \/ OnSm4 \/ Sm4Finished
MCSpec == MCInit /\ [][MCNext]_<<vars, sm4vars>>

(* The decryption schedule is the standard's, and OpenSSL's round keys of   *)
(* SM4 are those sm4_api.h lists.                                           *)
KeySchedules ==
  DecryptionSchedule /\ (who = "openssl" => SM4!ExpandsAsPublished)

(* sm4_api.h:17, "Generated key expansion from sm4 specs example 1", of all *)
(* key schedules                                                            *)
ExpandsAsPublished == SM4!ExpandsAsPublished

(* SM4's decryption retraces its encryption, whichever way the round keys   *)
(* are reversed, and so returns the block.                                  *)
Sm4Retraces == SM4!Sm4Retraces
=============================================================================
