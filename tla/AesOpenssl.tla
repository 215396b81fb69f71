----------------------------- MODULE AesOpenssl -----------------------------
(***************************************************************************)
(* AES_encrypt_openssl and AES_decrypt_openssl of aes_enc.c and aes_dec.c  *)
(* between the key schedules, in the order of the benchmark: expand the    *)
(* key, encrypt a block, expand it for decryption, decrypt the block.      *)
(* aes_ecb_encrypt, which the benchmark called before, runs beside Cipher. *)
(***************************************************************************)
EXTENDS AesKeys, AesWords

CONSTANTS
  Plaintexts,
  DecryptWith    \* the key AES_decrypt_openssl gets: "rk", as the benchmark
                 \* passes, or "dk", the one expanded for decryption

ASSUME BlocksAssumption ==
  Plaintexts \subseteq [Index -> Byte] /\ DecryptWith \in {"rk", "dk"}

(* What TLC computes for all 256 bytes: the tables undo each other, and     *)
(* OpenSSL's circuits, on a word with one byte, have their entries.         *)
ASSUME TablesAssumption ==
  \A x \in Byte : /\ d_sbox[e_sbox[x]] = x
                  /\ ByteOf(SubLong(x), 0) = e_sbox[x]
                  /\ ByteOf(InvSubLong(x), 0) = d_sbox[x]

VARIABLES
  pt,        \* the block that is encrypted
  state,     \* the two words of Cipher and InvCipher
  round,
  op,
  trail,     \* history: the words before each round of the encryption
  aes        \* ct of aes_ecb_encrypt, with aes_key_schedule's key

cipherVars == <<pt, state, round, op, trail, aes>>
vars == <<keyVars, cipherVars>>

(* w + 2 * r: two words of the key as one of 64 bits, the first one low    *)
RoundWords(key, r) ==
  <<key[4 * r] \cup ShiftL(key[4 * r + 1], 32, 64),
    key[4 * r + 2] \cup ShiftL(key[4 * r + 3], 32, 64)>>

DecryptKey == IF DecryptWith = "rk" THEN rk ELSE dk

Init ==
  /\ KeyInit
  /\ pt = <<>> /\ state = <<>> /\ round = 0 /\ op = "idle"
  /\ trail = <<>> /\ aes = <<>>

Schedule == KeyNext /\ UNCHANGED cipherVars

(* The rounds of Cipher are those of aes_ecb_encrypt: one action is both.  *)
Call ==
  /\ phase = "ready" /\ op = "idle"
  /\ pt' \in Plaintexts
  /\ op' = "called"
  /\ UNCHANGED <<keyVars, state, round, trail, aes>>

Encrypt ==
  /\ op = "called"
  /\ state' = AddRoundKey(WordsOf(pt), RoundWords(rk, 0))
  /\ aes' = AddBytes(pt, RoundKeyOf(ref, 0))
  /\ trail' = [r \in {0} |-> state']
  /\ round' = 1 /\ op' = "encrypt"
  /\ UNCHANGED <<keyVars, pt>>

CipherRound(s, w) ==
  UNION {{AddRoundKey(MixColumns(shifted), w) : shifted \in {ShiftRows(sub)}}
           : sub \in {SubLongs(s)}}

EncryptRound ==
  /\ op = "encrypt" /\ round < rounds
  /\ state' \in CipherRound(state, RoundWords(rk, round))
  /\ \E sub \in {aes_subbytes_shiftrows(aes)} :
       aes' = AddBytes(aes_mix_columns_enc(sub), RoundKeyOf(ref, round))
  /\ trail' = [r \in 0..round |-> IF r = round THEN state' ELSE trail[r]]
  /\ round' = round + 1
  /\ UNCHANGED <<keyVars, pt, op>>

EncryptLast ==
  /\ op = "encrypt" /\ round = rounds
  /\ \E sub \in {SubLongs(state)} :
       state' = AddRoundKey(ShiftRows(sub), RoundWords(rk, round))
  /\ aes' = AddBytes(aes_subbytes_shiftrows(aes), RoundKeyOf(ref, round))
  /\ op' = "encrypted"
  /\ UNCHANGED <<keyVars, pt, round, trail>>

Decrypt ==
  /\ op = "encrypted"
  /\ state' = AddRoundKey(state, RoundWords(DecryptKey, rounds))
  /\ round' = rounds - 1 /\ op' = "decrypt"
  /\ UNCHANGED <<keyVars, pt, trail, aes>>

(* Mutant: AddRoundKey and InvMixColumns change places.                    *)
InvCipherRound_MixFirst(s, w) ==
  UNION {{AddRoundKey(InvMixColumns(sub), w) : sub \in {InvSubLongs(shifted)}}
           : shifted \in {InvShiftRows(s)}}

InvCipherRound(s, w) ==
  UNION {{InvMixColumns(AddRoundKey(sub, w)) : sub \in {InvSubLongs(shifted)}}
           : shifted \in {InvShiftRows(s)}}

DecryptRound ==
  /\ op = "decrypt" /\ round >= 1
  /\ state' \in InvCipherRound(state, RoundWords(DecryptKey, round))
  /\ round' = round - 1
  /\ UNCHANGED <<keyVars, pt, op, trail, aes>>

DecryptLast ==
  /\ op = "decrypt" /\ round = 0
  /\ \E shifted \in {InvShiftRows(state)} :
       state' = AddRoundKey(InvSubLongs(shifted), RoundWords(DecryptKey, 0))
  /\ op' = "decrypted"
  /\ UNCHANGED <<keyVars, pt, round, trail, aes>>

(* the benchmark takes one block per key                                   *)
Finished == op = "decrypted" /\ UNCHANGED vars

Next == Schedule \/ Call \/ Encrypt \/ EncryptRound \/ EncryptLast
          \/ Decrypt \/ DecryptRound \/ DecryptLast \/ Finished

Spec == Init /\ [][Next]_vars

------------------------------------------------------------------------------
Bytes == [Index -> Byte]

(* The byte-wise functions, called with the bytes that the words of        *)
(* rd_key have in memory, on the bytes of the two words                    *)
Ecb == INSTANCE AesEcb WITH
  Block <- Bytes, RoundKey <- Bytes, NR <- {10, 12, 14},
  AddRoundKey <- AddBytes,
  SubBytesShiftRows <- aes_subbytes_shiftrows, MixColumns <- aes_mix_columns_enc,
  InvSubBytesShiftRows <- aes_subbytes_shiftrows_dec,
  InvMixColumns <- aes_mix_columns_dec,
  rk <- IF op = "idle" THEN <<>> ELSE [r \in 0..rounds |-> RoundKeyOf(rk, r)],
  nr <- IF op = "idle" THEN 0 ELSE rounds,
  state <- IF state = <<>> THEN <<>> ELSE BytesOf(state),
  trail <- IF trail = <<>> THEN <<>> ELSE [r \in DOMAIN trail |-> BytesOf(trail[r])]

(* Both functions on words, lane by lane and two columns at a time, do     *)
(* what the byte-wise ones do round by round with the same memory.         *)
EcbSpec == Ecb!Spec

(* The decryption meets the blocks of the encryption again, in reverse.    *)
DecryptRetraces == Ecb!DecryptRetraces

(* The benchmark's decryption undoes its encryption.                       *)
DecryptReturnsPlaintext == Ecb!DecryptReturnsPlaintext

(* What the benchmark prints as the ciphertext is the AES of the block.    *)
EncryptsAsAes == op = "encrypted" => BytesOf(state) = aes
=============================================================================
