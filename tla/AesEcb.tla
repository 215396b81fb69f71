------------------------------- MODULE AesEcb -------------------------------
(***************************************************************************)
(* aes_ecb_encrypt of aes_enc.c and aes_ecb_decrypt of aes_dec.c: one      *)
(* block, a round of the loop at a time.  What a round does to the block   *)
(* is left to the constants; AesBytes has what it does in the two files.   *)
(***************************************************************************)
EXTENDS Integers

CONSTANTS
  Block, RoundKey,
  NR,                        \* the numbers of rounds: 10, 12 and 14
  AddRoundKey(_, _),
  SubBytesShiftRows(_), MixColumns(_),
  InvSubBytesShiftRows(_), InvMixColumns(_)

VARIABLES
  rk,        \* the expanded key both functions are called with, by round
  nr,        \* the number of rounds both are called with
  pt,        \* the block that is encrypted
  state,     \* ct of aes_ecb_encrypt, pt of aes_ecb_decrypt
  round,
  op,        \* what is running, or has returned
  trail      \* history: the block before each round of the encryption

vars == <<rk, nr, pt, state, round, op, trail>>

(* what makes the constants a cipher: proofs and runs state it separately  *)
CipherOf(S, K) ==
  /\ \A b \in S, k \in K : AddRoundKey(b, k) \in S /\ AddRoundKey(AddRoundKey(b, k), k) = b
  /\ \A b \in S : /\ SubBytesShiftRows(b) \in S
                  /\ MixColumns(b) \in S
                  /\ InvSubBytesShiftRows(SubBytesShiftRows(b)) = b
                  /\ InvMixColumns(MixColumns(b)) = b

Init ==
  /\ rk = <<>> /\ nr = 0 /\ pt = <<>> /\ state = <<>>
  /\ round = 0 /\ op = "idle" /\ trail = <<>>

(* The caller takes a block and an expanded key.                           *)
Call ==
  /\ op \in {"idle", "decrypted"}
  /\ nr' \in NR /\ rk' \in [0..nr' -> RoundKey]
  /\ pt' \in Block
  /\ op' = "called"
  /\ UNCHANGED <<state, round, trail>>

Encrypt ==
  /\ op = "called"
  /\ state' = AddRoundKey(pt, rk[0])
  /\ round' = 1 /\ op' = "encrypt"
  /\ trail' = [r \in {0} |-> state']
  /\ UNCHANGED <<rk, nr, pt>>

EncryptRound ==
  /\ op = "encrypt" /\ round < nr
  /\ state' = AddRoundKey(MixColumns(SubBytesShiftRows(state)), rk[round])
  /\ trail' = [r \in 0..round |-> IF r = round THEN state' ELSE trail[r]]
  /\ round' = round + 1
  /\ UNCHANGED <<rk, nr, pt, op>>

EncryptLast ==
  /\ op = "encrypt" /\ round = nr
  /\ state' = AddRoundKey(SubBytesShiftRows(state), rk[round])
  /\ op' = "encrypted"
  /\ UNCHANGED <<rk, nr, pt, round, trail>>

(* the body of aes_ecb_decrypt's loop                                      *)
InvRound(b, k) == InvMixColumns(AddRoundKey(InvSubBytesShiftRows(b), k))

Decrypt ==
  /\ op = "encrypted"
  /\ state' = AddRoundKey(state, rk[nr])
  /\ round' = nr - 1 /\ op' = "decrypt"
  /\ UNCHANGED <<rk, nr, pt, trail>>

DecryptRound ==
  /\ op = "decrypt" /\ round >= 1
  /\ state' = InvRound(state, rk[round])
  /\ round' = round - 1
  /\ UNCHANGED <<rk, nr, pt, op, trail>>

DecryptLast ==
  /\ op = "decrypt" /\ round = 0
  /\ state' = AddRoundKey(InvSubBytesShiftRows(state), rk[0])
  /\ op' = "decrypted"
  /\ UNCHANGED <<rk, nr, pt, round, trail>>

Next == Call \/ Encrypt \/ EncryptRound \/ EncryptLast
          \/ Decrypt \/ DecryptRound \/ DecryptLast

Spec == Init /\ [][Next]_vars

------------------------------------------------------------------------------
(* The decryption goes back over the blocks of the encryption: before each *)
(* of its rounds the block is that round's of the encryption, substituted  *)
(* and shifted, although it mixes columns after adding the round key and   *)
(* the encryption before.                                                  *)
DecryptRetraces == op = "decrypt" => state = SubBytesShiftRows(trail[round])

(* With the key it was encrypted with, a block is decrypted to itself.     *)
DecryptReturnsPlaintext == op = "decrypted" => state = pt
=============================================================================
