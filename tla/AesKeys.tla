------------------------------ MODULE AesKeys ------------------------------
(***************************************************************************)
(* The key schedules: aes_key_schedule of aes_enc.c, one word at a time,   *)
(* and then OpenSSL's AES_set_encrypt_key_openssl into one AES_KEY and     *)
(* AES_set_decrypt_key_openssl into another, an iteration of their loops   *)
(* at a time.  An array of words has in its domain what has been written.  *)
(***************************************************************************)
EXTENDS AesBytes

CONSTANTS UserKeys,    \* arrays of 32 bytes, of which a key is the beginning
          Sizes        \* the sizes of key tried, of 128, 192 and 256 bits

VARIABLES userKey, bits,
          ref,         \* aes_key_schedule's rk
          rk,          \* rd_key of the AES_KEY for encryption
          dk,          \* rd_key of the AES_KEY for decryption
          step,        \* i of the loops of AES_set_*_key_openssl
          phase

ASSUME KeyAssumption ==
  UserKeys \subseteq [0..31 -> Byte] /\ Sizes \subseteq {128, 192, 256}

keyVars == <<userKey, bits, ref, rk, dk, step, phase>>

Word32 == SUBSET (0..31)
Nk == bits \div 32
rounds == CASE bits = 128 -> 10 [] bits = 192 -> 12 [] bits = 256 -> 14
Words == 4 * (rounds + 1)
Length(a) == Cardinality(DOMAIN a)

(* GETU32: the first byte on top                                           *)
GETU32(bytes, at) == WordFrom([k \in 0..3 |-> bytes[at + k]], BigEndian)

------------------------------------------------------------------------------
FromTop(bytes) == WordFrom([k \in 0..3 |-> bytes[k + 1]], BigEndian)

(* OpenSSL's tables: a column of the mixing matrices times a byte of the   *)
(* S-box, the products by the highest coefficients on top of Te0 and Td0   *)
Te0 == Tabulated([x \in Byte |->
  FromTop(<<xtime(e_sbox[x]), e_sbox[x], e_sbox[x], Times(e_sbox[x], {0, 1})>>)])
Te1 == Tabulated([x \in Byte |-> RotateR(Te0[x], 8, 32)])
Te2 == Tabulated([x \in Byte |-> RotateR(Te0[x], 16, 32)])
Te3 == Tabulated([x \in Byte |-> RotateR(Te0[x], 24, 32)])

Td0 == Tabulated([x \in Byte |->
  FromTop(<<Times(d_sbox[x], {1, 2, 3}), Times(d_sbox[x], {0, 3}),
            Times(d_sbox[x], {0, 2, 3}), Times(d_sbox[x], {0, 1, 3})>>)])
Td1 == Tabulated([x \in Byte |-> RotateR(Td0[x], 8, 32)])
Td2 == Tabulated([x \in Byte |-> RotateR(Td0[x], 16, 32)])
Td3 == Tabulated([x \in Byte |-> RotateR(Td0[x], 24, 32)])

rcon == [n \in 0..9 |-> ShiftL(round_const[n + 1], 24, 32)]

(* the lane of a word a mask of one byte keeps                             *)
Lane(w, k) == {b \in w : b \div 8 = k}

(* Mutant: the word is substituted without being rotated.                  *)
Rotated_Not(temp) ==
  Lane(Te2[ByteOf(temp, 3)], 3) \cup Lane(Te3[ByteOf(temp, 2)], 2)
    \cup Lane(Te0[ByteOf(temp, 1)], 1) \cup Lane(Te1[ByteOf(temp, 0)], 0)

(* the substituted bytes of temp, rotated by one byte and in place         *)
Rotated(temp) ==
  Lane(Te2[ByteOf(temp, 2)], 3) \cup Lane(Te3[ByteOf(temp, 1)], 2)
    \cup Lane(Te0[ByteOf(temp, 0)], 1) \cup Lane(Te1[ByteOf(temp, 3)], 0)
Substituted(temp) ==
  Lane(Te2[ByteOf(temp, 3)], 3) \cup Lane(Te3[ByteOf(temp, 2)], 2)
    \cup Lane(Te0[ByteOf(temp, 1)], 1) \cup Lane(Te1[ByteOf(temp, 0)], 0)

(* count words after the last: the first takes in `first', each further    *)
(* one its predecessor, and all the word Nk before them.                   *)
Appended(a, first, count) ==
  LET n == Length(a)
      word[k \in 0..(count - 1)] ==
        Xor(a[n + k - Nk], IF k = 0 THEN first ELSE word[k - 1])
  IN [j \in 0..(n + count - 1) |-> IF j < n THEN a[j] ELSE word[j - n]]

(* the values of ++i at which the three loops return                       *)
Iterations == CASE bits = 128 -> 10 [] bits = 192 -> 8 [] bits = 256 -> 7

(* One iteration: four words, and then, unless it was the last one, two    *)
(* more of a key of 192 bits, or four that start from a substituted word   *)
(* of one of 256.                                                          *)
Iteration(a, n) ==
  LET four == Appended(a, Xor(Rotated(a[Length(a) - 1]), rcon[n]), 4)
      last == four[Length(four) - 1]
  IN CASE n + 1 = Iterations \/ bits = 128 -> four
       [] OTHER -> IF bits = 192 THEN Appended(four, last, 2)
                   ELSE Appended(four, Substituted(last), 4)

(* Mutant: the transformed word takes Te1's top byte, not its lowest one.  *)
Transformed_Top(w) ==
  Xor(Xor(Td0[ByteOf(Te1[ByteOf(w, 3)], 3)], Td1[ByteOf(Te1[ByteOf(w, 2)], 3)]),
      Xor(Td2[ByteOf(Te1[ByteOf(w, 1)], 3)], Td3[ByteOf(Te1[ByteOf(w, 0)], 3)]))

(* the inverse MixColumn of a word: Te1 & 0xff is the S-box, which Td      *)
(* takes out again                                                         *)
Transformed(w) ==
  Xor(Xor(Td0[ByteOf(Te1[ByteOf(w, 3)], 0)], Td1[ByteOf(Te1[ByteOf(w, 2)], 0)]),
      Xor(Td2[ByteOf(Te1[ByteOf(w, 1)], 0)], Td3[ByteOf(Te1[ByteOf(w, 0)], 0)]))

------------------------------------------------------------------------------
KeyInit ==
  /\ userKey \in UserKeys /\ bits \in Sizes
  /\ ref = [k \in 0..(bits \div 32 - 1) |-> Loaded(userKey, k)]
  /\ rk = <<>> /\ dk = <<>>
  /\ step = 0 /\ phase = "reference"

ReferenceWord ==
  /\ phase = "reference" /\ Length(ref) < Words
  /\ ref' = [k \in 0..Length(ref) |->
              IF k = Length(ref) THEN NextWord(ref, k, Nk) ELSE ref[k]]
  /\ UNCHANGED <<userKey, bits, rk, dk, step, phase>>

(* AES_set_encrypt_key_openssl up to its loop                              *)
SetEncryptKey ==
  /\ phase = "reference" /\ Length(ref) = Words
  /\ rk' = [k \in 0..(Nk - 1) |-> GETU32(userKey, 4 * k)]
  /\ step' = 0 /\ phase' = "expand"
  /\ UNCHANGED <<userKey, bits, ref, dk>>

Expand ==
  /\ phase = "expand"
  /\ rk' = Iteration(rk, step)
  /\ step' = step + 1
  /\ phase' = IF step + 1 = Iterations THEN "expanded" ELSE "expand"
  /\ UNCHANGED <<userKey, bits, ref, dk>>

(* AES_set_decrypt_key_openssl: "first, start with an encryption schedule" *)
SetDecryptKey ==
  /\ phase = "expanded"
  /\ dk' = rk
  /\ step' = 0 /\ phase' = "invert"
  /\ UNCHANGED <<userKey, bits, ref, rk>>

(* the round keys at i and j = 4 * rounds - i change places           *)
Invert ==
  /\ phase = "invert" /\ step < 4 * rounds - step
  /\ dk' = [k \in DOMAIN dk |->
             IF k \in step..(step + 3) \/ k \in (4 * rounds - step)..(4 * rounds - step + 3)
             THEN dk[4 * (rounds - (k \div 4)) + (k % 4)] ELSE dk[k]]
  /\ step' = step + 4
  /\ UNCHANGED <<userKey, bits, ref, rk, phase>>

(* the loop ends; round key 1 is the first to be transformed              *)
InvertDone ==
  /\ phase = "invert" /\ step >= 4 * rounds - step
  /\ step' = 1 /\ phase' = "transform"
  /\ UNCHANGED <<userKey, bits, ref, rk, dk>>

Transform ==
  /\ phase = "transform"
  /\ dk' = [k \in DOMAIN dk |-> IF k \div 4 = step THEN Transformed(dk[k]) ELSE dk[k]]
  /\ step' = step + 1
  /\ phase' = IF step + 1 < rounds THEN "transform" ELSE "ready"
  /\ UNCHANGED <<userKey, bits, ref, rk>>

KeyNext == ReferenceWord \/ SetEncryptKey \/ Expand \/ SetDecryptKey \/ Invert
             \/ InvertDone \/ Transform

------------------------------------------------------------------------------
SwappedWord(w) == WordFrom([k \in 0..3 |-> ByteOf(w, 3 - k)], LittleEndian)

(* The words of both schedules are the same, except that one packs the     *)
(* first byte of the key lowest and the other highest.  The loops that     *)
(* return from their middle write the words of all round keys and none     *)
(* after them, which rd_key has no room for at 256 bits.                   *)
SchedulesAgree ==
  /\ DOMAIN rk \subseteq DOMAIN ref
  /\ phase \notin {"reference", "expand"} => DOMAIN rk = 0..(Words - 1)
  /\ \A k \in DOMAIN rk : rk[k] = SwappedWord(ref[k])

(* The decryption schedule is that of FIPS 197's equivalent inverse        *)
(* cipher: round key r is that of round (rounds - r), whose columns are    *)
(* mixed backwards except in the first and the last one.                   *)
DecryptionSchedule ==
  phase = "ready" =>
    \A r \in 0..rounds :
      LET given == RoundKeyOf(ref, rounds - r)
      IN RoundKeyOf([k \in DOMAIN dk |-> SwappedWord(dk[k])], r)
           = IF r \in {0, rounds} THEN given ELSE aes_mix_columns_dec(given)
=============================================================================
