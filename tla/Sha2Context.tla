---------------------------- MODULE Sha2Context ----------------------------
(***************************************************************************)
(* How sha256.c and sha512.c cut a message into blocks: in one call        *)
(* (sha256_hash, sha512_hash and their vector forms) and piece by piece    *)
(* (SHA256_Init/Update/Final over crypto_md32_*, SHA512_Init/Update/Final, *)
(* taken from OpenSSL).  The block size, the width of the length and of a  *)
(* byte are parameters, so that counters carry in short messages.          *)
(***************************************************************************)
EXTENDS Powers, Sequences

CONSTANTS B, L, ByteBits, MaxLen

ASSUME BlockAssumption ==
  /\ B \in Nat /\ L \in Nat \ {0} /\ ByteBits \in Nat \ {0} /\ MaxLen \in Nat
  /\ L < B /\ L % 2 = 0

VARIABLES
  impl,      \* "sha256" or "sha512": which of the two contexts
  data, num, Nh, Nl,  \* the context
  blocks,    \* what the block function has been given: stands for h
  order,     \* the words of the chaining value, in the order of the array
  open,      \* the context takes data
  length,    \* ghost: bytes of the message so far
  result     \* ghost: the blocks of the last digest, and the order of its words

vars == <<impl, data, num, Nh, Nl, blocks, order, open, length, result>>

D == INSTANCE Digest

WordBits == (L \div 2) * ByteBits

(* memcpy of s to place n of the buffer (from 0)                           *)
Overlay(buf, n, s) ==
  [i \in 1..B |-> IF i - n \in 1..Len(s) THEN s[i - n] ELSE buf[i]]

Data(from, n) == [i \in 1..n |-> D!DataByte(from + i)]
Whole(from, n) == [k \in 1..n |-> Data(from + (k - 1) * B, B)]
(* what an uninitialized buffer holds: no byte of a message                *)
Unset == [i \in 1..B |-> <<"unset", i>>]
One == D!Value(Pow2[ByteBits - 1])

(* the indices of the chaining words in the order the loop stores them     *)
Ordered == [i \in 0..7 |-> i]
VecOrder == [i \in 0..7 |-> <<5, 4, 1, 0, 7, 6, 3, 2>>[i + 1]]

(* Mutant: the halves are taken in the order of the array.                 *)
Reorder_Halves(h) == [i \in 0..7 |-> h[<<3, 2, 1, 0, 7, 6, 5, 4>>[i + 1]]]

(* reorder hash words to match scalar digest ordering                      *)
Reorder(h) == [i \in 0..7 |-> h[<<3, 2, 7, 6, 1, 0, 5, 4>>[i + 1]]]

------------------------------------------------------------------------------
(* In one call                                                             *)

(* the bytes of the length that are not above its highest one              *)
LengthBytes(bits) == {i \in 1..L : bits >= Pow2[ByteBits * (i - 1)]}

(* the last block: zeros from n to the length                              *)
LastBlock(buf, n, bits) ==
  LET k == IF LengthBytes(bits) = {} THEN 0
           ELSE CHOOSE i \in LengthBytes(bits) : \A j \in LengthBytes(bits) : j <= i
      cleared == [i \in 1..B |-> IF i \in (n + 1)..(B - k) THEN D!Value(0) ELSE buf[i]]
  IN Overlay(cleared, B - k, D!BigEndian(bits, k))

(* Mutant: a block with room for the length is not filled.                 *)
Spills_Early(n) == n >= B - L

Spills(n) == n > B - L

(* the padding of the rest of n bytes that follow `from`                   *)
LastBlocks(from, n, bits) ==
  LET bp == Overlay(Unset, 0, Data(from, n) \o <<One>>)
      spilled == Overlay(bp, n + 1, D!Zeros(B - (n + 1)))
  IN IF Spills(n + 1) THEN <<spilled, LastBlock(spilled, 0, bits)>>
     ELSE <<LastBlock(bp, n + 1, bits)>>

sha_hash(n) ==
  Whole(0, n \div B) \o LastBlocks(n - (n % B), n % B, n * ByteBits)

------------------------------------------------------------------------------
(* Piece by piece                                                          *)

Init ==
  /\ impl \in {"sha256", "sha512"}
  /\ data = Unset /\ num = 0 /\ Nh = 0 /\ Nl = 0
  /\ blocks = << >> /\ order = Ordered /\ open = FALSE
  /\ length = 0 /\ result = << >>

(* SHA256_Init clears the buffer, SHA512_Init leaves what is in it         *)
ShaInit ==
  /\ data' = IF impl = "sha256" THEN D!Zeros(B) ELSE data
  /\ num' = 0 /\ Nh' = 0 /\ Nl' = 0
  /\ blocks' = << >> /\ order' = Ordered /\ open' = TRUE
  /\ length' = 0 /\ result' = << >>
  /\ UNCHANGED impl

(* Mutant: the carry of the low word is lost.                              *)
Count_NoCarry(n) ==
  /\ Nl' = (Nl + n * ByteBits) % Pow2[WordBits]
  /\ Nh' = (Nh + (n * ByteBits) \div Pow2[WordBits]) % Pow2[WordBits]

Count(n) ==
  LET l == (Nl + n * ByteBits) % Pow2[WordBits]
  IN /\ Nl' = l
     /\ Nh' = (Nh + (IF l < Nl THEN 1 ELSE 0)
                  + (n * ByteBits) \div Pow2[WordBits]) % Pow2[WordBits]

(* Mutant: the piece is copied to the start of the buffer.                 *)
Keep_AtStart(n) ==
  /\ data' = Overlay(data, 0, Data(length, n))
  /\ num' = num + n
  /\ UNCHANGED blocks

(* n bytes that do not complete the partial block                          *)
Keep(n) ==
  /\ data' = Overlay(data, num, Data(length, n))
  /\ num' = num + n
  /\ UNCHANGED blocks

(* Mutant: the buffer keeps the block that was hashed.                     *)
Emptied_Kept == data

(* "Keep |data| zeroed when unused."                                       *)
Emptied == IF impl = "sha256" /\ num # 0 THEN D!Zeros(B) ELSE data

(* Complete the partial block, hash whole blocks, keep the rest.  SHA-512  *)
(* copies whole blocks into its buffer first when they are not aligned.    *)
Consume(n, aligned) ==
  LET head == IF num = 0 THEN 0 ELSE B - num
      full == IF num = 0 THEN << >>
              ELSE <<Overlay(data, num, Data(length, head))>>
      whole == (n - head) \div B
      tail == (n - head) % B
      copied == IF impl = "sha512" /\ ~aligned /\ whole > 0
                  THEN Data(length + head + (whole - 1) * B, B)
                ELSE IF impl = "sha512" /\ num # 0 THEN full[1]
                ELSE Emptied
  IN /\ blocks' = blocks \o full \o Whole(length + head, whole)
     /\ num' = tail
     /\ data' = Overlay(copied, 0, Data(length + head + whole * B, tail))

(* Mutant: a piece that exactly completes the block is kept.               *)
FitsWithRoom_Inclusive(n) == num # 0 /\ num + n <= B

FitsWithRoom(n) == num # 0 /\ num + n < B

Update(n, aligned) ==
  /\ open /\ length + n <= MaxLen
  /\ IF n = 0 THEN UNCHANGED <<data, num, Nh, Nl, blocks>>
     ELSE Count(n) /\ IF FitsWithRoom(n) THEN Keep(n) ELSE Consume(n, aligned)
  /\ length' = length + n
  /\ UNCHANGED <<impl, order, open, result>>

(* One bit, zeros, the length in two words; a block of its own for the     *)
(* length if there is no room.  crypto_md32_final empties the context.     *)
Final ==
  LET marked == Overlay(data, num, <<One>>)
      spill == Spills(num + 1)
      n == IF spill THEN 0 ELSE num + 1
      filled == IF spill THEN Overlay(marked, num + 1, D!Zeros(B - (num + 1)))
                ELSE marked
      last == Overlay(Overlay(filled, n, D!Zeros(B - L - n)), B - L,
                      D!BigEndian(Nh, L \div 2) \o D!BigEndian(Nl, L \div 2))
  IN /\ open
     /\ blocks' = blocks \o (IF spill THEN <<filled>> ELSE << >>) \o <<last>>
     /\ result' = <<blocks', order>>
     /\ IF impl = "sha256" THEN num' = 0 /\ data' = D!Zeros(B)
        ELSE data' = last /\ UNCHANGED num
     /\ open' = FALSE
     /\ UNCHANGED <<impl, Nh, Nl, order, length>>

(* sha256_hash, sha512_hash; the vector forms keep the chaining value in   *)
(* the order of the instructions                                           *)
Hash(n, vec) ==
  /\ ~open
  /\ blocks' = sha_hash(n) /\ length' = n
  /\ order' = IF vec THEN Reorder(VecOrder) ELSE Ordered
  /\ result' = <<blocks', order'>>
  /\ UNCHANGED <<impl, data, num, Nh, Nl, open>>

Next ==
  \/ ShaInit
  \/ \E n \in 0..MaxLen, aligned \in BOOLEAN : Update(n, aligned)
  \/ Final
  \/ \E n \in 0..MaxLen, vec \in BOOLEAN : Hash(n, vec)

Spec == Init /\ [][Next]_vars

------------------------------------------------------------------------------
(* However the message was cut, its whole blocks have gone to the block    *)
(* function, each once and in order, and num bytes are left.               *)
BytesAccounted ==
  open => /\ num \in 0..(B - 1)
          /\ length = B * Len(blocks) + num
          /\ blocks = Whole(0, Len(blocks))

(* The buffer holds the bytes that are left.                               *)
PartialBlockKept ==
  open => \A i \in 1..num : data[i] = D!DataByte(B * Len(blocks) + i)

(* The two words hold the length in bits.                                  *)
LengthCounted ==
  open => Nh * Pow2[WordBits] + Nl = (length * ByteBits) % Pow2[2 * WordBits]

(* sha256.c:515: "Keep |data| zeroed when unused."                         *)
UnusedZeroed ==
  impl = "sha256" /\ open => \A i \in (num + 1)..B : data[i] = D!Value(0)

(* All forms hash the padded message, the standard's and so the same, and  *)
(* the digest comes out in the order H0 .. H7, from the vector forms too.  *)
DigestSpec == D!Spec
=============================================================================
