------------------------------- MODULE Digest -------------------------------
(***************************************************************************)
(* What a hash function of the SHA-2 family promises: whatever the pieces  *)
(* in which a message arrives, what is hashed is the message with its      *)
(* padding, block by block (FIPS 180-4, 5.1).  The compression function is *)
(* left out: a digest stands for the blocks that went into it and the      *)
(* order in which its words come out.                                      *)
(***************************************************************************)
EXTENDS Powers, Sequences

CONSTANTS
  B,         \* bytes in a block
  L,         \* bytes of the length field
  ByteBits,  \* bits in a byte
  MaxLen     \* bound of the model: bytes in a message

VARIABLES length, result

(* A byte is a byte of the message, known by its place, or a value.        *)
DataByte(i) == <<"data", i>>
Value(v) == <<"value", v>>
Zeros(n) == [i \in 1..n |-> Value(0)]
Feed(from, n) == [i \in 1..n |-> DataByte(from + i)]

(* the v-th number, most significant byte first                            *)
BigEndian(v, n) == [i \in 1..n |-> Value((v \div Pow2[ByteBits * (n - i)]) % Pow2[ByteBits])]

Blocks(s) == [k \in 1..(Len(s) \div B) |-> SubSeq(s, (k - 1) * B + 1, k * B)]

(* A one bit, as few zeros as complete a block, the length in bits.        *)
Padded(n) == Blocks(Feed(0, n) \o <<Value(Pow2[ByteBits - 1])>>
                      \o Zeros((B - L - n - 1) % B) \o BigEndian(n * ByteBits, L))

(* The digest of n bytes, its words in order                               *)
Digested(n) == <<Padded(n), [i \in 0..7 |-> i]>>

Init == length = 0 /\ result = << >>

Absorb == \E n \in 0..(MaxLen - length) : length' = length + n /\ UNCHANGED result
Finish == result = << >> /\ result' = Digested(length) /\ UNCHANGED length
Hash == \E n \in 0..MaxLen : length' = n /\ result' = Digested(n)
Restart == length' = 0 /\ result' = << >>

Next == (result = << >> /\ Absorb) \/ Finish \/ Hash \/ Restart

Spec == Init /\ [][Next]_<<length, result>>
=============================================================================
