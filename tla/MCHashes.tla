------------------------------ MODULE MCHashes ------------------------------
(* Instances of Sha2Rounds, Sha2Words and Sm3 for TLC.  The rounds of SHA-2 *)
(* run on words of three bits, with functions that are as unlike each other *)
(* as three bits allow; those functions, and SM3, run on words of the width *)
(* they have.  The three parts share nothing and are not interleaved.       *)
EXTENDS Sha2Rounds, Sha2Words, Sm3

(* "abc", and messages that end on both sides of a block and of the room    *)
(* for the length, with and without a whole block before                    *)
BitsOf(n) == {b \in 0..7 : (n \div 2 ^ b) % 2 = 1}
Message(n) == [k \in 1..n |-> BitsOf((37 * k + 11) % 256)]
MCInputs == {<<BitsOf(97), BitsOf(98), BitsOf(99)>>}
              \cup {Message(n) : n \in {0, 55, 56, 64, 120}}

Word3 == 0..7
Plus3(x, y) == (x + y) % 8
Rot3(x, n) == (x * 2 ^ n + (x \div 2 ^ (3 - n))) % 8
Sum0(x) == Rot3(x, 1)
Sum1(x) == 7 - Rot3(x, 2)
Sigma0(x) == (x \div 2 + 3 * x) % 8
Sigma1(x) == (5 * x + 1) % 8
Choose3(x, y, z) == IF x % 2 = 1 THEN y ELSE z
Majority3(x, y, z) == IF x = y \/ x = z THEN x ELSE y
Constants == [i \in 0..(Rounds - 1) |-> (i * i + i \div 5) % 8]
Blocks == {[i \in 0..15 |-> (i * seed + seed \div 3) % 8] : seed \in 0..3}
Chaining == {[i \in 0..7 |-> i], [i \in 0..7 |-> (5 * i * i + 2) % 8]}

(* one initial state of the rounds stands by while another part runs        *)
StandsBy == form = "scalar" /\ t = 0 /\ nw = 16 /\ m[1] = 0 /\ hash[0] = 0
WordsIdle == word = {} /\ Width = 32

MCInit == Init /\ WordsInit /\ Sm3Init /\ (Width = 64 => StandsBy)

OnWords == /\ StandsBy /\ s = <<>>
           /\ WordsNext /\ UNCHANGED <<vars, sm3vars>>

OnBlocks == /\ WordsIdle /\ s = <<>>
            /\ Next /\ UNCHANGED <<word, Width, sm3vars>>

OnSm3 == /\ WordsIdle /\ StandsBy
         /\ Sm3Next /\ UNCHANGED <<vars, word, Width>>

MCNext == OnWords \/ OnBlocks \/ OnSm3
MCSpec == MCInit /\ [][MCNext]_<<vars, word, Width, sm3vars>>

(* The functions on words of sha256.c, sha512.c and of OpenSSL's macros     *)
(* are the standard's, and both ways of reading a big-endian word agree.    *)
WordsAreStandard == SameFunctions /\ SameByteOrder
=============================================================================
