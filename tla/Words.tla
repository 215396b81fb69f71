-------------------------------- MODULE Words --------------------------------
(* Words of w bits as the set of their one bits, bit 0 the least significant *)
(* one: what C's operators on unsigned integers do to them.                  *)
EXTENDS Integers, FiniteSets

Xor(x, y) == {b \in x \cup y : ~(b \in x /\ b \in y)}
ShiftR(x, n) == {b - n : b \in {c \in x : c >= n}}
ShiftL(x, n, w) == {b + n : b \in {c \in x : c + n < w}}
RotateR(x, n, w) == {(b - n) % w : b \in x}
RotateL(x, n, w) == {(b + n) % w : b \in x}

(* addition: bit b and the carry out of the bits below it                   *)
Carry(x, y, b) ==
  \E j \in x \cap y : j < b /\ \A k \in (j + 1)..(b - 1) : k \in x \cup y
Add(x, y, w) == {b \in 0..(w - 1) : ((b \in x) # (b \in y)) # Carry(x, y, b)}

(* a number of at most 31 bits, and a word of 32 from its halves            *)
BitsIn(m) == {b \in 0..30 : (m \div 2 ^ b) % 2 = 1}
Halves(hi, lo) == ShiftL(BitsIn(hi), 16, 32) \cup BitsIn(lo)

(* byte i of a word, counted from the least significant one                 *)
ByteOf(x, i) == {b - 8 * i : b \in {c \in x : c \div 8 = i}}
ByteLane(x, I) == {b \in x : b \div 8 \in I}

(* f itself; TLC, which has to compare it, keeps its values in a table      *)
Tabulated(f) == CHOOSE g \in {f} : g = f
=============================================================================
