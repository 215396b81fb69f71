---------------------------- MODULE MCCryptoUnit ----------------------------
(***************************************************************************)
(* Instances of CryptoUnit for TLC.  The unit is scaled down by 16: one    *)
(* model byte stands for 16, so that EW32 operations have element groups   *)
(* of one byte, VSHA2 at EW64 and SM3 of two, and an operand word is two.  *)
(***************************************************************************)
EXTENDS CryptoUnit

Kind(op, vsew, vl, vstart) ==
  [op |-> op, vsew |-> vsew, vl |-> vl, vstart |-> vstart]

(* one operation of each operand pattern; vectors that end in the middle   *)
(* of an operand word and vectors that do not; groups of half a word and   *)
(* of a whole one, enough of them to fill every stage of the unit          *)
MCKinds ==
  {Kind("VAESK1", EW32, 3, 0), Kind("VGHSH", EW32, 2, 0),
   Kind("VAESEM_VS", EW32, 3, 0), Kind("VSM3ME", EW32, 6, 0),
   Kind("VSHA2MS", EW64, 3, 0), Kind("VSM4R_VV", EW32, 1, 1)}

(* the slowest and the one with the most state                             *)
LongKinds ==
  {Kind("VSM4R_VS", EW32, 3, 0), Kind("VSHA2MS", EW64, 3, 0)}

(* two words of one operand for one of the other, an element group of a    *)
(* whole word, and an operation that ends with its first group             *)
UnitKinds ==
  {Kind("VSM4R_VS", EW32, 3, 0), Kind("VSM3ME", EW32, 2, 0),
   Kind("VSM4R_VV", EW32, 1, 1)}

(* a register group of LMUL 8, full: vl * vsew = MAXVL                     *)
FullGroupKinds == {Kind("VSHA2MS", EW64, 4, 0), Kind("VGHSH", EW32, 2, 0)}

(* a vector-scalar operation restarted in the middle of a word             *)
ScalarVstartKinds == {Kind("VAESEM_VS", EW32, 1, 1), Kind("VGHSH", EW32, 2, 0)}

(* an operation restarted in the middle of a word                          *)
MidWordKinds == {Kind("VGHSH", EW32, 2, 1)}

(* with CryptoEGS_4 = 2 and CryptoEGS_8 = 4, SM3 groups of two words       *)
NarrowKinds == {Kind("VSM3ME", EW32, 4, 0), Kind("VGHSH", EW32, 2, 0)}

=============================================================================
