---------------------------- MODULE CryptoTypes ----------------------------
(***************************************************************************)
(* The crypto part of ara_pkg.sv: the operations the crypto unit executes, *)
(* the operands each one reads and the byte arithmetic its three stages    *)
(* share.  A byte of a vector register group is a "tag" <<seq, pos>>: byte *)
(* pos (counted from element 0 of the group) belonging to request seq.  No *)
(* property here depends on the value of a byte, only on where it came     *)
(* from and where it goes.                                                 *)
(***************************************************************************)
EXTENDS Integers

CONSTANTS
  NrLanes,      (* lanes; one 64-bit word of each makes one operand word   *)
  EW32,         (* bytes of a 32-bit element                               *)
  EW64,         (* bytes of a 64-bit element                               *)
  CryptoEGS_4,  (* elements of an element group, all but SM3               *)
  CryptoEGS_8,  (* elements of an SM3 element group                        *)
  MAXVL         (* bytes of the largest register group (VLEN/8 * LMUL 8)   *)

(* The real configuration is 4 lanes, 4, 8, 4, 8 and VLEN = 512.           *)
ASSUME CryptoAssumption ==
  /\ NrLanes \in Nat \ {0}
  /\ EW32 \in Nat \ {0} /\ EW64 = 2 * EW32
  /\ CryptoEGS_4 \in Nat \ {0} /\ CryptoEGS_8 = 2 * CryptoEGS_4
  /\ MAXVL \in Nat \ {0}

(* bytes of one operand word, gathered from (or spread over) all the lanes *)
OperandBytes == NrLanes * EW64

(* bytes of an argument buffer: EGW256/8                                   *)
CryptoArgWidthBytes == CryptoEGS_8 * EW32

VaesKey == {"VAESK1", "VAESK2"}
VaesVV  == {"VAESDF_VV", "VAESDM_VV", "VAESEF_VV", "VAESEM_VV"}
VaesVS  == {"VAESDF_VS", "VAESDM_VS", "VAESEF_VS", "VAESEM_VS", "VAESZ_VS"}
Vgcm    == {"VGMUL", "VGHSH"}
Vsha2   == {"VSHA2CH", "VSHA2CL", "VSHA2MS"}
Vsm4    == {"VSM4K", "VSM4R_VV", "VSM4R_VS"}
Vsm3    == {"VSM3ME", "VSM3C"}
CryptoOps == VaesKey \cup VaesVV \cup VaesVS \cup Vgcm \cup Vsha2
               \cup Vsm4 \cup Vsm3

Operands == {"VS2", "VD", "VS1"}

(* operand_active_s: the operands an operation reads                       *)
OperandActive(op) ==
  CASE op \in {"VAESK1", "VSM4K"}   -> {"VS2"}
    [] op = "VSM3ME"                -> {"VS2", "VS1"}
    [] op \in {"VGHSH"} \cup Vsha2  -> Operands
    [] OTHER                        -> {"VS2", "VD"}

(* the operations that latch scalar_op                                     *)
UsesScalar(op) == op \in VaesKey \cup {"VSM4K", "VSM3C"}

(* vector_scalar_op_s: vs2 is one element group, used for every group      *)
VectorScalar(req, o) == o = "VS2" /\ req.op \in VaesVS \cup {"VSM4R_VS"}

EGS(op) == IF op \in Vsm3 THEN CryptoEGS_8 ELSE CryptoEGS_4

(* pe_crypto_req_in_s.eg_len                                               *)
EgLen(req) == req.vl \div EGS(req.op)

(* arg_bytes_s and result_bytes_s: bytes of one element group              *)
ArgBytes(req) == EGS(req.op) * req.vsew

(* operand_bytes_total_s and result_bytes_total_s are $clog2(MAXVL) bits   *)
TotalBytes(req) == (ArgBytes(req) * EgLen(req)) % MAXVL

ElemsPerOperand(req) == OperandBytes \div req.vsew

(* byte of an operand word that vstart falls on                            *)
VstartByte(req) == (req.vstart % ElemsPerOperand(req)) * req.vsew

(* A request as the unit stores it.  vsew is in bytes; seq numbers the     *)
(* crypto requests in issue order and exists in the model only.            *)
CryptoReq ==
  [seq : Nat, id : Nat, op : CryptoOps, vsew : {EW32, EW64},
   vl : Nat, vstart : Nat]

(* What the dispatcher lets through: whole element groups, one of the      *)
(* element widths of the operation, a non-empty vector of at most VLMAX.   *)
LegalReq(req) ==
  /\ req \in CryptoReq
  /\ req.vl > 0 /\ req.vl % EGS(req.op) = 0
  /\ req.vstart % EGS(req.op) = 0
  /\ req.vsew = EW64 => req.op \in Vsha2
  /\ req.vl * req.vsew <= MAXVL

Tag == Nat \X Nat

(* Tag of a byte no request has written: the reset value of a register.    *)
NoTag == <<0, 0>>

(* Byte i of element group g of req, counted from element 0 of the group.  *)
GroupByte(req, g, i) == req.vstart * req.vsew + g * ArgBytes(req) + i

=============================================================================
