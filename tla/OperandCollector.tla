-------------------------- MODULE OperandCollector --------------------------
(***************************************************************************)
(* crypto_unit/operand_collector.sv: gathers the element groups of the     *)
(* request at the head of the PE FIFO from the three operand streams into  *)
(* one argument buffer per operand.  CollectorClock is one clock edge; its *)
(* parameters are the inputs of the module in that cycle:                  *)
(*   rv, req  pe_req_valid_i and pe_crypto_req_i                           *)
(*   valid    the operands whose word is valid in every lane               *)
(*   word     the unshuffled operand word of each operand, as tags         *)
(*   rdy      crypto_args_ready_i                                          *)
(***************************************************************************)
EXTENDS CryptoTypes

VARIABLES
  bytesRead,     (* operand_bytes_read_q                                   *)
  argIdx,        (* curr_arg_byte_idx_q                                    *)
  argFull,       (* arg_full_q                                             *)
  args,          (* args_q, as tags                                        *)
  argBuffValid,  (* arg_buff_valid_q = crypto_args_valid_o                 *)
  peReqQ,        (* pe_req_q = pe_crypto_req_o                             *)
  scalarQ        (* scalar_q: the request whose scalar is held             *)

collectorVars ==
  <<bytesRead, argIdx, argFull, args, argBuffValid, peReqQ, scalarQ>>

CollectorInit(reset) ==
  /\ bytesRead = [o \in Operands |-> 0]
  /\ argIdx = [o \in Operands |-> 0]
  /\ argFull = [o \in Operands |-> FALSE]
  /\ args = [o \in Operands |-> [i \in 0 .. CryptoArgWidthBytes - 1 |-> NoTag]]
  /\ argBuffValid = FALSE
  /\ peReqQ = reset
  /\ scalarQ = 0

(* pe_req_done_s: the operand has been read to its end                     *)
OperandDone(req, o) ==
  bytesRead[o] = IF VectorScalar(req, o) THEN ArgBytes(req) ELSE TotalBytes(req)

(* Mutant: one operand done is enough.                                     *)
PeReqAck_AnyDone(rv, req) ==
  rv /\ \E o \in OperandActive(req.op) : OperandDone(req, o)

(* pe_req_ack_o: every active operand is done, the FIFO head is consumed   *)
PeReqAck(rv, req) ==
  rv /\ \A o \in OperandActive(req.op) : OperandDone(req, o)

(* operand_logic_en_s: nothing is gathered while an argument buffer waits  *)
OperandLogicEn(rv, rdy) == rv /\ (argBuffValid => rdy)

(* A word of operand o is processed in this cycle.                         *)
Fills(rv, req, valid, rdy, o) ==
  /\ OperandLogicEn(rv, rdy)
  /\ ~argFull[o]
  /\ o \in OperandActive(req.op) /\ ~OperandDone(req, o)
  /\ o \in valid

(* Mutant: the request is taken to start with element 0.                   *)
OperandByteIdx_NoVstart(req, o) == bytesRead[o] % OperandBytes

(* curr_operand_byte_idx_s                                                 *)
OperandByteIdx(req, o) == (VstartByte(req) + bytesRead[o]) % OperandBytes

(* Mutant: the end of the argument is not looked at.                       *)
BytesTaken_WholeWord(req, o) == OperandBytes - OperandByteIdx(req, o)

(* arg_bytes_written: what is left of the word, or of the argument         *)
BytesTaken(req, o) ==
  LET left == OperandBytes - OperandByteIdx(req, o)
      room == ArgBytes(req) - argIdx[o]
  IN IF left <= room THEN left ELSE room

(* operand_bytes_read_d after a word has been processed                    *)
ReadAfter(req, o) == (bytesRead[o] + BytesTaken(req, o)) % MAXVL

(* Mutant: a word is given back as soon as an argument has been read.      *)
OperandPop_Always(rv, req, valid, rdy, o) == Fills(rv, req, valid, rdy, o)

(* crypto_operand_ready_o: the word is used up, or is the operand's last   *)
OperandPop(rv, req, valid, rdy, o) ==
  /\ Fills(rv, req, valid, rdy, o)
  /\ \/ OperandByteIdx(req, o) + BytesTaken(req, o) = OperandBytes
     \/ ReadAfter(req, o) = TotalBytes(req)
     \/ VectorScalar(req, o) /\ ReadAfter(req, o) = ArgBytes(req)

(* Mutant: a vector-scalar argument is dropped with the first group.       *)
ArgCleared_ScalarToo(rv, req, rdy, o) == rdy

(* The argument is dropped once taken; a vector-scalar one only when the   *)
(* whole request is acknowledged.                                          *)
ArgCleared(rv, req, rdy, o) ==
  IF VectorScalar(req, o)
  THEN OperandDone(req, o) /\ PeReqAck(rv, req)
  ELSE rdy

CollectorClock(rv, req, valid, word, rdy) ==
  LET fills(o) == Fills(rv, req, valid, rdy, o)
      lo(o)    == argIdx[o]
      hi(o)    == argIdx[o] + BytesTaken(req, o)
  IN /\ bytesRead' = [o \in Operands |->
          IF fills(o) THEN ReadAfter(req, o)
          ELSE IF OperandDone(req, o) /\ PeReqAck(rv, req) THEN 0
          ELSE bytesRead[o]]
     /\ argIdx' = [o \in Operands |->
          IF fills(o) THEN hi(o)
          ELSE IF ArgCleared(rv, req, rdy, o) THEN 0
          ELSE argIdx[o]]
     /\ argFull' = [o \in Operands |->
          \/ fills(o) /\ hi(o) = ArgBytes(req)
          \/ argFull[o] /\ ~ArgCleared(rv, req, rdy, o)]
     /\ args' = [o \in Operands |->
          IF fills(o)
          THEN [i \in 0 .. CryptoArgWidthBytes - 1 |->
                  IF i \in lo(o) .. hi(o) - 1
                  THEN word[o][OperandByteIdx(req, o) + (i - lo(o))]
                  ELSE args[o][i]]
          ELSE args[o]]
     /\ argBuffValid' = (rv /\ \A o \in OperandActive(req.op) : argFull'[o])
     /\ peReqQ' = req
     /\ scalarQ' = IF rv /\ UsesScalar(req.op) THEN req.seq ELSE scalarQ

CollectorTypeOK ==
  /\ bytesRead \in [Operands -> 0 .. MAXVL - 1]
  /\ argIdx \in [Operands -> 0 .. CryptoArgWidthBytes]
  /\ argFull \in [Operands -> BOOLEAN]
  /\ args \in [Operands -> [0 .. CryptoArgWidthBytes - 1 -> Tag]]
  /\ argBuffValid \in BOOLEAN
  /\ peReqQ \in CryptoReq
  /\ scalarQ \in Nat

=============================================================================
