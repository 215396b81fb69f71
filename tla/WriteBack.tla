----------------------------- MODULE WriteBack -----------------------------
(***************************************************************************)
(* crypto_unit/write_back.sv: packs results into a write buffer as wide as *)
(* one word of every lane and offers the buffer to the lanes when it is    *)
(* full or the request ends.  WriteBackClock is one clock edge; rv, req    *)
(* and res are the result handed over by the execution units, gnt is       *)
(* vrf_rdy_s, the conjunction of the grants of all the lanes.              *)
(*                                                                         *)
(* The buffer is a function on the bytes whose enable is set: a byte whose *)
(* enable is clear is never observed before it is written again.  Shuffled *)
(* and unshuffled copies are assigned together and are one variable here.  *)
(***************************************************************************)
EXTENDS CryptoTypes

VARIABLES
  wbWritten,  (* result_bytes_written_q                                    *)
  wbIdx,      (* curr_result_byte_idx_q                                    *)
  wbBuff,     (* write buffer and byte enables                             *)
  wbDirty,    (* dirty_wr_buff_q                                           *)
  vrfValid,   (* vrf_vld_q = crypto_result_req_o of every lane             *)
  vrfId,      (* vrf_id_q                                                  *)
  vrfAddr,    (* vrf_addr_q, counted from the first word of vd             *)
  wbDone      (* wb_done_q                                                 *)

wbVars ==
  <<wbWritten, wbIdx, wbBuff, wbDirty, vrfValid, vrfId, vrfAddr, wbDone>>

WriteBackInit ==
  /\ wbWritten = 0 /\ wbIdx = 0
  /\ wbBuff = [b \in {} |-> NoTag] /\ wbDirty = FALSE
  /\ vrfValid = FALSE /\ vrfId = 0 /\ vrfAddr = 0
  /\ wbDone = FALSE

(* wb_en_s, and the request still has bytes to write                       *)
WriteBackEn(rv, req, gnt) ==
  /\ rv
  /\ vrfValid => gnt
  /\ wbWritten # TotalBytes(req)

(* get_byte_idx: write_idx_lo_s                                            *)
WriteLo(req) == (VstartByte(req) + wbWritten + wbIdx) % OperandBytes

(* write_idx_hi_s: the end of the result, or of the write buffer           *)
WriteHi(req) ==
  LET end == WriteLo(req) + (ArgBytes(req) - wbIdx)
  IN IF end <= OperandBytes THEN end ELSE OperandBytes

AssignedBytes(req) == WriteHi(req) - WriteLo(req)

(* wb_ready_o: the last byte of the result goes into the buffer            *)
WbReady(rv, req, gnt) ==
  WriteBackEn(rv, req, gnt) /\ wbIdx + AssignedBytes(req) = ArgBytes(req)

(* get_vrf_address: vaddr(vd) is word 0                                    *)
VrfAddress(req) ==
  (req.vstart + wbWritten \div req.vsew) \div ElemsPerOperand(req)

(* Mutant: a clean buffer keeps the bytes of the last write.               *)
BuffAfter_Stale(req, res) ==
  LET new == WriteLo(req) .. WriteHi(req) - 1
  IN [b \in new \cup DOMAIN wbBuff |->
        IF b \in new THEN res[b - WriteLo(req) + wbIdx] ELSE wbBuff[b]]

(* The buffer after the assignment; a clean buffer keeps nothing.          *)
BuffAfter(req, res) ==
  LET new  == WriteLo(req) .. WriteHi(req) - 1
      kept == IF wbDirty THEN DOMAIN wbBuff ELSE {}
  IN [b \in new \cup kept |->
        IF b \in new THEN res[b - WriteLo(req) + wbIdx] ELSE wbBuff[b]]

(* Mutant: the last element group is not waited for.                       *)
LastBytes_OneGroupEarly(req) ==
  wbWritten + AssignedBytes(req) >= TotalBytes(req) - ArgBytes(req)

(* all result bytes of the request are in the buffer, or written           *)
LastBytes(req) == wbWritten + AssignedBytes(req) = TotalBytes(req)

(* the buffer goes to the lanes: it is full, or the request is complete    *)
Flush(req) == LastBytes(req) \/ WriteHi(req) = OperandBytes

(* A result, or what fits of it, is assigned.                              *)
AssignResult(rv, req, res, gnt) ==
  /\ WriteBackEn(rv, req, gnt)
  /\ wbBuff' = BuffAfter(req, res)
  /\ wbWritten' = IF LastBytes(req) THEN 0
                  ELSE (wbWritten + AssignedBytes(req)) % MAXVL
  /\ wbIdx' = IF WbReady(rv, req, gnt) THEN 0 ELSE wbIdx + AssignedBytes(req)
  /\ wbDirty' = ~Flush(req)
  /\ vrfValid' = Flush(req)
  /\ vrfId' = IF Flush(req) THEN req.id ELSE vrfId
  /\ vrfAddr' = IF Flush(req) THEN VrfAddress(req) ELSE vrfAddr
  /\ wbDone' = LastBytes(req)

(* Mutant: a granted write is not withdrawn.                               *)
NoAssign_KeepsValid(rv, req, gnt) ==
  /\ ~WriteBackEn(rv, req, gnt)
  /\ vrfValid' = vrfValid
  /\ wbDone' = FALSE
  /\ UNCHANGED <<wbWritten, wbIdx, wbBuff, wbDirty, vrfId, vrfAddr>>

(* No result to assign: only the handshake with the lanes can happen.      *)
NoAssign(rv, req, gnt) ==
  /\ ~WriteBackEn(rv, req, gnt)
  /\ vrfValid' = (vrfValid /\ ~gnt)
  /\ wbDone' = FALSE
  /\ UNCHANGED <<wbWritten, wbIdx, wbBuff, wbDirty, vrfId, vrfAddr>>

WriteBackClock(rv, req, res, gnt) ==
  AssignResult(rv, req, res, gnt) \/ NoAssign(rv, req, gnt)

WriteBackTypeOK ==
  /\ wbWritten \in 0 .. MAXVL - 1
  /\ wbIdx \in 0 .. CryptoArgWidthBytes - 1
  /\ DOMAIN wbBuff \subseteq 0 .. OperandBytes - 1
  /\ \A b \in DOMAIN wbBuff : wbBuff[b] \in Tag
  /\ wbDirty \in BOOLEAN
  /\ vrfValid \in BOOLEAN
  /\ vrfId \in Nat
  /\ vrfAddr \in Nat
  /\ wbDone \in BOOLEAN

=============================================================================
