--------------------------- MODULE ExecutionUnits ---------------------------
(***************************************************************************)
(* crypto_unit/execution_units.sv: the two-state machine between the       *)
(* argument buffers and the write back stage, with one result register.    *)
(* Every functional unit (AES, SHA-2, GCM, SM3, SM4) is combinational, the *)
(* GHASH multipliers included (mult_ghash.sv: done_o = valid_i), so an     *)
(* accepted argument always leaves a valid result.                         *)
(*                                                                         *)
(* A result byte carries the tag of the byte it replaces: the crypto       *)
(* operations are element-group in, element-group out, at the same place.  *)
(***************************************************************************)
EXTENDS CryptoTypes

VARIABLES
  execState,    (* state_q: "IDLE" or "EXEC"                               *)
  resultValid,  (* result_valid_q                                          *)
  execReq,      (* pe_crypto_req_q = pe_crypto_req_wb_q of crypto_unit.sv  *)
  result        (* crypto_result_q, as tags                                *)

execVars == <<execState, resultValid, execReq, result>>

ExecInit(reset) ==
  /\ execState = "IDLE"
  /\ resultValid = FALSE
  /\ execReq = reset
  /\ result = [i \in 0 .. CryptoArgWidthBytes - 1 |-> NoTag]

(* the operand at whose place the result goes                              *)
DataOperand(op) == IF "VD" \in OperandActive(op) THEN "VD" ELSE "VS2"

(* arg_ready_o: IDLE, or the held result leaves in this cycle              *)
ArgReady(argValid, wbReady) ==
  argValid /\ (execState = "IDLE" \/ (resultValid /\ wbReady))

AcceptArg(argValid, req, arg, wbReady) ==
  /\ ArgReady(argValid, wbReady)
  /\ execState' = "EXEC"
  /\ resultValid' = TRUE
  /\ execReq' = req
  /\ result' = arg[DataOperand(req.op)]

(* EXEC with the result taken and no new argument                          *)
ReleaseResult(argValid, wbReady) ==
  /\ execState = "EXEC" /\ resultValid /\ wbReady /\ ~argValid
  /\ execState' = "IDLE"
  /\ resultValid' = FALSE
  /\ UNCHANGED <<execReq, result>>

HoldExec(argValid, wbReady) ==
  /\ \/ execState = "IDLE" /\ ~argValid
     \/ execState = "EXEC" /\ ~(resultValid /\ wbReady)
  /\ UNCHANGED execVars

ExecClock(argValid, req, arg, wbReady) ==
  \/ AcceptArg(argValid, req, arg, wbReady)
  \/ ReleaseResult(argValid, wbReady)
  \/ HoldExec(argValid, wbReady)

ExecTypeOK ==
  /\ execState \in {"IDLE", "EXEC"}
  /\ resultValid \in BOOLEAN
  /\ resultValid <=> execState = "EXEC"
  /\ execReq \in CryptoReq
  /\ result \in [0 .. CryptoArgWidthBytes - 1 -> Tag]

=============================================================================
