----------------------------- MODULE PeRequests -----------------------------
(***************************************************************************)
(* How a request of the sequencer becomes an entry of the crypto unit's PE *)
(* FIFO: the issue side of ara_sequencer.sv (ids, running instructions and *)
(* the credit counter of the crypto unit) and the port of crypto_unit.sv,  *)
(* which tells new broadcasts from held ones.  PortClock and               *)
(* SequencerClock are the two halves of one clock edge.                    *)
(*                                                                         *)
(* The response register vinsnDone is read here and driven by the modules  *)
(* that use this one.                                                      *)
(***************************************************************************)
EXTENDS CryptoTypes, FifoV3, Sequences

CONSTANTS
  Kinds,     (* the instructions: records [op, vsew, vl, vstart]           *)
  VInsnIds,  (* ids the sequencer hands out, NrVInsn of them               *)
  MaxReq     (* bound: crypto instructions in a behaviour                  *)

Numbered(k, seq, id) ==
  [seq |-> seq, id |-> id, op |-> k.op, vsew |-> k.vsew,
   vl |-> k.vl, vstart |-> k.vstart]

ASSUME PortAssumption ==
  /\ VInsnIds \subseteq Nat
  /\ MaxReq \in Nat
  /\ \A k \in Kinds : LegalReq(Numbered(k, 1, 0))

VARIABLES
  peValid,    (* pe_req_valid_o of the sequencer                           *)
  peCrypto,   (* pe_req_o.vfu = VFU_CryptoUnit                             *)
  peReq,      (* the fields of pe_req_o the unit keeps                     *)
  peIdQ,      (* pe_id_q                                                   *)
  peValidQ,   (* pe_req_valid_q                                            *)
  vinsnDone,  (* pe_resp_o.vinsn_done                                      *)
  issued,     (* history: the crypto instructions issued so far            *)
  running,    (* the crypto instruction each id stands for, or 0           *)
  queueCnt    (* insn_queue_cnt_q[VFU_CryptoUnit]                          *)

seqVars  == <<peValid, peCrypto, peReq, issued, running, queueCnt>>
portVars == <<fifoVars, seqVars, peIdQ, peValidQ, vinsnDone>>

(* all-zero request register: never valid                                  *)
ResetReq == [seq |-> 0, id |-> 0, op |-> "VAESK1", vsew |-> EW32,
             vl |-> 0, vstart |-> 0]

PortInit ==
  /\ FifoInit(ResetReq)
  /\ peValid = FALSE /\ peCrypto = FALSE /\ peReq = ResetReq
  /\ peIdQ = 0 /\ peValidQ = FALSE
  /\ vinsnDone = {}
  /\ issued = <<>>
  /\ running = [i \in VInsnIds |-> 0]
  /\ queueCnt = 0

-----------------------------------------------------------------------------
(* The port of the unit.                                                   *)

(* Mutants of PeFifoPush: a held broadcast is pushed in every cycle; only  *)
(* the rising edge of valid is looked for.                                 *)
PeFifoPush_EveryCycle == peValid /\ peCrypto
PeFifoPush_EdgeOnly == peValid /\ peCrypto /\ ~peValidQ

(* pe_fifo_push_s: a rising edge of valid, or a new id under a high valid  *)
PeFifoPush == peValid /\ peCrypto /\ (~peValidQ \/ peReq.id # peIdQ)

HeadValid == ~FifoEmpty(PeFifoPush)
HeadReq   == FifoHead(PeFifoPush, peReq)

PortClock(pop) ==
  /\ FifoClock(PeFifoPush, peReq, pop)
  /\ peIdQ' = peReq.id
  /\ peValidQ' = peValid

-----------------------------------------------------------------------------
(* The sequencer.  An id is running from its issue to its done bit.  An    *)
(* instruction of another unit may end as soon as its broadcast has, so    *)
(* its id may come back with the broadcast after the next.                 *)

(* Mutant: the running instructions are not looked at.                     *)
FreeIds_NotRunning == {i \in VInsnIds : ~(peValid /\ i = peReq.id)}

FreeIds == {i \in VInsnIds : running[i] = 0 /\ ~(peValid /\ i = peReq.id)}

(* pe_vinsn_running_d &= ~vinsn_done                                       *)
Retire == [i \in VInsnIds |-> IF i \in vinsnDone THEN 0 ELSE running[i]]

(* insn_queue_done[VFU_CryptoUnit]                                         *)
DonePulse == IF vinsnDone = {} THEN 0 ELSE 1

(* Mutant: one instruction too many.                                       *)
QueueIssue_OneMore == queueCnt <= CryptoInsnQueueDepth

(* vinsn_queue_issue: the counter and the gold ticket together let an      *)
(* instruction through while fewer than a queue's worth are in flight.     *)
QueueIssue == queueCnt < CryptoInsnQueueDepth

IssueCrypto(k, i) ==
  LET req == Numbered(k, Len(issued) + 1, i)
  IN /\ Len(issued) < MaxReq
     /\ QueueIssue
     /\ i \in FreeIds
     /\ peValid' = TRUE /\ peCrypto' = TRUE /\ peReq' = req
     /\ issued' = Append(issued, req)
     /\ running' = [Retire EXCEPT ![i] = req.seq]
     /\ queueCnt' = queueCnt + 1 - DonePulse

(* a request for another unit                                              *)
IssueOther(i) ==
  /\ i \in FreeIds
  /\ peValid' = TRUE /\ peCrypto' = FALSE
  /\ peReq' = [ResetReq EXCEPT !.id = i]
  /\ running' = Retire
  /\ queueCnt' = queueCnt - DonePulse
  /\ UNCHANGED issued

(* the lanes are not all ready: the broadcast is maintained                *)
HoldRequest ==
  /\ peValid
  /\ running' = Retire
  /\ queueCnt' = queueCnt - DonePulse
  /\ UNCHANGED <<peValid, peCrypto, peReq, issued>>

NoRequest ==
  /\ peValid' = FALSE /\ peCrypto' = FALSE /\ peReq' = ResetReq
  /\ running' = Retire
  /\ queueCnt' = queueCnt - DonePulse
  /\ UNCHANGED issued

SequencerClock ==
  \/ \E k \in Kinds, i \in VInsnIds : IssueCrypto(k, i)
  \/ \E i \in VInsnIds : IssueOther(i)
  \/ HoldRequest
  \/ NoRequest

-----------------------------------------------------------------------------

PortTypeOK ==
  /\ fifoMem \in [0 .. CryptoInsnQueueDepth - 1 -> CryptoReq]
  /\ fifoRd \in 0 .. CryptoInsnQueueDepth - 1
  /\ fifoCnt \in 0 .. CryptoInsnQueueDepth
  /\ peValid \in BOOLEAN /\ peCrypto \in BOOLEAN /\ peReq \in CryptoReq
  /\ peIdQ \in Nat /\ peValidQ \in BOOLEAN
  /\ vinsnDone \subseteq Nat
  /\ issued \in Seq(CryptoReq)
  /\ running \in [VInsnIds -> Nat]
  /\ queueCnt \in 0 .. CryptoInsnQueueDepth

=============================================================================
