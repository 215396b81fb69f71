----------------------------- MODULE CryptoUnit -----------------------------
(***************************************************************************)
(* crypto_unit.sv: the PE FIFO, the operand collector, the execution units *)
(* and the write back stage, clocked together, between the sequencer that  *)
(* broadcasts requests to it and the lanes that feed and drain it.         *)
(*                                                                         *)
(* Every step of Next is one rising clock edge.  The environment decides,  *)
(* cycle by cycle, which request the sequencer broadcasts next, which      *)
(* operand words have arrived in every lane, and whether every lane grants *)
(* the write of a result.                                                  *)
(***************************************************************************)
EXTENDS PeRequests, OperandCollector, ExecutionUnits, WriteBack

CONSTANT
  MaxStall   (* bound: cycles in a row the lanes leave a write ungranted   *)

ASSUME UnitAssumption == MaxStall \in Nat

VARIABLES
  opndNext,   (* lanes: <<seq, k>> of the next word of each operand        *)
  opndValid,  (* lanes: operands whose next word waits in every lane       *)
  stall,      (* lanes: cycles the current write has been left ungranted   *)
  vrf,        (* lanes: tags of the bytes the lanes have accepted          *)
  overtaken   (* history: a request has been acknowledged while arguments  *)
              (* waited for the execution units                            *)

laneVars == <<opndNext, opndValid, stall, vrf>>
vars == <<collectorVars, execVars, wbVars, portVars, laneVars, overtaken>>

Init ==
  /\ CollectorInit(ResetReq) /\ ExecInit(ResetReq) /\ WriteBackInit
  /\ PortInit
  /\ opndNext = [o \in Operands |-> <<1, 0>>]
  /\ opndValid = {}
  /\ stall = 0
  /\ vrf = {}
  /\ overtaken = FALSE

-----------------------------------------------------------------------------
(* The unit.                                                               *)

(* crypto_args_ready_s, with the grant of this cycle                       *)
ArgsReady(gnt) == ArgReady(argBuffValid, WbReady(resultValid, execReq, gnt))

(* Mutant: done bits are never cleared.                                    *)
PeResp_Sticky ==
  vinsnDone' = IF wbDone THEN vinsnDone \cup {execReq.id} ELSE vinsnDone

(* The response register: done bits accumulate while wb_done_s stays high. *)
PeResp == vinsnDone' = IF wbDone THEN vinsnDone \cup {execReq.id} ELSE {}

UnitClock(valid, word, gnt) ==
  /\ CollectorClock(HeadValid, HeadReq, valid, word, ArgsReady(gnt))
  /\ ExecClock(argBuffValid, peReqQ, args, WbReady(resultValid, execReq, gnt))
  /\ WriteBackClock(resultValid, execReq, result, gnt)
  /\ PortClock(PeReqAck(HeadValid, HeadReq))
  /\ PeResp

-----------------------------------------------------------------------------
(* The lanes.  Operand requests reach them with the broadcast; each one is *)
(* turned into words in the order of issue.                                *)

(* elements a lane sequencer asks of an operand: one group for the vs2 of  *)
(* a vector-scalar operation (two for VSM4R_VS), vl otherwise              *)
RequestedElems(req, o) ==
  CASE VectorScalar(req, o) /\ req.op = "VSM4R_VS" -> CryptoEGS_8
    [] VectorScalar(req, o) /\ req.op # "VSM4R_VS" -> CryptoEGS_4
    [] OTHER -> req.vl

(* words the operand requesters fetch, the first at the row of vstart      *)
Words(req, o) ==
  (RequestedElems(req, o) + ElemsPerOperand(req) - 1) \div ElemsPerOperand(req)

FirstRow(req, o) ==
  IF VectorScalar(req, o) THEN 0 ELSE req.vstart \div ElemsPerOperand(req)

(* requests with words of operand o still to come                          *)
Pending(o) ==
  {n \in opndNext[o][1] .. Len(issued) : o \in OperandActive(issued[n].op)}

SupplyReq(o) == issued[CHOOSE n \in Pending(o) : \A m \in Pending(o) : n <= m]

(* A word can only come once every lane has accepted the request.          *)
CanSupply(o) ==
  Pending(o) # {} /\ ~(peValid /\ peReq.seq = SupplyReq(o).seq)

(* the k of the next word: 0 when the request is a later one               *)
SupplyWord(o) ==
  IF SupplyReq(o).seq = opndNext[o][1] THEN opndNext[o][2] ELSE 0

Word(o) ==
  [b \in 0 .. OperandBytes - 1 |->
     <<SupplyReq(o).seq,
       (FirstRow(SupplyReq(o), o) + SupplyWord(o)) * OperandBytes + b>>]

LanesClock(valid, gnt) ==
  LET popped == {o \in valid :
        OperandPop(HeadValid, HeadReq, valid, ArgsReady(gnt), o)}
  IN /\ opndValid' = valid \ popped
     /\ opndNext' = [o \in Operands |->
          IF o \notin popped THEN opndNext[o]
          ELSE IF SupplyWord(o) + 1 < Words(SupplyReq(o), o)
          THEN <<SupplyReq(o).seq, SupplyWord(o) + 1>>
          ELSE <<SupplyReq(o).seq + 1, 0>>]
     /\ stall' = IF vrfValid /\ ~gnt THEN stall + 1 ELSE 0
     /\ vrf' = IF vrfValid /\ gnt
               THEN vrf \cup {wbBuff[b] : b \in DOMAIN wbBuff} ELSE vrf

(* The head is acknowledged in a cycle in which the execution units do not *)
(* take the arguments that wait (operand_collector.sv:175 does not look).  *)
Overtakes(gnt) ==
  argBuffValid /\ PeReqAck(HeadValid, HeadReq) /\ ~ArgsReady(gnt)

-----------------------------------------------------------------------------
(* One cycle in which exactly the operands in valid have a word waiting.   *)
Cycle(valid, gnt) ==
  /\ opndValid \subseteq valid
  /\ \A o \in valid : CanSupply(o)
  /\ gnt \/ ~vrfValid \/ stall < MaxStall
  /\ UnitClock(valid, [o \in valid |-> Word(o)], gnt)
  /\ LanesClock(valid, gnt)
  /\ SequencerClock
  /\ overtaken' = (overtaken \/ Overtakes(gnt))

Next == \E valid \in SUBSET Operands, gnt \in BOOLEAN : Cycle(valid, gnt)

Spec == Init /\ [][Next]_vars

-----------------------------------------------------------------------------
(* Properties.                                                             *)

(* Types of the registers and of the environment's bookkeeping.            *)
TypeOK ==
  /\ CollectorTypeOK /\ ExecTypeOK /\ WriteBackTypeOK
  /\ PortTypeOK
  /\ opndNext \in [Operands -> Nat \X Nat]
  /\ opndValid \subseteq Operands
  /\ stall \in 0 .. MaxStall
  /\ vrf \subseteq Tag
  /\ overtaken \in BOOLEAN

(* The lanes fetch every word the request needs: with vstart in the middle *)
(* of a word they fetch the words of vl elements, which may be one short;  *)
(* the group of a vector-scalar operation is taken from the byte of vstart.*)
WordsFetched(req) ==
  \A o \in OperandActive(req.op) :
    IF VectorScalar(req, o) THEN VstartByte(req) = 0
    ELSE VstartByte(req) + TotalBytes(req) <= Words(req, o) * OperandBytes

(* The byte counters of the request do not come round to 0, as they do at  *)
(* a full register group of LMUL 8, and its words are fetched.             *)
Plain(req) == req.vl * req.vsew < MAXVL /\ WordsFetched(req)

(* None of the three events at which the stages lose count of each other   *)
(* has happened yet: every request issued is plain, and none has been      *)
(* acknowledged over waiting arguments.  The README names a run of each;   *)
(* the properties below say what holds up to the first of them, however    *)
(* late the lanes grant.                                                   *)
InStep == ~overtaken /\ \A n \in 1 .. Len(issued) : Plain(issued[n])

(* requests taken from the FIFO, and done pulses seen by the sequencer     *)
Popped   == Len(issued) - fifoCnt - (IF PeFifoPush THEN 1 ELSE 0)
Reported == Len(issued) - queueCnt + DonePulse

(* the argument buffer of operand o holds element group g of req           *)
HoldsGroup(req, o, g) ==
  \A i \in 0 .. ArgBytes(req) - 1 :
    args[o][i] = <<req.seq, IF VectorScalar(req, o) THEN i
                            ELSE GroupByte(req, g, i)>>

(* Whenever the collector offers arguments, all the operands the operation *)
(* reads hold the same element group of the request offered with them, and *)
(* the scalar is that request's (operand_collector.sv: arg_buff_valid_d,   *)
(* pe_req_q and scalar_q are separate registers).                          *)
ArgsMatchRequest ==
  InStep /\ argBuffValid =>
    /\ \E g \in 0 .. EgLen(peReqQ) - 1 :
         \A o \in OperandActive(peReqQ.op) : HoldsGroup(peReqQ, o, g)
    /\ UsesScalar(peReqQ.op) => scalarQ = peReqQ.seq

(* A byte offered to the lanes belongs to the request whose id goes with   *)
(* it, and is offered at the address it came from.                         *)
WritesInPlace ==
  InStep /\ vrfValid =>
    \E n \in 1 .. Len(issued) :
      /\ issued[n].id = vrfId
      /\ \A b \in DOMAIN wbBuff : wbBuff[b] = <<n, vrfAddr * OperandBytes + b>>

(* the tags of all the bytes request req must write                        *)
ResultTags(req) ==
  {<<req.seq, GroupByte(req, 0, j)>> :
     j \in 0 .. (ArgBytes(req) * EgLen(req)) - 1}

(* A done bit names a running instruction, all of whose result bytes the   *)
(* lanes have accepted: the sequencer drops the instruction's hazards (the *)
(* comment at operand_requester.sv:264 asks for it, of this unit too).     *)
DoneAfterWritten ==
  \A i \in vinsnDone :
    i \in VInsnIds /\ running[i] # 0 /\ ResultTags(issued[running[i]]) \subseteq vrf

(* However late the lanes grant, no done pulse comes before its            *)
(* instruction is computed and packed: all that may be missing in the      *)
(* lanes of the instructions reported so far is the write now on offer.    *)
ReportedKept ==
  InStep =>
    \A n \in 1 .. Reported :
      ResultTags(issued[n])
        \subseteq vrf \cup (IF vrfValid THEN {wbBuff[b] : b \in DOMAIN wbBuff} ELSE {})

(* No byte is handed to the lanes twice: a granted write is withdrawn, an  *)
(* ungranted one is neither overwritten nor counted as done.  The lanes    *)
(* granted a pending write in this step iff stall' = 0.                    *)
WrittenOnce ==
  [][InStep' /\ vrfValid /\ stall' = 0 =>
       {wbBuff[b] : b \in DOMAIN wbBuff} \cap vrf = {}]_vars

(* Arguments that are not accepted stay, with their request and scalar,    *)
(* until they are (operand_collector.sv asserts it as ap_arg_vld_hold,     *)
(* ap_arg_stable and ap_scalar_stable).  The lanes granted a pending write *)
(* in this step iff stall' = 0.                                            *)
ArgsHeld ==
  [][argBuffValid /\ ~ArgsReady(stall' = 0) =>
       argBuffValid' /\ UNCHANGED <<args, scalarQ, peReqQ>>]_vars

(* A request leaves the FIFO only when every word the lanes fetch for its  *)
(* operands has been consumed: a word left over would be taken for the     *)
(* first word of the next request.                                         *)
AckAfterRead ==
  InStep /\ PeReqAck(HeadValid, HeadReq) =>
    \A o \in OperandActive(HeadReq.op) : opndNext[o][1] > HeadReq.seq

(* Element groups are executed one after the other, request after request, *)
(* none skipped and none repeated.                                         *)
FirstByte(req, res) == res[0] = <<req.seq, GroupByte(req, 0, 0)>>

GroupsInOrder ==
  [][InStep' /\ result' # result =>
       IF execReq'.seq = execReq.seq
       THEN result'[0] = <<execReq.seq, result[0][2] + ArgBytes(execReq)>>
       ELSE /\ execReq'.seq = execReq.seq + 1
            /\ FirstByte(execReq', result')
            /\ execReq.seq # 0 =>
                 result[0][2] = GroupByte(execReq, EgLen(execReq) - 1, 0)]_vars

(* The unit keeps the promises of PeRequestFlow: requests are taken from   *)
(* the FIFO and reported done in the order of issue, once each.            *)
Flow == INSTANCE PeRequestFlow WITH
  popped <- Popped, reported <- Reported

FlowSpec == Flow!Spec

-----------------------------------------------------------------------------
(* Progress.  Every operand word is eventually delivered (the operand      *)
(* requesters share the banks round robin), and a broadcast eventually     *)
(* ends (the operand requesters of every lane take their request).         *)

Delivers(o) ==
  \E valid \in SUBSET Operands, gnt \in BOOLEAN :
    o \in valid /\ Cycle(valid, gnt)

EndsBroadcast == Next /\ ~(peValid' /\ peReq' = peReq)

FairSpec ==
  /\ Spec
  /\ WF_vars(Next)
  /\ \A o \in Operands : WF_vars(Delivers(o))
  /\ WF_vars(EndsBroadcast)

(* Every crypto instruction is eventually reported done to the sequencer.  *)
Retires(n) == Len(issued) >= n /\ running[issued[n].id] # n

EveryInstructionRetires ==
  \A n \in 1 .. MaxReq : (Len(issued) >= n) ~> Retires(n)

=============================================================================
