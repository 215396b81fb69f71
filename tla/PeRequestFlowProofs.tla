------------------------ MODULE PeRequestFlowProofs ------------------------
(***************************************************************************)
(* The safety properties of PeRequestFlow, for every depth of the FIFO,    *)
(* every set of ids and every set of instructions.                         *)
(*                                                                         *)
(* The argument: a broadcast is counted once, in the cycle in which it     *)
(* starts (Counted); the credit counter is the number of requests issued   *)
(* and not yet reported (Credit), so there is room for a push whenever one *)
(* is due; and the FIFO is a window on the history of issued requests.     *)
(***************************************************************************)
EXTENDS PeRequestFlow, TLAPS

(* The broadcast of a crypto request carries the request issued last.      *)
Broadcast ==
  peCrypto => peValid /\ Len(issued) > 0 /\ peReq = issued[Len(issued)]

IssuedIds == \A n \in 1 .. Len(issued) : issued[n].id \in VInsnIds

ReportedTaken == reported <= popped

Credit == queueCnt = Len(issued) - reported + DonePulse

(* The done bit in the response register is that of the request reported   *)
(* last.                                                                   *)
DoneIsLast ==
  vinsnDone # {} => reported > 0 /\ vinsnDone = {issued[reported].id}

(* The part of the invariant that only counts the reports.                 *)
QueueInv ==
  /\ TypeOK
  /\ Broadcast
  /\ IssuedIds
  /\ ReportedTaken
  /\ Credit
  /\ NoneLost
  /\ QueueInIssueOrder

FlowInv == QueueInv /\ DoneIsLast /\ IdsNotShared

-----------------------------------------------------------------------------
(* Lemmas on the data.                                                     *)

(* The reset value of a request register is a request.                     *)
LEMMA ResetReqType == ResetReq \in CryptoReq
BY DEF ResetReq, CryptoReq, CryptoOps, VaesKey

(* An instruction, numbered, is a request.                                 *)
LEMMA NumberedType ==
  ASSUME NEW k \in Kinds, NEW seq \in Nat, NEW id \in Nat
  PROVE  /\ Numbered(k, seq, id) \in CryptoReq
         /\ Numbered(k, seq, id).id = id
         /\ Numbered(k, seq, id).seq = seq
<1>1. Numbered(k, 1, 0) \in CryptoReq
  BY PortAssumption DEF LegalReq
<1>2. /\ k.op \in CryptoOps /\ k.vsew \in {EW32, EW64}
      /\ k.vl \in Nat /\ k.vstart \in Nat
  BY <1>1 DEF Numbered, CryptoReq
<1> QED
  BY <1>2 DEF Numbered, CryptoReq

(* A request with another id is a request.                                 *)
LEMMA ResetReqId ==
  ASSUME NEW i \in Nat
  PROVE  /\ [ResetReq EXCEPT !.id = i] \in CryptoReq
         /\ [ResetReq EXCEPT !.id = i].id = i
BY DEF ResetReq, CryptoReq, CryptoOps, VaesKey

-----------------------------------------------------------------------------
(* The initial states.                                                     *)

LEMMA FlowInit == Init => FlowInv
<1> SUFFICES ASSUME Init PROVE FlowInv
  OBVIOUS
<1> USE DEF Init, PortInit, FifoInit
<1>1. TypeOK
  <2>1. fifoMem \in [0 .. CryptoInsnQueueDepth - 1 -> CryptoReq]
    BY ResetReqType
  <2>2. issued \in Seq(CryptoReq)
    OBVIOUS
  <2>3. running \in [VInsnIds -> Nat]
    OBVIOUS
  <2>4. fifoRd \in 0 .. CryptoInsnQueueDepth - 1 /\ fifoCnt \in 0 .. CryptoInsnQueueDepth /\ queueCnt \in 0 .. CryptoInsnQueueDepth
    BY FifoAssumption
  <2> QED
    BY <2>1, <2>2, <2>3, <2>4, ResetReqType DEF TypeOK, PortTypeOK
<1>2. NoneLost
  BY DEF NoneLost, Pushing, PeFifoPush
<1>3. Credit
  BY DEF Credit, DonePulse
<1>4. IdsNotShared
  BY DEF IdsNotShared, InFlight, DonePulse
<1> QED
  BY <1>1, <1>2, <1>3, <1>4
  DEF FlowInv, QueueInv, Broadcast, IssuedIds, ReportedTaken, DoneIsLast,
      QueueInIssueOrder

-----------------------------------------------------------------------------
(* One step.                                                               *)

(* A push never meets a full FIFO: the requests in the FIFO, and the one   *)
(* being pushed, are among those the credit counter counts.                *)
LEMMA RoomForPush == QueueInv => NoPushWhileFull
<1> SUFFICES ASSUME QueueInv, PeFifoPush PROVE fifoCnt # CryptoInsnQueueDepth
  BY DEF NoPushWhileFull, FifoFull
<1>1. popped + fifoCnt + 1 = Len(issued)
  BY DEF QueueInv, NoneLost, Pushing
<1>2. /\ reported <= popped
      /\ queueCnt = Len(issued) - reported + DonePulse
      /\ DonePulse \in {0, 1}
  BY DEF QueueInv, ReportedTaken, Credit, DonePulse
<1>3. /\ popped \in Nat /\ reported \in Nat /\ Len(issued) \in Nat
      /\ fifoCnt \in Nat
      /\ queueCnt <= CryptoInsnQueueDepth /\ queueCnt \in Nat
  BY FifoAssumption DEF QueueInv, TypeOK, PortTypeOK
<1> QED
  BY <1>1, <1>2, <1>3, FifoAssumption

(* A request is broadcast for the first time.                              *)
Issues(req) ==
  /\ req \in CryptoReq
  /\ req.id \in FreeIds
  /\ queueCnt < CryptoInsnQueueDepth
  /\ peValid' = TRUE /\ peCrypto' = TRUE /\ peReq' = req
  /\ issued' = Append(issued, req)
  /\ running' = [Retire EXCEPT ![req.id] = Len(issued) + 1]
  /\ queueCnt' = queueCnt + 1 - DonePulse

(* No crypto request is: any there is in the broadcast was there before.   *)
IssuesNone ==
  /\ peValid' \in BOOLEAN /\ peCrypto' \in BOOLEAN /\ peReq' \in CryptoReq
  /\ \/ peCrypto' = FALSE
     \/ peValid /\ UNCHANGED <<peValid, peCrypto, peReq>>
  /\ issued' = issued
  /\ running' = Retire
  /\ queueCnt' = queueCnt - DonePulse

LEMMA SequencerStep ==
  ASSUME QueueInv, SequencerClock
  PROVE  (\E req \in CryptoReq : Issues(req)) \/ IssuesNone
<1> USE DEF QueueInv
<1>1. ASSUME NEW k \in Kinds, NEW i \in VInsnIds, IssueCrypto(k, i)
      PROVE  \E req \in CryptoReq : Issues(req)
  <2> DEFINE req == Numbered(k, Len(issued) + 1, i)
  <2>1. Len(issued) + 1 \in Nat /\ i \in Nat
    BY PortAssumption DEF TypeOK, PortTypeOK
  <2>2. req \in CryptoReq /\ req.id = i /\ req.seq = Len(issued) + 1
    BY <2>1, NumberedType
  <2> HIDE DEF req
  <2>3. Issues(req)
    BY <1>1, <2>2 DEF IssueCrypto, Issues, QueueIssue, req
  <2> QED
    BY <2>2, <2>3
<1>2. ASSUME NEW i \in VInsnIds, IssueOther(i) PROVE IssuesNone
  BY <1>2, PortAssumption, ResetReqId DEF IssueOther, IssuesNone
<1>3. ASSUME HoldRequest PROVE IssuesNone
  BY <1>3 DEF HoldRequest, IssuesNone, TypeOK, PortTypeOK
<1>4. ASSUME NoRequest PROVE IssuesNone
  BY <1>4, ResetReqType DEF NoRequest, IssuesNone
<1> QED
  BY <1>1, <1>2, <1>3, <1>4 DEF SequencerClock

(* What a cycle does to the counters of the FIFO.                          *)
LEMMA FifoStep ==
  ASSUME QueueInv, NEW pop \in BOOLEAN, Take(pop), PortClock(pop)
  PROVE  /\ popped' \in Nat /\ popped <= popped'
         /\ fifoCnt' \in 0 .. CryptoInsnQueueDepth
         /\ fifoRd' \in 0 .. CryptoInsnQueueDepth - 1
         /\ fifoMem' \in [0 .. CryptoInsnQueueDepth - 1 -> CryptoReq]
         /\ popped' + fifoCnt' = popped + fifoCnt + Pushing
<1>1. /\ CryptoInsnQueueDepth \in Nat \ {0}
      /\ fifoCnt \in 0 .. CryptoInsnQueueDepth
      /\ fifoRd \in 0 .. CryptoInsnQueueDepth - 1
      /\ fifoMem \in [0 .. CryptoInsnQueueDepth - 1 -> CryptoReq]
      /\ peReq \in CryptoReq /\ popped \in Nat
  BY FifoAssumption DEF QueueInv, TypeOK, PortTypeOK
<1>2. PeFifoPush => ~FifoFull
  BY RoomForPush DEF NoPushWhileFull
<1>3. FifoClock(PeFifoPush, peReq, pop)
  BY DEF PortClock
<1>4. pop => ~(fifoCnt = 0 /\ ~PeFifoPush)
  BY DEF Take, HeadValid, FifoEmpty
<1>5. popped' = IF pop THEN popped + 1 ELSE popped
  BY DEF Take
<1>6. PeFifoPush \in BOOLEAN
  BY DEF PeFifoPush
<1>7. fifoCnt' = fifoCnt + (IF PeFifoPush THEN 1 ELSE 0) - (IF pop THEN 1 ELSE 0)
  BY <1>2, <1>3, <1>4 DEF FifoClock, FifoEmpty
<1>8. fifoRd' = fifoRd \/ fifoRd' = Slot(1)
  BY <1>3 DEF FifoClock
<1>9. fifoMem' = fifoMem \/ \E wr : fifoMem' = [fifoMem EXCEPT ![wr] = peReq]
  BY <1>3 DEF FifoClock
<1>10. fifoCnt' \in 0 .. CryptoInsnQueueDepth
  BY <1>1, <1>2, <1>4, <1>6, <1>7 DEF FifoFull
<1>11. fifoRd' \in 0 .. CryptoInsnQueueDepth - 1
  BY <1>1, <1>8 DEF Slot
<1>12. fifoMem' \in [0 .. CryptoInsnQueueDepth - 1 -> CryptoReq]
  BY <1>1, <1>9
<1>13. popped' + fifoCnt' = popped + fifoCnt + Pushing
  BY <1>1, <1>5, <1>6, <1>7 DEF Pushing
<1> QED
  BY <1>1, <1>5, <1>10, <1>11, <1>12, <1>13

(* A broadcast is pushed in the cycle in which it starts, and in no other. *)
LEMMA PushStep ==
  ASSUME QueueInv, NEW pop \in BOOLEAN, PortClock(pop)
  PROVE  /\ \A req \in CryptoReq : Issues(req) => PeFifoPush'
         /\ IssuesNone => ~PeFifoPush'
<1>1. peValidQ' = peValid /\ peIdQ' = peReq.id
  BY DEF PortClock
<1>2. ASSUME NEW req \in CryptoReq, Issues(req) PROVE PeFifoPush'
  BY <1>1, <1>2 DEF Issues, FreeIds, PeFifoPush
<1>3. ASSUME IssuesNone PROVE ~PeFifoPush'
  BY <1>1, <1>3 DEF IssuesNone, PeFifoPush
<1> QED
  BY <1>2, <1>3

(* What a report leaves behind: before and after it, the requests issued   *)
(* and not yet retired follow the one reported last.                       *)
LEMMA ReportStep ==
  ASSUME FlowInv, NEW done \in BOOLEAN, Report(done),
         issued' = issued \/ \E req \in CryptoReq : issued' = Append(issued, req)
  PROVE  /\ reported' \in Nat /\ reported' <= popped
         /\ vinsnDone' \subseteq Nat
         /\ reported' = reported + DonePulse'
         /\ DoneIsLast'
<1>1. /\ reported \in Nat /\ popped \in Nat /\ fifoCnt \in Nat
      /\ issued \in Seq(CryptoReq) /\ reported <= popped
  BY FifoAssumption DEF FlowInv, QueueInv, TypeOK, PortTypeOK, ReportedTaken
<1>2. popped <= Len(issued)
  BY <1>1 DEF FlowInv, QueueInv, NoneLost, Pushing
<1>3. CASE done
  <2>1. /\ reported < popped /\ reported' = reported + 1
        /\ vinsnDone' = {issued[reported + 1].id}
    BY <1>3 DEF Report
  <2>2. reported + 1 \in 1 .. Len(issued)
    BY <1>1, <1>2, <2>1
  <2>3. issued[reported + 1] \in CryptoReq
    BY <1>1, <2>2
  <2>4. issued'[reported + 1] = issued[reported + 1]
    BY <1>1, <2>2
  <2>5. vinsnDone' # {} /\ DonePulse' = 1
    BY <2>1 DEF DonePulse
  <2>6. issued[reported + 1].id \in Nat
    BY <2>3 DEF CryptoReq
  <2>7. DoneIsLast'
    BY <1>1, <2>1, <2>4 DEF DoneIsLast
  <2> QED
    BY <1>1, <2>1, <2>5, <2>6, <2>7
<1>4. CASE ~done
  BY <1>1, <1>4 DEF Report, DonePulse, DoneIsLast
<1> QED
  BY <1>3, <1>4

(* A done bit retires the request it is meant for, and a new request takes *)
(* an id that none in flight has.                                          *)
LEMMA IdsStep ==
  ASSUME FlowInv, NEW done \in BOOLEAN, Report(done),
         (\E req \in CryptoReq : Issues(req)) \/ IssuesNone
  PROVE  IdsNotShared'
<1>1. /\ reported \in Nat /\ issued \in Seq(CryptoReq)
      /\ running \in [VInsnIds -> Nat]
      /\ \A n \in 1 .. Len(issued) : issued[n].id \in VInsnIds
      /\ Len(issued) \in Nat
  BY DEF FlowInv, QueueInv, TypeOK, PortTypeOK, IssuedIds
<1>2. reported' = reported + DonePulse'
  BY ReportStep DEF Issues, IssuesNone
<1>3. InFlight' = reported + 1 .. Len(issued')
  <2>1. reported' + 1 - DonePulse' = reported + 1
    BY <1>1, <1>2 DEF DonePulse
  <2> QED
    BY <2>1 DEF InFlight
<1>4. ASSUME NEW n \in reported + 1 .. Len(issued)
      PROVE  running[issued[n].id] = n /\ Retire[issued[n].id] = n
  <2>1. n \in InFlight /\ issued[n].id \in VInsnIds /\ n \in Nat
    BY <1>1 DEF InFlight, DonePulse
  <2>2. running[issued[n].id] = n
    BY <2>1 DEF FlowInv, QueueInv, IdsNotShared
  <2>3. issued[n].id \notin vinsnDone
    <3> SUFFICES ASSUME issued[n].id \in vinsnDone PROVE FALSE
      OBVIOUS
    <3>1. reported > 0 /\ issued[n].id = issued[reported].id /\ DonePulse = 1
      BY DEF FlowInv, QueueInv, DoneIsLast, DonePulse
    <3>2. reported \in InFlight
      BY <1>1, <3>1 DEF InFlight
    <3>3. running[issued[reported].id] = reported
      BY <3>2 DEF FlowInv, QueueInv, IdsNotShared
    <3> QED
      BY <1>1, <2>2, <3>1, <3>3
  <2> QED
    BY <2>1, <2>2, <2>3 DEF Retire
<1>5. CASE IssuesNone
  BY <1>3, <1>4, <1>5 DEF IssuesNone, IdsNotShared
<1>6. ASSUME NEW req \in CryptoReq, Issues(req) PROVE IdsNotShared'
  <2>1. /\ issued' = Append(issued, req)
        /\ req.id \in VInsnIds /\ running[req.id] = 0
        /\ running' = [Retire EXCEPT ![req.id] = Len(issued) + 1]
    BY <1>6 DEF Issues, FreeIds
  <2>2. SUFFICES ASSUME NEW n \in reported + 1 .. Len(issued) + 1
                 PROVE  running'[issued'[n].id] = n
    BY <1>1, <1>3, <2>1 DEF IdsNotShared
  <2>3. Retire \in [VInsnIds -> Nat]
    BY <1>1 DEF Retire
  <2>4. CASE n = Len(issued) + 1
    <3>1. issued'[n] = req
      BY <1>1, <2>1, <2>4
    <3> QED
      BY <2>1, <2>3, <2>4, <3>1
  <2>5. CASE n \in reported + 1 .. Len(issued)
    <3>1. n \in 1 .. Len(issued) /\ issued'[n] = issued[n]
      BY <1>1, <2>1, <2>5
    <3>2. running[issued[n].id] = n /\ Retire[issued[n].id] = n
      BY <1>4, <2>5
    <3>3. issued[n].id # req.id
      BY <1>1, <2>1, <2>5, <3>2
    <3>4. issued[n].id \in VInsnIds
      BY <1>1, <3>1
    <3> QED
      BY <2>1, <2>3, <3>1, <3>2, <3>3, <3>4
  <2> QED
    BY <1>1, <2>2, <2>4, <2>5
<1> QED
  BY <1>5, <1>6

(* The FIFO stays a window on the issued requests: a push extends it by    *)
(* the request issued last, a pop takes its first one.                     *)
LEMMA QueueStep ==
  ASSUME QueueInv, NEW pop \in BOOLEAN, Take(pop), PortClock(pop),
         issued' = issued \/ \E req \in CryptoReq : issued' = Append(issued, req)
  PROVE  QueueInIssueOrder'
<1> DEFINE D == CryptoInsnQueueDepth
           push == PeFifoPush
           last == IF push THEN fifoCnt ELSE fifoCnt - 1
<1>1. /\ D \in Nat \ {0}
      /\ fifoCnt \in 0 .. D /\ fifoRd \in 0 .. D - 1
      /\ fifoMem \in [0 .. D - 1 -> CryptoReq]
      /\ popped \in Nat /\ issued \in Seq(CryptoReq)
  BY FifoAssumption DEF QueueInv, TypeOK, PortTypeOK
<1>2. push \in BOOLEAN /\ (push => fifoCnt < D)
  BY <1>1, RoomForPush DEF NoPushWhileFull, FifoFull, PeFifoPush
<1>3. popped + fifoCnt + (IF push THEN 1 ELSE 0) = Len(issued)
  BY DEF QueueInv, NoneLost, Pushing
<1>4. push => peReq = issued[Len(issued)]
  BY DEF QueueInv, Broadcast, PeFifoPush
<1>5. FifoClock(push, peReq, pop) /\ (pop => ~(fifoCnt = 0 /\ ~push))
  BY DEF PortClock, Take, HeadValid, FifoEmpty
<1>6. fifoMem' = IF push THEN [fifoMem EXCEPT ![Slot(fifoCnt)] = peReq]
                 ELSE fifoMem
  <2>1. CASE push
    BY <1>1, <1>2, <1>5, <2>1 DEF FifoClock, FifoFull
  <2>2. CASE ~push
    BY <1>1, <1>2, <1>5, <2>2 DEF FifoClock, FifoFull
  <2> QED
    BY <2>1, <2>2
<1>7. ASSUME NEW j \in 0 .. last
      PROVE  /\ popped + j + 1 \in 1 .. Len(issued)
             /\ fifoMem'[Slot(j)] = issued[popped + j + 1]
  <2>1. popped + j + 1 \in 1 .. Len(issued)
    BY <1>1, <1>2, <1>3
  <2>2. CASE j < fifoCnt
    <3>1. fifoMem[Slot(j)] = issued[popped + j + 1]
      BY <1>1, <2>2 DEF QueueInv, QueueInIssueOrder
    <3>2. push => Slot(j) # Slot(fifoCnt)
      BY <1>1, <1>2, <2>2 DEF Slot
    <3> QED
      BY <1>6, <2>1, <3>1, <3>2
  <2>3. CASE j = fifoCnt
    <3>1. push /\ popped + j + 1 = Len(issued)
      BY <1>1, <1>2, <1>3, <2>3
    <3>2. Slot(j) \in 0 .. D - 1
      BY <1>1, <1>2, <2>3, <3>1 DEF Slot
    <3> QED
      BY <1>1, <1>4, <1>6, <2>1, <2>3, <3>1, <3>2
  <2> QED
    BY <1>1, <1>2, <2>2, <2>3
<1>8. \A m \in 1 .. Len(issued) : m \in 1 .. Len(issued') /\ issued'[m] = issued[m]
  BY <1>1
<1>9. CASE ~pop
  <2>1. /\ fifoRd' = fifoRd /\ popped' = popped
        /\ fifoCnt' = fifoCnt + (IF push THEN 1 ELSE 0)
    BY <1>1, <1>2, <1>5, <1>9 DEF FifoClock, FifoFull, Take
  <2>2. SUFFICES ASSUME NEW k \in 0 .. fifoCnt' - 1
                 PROVE  /\ popped' + k + 1 \in 1 .. Len(issued')
                        /\ fifoMem'[Slot(k)'] = issued'[popped' + k + 1]
    BY DEF QueueInIssueOrder
  <2>3. k \in 0 .. last /\ Slot(k)' = Slot(k)
    BY <1>1, <1>2, <2>1 DEF Slot
  <2> QED
    BY <1>7, <1>8, <2>1, <2>3
<1>10. CASE pop
  <2>1. /\ popped' = popped + 1
        /\ fifoCnt' = fifoCnt + (IF push THEN 1 ELSE 0) - 1
        /\ fifoCnt' # 0 => fifoRd' = Slot(1)
    BY <1>1, <1>2, <1>5, <1>10 DEF FifoClock, FifoFull, FifoEmpty, Take
  <2>2. SUFFICES ASSUME NEW k \in 0 .. fifoCnt' - 1
                 PROVE  /\ popped' + k + 1 \in 1 .. Len(issued')
                        /\ fifoMem'[Slot(k)'] = issued'[popped' + k + 1]
    BY DEF QueueInIssueOrder
  <2>3. k + 1 \in 0 .. last /\ fifoCnt' # 0 /\ k \in Nat /\ k < D
    BY <1>1, <1>2, <2>1
  <2>4. Slot(k)' = Slot(k + 1)
    BY <1>1, <2>1, <2>3 DEF Slot
  <2>5. popped' + k + 1 = popped + (k + 1) + 1
    BY <1>1, <2>1, <2>3
  <2> QED
    BY <1>7, <1>8, <2>3, <2>4, <2>5
<1> QED
  BY <1>9, <1>10

(* A report as the credit counter sees it, whatever ids the done bits name.*)
ReportCount(done) ==
  /\ done => reported < popped
  /\ reported' = IF done THEN reported + 1 ELSE reported
  /\ vinsnDone' # {} <=> done
  /\ vinsnDone' \subseteq Nat

(* What the queue holds does not depend on the ids that are reported.      *)
LEMMA QueueNext ==
  ASSUME QueueInv, NEW pop \in BOOLEAN, NEW done \in BOOLEAN,
         Take(pop), ReportCount(done), PortClock(pop), SequencerClock
  PROVE  QueueInv'
<1>1. (\E req \in CryptoReq : Issues(req)) \/ IssuesNone
  BY SequencerStep
<1>2. issued' = issued \/ \E req \in CryptoReq : issued' = Append(issued, req)
  BY <1>1 DEF Issues, IssuesNone
<1>3. /\ popped' \in Nat /\ popped <= popped'
      /\ fifoCnt' \in 0 .. CryptoInsnQueueDepth
      /\ fifoRd' \in 0 .. CryptoInsnQueueDepth - 1
      /\ fifoMem' \in [0 .. CryptoInsnQueueDepth - 1 -> CryptoReq]
      /\ popped' + fifoCnt' = popped + fifoCnt + Pushing
  BY FifoStep
<1>4. /\ reported' \in Nat /\ reported' <= popped
      /\ vinsnDone' \subseteq Nat
      /\ reported' = reported + DonePulse'
  <2>1. reported \in Nat /\ popped \in Nat /\ reported <= popped
    BY DEF QueueInv, TypeOK, ReportedTaken
  <2>2. DonePulse' = IF done THEN 1 ELSE 0
    BY DEF ReportCount, DonePulse
  <2> HIDE DEF DonePulse
  <2> QED
    BY <2>1, <2>2 DEF ReportCount
<1>5. /\ popped \in Nat /\ reported \in Nat /\ fifoCnt \in Nat
      /\ issued \in Seq(CryptoReq) /\ running \in [VInsnIds -> Nat]
      /\ queueCnt \in 0 .. CryptoInsnQueueDepth
      /\ peReq \in CryptoReq /\ peValid \in BOOLEAN
      /\ CryptoInsnQueueDepth \in Nat
  BY FifoAssumption DEF QueueInv, TypeOK, PortTypeOK
<1>6. popped + fifoCnt + Pushing = Len(issued)
  BY DEF QueueInv, NoneLost
<1>7. NoneLost'
  <2>1. CASE IssuesNone
    <3>1. ~PeFifoPush'
      BY <2>1, PushStep
    <3>2. issued' = issued /\ Len(issued) \in Nat
      BY <1>5, <2>1 DEF IssuesNone
    <3> QED
      BY <1>3, <1>5, <1>6, <3>1, <3>2 DEF NoneLost, Pushing
  <2>2. ASSUME NEW req \in CryptoReq, Issues(req) PROVE NoneLost'
    <3>1. PeFifoPush'
      BY <2>2, PushStep
    <3>2. Len(issued') = Len(issued) + 1
      BY <1>5, <2>2 DEF Issues
    <3> QED
      BY <1>3, <1>5, <1>6, <3>1, <3>2 DEF NoneLost, Pushing
  <2> QED
    BY <1>1, <2>1, <2>2
<1>8. ReportedTaken'
  BY <1>3, <1>4, <1>5 DEF ReportedTaken
<1>9. Credit' /\ queueCnt' \in 0 .. CryptoInsnQueueDepth
  <2>1. /\ queueCnt = Len(issued) - reported + DonePulse
        /\ reported <= Len(issued)
    BY <1>5, <1>6 DEF QueueInv, Credit, ReportedTaken, Pushing
  <2>2. CASE IssuesNone
    <3>1. queueCnt' = queueCnt - DonePulse /\ issued' = issued
      BY <2>2 DEF IssuesNone
    <3> QED
      BY <1>4, <1>5, <2>1, <3>1 DEF Credit, DonePulse
  <2>3. ASSUME NEW req \in CryptoReq, Issues(req)
        PROVE  Credit' /\ queueCnt' \in 0 .. CryptoInsnQueueDepth
    <3>1. /\ queueCnt' = queueCnt + 1 - DonePulse
          /\ queueCnt < CryptoInsnQueueDepth
          /\ Len(issued') = Len(issued) + 1
      BY <1>5, <2>3 DEF Issues
    <3> QED
      BY <1>4, <1>5, <2>1, <3>1 DEF Credit, DonePulse
  <2> QED
    BY <1>1, <2>2, <2>3
<1>10. Broadcast' /\ IssuedIds'
  <2>1. CASE IssuesNone
    BY <2>1 DEF IssuesNone, QueueInv, Broadcast, IssuedIds
  <2>2. ASSUME NEW req \in CryptoReq, Issues(req)
        PROVE  Broadcast' /\ IssuedIds'
    <3>1. /\ issued' = Append(issued, req) /\ peReq' = req /\ peValid' = TRUE
          /\ req.id \in VInsnIds
      BY <2>2 DEF Issues, FreeIds
    <3>2. /\ Len(issued') = Len(issued) + 1 /\ issued'[Len(issued) + 1] = req
          /\ \A n \in 1 .. Len(issued) : issued'[n] = issued[n]
          /\ Len(issued) \in Nat
      BY <1>5, <3>1
    <3>3. Broadcast'
      BY <3>1, <3>2 DEF Broadcast
    <3>4. IssuedIds'
      BY <3>1, <3>2 DEF IssuedIds, QueueInv
    <3> QED
      BY <3>3, <3>4
  <2> QED
    BY <1>1, <2>1, <2>2
<1>11. QueueInIssueOrder'
  BY <1>2, QueueStep
<1>12. TypeOK'
  <2>1. peIdQ' \in Nat /\ peValidQ' \in BOOLEAN
    BY <1>5 DEF PortClock, CryptoReq
  <2>2. /\ peValid' \in BOOLEAN /\ peCrypto' \in BOOLEAN
        /\ peReq' \in CryptoReq
    BY <1>1 DEF Issues, IssuesNone
  <2>3. issued' \in Seq(CryptoReq)
    BY <1>2, <1>5
  <2>4. Retire \in [VInsnIds -> Nat]
    BY <1>5 DEF Retire
  <2>5. running' \in [VInsnIds -> Nat]
    BY <1>1, <1>5, <2>4 DEF Issues, IssuesNone
  <2> QED
    BY <1>3, <1>4, <1>9, <2>1, <2>2, <2>3, <2>5 DEF TypeOK, PortTypeOK
<1> QED
  BY <1>4, <1>7, <1>8, <1>9, <1>10, <1>11, <1>12 DEF QueueInv

(* A step that leaves the registers alone leaves the queue alone.          *)
LEMMA QueueStill ==
  ASSUME QueueInv, UNCHANGED flowVars
  PROVE  QueueInv'
BY DEF flowVars, portVars, fifoVars, seqVars, QueueInv, TypeOK, PortTypeOK, Broadcast,
       IssuedIds, ReportedTaken, Credit, DonePulse, NoneLost, Pushing, PeFifoPush,
       QueueInIssueOrder, Slot

(* FlowInv is inductive.                                                   *)
LEMMA FlowNext == FlowInv /\ [Next]_flowVars => FlowInv'
<1>1. ASSUME FlowInv, UNCHANGED flowVars PROVE FlowInv'
  BY <1>1, QueueStill
  DEF flowVars, portVars, seqVars, FlowInv, DoneIsLast, IdsNotShared, InFlight, DonePulse
<1>2. ASSUME FlowInv, NEW pop \in BOOLEAN, NEW done \in BOOLEAN, Cycle(pop, done)
      PROVE  FlowInv'
  <2>1. Take(pop) /\ Report(done) /\ PortClock(pop) /\ SequencerClock
    BY <1>2 DEF Cycle
  <2>2. (\E req \in CryptoReq : Issues(req)) \/ IssuesNone
    BY <1>2, <2>1, SequencerStep DEF FlowInv
  <2>3. issued' = issued \/ \E req \in CryptoReq : issued' = Append(issued, req)
    BY <2>2 DEF Issues, IssuesNone
  <2>4. vinsnDone' \subseteq Nat /\ DoneIsLast'
    BY <1>2, <2>1, <2>3, ReportStep
  <2>5. ReportCount(done)
    BY <2>1, <2>4 DEF Report, ReportCount
  <2>6. QueueInv'
    BY <1>2, <2>1, <2>5, QueueNext DEF FlowInv
  <2>7. IdsNotShared'
    BY <1>2, <2>1, <2>2, IdsStep
  <2> QED
    BY <2>4, <2>6, <2>7 DEF FlowInv
<1> QED
  BY <1>1, <1>2 DEF Next

-----------------------------------------------------------------------------
(* The theorems.                                                           *)

LEMMA FlowInvariant == Spec => []FlowInv
<1>1. Init => FlowInv
  BY FlowInit
<1>2. FlowInv /\ [Next]_flowVars => FlowInv'
  BY FlowNext
<1> QED
  BY <1>1, <1>2, PTL DEF Spec

(* Every register keeps its type; the credit counter of the sequencer never*)
(* exceeds the depth of the queue.                                         *)
THEOREM FlowTypeOK == Spec => []TypeOK
<1>1. FlowInv => TypeOK
  BY DEF FlowInv, QueueInv
<1> QED
  BY <1>1, FlowInvariant, PTL

(* Every issued request is taken, in the FIFO, or being pushed.            *)
THEOREM FlowNoneLost == Spec => []NoneLost
<1>1. FlowInv => NoneLost
  BY DEF FlowInv, QueueInv
<1> QED
  BY <1>1, FlowInvariant, PTL

(* A full FIFO is never pushed to, although the sequencer does not look at *)
(* the ready signal of the unit.                                           *)
THEOREM FlowNoPushWhileFull == Spec => []NoPushWhileFull
<1>1. FlowInv => NoPushWhileFull
  BY RoomForPush DEF FlowInv
<1> QED
  BY <1>1, FlowInvariant, PTL

(* The FIFO holds the requests issued last, in the order of issue.         *)
THEOREM FlowQueueInIssueOrder == Spec => []QueueInIssueOrder
<1>1. FlowInv => QueueInIssueOrder
  BY DEF FlowInv, QueueInv
<1> QED
  BY <1>1, FlowInvariant, PTL

(* A done bit retires the request it is meant for: no two in flight share  *)
(* an id.                                                                  *)
THEOREM FlowIdsNotShared == Spec => []IdsNotShared
<1>1. FlowInv => IdsNotShared
  BY DEF FlowInv, QueueInv
<1> QED
  BY <1>1, FlowInvariant, PTL

=============================================================================
