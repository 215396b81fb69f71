--------------------------- MODULE PeRequestFlow ---------------------------
(***************************************************************************)
(* What the crypto unit promises the sequencer: it takes requests from its *)
(* FIFO one at a time and reports them done one at a time, in the order of *)
(* issue, each after it has been taken.  When it takes or reports one is   *)
(* left open.  CryptoUnit is shown to implement this specification.        *)
(***************************************************************************)
EXTENDS PeRequests

VARIABLES
  popped,   (* requests taken from the FIFO so far                         *)
  reported  (* requests whose done bit has been raised so far              *)

flowVars == <<portVars, popped, reported>>

Init ==
  /\ PortInit
  /\ popped = 0
  /\ reported = 0

(* The request at the head is taken (pe_req_ack_o).                        *)
Take(pop) ==
  /\ pop => HeadValid
  /\ popped' = IF pop THEN popped + 1 ELSE popped

(* The oldest unreported request is reported, for one cycle.               *)
Report(done) ==
  /\ done => reported < popped
  /\ reported' = IF done THEN reported + 1 ELSE reported
  /\ vinsnDone' = IF done THEN {issued[reported + 1].id} ELSE {}

Cycle(pop, done) ==
  Take(pop) /\ Report(done) /\ PortClock(pop) /\ SequencerClock

Next == \E pop, done \in BOOLEAN : Cycle(pop, done)

Spec == Init /\ [][Next]_flowVars

-----------------------------------------------------------------------------
(* Properties.                                                             *)

(* Types of the port's and the sequencer's registers.                      *)
TypeOK ==
  /\ PortTypeOK
  /\ popped \in Nat
  /\ reported \in Nat

Pushing == IF PeFifoPush THEN 1 ELSE 0

(* The FIFO holds the requests issued last, in the order of issue, each    *)
(* once: however long a broadcast is held and whichever request follows it *)
(* without a gap, pe_fifo_push_s pushes each request exactly once.         *)
QueueInIssueOrder ==
  \A k \in 0 .. fifoCnt - 1 :
    /\ popped + k + 1 \in 1 .. Len(issued)
    /\ fifoMem[Slot(k)] = issued[popped + k + 1]

(* No request is pushed into a full FIFO: the FIFO would drop it, as the   *)
(* sequencer does not look at pe_req_ready_o of the crypto unit and relies *)
(* on its own counter of instructions in flight.                           *)
NoPushWhileFull == PeFifoPush => ~FifoFull

(* Every issued request is in one place: taken, in the FIFO, or being      *)
(* pushed in this cycle.                                                   *)
NoneLost == popped + fifoCnt + Pushing = Len(issued)

(* the issued requests whose done bit the sequencer has not yet consumed   *)
InFlight == reported + 1 - DonePulse .. Len(issued)

(* No two crypto instructions in flight share an id, and the id of each is *)
(* marked running: a done bit retires the instruction it is meant for.     *)
IdsNotShared == \A n \in InFlight : running[issued[n].id] = n

=============================================================================
