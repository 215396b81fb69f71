------------------------------- MODULE FifoV3 -------------------------------
(***************************************************************************)
(* The fall-through FIFO of the common cells library, as crypto_unit.sv    *)
(* instantiates it for the requests of the sequencer.  The library is not  *)
(* part of the repository; what is modelled is its documented interface: a *)
(* push while full is ignored, a push while empty is visible at the output *)
(* in the same cycle, and the output of an empty FIFO is whatever the slot *)
(* under the read pointer held last.                                       *)
(***************************************************************************)
EXTENDS Naturals

CONSTANT CryptoInsnQueueDepth  (* instructions in flight in the crypto unit *)

ASSUME FifoAssumption == CryptoInsnQueueDepth \in Nat \ {0}

VARIABLES
  fifoMem,  (* the slots                                                   *)
  fifoRd,   (* read pointer                                                *)
  fifoCnt   (* slots in use                                                *)

fifoVars == <<fifoMem, fifoRd, fifoCnt>>

FifoInit(reset) ==
  /\ fifoMem = [s \in 0 .. CryptoInsnQueueDepth - 1 |-> reset]
  /\ fifoRd = 0
  /\ fifoCnt = 0

FifoFull == fifoCnt = CryptoInsnQueueDepth

FifoEmpty(push) == fifoCnt = 0 /\ ~push

FifoHead(push, data) ==
  IF fifoCnt = 0 /\ push THEN data ELSE fifoMem[fifoRd]

(* the slot k places after the read pointer: the pointers wrap             *)
Slot(k) ==
  IF fifoRd + k < CryptoInsnQueueDepth THEN fifoRd + k
  ELSE fifoRd + k - CryptoInsnQueueDepth

FifoClock(push, data, pop) ==
  LET pushes  == push /\ ~FifoFull
      pops    == pop /\ ~FifoEmpty(push)
      through == pushes /\ pops /\ fifoCnt = 0
  IN /\ fifoMem' = IF pushes THEN [fifoMem EXCEPT ![Slot(fifoCnt)] = data]
                   ELSE fifoMem
     /\ fifoRd' = IF pops /\ ~through THEN Slot(1) ELSE fifoRd
     /\ fifoCnt' = fifoCnt + (IF pushes THEN 1 ELSE 0) - (IF pops THEN 1 ELSE 0)

=============================================================================
