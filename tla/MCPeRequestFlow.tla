-------------------------- MODULE MCPeRequestFlow --------------------------
(***************************************************************************)
(* Instance of PeRequestFlow for TLC: one kind of instruction is enough,   *)
(* as the port and the sequencer look at nothing but the id.               *)
(***************************************************************************)
EXTENDS PeRequestFlow

MCKinds == {[op |-> "VGHSH", vsew |-> EW32, vl |-> 1, vstart |-> 0]}

=============================================================================
