---------------------------- MODULE MCInterrupts ----------------------------
(* Instances of Interrupts for TLC: which programs a run loads.             *)
EXTENDS Interrupts

AllPrograms == DOMAIN Programs \ {"long_timer_trap_test"}
\* what set_timer makes of a time of more than 32 bits, see the README
LongTimer   == {"long_timer_trap_test"}
=============================================================================
