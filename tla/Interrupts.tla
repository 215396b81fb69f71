----------------------------- MODULE Interrupts -----------------------------
(***************************************************************************)
(* One hart running one of the test programs of module Drivers, with the   *)
(* CLINT, the PLIC, the APB timer and the GPIO block that interrupt it,    *)
(* and the trap path of the run-time library: trap_vector (crt0.S),        *)
(* mtvec_handler (runtime.c) and the handlers it dispatches to.            *)
(*                                                                         *)
(* The hart may take a pending interrupt before any statement of main and  *)
(* may also execute a few more first; a sequence of nops is longer than    *)
(* that latency, which is what the programs put it there for.              *)
(***************************************************************************)
EXTENDS Drivers

CONSTANTS
  ProgramSet,  \* the names of the programs main() may be
  RtcTicks     \* bound of the model: ticks of the RTC in a run

(* no test runs for anything like 2^32 ticks                                *)
ASSUME InterruptsAssumption == /\ ProgramSet \subseteq DOMAIN Programs
                               /\ RtcTicks \in 0..(Half - 2)

VARIABLES
  program,       \* the program that was loaded
  pc,            \* next statement of main
  acc,           \* what the load of main's read-modify-write has returned
  irq_count,     \* the counter of plic_test
  waiting,       \* the hart sleeps in wfi
  handler,       \* statements left of the trap in progress
  hacc,          \* what a load of the handler has returned
  ctx,           \* whose value each caller-saved register holds
  frame,         \* the registers trap_vector has pushed
  mstatus_MIE, mie,
  interrupt_id,  \* static variable behind get_trap_id()
  callback,      \* the function pointers irq_handler_*
  reg,           \* device registers
  pri, ip, ia,   \* PLIC: priorities, pending, claimed and not completed
  padin,         \* sampled level of each pin
  mtime, mtimecmp, msip,
  asked,         \* ghost: argument of the last set_timer
  wakes,         \* ghost: completed wfi since the last trap
  toggles,       \* ghost: completed gpio_pin_toggle of each pin, modulo 2
  last,          \* ghost: cause of the last trap
  served         \* ghost: external interrupts completed, up to Wakeups

main == <<program, pc, acc, irq_count, waiting, callback>>
trap == <<handler, hacc, ctx, frame, interrupt_id>>
csr  == <<mstatus_MIE, mie>>
plic == <<pri, ip, ia>>
clint == <<mtime, mtimecmp, msip>>
ghost == <<asked, wakes, toggles, last, served>>
vars == <<main, trap, csr, reg, plic, padin, clint, ghost>>

Code == Programs[program]
Done == pc > Len(Code)
InHandler == handler # << >>

DeviceRegs == {"gpioen", "paddir", "padout", "inten", "inttype",
               "plic_en", "cmp", "ctrl"}
Regs == {"a0", "t5", "others"}
Causes == {"M_SOFT", "M_TIMER", "M_EXT"}

------------------------------------------------------------------------------
(* Interrupt controllers                                                   *)

(* The gateways latch a request of a source until it has been completed.   *)
Raise(S) == ip' = ip \cup (S \ ia)

Eligible == {i \in ip \cap reg["plic_en"] : pri[i] > 0}

(* highest priority first, then the lowest number; 0 if nothing is pending *)
Claim ==
  IF Eligible = {} THEN 0
  ELSE CHOOSE i \in Eligible : \A j \in Eligible :
         pri[i] > pri[j] \/ (pri[i] = pri[j] /\ i <= j)

Mip == (IF msip THEN {"M_SOFT"} ELSE {})
         \cup (IF mtime >= mtimecmp THEN {"M_TIMER"} ELSE {})
         \cup (IF Eligible # {} THEN {"M_EXT"} ELSE {})

Takeable == IF mstatus_MIE THEN Mip \cap mie ELSE {}

(* A 32-bit store to mtimecmp: clint.sv writes the whole 64-bit word and   *)
(* looks at no strobe, so the upper half is what the bus happens to carry: *)
(* zeros, the lower half again, or the rest of the stored register.        *)
Written(v) == LET lo == v % Half
              IN {lo, lo + Half * lo, v}

------------------------------------------------------------------------------
Init ==
  /\ program \in ProgramSet
  /\ pc = 1 /\ acc = {} /\ irq_count = 0 /\ waiting = FALSE
  /\ handler = << >> /\ hacc = {} /\ interrupt_id = "none"
  /\ ctx = [r \in Regs |-> "main"] /\ frame = ctx
  /\ mstatus_MIE = FALSE /\ mie = {}
  /\ callback = [i \in IrqSources |-> "default"]
  /\ reg = [r \in DeviceRegs |-> {}]
  /\ pri = [i \in IrqSources |-> 0] /\ ip = {} /\ ia = {}
  /\ padin = {}
  /\ mtime = 0 /\ mtimecmp = 0 /\ msip = FALSE
  /\ asked = MaxTime /\ wakes = 0 /\ toggles = {} /\ last = "none" /\ served = 0

------------------------------------------------------------------------------
(* main                                                                    *)

At(op) == ~InHandler /\ ~Done /\ ~waiting /\ Code[pc].op = op
Next1 == pc' = pc + 1 /\ UNCHANGED <<program, irq_count, waiting, callback>>

(* both main and the handlers write device registers this way              *)
ModifyReg(s, old) ==
  /\ reg' = [reg EXCEPT ![s.reg] = Apply(s.f, old, s.mask)]
  /\ toggles' = IF s.f = "xor" THEN Apply("xor", toggles, s.mask) ELSE toggles

MainLoad ==
  /\ At("load")
  /\ acc' = reg[Code[pc].reg]
  /\ Next1
  /\ UNCHANGED <<trap, csr, reg, plic, padin, clint, ghost>>

MainModify ==
  /\ At("modify")
  /\ ModifyReg(Code[pc], acc)
  /\ Next1
  /\ UNCHANGED <<acc, trap, csr, plic, padin, clint, asked, wakes, last, served>>

MainStore ==
  /\ At("store")
  /\ reg' = [reg EXCEPT ![Code[pc].reg] = Code[pc].val]
  /\ Next1
  /\ UNCHANGED <<acc, trap, csr, plic, padin, clint, ghost>>

(* the priority registers of the PLIC keep three bits of what is written   *)
MainPriority ==
  /\ At("priority")
  /\ pri' = [pri EXCEPT ![Code[pc].irq] = Code[pc].val % 8]
  /\ Next1
  /\ UNCHANGED <<acc, trap, csr, reg, ip, ia, padin, clint, ghost>>

MainSetTimer ==
  /\ At("mtimecmp")
  /\ mtimecmp' \in Written(Code[pc].val)
  /\ asked' = Code[pc].val
  /\ Next1
  /\ UNCHANGED <<acc, trap, csr, reg, plic, padin, mtime, msip,
                 wakes, toggles, last, served>>

(* CLINT_IPI_REG = 0xf: the hart has bit 0                                  *)
MainIpi ==
  /\ At("ipi")
  /\ msip' = TRUE
  /\ Next1
  /\ UNCHANGED <<acc, trap, csr, reg, plic, padin, mtime, mtimecmp, ghost>>

MainCsrs ==
  /\ At("csrs")
  /\ IF Code[pc].csr = "mstatus"
       THEN mstatus_MIE' = TRUE /\ UNCHANGED mie
       ELSE mie' = mie \cup Code[pc].bits /\ UNCHANGED mstatus_MIE
  /\ Next1
  /\ UNCHANGED <<acc, trap, reg, plic, padin, clint, ghost>>

MainCallback ==
  /\ At("callback")
  /\ callback' = [callback EXCEPT ![Code[pc].irq] = Code[pc].handler]
  /\ pc' = pc + 1
  /\ UNCHANGED <<program, acc, irq_count, waiting, trap, csr, reg, plic, padin, clint,
                 ghost>>

(* Mutant: main goes on however long an interrupt has been pending.        *)
MainNops_NoLatency ==
  /\ At("nops") \/ At("print")
  /\ Next1
  /\ UNCHANGED <<acc, trap, csr, reg, plic, padin, clint, ghost>>

(* nops outlast the latency of an interrupt; printing has no effect here   *)
MainNops ==
  /\ At("nops") \/ At("print")
  /\ Code[pc].op = "nops" => Takeable = {}
  /\ Next1
  /\ UNCHANGED <<acc, trap, csr, reg, plic, padin, clint, ghost>>

(* wfi wakes up for any pending interrupt, enabled or not                   *)
MainWfi ==
  /\ At("wfi")
  /\ waiting' = TRUE
  /\ UNCHANGED <<program, pc, acc, irq_count, callback, trap, csr, reg, plic, padin,
                 clint, ghost>>

MainWake ==
  /\ waiting /\ Mip # {}
  /\ waiting' = FALSE
  /\ pc' = pc + 1
  /\ wakes' = IF wakes = 2 THEN 2 ELSE wakes + 1
  /\ UNCHANGED <<program, acc, irq_count, callback, trap, csr, reg, plic, padin, clint,
                 asked, toggles, last, served>>

MainCount ==
  /\ At("count")
  /\ irq_count' = irq_count + 1
  /\ pc' = pc + 1
  /\ UNCHANGED <<program, acc, waiting, callback, trap, csr, reg, plic, padin, clint,
                 ghost>>

MainJump ==
  /\ At("while") \/ At("goto")
  /\ pc' = IF Code[pc].op = "while" /\ irq_count >= Code[pc].count
             THEN pc + 1 ELSE Code[pc].to
  /\ UNCHANGED <<program, acc, irq_count, waiting, callback, trap, csr, reg, plic,
                 padin, clint, ghost>>

(* polling loops: the iteration that leaves the loop                        *)
MainPoll ==
  /\ \/ At("wait_pin") /\ Code[pc].pin \in padin
     \/ At("wait_trap") /\ interrupt_id = Code[pc].id
  /\ Next1
  /\ UNCHANGED <<acc, trap, csr, reg, plic, padin, clint, ghost>>

------------------------------------------------------------------------------
(* Traps                                                                   *)

HandlerBody(h) ==
  IF h = "timer_compare_handler" THEN timer_compare_handler ELSE Puts

(* mtvec_handler: an external interrupt is claimed, served and completed    *)
mtvec_handler(cause) ==
  IF cause = "M_EXT" THEN Simple("claim") ELSE Puts

serve_claim(id) ==
  (IF id \in IrqSources THEN HandlerBody(callback[id]) ELSE Puts)
    \o <<[op |-> "complete", irq |-> id]>>

(* trap_vector up to the call: mcause and the handler's address go through  *)
(* a0 and t5, then the caller-saved registers are pushed; the handler is    *)
(* free to use them all                                                     *)
EnterTrap(cause) ==
  /\ frame' = [ctx EXCEPT !["a0"] = "trap", !["t5"] = "trap"]
  /\ ctx' = [r \in Regs |-> "trap"]
  /\ mstatus_MIE' = FALSE
  /\ interrupt_id' = cause
  /\ last' = cause
  /\ wakes' = 0
  /\ handler' = mtvec_handler(cause) \o Simple("mret")

(* by decreasing priority: external, software, timer                        *)
TakeInterrupt ==
  /\ ~InHandler /\ ~waiting /\ Takeable # {}
  /\ EnterTrap(IF "M_EXT" \in Takeable THEN "M_EXT"
               ELSE IF "M_SOFT" \in Takeable THEN "M_SOFT" ELSE "M_TIMER")
  /\ UNCHANGED <<main, hacc, mie, reg, plic, padin, clint, asked, toggles,
                 served>>

(* a faulting statement traps; mepc points at it and nothing advances mepc  *)
TakeException ==
  /\ At("fault")
  /\ EnterTrap("exception")
  /\ UNCHANGED <<main, hacc, mie, reg, plic, padin, clint, asked, toggles,
                 served>>

InTrap(op) == InHandler /\ Head(handler).op = op

HandlerPrint ==
  /\ InTrap("print")
  /\ handler' = Tail(handler)
  /\ UNCHANGED <<main, hacc, ctx, frame, interrupt_id, csr, reg, plic, padin,
                 clint, ghost>>

HandlerLoad ==
  /\ InTrap("load")
  /\ hacc' = reg[Head(handler).reg]
  /\ handler' = Tail(handler)
  /\ UNCHANGED <<main, ctx, frame, interrupt_id, csr, reg, plic, padin, clint,
                 ghost>>

HandlerModify ==
  /\ InTrap("modify")
  /\ ModifyReg(Head(handler), hacc)
  /\ handler' = Tail(handler)
  /\ UNCHANGED <<main, hacc, ctx, frame, interrupt_id, csr, plic, padin,
                 clint, asked, wakes, last, served>>

HandlerClaim ==
  /\ InTrap("claim")
  /\ ip' = ip \ {Claim}
  /\ ia' = ia \cup ({Claim} \ {0})
  /\ handler' = serve_claim(Claim) \o Tail(handler)
  /\ UNCHANGED <<main, hacc, ctx, frame, interrupt_id, csr, reg, pri, padin,
                 clint, ghost>>

(* Mutant: the completion names the trap's id, not the claimed source.     *)
HandlerComplete_TrapId ==
  /\ InTrap("complete")
  /\ ia' = ia \ {11}
  /\ handler' = Tail(handler)
  /\ served' = IF served = Wakeups THEN served ELSE served + 1
  /\ UNCHANGED <<main, hacc, ctx, frame, interrupt_id, csr, reg, pri, ip,
                 padin, clint, asked, wakes, toggles, last>>

HandlerComplete ==
  /\ InTrap("complete")
  /\ ia' = ia \ {Head(handler).irq}
  /\ handler' = Tail(handler)
  /\ served' = IF served = Wakeups THEN served ELSE served + 1
  /\ UNCHANGED <<main, hacc, ctx, frame, interrupt_id, csr, reg, pri, ip,
                 padin, clint, asked, wakes, toggles, last>>

HandlerReturn ==
  /\ InTrap("mret")
  /\ ctx' = frame
  /\ mstatus_MIE' = TRUE
  /\ handler' = << >>
  /\ UNCHANGED <<main, hacc, frame, interrupt_id, mie, reg, plic, padin,
                 clint, ghost>>

------------------------------------------------------------------------------
(* Devices                                                                 *)

RtcTick ==
  /\ mtime < RtcTicks
  /\ mtime' = mtime + 1
  /\ UNCHANGED <<main, trap, csr, reg, plic, padin, mtimecmp, msip, ghost>>

(* the counter reaches the compare register                                 *)
TimerCompare ==
  /\ reg["ctrl"] # {} /\ reg["cmp"] # {}
  /\ Raise({APB_TIMER_COMPARE_IRQ})
  /\ UNCHANGED <<main, trap, csr, reg, pri, ia, padin, clint, ghost>>

(* the testbench connects the pins to each other                            *)
PinLevel == {p \in Pins : p \in reg["gpioen"] /\ (1 - p) \in reg["paddir"]
                                              /\ (1 - p) \in reg["padout"]}

Edges(new) ==
  {p \in reg["inten"] :
     \/ 2 * p + 1 \in reg["inttype"] /\ (p \in new) # (p \in padin)
     \/ 2 * p \in reg["inttype"] /\ p \in new \ padin
     \/ {2 * p, 2 * p + 1} \cap reg["inttype"] = {} /\ p \in padin \ new}

GpioSample ==
  /\ padin # PinLevel
  /\ padin' = PinLevel
  /\ Raise(IF Edges(PinLevel) # {} THEN {GPIO_IRQ} ELSE {})
  /\ UNCHANGED <<main, trap, csr, reg, pri, ia, clint, ghost>>

------------------------------------------------------------------------------
MainStep ==
  \/ MainLoad \/ MainModify \/ MainStore \/ MainPriority \/ MainSetTimer
  \/ MainIpi \/ MainCsrs \/ MainCallback \/ MainNops \/ MainWfi \/ MainWake
  \/ MainCount \/ MainJump \/ MainPoll \/ TakeException

HandlerStep ==
  \/ HandlerPrint \/ HandlerLoad \/ HandlerModify \/ HandlerClaim
  \/ HandlerComplete \/ HandlerReturn

(* main has returned: crt0 loops on _eoc                                    *)
EndOfCode == Done /\ ~InHandler /\ UNCHANGED vars

Next ==
  \/ MainStep \/ TakeInterrupt \/ HandlerStep
  \/ RtcTick \/ TimerCompare \/ GpioSample \/ EndOfCode

(* The hart executes, takes interrupts that stay pending, and the clocks    *)
(* of the devices run.                                                      *)
Fairness ==
  /\ WF_vars(MainStep)
  /\ WF_vars(HandlerStep)
  /\ WF_vars(TakeInterrupt)
  /\ WF_vars(RtcTick)
  /\ WF_vars(TimerCompare)
  /\ WF_vars(GpioSample)

Spec == Init /\ [][Next]_vars
FairSpec == Spec /\ Fairness

(* A device that interrupts once in a period leaves main the rest of it:    *)
(* again and again main runs with nothing pending.                          *)
PeriodicSpec ==
  /\ FairSpec
  /\ []<>(~InHandler /\ Takeable = {})
  /\ SF_vars(MainStep)

------------------------------------------------------------------------------
(* plic_test counts wake-ups, not interrupts: it relies on mtimecmp at its *)
(* maximum (wfi wakes for a pending timer interrupt even when that one is  *)
(* not enabled) and on the nops for one trap between two wake-ups.         *)
WakeupsAreInterrupts == program = "plic_test" => wakes <= 1

(* A test that reaches its last line has seen as many interrupts served by *)
(* the PLIC path as it waited for.                                         *)
PassedMeansServed ==
  Done /\ program \in {"plic_test", "gpio_test"}
    => served >= IF program = "plic_test" THEN Wakeups ELSE 2

(* The output register shows the parity of the toggles completed: no       *)
(* toggle of main or of timer_compare_handler undoes one that came between *)
(* its load and its store.                                                 *)
PadoutCountsToggles == program = "timer_test" => reg["padout"] = toggles

(* The timer interrupt is taken no earlier than the time last given to     *)
(* set_timer, whatever mtimecmp held before.                               *)
TimerTrapNotEarly ==
  [][last' = "M_TIMER" /\ handler = << >> /\ handler' # << >>
       => mtime >= asked]_vars

(* plic_test runs to its end: the wake-ups it waits for keep coming, since  *)
(* every claim is completed under the id that was claimed.                 *)
PlicTestCompletes == (program = "plic_test") ~> Done

(* crt0.S:158: "restore context before executing mret".                    *)
ContextRestored == ~InHandler => \A r \in Regs : ctx[r] = "main"
=============================================================================
