------------------------------- MODULE Drivers -------------------------------
(***************************************************************************)
(* The device drivers of the run-time library and the interrupt test       *)
(* programs, as sequences of statements.  One statement is one access to a *)
(* device register or a CSR, so that a read-modify-write is two of them    *)
(* and an interrupt can come in between.  The machine of module Interrupts *)
(* executes them.                                                          *)
(*                                                                         *)
(* A device register is the set of its bits that are 1.  A time is a       *)
(* number of RTC ticks; Half values fit in half of a CLINT register.       *)
(***************************************************************************)
EXTENDS Integers, Sequences, FiniteSets

CONSTANTS
  Half,      \* 2^32 in the source: a 32-bit store carries a value below it
  Wakeups    \* 10 in the source: interrupts that plic_test waits for

ASSUME DriversAssumption == Half \in Nat \ {0, 1} /\ Wakeups \in Nat \ {0}

APB_TIMER_COMPARE_IRQ == 2
GPIO_IRQ == 6
IrqSources == 1..7
Pins == {0, 1}

MaxTime == Half * Half - 1

------------------------------------------------------------------------------
(* Statements                                                              *)

Store(r, v)     == <<[op |-> "store", reg |-> r, val |-> v]>>
Modify(r, f, m) == <<[op |-> "load", reg |-> r],
                     [op |-> "modify", reg |-> r, f |-> f, mask |-> m]>>
Csrs(csr, bits) == <<[op |-> "csrs", csr |-> csr, bits |-> bits]>>
Simple(op)      == <<[op |-> op]>>
SetTimer(v)     == <<[op |-> "mtimecmp", val |-> v]>>
SetPriority(irq, p) == <<[op |-> "priority", irq |-> irq, val |-> p]>>
WaitPinHigh(p)  == <<[op |-> "wait_pin", pin |-> p]>>
WaitTrapId(id)  == <<[op |-> "wait_trap", id |-> id]>>
LoopBack(n, to) == <<[op |-> "while", count |-> n, to |-> to]>>
Forever(to)     == <<[op |-> "goto", to |-> to]>>
Register(irq, h) == <<[op |-> "callback", irq |-> irq, handler |-> h]>>
Puts  == Simple("print")
Nops  == Simple("nops")
Wfi   == Simple("wfi")
Count == Simple("count")

Apply(f, old, mask) ==
  CASE f = "or"     -> old \cup mask
    [] f = "andnot" -> old \ mask
    [] f = "xor"    -> (old \ mask) \cup (mask \ old)

------------------------------------------------------------------------------
(* GPIO                                                                    *)

gpio_dir_set(pin, direction) ==
  IF direction = "input"
    THEN Modify("gpioen", "or", {pin}) \o Modify("paddir", "andnot", {pin})
    ELSE Modify("gpioen", "andnot", {pin}) \o Modify("paddir", "or", {pin})

gpio_pin_write(pin, level) ==
  Modify("padout", IF level = "low" THEN "andnot" ELSE "or", {pin})

gpio_pin_toggle(pin) == Modify("padout", "xor", {pin})

(* inttype has two bits of each pin: 0 falling, 1 rising, 2 both           *)
TypeBits(pin, type) ==
  CASE type = "falling_edge" -> {}
    [] type = "rising_edge"  -> {2 * pin}
    [] type = "both_edges"   -> {2 * pin + 1}

gpio_irq_cfg_set(pin, type) ==
  Modify("inttype", "andnot", {2 * pin, 2 * pin + 1})
    \o Modify("inttype", "or", TypeBits(pin, type))

gpio_irq_enable(pin) == Modify("inten", "or", {pin})

------------------------------------------------------------------------------
(* PLIC, APB timer, CLINT and interrupt enables                            *)

plic_set_priority(irq, prio) ==
  IF irq \in IrqSources THEN SetPriority(irq, prio % 256) ELSE << >>

plic_enable_irq(irq)  == Modify("plic_en", "or", {irq})

set_cmp_reg  == Store("cmp", {0})
enable_timer == Store("ctrl", {0})

(* Mutant: the call is lost.                                                *)
set_timer_Lost(rtc_cycles) == << >>

set_timer(rtc_cycles) == SetTimer(rtc_cycles)

start_timer == Csrs("mstatus", {"MIE"}) \o Csrs("mie", {"M_TIMER"})
enable_plic == Csrs("mstatus", {"MIE"}) \o Csrs("mie", {"M_EXT"})
enable_clint_sw_interrupts ==
  Csrs("mstatus", {"MIE"}) \o Csrs("mie", {"M_SOFT"})

------------------------------------------------------------------------------
(* The test programs.  crt0 enables interrupts globally before main.       *)

crt0 == Csrs("mstatus", {"MIE"})

plic_test ==
  LET setup == crt0 \o Puts \o set_timer(MaxTime) \o enable_plic
                 \o SetPriority(APB_TIMER_COMPARE_IRQ, 1)
                 \o plic_enable_irq(APB_TIMER_COMPARE_IRQ)
                 \o set_cmp_reg \o enable_timer
  IN setup \o Wfi \o Count \o Nops \o Puts
       \o LoopBack(Wakeups, Len(setup) + 1) \o Puts

gpio_test ==
  crt0 \o Puts
    \o gpio_dir_set(0, "output") \o gpio_dir_set(1, "input")
    \o gpio_pin_write(0, "high") \o WaitPinHigh(1)
    \o gpio_pin_toggle(0)
    \o gpio_dir_set(1, "output") \o gpio_dir_set(0, "input")
    \o gpio_pin_write(1, "high") \o WaitPinHigh(0)
    \o gpio_pin_toggle(1)
    \o set_timer(MaxTime) \o enable_plic
    \o SetPriority(GPIO_IRQ, 1) \o plic_enable_irq(GPIO_IRQ)
    \o gpio_irq_cfg_set(0, "rising_edge") \o gpio_irq_enable(0)
    \o gpio_pin_toggle(1) \o Wfi \o Nops
    \o gpio_irq_cfg_set(0, "falling_edge")
    \o gpio_pin_toggle(1) \o Wfi \o Nops \o Puts

(* Mutant: the interrupt is enabled before the last toggle of main.        *)
timer_test_EarlyEnable ==
  LET setup == crt0 \o Register(APB_TIMER_COMPARE_IRQ, "timer_compare_handler")
                 \o Puts \o set_cmp_reg \o enable_plic
                 \o plic_set_priority(APB_TIMER_COMPARE_IRQ, 1)
                 \o plic_enable_irq(APB_TIMER_COMPARE_IRQ) \o enable_timer
                 \o gpio_dir_set(0, "output") \o gpio_dir_set(1, "output")
                 \o gpio_pin_toggle(0)
  IN setup \o Wfi \o Forever(Len(setup) + 1)

timer_test ==
  LET setup == crt0 \o Register(APB_TIMER_COMPARE_IRQ, "timer_compare_handler")
                 \o Puts
                 \o gpio_dir_set(0, "output") \o gpio_dir_set(1, "output")
                 \o gpio_pin_toggle(0) \o set_cmp_reg \o enable_plic
                 \o plic_set_priority(APB_TIMER_COMPARE_IRQ, 1)
                 \o plic_enable_irq(APB_TIMER_COMPARE_IRQ) \o enable_timer
  IN setup \o Wfi \o Forever(Len(setup) + 1)

timer_compare_handler == Puts \o gpio_pin_toggle(0) \o gpio_pin_toggle(1)

(* Mutant: the timer interrupt is enabled before its time is set.          *)
timer_trap_test_EnableFirst(mtimecmp) ==
  crt0 \o Puts \o start_timer \o set_timer(mtimecmp)
    \o WaitTrapId("M_TIMER") \o Puts

timer_trap_test(mtimecmp) ==
  crt0 \o Puts \o set_timer(mtimecmp) \o start_timer
    \o WaitTrapId("M_TIMER") \o Puts

sw_trap_test ==
  crt0 \o Puts \o enable_clint_sw_interrupts \o Simple("ipi") \o Puts
    \o WaitTrapId("M_SOFT") \o Puts

(* an access that the bus or the core rejects                              *)
faulting_test == crt0 \o Puts \o Simple("fault") \o Puts

Programs ==
  [plic_test |-> plic_test, gpio_test |-> gpio_test, timer_test |-> timer_test,
   timer_trap_test |-> timer_trap_test(Half - 2),
   long_timer_trap_test |-> timer_trap_test(Half + 1),
   sw_trap_test |-> sw_trap_test, faulting_test |-> faulting_test]

=============================================================================
