-------------------------- MODULE InterruptsProofs --------------------------
(***************************************************************************)
(* The safety properties of the interrupt tests, for every width of the    *)
(* CLINT's registers, every number of wake-ups a test waits for and every  *)
(* number of RTC ticks.                                                    *)
(*                                                                         *)
(* The test programs are concatenations of driver calls; the first part    *)
(* lists them statement by statement.  The invariants then say what the    *)
(* machine has been set to by the statement main is at, and what is left   *)
(* of a trap.                                                              *)
(***************************************************************************)
EXTENDS Interrupts, SequenceTheorems, TLAPS

------------------------------------------------------------------------------
(* Listings                                                                *)

Plain(op)            == [op |-> op]
SetBits(name, bits)  == [op |-> "csrs", csr |-> name, bits |-> bits]
LoadOf(r)            == [op |-> "load", reg |-> r]
ModifyOf(r, f, mask) == [op |-> "modify", reg |-> r, f |-> f, mask |-> mask]
StoreOf(r, val)      == [op |-> "store", reg |-> r, val |-> val]
PriorityOf(irq, val) == [op |-> "priority", irq |-> irq, val |-> val]
CallbackOf(irq, h)   == [op |-> "callback", irq |-> irq, handler |-> h]
TimerAt(val)         == [op |-> "mtimecmp", val |-> val]
PinHigh(pin)         == [op |-> "wait_pin", pin |-> pin]
TrapIs(id)           == [op |-> "wait_trap", id |-> id]
WhileTo(count, to)   == [op |-> "while", count |-> count, to |-> to]
GotoOf(to)           == [op |-> "goto", to |-> to]

MIE   == SetBits("mstatus", {"MIE"})
PrintLine == Plain("print")

(* plic_test: wfi at 11, nops at 13                                        *)
PlicCode ==
  <<MIE, PrintLine, TimerAt(MaxTime), MIE, SetBits("mie", {"M_EXT"}), PriorityOf(2, 1),
    LoadOf("plic_en"), ModifyOf("plic_en", "or", {2}), StoreOf("cmp", {0}),
    StoreOf("ctrl", {0}), Plain("wfi"), Plain("count"), Plain("nops"), PrintLine,
    WhileTo(Wakeups, 11), PrintLine>>

(* gpio_test: wfi at 43 and 51, each followed by its nops                  *)
GpioCode ==
  <<MIE, PrintLine,
    LoadOf("gpioen"), ModifyOf("gpioen", "andnot", {0}),
    LoadOf("paddir"), ModifyOf("paddir", "or", {0}),
    LoadOf("gpioen"), ModifyOf("gpioen", "or", {1}),
    LoadOf("paddir"), ModifyOf("paddir", "andnot", {1}),
    LoadOf("padout"), ModifyOf("padout", "or", {0}), PinHigh(1),
    LoadOf("padout"), ModifyOf("padout", "xor", {0}),
    LoadOf("gpioen"), ModifyOf("gpioen", "andnot", {1}),
    LoadOf("paddir"), ModifyOf("paddir", "or", {1}),
    LoadOf("gpioen"), ModifyOf("gpioen", "or", {0}),
    LoadOf("paddir"), ModifyOf("paddir", "andnot", {0}),
    LoadOf("padout"), ModifyOf("padout", "or", {1}), PinHigh(0),
    LoadOf("padout"), ModifyOf("padout", "xor", {1}),
    TimerAt(MaxTime), MIE, SetBits("mie", {"M_EXT"}), PriorityOf(6, 1),
    LoadOf("plic_en"), ModifyOf("plic_en", "or", {6}),
    LoadOf("inttype"), ModifyOf("inttype", "andnot", {0, 1}),
    LoadOf("inttype"), ModifyOf("inttype", "or", {0}),
    LoadOf("inten"), ModifyOf("inten", "or", {0}),
    LoadOf("padout"), ModifyOf("padout", "xor", {1}), Plain("wfi"), Plain("nops"),
    LoadOf("inttype"), ModifyOf("inttype", "andnot", {0, 1}),
    LoadOf("inttype"), ModifyOf("inttype", "or", {}),
    LoadOf("padout"), ModifyOf("padout", "xor", {1}), Plain("wfi"), Plain("nops"),
    PrintLine>>

(* timer_test: main's toggle at 12 and 13, external interrupts on at 16    *)
TimerCode ==
  <<MIE, CallbackOf(2, "timer_compare_handler"), PrintLine,
    LoadOf("gpioen"), ModifyOf("gpioen", "andnot", {0}),
    LoadOf("paddir"), ModifyOf("paddir", "or", {0}),
    LoadOf("gpioen"), ModifyOf("gpioen", "andnot", {1}),
    LoadOf("paddir"), ModifyOf("paddir", "or", {1}),
    LoadOf("padout"), ModifyOf("padout", "xor", {0}),
    StoreOf("cmp", {0}), MIE, SetBits("mie", {"M_EXT"}), PriorityOf(2, 1),
    LoadOf("plic_en"), ModifyOf("plic_en", "or", {2}), StoreOf("ctrl", {0}),
    Plain("wfi"), GotoOf(21)>>

(* timer_trap_test: set_timer at 3, timer interrupts on at 5               *)
TrapCode(time) ==
  <<MIE, PrintLine, TimerAt(time), MIE, SetBits("mie", {"M_TIMER"}),
    TrapIs("M_TIMER"), PrintLine>>

SwTrapCode ==
  <<MIE, PrintLine, MIE, SetBits("mie", {"M_SOFT"}), Plain("ipi"), PrintLine,
    TrapIs("M_SOFT"), PrintLine>>

FaultCode == <<MIE, PrintLine, Plain("fault"), PrintLine>>

(* p is the first n statements of the listing t.                           *)
Elems(t) == {t[k] : k \in 1 .. Len(t)}
Prefix(p, n, t) ==
  /\ p \in Seq(Elems(t)) /\ Len(p) = n
  /\ \A k \in 1 .. n : p[k] = t[k]

(* Statement m of the listing comes right after statement n.               *)
Follows(n, m, t) == Len(t) \in Nat /\ n \in Nat /\ m = n + 1 /\ m <= Len(t)

(* A listing grows by one statement, by two, or by two pairs.              *)
LEMMA Extend1 ==
  ASSUME NEW t, Len(t) \in Nat, NEW p, NEW n \in Nat, Prefix(p, n, t), n + 1 <= Len(t),
         NEW x, x = t[n + 1]
  PROVE  Prefix(p \o <<x>>, n + 1, t)
<1> DEFINE S == Elems(t)
           q == <<x>>
<1>1. x \in S
  BY DEF Elems
<1>2. q \in Seq(S) /\ Len(q) = 1 /\ q[1] = x
  BY <1>1
<1>3. p \in Seq(S) /\ Len(p) = n /\ \A k \in 1 .. n : p[k] = t[k]
  BY DEF Prefix
<1> HIDE DEF S, q
<1>4. /\ p \o q \in Seq(S) /\ Len(p \o q) = Len(p) + Len(q)
      /\ \A i \in 1 .. Len(p) + Len(q) :
           (p \o q)[i] = IF i <= Len(p) THEN p[i] ELSE q[i - Len(p)]
  <2>1. p \in Seq(S) /\ q \in Seq(S)
    BY <1>2, <1>3
  <2> QED BY <2>1, ConcatProperties
<1>5. ASSUME NEW k \in 1 .. (n + 1) PROVE (p \o q)[k] = t[k]
  <2>1. CASE k <= n
    BY <1>2, <1>3, <1>4, <2>1
  <2>2. CASE ~ (k <= n)
    <3>1. /\ k = n + 1 /\ k - Len(p) = 1
          /\ ~ (k <= Len(p)) /\ k \in 1 .. Len(p) + Len(q)
      BY <1>2, <1>3, <2>2
    <3> QED BY <1>2, <1>4, <3>1
  <2> QED BY <2>1, <2>2
<1>6. Len(p \o q) = n + 1
  BY <1>2, <1>3, <1>4
<1>7. Prefix(p \o q, n + 1, t)
  BY <1>4, <1>5, <1>6 DEF Prefix, S
<1> QED BY <1>7 DEF q

LEMMA Pair ==
  ASSUME NEW x, NEW y
  PROVE  <<x>> \o <<y>> = <<x, y>>
<1> DEFINE S == {x, y}
<1>1. <<x>> \in Seq(S) /\ <<y>> \in Seq(S) /\ x \in S /\ y \in S
  OBVIOUS
<1>2. <<x, y>> = Append(<<x>>, y)
  <2>1. <<x, y>> \in Seq(S) /\ Len(<<x, y>>) = 2
    OBVIOUS
  <2>2. /\ Append(<<x>>, y) \in Seq(S) /\ Len(Append(<<x>>, y)) = 2
        /\ Append(<<x>>, y)[1] = x /\ Append(<<x>>, y)[2] = y
    BY <1>1
  <2>3. \A i \in 1 .. 2 : <<x, y>>[i] = Append(<<x>>, y)[i]
    BY <2>2
  <2> QED BY <2>1, <2>2, <2>3, SeqEqual
<1>3. Append(<<x>>, y) = <<x>> \o <<y>>
  <2> HIDE DEF S
  <2> QED BY <1>1, AppendIsConcat
<1> QED BY <1>2, <1>3

LEMMA Extend2 ==
  ASSUME NEW t, Len(t) \in Nat, NEW p, NEW n \in Nat, Prefix(p, n, t), n + 2 <= Len(t),
         NEW x, x = t[n + 1], NEW y, y = t[n + 2]
  PROVE  Prefix(p \o <<x, y>>, n + 2, t)
<1> DEFINE S == Elems(t)
<1>1. x \in S /\ y \in S
  BY DEF Elems
<1>2. Prefix((p \o <<x>>) \o <<y>>, n + 2, t)
  <2>1. Prefix(p \o <<x>>, n + 1, t)
    BY Extend1
  <2>2. n + 1 \in Nat /\ (n + 1) + 1 <= Len(t) /\ y = t[(n + 1) + 1] /\ (n + 1) + 1 = n + 2
    OBVIOUS
  <2>3. Prefix((p \o <<x>>) \o <<y>>, (n + 1) + 1, t)
    BY <2>1, <2>2, Extend1
  <2> QED BY <2>2, <2>3
<1>3. p \in Seq(S) /\ <<x>> \in Seq(S) /\ <<y>> \in Seq(S)
  BY <1>1 DEF Prefix
<1>4. (p \o <<x>>) \o <<y>> = p \o (<<x>> \o <<y>>)
  <2> HIDE DEF S
  <2> QED BY <1>3, ConcatAssociative
<1>5. <<x>> \o <<y>> = <<x, y>>
  BY Pair
<1> QED BY <1>2, <1>4, <1>5

LEMMA Regroup ==
  ASSUME NEW S, NEW p \in Seq(S), NEW b \in Seq(S), NEW c \in Seq(S)
  PROVE  (p \o b) \o c = p \o (b \o c)
BY ConcatAssociative

LEMMA RegroupPairs ==
  ASSUME NEW S, NEW p \in Seq(S),
         NEW b \in Seq(S), NEW x, NEW y, b = <<x, y>>,
         NEW c \in Seq(S), NEW u, NEW v, c = <<u, v>>
  PROVE  (p \o <<x, y>>) \o <<u, v>> = p \o (<<x, y>> \o <<u, v>>)
<1>1. (p \o b) \o c = p \o (b \o c)
  BY Regroup
<1> QED BY <1>1, Zenon

LEMMA Extend4 ==
  ASSUME NEW t, Len(t) \in Nat, NEW p, NEW n \in Nat, Prefix(p, n, t), n + 4 <= Len(t),
         NEW x, x = t[n + 1], NEW y, y = t[n + 2],
         NEW u, u = t[n + 3], NEW v, v = t[n + 4]
  PROVE  Prefix(p \o (<<x, y>> \o <<u, v>>), n + 4, t)
<1> DEFINE S == Elems(t)
<1>1. x \in S /\ y \in S /\ u \in S /\ v \in S
  BY DEF Elems
<1>2. Prefix((p \o <<x, y>>) \o <<u, v>>, n + 4, t)
  <2>1. Prefix(p \o <<x, y>>, n + 2, t)
    BY Extend2
  <2>2. /\ n + 2 \in Nat /\ (n + 2) + 2 <= Len(t) /\ (n + 2) + 2 = n + 4
        /\ u = t[(n + 2) + 1] /\ v = t[(n + 2) + 2]
    OBVIOUS
  <2>3. Prefix((p \o <<x, y>>) \o <<u, v>>, (n + 2) + 2, t)
    BY <2>1, <2>2, Extend2
  <2> QED BY <2>2, <2>3
<1>3. p \in Seq(S) /\ <<x, y>> \in Seq(S) /\ <<u, v>> \in Seq(S)
  BY <1>1 DEF Prefix
<1>4. (p \o <<x, y>>) \o <<u, v>> = p \o (<<x, y>> \o <<u, v>>)
  <2> HIDE DEF S
  <2> QED BY <1>3, RegroupPairs
<1> QED BY <1>2, <1>4

(* The first statement, those that are added, and the whole.               *)
LEMMA First ==
  ASSUME NEW t, Follows(0, 1, t), NEW q, q = <<t[1]>>
  PROVE  Prefix(q, 1, t)
<1>1. t[1] \in Elems(t)
  BY DEF Elems, Follows
<1> QED BY <1>1 DEF Prefix

LEMMA Adds1 ==
  ASSUME NEW t, NEW n, NEW m, NEW p, Prefix(p, n, t), Follows(n, m, t),
         NEW q, q = <<t[m]>>
  PROVE  Prefix(p \o q, m, t)
<1>1. Prefix(p \o <<t[n + 1]>>, n + 1, t)
  BY Extend1 DEF Follows
<1> QED BY <1>1 DEF Follows

LEMMA Adds2 ==
  ASSUME NEW t, NEW n, NEW l, NEW m, NEW p, Prefix(p, n, t),
         Follows(n, l, t), Follows(l, m, t), NEW q, q = <<t[l], t[m]>>
  PROVE  Prefix(p \o q, m, t)
<1>1. /\ Len(t) \in Nat /\ n \in Nat /\ n + 2 <= Len(t)
      /\ l = n + 1 /\ m = n + 2
  BY DEF Follows
<1>2. Prefix(p \o <<t[n + 1], t[n + 2]>>, n + 2, t)
  BY <1>1, Extend2
<1> QED BY <1>1, <1>2

LEMMA Adds4 ==
  ASSUME NEW t, NEW n, NEW j, NEW k, NEW l, NEW m, NEW p, Prefix(p, n, t),
         Follows(n, j, t), Follows(j, k, t), Follows(k, l, t), Follows(l, m, t),
         NEW q, q = <<t[j], t[k]>> \o <<t[l], t[m]>>
  PROVE  Prefix(p \o q, m, t)
<1>1. /\ Len(t) \in Nat /\ n \in Nat /\ n + 4 <= Len(t)
      /\ j = n + 1 /\ k = n + 2 /\ l = n + 3 /\ m = n + 4
  BY DEF Follows
<1>2. Prefix(p \o (<<t[n + 1], t[n + 2]>> \o <<t[n + 3], t[n + 4]>>), n + 4, t)
  BY <1>1, Extend4
<1> QED BY <1>1, <1>2

LEMMA Whole ==
  ASSUME NEW t, NEW p, t \in Seq(Elems(t)), Prefix(p, Len(t), t)
  PROVE  p = t
<1> DEFINE S == Elems(t)
<1>1. p \in Seq(S) /\ t \in Seq(S) /\ Len(p) = Len(t) /\ \A k \in 1 .. Len(p) : p[k] = t[k]
  BY DEF Prefix
<1> HIDE DEF S
<1> QED BY <1>1, SeqEqual

(* What the calls of the programs are made of.                             *)
LEMMA Statements ==
  /\ crt0 = <<MIE>> /\ Puts = <<PrintLine>> /\ Nops = <<Plain("nops")>>
  /\ Wfi = <<Plain("wfi")>> /\ Count = <<Plain("count")>>
  /\ set_cmp_reg = <<StoreOf("cmp", {0})>> /\ enable_timer = <<StoreOf("ctrl", {0})>>
  /\ \A v : set_timer(v) = <<TimerAt(v)>>
  /\ \A op : Simple(op) = <<Plain(op)>>
  /\ \A irq, v : SetPriority(irq, v) = <<PriorityOf(irq, v)>>
  /\ \A pin : WaitPinHigh(pin) = <<PinHigh(pin)>>
  /\ \A id : WaitTrapId(id) = <<TrapIs(id)>>
  /\ \A n, to : LoopBack(n, to) = <<WhileTo(n, to)>>
  /\ \A to : Forever(to) = <<GotoOf(to)>>
  /\ \A irq, h : Register(irq, h) = <<CallbackOf(irq, h)>>
  /\ \A r, f, mask : Modify(r, f, mask) = <<LoadOf(r), ModifyOf(r, f, mask)>>
BY DEF crt0, Puts, Nops, Wfi, Count, set_cmp_reg, enable_timer, set_timer, Simple,
       SetPriority, WaitPinHigh, WaitTrapId, LoopBack, Forever, Register, Modify,
       Csrs, Store, SetTimer, MIE, PrintLine, Plain, SetBits, StoreOf, TimerAt, PriorityOf,
       PinHigh, TrapIs, WhileTo, GotoOf, CallbackOf, LoadOf, ModifyOf

LEMMA Calls ==
  /\ enable_plic = <<MIE, SetBits("mie", {"M_EXT"})>>
  /\ start_timer = <<MIE, SetBits("mie", {"M_TIMER"})>>
  /\ enable_clint_sw_interrupts = <<MIE, SetBits("mie", {"M_SOFT"})>>
  /\ plic_set_priority(APB_TIMER_COMPARE_IRQ, 1) = <<PriorityOf(2, 1)>>
  /\ SetPriority(APB_TIMER_COMPARE_IRQ, 1) = <<PriorityOf(2, 1)>>
  /\ SetPriority(GPIO_IRQ, 1) = <<PriorityOf(6, 1)>>
  /\ Register(APB_TIMER_COMPARE_IRQ, "timer_compare_handler")
       = <<CallbackOf(2, "timer_compare_handler")>>
  /\ plic_enable_irq(APB_TIMER_COMPARE_IRQ)
       = <<LoadOf("plic_en"), ModifyOf("plic_en", "or", {2})>>
  /\ plic_enable_irq(GPIO_IRQ) = <<LoadOf("plic_en"), ModifyOf("plic_en", "or", {6})>>
  /\ \A pin :
       /\ gpio_pin_write(pin, "high") = <<LoadOf("padout"), ModifyOf("padout", "or", {pin})>>
       /\ gpio_pin_toggle(pin) = <<LoadOf("padout"), ModifyOf("padout", "xor", {pin})>>
       /\ gpio_irq_enable(pin) = <<LoadOf("inten"), ModifyOf("inten", "or", {pin})>>
       /\ gpio_dir_set(pin, "output")
            = <<LoadOf("gpioen"), ModifyOf("gpioen", "andnot", {pin})>>
                \o <<LoadOf("paddir"), ModifyOf("paddir", "or", {pin})>>
       /\ gpio_dir_set(pin, "input")
            = <<LoadOf("gpioen"), ModifyOf("gpioen", "or", {pin})>>
                \o <<LoadOf("paddir"), ModifyOf("paddir", "andnot", {pin})>>
  /\ gpio_irq_cfg_set(0, "rising_edge")
       = <<LoadOf("inttype"), ModifyOf("inttype", "andnot", {0, 1})>>
           \o <<LoadOf("inttype"), ModifyOf("inttype", "or", {0})>>
  /\ gpio_irq_cfg_set(0, "falling_edge")
       = <<LoadOf("inttype"), ModifyOf("inttype", "andnot", {0, 1})>>
           \o <<LoadOf("inttype"), ModifyOf("inttype", "or", {})>>
<1>1. /\ enable_plic = <<MIE, SetBits("mie", {"M_EXT"})>>
      /\ start_timer = <<MIE, SetBits("mie", {"M_TIMER"})>>
      /\ enable_clint_sw_interrupts = <<MIE, SetBits("mie", {"M_SOFT"})>>
  <2>1. \A reg_, bits : Csrs(reg_, bits) = <<SetBits(reg_, bits)>>
    BY DEF Csrs, SetBits
  <2>2. MIE = SetBits("mstatus", {"MIE"})
    BY DEF MIE
  <2> QED BY <2>1, <2>2, Pair DEF enable_plic, start_timer, enable_clint_sw_interrupts
<1>2. plic_set_priority(APB_TIMER_COMPARE_IRQ, 1) = SetPriority(2, 1)
  BY DEF plic_set_priority, APB_TIMER_COMPARE_IRQ, IrqSources
<1>3. {2 * 0, 2 * 0 + 1} = {0, 1} /\ {2 * 0} = {0}
  OBVIOUS
<1>4. /\ gpio_irq_cfg_set(0, "rising_edge")
           = Modify("inttype", "andnot", {0, 1}) \o Modify("inttype", "or", {0})
      /\ gpio_irq_cfg_set(0, "falling_edge")
           = Modify("inttype", "andnot", {0, 1}) \o Modify("inttype", "or", {})
  BY <1>3 DEF gpio_irq_cfg_set, TypeBits
<1>5. \A pin :
        /\ gpio_dir_set(pin, "output")
             = Modify("gpioen", "andnot", {pin}) \o Modify("paddir", "or", {pin})
        /\ gpio_dir_set(pin, "input")
             = Modify("gpioen", "or", {pin}) \o Modify("paddir", "andnot", {pin})
        /\ gpio_pin_write(pin, "high") = Modify("padout", "or", {pin})
        /\ gpio_pin_toggle(pin) = Modify("padout", "xor", {pin})
        /\ gpio_irq_enable(pin) = Modify("inten", "or", {pin})
  BY DEF gpio_dir_set, gpio_pin_write, gpio_pin_toggle, gpio_irq_enable
<1>6. /\ plic_enable_irq(APB_TIMER_COMPARE_IRQ) = Modify("plic_en", "or", {2})
      /\ plic_enable_irq(GPIO_IRQ) = Modify("plic_en", "or", {6})
      /\ APB_TIMER_COMPARE_IRQ = 2 /\ GPIO_IRQ = 6
  BY DEF plic_enable_irq, APB_TIMER_COMPARE_IRQ, GPIO_IRQ
<1> QED BY <1>1, <1>2, <1>4, <1>5, <1>6, Statements

LEMMA PlicSize == Len(PlicCode) = 16
BY DEF PlicCode

LEMMA PlicListing == plic_test = PlicCode
<1> DEFINE p2 == crt0 \o Puts
           p3 == p2 \o set_timer(MaxTime)
           p5 == p3 \o enable_plic
           p6 == p5 \o SetPriority(APB_TIMER_COMPARE_IRQ, 1)
           p8 == p6 \o plic_enable_irq(APB_TIMER_COMPARE_IRQ)
           p9 == p8 \o set_cmp_reg
           p10 == p9 \o enable_timer
           p11 == p10 \o Wfi
           p12 == p11 \o Count
           p13 == p12 \o Nops
           p14 == p13 \o Puts
           p15 == p14 \o LoopBack(Wakeups, 11)
           p16 == p15 \o Puts
<1> HIDE DEF p2, p3, p5, p6, p8, p9, p10, p11, p12, p13, p14, p15, p16
<1>1. Prefix(crt0, 1, PlicCode)
  <2>1. crt0 = <<PlicCode[1]>>
    BY Statements DEF PlicCode
  <2>2. Follows(0, 1, PlicCode)
    BY PlicSize DEF Follows
  <2> QED BY <2>1, <2>2, First
<1>2. Prefix(p2, 2, PlicCode)
  <2>1. Puts = <<PlicCode[2]>>
    BY Statements DEF PlicCode
  <2>2. Follows(1, 2, PlicCode)
    BY PlicSize DEF Follows
  <2> QED BY <1>1, <2>1, <2>2, Adds1 DEF p2
<1>3. Prefix(p3, 3, PlicCode)
  <2>1. set_timer(MaxTime) = <<PlicCode[3]>>
    BY Statements DEF PlicCode
  <2>2. Follows(2, 3, PlicCode)
    BY PlicSize DEF Follows
  <2> QED BY <1>2, <2>1, <2>2, Adds1 DEF p3
<1>4. Prefix(p5, 5, PlicCode)
  <2>1. enable_plic = <<PlicCode[4], PlicCode[5]>>
    BY Calls DEF PlicCode
  <2>2. Follows(3, 4, PlicCode) /\ Follows(4, 5, PlicCode)
    BY PlicSize DEF Follows
  <2> QED BY <1>3, <2>1, <2>2, Adds2 DEF p5
<1>5. Prefix(p6, 6, PlicCode)
  <2>1. SetPriority(APB_TIMER_COMPARE_IRQ, 1) = <<PlicCode[6]>>
    BY Calls DEF PlicCode
  <2>2. Follows(5, 6, PlicCode)
    BY PlicSize DEF Follows
  <2> QED BY <1>4, <2>1, <2>2, Adds1 DEF p6
<1>6. Prefix(p8, 8, PlicCode)
  <2>1. plic_enable_irq(APB_TIMER_COMPARE_IRQ) = <<PlicCode[7], PlicCode[8]>>
    BY Calls DEF PlicCode
  <2>2. Follows(6, 7, PlicCode) /\ Follows(7, 8, PlicCode)
    BY PlicSize DEF Follows
  <2> QED BY <1>5, <2>1, <2>2, Adds2 DEF p8
<1>7. Prefix(p9, 9, PlicCode)
  <2>1. set_cmp_reg = <<PlicCode[9]>>
    BY Statements DEF PlicCode
  <2>2. Follows(8, 9, PlicCode)
    BY PlicSize DEF Follows
  <2> QED BY <1>6, <2>1, <2>2, Adds1 DEF p9
<1>8. Prefix(p10, 10, PlicCode)
  <2>1. enable_timer = <<PlicCode[10]>>
    BY Statements DEF PlicCode
  <2>2. Follows(9, 10, PlicCode)
    BY PlicSize DEF Follows
  <2> QED BY <1>7, <2>1, <2>2, Adds1 DEF p10
<1>9. Prefix(p11, 11, PlicCode)
  <2>1. Wfi = <<PlicCode[11]>>
    BY Statements DEF PlicCode
  <2>2. Follows(10, 11, PlicCode)
    BY PlicSize DEF Follows
  <2> QED BY <1>8, <2>1, <2>2, Adds1 DEF p11
<1>10. Prefix(p12, 12, PlicCode)
  <2>1. Count = <<PlicCode[12]>>
    BY Statements DEF PlicCode
  <2>2. Follows(11, 12, PlicCode)
    BY PlicSize DEF Follows
  <2> QED BY <1>9, <2>1, <2>2, Adds1 DEF p12
<1>11. Prefix(p13, 13, PlicCode)
  <2>1. Nops = <<PlicCode[13]>>
    BY Statements DEF PlicCode
  <2>2. Follows(12, 13, PlicCode)
    BY PlicSize DEF Follows
  <2> QED BY <1>10, <2>1, <2>2, Adds1 DEF p13
<1>12. Prefix(p14, 14, PlicCode)
  <2>1. Puts = <<PlicCode[14]>>
    BY Statements DEF PlicCode
  <2>2. Follows(13, 14, PlicCode)
    BY PlicSize DEF Follows
  <2> QED BY <1>11, <2>1, <2>2, Adds1 DEF p14
<1>13. Prefix(p15, 15, PlicCode)
  <2>1. LoopBack(Wakeups, 11) = <<PlicCode[15]>>
    BY Statements DEF PlicCode
  <2>2. Follows(14, 15, PlicCode)
    BY PlicSize DEF Follows
  <2> QED BY <1>12, <2>1, <2>2, Adds1 DEF p15
<1>14. Prefix(p16, 16, PlicCode)
  <2>1. Puts = <<PlicCode[16]>>
    BY Statements DEF PlicCode
  <2>2. Follows(15, 16, PlicCode)
    BY PlicSize DEF Follows
  <2> QED BY <1>13, <2>1, <2>2, Adds1 DEF p16
<1>15. p16 = PlicCode
  <2>1. PlicCode \in Seq(Elems(PlicCode))
    BY DEF PlicCode, Elems
  <2> QED BY <1>14, <2>1, PlicSize, Whole
<1>16. Len(p10) + 1 = 11
  BY <1>8, PlicSize DEF Prefix
<1> QED BY <1>15, <1>16
        DEF plic_test, p2, p3, p5, p6, p8, p9, p10, p11, p12, p13, p14, p15, p16

LEMMA GpioSize == Len(GpioCode) = 53
BY DEF GpioCode

LEMMA GpioListing == gpio_test = GpioCode
<1> DEFINE p2 == crt0 \o Puts
           p6 == p2 \o gpio_dir_set(0, "output")
           p10 == p6 \o gpio_dir_set(1, "input")
           p12 == p10 \o gpio_pin_write(0, "high")
           p13 == p12 \o WaitPinHigh(1)
           p15 == p13 \o gpio_pin_toggle(0)
           p19 == p15 \o gpio_dir_set(1, "output")
           p23 == p19 \o gpio_dir_set(0, "input")
           p25 == p23 \o gpio_pin_write(1, "high")
           p26 == p25 \o WaitPinHigh(0)
           p28 == p26 \o gpio_pin_toggle(1)
           p29 == p28 \o set_timer(MaxTime)
           p31 == p29 \o enable_plic
           p32 == p31 \o SetPriority(GPIO_IRQ, 1)
           p34 == p32 \o plic_enable_irq(GPIO_IRQ)
           p38 == p34 \o gpio_irq_cfg_set(0, "rising_edge")
           p40 == p38 \o gpio_irq_enable(0)
           p42 == p40 \o gpio_pin_toggle(1)
           p43 == p42 \o Wfi
           p44 == p43 \o Nops
           p48 == p44 \o gpio_irq_cfg_set(0, "falling_edge")
           p50 == p48 \o gpio_pin_toggle(1)
           p51 == p50 \o Wfi
           p52 == p51 \o Nops
           p53 == p52 \o Puts
<1> HIDE DEF p2, p6, p10, p12, p13, p15, p19, p23, p25, p26, p28, p29, p31, p32, p34,
             p38, p40, p42, p43, p44, p48, p50, p51, p52, p53
<1>1. Prefix(crt0, 1, GpioCode)
  <2>1. crt0 = <<GpioCode[1]>>
    BY Statements DEF GpioCode
  <2>2. Follows(0, 1, GpioCode)
    BY GpioSize DEF Follows
  <2> QED BY <2>1, <2>2, First
<1>2. Prefix(p2, 2, GpioCode)
  <2>1. Puts = <<GpioCode[2]>>
    BY Statements DEF GpioCode
  <2>2. Follows(1, 2, GpioCode)
    BY GpioSize DEF Follows
  <2> QED BY <1>1, <2>1, <2>2, Adds1 DEF p2
<1>3. Prefix(p6, 6, GpioCode)
  <2>1. gpio_dir_set(0, "output")
           = <<GpioCode[3], GpioCode[4]>> \o <<GpioCode[5], GpioCode[6]>>
    BY Calls DEF GpioCode
  <2>2. Follows(2, 3, GpioCode) /\ Follows(3, 4, GpioCode)
        /\ Follows(4, 5, GpioCode) /\ Follows(5, 6, GpioCode)
    BY GpioSize DEF Follows
  <2> QED BY <1>2, <2>1, <2>2, Adds4 DEF p6
<1>4. Prefix(p10, 10, GpioCode)
  <2>1. gpio_dir_set(1, "input")
           = <<GpioCode[7], GpioCode[8]>> \o <<GpioCode[9], GpioCode[10]>>
    BY Calls DEF GpioCode
  <2>2. Follows(6, 7, GpioCode) /\ Follows(7, 8, GpioCode)
        /\ Follows(8, 9, GpioCode) /\ Follows(9, 10, GpioCode)
    BY GpioSize DEF Follows
  <2> QED BY <1>3, <2>1, <2>2, Adds4 DEF p10
<1>5. Prefix(p12, 12, GpioCode)
  <2>1. gpio_pin_write(0, "high") = <<GpioCode[11], GpioCode[12]>>
    BY Calls DEF GpioCode
  <2>2. Follows(10, 11, GpioCode) /\ Follows(11, 12, GpioCode)
    BY GpioSize DEF Follows
  <2> QED BY <1>4, <2>1, <2>2, Adds2 DEF p12
<1>6. Prefix(p13, 13, GpioCode)
  <2>1. WaitPinHigh(1) = <<GpioCode[13]>>
    BY Statements DEF GpioCode
  <2>2. Follows(12, 13, GpioCode)
    BY GpioSize DEF Follows
  <2> QED BY <1>5, <2>1, <2>2, Adds1 DEF p13
<1>7. Prefix(p15, 15, GpioCode)
  <2>1. gpio_pin_toggle(0) = <<GpioCode[14], GpioCode[15]>>
    BY Calls DEF GpioCode
  <2>2. Follows(13, 14, GpioCode) /\ Follows(14, 15, GpioCode)
    BY GpioSize DEF Follows
  <2> QED BY <1>6, <2>1, <2>2, Adds2 DEF p15
<1>8. Prefix(p19, 19, GpioCode)
  <2>1. gpio_dir_set(1, "output")
           = <<GpioCode[16], GpioCode[17]>> \o <<GpioCode[18], GpioCode[19]>>
    BY Calls DEF GpioCode
  <2>2. Follows(15, 16, GpioCode) /\ Follows(16, 17, GpioCode)
        /\ Follows(17, 18, GpioCode) /\ Follows(18, 19, GpioCode)
    BY GpioSize DEF Follows
  <2> QED BY <1>7, <2>1, <2>2, Adds4 DEF p19
<1>9. Prefix(p23, 23, GpioCode)
  <2>1. gpio_dir_set(0, "input")
           = <<GpioCode[20], GpioCode[21]>> \o <<GpioCode[22], GpioCode[23]>>
    BY Calls DEF GpioCode
  <2>2. Follows(19, 20, GpioCode) /\ Follows(20, 21, GpioCode)
        /\ Follows(21, 22, GpioCode) /\ Follows(22, 23, GpioCode)
    BY GpioSize DEF Follows
  <2> QED BY <1>8, <2>1, <2>2, Adds4 DEF p23
<1>10. Prefix(p25, 25, GpioCode)
  <2>1. gpio_pin_write(1, "high") = <<GpioCode[24], GpioCode[25]>>
    BY Calls DEF GpioCode
  <2>2. Follows(23, 24, GpioCode) /\ Follows(24, 25, GpioCode)
    BY GpioSize DEF Follows
  <2> QED BY <1>9, <2>1, <2>2, Adds2 DEF p25
<1>11. Prefix(p26, 26, GpioCode)
  <2>1. WaitPinHigh(0) = <<GpioCode[26]>>
    BY Statements DEF GpioCode
  <2>2. Follows(25, 26, GpioCode)
    BY GpioSize DEF Follows
  <2> QED BY <1>10, <2>1, <2>2, Adds1 DEF p26
<1>12. Prefix(p28, 28, GpioCode)
  <2>1. gpio_pin_toggle(1) = <<GpioCode[27], GpioCode[28]>>
    BY Calls DEF GpioCode
  <2>2. Follows(26, 27, GpioCode) /\ Follows(27, 28, GpioCode)
    BY GpioSize DEF Follows
  <2> QED BY <1>11, <2>1, <2>2, Adds2 DEF p28
<1>13. Prefix(p29, 29, GpioCode)
  <2>1. set_timer(MaxTime) = <<GpioCode[29]>>
    BY Statements DEF GpioCode
  <2>2. Follows(28, 29, GpioCode)
    BY GpioSize DEF Follows
  <2> QED BY <1>12, <2>1, <2>2, Adds1 DEF p29
<1>14. Prefix(p31, 31, GpioCode)
  <2>1. enable_plic = <<GpioCode[30], GpioCode[31]>>
    BY Calls DEF GpioCode
  <2>2. Follows(29, 30, GpioCode) /\ Follows(30, 31, GpioCode)
    BY GpioSize DEF Follows
  <2> QED BY <1>13, <2>1, <2>2, Adds2 DEF p31
<1>15. Prefix(p32, 32, GpioCode)
  <2>1. SetPriority(GPIO_IRQ, 1) = <<GpioCode[32]>>
    BY Calls DEF GpioCode
  <2>2. Follows(31, 32, GpioCode)
    BY GpioSize DEF Follows
  <2> QED BY <1>14, <2>1, <2>2, Adds1 DEF p32
<1>16. Prefix(p34, 34, GpioCode)
  <2>1. plic_enable_irq(GPIO_IRQ) = <<GpioCode[33], GpioCode[34]>>
    BY Calls DEF GpioCode
  <2>2. Follows(32, 33, GpioCode) /\ Follows(33, 34, GpioCode)
    BY GpioSize DEF Follows
  <2> QED BY <1>15, <2>1, <2>2, Adds2 DEF p34
<1>17. Prefix(p38, 38, GpioCode)
  <2>1. gpio_irq_cfg_set(0, "rising_edge")
           = <<GpioCode[35], GpioCode[36]>> \o <<GpioCode[37], GpioCode[38]>>
    BY Calls DEF GpioCode
  <2>2. Follows(34, 35, GpioCode) /\ Follows(35, 36, GpioCode)
        /\ Follows(36, 37, GpioCode) /\ Follows(37, 38, GpioCode)
    BY GpioSize DEF Follows
  <2> QED BY <1>16, <2>1, <2>2, Adds4 DEF p38
<1>18. Prefix(p40, 40, GpioCode)
  <2>1. gpio_irq_enable(0) = <<GpioCode[39], GpioCode[40]>>
    BY Calls DEF GpioCode
  <2>2. Follows(38, 39, GpioCode) /\ Follows(39, 40, GpioCode)
    BY GpioSize DEF Follows
  <2> QED BY <1>17, <2>1, <2>2, Adds2 DEF p40
<1>19. Prefix(p42, 42, GpioCode)
  <2>1. gpio_pin_toggle(1) = <<GpioCode[41], GpioCode[42]>>
    BY Calls DEF GpioCode
  <2>2. Follows(40, 41, GpioCode) /\ Follows(41, 42, GpioCode)
    BY GpioSize DEF Follows
  <2> QED BY <1>18, <2>1, <2>2, Adds2 DEF p42
<1>20. Prefix(p43, 43, GpioCode)
  <2>1. Wfi = <<GpioCode[43]>>
    BY Statements DEF GpioCode
  <2>2. Follows(42, 43, GpioCode)
    BY GpioSize DEF Follows
  <2> QED BY <1>19, <2>1, <2>2, Adds1 DEF p43
<1>21. Prefix(p44, 44, GpioCode)
  <2>1. Nops = <<GpioCode[44]>>
    BY Statements DEF GpioCode
  <2>2. Follows(43, 44, GpioCode)
    BY GpioSize DEF Follows
  <2> QED BY <1>20, <2>1, <2>2, Adds1 DEF p44
<1>22. Prefix(p48, 48, GpioCode)
  <2>1. gpio_irq_cfg_set(0, "falling_edge")
           = <<GpioCode[45], GpioCode[46]>> \o <<GpioCode[47], GpioCode[48]>>
    BY Calls DEF GpioCode
  <2>2. Follows(44, 45, GpioCode) /\ Follows(45, 46, GpioCode)
        /\ Follows(46, 47, GpioCode) /\ Follows(47, 48, GpioCode)
    BY GpioSize DEF Follows
  <2> QED BY <1>21, <2>1, <2>2, Adds4 DEF p48
<1>23. Prefix(p50, 50, GpioCode)
  <2>1. gpio_pin_toggle(1) = <<GpioCode[49], GpioCode[50]>>
    BY Calls DEF GpioCode
  <2>2. Follows(48, 49, GpioCode) /\ Follows(49, 50, GpioCode)
    BY GpioSize DEF Follows
  <2> QED BY <1>22, <2>1, <2>2, Adds2 DEF p50
<1>24. Prefix(p51, 51, GpioCode)
  <2>1. Wfi = <<GpioCode[51]>>
    BY Statements DEF GpioCode
  <2>2. Follows(50, 51, GpioCode)
    BY GpioSize DEF Follows
  <2> QED BY <1>23, <2>1, <2>2, Adds1 DEF p51
<1>25. Prefix(p52, 52, GpioCode)
  <2>1. Nops = <<GpioCode[52]>>
    BY Statements DEF GpioCode
  <2>2. Follows(51, 52, GpioCode)
    BY GpioSize DEF Follows
  <2> QED BY <1>24, <2>1, <2>2, Adds1 DEF p52
<1>26. Prefix(p53, 53, GpioCode)
  <2>1. Puts = <<GpioCode[53]>>
    BY Statements DEF GpioCode
  <2>2. Follows(52, 53, GpioCode)
    BY GpioSize DEF Follows
  <2> QED BY <1>25, <2>1, <2>2, Adds1 DEF p53
<1>27. p53 = GpioCode
  <2> DEFINE S == Elems(GpioCode)
  <2>1. GpioCode \in Seq(S)
    <3>1. \A k \in 1 .. 53 : GpioCode[k] \in S
      BY GpioSize DEF Elems
    <3> HIDE DEF S
    <3> QED BY <3>1, SMTT(30) DEF GpioCode
  <2> QED BY <1>26, <2>1, GpioSize, Whole
<1> QED BY <1>27
        DEF gpio_test, p2, p6, p10, p12, p13, p15, p19, p23, p25, p26, p28, p29, p31, p32,
            p34, p38, p40, p42, p43, p44, p48, p50, p51, p52, p53

LEMMA TimerSize == Len(TimerCode) = 22
BY DEF TimerCode

LEMMA TimerListing == timer_test = TimerCode
<1> DEFINE p2 == crt0 \o Register(APB_TIMER_COMPARE_IRQ, "timer_compare_handler")
           p3 == p2 \o Puts
           p7 == p3 \o gpio_dir_set(0, "output")
           p11 == p7 \o gpio_dir_set(1, "output")
           p13 == p11 \o gpio_pin_toggle(0)
           p14 == p13 \o set_cmp_reg
           p16 == p14 \o enable_plic
           p17 == p16 \o plic_set_priority(APB_TIMER_COMPARE_IRQ, 1)
           p19 == p17 \o plic_enable_irq(APB_TIMER_COMPARE_IRQ)
           p20 == p19 \o enable_timer
           p21 == p20 \o Wfi
           p22 == p21 \o Forever(21)
<1> HIDE DEF p2, p3, p7, p11, p13, p14, p16, p17, p19, p20, p21, p22
<1>1. Prefix(crt0, 1, TimerCode)
  <2>1. crt0 = <<TimerCode[1]>>
    BY Statements DEF TimerCode
  <2>2. Follows(0, 1, TimerCode)
    BY TimerSize DEF Follows
  <2> QED BY <2>1, <2>2, First
<1>2. Prefix(p2, 2, TimerCode)
  <2>1. Register(APB_TIMER_COMPARE_IRQ, "timer_compare_handler") = <<TimerCode[2]>>
    BY Calls DEF TimerCode
  <2>2. Follows(1, 2, TimerCode)
    BY TimerSize DEF Follows
  <2> QED BY <1>1, <2>1, <2>2, Adds1 DEF p2
<1>3. Prefix(p3, 3, TimerCode)
  <2>1. Puts = <<TimerCode[3]>>
    BY Statements DEF TimerCode
  <2>2. Follows(2, 3, TimerCode)
    BY TimerSize DEF Follows
  <2> QED BY <1>2, <2>1, <2>2, Adds1 DEF p3
<1>4. Prefix(p7, 7, TimerCode)
  <2>1. gpio_dir_set(0, "output")
           = <<TimerCode[4], TimerCode[5]>> \o <<TimerCode[6], TimerCode[7]>>
    BY Calls DEF TimerCode
  <2>2. Follows(3, 4, TimerCode) /\ Follows(4, 5, TimerCode)
        /\ Follows(5, 6, TimerCode) /\ Follows(6, 7, TimerCode)
    BY TimerSize DEF Follows
  <2> QED BY <1>3, <2>1, <2>2, Adds4 DEF p7
<1>5. Prefix(p11, 11, TimerCode)
  <2>1. gpio_dir_set(1, "output")
           = <<TimerCode[8], TimerCode[9]>> \o <<TimerCode[10], TimerCode[11]>>
    BY Calls DEF TimerCode
  <2>2. Follows(7, 8, TimerCode) /\ Follows(8, 9, TimerCode)
        /\ Follows(9, 10, TimerCode) /\ Follows(10, 11, TimerCode)
    BY TimerSize DEF Follows
  <2> QED BY <1>4, <2>1, <2>2, Adds4 DEF p11
<1>6. Prefix(p13, 13, TimerCode)
  <2>1. gpio_pin_toggle(0) = <<TimerCode[12], TimerCode[13]>>
    BY Calls DEF TimerCode
  <2>2. Follows(11, 12, TimerCode) /\ Follows(12, 13, TimerCode)
    BY TimerSize DEF Follows
  <2> QED BY <1>5, <2>1, <2>2, Adds2 DEF p13
<1>7. Prefix(p14, 14, TimerCode)
  <2>1. set_cmp_reg = <<TimerCode[14]>>
    BY Statements DEF TimerCode
  <2>2. Follows(13, 14, TimerCode)
    BY TimerSize DEF Follows
  <2> QED BY <1>6, <2>1, <2>2, Adds1 DEF p14
<1>8. Prefix(p16, 16, TimerCode)
  <2>1. enable_plic = <<TimerCode[15], TimerCode[16]>>
    BY Calls DEF TimerCode
  <2>2. Follows(14, 15, TimerCode) /\ Follows(15, 16, TimerCode)
    BY TimerSize DEF Follows
  <2> QED BY <1>7, <2>1, <2>2, Adds2 DEF p16
<1>9. Prefix(p17, 17, TimerCode)
  <2>1. plic_set_priority(APB_TIMER_COMPARE_IRQ, 1) = <<TimerCode[17]>>
    BY Calls DEF TimerCode
  <2>2. Follows(16, 17, TimerCode)
    BY TimerSize DEF Follows
  <2> QED BY <1>8, <2>1, <2>2, Adds1 DEF p17
<1>10. Prefix(p19, 19, TimerCode)
  <2>1. plic_enable_irq(APB_TIMER_COMPARE_IRQ) = <<TimerCode[18], TimerCode[19]>>
    BY Calls DEF TimerCode
  <2>2. Follows(17, 18, TimerCode) /\ Follows(18, 19, TimerCode)
    BY TimerSize DEF Follows
  <2> QED BY <1>9, <2>1, <2>2, Adds2 DEF p19
<1>11. Prefix(p20, 20, TimerCode)
  <2>1. enable_timer = <<TimerCode[20]>>
    BY Statements DEF TimerCode
  <2>2. Follows(19, 20, TimerCode)
    BY TimerSize DEF Follows
  <2> QED BY <1>10, <2>1, <2>2, Adds1 DEF p20
<1>12. Prefix(p21, 21, TimerCode)
  <2>1. Wfi = <<TimerCode[21]>>
    BY Statements DEF TimerCode
  <2>2. Follows(20, 21, TimerCode)
    BY TimerSize DEF Follows
  <2> QED BY <1>11, <2>1, <2>2, Adds1 DEF p21
<1>13. Prefix(p22, 22, TimerCode)
  <2>1. Forever(21) = <<TimerCode[22]>>
    BY Statements DEF TimerCode
  <2>2. Follows(21, 22, TimerCode)
    BY TimerSize DEF Follows
  <2> QED BY <1>12, <2>1, <2>2, Adds1 DEF p22
<1>14. p22 = TimerCode
  <2>1. TimerCode \in Seq(Elems(TimerCode))
    BY DEF TimerCode, Elems
  <2> QED BY <1>13, <2>1, TimerSize, Whole
<1>15. Len(p20) + 1 = 21
  BY <1>11, TimerSize DEF Prefix
<1> QED BY <1>14, <1>15 DEF timer_test, p2, p3, p7, p11, p13, p14, p16, p17, p19, p20, p21, p22

LEMMA TrapSize ==
  ASSUME NEW time
  PROVE  Len(TrapCode(time)) = 7
BY DEF TrapCode

LEMMA TrapListing ==
  ASSUME NEW time
  PROVE  timer_trap_test(time) = TrapCode(time)
<1> DEFINE p2 == crt0 \o Puts
           p3 == p2 \o set_timer(time)
           p5 == p3 \o start_timer
           p6 == p5 \o WaitTrapId("M_TIMER")
           p7 == p6 \o Puts
<1> HIDE DEF p2, p3, p5, p6, p7
<1>0. Len(TrapCode(time)) = 7
  BY TrapSize
<1>1. Prefix(crt0, 1, TrapCode(time))
  <2>1. crt0 = <<TrapCode(time)[1]>>
    BY Statements DEF TrapCode
  <2>2. Follows(0, 1, TrapCode(time))
    BY <1>0 DEF Follows
  <2> QED BY <2>1, <2>2, First
<1>2. Prefix(p2, 2, TrapCode(time))
  <2>1. Puts = <<TrapCode(time)[2]>>
    BY Statements DEF TrapCode
  <2>2. Follows(1, 2, TrapCode(time))
    BY <1>0 DEF Follows
  <2> QED BY <1>1, <2>1, <2>2, Adds1 DEF p2
<1>3. Prefix(p3, 3, TrapCode(time))
  <2>1. set_timer(time) = <<TrapCode(time)[3]>>
    BY Statements DEF TrapCode
  <2>2. Follows(2, 3, TrapCode(time))
    BY <1>0 DEF Follows
  <2> QED BY <1>2, <2>1, <2>2, Adds1 DEF p3
<1>4. Prefix(p5, 5, TrapCode(time))
  <2>1. start_timer = <<TrapCode(time)[4], TrapCode(time)[5]>>
    BY Calls DEF TrapCode
  <2>2. Follows(3, 4, TrapCode(time)) /\ Follows(4, 5, TrapCode(time))
    BY <1>0 DEF Follows
  <2> QED BY <1>3, <2>1, <2>2, Adds2 DEF p5
<1>5. Prefix(p6, 6, TrapCode(time))
  <2>1. WaitTrapId("M_TIMER") = <<TrapCode(time)[6]>>
    BY Statements DEF TrapCode
  <2>2. Follows(5, 6, TrapCode(time))
    BY <1>0 DEF Follows
  <2> QED BY <1>4, <2>1, <2>2, Adds1 DEF p6
<1>6. Prefix(p7, 7, TrapCode(time))
  <2>1. Puts = <<TrapCode(time)[7]>>
    BY Statements DEF TrapCode
  <2>2. Follows(6, 7, TrapCode(time))
    BY <1>0 DEF Follows
  <2> QED BY <1>5, <2>1, <2>2, Adds1 DEF p7
<1>7. p7 = TrapCode(time)
  <2>1. TrapCode(time) \in Seq(Elems(TrapCode(time)))
    BY DEF TrapCode, Elems
  <2> QED BY <1>0, <1>6, <2>1, Whole
<1> QED BY <1>7 DEF timer_trap_test, p2, p3, p5, p6, p7

LEMMA SwTrapSize == Len(SwTrapCode) = 8
BY DEF SwTrapCode

LEMMA SwTrapListing == sw_trap_test = SwTrapCode
<1> DEFINE p2 == crt0 \o Puts
           p4 == p2 \o enable_clint_sw_interrupts
           p5 == p4 \o Simple("ipi")
           p6 == p5 \o Puts
           p7 == p6 \o WaitTrapId("M_SOFT")
           p8 == p7 \o Puts
<1> HIDE DEF p2, p4, p5, p6, p7, p8
<1>1. Prefix(crt0, 1, SwTrapCode)
  <2>1. crt0 = <<SwTrapCode[1]>>
    BY Statements DEF SwTrapCode
  <2>2. Follows(0, 1, SwTrapCode)
    BY SwTrapSize DEF Follows
  <2> QED BY <2>1, <2>2, First
<1>2. Prefix(p2, 2, SwTrapCode)
  <2>1. Puts = <<SwTrapCode[2]>>
    BY Statements DEF SwTrapCode
  <2>2. Follows(1, 2, SwTrapCode)
    BY SwTrapSize DEF Follows
  <2> QED BY <1>1, <2>1, <2>2, Adds1 DEF p2
<1>3. Prefix(p4, 4, SwTrapCode)
  <2>1. enable_clint_sw_interrupts = <<SwTrapCode[3], SwTrapCode[4]>>
    BY Calls DEF SwTrapCode
  <2>2. Follows(2, 3, SwTrapCode) /\ Follows(3, 4, SwTrapCode)
    BY SwTrapSize DEF Follows
  <2> QED BY <1>2, <2>1, <2>2, Adds2 DEF p4
<1>4. Prefix(p5, 5, SwTrapCode)
  <2>1. Simple("ipi") = <<SwTrapCode[5]>>
    BY Statements DEF SwTrapCode
  <2>2. Follows(4, 5, SwTrapCode)
    BY SwTrapSize DEF Follows
  <2> QED BY <1>3, <2>1, <2>2, Adds1 DEF p5
<1>5. Prefix(p6, 6, SwTrapCode)
  <2>1. Puts = <<SwTrapCode[6]>>
    BY Statements DEF SwTrapCode
  <2>2. Follows(5, 6, SwTrapCode)
    BY SwTrapSize DEF Follows
  <2> QED BY <1>4, <2>1, <2>2, Adds1 DEF p6
<1>6. Prefix(p7, 7, SwTrapCode)
  <2>1. WaitTrapId("M_SOFT") = <<SwTrapCode[7]>>
    BY Statements DEF SwTrapCode
  <2>2. Follows(6, 7, SwTrapCode)
    BY SwTrapSize DEF Follows
  <2> QED BY <1>5, <2>1, <2>2, Adds1 DEF p7
<1>7. Prefix(p8, 8, SwTrapCode)
  <2>1. Puts = <<SwTrapCode[8]>>
    BY Statements DEF SwTrapCode
  <2>2. Follows(7, 8, SwTrapCode)
    BY SwTrapSize DEF Follows
  <2> QED BY <1>6, <2>1, <2>2, Adds1 DEF p8
<1>8. p8 = SwTrapCode
  <2>1. SwTrapCode \in Seq(Elems(SwTrapCode))
    BY DEF SwTrapCode, Elems
  <2> QED BY <1>7, <2>1, SwTrapSize, Whole
<1> QED BY <1>8 DEF sw_trap_test, p2, p4, p5, p6, p7, p8

LEMMA FaultSize == Len(FaultCode) = 4
BY DEF FaultCode

LEMMA FaultListing == faulting_test = FaultCode
<1> DEFINE p2 == crt0 \o Puts
           p3 == p2 \o Simple("fault")
           p4 == p3 \o Puts
<1> HIDE DEF p2, p3, p4
<1>1. Prefix(crt0, 1, FaultCode)
  <2>1. crt0 = <<FaultCode[1]>>
    BY Statements DEF FaultCode
  <2>2. Follows(0, 1, FaultCode)
    BY FaultSize DEF Follows
  <2> QED BY <2>1, <2>2, First
<1>2. Prefix(p2, 2, FaultCode)
  <2>1. Puts = <<FaultCode[2]>>
    BY Statements DEF FaultCode
  <2>2. Follows(1, 2, FaultCode)
    BY FaultSize DEF Follows
  <2> QED BY <1>1, <2>1, <2>2, Adds1 DEF p2
<1>3. Prefix(p3, 3, FaultCode)
  <2>1. Simple("fault") = <<FaultCode[3]>>
    BY Statements DEF FaultCode
  <2>2. Follows(2, 3, FaultCode)
    BY FaultSize DEF Follows
  <2> QED BY <1>2, <2>1, <2>2, Adds1 DEF p3
<1>4. Prefix(p4, 4, FaultCode)
  <2>1. Puts = <<FaultCode[4]>>
    BY Statements DEF FaultCode
  <2>2. Follows(3, 4, FaultCode)
    BY FaultSize DEF Follows
  <2> QED BY <1>3, <2>1, <2>2, Adds1 DEF p4
<1>5. p4 = FaultCode
  <2>1. FaultCode \in Seq(Elems(FaultCode))
    BY DEF FaultCode, Elems
  <2> QED BY <1>4, <2>1, FaultSize, Whole
<1> QED BY <1>5 DEF faulting_test, p2, p3, p4

LEMMA CodeIs ==
  /\ program = "plic_test" => Code = PlicCode
  /\ program = "gpio_test" => Code = GpioCode
  /\ program = "timer_test" => Code = TimerCode
  /\ program = "timer_trap_test" => Code = TrapCode(Half - 2)
  /\ program = "long_timer_trap_test" => Code = TrapCode(Half + 1)
  /\ program = "sw_trap_test" => Code = SwTrapCode
  /\ program = "faulting_test" => Code = FaultCode
BY PlicListing, GpioListing, TimerListing, TrapListing, SwTrapListing, FaultListing
   DEF Code, Programs

------------------------------------------------------------------------------
(* Traps in progress                                                       *)

CompleteOf(id) == [op |-> "complete", irq |-> id]
Mret == Plain("mret")

(* What is left while there is an interrupt to claim or to complete, with  *)
(* the default handler or with timer_compare_handler; id is the source     *)
(* that was claimed.  Returning is what is left otherwise.                 *)
Plainly(id) ==
  {<<Plain("claim"), Mret>>, <<PrintLine, CompleteOf(id), Mret>>, <<CompleteOf(id), Mret>>}

Toggling(id) ==
  {<<PrintLine, LoadOf("padout"), ModifyOf("padout", "xor", {0}),
     LoadOf("padout"), ModifyOf("padout", "xor", {1}), CompleteOf(id), Mret>>,
   <<LoadOf("padout"), ModifyOf("padout", "xor", {0}),
     LoadOf("padout"), ModifyOf("padout", "xor", {1}), CompleteOf(id), Mret>>,
   <<ModifyOf("padout", "xor", {0}),
     LoadOf("padout"), ModifyOf("padout", "xor", {1}), CompleteOf(id), Mret>>,
   <<LoadOf("padout"), ModifyOf("padout", "xor", {1}), CompleteOf(id), Mret>>,
   <<ModifyOf("padout", "xor", {1}), CompleteOf(id), Mret>>}

Serving(id) == Plainly(id) \cup Toggling(id)
Returning   == {<<PrintLine, Mret>>, <<Mret>>}

(* What is left of a trap is one of the stages of mtvec_handler.           *)
StageInv ==
  \/ handler = << >>
  \/ handler \in Returning
  \/ \E id : handler \in Serving(id)

------------------------------------------------------------------------------
(* plic_test and gpio_test                                                 *)

External == program \in {"plic_test", "gpio_test"}
Plic     == program = "plic_test"

(* where main sets the timer, enables external interrupts, waits for one,  *)
(* and where the one that woke it may be yet to come                       *)
TimerSet == IF Plic THEN 3 ELSE 29
EnableAt == IF Plic THEN 5 ELSE 31
WfiAt    == IF Plic THEN {11} ELSE {43, 51}
Window   == IF Plic THEN {12, 13} ELSE {44, 52}

(* Only the PLIC can interrupt main or wake it up.                         *)
SourceInv ==
  External =>
    /\ msip = FALSE
    /\ pc > 1 /\ ~InHandler => mstatus_MIE
    /\ mie = IF pc > EnableAt THEN {"M_EXT"} ELSE {}
    /\ mtime \in 0 .. RtcTicks
    /\ pc > TimerSet => mtimecmp \in Nat /\ mtimecmp > RtcTicks
    /\ waiting => pc \in WfiAt /\ ~InHandler

(* The interrupt that woke main up is pending until it is taken, and it is *)
(* taken before the nops are over.                                         *)
WakeInv ==
  External => \/ wakes = 0
              \/ wakes = 1 /\ pc \in Window /\ ~InHandler /\ Eligible # {}

(* interrupts that main has waited for, and the one it may be owed         *)
Due == IF Plic THEN irq_count + (IF pc = 12 THEN 1 ELSE 0)
       ELSE IF pc < 44 THEN 0 ELSE IF pc < 52 THEN 1 ELSE 2
Owed == \/ ~InHandler /\ Eligible # {}
        \/ \E id : handler \in Serving(id)
AtLeast(n) == served >= n \/ served = Wakeups

ServedInv ==
  External =>
    /\ served \in 0 .. Wakeups /\ irq_count \in Nat
    /\ AtLeast(Due) \/ (pc \in Window /\ AtLeast(Due - 1) /\ Owed)
    /\ Plic /\ pc > 15 => irq_count >= Wakeups

------------------------------------------------------------------------------
(* timer_test and timer_trap_test                                          *)

(* Main's own toggle is over before an interrupt can come; the handler's   *)
(* toggles keep the register and the copy they have read in step.          *)
ToggleInv ==
  program = "timer_test" =>
    /\ reg = [r \in DeviceRegs |-> reg[r]]
    /\ pc <= 16 => mie = {} /\ handler = << >> /\ ~waiting
    /\ pc = 13 => acc = reg["padout"]
    /\ InHandler /\ Head(handler).op = "modify" => hacc = reg["padout"]

(* ProgramSet without the test whose time does not fit in a 32-bit store.  *)
NoLongTimer == "long_timer_trap_test" \notin ProgramSet

PcInv == program \in ProgramSet /\ pc \in Nat \ {0}

(* Timer interrupts are enabled in one test, after it has set the time.    *)
EarlyInv ==
  /\ program # "timer_trap_test" => "M_TIMER" \notin mie
  /\ program = "timer_trap_test" =>
       /\ ~waiting
       /\ asked \in Nat /\ mtimecmp \in Nat /\ mtime \in Nat
       /\ pc <= 5 => "M_TIMER" \notin mie
       /\ pc >= 4 => mtimecmp >= asked

------------------------------------------------------------------------------
(* The stages of a trap                                                    *)

FullToggle(id) ==
  <<PrintLine, LoadOf("padout"), ModifyOf("padout", "xor", {0}),
    LoadOf("padout"), ModifyOf("padout", "xor", {1}), CompleteOf(id), Mret>>

LEMMA ServePuts ==
  ASSUME NEW id
  PROVE  (Puts \o <<CompleteOf(id)>>) \o <<Mret>> = <<PrintLine, CompleteOf(id), Mret>>
<1> DEFINE t == <<PrintLine, CompleteOf(id), Mret>>
           p2 == Puts \o <<CompleteOf(id)>>
           p3 == p2 \o <<Mret>>
<1>1. Len(t) = 3 /\ t[1] = PrintLine /\ t[2] = CompleteOf(id) /\ t[3] = Mret
  OBVIOUS
<1>2. t \in Seq(Elems(t))
  BY DEF Elems
<1>3. Follows(0, 1, t) /\ Follows(1, 2, t) /\ Follows(2, 3, t)
  BY <1>1 DEF Follows
<1> HIDE DEF t, p2, p3
<1>4. Prefix(Puts, 1, t)
  BY <1>1, <1>3, Statements, First
<1>5. Prefix(p2, 2, t)
  BY <1>1, <1>3, <1>4, Adds1 DEF p2
<1>6. Prefix(p3, 3, t)
  BY <1>1, <1>3, <1>5, Adds1 DEF p3
<1>7. p3 = t
  BY <1>1, <1>2, <1>6, Whole
<1> QED BY <1>7 DEF t, p2, p3

LEMMA ServeToggle ==
  ASSUME NEW id
  PROVE  (timer_compare_handler \o <<CompleteOf(id)>>) \o <<Mret>> = FullToggle(id)
<1> DEFINE t == FullToggle(id)
           p3 == Puts \o gpio_pin_toggle(0)
           p5 == p3 \o gpio_pin_toggle(1)
           p6 == p5 \o <<CompleteOf(id)>>
           p7 == p6 \o <<Mret>>
<1>1. /\ Len(t) = 7 /\ t[1] = PrintLine
      /\ t[2] = LoadOf("padout") /\ t[3] = ModifyOf("padout", "xor", {0})
      /\ t[4] = LoadOf("padout") /\ t[5] = ModifyOf("padout", "xor", {1})
      /\ t[6] = CompleteOf(id) /\ t[7] = Mret
  BY DEF FullToggle
<1>2. t \in Seq(Elems(t))
  BY DEF FullToggle, Elems
<1>3. /\ Follows(0, 1, t) /\ Follows(1, 2, t) /\ Follows(2, 3, t) /\ Follows(3, 4, t)
      /\ Follows(4, 5, t) /\ Follows(5, 6, t) /\ Follows(6, 7, t)
  BY <1>1 DEF Follows
<1>4. /\ gpio_pin_toggle(0) = <<t[2], t[3]>>
      /\ gpio_pin_toggle(1) = <<t[4], t[5]>>
  BY <1>1, Calls
<1> HIDE DEF t, p3, p5, p6, p7
<1>5. Prefix(Puts, 1, t)
  BY <1>1, <1>3, Statements, First
<1>6. Prefix(p3, 3, t)
  BY <1>3, <1>4, <1>5, Adds2 DEF p3
<1>7. Prefix(p5, 5, t)
  BY <1>3, <1>4, <1>6, Adds2 DEF p5
<1>8. Prefix(p6, 6, t)
  BY <1>1, <1>3, <1>7, Adds1 DEF p6
<1>9. Prefix(p7, 7, t)
  BY <1>1, <1>3, <1>8, Adds1 DEF p7
<1>10. p7 = t
  BY <1>1, <1>2, <1>9, Whole
<1> QED BY <1>10 DEF t, p3, p5, p6, p7, timer_compare_handler

(* Where a trap begins, and what a claim puts in its place.                *)
LEMMA TrapBegins ==
  /\ mtvec_handler("M_EXT") \o Simple("mret") = <<Plain("claim"), Mret>>
  /\ \A cause : cause # "M_EXT" =>
       mtvec_handler(cause) \o Simple("mret") = <<PrintLine, Mret>>
<1>1. Simple("claim") = <<Plain("claim")>> /\ Simple("mret") = <<Mret>> /\ Puts = <<PrintLine>>
  BY Statements DEF Mret
<1> QED BY <1>1, Pair DEF mtvec_handler

LEMMA ClaimServes ==
  ASSUME NEW id
  PROVE  serve_claim(id) \o <<Mret>> \in {<<PrintLine, CompleteOf(id), Mret>>, FullToggle(id)}
<1>1. serve_claim(id) \in {Puts \o <<CompleteOf(id)>>,
                           timer_compare_handler \o <<CompleteOf(id)>>}
  BY DEF serve_claim, HandlerBody, CompleteOf
<1> QED BY <1>1, ServePuts, ServeToggle

(* The statement at the head of each stage, and the stage that follows.    *)
LEMMA StageHeads ==
  ASSUME NEW id, NEW h \in Serving(id)
  PROVE  /\ h # << >>
         /\ Head(h).op \in {"claim", "print", "load", "modify", "complete"}
         /\ Head(h).op = "claim" => Tail(h) = <<Mret>>
         /\ Head(h).op \in {"print", "load", "modify"} => Tail(h) \in Serving(id)
         /\ Head(h).op = "complete" => Tail(h) = <<Mret>>
         /\ Head(h).op = "load" => Head(h).reg = "padout"
         /\ Head(h).op \in {"print", "modify"} => Head(Tail(h)).op # "modify"
         /\ Head(h).op = "modify" =>
              /\ Head(h).reg = "padout" /\ Head(h).f = "xor"
              /\ Head(h).mask \in {{0}, {1}}
<1> USE DEF Plain, PrintLine, Mret, LoadOf, ModifyOf, CompleteOf
<1>1. CASE h = <<Plain("claim"), Mret>>
  BY <1>1
<1>2. CASE h = <<PrintLine, CompleteOf(id), Mret>>
  BY <1>2 DEF Serving, Plainly
<1>3. CASE h = <<CompleteOf(id), Mret>>
  BY <1>3
<1>4. CASE h = FullToggle(id)
  BY <1>4 DEF Serving, Toggling, FullToggle
<1>5. CASE h = <<LoadOf("padout"), ModifyOf("padout", "xor", {0}),
                 LoadOf("padout"), ModifyOf("padout", "xor", {1}), CompleteOf(id), Mret>>
  BY <1>5 DEF Serving, Toggling
<1>6. CASE h = <<ModifyOf("padout", "xor", {0}),
                 LoadOf("padout"), ModifyOf("padout", "xor", {1}), CompleteOf(id), Mret>>
  BY <1>6 DEF Serving, Toggling
<1>7. CASE h = <<LoadOf("padout"), ModifyOf("padout", "xor", {1}), CompleteOf(id), Mret>>
  BY <1>7 DEF Serving, Toggling
<1>8. CASE h = <<ModifyOf("padout", "xor", {1}), CompleteOf(id), Mret>>
  BY <1>8 DEF Serving, Plainly
<1> QED BY <1>1, <1>2, <1>3, <1>4, <1>5, <1>6, <1>7, <1>8
        DEF Serving, Plainly, Toggling, FullToggle

LEMMA ReturnHeads ==
  ASSUME NEW h \in Returning
  PROVE  /\ h # << >>
         /\ Head(h).op \in {"print", "mret"}
         /\ Head(h).op = "print" => Tail(h) = <<Mret>>
<1>1. CASE h = <<PrintLine, Mret>>
  BY <1>1 DEF PrintLine, Mret, Plain
<1>2. CASE h = <<Mret>>
  BY <1>2 DEF Mret, Plain
<1> QED BY <1>1, <1>2 DEF Returning

Devices == RtcTick \/ TimerCompare \/ GpioSample

(* Main does not touch the trap, nor the devices the trap.                 *)
LEMMA TrapFrame ==
  /\ MainStep => TakeException \/ UNCHANGED trap
  /\ Devices => UNCHANGED trap
<1>1. MainStep => TakeException \/ UNCHANGED trap
  BY DEF MainStep, MainLoad, MainModify, MainStore, MainPriority, MainSetTimer, MainIpi,
         MainCsrs, MainCallback, MainNops, MainWfi, MainWake, MainCount, MainJump, MainPoll
<1>2. Devices => UNCHANGED trap
  BY DEF Devices, RtcTick, TimerCompare, GpioSample
<1> QED BY <1>1, <1>2

(* A trap starts at one of the two first stages.                           *)
LEMMA Enters ==
  ASSUME NEW cause, EnterTrap(cause)
  PROVE  /\ cause = "M_EXT" => handler' = <<Plain("claim"), Mret>>
         /\ cause # "M_EXT" => handler' = <<PrintLine, Mret>>
BY TrapBegins DEF EnterTrap

(* The statements of a handler, by the stage they are found at.            *)
LEMMA HandlerMoves ==
  ASSUME StageInv, HandlerStep
  PROVE  \/ /\ HandlerClaim
            /\ \E id : handler \in Serving(id)
            /\ \E id : handler' \in Serving(id) /\ Head(handler').op # "modify"
         \/ /\ HandlerComplete
            /\ \E id : handler \in Serving(id)
            /\ handler' = <<Mret>>
         \/ /\ HandlerPrint \/ HandlerLoad \/ HandlerModify
            /\ \E id : handler \in Serving(id) /\ handler' \in Serving(id)
         \/ /\ HandlerPrint
            /\ handler \in Returning
            /\ handler' = <<Mret>>
         \/ /\ HandlerReturn
            /\ handler \in Returning
            /\ handler' = << >>
<1> DEFINE h == handler
<1>1. h # << >>
  BY DEF HandlerStep, HandlerPrint, HandlerLoad, HandlerModify, HandlerClaim,
         HandlerComplete, HandlerReturn, InTrap, InHandler
<1>2. CASE h \in Returning
  <2>1. Head(h).op \in {"print", "mret"} /\ (Head(h).op = "print" => Tail(h) = <<Mret>>)
    BY <1>2, ReturnHeads
  <2>2. CASE HandlerPrint
    BY <1>2, <2>1, <2>2 DEF HandlerPrint, InTrap
  <2>3. CASE HandlerReturn
    BY <1>2, <2>3 DEF HandlerReturn
  <2> QED BY <2>1, <2>2, <2>3
          DEF HandlerStep, HandlerLoad, HandlerModify, HandlerClaim, HandlerComplete, InTrap
<1>3. ASSUME NEW id, h \in Serving(id)
      PROVE  \/ /\ HandlerClaim
                /\ \E i : handler' \in Serving(i) /\ Head(handler').op # "modify"
             \/ HandlerComplete /\ handler' = <<Mret>>
             \/ /\ HandlerPrint \/ HandlerLoad \/ HandlerModify
                /\ handler' \in Serving(id)
  <2>1. /\ Head(h).op \in {"claim", "print", "load", "modify", "complete"}
        /\ Head(h).op = "claim" => Tail(h) = <<Mret>>
        /\ Head(h).op \in {"print", "load", "modify"} => Tail(h) \in Serving(id)
        /\ Head(h).op = "complete" => Tail(h) = <<Mret>>
    BY <1>3, StageHeads
  <2>2. CASE HandlerPrint \/ HandlerLoad \/ HandlerModify
    BY <2>1, <2>2 DEF HandlerPrint, HandlerLoad, HandlerModify, InTrap
  <2>3. CASE HandlerComplete
    BY <2>1, <2>3 DEF HandlerComplete, InTrap
  <2>4. CASE HandlerClaim
    <3> DEFINE i == Claim
    <3>1. handler' = serve_claim(i) \o <<Mret>>
      BY <2>1, <2>4 DEF HandlerClaim, InTrap
    <3>2. handler' \in {<<PrintLine, CompleteOf(i), Mret>>, FullToggle(i)}
      BY <3>1, ClaimServes
    <3> HIDE DEF i
    <3>3. handler' \in Serving(i)
      BY <3>2 DEF Serving, Plainly, Toggling, FullToggle
    <3>4. Head(handler').op = "print"
      <4>1. CASE handler' = <<PrintLine, CompleteOf(i), Mret>>
        BY <4>1 DEF PrintLine, Plain
      <4>2. CASE handler' = FullToggle(i)
        BY <4>2 DEF FullToggle, PrintLine, Plain
      <4> QED BY <3>2, <4>1, <4>2
    <3> QED BY <2>4, <3>3, <3>4
  <2>5. CASE HandlerReturn
    BY <2>1, <2>5 DEF HandlerReturn, InTrap
  <2> QED BY <2>2, <2>3, <2>4, <2>5 DEF HandlerStep
<1> QED BY <1>1, <1>2, <1>3 DEF StageInv

LEMMA StageStep ==
  ASSUME StageInv, [Next]_vars
  PROVE  StageInv'
<1>0. <<Mret>> \in Returning /\ <<PrintLine, Mret>> \in Returning
      /\ \A id : <<Plain("claim"), Mret>> \in Serving(id)
  BY DEF Returning, Serving, Plainly
<1>1. CASE UNCHANGED trap
  BY <1>1 DEF StageInv, trap
<1>2. CASE TakeInterrupt \/ TakeException
  <2>1. PICK cause : EnterTrap(cause)
    BY <1>2 DEF TakeInterrupt, TakeException
  <2> QED BY <1>0, <2>1, Enters DEF StageInv
<1>3. CASE HandlerStep
  BY <1>0, <1>3, HandlerMoves DEF StageInv
<1>4. UNCHANGED vars => UNCHANGED trap
  BY DEF vars
<1> QED BY <1>1, <1>2, <1>3, <1>4, TrapFrame DEF Next, Devices, EndOfCode

------------------------------------------------------------------------------
(* What the proofs need to know of the listings                            *)

(* Where the statements are that the invariants of gpio_test name.         *)
LEMMA GpioPlaces ==
  /\ \A k \in 1 .. 53 :
       GpioCode[k].op # "ipi" /\ GpioCode[k].op # "fault" /\ GpioCode[k].op # "goto"
  /\ \A k \in 1 .. 53 : GpioCode[k].op # "count" /\ GpioCode[k].op # "while"
  /\ \A k \in 1 .. 53 : GpioCode[k].op = "wfi" => k = 43 \/ k = 51
  /\ \A k \in 1 .. 53 : GpioCode[k].op = "nops" => k = 44 \/ k = 52
  /\ \A k \in 1 .. 53 : GpioCode[k].op = "mtimecmp" => k = 29
  /\ \A k \in 1 .. 53 : GpioCode[k].op = "csrs" => k = 1 \/ k = 30 \/ k = 31
  /\ \A k \in 1 .. 53 :
       GpioCode[k].op = "csrs" => GpioCode[k].bits = {"MIE"} \/ GpioCode[k].bits = {"M_EXT"}
  /\ GpioCode[43].op = "wfi" /\ GpioCode[51].op = "wfi"
  /\ GpioCode[44].op = "nops" /\ GpioCode[52].op = "nops"
  /\ GpioCode[29].op = "mtimecmp" /\ GpioCode[29].val = MaxTime
  /\ GpioCode[1].op = "csrs" /\ GpioCode[1].csr = "mstatus"
  /\ GpioCode[30].csr = "mstatus" /\ GpioCode[31].op = "csrs"
  /\ GpioCode[31].csr = "mie" /\ GpioCode[31].bits = {"M_EXT"}
BY DEF GpioCode, Plain, SetBits, LoadOf, ModifyOf, StoreOf, PriorityOf, TimerAt, PinHigh,
       WhileTo, MIE, PrintLine

LEMMA AnyCode ==
  ASSUME PcInv, ~Done
  PROVE  /\ pc \in 1 .. Len(Code)
         /\ Code[pc].op \in {"while", "goto"} => Code[pc].to \in Nat \ {0}
         /\ /\ program \notin {"timer_trap_test", "long_timer_trap_test"}
            /\ Code[pc].op = "csrs"
            => "M_TIMER" \notin Code[pc].bits
<1> USE DEF Plain, SetBits, LoadOf, ModifyOf, StoreOf, PriorityOf, CallbackOf, TimerAt,
            PinHigh, TrapIs, WhileTo, GotoOf, MIE, PrintLine
<1>0. Len(Code) \in Nat => pc \in 1 .. Len(Code)
  BY DEF PcInv, Done
<1>1. CASE program = "plic_test"
  <2>1. Code = PlicCode
    BY <1>1, CodeIs
  <2> QED BY <1>0, <1>1, <2>1, PlicSize DEF PlicCode
<1>2. CASE program = "gpio_test"
  <2>1. Code = GpioCode
    BY <1>2, CodeIs
  <2>2. pc \in 1 .. 53
    BY <1>0, <2>1, GpioSize
  <2>3. Code[pc].op # "while" /\ Code[pc].op # "goto"
    BY <2>1, <2>2, GpioPlaces
  <2>4. Code[pc].op = "csrs" => Code[pc].bits = {"MIE"} \/ Code[pc].bits = {"M_EXT"}
    BY <2>1, <2>2, GpioPlaces
  <2> QED BY <1>0, <2>1, <2>3, <2>4, GpioSize
<1>3. CASE program = "timer_test"
  <2>1. Code = TimerCode
    BY <1>3, CodeIs
  <2>2. \A k \in 1 .. 22 : TimerCode[k].op \in {"while", "goto"} => TimerCode[k].to = 21
    BY DEF TimerCode
  <2>3. \A k \in 1 .. 22 : TimerCode[k].op = "csrs" => TimerCode[k].bits \in {{"MIE"}, {"M_EXT"}}
    BY DEF TimerCode
  <2> QED BY <1>0, <2>1, <2>2, <2>3, TimerSize
<1>4. CASE program = "timer_trap_test"
  <2>1. Code = TrapCode(Half - 2)
    BY <1>4, CodeIs
  <2> QED BY <1>0, <1>4, <2>1, TrapSize DEF TrapCode
<1>5. CASE program = "sw_trap_test"
  <2>1. Code = SwTrapCode
    BY <1>5, CodeIs
  <2> QED BY <1>0, <1>5, <2>1, SwTrapSize DEF SwTrapCode
<1>6. CASE program = "faulting_test"
  <2>1. Code = FaultCode
    BY <1>6, CodeIs
  <2> QED BY <1>0, <1>6, <2>1, FaultSize DEF FaultCode
<1>7. CASE program = "long_timer_trap_test"
  <2>1. Code = TrapCode(Half + 1)
    BY <1>7, CodeIs
  <2> QED BY <1>0, <1>7, <2>1, TrapSize DEF TrapCode
<1> QED BY <1>1, <1>2, <1>3, <1>4, <1>5, <1>6, <1>7, InterruptsAssumption
        DEF PcInv, Programs

LEMMA TrapTest ==
  ASSUME program = "timer_trap_test", pc \in 1 .. Len(Code)
  PROVE  /\ Code[pc].op \in {"csrs", "print", "mtimecmp", "wait_trap"}
         /\ (Code[pc].op = "mtimecmp") <=> (pc = 3)
         /\ Code[pc].op = "mtimecmp" => Code[pc].val = Half - 2
         /\ Code[pc].op = "csrs" /\ pc < 5 => Code[pc].csr = "mstatus"
<1>1. Code = TrapCode(Half - 2)
  BY CodeIs
<1> QED BY <1>1, TrapSize
        DEF TrapCode, Plain, SetBits, TimerAt, TrapIs, MIE, PrintLine

(* A store to mtimecmp leaves at least the value that fits in a register.  *)
LEMMA WrittenHolds ==
  ASSUME NEW v \in Nat, v < Half, NEW w \in Written(v)
  PROVE  w \in Nat /\ w >= v
<1>1. Half \in Nat /\ Half > 0
  BY DriversAssumption
<1>2. v % Half = v
  BY <1>1
<1>3. Half * v \in Nat
  BY <1>1
<1> QED BY <1>2, <1>3 DEF Written

------------------------------------------------------------------------------
(* Timer interrupts                                                        *)

LEMMA PcStep ==
  ASSUME PcInv, [Next]_vars
  PROVE  PcInv'
<1>1. CASE MainStep
  <2>1. program' = program
    BY <1>1 DEF MainStep, MainLoad, MainModify, MainStore, MainPriority, MainSetTimer,
            MainIpi, MainCsrs, MainCallback, MainNops, MainWfi, MainWake, MainCount,
            MainJump, MainPoll, TakeException, Next1, main
  <2>2. CASE MainJump
    <3>1. ~Done
      BY <2>2 DEF MainJump, At
    <3> QED BY <2>1, <2>2, <3>1, AnyCode DEF MainJump, At, PcInv
  <2>3. CASE ~MainJump
    <3>1. pc' = pc \/ pc' = pc + 1
      BY <1>1, <2>3 DEF MainStep, MainLoad, MainModify, MainStore, MainPriority,
              MainSetTimer, MainIpi, MainCsrs, MainCallback, MainNops, MainWfi, MainWake,
              MainCount, MainPoll, TakeException, Next1, main
    <3> QED BY <2>1, <3>1 DEF PcInv
  <2> QED BY <2>2, <2>3
<1>2. CASE UNCHANGED main
  BY <1>2 DEF main, PcInv
<1>3. ~MainStep => UNCHANGED main
  BY DEF Next, TakeInterrupt, HandlerStep, HandlerPrint, HandlerLoad, HandlerModify,
         HandlerClaim, HandlerComplete, HandlerReturn, RtcTick, TimerCompare, GpioSample,
         EndOfCode, vars
<1> QED BY <1>1, <1>2, <1>3

LEMMA EarlyStep ==
  ASSUME NoLongTimer, PcInv, EarlyInv, [Next]_vars
  PROVE  EarlyInv'
<1> DEFINE Trap == program = "timer_trap_test"
<1>1. CASE MainCsrs
  <2>1. At("csrs")
    BY <1>1 DEF MainCsrs
  <2>2. pc \in 1 .. Len(Code) /\ (~Trap => "M_TIMER" \notin Code[pc].bits)
    BY <2>1, AnyCode DEF At, PcInv, NoLongTimer
  <2>3. Trap => ((Code[pc].op = "mtimecmp") <=> pc = 3) /\ (pc < 5 => Code[pc].csr = "mstatus")
    BY <2>1, <2>2, TrapTest DEF At
  <2> QED BY <1>1, <2>1, <2>2, <2>3 DEF MainCsrs, At, Next1, clint, ghost, EarlyInv, PcInv
<1>2. CASE MainSetTimer
  <2>1. At("mtimecmp")
    BY <1>2 DEF MainSetTimer
  <2>2. pc \in 1 .. Len(Code)
    BY <2>1, AnyCode DEF At
  <2>3. Trap => pc = 3 /\ Code[pc].val = Half - 2
    BY <2>1, <2>2, TrapTest DEF At
  <2>4. Half - 2 \in Nat /\ Half - 2 < Half
    BY DriversAssumption
  <2>5. Trap => asked' \in Nat /\ mtimecmp' \in Nat /\ mtimecmp' >= asked'
    BY <1>2, <2>3, <2>4, WrittenHolds DEF MainSetTimer
  <2> QED BY <1>2, <2>3, <2>5 DEF MainSetTimer, Next1, csr, EarlyInv
<1>3. CASE MainNops \/ MainPoll
  <2>1. At("nops") \/ At("print") \/ At("wait_pin") \/ At("wait_trap")
    BY <1>3 DEF MainNops, MainPoll
  <2>2. pc \in 1 .. Len(Code)
    BY <2>1, AnyCode DEF At
  <2>3. Trap => (pc = 3 <=> Code[pc].op = "mtimecmp")
    BY <2>2, TrapTest
  <2>4. Trap => pc # 3
    BY <2>1, <2>3 DEF At
  <2>5. Trap => pc # 5
    <3>1. Trap => Code[5].op = "csrs"
      BY CodeIs DEF TrapCode, SetBits
    <3> QED BY <2>1, <3>1 DEF At
  <2> QED BY <1>3, <2>4, <2>5 DEF MainNops, MainPoll, Next1, csr, clint, ghost, EarlyInv, PcInv
<1>4. CASE MainStep /\ ~MainCsrs /\ ~MainSetTimer /\ ~MainNops /\ ~MainPoll
  <2>1. mie' = mie /\ program' = program
    BY <1>4 DEF MainStep, MainLoad, MainModify, MainStore, MainPriority, MainIpi,
            MainCallback, MainWfi, MainWake, MainCount, MainJump, TakeException, EnterTrap,
            Next1, main, csr
  <2>2. ~Trap
    <3>1. CASE waiting
      BY <1>4, <3>1 DEF EarlyInv
    <3>2. CASE ~waiting
      <4>1. PICK op \in {"load", "modify", "store", "priority", "ipi", "callback", "wfi",
                         "count", "while", "goto", "fault"} : At(op)
        BY <1>4, <3>2 DEF MainStep, MainLoad, MainModify, MainStore, MainPriority, MainIpi,
                MainCallback, MainWfi, MainWake, MainCount, MainJump, TakeException
      <4>2. pc \in 1 .. Len(Code)
        BY <4>1, AnyCode DEF At
      <4> QED BY <4>1, <4>2, TrapTest DEF At
    <3> QED BY <3>1, <3>2
  <2> QED BY <2>1, <2>2 DEF EarlyInv
<1>5. CASE UNCHANGED <<program, pc, waiting, mie, mtimecmp, asked>>
           /\ (mtime' = mtime \/ mtime' = mtime + 1)
  BY <1>5 DEF EarlyInv
<1>6. ~MainStep => /\ UNCHANGED <<program, pc, waiting, mie, mtimecmp, asked>>
                   /\ mtime' = mtime \/ mtime' = mtime + 1
  BY DEF Next, TakeInterrupt, HandlerStep, HandlerPrint, HandlerLoad, HandlerModify,
         HandlerClaim, HandlerComplete, HandlerReturn, RtcTick, TimerCompare, GpioSample,
         EndOfCode, vars, main, csr, clint, ghost, EnterTrap
<1> QED BY <1>1, <1>2, <1>3, <1>4, <1>5, <1>6

(* The trap that a timer interrupt starts: its cause was enabled and       *)
(* pending, so the test had set the time, and that time has come.          *)
LEMMA TimerTrapStep ==
  ASSUME PcInv, EarlyInv, [Next]_vars,
         last' = "M_TIMER", handler = << >>, handler' # << >>
  PROVE  mtime >= asked
<1>1. ~HandlerStep
  BY DEF HandlerStep, HandlerPrint, HandlerLoad, HandlerModify, HandlerClaim,
         HandlerComplete, HandlerReturn, InTrap, InHandler
<1>2. ~UNCHANGED trap
  BY DEF trap
<1>3. ~TakeException
  BY DEF TakeException, EnterTrap
<1>4. TakeInterrupt
  <2>1. UNCHANGED vars => UNCHANGED trap
    BY DEF vars
  <2> QED BY <1>1, <1>2, <1>3, <2>1, TrapFrame DEF Next, Devices, EndOfCode
<1>5. "M_TIMER" \in Takeable
  <2>1. Takeable \subseteq {"M_EXT", "M_SOFT", "M_TIMER"}
    BY DEF Takeable, Mip
  <2> QED BY <1>4, <2>1 DEF TakeInterrupt, EnterTrap
<1>6. "M_TIMER" \in mie /\ mtime >= mtimecmp
  BY <1>5 DEF Takeable, Mip
<1>7. /\ program = "timer_trap_test" /\ pc \in Nat /\ pc > 5
      /\ asked \in Nat /\ mtimecmp \in Nat /\ mtime \in Nat
  BY <1>6 DEF EarlyInv, PcInv
<1>8. mtimecmp >= asked
  BY <1>7 DEF EarlyInv
<1> QED BY <1>6, <1>7, <1>8

(* Whatever mtimecmp held when set_timer was called, a test takes no timer *)
(* interrupt before the time it asked for: set_timer comes before the      *)
(* interrupt is enabled, and the store leaves no smaller time.             *)
THEOREM InterruptsTimerNotEarly ==
  ASSUME NoLongTimer
  PROVE  Spec => TimerTrapNotEarly
<1> DEFINE Inv == PcInv /\ EarlyInv
<1>1. Init => Inv
  BY DriversAssumption
     DEF Init, PcInv, EarlyInv, MaxTime
<1>2. Inv /\ [Next]_vars => Inv'
  BY PcStep, EarlyStep
<1>3. Inv /\ [Next]_vars
        => [last' = "M_TIMER" /\ handler = << >> /\ handler' # << >> => mtime >= asked]_vars
  BY TimerTrapStep
<1> QED BY <1>1, <1>2, <1>3, PTL DEF Spec, TimerTrapNotEarly

------------------------------------------------------------------------------
(* Waiting for external interrupts                                         *)

(* The same of plic_test.                                                  *)
LEMMA PlicPlaces ==
  /\ \A k \in 1 .. 16 :
       PlicCode[k].op # "ipi" /\ PlicCode[k].op # "fault" /\ PlicCode[k].op # "goto"
  /\ \A k \in 1 .. 16 : PlicCode[k].op = "wfi" => k = 11
  /\ \A k \in 1 .. 16 : PlicCode[k].op = "nops" => k = 13
  /\ \A k \in 1 .. 16 : PlicCode[k].op = "count" => k = 12
  /\ \A k \in 1 .. 16 : PlicCode[k].op = "mtimecmp" => k = 3
  /\ \A k \in 1 .. 16 : PlicCode[k].op = "while" => k = 15
  /\ \A k \in 1 .. 16 : PlicCode[k].op = "csrs" => k = 1 \/ k = 4 \/ k = 5
  /\ PlicCode[3].op = "mtimecmp" /\ PlicCode[3].val = MaxTime
  /\ PlicCode[1].op = "csrs" /\ PlicCode[1].csr = "mstatus"
  /\ PlicCode[4].csr = "mstatus" /\ PlicCode[5].op = "csrs"
  /\ PlicCode[5].csr = "mie" /\ PlicCode[5].bits = {"M_EXT"}
  /\ PlicCode[11].op = "wfi" /\ PlicCode[12].op = "count" /\ PlicCode[13].op = "nops"
  /\ PlicCode[15].op = "while" /\ PlicCode[15].to = 11 /\ PlicCode[15].count = Wakeups
BY DEF PlicCode, Plain, SetBits, LoadOf, ModifyOf, StoreOf, PriorityOf, TimerAt, WhileTo,
       MIE, PrintLine

(* What main does at the statements the invariants name.                   *)
LEMMA ExternalTest ==
  ASSUME External, pc \in 1 .. Len(Code)
  PROVE  /\ Code[pc].op \notin {"ipi", "fault", "goto"}
         /\ (Code[pc].op = "wfi") <=> (pc \in WfiAt)
         /\ Code[pc].op = "nops" => pc \in Window \ {12}
         /\ pc \in Window => Code[pc].op \in {"nops", "count"}
         /\ (Code[pc].op = "count") <=> (Plic /\ pc = 12)
         /\ (Code[pc].op = "mtimecmp") <=> (pc = TimerSet)
         /\ Code[pc].op = "mtimecmp" => Code[pc].val = MaxTime
         /\ pc = 1 \/ pc = EnableAt => Code[pc].op = "csrs"
         /\ pc = 1 => Code[pc].csr = "mstatus"
         /\ Code[pc].op = "csrs" =>
              IF pc = EnableAt THEN Code[pc].csr = "mie" /\ Code[pc].bits = {"M_EXT"}
              ELSE Code[pc].csr = "mstatus"
         /\ Code[pc].op = "while" =>
              Plic /\ pc = 15 /\ Code[pc].to = 11 /\ Code[pc].count = Wakeups
         /\ Plic /\ pc = 15 => Code[pc].op = "while"
<1>1. CASE program = "plic_test"
  <2>1. Code = PlicCode /\ pc \in 1 .. 16
    BY <1>1, CodeIs, PlicSize
  <2>2. Plic /\ TimerSet = 3 /\ EnableAt = 5 /\ WfiAt = {11} /\ Window = {12, 13}
    BY <1>1 DEF Plic, TimerSet, EnableAt, WfiAt, Window
  <2> DEFINE c == PlicCode[pc]
  <2>3. /\ c.op # "ipi" /\ c.op # "fault" /\ c.op # "goto"
        /\ c.op = "wfi" => pc = 11
        /\ c.op = "nops" => pc = 13
    BY <2>1, PlicPlaces
  <2>4. /\ c.op = "count" => pc = 12
        /\ c.op = "mtimecmp" => pc = 3 /\ c.val = MaxTime
        /\ c.op = "while" => pc = 15 /\ c.to = 11 /\ c.count = Wakeups
    BY <2>1, PlicPlaces
  <2>5. c.op = "csrs" => IF pc = 5 THEN c.csr = "mie" /\ c.bits = {"M_EXT"}
                         ELSE c.csr = "mstatus"
    BY <2>1, PlicPlaces
  <2>6. /\ pc = 1 => c.op = "csrs" /\ c.csr = "mstatus"
        /\ pc = 5 => c.op = "csrs"
        /\ pc = 3 => c.op = "mtimecmp"
        /\ pc = 11 => c.op = "wfi"
    BY PlicPlaces
  <2>7. /\ pc = 12 => c.op = "count"
        /\ pc = 13 => c.op = "nops"
        /\ pc = 15 => c.op = "while"
    BY PlicPlaces
  <2>8. c = Code[pc]
    BY <2>1
  <2> HIDE DEF c
  <2> QED BY <2>2, <2>3, <2>4, <2>5, <2>6, <2>7, <2>8
<1>2. CASE program = "gpio_test"
  <2>1. Code = GpioCode /\ pc \in 1 .. 53
    BY <1>2, CodeIs, GpioSize
  <2>2. ~Plic /\ TimerSet = 29 /\ EnableAt = 31 /\ WfiAt = {43, 51} /\ Window = {44, 52}
    BY <1>2 DEF Plic, TimerSet, EnableAt, WfiAt, Window
  <2> DEFINE c == GpioCode[pc]
  <2>3. /\ c.op # "ipi" /\ c.op # "fault" /\ c.op # "goto"
        /\ c.op # "count" /\ c.op # "while"
    BY <2>1, GpioPlaces
  <2>4. (c.op = "wfi") <=> (pc = 43 \/ pc = 51)
    BY <2>1, GpioPlaces
  <2>5. (c.op = "nops") <=> (pc = 44 \/ pc = 52)
    BY <2>1, GpioPlaces
  <2>6. /\ (c.op = "mtimecmp") <=> (pc = 29)
        /\ pc = 29 => c.val = MaxTime
    BY <2>1, GpioPlaces
  <2>7. /\ pc = 1 => c.op = "csrs" /\ c.csr = "mstatus"
        /\ pc = 31 => c.op = "csrs"
    BY GpioPlaces
  <2>8. c.op = "csrs" => IF pc = 31 THEN c.csr = "mie" /\ c.bits = {"M_EXT"}
                         ELSE c.csr = "mstatus"
    BY <2>1, GpioPlaces
  <2>9. c = Code[pc]
    BY <2>1
  <2> HIDE DEF c
  <2> QED BY <2>2, <2>3, <2>4, <2>5, <2>6, <2>7, <2>8, <2>9
<1> QED BY <1>1, <1>2 DEF External

(* After set_timer(MaxTime) there is no timer interrupt in RtcTicks ticks, *)
(* whatever the upper half of the store.                                   *)
LEMMA WrittenMax ==
  ASSUME NEW w \in Written(MaxTime)
  PROVE  w \in Nat /\ w > RtcTicks
<1>1. Half \in Nat /\ Half > 1 /\ RtcTicks \in Nat /\ RtcTicks < Half - 1
  BY DriversAssumption, InterruptsAssumption
<1>2. MaxTime \in Nat /\ MaxTime >= Half - 1
  BY <1>1 DEF MaxTime
<1>3. MaxTime % Half = Half - 1
  <2>1. MaxTime = Half * (Half - 1) + (Half - 1)
    BY <1>1 DEF MaxTime
  <2> QED BY <1>1, <2>1
<1>4. Half * (Half - 1) \in Nat
  BY <1>1
<1> QED BY <1>1, <1>2, <1>3, <1>4 DEF Written

(* main goes on to the next statement, and changes nothing that the        *)
(* invariants name.                                                        *)
Passes ==
  MainLoad \/ MainModify \/ MainStore \/ MainPriority \/ MainCallback \/ MainPoll

LEMMA PassesFrame ==
  ASSUME Passes
  PROVE  /\ pc' = pc + 1
         /\ UNCHANGED <<program, waiting, irq_count, msip, mtime, mtimecmp, mie, mstatus_MIE,
                        handler, wakes, served>>
         /\ \E op \in {"load", "modify", "store", "priority", "callback", "wait_pin",
                       "wait_trap"} : At(op)
<1>1. /\ pc' = pc + 1
      /\ UNCHANGED <<program, waiting, irq_count, msip, mtime, mtimecmp, mie, mstatus_MIE,
                     handler, wakes, served>>
  BY DEF Passes, MainLoad, MainModify, MainStore, MainPriority, MainCallback, MainPoll,
         Next1, ModifyReg, trap, csr, clint, ghost
<1>2. \E op \in {"load", "modify", "store", "priority", "callback", "wait_pin", "wait_trap"} :
        At(op)
  BY DEF Passes, MainLoad, MainModify, MainStore, MainPriority, MainCallback, MainPoll
<1> QED BY <1>1, <1>2

LEMMA ExternalAt ==
  ASSUME PcInv, External, NEW op, At(op)
  PROVE  pc \in 1 .. Len(Code) /\ Code[pc].op = op /\ ~waiting /\ ~InHandler
BY AnyCode DEF At

LEMMA Places ==
  /\ Plic => TimerSet = 3 /\ EnableAt = 5 /\ WfiAt = {11} /\ Window = {12, 13}
  /\ ~Plic => TimerSet = 29 /\ EnableAt = 31 /\ WfiAt = {43, 51} /\ Window = {44, 52}
BY DEF TimerSet, EnableAt, WfiAt, Window

LEMMA SourceStep ==
  ASSUME PcInv, StageInv, SourceInv, External, [Next]_vars
  PROVE  SourceInv'
<1> USE DEF SourceInv
<1>0. pc \in Nat \ {0} /\ RtcTicks \in Nat
  BY InterruptsAssumption DEF PcInv
<1>1. CASE Passes
  <2>1. PICK op \in {"load", "modify", "store", "priority", "callback", "wait_pin",
                     "wait_trap"} : At(op)
    BY <1>1, PassesFrame
  <2>2. pc # EnableAt /\ pc # TimerSet /\ pc # 1
    BY <2>1, ExternalAt, ExternalTest
  <2>3. ~waiting
    BY <2>1, ExternalAt
  <2>4. EnableAt' = EnableAt /\ TimerSet' = TimerSet /\ WfiAt' = WfiAt
    BY <1>1, PassesFrame DEF EnableAt, TimerSet, WfiAt, Plic
  <2> QED BY <1>0, <1>1, <2>2, <2>3, <2>4, PassesFrame, Places DEF InHandler
<1>2. CASE MainNops
  <2>1. At("nops") \/ At("print")
    BY <1>2 DEF MainNops
  <2>2. pc # EnableAt /\ pc # TimerSet /\ pc # 1 /\ ~waiting
    BY <2>1, ExternalAt, ExternalTest
  <2>3. EnableAt' = EnableAt /\ TimerSet' = TimerSet
    BY <1>2 DEF MainNops, Next1, EnableAt, TimerSet, Plic
  <2> QED BY <1>0, <1>2, <2>2, <2>3, Places DEF MainNops, Next1, trap, csr, clint, InHandler
<1>3. CASE MainSetTimer
  <2>1. pc = TimerSet /\ Code[pc].val = MaxTime /\ ~waiting
    BY <1>3, ExternalAt, ExternalTest DEF MainSetTimer
  <2>2. mtimecmp' \in Nat /\ mtimecmp' > RtcTicks
    BY <1>3, <2>1, WrittenMax DEF MainSetTimer
  <2>3. EnableAt' = EnableAt
    BY <1>3 DEF MainSetTimer, Next1, EnableAt, Plic
  <2>4. pc # EnableAt /\ pc # 1
    BY <2>1, Places
  <2> QED BY <1>0, <1>3, <2>1, <2>2, <2>3, <2>4, Places DEF MainSetTimer, Next1, trap, csr, InHandler
<1>4. CASE MainCsrs
  <2>1. /\ ~waiting /\ pc # TimerSet /\ ~InHandler
        /\ pc = 1 => Code[pc].csr = "mstatus"
        /\ IF pc = EnableAt THEN Code[pc].csr = "mie" /\ Code[pc].bits = {"M_EXT"}
           ELSE Code[pc].csr = "mstatus"
    BY <1>4, ExternalAt, ExternalTest DEF MainCsrs
  <2>2. EnableAt' = EnableAt /\ TimerSet' = TimerSet
    BY <1>4 DEF MainCsrs, Next1, EnableAt, TimerSet, Plic
  <2> QED BY <1>0, <1>4, <2>1, <2>2, Places DEF MainCsrs, Next1, trap, clint, InHandler
<1>5. CASE MainWfi
  <2>1. pc \in WfiAt /\ ~InHandler
    BY <1>5, ExternalAt, ExternalTest DEF MainWfi
  <2>2. EnableAt' = EnableAt /\ TimerSet' = TimerSet /\ WfiAt' = WfiAt
    BY <1>5 DEF MainWfi, EnableAt, TimerSet, WfiAt, Plic
  <2> QED BY <1>5, <2>1, <2>2 DEF MainWfi, trap, csr, clint, InHandler
<1>6. CASE MainWake
  <2>1. pc \in WfiAt /\ ~InHandler
    BY <1>6 DEF MainWake
  <2>2. pc > EnableAt /\ pc > TimerSet
    BY <2>1, Places
  <2>3. EnableAt' = EnableAt /\ TimerSet' = TimerSet
    BY <1>6 DEF MainWake, EnableAt, TimerSet, Plic
  <2> QED BY <1>0, <1>6, <2>1, <2>2, <2>3, Places DEF MainWake, trap, csr, clint, InHandler
<1>7. CASE MainCount
  <2>1. Plic /\ pc = 12 /\ ~waiting /\ ~InHandler
    BY <1>7, ExternalAt, ExternalTest DEF MainCount
  <2>2. EnableAt' = EnableAt /\ TimerSet' = TimerSet
    BY <1>7 DEF MainCount, EnableAt, TimerSet, Plic
  <2> QED BY <1>7, <2>1, <2>2, Places DEF MainCount, trap, csr, clint, InHandler
<1>8. CASE MainJump
  <2>1. Plic /\ pc = 15 /\ ~waiting /\ ~InHandler /\ pc' \in {11, 16}
    BY <1>8, ExternalAt, ExternalTest DEF MainJump
  <2>2. EnableAt' = EnableAt /\ TimerSet' = TimerSet
    BY <1>8 DEF MainJump, EnableAt, TimerSet, Plic
  <2> QED BY <1>8, <2>1, <2>2, Places DEF MainJump, trap, csr, clint, InHandler
<1>9. ~MainIpi /\ ~TakeException
  BY ExternalAt, ExternalTest DEF MainIpi, TakeException
<1>10. CASE TakeInterrupt
  <2>1. handler' # << >>
    BY <1>10, Enters DEF TakeInterrupt, PrintLine
  <2>2. EnableAt' = EnableAt /\ TimerSet' = TimerSet /\ WfiAt' = WfiAt
    BY <1>10 DEF TakeInterrupt, main, EnableAt, TimerSet, WfiAt, Plic
  <2> QED BY <1>10, <2>1, <2>2 DEF TakeInterrupt, main, clint, InHandler
<1>11. CASE HandlerStep
  <2>1. InHandler /\ (handler' = << >> => mstatus_MIE')
    <3>1. InHandler
      BY <1>11 DEF HandlerStep, HandlerPrint, HandlerLoad, HandlerModify, HandlerClaim,
              HandlerComplete, HandlerReturn, InTrap
    <3>2. \A id : \A h \in Serving(id) : h # << >>
      BY StageHeads
    <3>3. <<Mret>> # << >>
      OBVIOUS
    <3>4. handler' = << >> => HandlerReturn
      BY <1>11, <3>2, <3>3, HandlerMoves
    <3> QED BY <3>1, <3>4 DEF HandlerReturn
  <2>2. UNCHANGED <<main, mie, clint>>
    BY <1>11 DEF HandlerStep, HandlerPrint, HandlerLoad, HandlerModify, HandlerClaim,
            HandlerComplete, HandlerReturn, csr
  <2>3. EnableAt' = EnableAt /\ TimerSet' = TimerSet
    BY <2>2 DEF main, EnableAt, TimerSet, Plic
  <2> QED BY <2>1, <2>2, <2>3 DEF main, clint, InHandler
<1>12. CASE Devices
  <2>1. UNCHANGED <<main, trap, csr, mtimecmp, msip>> /\ mtime' \in 0 .. RtcTicks
    BY <1>0, <1>12 DEF Devices, RtcTick, TimerCompare, GpioSample, clint
  <2>2. EnableAt' = EnableAt /\ TimerSet' = TimerSet /\ WfiAt' = WfiAt
    BY <2>1 DEF main, EnableAt, TimerSet, WfiAt, Plic
  <2> QED BY <2>1, <2>2 DEF main, trap, csr, InHandler
<1>13. CASE UNCHANGED vars
  <2>1. EnableAt' = EnableAt /\ TimerSet' = TimerSet /\ WfiAt' = WfiAt
    BY <1>13 DEF vars, main, EnableAt, TimerSet, WfiAt, Plic
  <2> QED BY <1>13, <2>1 DEF vars, main, trap, csr, clint, InHandler
<1> QED BY <1>1, <1>2, <1>3, <1>4, <1>5, <1>6, <1>7, <1>8, <1>9, <1>10, <1>11, <1>12, <1>13
        DEF Next, MainStep, Passes, Devices, EndOfCode

(* An interrupt that waits for main is taken rather than passed, and only  *)
(* such an interrupt ends a wfi.                                           *)
LEMMA Pending ==
  ASSUME PcInv, External, SourceInv, pc \in Window, ~InHandler, Eligible # {}
  PROVE  Takeable # {}
<1>1. pc > EnableAt /\ pc > 1
  BY Places
<1> QED BY <1>1 DEF SourceInv, Takeable, Mip

LEMMA Woken ==
  ASSUME PcInv, External, SourceInv, waiting, Mip # {}
  PROVE  Eligible # {} /\ ~InHandler /\ pc \in WfiAt
<1>1. pc \in WfiAt /\ ~InHandler
  BY DEF SourceInv
<1>2. pc > TimerSet
  BY <1>1, Places
<1>3. msip = FALSE /\ mtime \in 0 .. RtcTicks /\ mtimecmp \in Nat /\ mtimecmp > RtcTicks
  BY <1>2 DEF SourceInv
<1>4. ~(mtime >= mtimecmp)
  BY <1>3, InterruptsAssumption
<1> QED BY <1>1, <1>3, <1>4 DEF Mip

(* Requests of the devices are only added to those pending.                *)
LEMMA DeviceFrame ==
  ASSUME Devices
  PROVE  UNCHANGED <<main, trap, csr, wakes, served>> /\ (Eligible # {} => Eligible' # {})
<1>1. UNCHANGED <<main, trap, csr, wakes, served, reg, pri>>
  BY DEF Devices, RtcTick, TimerCompare, GpioSample, plic, ghost
<1>2. ip \subseteq ip'
  BY DEF Devices, RtcTick, TimerCompare, GpioSample, Raise, plic
<1>3. Eligible \subseteq Eligible'
  BY <1>1, <1>2 DEF Eligible
<1> QED BY <1>1, <1>3

LEMMA HandlerFrame ==
  ASSUME HandlerStep
  PROVE  /\ InHandler
         /\ UNCHANGED <<main, mie, wakes>>
         /\ HandlerComplete \/ served' = served
BY DEF HandlerStep, HandlerPrint, HandlerLoad, HandlerModify, HandlerClaim, HandlerComplete,
       HandlerReturn, InTrap, csr, ghost

LEMMA Apart ==
  ASSUME NEW h \in Returning, NEW id
  PROVE  h \notin Serving(id)
<1> SUFFICES ASSUME h \in Serving(id) PROVE FALSE
  OBVIOUS
<1>1. Head(h).op = "print" /\ Tail(h) = <<Mret>> /\ Tail(h) \in Serving(id)
  BY StageHeads, ReturnHeads
<1>2. Head(<<Mret>>).op = "mret"
  BY DEF Mret, Plain
<1> QED BY <1>1, <1>2, StageHeads

LEMMA WakeStep ==
  ASSUME PcInv, StageInv, SourceInv, WakeInv, External, [Next]_vars
  PROVE  WakeInv'
<1>0. /\ wakes = 0 \/ (wakes = 1 /\ pc \in Window /\ ~InHandler /\ Eligible # {})
      /\ pc \in Nat
  BY DEF WakeInv, PcInv
<1>1. CASE Passes \/ MainSetTimer \/ MainCsrs \/ MainWfi \/ MainJump
  <2>1. PICK op \in {"load", "modify", "store", "priority", "callback", "wait_pin",
                     "wait_trap", "mtimecmp", "csrs", "wfi", "while", "goto"} : At(op)
    BY <1>1, PassesFrame DEF MainSetTimer, MainCsrs, MainWfi, MainJump
  <2>2. pc \notin Window
    BY <2>1, ExternalAt, ExternalTest
  <2>3. wakes' = wakes
    BY <1>1, PassesFrame DEF MainSetTimer, MainCsrs, MainWfi, MainJump, ghost
  <2> QED BY <1>0, <2>2, <2>3 DEF WakeInv
<1>2. CASE MainNops
  <2>1. CASE At("nops")
    <3>1. ~InHandler /\ Takeable = {}
      BY <1>2, <2>1, ExternalAt DEF MainNops
    <3>2. wakes = 0
      BY <1>0, <3>1, Pending
    <3> QED BY <1>2, <3>2 DEF MainNops, ghost, WakeInv
  <2>2. CASE At("print")
    <3>1. pc \notin Window
      BY <2>2, ExternalAt, ExternalTest
    <3> QED BY <1>0, <1>2, <3>1 DEF MainNops, ghost, WakeInv
  <2> QED BY <1>2, <2>1, <2>2 DEF MainNops
<1>3. CASE MainWake
  <2>1. Eligible # {} /\ ~InHandler /\ pc \in WfiAt
    BY <1>3, Woken DEF MainWake
  <2>2. wakes = 0 /\ pc + 1 \in Window
    BY <1>0, <2>1, Places
  <2>3. wakes' = 1 /\ pc' \in Window'
    BY <1>3, <2>2 DEF MainWake, Window, Plic
  <2>4. Eligible' = Eligible /\ InHandler' = InHandler
    BY <1>3 DEF MainWake, Eligible, InHandler, plic, trap
  <2> QED BY <2>1, <2>3, <2>4 DEF WakeInv
<1>4. CASE MainCount
  <2>1. Plic /\ pc = 12
    BY <1>4, ExternalAt, ExternalTest DEF MainCount
  <2>2. pc' \in Window'
    BY <1>4, <2>1 DEF MainCount, Window, Plic
  <2>3. wakes' = wakes /\ Eligible' = Eligible /\ InHandler' = InHandler
    BY <1>4 DEF MainCount, Eligible, InHandler, plic, trap, ghost
  <2> QED BY <1>0, <2>2, <2>3 DEF WakeInv
<1>5. ~MainIpi /\ ~TakeException
  BY ExternalAt, ExternalTest DEF MainIpi, TakeException
<1>6. CASE TakeInterrupt
  BY <1>6 DEF TakeInterrupt, EnterTrap, WakeInv
<1>7. CASE HandlerStep
  BY <1>0, <1>7, HandlerFrame DEF WakeInv
<1>8. CASE Devices
  <2>1. Window' = Window /\ pc' = pc /\ wakes' = wakes /\ InHandler' = InHandler
    BY <1>8, DeviceFrame DEF Window, Plic, main, trap, InHandler
  <2> QED BY <1>0, <1>8, <2>1, DeviceFrame DEF WakeInv
<1>9. CASE UNCHANGED vars
  <2>1. /\ Window' = Window /\ pc' = pc /\ wakes' = wakes /\ InHandler' = InHandler
        /\ Eligible' = Eligible
    BY <1>9 DEF vars, Window, Plic, Eligible, main, trap, plic, ghost, InHandler
  <2> QED BY <1>0, <2>1 DEF WakeInv
<1> QED BY <1>1, <1>2, <1>3, <1>4, <1>5, <1>6, <1>7, <1>8, <1>9
        DEF Next, MainStep, Passes, Devices, EndOfCode

LEMMA ServedStep ==
  ASSUME PcInv, StageInv, SourceInv, ServedInv, External, [Next]_vars
  PROVE  ServedInv'
<1>0. /\ pc \in Nat /\ served \in 0 .. Wakeups /\ irq_count \in Nat /\ Wakeups \in Nat
      /\ AtLeast(Due) \/ (pc \in Window /\ AtLeast(Due - 1) /\ Owed)
      /\ Plic /\ pc > 15 => irq_count >= Wakeups
  BY DriversAssumption DEF ServedInv, PcInv
<1>1. CASE Passes \/ MainSetTimer \/ MainCsrs \/ (MainNops /\ At("print"))
  <2>1. PICK op \in {"load", "modify", "store", "priority", "callback", "wait_pin",
                     "wait_trap", "mtimecmp", "csrs", "print"} : At(op)
    BY <1>1, PassesFrame DEF MainSetTimer, MainCsrs
  <2>2. pc \notin Window /\ pc \notin WfiAt /\ ~(Plic /\ pc = 15)
    BY <2>1, ExternalAt, ExternalTest
  <2>3. /\ pc' = pc + 1 /\ program' = program
        /\ irq_count' = irq_count /\ served' = served
    BY <1>1, PassesFrame DEF MainSetTimer, MainCsrs, MainNops, Next1, ghost
  <2>4. Due' = Due
    BY <1>0, <2>2, <2>3, Places DEF Due, Plic
  <2> QED BY <1>0, <2>2, <2>3, <2>4, Places DEF ServedInv, AtLeast, Plic
<1>2. CASE MainWfi
  <2>1. pc \in WfiAt
    BY <1>2, ExternalAt, ExternalTest DEF MainWfi
  <2>2. pc \notin Window
    BY <2>1, Places
  <2>3. UNCHANGED <<pc, program, irq_count, served>>
    BY <1>2 DEF MainWfi, ghost
  <2> QED BY <1>0, <2>2, <2>3 DEF ServedInv, AtLeast, Due, Plic
<1>3. CASE MainNops /\ At("nops")
  <2>1. ~InHandler /\ Takeable = {} /\ pc \in Window /\ pc # 12
    BY <1>3, ExternalAt, ExternalTest DEF MainNops
  <2>2. ~Owed
    <3>1. \A id : handler \notin Serving(id)
      BY <2>1, StageHeads DEF InHandler
    <3> QED BY <2>1, <3>1, Pending DEF Owed
  <2>3. /\ pc' = pc + 1 /\ program' = program
        /\ irq_count' = irq_count /\ served' = served
    BY <1>3 DEF MainNops, Next1, ghost
  <2>4. Due' = Due
    BY <1>0, <2>1, <2>3, Places DEF Due, Plic
  <2> QED BY <1>0, <2>1, <2>2, <2>3, <2>4, Places DEF ServedInv, AtLeast, Plic
<1>4. CASE MainWake
  <2>1. Eligible # {} /\ ~InHandler /\ pc \in WfiAt
    BY <1>4, Woken DEF MainWake
  <2>2. AtLeast(Due) /\ pc + 1 \in Window
    BY <1>0, <2>1, Places
  <2>3. /\ pc' = pc + 1 /\ program' = program
        /\ irq_count' = irq_count /\ served' = served
        /\ Eligible' = Eligible /\ InHandler' = InHandler
    BY <1>4 DEF MainWake, Eligible, InHandler, plic, trap
  <2>4. Due' - 1 = Due
    BY <1>0, <2>1, <2>3, Places DEF Due, Plic
  <2>5. Owed' /\ AtLeast(Due' - 1)
    BY <2>1, <2>2, <2>3, <2>4 DEF Owed
  <2>6. Window' = Window /\ (Plic' <=> Plic)
    BY <2>3 DEF Window, Plic
  <2> QED BY <1>0, <2>1, <2>2, <2>3, <2>4, <2>5, <2>6, Places DEF ServedInv, AtLeast
<1>5. CASE MainCount
  <2>1. Plic /\ pc = 12
    BY <1>5, ExternalAt, ExternalTest DEF MainCount
  <2>2. /\ pc' = 13 /\ program' = program /\ handler' = handler
        /\ irq_count' = irq_count + 1 /\ served' = served
        /\ Eligible' = Eligible /\ InHandler' = InHandler
    BY <1>5, <2>1 DEF MainCount, Eligible, InHandler, plic, trap, ghost
  <2>3. Due' = Due /\ pc' \in Window'
    BY <1>0, <2>1, <2>2 DEF Due, Plic, Window
  <2> QED BY <1>0, <2>1, <2>2, <2>3 DEF ServedInv, AtLeast, Plic, Owed
<1>6. CASE MainJump
  <2>1. /\ Plic /\ pc = 15 /\ pc \notin Window
        /\ pc' = IF irq_count >= Wakeups THEN 16 ELSE 11
    BY <1>6, ExternalAt, ExternalTest, Places DEF MainJump
  <2>2. program' = program /\ irq_count' = irq_count /\ served' = served
    BY <1>6 DEF MainJump, ghost
  <2>3. Due' = Due
    BY <2>1, <2>2 DEF Due, Plic
  <2> QED BY <1>0, <2>1, <2>2, <2>3 DEF ServedInv, AtLeast, Plic
<1>7. ~MainIpi /\ ~TakeException
  BY ExternalAt, ExternalTest DEF MainIpi, TakeException
<1>8. CASE TakeInterrupt
  <2>1. UNCHANGED <<pc, program, irq_count, served>>
    BY <1>8 DEF TakeInterrupt, main
  <2>2. Due' = Due /\ Window' = Window /\ (Plic' <=> Plic)
    BY <2>1 DEF Due, Window, Plic
  <2>3. Takeable # {} /\ Takeable \subseteq {"M_EXT"}
    BY <1>8 DEF TakeInterrupt, Takeable, SourceInv
  <2>4. handler' = <<Plain("claim"), Mret>>
    BY <1>8, <2>3, Enters DEF TakeInterrupt
  <2>5. Owed'
    BY <2>4 DEF Owed, Serving, Plainly
  <2> QED BY <1>0, <2>1, <2>2, <2>5 DEF ServedInv, AtLeast
<1>9. CASE HandlerStep
  <2>1. UNCHANGED <<pc, program, irq_count>> /\ InHandler
    BY <1>9, HandlerFrame DEF main
  <2>2. Due' = Due /\ Window' = Window /\ (Plic' <=> Plic) /\ Due \in Int
    BY <1>0, <2>1 DEF Due, Window, Plic
  <2>3. CASE HandlerComplete
    <3>1. served' = IF served = Wakeups THEN served ELSE served + 1
      BY <2>3 DEF HandlerComplete
    <3> QED BY <1>0, <2>1, <2>2, <3>1 DEF ServedInv, AtLeast
  <2>4. CASE ~HandlerComplete
    <3>1. served' = served
      BY <1>9, <2>4, HandlerFrame
    <3>2. Owed => Owed'
      BY <1>9, <2>1, <2>4, HandlerMoves, Apart DEF Owed
    <3> QED BY <1>0, <2>1, <2>2, <3>1, <3>2 DEF ServedInv, AtLeast
  <2> QED BY <2>3, <2>4
<1>10. CASE Devices
  <2>1. UNCHANGED <<pc, program, irq_count, served, handler>>
    BY <1>10, DeviceFrame DEF main, trap
  <2>2. Due' = Due /\ Window' = Window /\ (Plic' <=> Plic) /\ (Owed => Owed')
    BY <1>10, <2>1, DeviceFrame DEF Due, Window, Plic, Owed, InHandler
  <2> QED BY <1>0, <2>1, <2>2 DEF ServedInv, AtLeast
<1>11. CASE UNCHANGED vars
  <2>1. UNCHANGED <<pc, program, irq_count, served, handler>> /\ Eligible' = Eligible
    BY <1>11 DEF vars, main, trap, plic, ghost, Eligible
  <2>2. Due' = Due /\ Window' = Window /\ (Plic' <=> Plic) /\ (Owed => Owed')
    BY <2>1 DEF Due, Window, Plic, Owed, InHandler
  <2> QED BY <1>0, <2>1, <2>2 DEF ServedInv, AtLeast
<1> QED BY <1>1, <1>2, <1>3, <1>4, <1>5, <1>6, <1>7, <1>8, <1>9, <1>10, <1>11
        DEF Next, MainStep, Passes, Devices, EndOfCode, MainNops

LEMMA SameProgram ==
  ASSUME [Next]_vars
  PROVE  program' = program
<1>1. MainStep => program' = program
  BY DEF MainStep, MainLoad, MainModify, MainStore, MainPriority, MainSetTimer, MainIpi,
         MainCsrs, MainCallback, MainNops, MainWfi, MainWake, MainCount, MainJump, MainPoll,
         TakeException, Next1, main
<1>2. ~MainStep => UNCHANGED main
  BY DEF Next, TakeInterrupt, HandlerStep, HandlerPrint, HandlerLoad, HandlerModify,
         HandlerClaim, HandlerComplete, HandlerReturn, RtcTick, TimerCompare, GpioSample,
         EndOfCode, vars
<1> QED BY <1>1, <1>2 DEF main

ExternalInv == PcInv /\ StageInv /\ SourceInv /\ WakeInv /\ ServedInv

LEMMA ExternalInvInit == Init => ExternalInv
<1> SUFFICES ASSUME Init PROVE ExternalInv
  OBVIOUS
<1>1. PcInv /\ StageInv
  BY DEF Init, PcInv, StageInv
<1>2. SourceInv
  <2>1. ~(pc > EnableAt) /\ ~(pc > TimerSet)
    BY Places DEF Init
  <2> QED BY <2>1, InterruptsAssumption DEF Init, SourceInv
<1>3. WakeInv
  BY DEF Init, WakeInv
<1>4. ServedInv
  <2>1. Due = 0
    BY DEF Init, Due
  <2> QED BY <2>1, DriversAssumption DEF Init, ServedInv, AtLeast
<1> QED BY <1>1, <1>2, <1>3, <1>4 DEF ExternalInv

LEMMA ExternalInvStep ==
  ASSUME ExternalInv, [Next]_vars
  PROVE  ExternalInv'
<1> USE DEF ExternalInv
<1>1. PcInv' /\ StageInv'
  BY PcStep, StageStep
<1>2. CASE External
  BY <1>1, <1>2, SourceStep, WakeStep, ServedStep
<1>3. CASE ~External
  <2>1. ~External'
    BY <1>3, SameProgram DEF External
  <2> QED BY <1>1, <2>1 DEF SourceInv, WakeInv, ServedInv
<1> QED BY <1>2, <1>3

(* plic_test counts wake-ups, and each of them is an interrupt: between    *)
(* two of them the handler has run, for any number of wake-ups.            *)
THEOREM InterruptsWakeups ==
  Spec => []WakeupsAreInterrupts
<1>1. Init => ExternalInv
  BY ExternalInvInit
<1>2. ExternalInv /\ [Next]_vars => ExternalInv'
  BY ExternalInvStep
<1>3. ExternalInv => WakeupsAreInterrupts
  BY DEF ExternalInv, WakeInv, External, WakeupsAreInterrupts
<1> QED BY <1>1, <1>2, <1>3, PTL DEF Spec

(* served counts up to Wakeups, and gpio_test waits for two interrupts.    *)
CountsBoth == Wakeups >= 2

(* A test that reaches its last line has had every interrupt it waited for *)
(* served: each wfi is left with one pending, and the nops do not end      *)
(* before the handler has completed it.                                    *)
THEOREM InterruptsPassedMeansServed ==
  ASSUME CountsBoth
  PROVE  Spec => []PassedMeansServed
<1>1. Init => ExternalInv
  BY ExternalInvInit
<1>2. ExternalInv /\ [Next]_vars => ExternalInv'
  BY ExternalInvStep
<1>3. ExternalInv => PassedMeansServed
  <2> SUFFICES ASSUME ExternalInv, Done, External
               PROVE  served >= IF program = "plic_test" THEN Wakeups ELSE 2
    BY DEF PassedMeansServed, External
  <2>1. /\ pc \in Nat /\ served \in 0 .. Wakeups /\ irq_count \in Nat /\ Wakeups \in Nat
        /\ AtLeast(Due) \/ (pc \in Window /\ AtLeast(Due - 1) /\ Owed)
        /\ Plic /\ pc > 15 => irq_count >= Wakeups
    BY DriversAssumption DEF ExternalInv, PcInv, ServedInv
  <2>2. CASE Plic
    <3>1. pc > 16
      BY <2>2, CodeIs, PlicSize DEF Done, Plic
    <3>2. AtLeast(irq_count) /\ irq_count >= Wakeups
      BY <2>1, <2>2, <3>1, Places DEF Due
    <3> QED BY <2>1, <2>2, <3>2 DEF AtLeast, Plic
  <2>3. CASE ~Plic
    <3>1. pc > 53
      BY <2>3, CodeIs, GpioSize DEF Done, Plic, External
    <3>2. AtLeast(2)
      BY <2>1, <2>3, <3>1, Places DEF Due
    <3> QED BY <2>1, <2>3, <3>2 DEF AtLeast, Plic, CountsBoth
  <2> QED BY <2>2, <2>3
<1> QED BY <1>1, <1>2, <1>3, PTL DEF Spec

------------------------------------------------------------------------------
(* The parity of the toggles                                               *)

LEMMA TimerPlaces ==
  /\ \A k \in 1 .. 22 :
       TimerCode[k].op # "ipi" /\ TimerCode[k].op # "fault" /\ TimerCode[k].op # "while"
  /\ \A k \in 1 .. 22 : TimerCode[k].op = "goto" => TimerCode[k].to = 21
  /\ \A k \in 1 .. 22 : TimerCode[k].op = "wfi" => k = 21
  /\ \A k \in 1 .. 22 : TimerCode[k].op = "csrs" => TimerCode[k].csr = "mstatus" \/ k = 16
  /\ \A k \in 1 .. 22 : TimerCode[k].op = "store" => TimerCode[k].reg # "padout"
  /\ \A k \in 1 .. 22 : TimerCode[k].op = "modify" =>
       \/ k = 13
       \/ TimerCode[k].reg # "padout" /\ TimerCode[k].f # "xor"
  /\ TimerCode[12].op = "load" /\ TimerCode[12].reg = "padout"
  /\ TimerCode[13].op = "modify" /\ TimerCode[13].reg = "padout" /\ TimerCode[13].f = "xor"
BY DEF TimerCode, Plain, SetBits, LoadOf, ModifyOf, StoreOf, PriorityOf, CallbackOf, GotoOf,
       MIE, PrintLine

LEMMA TimerTest ==
  ASSUME PcInv, program = "timer_test", NEW op, At(op)
  PROVE  /\ pc \in Nat /\ ~InHandler /\ Code[pc].op = op
         /\ op \notin {"ipi", "fault", "while"}
         /\ op = "goto" => Code[pc].to = 21
         /\ op = "wfi" => pc = 21
         /\ op = "csrs" => Code[pc].csr = "mstatus" \/ pc = 16
         /\ op = "store" => Code[pc].reg # "padout"
         /\ op = "modify" => IF pc = 13 THEN Code[pc].reg = "padout" /\ Code[pc].f = "xor"
                             ELSE Code[pc].reg # "padout" /\ Code[pc].f # "xor"
         /\ pc = 12 => op = "load" /\ Code[pc].reg = "padout"
         /\ pc = 13 => op = "modify"
<1>1. pc \in 1 .. 22 /\ Code[pc].op = op /\ ~InHandler /\ Code = TimerCode
  BY AnyCode, CodeIs, TimerSize DEF At
<1> DEFINE c == TimerCode[pc]
<1>2. /\ c.op # "ipi" /\ c.op # "fault" /\ c.op # "while"
      /\ c.op = "goto" => c.to = 21
      /\ c.op = "wfi" => pc = 21
      /\ c.op = "csrs" => c.csr = "mstatus" \/ pc = 16
  BY <1>1, TimerPlaces
<1>3. /\ c.op = "store" => c.reg # "padout"
      /\ c.op = "modify" => \/ pc = 13
                            \/ c.reg # "padout" /\ c.f # "xor"
      /\ pc = 12 => c.op = "load" /\ c.reg = "padout"
      /\ pc = 13 => c.op = "modify" /\ c.reg = "padout" /\ c.f = "xor"
  BY <1>1, TimerPlaces
<1>4. c = Code[pc] /\ pc \in Nat
  BY <1>1
<1> HIDE DEF c
<1> QED BY <1>1, <1>2, <1>3, <1>4

(* A read-modify-write of a register whose copy is fresh.                  *)
LEMMA Modifies ==
  ASSUME reg = [r \in DeviceRegs |-> reg[r]], reg["padout"] = toggles,
         NEW s, NEW old, ModifyReg(s, old),
         \/ s.reg = "padout" /\ s.f = "xor" /\ old = reg["padout"]
         \/ s.reg # "padout" /\ s.f # "xor"
  PROVE  reg' = [r \in DeviceRegs |-> reg'[r]] /\ reg'["padout"] = toggles'
<1>1. "padout" \in DeviceRegs
  BY DEF DeviceRegs
<1>2. CASE s.reg = "padout" /\ s.f = "xor" /\ old = reg["padout"]
  <2>1. reg' = [reg EXCEPT !["padout"] = Apply("xor", old, s.mask)]
    BY <1>2 DEF ModifyReg
  <2>2. toggles' = Apply("xor", toggles, s.mask)
    BY <1>2 DEF ModifyReg
  <2> QED BY <1>1, <1>2, <2>1, <2>2
<1>3. CASE s.reg # "padout" /\ s.f # "xor"
  <2>1. toggles' = toggles
    BY <1>3 DEF ModifyReg
  <2>2. reg' = [reg EXCEPT ![s.reg] = Apply(s.f, old, s.mask)]
    BY DEF ModifyReg
  <2> QED BY <1>1, <1>3, <2>1, <2>2
<1> QED BY <1>2, <1>3

LEMMA ToggleStep ==
  ASSUME PcInv, StageInv, ToggleInv, PadoutCountsToggles, program = "timer_test", [Next]_vars
  PROVE  ToggleInv' /\ PadoutCountsToggles'
<1>0. /\ pc \in Nat
      /\ reg = [r \in DeviceRegs |-> reg[r]] /\ reg["padout"] = toggles
      /\ pc <= 16 => mie = {} /\ handler = << >> /\ ~waiting
      /\ pc = 13 => acc = reg["padout"]
      /\ InHandler /\ Head(handler).op = "modify" => hacc = reg["padout"]
  BY DEF ToggleInv, PadoutCountsToggles, PcInv
<1> USE DEF ToggleInv, PadoutCountsToggles, InHandler
<1>1. CASE MainLoad
  <2>1. /\ pc \in Nat /\ ~InHandler
        /\ pc = 12 => Code[pc].reg = "padout"
    BY <1>1, TimerTest DEF MainLoad
  <2>2. pc # 16
    <3>1. TimerCode[16].op = "csrs"
      BY DEF TimerCode, SetBits
    <3> QED BY <1>1, <3>1, CodeIs DEF MainLoad, At
  <2>3. acc' = reg[Code[pc].reg] /\ pc' = pc + 1
    BY <1>1 DEF MainLoad, Next1
  <2>4. UNCHANGED <<reg, toggles, mie, handler, hacc, waiting>>
    BY <1>1 DEF MainLoad, Next1, trap, csr, ghost
  <2> QED BY <1>0, <2>1, <2>2, <2>3, <2>4
<1>2. CASE MainModify
  <2>1. /\ pc \in Nat /\ ~InHandler /\ pc # 12
        /\ IF pc = 13 THEN Code[pc].reg = "padout" /\ Code[pc].f = "xor"
           ELSE Code[pc].reg # "padout" /\ Code[pc].f # "xor"
    BY <1>2, TimerTest DEF MainModify
  <2>2. pc # 16
    <3>1. TimerCode[16].op = "csrs"
      BY DEF TimerCode, SetBits
    <3> QED BY <1>2, <3>1, CodeIs DEF MainModify, At
  <2>3. reg' = [r \in DeviceRegs |-> reg'[r]] /\ reg'["padout"] = toggles'
    BY <1>0, <1>2, <2>1, Modifies DEF MainModify
  <2>4. pc' = pc + 1 /\ UNCHANGED <<mie, handler, waiting>>
    BY <1>2 DEF MainModify, Next1, trap, csr
  <2> QED BY <1>0, <2>1, <2>2, <2>3, <2>4
<1>3. CASE MainStore
  <2>1. pc \in Nat /\ ~InHandler /\ pc # 12 /\ Code[pc].reg # "padout"
    BY <1>3, TimerTest DEF MainStore
  <2>2. pc # 16
    <3>1. TimerCode[16].op = "csrs"
      BY DEF TimerCode, SetBits
    <3> QED BY <1>3, <3>1, CodeIs DEF MainStore, At
  <2>3. reg' = [reg EXCEPT ![Code[pc].reg] = Code[pc].val]
    BY <1>3 DEF MainStore
  <2>4. "padout" \in DeviceRegs
    BY DEF DeviceRegs
  <2>5. reg' = [r \in DeviceRegs |-> reg'[r]] /\ reg'["padout"] = reg["padout"]
    BY <1>0, <2>1, <2>3, <2>4
  <2>6. pc' = pc + 1 /\ UNCHANGED <<mie, handler, waiting, toggles>>
    BY <1>3 DEF MainStore, Next1, trap, csr, ghost
  <2> QED BY <1>0, <2>1, <2>2, <2>5, <2>6
<1>4. CASE MainCsrs
  <2>1. /\ pc \in Nat /\ ~InHandler /\ pc # 12
        /\ Code[pc].csr = "mstatus" \/ pc = 16
    BY <1>4, TimerTest DEF MainCsrs
  <2>2. pc' = pc + 1 /\ UNCHANGED <<reg, handler, waiting, toggles>>
    BY <1>4 DEF MainCsrs, Next1, trap, ghost
  <2>3. pc = 16 \/ mie' = mie
    BY <1>4, <2>1 DEF MainCsrs
  <2> QED BY <1>0, <2>1, <2>2, <2>3
<1>5. CASE MainPriority \/ MainSetTimer \/ MainCallback \/ MainNops \/ MainPoll \/ MainCount
  <2>1. PICK op \in {"priority", "mtimecmp", "callback", "nops", "print", "wait_pin",
                     "wait_trap", "count"} : At(op)
    BY <1>5 DEF MainPriority, MainSetTimer, MainCallback, MainNops, MainPoll, MainCount
  <2>2. pc \in Nat /\ ~InHandler /\ pc # 12
    BY <2>1, TimerTest
  <2>3. pc # 16
    <3>1. TimerCode[16].op = "csrs"
      BY DEF TimerCode, SetBits
    <3> QED BY <2>1, <3>1, CodeIs DEF At
  <2>4. pc' = pc + 1 /\ UNCHANGED <<reg, mie, handler, waiting, toggles>>
    BY <1>5 DEF MainPriority, MainSetTimer, MainCallback, MainNops, MainPoll, MainCount,
            Next1, trap, csr, ghost
  <2> QED BY <1>0, <2>2, <2>3, <2>4
<1>6. CASE MainWfi \/ MainJump
  <2>1. PICK op \in {"wfi", "while", "goto"} : At(op)
    BY <1>6 DEF MainWfi, MainJump
  <2>2. /\ op = "wfi" => pc = 21
        /\ op # "while"
        /\ op = "goto" => Code[pc].to = 21
        /\ Code[pc].op = op /\ ~InHandler
    BY <2>1, TimerTest
  <2>3. pc' = 21 /\ UNCHANGED <<reg, mie, handler, toggles>>
    BY <1>6, <2>2 DEF MainWfi, MainJump, At, trap, csr, ghost
  <2> QED BY <1>0, <2>2, <2>3
<1>7. CASE MainWake
  <2>1. pc > 16
    BY <1>0, <1>7 DEF MainWake
  <2>2. pc' = pc + 1 /\ UNCHANGED <<reg, handler, hacc, toggles>>
    BY <1>7 DEF MainWake, trap
  <2> QED BY <1>0, <2>1, <2>2
<1>8. ~MainIpi /\ ~TakeException
  BY TimerTest DEF MainIpi, TakeException
<1>9. CASE TakeInterrupt
  <2>1. pc > 16
    BY <1>0, <1>9 DEF TakeInterrupt, Takeable
  <2>2. handler' = <<Plain("claim"), Mret>> \/ handler' = <<PrintLine, Mret>>
    BY <1>9, Enters DEF TakeInterrupt
  <2>3. Head(handler').op # "modify"
    BY <2>2 DEF Plain, PrintLine
  <2>4. UNCHANGED <<main, reg, toggles>>
    BY <1>9 DEF TakeInterrupt
  <2> QED BY <1>0, <2>1, <2>3, <2>4 DEF main
<1>10. CASE HandlerStep
  <2>1. pc > 16 /\ pc' = pc
    BY <1>0, <1>10, HandlerFrame DEF main
  <2>2. CASE \/ HandlerClaim \/ HandlerComplete \/ HandlerReturn
             \/ HandlerPrint /\ handler' = <<Mret>>
    <3>1. handler' # << >> => Head(handler').op # "modify"
      <4>1. <<Mret>> # << >> /\ Head(<<Mret>>).op # "modify"
        BY DEF Mret, Plain
      <4>2. HandlerReturn => handler' = << >>
        BY DEF HandlerReturn
      <4>3. HandlerClaim => Head(handler').op # "modify"
        BY HandlerMoves, <1>10, <4>1
           DEF HandlerClaim, HandlerComplete, HandlerPrint, HandlerLoad, HandlerModify,
               HandlerReturn, InTrap
      <4>4. HandlerComplete => handler' = <<Mret>>
        BY HandlerMoves, <1>10, <4>1
           DEF HandlerClaim, HandlerComplete, HandlerPrint, HandlerLoad, HandlerModify,
               HandlerReturn, InTrap
      <4> QED BY <2>2, <4>1, <4>2, <4>3, <4>4
    <3>2. UNCHANGED <<reg, toggles>>
      BY <2>2 DEF HandlerClaim, HandlerComplete, HandlerReturn, HandlerPrint, ghost
    <3> QED BY <1>0, <2>1, <3>1, <3>2
  <2>3. CASE \E id : handler \in Serving(id) /\ (HandlerPrint \/ HandlerLoad \/ HandlerModify)
    <3>1. PICK id : handler \in Serving(id)
      BY <2>3
    <3>2. CASE HandlerPrint
      <4>1. Head(handler').op # "modify"
        BY <3>1, <3>2, StageHeads DEF HandlerPrint, InTrap
      <4>2. UNCHANGED <<reg, toggles>>
        BY <3>2 DEF HandlerPrint, ghost
      <4> QED BY <1>0, <2>1, <4>1, <4>2
    <3>3. CASE HandlerLoad
      <4>1. hacc' = reg["padout"]
        BY <3>1, <3>3, StageHeads DEF HandlerLoad, InTrap
      <4>2. UNCHANGED <<reg, toggles>>
        BY <3>3 DEF HandlerLoad, ghost
      <4> QED BY <1>0, <2>1, <4>1, <4>2
    <3>4. CASE HandlerModify
      <4>1. Head(handler).op = "modify" /\ InHandler
        BY <3>4 DEF HandlerModify, InTrap
      <4>2. /\ Head(handler).reg = "padout" /\ Head(handler).f = "xor"
            /\ Head(Tail(handler)).op # "modify"
        BY <3>1, <4>1, StageHeads
      <4>3. reg' = [r \in DeviceRegs |-> reg'[r]] /\ reg'["padout"] = toggles'
        BY <1>0, <3>4, <4>1, <4>2, Modifies DEF HandlerModify
      <4>4. Head(handler').op # "modify"
        BY <3>4, <4>2 DEF HandlerModify
      <4> QED BY <1>0, <2>1, <4>3, <4>4
    <3> QED BY <2>3, <3>2, <3>3, <3>4
  <2> QED BY <1>10, <2>2, <2>3, HandlerMoves
<1>11. CASE Devices
  <2>1. UNCHANGED <<main, trap, csr, reg, toggles>>
    BY <1>11 DEF Devices, RtcTick, TimerCompare, GpioSample, ghost
  <2> QED BY <1>0, <2>1 DEF main, trap, csr
<1>12. CASE UNCHANGED vars
  <2>1. UNCHANGED <<main, trap, csr, reg, toggles>>
    BY <1>12 DEF vars, ghost
  <2> QED BY <1>0, <2>1 DEF main, trap, csr
<1> QED BY <1>1, <1>2, <1>3, <1>4, <1>5, <1>6, <1>7, <1>8, <1>9, <1>10, <1>11, <1>12
        DEF Next, MainStep, Devices, EndOfCode

(* No toggle is lost: main's own is over before the first interrupt, and   *)
(* the handler's copy of the register stays current while it runs.         *)
THEOREM InterruptsToggles == Spec => []PadoutCountsToggles
<1> DEFINE Inv == PcInv /\ StageInv /\ ToggleInv /\ PadoutCountsToggles
<1>1. Init => Inv
  <2>1. "padout" \in DeviceRegs
    BY DEF DeviceRegs
  <2> QED BY <2>1 DEF Init, PcInv, StageInv, ToggleInv, PadoutCountsToggles, InHandler
<1>2. Inv /\ [Next]_vars => Inv'
  <2> SUFFICES ASSUME Inv, [Next]_vars PROVE Inv'
    OBVIOUS
  <2>1. PcInv' /\ StageInv'
    BY PcStep, StageStep
  <2>2. CASE program = "timer_test"
    BY <2>1, <2>2, ToggleStep
  <2>3. CASE program # "timer_test"
    BY <2>1, <2>3, SameProgram DEF ToggleInv, PadoutCountsToggles
  <2> QED BY <2>2, <2>3
<1>3. Inv => PadoutCountsToggles
  OBVIOUS
<1> HIDE DEF Inv
<1> QED BY <1>1, <1>2, <1>3, PTL DEF Spec
=============================================================================
