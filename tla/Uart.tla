-------------------------------- MODULE Uart --------------------------------
(***************************************************************************)
(* The 16550 UART (apb_uart.sv) and its driver (uart16550.c, serial.c):    *)
(* crt0 configures it with interrupts off, prints the banner, then enables *)
(* interrupts and enters main; from then on main and trap handlers print   *)
(* through the same polled transmit register.  The register at offset 0 is *)
(* the transmit FIFO or the divisor, as LCR bit 7 (DLAB) says.             *)
(***************************************************************************)
EXTENDS Naturals, Sequences, FiniteSets

CONSTANTS
  MainText,        \* characters that crt0 and main print
  Banner,          \* how many of them before interrupts are enabled
  TrapText,        \* characters of a handler's message
  MaxTraps,        \* bound of the model: traps in a run
  TX_FIFO_DEPTH,   \* 16 in the source
  Divisor          \* MARIAN_CLOCK_FREQ_HZ / 115200

ASSUME UartAssumption ==
  /\ MainText \in Nat /\ Banner \in 0..MainText
  /\ TrapText \in Nat \ {0} /\ MaxTraps \in Nat
  /\ TX_FIFO_DEPTH \in Nat \ {0}

\* the divisor latch has 16 bits
ASSUME DivisorAssumption == Divisor \in Nat \ {0} /\ Divisor < 65536

VARIABLES
  todo,            \* statements left of crt0 and main
  acc,             \* LCR as loaded for a read-modify-write
  htodo,           \* statements left of the handler
  traps,           \* traps taken
  mie,             \* interrupts enabled
  lcr, dll, dlm, ier,
  fifo, wire       \* characters queued, and sent with which settings

vars == <<todo, acc, htodo, traps, mie, lcr, dll, dlm, ier, fifo, wire>>

IrqNames == {"rbf", "tbe", "ls", "ms"}

MainChar(n) == [by |-> 0, n |-> n]
TrapChar(t, n) == [by |-> t, n |-> n]

------------------------------------------------------------------------------
(* The driver's functions as statements                                    *)

Do(op) == [op |-> op]
Store(op, val) == [op |-> op, val |-> val]

uart_set_baudrate(divisor) ==
  <<Do("load_lcr"), Do("set_dlab"),
    Store("write0", divisor % 256), Store("write1", (divisor \div 256) % 256),
    Do("load_lcr"), Do("clear_dlab")>>

(* the line format by name: parity, stop bits and length; a value outside   *)
(* its enumeration returns before LCR is written                            *)
Parity == {"none", "odd", "even"}
Stops  == {1, 2}
Length == 5..8

uart_set_line_cfg(parity, stop, len) ==
  IF parity \in Parity /\ stop \in Stops /\ len \in Length
    THEN <<Do("load_lcr"), Store("store_line", <<parity, stop, len>>)>>
    ELSE <<Do("load_lcr")>>

uart_set_default_cfg ==
  uart_set_baudrate(Divisor) \o uart_set_line_cfg("none", 1, 8)

(* Mutant: LSR is read without waiting.                                    *)
transmit_char_NoPoll(c) == <<Do("load_lsr"), Store("write0", c)>>

(* poll LSR for an empty FIFO, then write THR                               *)
transmit_char(c) == <<Do("poll"), Store("write0", c)>>

(* the n characters of c one after the other, two statements each           *)
print(c, n) ==
  [i \in 1..2 * n |->
     transmit_char(c[(i + 1) \div 2])[IF i % 2 = 1 THEN 1 ELSE 2]]

uart_enable_irq(en) ==
  <<Store("write1", {i \in IrqNames : ~en[i]})>>

(* Mutant: interrupts are enabled before the UART is configured.           *)
crt0_EnableFirst ==
  <<Do("enable_mie")>> \o uart_set_default_cfg
    \o print([i \in 1..Banner |-> MainChar(i)], Banner)

crt0 ==
  uart_set_default_cfg
    \o print([i \in 1..Banner |-> MainChar(i)], Banner)
    \o <<Do("enable_mie")>>

main ==
  print([i \in 1..(MainText - Banner) |-> MainChar(Banner + i)],
        MainText - Banner)

trap_handler(t) == print([i \in 1..TrapText |-> TrapChar(t, i)], TrapText)

------------------------------------------------------------------------------
Reset == <<"none", 1, 5>>

Init ==
  /\ acc = [dlab |-> FALSE, line |-> Reset] /\ lcr = acc
  /\ htodo = << >> /\ traps = 0 /\ mie = FALSE
  /\ dll = 0 /\ dlm = 0 /\ ier = {}
  /\ fifo = << >> /\ wire = << >>
  /\ \E en \in [IrqNames -> BOOLEAN] : todo = crt0 \o uart_enable_irq(en) \o main

------------------------------------------------------------------------------
(* Registers                                                               *)

(* offset 0: DLL or THR; a character for a full FIFO is dropped             *)
WriteReg0(v) ==
  IF lcr.dlab
    THEN dll' = v /\ UNCHANGED fifo
    ELSE /\ fifo' = IF Len(fifo) < TX_FIFO_DEPTH THEN Append(fifo, v) ELSE fifo
         /\ UNCHANGED dll

(* offset 4: DLM or IER                                                     *)
WriteReg1(v) ==
  IF lcr.dlab THEN dlm' = v /\ UNCHANGED ier ELSE ier' = v /\ UNCHANGED dlm

(* one statement; LSR bit 5 is set while the FIFO is empty                  *)
Execute(s) ==
  /\ s.op = "poll" => fifo = << >>
  /\ acc' = IF s.op = "load_lcr" THEN lcr ELSE acc
  /\ lcr' = CASE s.op = "set_dlab"   -> [acc EXCEPT !.dlab = TRUE]
              [] s.op = "clear_dlab" -> [acc EXCEPT !.dlab = FALSE]
              [] s.op = "store_line" -> [acc EXCEPT !.line = s.val]
              [] OTHER               -> lcr
  /\ IF s.op = "write0" THEN WriteReg0(s.val) ELSE UNCHANGED <<dll, fifo>>
  /\ IF s.op = "write1" THEN WriteReg1(s.val) ELSE UNCHANGED <<dlm, ier>>

------------------------------------------------------------------------------
MainStep ==
  /\ htodo = << >> /\ todo # << >>
  /\ Execute(Head(todo))
  /\ mie' = (mie \/ Head(todo).op = "enable_mie")
  /\ todo' = Tail(todo)
  /\ UNCHANGED <<htodo, traps, wire>>

Trap ==
  /\ mie /\ htodo = << >> /\ traps < MaxTraps
  /\ traps' = traps + 1
  /\ htodo' = trap_handler(traps + 1)
  /\ UNCHANGED <<todo, acc, mie, lcr, dll, dlm, ier, fifo, wire>>

(* the handler's own loads of LSR leave main's registers alone              *)
HandlerStep ==
  /\ htodo # << >>
  /\ Execute(Head(htodo))
  /\ htodo' = Tail(htodo)
  /\ UNCHANGED <<todo, traps, mie, wire>>

(* uart_tx takes the next character and sends it with the settings it finds *)
Transmit ==
  /\ fifo # << >>
  /\ wire' = Append(wire, [char |-> Head(fifo), div |-> dll + 256 * dlm,
                           line |-> lcr.line])
  /\ fifo' = Tail(fifo)
  /\ UNCHANGED <<todo, acc, htodo, traps, mie, lcr, dll, dlm, ier>>

EndOfCode ==
  /\ todo = << >> /\ htodo = << >> /\ fifo = << >> /\ UNCHANGED vars

Next == MainStep \/ Trap \/ HandlerStep \/ Transmit \/ EndOfCode

(* The hart runs and the transmitter shifts.                                *)
Spec == Init /\ [][Next]_vars
FairSpec == Spec /\ WF_vars(MainStep) /\ WF_vars(HandlerStep) /\ WF_vars(Transmit)

------------------------------------------------------------------------------
Chars == [i \in DOMAIN wire |-> wire[i].char] \o fifo
Count(s, main_) == Cardinality({i \in DOMAIN s : (s[i].by = 0) = main_})

C == INSTANCE Console WITH printed <- Chars,
                           sentMain <- Count(Chars, TRUE),
                           sentTraps <- Count(Chars, FALSE)

(* main and at most one handler are between their poll and their write: a  *)
(* FIFO of two characters never drops one.                                 *)
TwoAreEnough == Len(fifo) <= 2

(* Every character leaves with the divisor and the format that             *)
(* uart_set_default_cfg sets, whenever interrupts come.                    *)
SentAsConfigured ==
  \A i \in DOMAIN wire :
    wire[i].div = Divisor /\ wire[i].line = <<"none", 1, 8>>

(* The driver and the device implement the console: what is on the wire    *)
(* or queued is what main and the handlers have printed, in order.         *)
ConsoleSpec == C!Spec

(* All of main's text is sent, however many traps print in between.        *)
TextIsSent == <>(Count([i \in DOMAIN wire |-> wire[i].char], TRUE) = MainText)
=============================================================================
