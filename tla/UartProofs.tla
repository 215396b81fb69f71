----------------------------- MODULE UartProofs -----------------------------
(***************************************************************************)
(* The safety properties of Uart and its refinement of Console, for every  *)
(* length of the text, every number of traps and every divisor.            *)
(*                                                                         *)
(* The argument: where main is in its program says what the UART has been  *)
(* configured to (ConfigInv) and which characters main has printed         *)
(* (MainInv); where a handler is in its message says the same of the       *)
(* traps (TrapInv).  A writer that has polled an empty FIFO can find one   *)
(* character in it when it writes, the one a trap in between has left, so  *)
(* there are never more than two (QueueInv).                               *)
(***************************************************************************)
EXTENDS Uart, SequenceTheorems, FiniteSetTheorems, TLAPS

(* statements of crt0 and main, and how many have been executed            *)
Size == 2 * MainText + 10
Executed == Size - Len(todo)

(* position of the poll before main's character n; the write follows it    *)
PollAt(n) == IF n <= Banner THEN 2 * n + 7 ELSE 2 * n + 9

(* Statement number k of crt0 and main is s.                               *)
IsStmt(k, s) ==
  /\ k \in {1, 5, 7} => s.op = "load_lcr"
  /\ k = 2 => s.op = "set_dlab"
  /\ k = 3 => s.op = "write0" /\ s.val = Divisor % 256
  /\ k = 4 => s.op = "write1" /\ s.val = (Divisor \div 256) % 256
  /\ k = 6 => s.op = "clear_dlab"
  /\ k = 8 => s.op = "store_line" /\ s.val = <<"none", 1, 8>>
  /\ k = 2 * Banner + 9 => s.op = "enable_mie"
  /\ k = 2 * Banner + 10 => s.op = "write1"
  /\ \A n \in 1 .. MainText :
       /\ k = PollAt(n) => s.op = "poll"
       /\ k = PollAt(n) + 1 => s.op = "write0" /\ s.val = MainChar(n)

(* the statements, the characters and what goes over the wire              *)
Char == [by : Nat, n : Nat]
Values == Nat \cup {<<"none", 1, 8>>} \cup (SUBSET IrqNames) \cup Char
Ops == {"load_lcr", "set_dlab", "clear_dlab", "store_line", "poll", "write0",
        "write1", "enable_mie"}
Statement == [op : Ops] \cup [op : Ops, val : Values]
Lines == {Reset, <<"none", 1, 8>>}
Sent == [char : Char, div : Nat, line : Lines]

(* main's program is what is left of crt0 and main.                        *)
CodeInv ==
  /\ todo \in Seq(Statement) /\ Len(todo) <= Size
  /\ \A i \in 1 .. Len(todo) : IsStmt(Executed + i, todo[i])

(* A handler's program is what is left of its message.                     *)
HandlerInv ==
  /\ htodo \in Seq(Statement) /\ Len(htodo) <= 2 * TrapText
  /\ \A i \in 1 .. Len(htodo), n \in 1 .. TrapText :
       /\ 2 * TrapText - Len(htodo) + i = 2 * n - 1 => htodo[i].op = "poll"
       /\ 2 * TrapText - Len(htodo) + i = 2 * n =>
            htodo[i].op = "write0" /\ htodo[i].val = TrapChar(traps, n)

(* Interrupts are enabled when the UART has been configured, and traps     *)
(* come only then.                                                         *)
TrapsInv ==
  /\ traps \in 0 .. MaxTraps /\ mie \in BOOLEAN
  /\ mie => Executed >= 2 * Banner + 9
  /\ traps = 0 => htodo = << >>
  /\ traps > 0 => mie

(* The registers follow uart_set_default_cfg, statement by statement.      *)
ConfigInv ==
  /\ dll \in Nat /\ dlm \in Nat
  /\ Executed \in {0, 1, 6, 7} => lcr = [dlab |-> FALSE, line |-> Reset]
  /\ Executed \in 2 .. 5 => lcr = [dlab |-> TRUE, line |-> Reset]
  /\ Executed >= 8 => lcr = [dlab |-> FALSE, line |-> <<"none", 1, 8>>]
  /\ Executed \in {1, 5, 7} => acc = lcr
  /\ Executed >= 3 => dll = Divisor % 256
  /\ Executed >= 4 => dlm = (Divisor \div 256) % 256

(* What the transmitter holds and has sent.                                *)
QueueInv ==
  /\ fifo \in Seq(Char) /\ wire \in Seq(Sent)
  /\ Executed < 8 => fifo = << >> /\ wire = << >>
  /\ Len(fifo) <= 2
  /\ htodo # << >> /\ Head(htodo).op = "write0" => fifo = << >>
  /\ \A n \in 1 .. MainText : Executed = PollAt(n) => Len(fifo) <= 1

ConfInv == CodeInv /\ HandlerInv /\ TrapsInv /\ ConfigInv /\ QueueInv /\ SentAsConfigured

(* What has been printed.                                                  *)
MainSent == Count(Chars, TRUE)
TrapSent == Count(Chars, FALSE)

(* Main has printed the characters whose statements it has executed.       *)
MainInv ==
  /\ MainSent \in 0 .. MainText
  /\ MainSent > 0 => PollAt(MainSent) < Executed
  /\ MainSent < MainText => Executed <= PollAt(MainSent + 1)

(* The traps have printed whole messages, and the last one as far as its   *)
(* handler has come.                                                       *)
TrapInv ==
  IF traps = 0 THEN TrapSent = 0
  ELSE \E c \in 0 .. TrapText :
         /\ TrapSent = (traps - 1) * TrapText + c
         /\ Len(htodo) \in {2 * (TrapText - c), 2 * (TrapText - c) - 1}

------------------------------------------------------------------------------
(* The programs                                                            *)

(* The constants are numbers.                                              *)
LEMMA Constants ==
  /\ MainText \in Nat /\ Banner \in 0 .. MainText
  /\ Size = 2 * MainText + 10 /\ Size \in Nat
  /\ TrapText \in Nat /\ TrapText # 0 /\ MaxTraps \in Nat
  /\ TX_FIFO_DEPTH \in Nat /\ TX_FIFO_DEPTH # 0
<1>1. /\ MainText \in Nat /\ Banner \in 0 .. MainText
      /\ TrapText \in Nat \ {0} /\ MaxTraps \in Nat
      /\ TX_FIFO_DEPTH \in Nat \ {0}
  BY UartAssumption
<1>2. Size = 2 * MainText + 10 /\ Size \in Nat
  BY <1>1 DEF Size
<1> QED BY <1>1, <1>2

(* Where main's characters are polled for, after the configuration and     *)
(* around the two statements that enable interrupts.                       *)
LEMMA PollPositions ==
  ASSUME NEW n \in 1 .. MainText
  PROVE  /\ PollAt(n) \in 9 .. (Size - 1)
         /\ PollAt(n) \notin {2 * Banner + 8, 2 * Banner + 9, 2 * Banner + 10}
         /\ \A m \in 1 .. MainText : m < n => PollAt(m) + 1 < PollAt(n)
<1>1. MainText \in Nat /\ Banner \in 0 .. MainText /\ Size = 2 * MainText + 10
  BY Constants
<1>2. PollAt(n) = IF n <= Banner THEN 2 * n + 7 ELSE 2 * n + 9
  BY DEF PollAt
<1>3. PollAt(n) \in 9 .. (Size - 1)
  BY <1>1, <1>2
<1>4. PollAt(n) \notin {2 * Banner + 8, 2 * Banner + 9, 2 * Banner + 10}
  <2>1. n \in Nat /\ Banner \in Nat
    BY <1>1
  <2>2. CASE n <= Banner
    <3>1. PollAt(n) = 2 * n + 7
      BY <1>2, <2>2
    <3> QED BY <2>1, <2>2, <3>1
  <2>3. CASE ~ (n <= Banner)
    <3>1. PollAt(n) = 2 * n + 9
      BY <1>2, <2>3
    <3> QED BY <2>1, <2>3, <3>1
  <2> QED BY <2>2, <2>3
<1>5. ASSUME NEW m \in 1 .. MainText, m < n PROVE PollAt(m) + 1 < PollAt(n)
  <2>1. PollAt(m) = IF m <= Banner THEN 2 * m + 7 ELSE 2 * m + 9
    BY DEF PollAt
  <2>2. n \in Nat /\ m \in Nat /\ Banner \in Nat
    BY <1>1
  <2> QED BY <1>2, <1>5, <2>1, <2>2
<1> QED BY <1>3, <1>4, <1>5

(* Every statement of crt0 and main is one that IsStmt describes.          *)
LEMMA StatementCases ==
  ASSUME NEW k \in 1 .. Size
  PROVE  \/ k \in 1 .. 8
         \/ k \in {2 * Banner + 9, 2 * Banner + 10}
         \/ \E n \in 1 .. MainText : k \in {PollAt(n), PollAt(n) + 1}
<1>1. MainText \in Nat /\ Banner \in 0 .. MainText /\ k \in 1 .. (2 * MainText + 10)
  BY Constants
<1>2. CASE k \in 9 .. (2 * Banner + 8)
  <2> DEFINE n == (k - 7) \div 2
  <2>1. n \in 1 .. Banner /\ k \in {2 * n + 7, 2 * n + 8}
    BY <1>1, <1>2
  <2>2. k \in {PollAt(n), PollAt(n) + 1}
    BY <2>1, <1>1 DEF PollAt
  <2> QED BY <2>1, <2>2, <1>1
<1>3. CASE k > 2 * Banner + 10
  <2> DEFINE n == (k - 9) \div 2
  <2>1. n \in (Banner + 1) .. MainText /\ k \in {2 * n + 9, 2 * n + 10}
    BY <1>1, <1>3
  <2>2. k \in {PollAt(n), PollAt(n) + 1}
    BY <2>1, <1>1 DEF PollAt
  <2> QED BY <2>1, <2>2, <1>1
<1> QED BY <1>1, <1>2, <1>3

(* print polls and writes, one character after the other.                  *)
LEMMA PrintProgram ==
  ASSUME NEW c, NEW n \in Nat, \A i \in 1 .. n : c[i] \in Char
  PROVE  /\ print(c, n) \in Seq(Statement)
         /\ Len(print(c, n)) = 2 * n
         /\ \A i \in 1 .. n :
              /\ print(c, n)[2 * i - 1].op = "poll"
              /\ print(c, n)[2 * i].op = "write0"
              /\ print(c, n)[2 * i].val = c[i]
<1> DEFINE f(i) == transmit_char(c[(i + 1) \div 2])[IF i % 2 = 1 THEN 1 ELSE 2]
<1>1. print(c, n) = [i \in 1 .. 2 * n |-> f(i)]
  BY DEF print
<1>2. ASSUME NEW d \in Char
      PROVE  /\ transmit_char(d)[1] = [op |-> "poll"]
             /\ transmit_char(d)[2] = [op |-> "write0", val |-> d]
  BY DEF transmit_char, Do, Store
<1>3. ASSUME NEW d \in Char
      PROVE  transmit_char(d)[1] \in Statement /\ transmit_char(d)[2] \in Statement
  <2>1. [op |-> "poll"] \in Statement
    BY DEF Statement, Ops
  <2>2. [op |-> "write0", val |-> d] \in Statement
    <3>1. d \in Values
      BY DEF Values
    <3> QED BY <3>1 DEF Statement, Ops
  <2> QED BY <1>2, <2>1, <2>2
<1>4. ASSUME NEW i \in 1 .. 2 * n PROVE f(i) \in Statement
  <2>1. (i + 1) \div 2 \in 1 .. n
    OBVIOUS
  <2>2. c[(i + 1) \div 2] \in Char
    BY <2>1
  <2> QED BY <2>2, <1>3
<1>5. 2 * n \in Nat
  OBVIOUS
<1>6. print(c, n) \in Seq(Statement) /\ Len(print(c, n)) = 2 * n
  <2> HIDE DEF f
  <2> QED BY <1>1, <1>4, <1>5
<1>7. ASSUME NEW i \in 1 .. n
      PROVE  /\ print(c, n)[2 * i - 1] = transmit_char(c[i])[1]
             /\ print(c, n)[2 * i] = transmit_char(c[i])[2]
  <2>1. 2 * i - 1 \in 1 .. 2 * n /\ 2 * i \in 1 .. 2 * n
    OBVIOUS
  <2>2. /\ ((2 * i - 1) + 1) \div 2 = i /\ (2 * i - 1) % 2 = 1
        /\ (2 * i + 1) \div 2 = i /\ ((2 * i) % 2 = 0)
    OBVIOUS
  <2>3. f(2 * i - 1) = transmit_char(c[i])[1] /\ f(2 * i) = transmit_char(c[i])[2]
    BY <2>2
  <2> HIDE DEF f
  <2> QED BY <1>1, <2>1, <2>3
<1> HIDE DEF f
<1>8. ASSUME NEW i \in 1 .. n
      PROVE  /\ print(c, n)[2 * i - 1].op = "poll"
             /\ print(c, n)[2 * i].op = "write0"
             /\ print(c, n)[2 * i].val = c[i]
  <2>1. c[i] \in Char
    OBVIOUS
  <2>2. /\ transmit_char(c[i])[1] = [op |-> "poll"]
        /\ transmit_char(c[i])[2] = [op |-> "write0", val |-> c[i]]
    BY <2>1, <1>2
  <2> QED BY <1>7, <2>2
<1> QED BY <1>6, <1>8

(* Element i of a concatenation.                                           *)
LEMMA ConcatParts ==
  ASSUME NEW S, NEW s \in Seq(S), NEW t \in Seq(S)
  PROVE  /\ s \o t \in Seq(S) /\ Len(s \o t) = Len(s) + Len(t)
         /\ \A i \in 1 .. Len(s) : (s \o t)[i] = s[i]
         /\ \A i \in 1 .. Len(t) : (s \o t)[Len(s) + i] = t[i]
  BY ConcatProperties

(* uart_set_default_cfg, statement by statement.                           *)
LEMMA ConfigProgram ==
  /\ uart_set_default_cfg \in Seq(Statement)
  /\ Len(uart_set_default_cfg) = 8
  /\ \A k \in 1 .. 8 : IsStmt(k, uart_set_default_cfg[k])
<1>1. uart_set_default_cfg =
        <<Do("load_lcr"), Do("set_dlab"),
          Store("write0", Divisor % 256), Store("write1", (Divisor \div 256) % 256),
          Do("load_lcr"), Do("clear_dlab")>>
          \o <<Do("load_lcr"), Store("store_line", <<"none", 1, 8>>)>>
  BY DEF uart_set_default_cfg, uart_set_baudrate, uart_set_line_cfg, Parity, Stops, Length
<1>2. /\ Do("load_lcr") \in Statement /\ Do("set_dlab") \in Statement
      /\ Do("clear_dlab") \in Statement
  BY DEF Do, Statement, Ops
<1>3. Divisor % 256 \in Nat /\ (Divisor \div 256) % 256 \in Nat
  BY DivisorAssumption
<1>4. /\ Store("write0", Divisor % 256) \in Statement
      /\ Store("write1", (Divisor \div 256) % 256) \in Statement
  BY <1>3 DEF Store, Statement, Ops, Values
<1>5. Store("store_line", <<"none", 1, 8>>) \in Statement
  BY DEF Store, Statement, Ops, Values
<1> DEFINE a == <<Do("load_lcr"), Do("set_dlab"),
          Store("write0", Divisor % 256), Store("write1", (Divisor \div 256) % 256),
          Do("load_lcr"), Do("clear_dlab")>>
           b == <<Do("load_lcr"), Store("store_line", <<"none", 1, 8>>)>>
<1>6. a \in Seq(Statement) /\ Len(a) = 6
  BY <1>2, <1>4
<1>7. b \in Seq(Statement) /\ Len(b) = 2
  BY <1>2, <1>5
<1>8. /\ a[1].op = "load_lcr" /\ a[2].op = "set_dlab"
      /\ a[3].op = "write0" /\ a[3].val = Divisor % 256
      /\ a[4].op = "write1" /\ a[4].val = (Divisor \div 256) % 256
      /\ a[5].op = "load_lcr" /\ a[6].op = "clear_dlab"
      /\ b[1].op = "load_lcr" /\ b[2].op = "store_line" /\ b[2].val = <<"none", 1, 8>>
  BY DEF Do, Store
<1> HIDE DEF a, b
<1>9. uart_set_default_cfg = a \o b
  BY <1>1 DEF a, b
<1>10. /\ uart_set_default_cfg \in Seq(Statement)
       /\ Len(uart_set_default_cfg) = 8
       /\ \A k \in 1 .. 6 : uart_set_default_cfg[k] = a[k]
       /\ uart_set_default_cfg[7] = b[1] /\ uart_set_default_cfg[8] = b[2]
  <2>1. Len(a) + 1 = 7 /\ Len(a) + 2 = 8 /\ 1 \in 1 .. Len(b) /\ 2 \in 1 .. Len(b)
    BY <1>6, <1>7
  <2>2. /\ a \o b \in Seq(Statement) /\ Len(a \o b) = Len(a) + Len(b)
        /\ \A i \in 1 .. Len(a) : (a \o b)[i] = a[i]
        /\ \A i \in 1 .. Len(b) : (a \o b)[Len(a) + i] = b[i]
    <3>1. a \in Seq(Statement) /\ b \in Seq(Statement)
      BY <1>6, <1>7
    <3> QED BY <3>1, ConcatParts
  <2> QED BY <1>6, <1>7, <1>9, <2>1, <2>2
<1>11. ASSUME NEW k \in 1 .. 8 PROVE IsStmt(k, uart_set_default_cfg[k])
  <2>1. k # 2 * Banner + 9 /\ k # 2 * Banner + 10
    BY Constants
  <2>2. \A n \in 1 .. MainText : k # PollAt(n) /\ k # PollAt(n) + 1
    BY PollPositions
  <2> QED BY <1>8, <1>10, <2>1, <2>2 DEF IsStmt
<1> QED BY <1>10, <1>11

(* crt0 and main: the configuration, the banner, interrupts on, the rest.  *)
LEMMA MainProgram ==
  ASSUME NEW en \in [IrqNames -> BOOLEAN]
  PROVE  LET p == crt0 \o uart_enable_irq(en) \o main
         IN  /\ p \in Seq(Statement) /\ Len(p) = Size
             /\ \A k \in 1 .. Size : IsStmt(k, p[k])
<1> DEFINE cb == [i \in 1 .. Banner |-> MainChar(i)]
           cm == [i \in 1 .. (MainText - Banner) |-> MainChar(Banner + i)]
           a == uart_set_default_cfg
           b == print(cb, Banner)
           c == <<Do("enable_mie")>>
           d == uart_enable_irq(en)
           e == main
           p == crt0 \o uart_enable_irq(en) \o main
<1>0. MainText \in Nat /\ Banner \in 0 .. MainText
  BY Constants
<1>1. \A n \in Nat : MainChar(n) \in Char
  BY DEF MainChar, Char
<1>2. /\ b \in Seq(Statement) /\ Len(b) = 2 * Banner
      /\ \A i \in 1 .. Banner : /\ b[2 * i - 1].op = "poll"
                                /\ b[2 * i].op = "write0" /\ b[2 * i].val = MainChar(i)
  <2>1. \A i \in 1 .. Banner : cb[i] \in Char
    BY <1>0, <1>1
  <2> HIDE DEF cb
  <2>2. \A i \in 1 .. Banner : cb[i] = MainChar(i)
    BY DEF cb
  <2>3. Banner \in Nat
    BY <1>0
  <2>4. /\ b \in Seq(Statement) /\ Len(b) = 2 * Banner
        /\ \A i \in 1 .. Banner : /\ b[2 * i - 1].op = "poll"
                                  /\ b[2 * i].op = "write0" /\ b[2 * i].val = cb[i]
    BY <2>1, <2>3, PrintProgram
  <2> QED BY <2>2, <2>4
<1>3. /\ e \in Seq(Statement) /\ Len(e) = 2 * (MainText - Banner)
      /\ \A i \in 1 .. (MainText - Banner) :
           /\ e[2 * i - 1].op = "poll"
           /\ e[2 * i].op = "write0" /\ e[2 * i].val = MainChar(Banner + i)
  <2>1. \A i \in 1 .. (MainText - Banner) : cm[i] \in Char
    BY <1>0, <1>1
  <2>2. e = print(cm, MainText - Banner) /\ MainText - Banner \in Nat
    BY <1>0 DEF main
  <2> HIDE DEF cm, e
  <2>3. \A i \in 1 .. (MainText - Banner) : cm[i] = MainChar(Banner + i)
    BY DEF cm
  <2> DEFINE n == MainText - Banner
  <2>4. \A i \in 1 .. n : cm[i] \in Char
    BY <2>1
  <2>5. n \in Nat /\ e = print(cm, n)
    BY <2>2
  <2> HIDE DEF n
  <2>6. /\ print(cm, n) \in Seq(Statement) /\ Len(print(cm, n)) = 2 * n
        /\ \A i \in 1 .. n : /\ print(cm, n)[2 * i - 1].op = "poll"
                             /\ print(cm, n)[2 * i].op = "write0"
                             /\ print(cm, n)[2 * i].val = cm[i]
    BY <2>4, <2>5, PrintProgram
  <2> QED BY <2>3, <2>5, <2>6 DEF n
<1>4. c \in Seq(Statement) /\ Len(c) = 1 /\ c[1].op = "enable_mie"
  BY DEF Do, Statement, Ops
<1>5. d \in Seq(Statement) /\ Len(d) = 1 /\ d[1].op = "write1"
  <2>1. {i \in IrqNames : ~en[i]} \in Values
    BY DEF Values
  <2>2. Store("write1", {i \in IrqNames : ~en[i]}) \in Statement
    BY <2>1 DEF Store, Statement, Ops
  <2> QED BY <2>2 DEF uart_enable_irq, Store
<1>6. /\ a \in Seq(Statement) /\ Len(a) = 8
      /\ \A k \in 1 .. 8 : IsStmt(k, a[k])
  BY ConfigProgram
<1>7. p = ((a \o b \o c) \o d) \o e
  BY DEF crt0
<1> HIDE DEF a, b, c, d, e, p
<1>8. /\ a \o b \in Seq(Statement) /\ Len(a \o b) = 8 + 2 * Banner
      /\ \A k \in 1 .. 8 : (a \o b)[k] = a[k]
      /\ \A i \in 1 .. 2 * Banner : (a \o b)[8 + i] = b[i]
  <2>1. /\ a \o b \in Seq(Statement) /\ Len(a \o b) = Len(a) + Len(b)
        /\ \A i \in 1 .. Len(a) : (a \o b)[i] = a[i]
        /\ \A i \in 1 .. Len(b) : (a \o b)[Len(a) + i] = b[i]
    <3>1. a \in Seq(Statement) /\ b \in Seq(Statement)
      BY <1>2, <1>6
    <3> QED BY <3>1, ConcatParts
  <2> QED BY <1>0, <1>2, <1>6, <2>1
<1>9. /\ a \o b \o c \in Seq(Statement) /\ Len(a \o b \o c) = 9 + 2 * Banner
      /\ \A k \in 1 .. (8 + 2 * Banner) : (a \o b \o c)[k] = (a \o b)[k]
      /\ (a \o b \o c)[9 + 2 * Banner] = c[1]
  <2>1. 1 \in 1 .. Len(c) /\ Len(a \o b) + 1 = 9 + 2 * Banner
    BY <1>0, <1>4, <1>8
  <2>2. /\ (a \o b) \o c \in Seq(Statement)
        /\ Len((a \o b) \o c) = Len(a \o b) + Len(c)
        /\ \A i \in 1 .. Len(a \o b) : ((a \o b) \o c)[i] = (a \o b)[i]
        /\ \A i \in 1 .. Len(c) : ((a \o b) \o c)[Len(a \o b) + i] = c[i]
    <3>1. (a \o b) \in Seq(Statement) /\ c \in Seq(Statement)
      BY <1>4, <1>8
    <3> QED BY <3>1, ConcatParts
  <2> QED BY <1>0, <1>4, <1>8, <2>1, <2>2
<1>10. /\ (a \o b \o c) \o d \in Seq(Statement)
       /\ Len((a \o b \o c) \o d) = 10 + 2 * Banner
       /\ \A k \in 1 .. (9 + 2 * Banner) : ((a \o b \o c) \o d)[k] = (a \o b \o c)[k]
       /\ ((a \o b \o c) \o d)[10 + 2 * Banner] = d[1]
  <2>1. 1 \in 1 .. Len(d) /\ Len(a \o b \o c) + 1 = 10 + 2 * Banner
    BY <1>0, <1>5, <1>9
  <2>2. /\ (a \o b \o c) \o d \in Seq(Statement)
        /\ Len((a \o b \o c) \o d) = Len(a \o b \o c) + Len(d)
        /\ \A i \in 1 .. Len(a \o b \o c) : ((a \o b \o c) \o d)[i] = (a \o b \o c)[i]
        /\ \A i \in 1 .. Len(d) : ((a \o b \o c) \o d)[Len(a \o b \o c) + i] = d[i]
    <3>1. (a \o b \o c) \in Seq(Statement) /\ d \in Seq(Statement)
      BY <1>5, <1>9
    <3> QED BY <3>1, ConcatParts
  <2> QED BY <1>0, <1>5, <1>9, <2>1, <2>2
<1>11. /\ p \in Seq(Statement) /\ Len(p) = Size
       /\ \A k \in 1 .. (10 + 2 * Banner) : p[k] = ((a \o b \o c) \o d)[k]
       /\ \A i \in 1 .. 2 * (MainText - Banner) : p[10 + 2 * Banner + i] = e[i]
  <2>1. 10 + 2 * Banner + 2 * (MainText - Banner) = Size
    BY <1>0 DEF Size
  <2> DEFINE q == (a \o b \o c) \o d
  <2>2. q \in Seq(Statement) /\ Len(q) = 10 + 2 * Banner /\ p = q \o e
    BY <1>7, <1>10
  <2> HIDE DEF q
  <2>3. /\ p \in Seq(Statement) /\ Len(p) = Len(q) + Len(e)
        /\ \A i \in 1 .. Len(q) : p[i] = q[i]
        /\ \A i \in 1 .. Len(e) : p[Len(q) + i] = e[i]
    <3>1. q \in Seq(Statement) /\ e \in Seq(Statement)
      BY <1>3, <2>2
    <3>2. p = q \o e
      BY <2>2
    <3>3. /\ q \o e \in Seq(Statement) /\ Len(q \o e) = Len(q) + Len(e)
          /\ \A i \in 1 .. Len(q) : (q \o e)[i] = q[i]
          /\ \A i \in 1 .. Len(e) : (q \o e)[Len(q) + i] = e[i]
      BY <3>1, ConcatParts
    <3> QED BY <3>2, <3>3
  <2>4. /\ p \in Seq(Statement) /\ Len(p) = Size
        /\ \A i \in 1 .. (10 + 2 * Banner) : p[i] = q[i]
        /\ \A i \in 1 .. 2 * (MainText - Banner) : p[10 + 2 * Banner + i] = e[i]
    BY <1>0, <1>3, <2>1, <2>2, <2>3
  <2> QED BY <2>4 DEF q
<1>12. \A k \in 1 .. 8 : IsStmt(k, p[k])
  <2>1. \A k \in 1 .. 8 : p[k] = a[k]
    <3> TAKE k \in 1 .. 8
    <3>1. k \in 1 .. (8 + 2 * Banner) /\ k \in 1 .. (9 + 2 * Banner) /\ k \in 1 .. (10 + 2 * Banner)
      BY <1>0
    <3> QED BY <3>1, <1>8, <1>9, <1>10, <1>11
  <2> QED BY <1>6, <2>1
<1>13. p[2 * Banner + 9].op = "enable_mie" /\ p[2 * Banner + 10].op = "write1"
  BY <1>0, <1>4, <1>5, <1>9, <1>10, <1>11
<1>14. ASSUME NEW n \in 1 .. MainText
       PROVE  /\ p[PollAt(n)].op = "poll"
              /\ p[PollAt(n) + 1].op = "write0" /\ p[PollAt(n) + 1].val = MainChar(n)
  <2>1. CASE n <= Banner
    <3>1. \A i \in 1 .. 2 * Banner : p[8 + i] = b[i]
      <4> TAKE i \in 1 .. 2 * Banner
      <4> DEFINE k == 8 + i
      <4>1. /\ k \in 1 .. (8 + 2 * Banner) /\ k \in 1 .. (9 + 2 * Banner)
            /\ k \in 1 .. (10 + 2 * Banner)
        BY <1>0
      <4>2. (a \o b)[k] = b[i]
        BY <1>8
      <4> HIDE DEF k
      <4>3. p[k] = b[i]
        BY <4>1, <4>2, <1>9, <1>10, <1>11
      <4> QED BY <4>3 DEF k
    <3>2. PollAt(n) = 8 + (2 * n - 1) /\ PollAt(n) + 1 = 8 + 2 * n
      BY <2>1 DEF PollAt
    <3>3. 2 * n - 1 \in 1 .. 2 * Banner /\ 2 * n \in 1 .. 2 * Banner
      BY <1>0, <2>1
    <3> QED BY <1>2, <2>1, <3>1, <3>2, <3>3
  <2>2. CASE n > Banner
    <3> DEFINE i == n - Banner
    <3>1. i \in 1 .. (MainText - Banner) /\ n = Banner + i
      BY <1>0, <2>2
    <3> HIDE DEF i
    <3>2. /\ PollAt(n) = 10 + 2 * Banner + (2 * i - 1)
          /\ PollAt(n) + 1 = 10 + 2 * Banner + 2 * i
      BY <1>0, <2>2, <3>1 DEF PollAt
    <3>3. /\ 2 * i - 1 \in 1 .. 2 * (MainText - Banner)
          /\ 2 * i \in 1 .. 2 * (MainText - Banner)
      BY <1>0, <3>1
    <3> QED BY <1>3, <1>11, <3>1, <3>2, <3>3
  <2> QED BY <1>0, <2>1, <2>2
<1>15. ASSUME NEW k \in 1 .. Size PROVE IsStmt(k, p[k])
  <2>1. CASE k \in 1 .. 8
    BY <2>1, <1>12
  <2>2. CASE k > 8
    BY <1>0, <1>13, <1>14, <2>2 DEF IsStmt
  <2> QED BY <2>1, <2>2
<1>16. p \in Seq(Statement) /\ Len(p) = Size /\ \A k \in 1 .. Size : IsStmt(k, p[k])
  BY <1>11, <1>15
<1> QED BY <1>16 DEF p

(* A handler's message.                                                    *)
LEMMA TrapProgram ==
  ASSUME NEW t \in Nat
  PROVE  /\ trap_handler(t) \in Seq(Statement)
         /\ Len(trap_handler(t)) = 2 * TrapText
         /\ \A n \in 1 .. TrapText :
              /\ trap_handler(t)[2 * n - 1].op = "poll"
              /\ trap_handler(t)[2 * n].op = "write0"
              /\ trap_handler(t)[2 * n].val = TrapChar(t, n)
<1> DEFINE c == [i \in 1 .. TrapText |-> TrapChar(t, i)]
<1>1. TrapText \in Nat
  BY Constants
<1>2. \A i \in 1 .. TrapText : c[i] \in Char /\ c[i] = TrapChar(t, i)
  BY DEF TrapChar, Char
<1>3. trap_handler(t) = print(c, TrapText)
  BY DEF trap_handler
<1> HIDE DEF c
<1>4. /\ print(c, TrapText) \in Seq(Statement) /\ Len(print(c, TrapText)) = 2 * TrapText
      /\ \A i \in 1 .. TrapText : /\ print(c, TrapText)[2 * i - 1].op = "poll"
                                  /\ print(c, TrapText)[2 * i].op = "write0"
                                  /\ print(c, TrapText)[2 * i].val = c[i]
  BY <1>1, <1>2, PrintProgram
<1> QED BY <1>2, <1>3, <1>4

------------------------------------------------------------------------------
(* One statement                                                           *)

(* What each kind of statement does to the registers and the queue.        *)
LEMMA Effects ==
  ASSUME NEW s, Execute(s)
  PROVE  /\ s.op = "poll" => fifo = << >>
         /\ s.op \in {"poll", "enable_mie"} =>
              acc' = acc /\ lcr' = lcr /\ dll' = dll /\ dlm' = dlm /\ fifo' = fifo
         /\ s.op = "load_lcr" =>
              acc' = lcr /\ lcr' = lcr /\ dll' = dll /\ dlm' = dlm /\ fifo' = fifo
         /\ s.op = "set_dlab" =>
              /\ lcr' = [acc EXCEPT !.dlab = TRUE]
              /\ dll' = dll /\ dlm' = dlm /\ fifo' = fifo
         /\ s.op = "clear_dlab" =>
              /\ lcr' = [acc EXCEPT !.dlab = FALSE]
              /\ dll' = dll /\ dlm' = dlm /\ fifo' = fifo
         /\ s.op = "store_line" =>
              /\ lcr' = [acc EXCEPT !.line = s.val]
              /\ dll' = dll /\ dlm' = dlm /\ fifo' = fifo
         /\ s.op = "write0" => acc' = acc /\ lcr' = lcr /\ dlm' = dlm /\ WriteReg0(s.val)
         /\ s.op = "write1" => /\ acc' = acc /\ lcr' = lcr /\ dll' = dll /\ fifo' = fifo
                               /\ WriteReg1(s.val)
<1>1. s.op \in {"poll", "enable_mie"} =>
        acc' = acc /\ lcr' = lcr /\ dll' = dll /\ dlm' = dlm /\ fifo' = fifo
  BY DEF Execute
<1>2. s.op = "load_lcr" =>
        acc' = lcr /\ lcr' = lcr /\ dll' = dll /\ dlm' = dlm /\ fifo' = fifo
  BY DEF Execute
<1>3. s.op = "set_dlab" => /\ lcr' = [acc EXCEPT !.dlab = TRUE]
                           /\ dll' = dll /\ dlm' = dlm /\ fifo' = fifo
  BY DEF Execute
<1>4. s.op = "clear_dlab" => /\ lcr' = [acc EXCEPT !.dlab = FALSE]
                             /\ dll' = dll /\ dlm' = dlm /\ fifo' = fifo
  BY DEF Execute
<1>5. s.op = "store_line" => /\ lcr' = [acc EXCEPT !.line = s.val]
                             /\ dll' = dll /\ dlm' = dlm /\ fifo' = fifo
  BY DEF Execute
<1>6. s.op = "write0" => acc' = acc /\ lcr' = lcr /\ dlm' = dlm /\ WriteReg0(s.val)
  BY DEF Execute
<1>7. s.op = "write1" => /\ acc' = acc /\ lcr' = lcr /\ dll' = dll /\ fifo' = fifo
                         /\ WriteReg1(s.val)
  BY DEF Execute
<1>8. s.op = "poll" => fifo = << >>
  BY DEF Execute
<1> QED BY <1>1, <1>2, <1>3, <1>4, <1>5, <1>6, <1>7, <1>8

(* A step of main executes the statement its program is at.                *)
LEMMA MainAt ==
  ASSUME CodeInv, MainStep
  PROVE  /\ Executed + 1 \in 1 .. Size /\ Executed' = Executed + 1
         /\ IsStmt(Executed + 1, Head(todo))
         /\ todo' \in Seq(Statement) /\ Len(todo') \in 0 .. Size
         /\ Len(todo') = Len(todo) - 1
         /\ \A i \in 1 .. Len(todo') : todo'[i] = todo[i + 1]
<1>1. todo \in Seq(Statement) /\ todo # << >> /\ todo' = Tail(todo)
  BY DEF CodeInv, MainStep
<1>2. /\ Head(todo) = todo[1] /\ todo' \in Seq(Statement)
      /\ Len(todo') = Len(todo) - 1
      /\ \A i \in 1 .. Len(todo') : todo'[i] = todo[i + 1]
  BY <1>1, HeadTailProperties
<1>3. Len(todo) \in 1 .. Size /\ Size \in Nat
  <2>1. Len(todo) \in Nat /\ Len(todo) # 0
    BY <1>1, EmptySeq, LenProperties
  <2> QED BY <2>1, Constants DEF CodeInv
<1>4. IsStmt(Executed + 1, todo[1])
  BY <1>3 DEF CodeInv
<1>5. Executed + 1 \in 1 .. Size /\ Executed' = Executed + 1
  BY <1>2, <1>3 DEF Executed, Size
<1> QED BY <1>2, <1>3, <1>4, <1>5

(* A step of a handler executes the poll or the write of one character of  *)
(* its message.                                                            *)
LEMMA HandlerAt ==
  ASSUME HandlerInv, HandlerStep
  PROVE  \E n \in 1 .. TrapText :
           /\ htodo' \in Seq(Statement) /\ Len(htodo') = Len(htodo) - 1
           /\ \A i \in 1 .. Len(htodo') : htodo'[i] = htodo[i + 1]
           /\ \/ /\ Len(htodo) = 2 * (TrapText - n) + 2
                 /\ Head(htodo).op = "poll"
                 /\ Len(htodo') > 0 /\ Head(htodo').op = "write0"
              \/ /\ Len(htodo) = 2 * (TrapText - n) + 1
                 /\ Head(htodo).op = "write0" /\ Head(htodo).val = TrapChar(traps, n)
                 /\ htodo' # << >> => Head(htodo').op = "poll"
<1>1. htodo \in Seq(Statement) /\ htodo # << >> /\ htodo' = Tail(htodo)
  BY DEF HandlerInv, HandlerStep
<1>2. /\ Head(htodo) = htodo[1] /\ htodo' \in Seq(Statement)
      /\ Len(htodo') = Len(htodo) - 1
      /\ \A i \in 1 .. Len(htodo') : htodo'[i] = htodo[i + 1]
  BY <1>1, HeadTailProperties
<1>3. Len(htodo) \in 1 .. 2 * TrapText /\ TrapText \in Nat
  <2>1. Len(htodo) \in Nat /\ Len(htodo) # 0
    BY <1>1, EmptySeq, LenProperties
  <2>2. Len(htodo) <= 2 * TrapText
    BY DEF HandlerInv
  <2>3. TrapText \in Nat
    BY Constants
  <2> QED BY <2>1, <2>2, <2>3
<1>4. htodo' # << >> => 1 \in 1 .. Len(htodo') /\ Head(htodo') = htodo[2]
  <2>1. htodo' # << >> => Len(htodo') \in Nat \ {0} /\ Head(htodo') = htodo'[1]
    BY <1>2, EmptySeq, LenProperties, HeadTailProperties
  <2> QED BY <1>2, <2>1
<1>5. \A i \in 1 .. Len(htodo), n \in 1 .. TrapText :
        /\ 2 * TrapText - Len(htodo) + i = 2 * n - 1 => htodo[i].op = "poll"
        /\ 2 * TrapText - Len(htodo) + i = 2 * n =>
             htodo[i].op = "write0" /\ htodo[i].val = TrapChar(traps, n)
  BY DEF HandlerInv
<1>6. PICK L \in 1 .. 2 * TrapText : L = Len(htodo)
  BY <1>3
<1>7. CASE L % 2 = 0
  <2> DEFINE n == TrapText - (L \div 2) + 1
  <2>1. n \in 1 .. TrapText /\ L = 2 * (TrapText - n) + 2
    BY <1>3, <1>6, <1>7
  <2> HIDE DEF n
  <2>2. /\ 1 \in 1 .. L /\ (2 * TrapText - L) + 1 = 2 * n - 1
        /\ 2 \in 1 .. L /\ (2 * TrapText - L) + 2 = 2 * n
    BY <1>3, <2>1
  <2>3. htodo[1].op = "poll" /\ htodo[2].op = "write0"
    BY <1>5, <1>6, <2>1, <2>2
  <2>4. Len(htodo') > 0 /\ htodo' # << >>
    BY <1>2, <1>6, <2>1, <2>2, EmptySeq
  <2> QED BY <1>2, <1>4, <1>6, <2>1, <2>3, <2>4
<1>8. CASE L % 2 = 1
  <2> DEFINE n == TrapText - (L \div 2)
  <2>1. n \in 1 .. TrapText /\ L = 2 * (TrapText - n) + 1
    BY <1>3, <1>6, <1>8
  <2> HIDE DEF n
  <2>2. 1 \in 1 .. L /\ (2 * TrapText - L) + 1 = 2 * n
    BY <1>3, <2>1
  <2>3. htodo[1].op = "write0" /\ htodo[1].val = TrapChar(traps, n)
    BY <1>5, <1>6, <2>1, <2>2
  <2>4. ASSUME htodo' # << >> PROVE htodo[2].op = "poll"
    <3>1. 2 \in 1 .. L /\ n + 1 \in 1 .. TrapText
      BY <1>2, <1>3, <1>4, <1>6, <2>1, <2>4
    <3>2. (2 * TrapText - L) + 2 = 2 * (n + 1) - 1
      BY <1>3, <2>1
    <3> QED BY <1>5, <1>6, <3>1, <3>2
  <2> QED BY <1>2, <1>4, <1>6, <2>1, <2>3, <2>4
<1> QED BY <1>6, <1>7, <1>8

------------------------------------------------------------------------------
(* Configuration and queue                                                 *)

(* A program and its position are numbers.                                 *)
LEMMA Positions ==
  ASSUME ConfInv
  PROVE  /\ Executed \in 0 .. Size /\ Size \in Nat /\ MainText \in Nat
         /\ Banner \in 0 .. MainText /\ TrapText \in Nat
         /\ Len(todo) \in Nat /\ fifo \in Seq(Char) /\ Len(fifo) \in Nat
<1>1. Len(todo) \in Nat /\ fifo \in Seq(Char) /\ Len(fifo) \in Nat
  BY LenProperties DEF ConfInv, CodeInv, QueueInv
<1>2. Len(todo) <= Size
  BY DEF ConfInv, CodeInv
<1>3. Size \in Nat
  BY Constants
<1>4. Executed \in 0 .. Size
  BY <1>1, <1>2, <1>3 DEF Executed
<1> QED BY <1>1, <1>4, Constants

(* While the UART is being configured no trap comes.                       *)
LEMMA QuietConfiguration ==
  ASSUME ConfInv, Executed < 9
  PROVE  mie = FALSE /\ traps = 0 /\ htodo = << >>
<1>1. Executed \in Nat /\ Banner \in Nat
  BY Positions
<1>2. /\ traps \in 0 .. MaxTraps /\ mie \in BOOLEAN
      /\ mie => Executed >= 2 * Banner + 9
      /\ traps = 0 => htodo = << >>
      /\ traps > 0 => mie
  BY DEF ConfInv, TrapsInv
<1>3. mie = FALSE
  BY <1>1, <1>2
<1>4. MaxTraps \in Nat
  BY Constants
<1> QED BY <1>2, <1>3, <1>4

(* The reset state, before crt0.                                           *)
LEMMA ConfInit == Init => ConfInv
<1> SUFFICES ASSUME Init PROVE ConfInv
  OBVIOUS
<1>1. todo \in Seq(Statement) /\ Len(todo) = Size /\ \A k \in 1 .. Size : IsStmt(k, todo[k])
  BY MainProgram DEF Init
<1>2. Size \in Nat /\ Executed = 0 /\ TrapText \in Nat
  BY <1>1, Constants DEF Executed
<1>3. CodeInv
  BY <1>1, <1>2 DEF CodeInv
<1>4. htodo = << >> /\ traps = 0 /\ mie = FALSE /\ fifo = << >> /\ wire = << >>
  BY DEF Init
<1>5. HandlerInv
  BY <1>2, <1>4 DEF HandlerInv
<1>6. TrapsInv
  <2>1. 0 \in 0 .. MaxTraps /\ ~ (0 > 0)
    BY Constants
  <2> QED BY <1>4, <2>1 DEF TrapsInv
<1>7. ConfigInv
  <2>1. lcr = [dlab |-> FALSE, line |-> Reset] /\ dll = 0 /\ dlm = 0
    BY DEF Init
  <2> QED BY <1>2, <2>1 DEF ConfigInv
<1>8. QueueInv
  BY <1>4 DEF QueueInv
<1>9. SentAsConfigured
  BY <1>4 DEF SentAsConfigured
<1> QED BY <1>3, <1>5, <1>6, <1>7, <1>8, <1>9 DEF ConfInv

(* A statement of main leaves its program at the next one.                 *)
LEMMA MainKeepsCode == ConfInv /\ MainStep => CodeInv' /\ HandlerInv' /\ TrapsInv'
<1> SUFFICES ASSUME ConfInv, MainStep PROVE CodeInv' /\ HandlerInv' /\ TrapsInv'
  OBVIOUS
<1> DEFINE s == Head(todo)
           k == Executed + 1
<1>1. /\ k \in 1 .. Size /\ Executed' = k /\ IsStmt(k, s)
      /\ todo' \in Seq(Statement) /\ Len(todo') \in 0 .. Size
      /\ Len(todo') = Len(todo) - 1
      /\ \A i \in 1 .. Len(todo') : todo'[i] = todo[i + 1]
  BY MainAt DEF ConfInv
<1>2. CodeInv'
  <2>1. ASSUME NEW i \in 1 .. Len(todo') PROVE IsStmt(Executed' + i, todo'[i])
    <3>1. i + 1 \in 1 .. Len(todo) /\ Executed' + i = Executed + (i + 1)
      <4>1. Len(todo) \in Nat /\ Executed \in Nat
        BY Positions
      <4>2. Len(todo') = Len(todo) - 1 /\ Executed' = Executed + 1
        BY <1>1
      <4> QED BY <4>1, <4>2
    <3>2. IsStmt(Executed + (i + 1), todo[i + 1])
      BY <3>1 DEF ConfInv, CodeInv
    <3> QED BY <1>1, <3>1, <3>2
  <2> QED BY <1>1, <2>1 DEF CodeInv, IsStmt, Size, PollAt, MainChar
<1>3. HandlerInv'
  BY DEF MainStep, ConfInv, HandlerInv, TrapChar
<1>4. s.op = "enable_mie" => k >= 2 * Banner + 9
  <2>1. \/ k \in 1 .. 8
        \/ k \in {2 * Banner + 9, 2 * Banner + 10}
        \/ \E n \in 1 .. MainText : k \in {PollAt(n), PollAt(n) + 1}
    BY <1>1, StatementCases
  <2>2. k \in 1 .. 8 => s.op # "enable_mie"
    BY <1>1 DEF IsStmt
  <2>3. \A n \in 1 .. MainText : k \in {PollAt(n), PollAt(n) + 1} => s.op # "enable_mie"
    BY <1>1 DEF IsStmt
  <2>4. k \in {2 * Banner + 9, 2 * Banner + 10} => k >= 2 * Banner + 9
    BY Positions
  <2> QED BY <2>1, <2>2, <2>3, <2>4
<1>5. TrapsInv'
  <2>1. mie' = (mie \/ s.op = "enable_mie") /\ traps' = traps /\ htodo' = htodo
    BY DEF MainStep
  <2>2. mie' => Executed' >= 2 * Banner + 9
    <3>1. mie => Executed >= 2 * Banner + 9
      BY DEF ConfInv, TrapsInv
    <3>2. Executed' = Executed + 1 /\ Executed \in Nat /\ Banner \in Nat
      BY <1>1, Positions
    <3>3. mie' => mie \/ s.op = "enable_mie"
      BY <2>1, Zenon
    <3> QED BY <1>4, <3>1, <3>2, <3>3
  <2>3. mie' \in BOOLEAN
    BY <2>1 DEF ConfInv, TrapsInv
  <2>4. traps' > 0 => mie'
    BY <2>1 DEF ConfInv, TrapsInv
  <2> QED BY <2>1, <2>2, <2>3, <2>4 DEF ConfInv, TrapsInv
<1> QED BY <1>2, <1>3, <1>5

(* The statements of uart_set_default_cfg set the registers one by one;    *)
(* the ones after them do not touch them.                                  *)
LEMMA MainConfigures == ConfInv /\ MainStep => ConfigInv'
<1> SUFFICES ASSUME ConfInv, MainStep PROVE ConfigInv'
  OBVIOUS
<1> DEFINE s == Head(todo)
           k == Executed + 1
<1>1. k \in 1 .. Size /\ Executed' = k /\ IsStmt(k, s) /\ Executed \in 0 .. Size
  <2>1. CodeInv
    BY DEF ConfInv
  <2> QED BY <2>1, MainAt, Positions
<1>2. Execute(s)
  BY DEF MainStep
<1>3. /\ dll \in Nat /\ dlm \in Nat
      /\ Executed \in {0, 1, 6, 7} => lcr = [dlab |-> FALSE, line |-> Reset]
      /\ Executed \in 2 .. 5 => lcr = [dlab |-> TRUE, line |-> Reset]
      /\ Executed >= 8 => lcr = [dlab |-> FALSE, line |-> <<"none", 1, 8>>]
      /\ Executed \in {1, 5, 7} => acc = lcr
      /\ Executed >= 3 => dll = Divisor % 256
      /\ Executed >= 4 => dlm = (Divisor \div 256) % 256
  BY DEF ConfInv, ConfigInv
<1>4. Divisor % 256 \in Nat /\ (Divisor \div 256) % 256 \in Nat
  BY DivisorAssumption
<1> SUFFICES /\ dll' \in Nat /\ dlm' \in Nat
             /\ k \in {0, 1, 6, 7} => lcr' = [dlab |-> FALSE, line |-> Reset]
             /\ k \in 2 .. 5 => lcr' = [dlab |-> TRUE, line |-> Reset]
             /\ k >= 8 => lcr' = [dlab |-> FALSE, line |-> <<"none", 1, 8>>]
             /\ k \in {1, 5, 7} => acc' = lcr'
             /\ k >= 3 => dll' = Divisor % 256
             /\ k >= 4 => dlm' = (Divisor \div 256) % 256
  BY <1>1 DEF ConfigInv, Reset
<1>5. CASE k \in {1, 5, 7}
  <2>1. acc' = lcr /\ lcr' = lcr /\ dll' = dll /\ dlm' = dlm
    BY <1>1, <1>2, <1>5, Effects DEF IsStmt
  <2> QED BY <1>1, <1>3, <1>5, <2>1
<1>6. CASE k = 2
  <2>1. lcr' = [acc EXCEPT !.dlab = TRUE] /\ dll' = dll /\ dlm' = dlm
    BY <1>1, <1>2, <1>6, Effects DEF IsStmt
  <2>2. Executed = 1 /\ acc = lcr
    BY <1>1, <1>3, <1>6
  <2>3. lcr = [dlab |-> FALSE, line |-> Reset]
    BY <1>3, <2>2
  <2>4. lcr' = [[dlab |-> FALSE, line |-> Reset] EXCEPT !.dlab = TRUE]
    BY <2>1, <2>2, <2>3
  <2>5. lcr' = [dlab |-> TRUE, line |-> Reset]
    BY <2>4
  <2>6. dll' = dll /\ dlm' = dlm /\ Executed = 1
    BY <2>1, <2>2
  <2> QED BY <1>3, <1>6, <2>5, <2>6
<1>7. CASE k = 3
  <2>1. acc' = acc /\ lcr' = lcr /\ dlm' = dlm /\ WriteReg0(Divisor % 256)
    BY <1>1, <1>2, <1>7, Effects DEF IsStmt
  <2>2. Executed = 2
    BY <1>1, <1>7
  <2>3. lcr.dlab
    BY <1>3, <2>2
  <2>4. dll' = Divisor % 256
    BY <2>1, <2>3 DEF WriteReg0
  <2> QED BY <1>3, <1>4, <1>7, <2>1, <2>2, <2>4
<1>8. CASE k = 4
  <2>1. acc' = acc /\ lcr' = lcr /\ dll' = dll /\ WriteReg1((Divisor \div 256) % 256)
    BY <1>1, <1>2, <1>8, Effects DEF IsStmt
  <2>2. Executed = 3
    BY <1>1, <1>8
  <2>3. lcr.dlab
    BY <1>3, <2>2
  <2>4. dlm' = (Divisor \div 256) % 256
    BY <2>1, <2>3 DEF WriteReg1
  <2> QED BY <1>3, <1>4, <1>8, <2>1, <2>2, <2>4
<1>9. CASE k = 6
  <2>1. lcr' = [acc EXCEPT !.dlab = FALSE] /\ dll' = dll /\ dlm' = dlm
    BY <1>1, <1>2, <1>9, Effects DEF IsStmt
  <2>2. Executed = 5 /\ acc = lcr
    BY <1>1, <1>3, <1>9
  <2>3. lcr = [dlab |-> TRUE, line |-> Reset]
    BY <1>3, <2>2
  <2>4. lcr' = [[dlab |-> TRUE, line |-> Reset] EXCEPT !.dlab = FALSE]
    BY <2>1, <2>2, <2>3
  <2>5. lcr' = [dlab |-> FALSE, line |-> Reset]
    BY <2>4
  <2>6. dll' = dll /\ dlm' = dlm /\ Executed = 5
    BY <2>1, <2>2
  <2> QED BY <1>3, <1>9, <2>5, <2>6
<1>10. CASE k = 8
  <2>1. /\ lcr' = [acc EXCEPT !.line = <<"none", 1, 8>>]
        /\ dll' = dll /\ dlm' = dlm
    BY <1>1, <1>2, <1>10, Effects DEF IsStmt
  <2>2. Executed = 7 /\ acc = lcr
    BY <1>1, <1>3, <1>10
  <2>3. lcr = [dlab |-> FALSE, line |-> Reset]
    BY <1>3, <2>2
  <2>4. lcr' = [[dlab |-> FALSE, line |-> Reset] EXCEPT !.line = <<"none", 1, 8>>]
    BY <2>1, <2>2, <2>3
  <2>5. lcr' = [dlab |-> FALSE, line |-> <<"none", 1, 8>>]
    BY <2>4
  <2>6. dll' = dll /\ dlm' = dlm /\ Executed = 7
    BY <2>1, <2>2
  <2> QED BY <1>3, <1>10, <2>5, <2>6
<1>11. CASE k > 8
  <2>1. lcr.dlab = FALSE
    BY <1>1, <1>3, <1>11
  <2>2. \/ k \in {2 * Banner + 9, 2 * Banner + 10}
        \/ \E n \in 1 .. MainText : k \in {PollAt(n), PollAt(n) + 1}
    BY <1>1, <1>11, StatementCases
  <2>3. s.op \in {"poll", "enable_mie", "write0", "write1"}
    BY <1>1, <2>2 DEF IsStmt
  <2>4. lcr' = lcr /\ dll' = dll /\ dlm' = dlm
    <3>1. CASE s.op \in {"poll", "enable_mie"}
      BY <1>2, <3>1, Effects
    <3>2. CASE s.op = "write0"
      <4>1. lcr' = lcr /\ dlm' = dlm /\ WriteReg0(s.val)
        BY <1>2, <3>2, Effects
      <4> QED BY <2>1, <4>1 DEF WriteReg0
    <3>3. CASE s.op = "write1"
      <4>1. lcr' = lcr /\ dll' = dll /\ WriteReg1(s.val)
        BY <1>2, <3>3, Effects
      <4> QED BY <2>1, <4>1 DEF WriteReg1
    <3> QED BY <2>3, <3>1, <3>2, <3>3
  <2> QED BY <1>1, <1>3, <1>11, <2>4
<1> QED BY <1>1, <1>5, <1>6, <1>7, <1>8, <1>9, <1>10, <1>11


(* Main leaves the queue alone, or writes the character it has polled for. *)
LEMMA MainPrints ==
  ASSUME ConfInv, MainStep
  PROVE  \/ /\ fifo' = fifo /\ \A n \in 1 .. MainText : Executed # PollAt(n)
            /\ \A n \in 1 .. MainText : Executed' = PollAt(n) => fifo = << >>
         \/ \E n \in 1 .. MainText :
              /\ Executed = PollAt(n) /\ Executed' = PollAt(n) + 1 /\ Len(fifo) <= 1
              /\ fifo' = IF Len(fifo) < TX_FIFO_DEPTH THEN Append(fifo, MainChar(n)) ELSE fifo
<1> DEFINE s == Head(todo)
           k == Executed + 1
<1>1. k \in 1 .. Size /\ Executed' = k /\ IsStmt(k, s) /\ Executed \in 0 .. Size
  <2>1. CodeInv
    BY DEF ConfInv
  <2> QED BY <2>1, MainAt, Positions
<1>2. Execute(s)
  BY DEF MainStep
<1>3. \/ k \in 1 .. 8
      \/ k \in {2 * Banner + 9, 2 * Banner + 10}
      \/ \E n \in 1 .. MainText : k \in {PollAt(n), PollAt(n) + 1}
  BY <1>1, StatementCases
<1>4. \A n \in 1 .. MainText :
        PollAt(n) \in 9 .. (Size - 1)
          /\ PollAt(n) \notin {2 * Banner + 8, 2 * Banner + 9, 2 * Banner + 10}
  BY PollPositions
<1>5. CASE k \in 1 .. 8
  <2>1. \A n \in 1 .. MainText : Executed # PollAt(n) /\ Executed' # PollAt(n)
    <3> TAKE n \in 1 .. MainText
    <3>1. PollAt(n) \in Nat /\ PollAt(n) >= 9
      BY PollPositions
    <3>2. PollAt(n) \notin {2 * Banner + 8, 2 * Banner + 9, 2 * Banner + 10}
      BY PollPositions
    <3>3. Executed \in Nat /\ Executed' = Executed + 1
      BY <1>1, Positions
    <3> QED BY <1>5, <3>1, <3>2, <3>3, Positions
  <2>2. fifo' = fifo
    <3>1. CASE k = 3
      <4>1. WriteReg0(s.val)
        BY <1>1, <1>2, <3>1, Effects DEF IsStmt
      <4>2. Executed = 2
        BY <1>1, <3>1
      <4>3. lcr.dlab
        BY <4>2 DEF ConfInv, ConfigInv
      <4> QED BY <4>1, <4>3 DEF WriteReg0
    <3>2. CASE k # 3
      <4>1. s.op \in {"load_lcr", "set_dlab", "write1", "clear_dlab", "store_line"}
        BY <1>1, <1>5, <3>2 DEF IsStmt
      <4> QED BY <1>2, <4>1, Effects
    <3> QED BY <3>1, <3>2
  <2> QED BY <2>1, <2>2
<1>6. CASE k \in {2 * Banner + 9, 2 * Banner + 10}
  <2>1. \A n \in 1 .. MainText : Executed # PollAt(n) /\ Executed' # PollAt(n)
    <3> TAKE n \in 1 .. MainText
    <3>1. PollAt(n) \in Nat /\ PollAt(n) >= 9
      BY PollPositions
    <3>2. PollAt(n) \notin {2 * Banner + 8, 2 * Banner + 9, 2 * Banner + 10}
      BY PollPositions
    <3>3. Executed \in Nat /\ Executed' = Executed + 1
      BY <1>1, Positions
    <3>4. Executed \in {2 * Banner + 8, 2 * Banner + 9}
      <4>1. Banner \in Nat
        BY Positions
      <4>2. CASE k = 2 * Banner + 9
        BY <3>3, <4>1, <4>2
      <4>3. CASE k = 2 * Banner + 10
        BY <3>3, <4>1, <4>3
      <4> QED BY <1>6, <4>2, <4>3
    <3>5. Executed' \in {2 * Banner + 9, 2 * Banner + 10}
      BY <1>1, <1>6
    <3> QED BY <3>2, <3>4, <3>5
  <2>2. s.op \in {"enable_mie", "write1"}
    BY <1>1, <1>6 DEF IsStmt
  <2>3. fifo' = fifo
    BY <1>2, <2>2, Effects
  <2> QED BY <2>1, <2>3
<1>7. ASSUME NEW n \in 1 .. MainText, k = PollAt(n)
      PROVE  /\ fifo' = fifo /\ fifo = << >>
             /\ \A m \in 1 .. MainText : Executed # PollAt(m)
  <2>1. s.op = "poll"
    BY <1>1, <1>7 DEF IsStmt
  <2>2. fifo' = fifo /\ fifo = << >>
    BY <1>2, <2>1, Effects
  <2>3. ASSUME NEW m \in 1 .. MainText, Executed = PollAt(m) PROVE FALSE
    <3>1. PollAt(m) + 1 = PollAt(n) /\ PollAt(m) \in Nat /\ PollAt(n) \in Nat
      BY <1>7, <2>3, <1>4, Positions
    <3>2. n < m => PollAt(n) + 1 < PollAt(m)
      BY PollPositions
    <3>3. m < n => PollAt(m) + 1 < PollAt(n)
      BY PollPositions
    <3>4. m = n \/ m < n \/ n < m
      BY Positions
    <3> QED BY <3>1, <3>2, <3>3, <3>4
  <2> QED BY <2>2, <2>3
<1>8. ASSUME NEW n \in 1 .. MainText, k = PollAt(n) + 1
      PROVE  /\ Executed = PollAt(n) /\ Executed' = PollAt(n) + 1 /\ Len(fifo) <= 1
             /\ fifo' = IF Len(fifo) < TX_FIFO_DEPTH THEN Append(fifo, MainChar(n)) ELSE fifo
  <2>1. Executed = PollAt(n) /\ Executed \in Nat /\ Executed >= 8
    <3>1. PollAt(n) \in Nat /\ PollAt(n) >= 9 /\ Executed \in Nat
      BY PollPositions, Positions
    <3> QED BY <1>8, <3>1
  <2>2. s.op = "write0" /\ s.val = MainChar(n)
    BY <1>1, <1>8 DEF IsStmt
  <2>3. WriteReg0(MainChar(n))
    BY <1>2, <2>2, Effects
  <2>4. lcr = [dlab |-> FALSE, line |-> <<"none", 1, 8>>]
    BY <2>1 DEF ConfInv, ConfigInv
  <2>5. ~ lcr.dlab
    BY <2>4
  <2>6. Len(fifo) <= 1
    BY <2>1 DEF ConfInv, QueueInv
  <2> QED BY <1>1, <1>8, <2>1, <2>3, <2>5, <2>6 DEF WriteReg0
<1>9. CASE \E n \in 1 .. MainText : k \in {PollAt(n), PollAt(n) + 1}
  <2>1. PICK n \in 1 .. MainText : k \in {PollAt(n), PollAt(n) + 1}
    BY <1>9
  <2>2. CASE k = PollAt(n)
    BY <2>2, <1>7
  <2>3. CASE k = PollAt(n) + 1
    BY <2>3, <1>8
  <2> QED BY <2>1, <2>2, <2>3
<1> QED BY <1>3, <1>5, <1>6, <1>9

(* A handler finds the queue empty, and its write is never dropped.        *)
LEMMA HandlerPrints ==
  ASSUME ConfInv, HandlerStep
  PROVE  /\ fifo = << >> /\ traps > 0 /\ Executed >= 9
         /\ acc' = acc /\ lcr' = lcr /\ dll' = dll /\ dlm' = dlm /\ Executed' = Executed
         /\ \E n \in 1 .. TrapText :
              \/ /\ fifo' = fifo
                 /\ Len(htodo) = 2 * (TrapText - n) + 2
                 /\ Len(htodo') = 2 * (TrapText - n) + 1
              \/ /\ fifo' = Append(fifo, TrapChar(traps, n))
                 /\ htodo' # << >> => Head(htodo').op = "poll"
                 /\ Len(htodo) = 2 * (TrapText - n) + 1
                 /\ Len(htodo') = 2 * (TrapText - n)
<1>1. PICK n \in 1 .. TrapText :
        /\ Len(htodo') = Len(htodo) - 1
        /\ \/ /\ Len(htodo) = 2 * (TrapText - n) + 2 /\ Head(htodo).op = "poll"
           \/ /\ Len(htodo) = 2 * (TrapText - n) + 1
              /\ Head(htodo).op = "write0" /\ Head(htodo).val = TrapChar(traps, n)
              /\ htodo' # << >> => Head(htodo').op = "poll"
  <2>1. HandlerInv
    BY DEF ConfInv
  <2> QED BY <2>1, HandlerAt
<1>2. Execute(Head(htodo)) /\ htodo # << >> /\ todo' = todo
  BY DEF HandlerStep
<1>3. traps > 0 /\ Executed >= 9 /\ Executed \in Nat
  <2>1. Executed \in Nat /\ traps \in Nat
    BY Positions, Constants DEF ConfInv, TrapsInv
  <2>2. ~ (Executed < 9) /\ traps # 0
    BY <1>2, QuietConfiguration DEF ConfInv, TrapsInv
  <2> QED BY <2>1, <2>2
<1>4. lcr = [dlab |-> FALSE, line |-> <<"none", 1, 8>>]
  BY <1>3 DEF ConfInv, ConfigInv
<1>5. ~ lcr.dlab
  BY <1>4
<1>6. Executed' = Executed
  BY <1>2 DEF Executed, Size
<1>7. TrapText \in Nat /\ 0 < TX_FIFO_DEPTH
  BY Constants
<1>8. CASE Len(htodo) = 2 * (TrapText - n) + 2 /\ Head(htodo).op = "poll"
  <2>1. /\ fifo = << >> /\ acc' = acc /\ lcr' = lcr /\ dll' = dll /\ dlm' = dlm
        /\ fifo' = fifo
    BY <1>2, <1>8, Effects
  <2>2. Len(htodo') = 2 * (TrapText - n) + 1
    BY <1>1, <1>7, <1>8
  <2> QED BY <1>3, <1>6, <1>8, <2>1, <2>2
<1>9. CASE /\ Len(htodo) = 2 * (TrapText - n) + 1
           /\ Head(htodo).op = "write0" /\ Head(htodo).val = TrapChar(traps, n)
           /\ htodo' # << >> => Head(htodo').op = "poll"
  <2>1. fifo = << >>
    BY <1>2, <1>9 DEF ConfInv, QueueInv
  <2>2. /\ acc' = acc /\ lcr' = lcr /\ dlm' = dlm /\ WriteReg0(TrapChar(traps, n))
    BY <1>2, <1>9, Effects
  <2>3. Len(fifo) < TX_FIFO_DEPTH
    BY <1>7, <2>1, EmptySeq
  <2>4. dll' = dll /\ fifo' = Append(fifo, TrapChar(traps, n))
    BY <1>5, <2>2, <2>3 DEF WriteReg0
  <2>5. Len(htodo') = 2 * (TrapText - n)
    BY <1>1, <1>7, <1>9
  <2> QED BY <1>3, <1>6, <1>9, <2>1, <2>2, <2>4, <2>5
<1> QED BY <1>1, <1>8, <1>9


(* Main's polls keep the queue short.                                      *)
LEMMA MainKeepsQueue == ConfInv /\ MainStep => QueueInv' /\ SentAsConfigured'
<1> SUFFICES ASSUME ConfInv, MainStep PROVE QueueInv' /\ SentAsConfigured'
  OBVIOUS
<1>1. wire' = wire /\ htodo' = << >>
  BY DEF MainStep
<1>2. /\ fifo \in Seq(Char) /\ wire \in Seq(Sent) /\ Len(fifo) \in Nat
      /\ Executed < 8 => fifo = << >> /\ wire = << >>
      /\ Len(fifo) <= 2
  BY Positions DEF ConfInv, QueueInv
<1>3. Executed' = Executed + 1 /\ Executed \in Nat
  <2>1. CodeInv
    BY DEF ConfInv
  <2> QED BY <2>1, MainAt, Positions
<1>4. SentAsConfigured'
  BY <1>1 DEF ConfInv, SentAsConfigured
<1>5. CASE /\ fifo' = fifo
           /\ \A n \in 1 .. MainText : Executed' = PollAt(n) => fifo = << >>
  <2>1. Executed' < 8 => fifo' = << >> /\ wire' = << >>
    BY <1>1, <1>2, <1>3, <1>5
  <2>2. \A n \in 1 .. MainText : Executed' = PollAt(n) => Len(fifo') <= 1
    BY <1>5
  <2>3. fifo' \in Seq(Char) /\ wire' \in Seq(Sent) /\ Len(fifo') <= 2
    BY <1>1, <1>2, <1>5
  <2> QED BY <1>1, <1>4, <2>1, <2>2, <2>3 DEF QueueInv, PollAt
<1>6. CASE \E n \in 1 .. MainText :
             /\ Executed = PollAt(n) /\ Executed' = PollAt(n) + 1 /\ Len(fifo) <= 1
             /\ fifo' = IF Len(fifo) < TX_FIFO_DEPTH THEN Append(fifo, MainChar(n)) ELSE fifo
  <2>1. PICK n \in 1 .. MainText :
             /\ Executed = PollAt(n) /\ Executed' = PollAt(n) + 1 /\ Len(fifo) <= 1
             /\ fifo' = IF Len(fifo) < TX_FIFO_DEPTH THEN Append(fifo, MainChar(n)) ELSE fifo
    BY <1>6
  <2>2. MainChar(n) \in Char
    BY Positions DEF MainChar, Char
  <2>3. Append(fifo, MainChar(n)) \in Seq(Char) /\ Len(Append(fifo, MainChar(n))) = Len(fifo) + 1
    BY <1>2, <2>2, AppendProperties
  <2>4. fifo' \in Seq(Char) /\ Len(fifo') <= 2
    BY <1>2, <2>1, <2>3
  <2>5. PollAt(n) \in Nat /\ PollAt(n) >= 9
    BY PollPositions
  <2>6. ASSUME NEW m \in 1 .. MainText PROVE PollAt(n) + 1 # PollAt(m)
    <3>1. PollAt(m) \in Nat
      BY PollPositions
    <3>2. m < n => PollAt(m) + 1 < PollAt(n)
      BY PollPositions
    <3>3. n < m => PollAt(n) + 1 < PollAt(m)
      BY PollPositions
    <3>4. m = n \/ m < n \/ n < m
      BY Positions
    <3> QED BY <2>5, <3>1, <3>2, <3>3, <3>4
  <2>7. ~ (Executed' < 8)
    BY <2>1, <2>5
  <2>8. \A m \in 1 .. MainText : Executed' # PollAt(m)
    BY <2>1, <2>6
  <2>9. wire' \in Seq(Sent)
    BY <1>1, <1>2
  <2> QED BY <1>1, <1>4, <2>4, <2>7, <2>8, <2>9 DEF QueueInv, PollAt
<1> QED BY <1>5, <1>6, MainPrints

(* A handler keeps its place in its message, leaves main's configuration   *)
(* alone and at most one character behind.                                 *)
LEMMA HandlerKeeps == ConfInv /\ HandlerStep => ConfInv'
<1> SUFFICES ASSUME ConfInv, HandlerStep PROVE ConfInv'
  OBVIOUS
<1>1. todo' = todo /\ traps' = traps /\ mie' = mie /\ wire' = wire
  BY DEF HandlerStep
<1>2. /\ fifo = << >> /\ traps > 0 /\ Executed >= 9
      /\ acc' = acc /\ lcr' = lcr /\ dll' = dll /\ dlm' = dlm /\ Executed' = Executed
      /\ \E n \in 1 .. TrapText :
           \/ fifo' = fifo
           \/ /\ fifo' = Append(fifo, TrapChar(traps, n))
              /\ htodo' # << >> => Head(htodo').op = "poll"
  BY HandlerPrints
<1>3. CodeInv'
  BY <1>1, <1>2 DEF ConfInv, CodeInv, IsStmt, Size, PollAt, MainChar
<1>4. HandlerInv'
  <2>1. HandlerInv
    BY DEF ConfInv
  <2>2. /\ htodo' \in Seq(Statement) /\ Len(htodo') = Len(htodo) - 1
        /\ \A i \in 1 .. Len(htodo') : htodo'[i] = htodo[i + 1]
    BY <2>1, HandlerAt
  <2>3. /\ Len(htodo) \in Nat /\ Len(htodo') \in Nat /\ TrapText \in Nat
        /\ Len(htodo) <= 2 * TrapText
    BY <2>1, <2>2, LenProperties, Positions DEF HandlerInv
  <2>4. ASSUME NEW i \in 1 .. Len(htodo'), NEW n \in 1 .. TrapText
        PROVE  /\ 2 * TrapText - Len(htodo') + i = 2 * n - 1 => htodo'[i].op = "poll"
               /\ 2 * TrapText - Len(htodo') + i = 2 * n =>
                    htodo'[i].op = "write0" /\ htodo'[i].val = TrapChar(traps, n)
    <3>1. i + 1 \in 1 .. Len(htodo) /\ htodo'[i] = htodo[i + 1]
      BY <2>2, <2>3
    <3>2. 2 * TrapText - Len(htodo') + i = 2 * TrapText - Len(htodo) + (i + 1)
      <4>1. Len(htodo') = Len(htodo) - 1
        BY <2>2
      <4> QED BY <2>3, <4>1
    <3>3. /\ 2 * TrapText - Len(htodo) + (i + 1) = 2 * n - 1 => htodo[i + 1].op = "poll"
          /\ 2 * TrapText - Len(htodo) + (i + 1) = 2 * n =>
               htodo[i + 1].op = "write0" /\ htodo[i + 1].val = TrapChar(traps, n)
      BY <2>1, <3>1 DEF HandlerInv
    <3> QED BY <3>1, <3>2, <3>3
  <2>5. Len(htodo') <= 2 * TrapText
    <3>1. Len(htodo') = Len(htodo) - 1
      BY <2>2
    <3> QED BY <2>3, <3>1
  <2> QED BY <1>1, <2>2, <2>4, <2>5 DEF HandlerInv, TrapChar
<1>5. TrapsInv'
  <2>1. ~ (traps = 0)
    BY <1>2 DEF ConfInv, TrapsInv
  <2> QED BY <1>1, <1>2, <2>1 DEF ConfInv, TrapsInv
<1>6. ConfigInv'
  BY <1>2 DEF ConfInv, ConfigInv, Reset
<1>7. QueueInv'
  <2>1. wire \in Seq(Sent) /\ ~ (Executed' < 8)
    BY <1>2, Positions DEF ConfInv, QueueInv
  <2>2. PICK n \in 1 .. TrapText :
           \/ fifo' = fifo
           \/ /\ fifo' = Append(fifo, TrapChar(traps, n))
              /\ htodo' # << >> => Head(htodo').op = "poll"
    BY <1>2
  <2>3. CASE fifo' = fifo
    <3>1. fifo' = << >> /\ fifo' \in Seq(Char)
      BY <1>2, <2>3
    <3>2. Len(fifo') = 0
      BY <3>1
    <3> QED BY <1>1, <2>1, <3>1, <3>2 DEF QueueInv
  <2>4. CASE /\ fifo' = Append(fifo, TrapChar(traps, n))
             /\ htodo' # << >> => Head(htodo').op = "poll"
    <3>1. traps \in Nat
      BY Constants DEF ConfInv, TrapsInv
    <3>2. TrapChar(traps, n) \in Char
      BY <3>1, Constants DEF TrapChar, Char
    <3>3. fifo' \in Seq(Char) /\ Len(fifo') = 1
      BY <1>2, <2>4, <3>2
    <3> QED BY <1>1, <2>1, <2>4, <3>3 DEF QueueInv
  <2> QED BY <2>2, <2>3, <2>4
<1>8. SentAsConfigured'
  BY <1>1 DEF ConfInv, SentAsConfigured
<1> QED BY <1>3, <1>4, <1>5, <1>6, <1>7, <1>8 DEF ConfInv

(* A trap starts its message with a poll.                                  *)
LEMMA TrapKeeps == ConfInv /\ Trap => ConfInv'
<1> SUFFICES ASSUME ConfInv, Trap PROVE ConfInv'
  OBVIOUS
<1>1. /\ mie /\ traps < MaxTraps /\ traps' = traps + 1 /\ htodo' = trap_handler(traps + 1)
      /\ todo' = todo /\ acc' = acc /\ mie' = mie /\ lcr' = lcr /\ dll' = dll /\ dlm' = dlm
      /\ fifo' = fifo /\ wire' = wire
  BY DEF Trap
<1>2. Executed' = Executed
  BY <1>1 DEF Executed, Size
<1>3. traps \in Nat /\ traps' \in 1 .. MaxTraps
  BY <1>1, Constants DEF ConfInv, TrapsInv
<1>4. CodeInv'
  BY <1>1, <1>2 DEF ConfInv, CodeInv, IsStmt, Size, PollAt, MainChar
<1>5. /\ htodo' \in Seq(Statement) /\ Len(htodo') = 2 * TrapText
      /\ \A n \in 1 .. TrapText :
           /\ htodo'[2 * n - 1].op = "poll"
           /\ htodo'[2 * n].op = "write0" /\ htodo'[2 * n].val = TrapChar(traps', n)
  <2>1. traps + 1 \in Nat
    BY <1>3
  <2> QED BY <1>1, <2>1, TrapProgram
<1>6. HandlerInv'
  <2>1. TrapText \in Nat
    BY Constants
  <2>2. ASSUME NEW i \in 1 .. Len(htodo')
        PROVE  2 * TrapText - Len(htodo') + i = i
    BY <1>5, <2>1
  <2>3. Len(htodo') <= 2 * TrapText
    BY <1>5, <2>1
  <2> QED BY <1>5, <2>2, <2>3 DEF HandlerInv, TrapChar
<1>7. TrapsInv'
  <2>1. traps' # 0 /\ traps' \in 0 .. MaxTraps
    BY <1>3, Constants
  <2> QED BY <1>1, <1>2, <2>1 DEF ConfInv, TrapsInv
<1>8. ConfigInv'
  BY <1>1, <1>2 DEF ConfInv, ConfigInv, Reset
<1>9. QueueInv'
  <2>1. htodo' # << >> => Head(htodo').op = "poll"
    <3>1. TrapText \in Nat /\ 1 \in 1 .. TrapText /\ 2 * 1 - 1 = 1
      BY Constants
    <3>2. htodo'[1].op = "poll"
      BY <1>5, <3>1
    <3> QED BY <1>5, <3>2, HeadTailProperties
  <2> QED BY <1>1, <1>2, <2>1 DEF ConfInv, QueueInv, PollAt
<1>10. SentAsConfigured'
  BY <1>1 DEF ConfInv, SentAsConfigured
<1> QED BY <1>4, <1>6, <1>7, <1>8, <1>9, <1>10 DEF ConfInv

(* A character leaves with the settings of uart_set_default_cfg.           *)
LEMMA TransmitKeeps == ConfInv /\ Transmit => ConfInv'
<1> SUFFICES ASSUME ConfInv, Transmit PROVE ConfInv'
  OBVIOUS
<1> DEFINE c == [char |-> Head(fifo), div |-> dll + 256 * dlm, line |-> lcr.line]
<1>1. /\ fifo # << >> /\ wire' = Append(wire, c) /\ fifo' = Tail(fifo)
      /\ todo' = todo /\ acc' = acc /\ htodo' = htodo /\ traps' = traps /\ mie' = mie
      /\ lcr' = lcr /\ dll' = dll /\ dlm' = dlm
  BY DEF Transmit
<1>2. Executed' = Executed
  BY <1>1 DEF Executed, Size
<1>3. CodeInv'
  BY <1>1, <1>2 DEF ConfInv, CodeInv, IsStmt, Size, PollAt, MainChar
<1>4. HandlerInv'
  BY <1>1 DEF ConfInv, HandlerInv, TrapChar
<1>5. TrapsInv'
  BY <1>1, <1>2 DEF ConfInv, TrapsInv
<1>6. ConfigInv'
  BY <1>1, <1>2 DEF ConfInv, ConfigInv, Reset
<1>7. /\ fifo \in Seq(Char) /\ wire \in Seq(Sent) /\ Len(fifo) \in Nat /\ Len(fifo) <= 2
      /\ Executed >= 8
  BY <1>1, Positions DEF ConfInv, QueueInv
<1>8. /\ Head(fifo) \in Char /\ Tail(fifo) \in Seq(Char) /\ Len(fifo') = Len(fifo) - 1
  BY <1>1, <1>7, HeadTailProperties
<1>9. c.div = Divisor /\ c.line = <<"none", 1, 8>> /\ c \in Sent
  <2>1. dll = Divisor % 256 /\ dlm = (Divisor \div 256) % 256
    BY <1>7, Positions DEF ConfInv, ConfigInv
  <2>2. Divisor \in Nat /\ Divisor < 65536
    BY DivisorAssumption
  <2>3. (Divisor % 256) + 256 * ((Divisor \div 256) % 256) = Divisor
    BY <2>2
  <2>4. dll + 256 * dlm = Divisor
    BY <2>1, <2>3
  <2>5. lcr = [dlab |-> FALSE, line |-> <<"none", 1, 8>>]
    BY <1>7 DEF ConfInv, ConfigInv
  <2>6. lcr.line = <<"none", 1, 8>>
    BY <2>5
  <2>7. Divisor \in Nat /\ <<"none", 1, 8>> \in Lines
    BY <2>2 DEF Lines
  <2> QED BY <1>8, <2>4, <2>6, <2>7 DEF Sent
<1> HIDE DEF c
<1>10. /\ wire' \in Seq(Sent) /\ Len(wire') = Len(wire) + 1 /\ Len(wire) \in Nat
       /\ \A i \in 1 .. Len(wire) : wire'[i] = wire[i]
       /\ wire'[Len(wire) + 1] = c
  BY <1>1, <1>7, <1>9, AppendProperties, LenProperties
<1>11. QueueInv'
  <2>1. Executed' \in Nat /\ ~ (Executed' < 8)
    BY <1>2, <1>7, Positions
  <2>2. Len(fifo') <= 2 /\ Len(fifo') < Len(fifo)
    BY <1>7, <1>8
  <2>3. ~ (htodo' # << >> /\ Head(htodo').op = "write0")
    BY <1>1 DEF ConfInv, QueueInv
  <2>4. \A n \in 1 .. MainText : Executed' = PollAt(n) => Len(fifo') <= 1
    <3> TAKE n \in 1 .. MainText
    <3>1. Executed' = PollAt(n) => Len(fifo) <= 1
      BY <1>2 DEF ConfInv, QueueInv
    <3>2. Len(fifo') = Len(fifo) - 1
      BY <1>8
    <3> QED BY <1>7, <3>1, <3>2
  <2> QED BY <1>1, <1>8, <1>10, <2>1, <2>2, <2>3, <2>4 DEF QueueInv, PollAt
<1>12. SentAsConfigured'
  <2>1. DOMAIN wire' = 1 .. (Len(wire) + 1) /\ DOMAIN wire = 1 .. Len(wire)
    BY <1>7, <1>10, LenProperties
  <2>2. ASSUME NEW i \in 1 .. (Len(wire) + 1)
        PROVE  wire'[i].div = Divisor /\ wire'[i].line = <<"none", 1, 8>>
    <3>1. CASE i = Len(wire) + 1
      BY <1>9, <1>10, <3>1
    <3>2. CASE i # Len(wire) + 1
      <4>1. i \in 1 .. Len(wire)
        BY <1>10, <3>2
      <4> QED BY <1>10, <2>1, <4>1 DEF ConfInv, SentAsConfigured
    <3> QED BY <3>1, <3>2
  <2> QED BY <2>1, <2>2 DEF SentAsConfigured
<1> QED BY <1>3, <1>4, <1>5, <1>6, <1>11, <1>12 DEF ConfInv

(* ConfInv is inductive.                                                   *)
LEMMA ConfNext == ConfInv /\ [Next]_vars => ConfInv'
<1> SUFFICES ASSUME ConfInv, [Next]_vars PROVE ConfInv'
  OBVIOUS
<1>1. CASE MainStep
  BY <1>1, MainKeepsCode, MainConfigures, MainKeepsQueue DEF ConfInv
<1>2. CASE Trap
  BY <1>2, TrapKeeps
<1>3. CASE HandlerStep
  BY <1>3, HandlerKeeps
<1>4. CASE Transmit
  BY <1>4, TransmitKeeps
<1>5. CASE UNCHANGED vars
  <2> USE <1>5 DEF vars
  <2>1. Executed' = Executed
    BY DEF Executed, Size
  <2>2. CodeInv => CodeInv'
    BY <2>1 DEF CodeInv, IsStmt, Size, PollAt, MainChar
  <2>3. HandlerInv => HandlerInv'
    BY DEF HandlerInv, TrapChar
  <2>4. TrapsInv => TrapsInv'
    BY <2>1 DEF TrapsInv
  <2>5. ConfigInv => ConfigInv'
    BY <2>1 DEF ConfigInv, Reset
  <2>6. QueueInv => QueueInv'
    BY <2>1 DEF QueueInv, PollAt
  <2>7. SentAsConfigured => SentAsConfigured'
    BY DEF SentAsConfigured
  <2> QED BY <2>2, <2>3, <2>4, <2>5, <2>6, <2>7 DEF ConfInv
<1>6. CASE EndOfCode
  BY <1>5, <1>6 DEF EndOfCode
<1> QED BY <1>1, <1>2, <1>3, <1>4, <1>5, <1>6 DEF Next

(* The configuration and the queue are as ConfInv says.                    *)
LEMMA SpecConf == Spec => []ConfInv
<1> QED BY ConfInit, ConfNext, PTL DEF Spec

(* TwoAreEnough: two writers at most are between the poll that found the   *)
(* FIFO empty and their write, main and the handler that interrupted it,   *)
(* so no more than two characters are ever queued, whatever the FIFO's     *)
(* depth.                                                                  *)
THEOREM UartTwoAreEnough == Spec => []TwoAreEnough
<1>1. ConfInv => TwoAreEnough
  BY DEF ConfInv, QueueInv, TwoAreEnough
<1> QED BY <1>1, SpecConf, PTL

(* SentAsConfigured: every character leaves with the divisor and the line  *)
(* format of uart_set_default_cfg: the divisor latch is written while DLAB *)
(* is set, and no handler prints before crt0 has enabled interrupts.       *)
THEOREM UartSentAsConfigured == Spec => []SentAsConfigured
<1>1. ConfInv => SentAsConfigured
  BY DEF ConfInv
<1> QED BY <1>1, SpecConf, PTL


------------------------------------------------------------------------------
(* What has been printed                                                   *)

(* Quotient and remainder are unique.                                      *)
LEMMA DivModUnique ==
  ASSUME NEW a \in Nat, NEW b \in Nat \ {0}, NEW q \in Nat, NEW r \in 0 .. b - 1,
         a = b * q + r
  PROVE  a \div b = q /\ a % b = r
<1>1. /\ a \div b \in Nat /\ a % b \in 0 .. b - 1
      /\ a = b * (a \div b) + (a % b)
  OBVIOUS
<1> DEFINE c == a \div b
<1>2. b * (q - c) = (a % b) - r
  BY <1>1
<1>3. c \in Nat /\ a % b \in 0 .. b - 1
  BY <1>1
<1> HIDE DEF c
<1>4. q = c
  <2>1. CASE q > c
    <3>1. b * (q - c) >= b
      BY <1>3, <2>1
    <3> QED BY <1>2, <1>3, <3>1
  <2>2. CASE q < c
    <3>1. b * (q - c) <= -b
      BY <1>3, <2>2
    <3> QED BY <1>2, <1>3, <3>1
  <2> QED BY <1>3, <2>1, <2>2
<1> QED BY <1>1, <1>2, <1>3, <1>4 DEF c

(* Counting the characters of one printer in an extended sequence.         *)
LEMMA CountAppend ==
  ASSUME NEW s \in Seq(Char), NEW c \in Char
  PROVE  /\ Count(s, TRUE) \in Nat /\ Count(s, FALSE) \in Nat
         /\ c.by = 0 => /\ Count(Append(s, c), TRUE) = Count(s, TRUE) + 1
                        /\ Count(Append(s, c), FALSE) = Count(s, FALSE)
         /\ c.by # 0 => /\ Count(Append(s, c), TRUE) = Count(s, TRUE)
                        /\ Count(Append(s, c), FALSE) = Count(s, FALSE) + 1
<1> DEFINE Is(t, b) == {i \in DOMAIN t : (t[i].by = 0) = b}
           t == Append(s, c)
           n == Len(s) + 1
<1>1. Len(s) \in Nat /\ DOMAIN s = 1 .. Len(s)
  BY LenProperties
<1>2. t \in Seq(Char) /\ Len(t) = n /\ t[n] = c /\ \A i \in 1 .. Len(s) : t[i] = s[i]
  BY AppendProperties
<1>3. DOMAIN t = 1 .. n
  BY <1>2, LenProperties
<1>4. ASSUME NEW b \in BOOLEAN
      PROVE  /\ Is(t, b) = IF (c.by = 0) = b THEN Is(s, b) \cup {n} ELSE Is(s, b)
             /\ n \notin Is(s, b) /\ IsFiniteSet(Is(s, b)) /\ Cardinality(Is(s, b)) \in Nat
  <2>1. Is(s, b) \in SUBSET (1 .. Len(s)) /\ IsFiniteSet(1 .. Len(s))
    BY <1>1, FS_Interval
  <2>2. IsFiniteSet(Is(s, b)) /\ Cardinality(Is(s, b)) \in Nat
    <3>1. IsFiniteSet(Is(s, b))
      BY <2>1, FS_Subset
    <3> HIDE DEF Is
    <3> QED BY <3>1, FS_CardinalityType
  <2>3. n \notin Is(s, b)
    BY <1>1
  <2>4. \A i : i \in 1 .. n <=> i \in 1 .. Len(s) \/ i = n
    BY <1>1
  <2>5. \A i : i \in Is(t, b) <=> i \in Is(s, b) \/ (i = n /\ (c.by = 0) = b)
    <3>1. \A i : i \in Is(t, b) <=> i \in 1 .. n /\ (t[i].by = 0) = b
      BY <1>3
    <3>2. \A i : i \in Is(s, b) <=> i \in 1 .. Len(s) /\ (s[i].by = 0) = b
      BY <1>1
    <3>3. \A i \in 1 .. Len(s) : t[i] = s[i]
      BY <1>2
    <3>4. t[n] = c
      BY <1>2
    <3> HIDE DEF Is, t, n
    <3> QED BY <3>1, <3>2, <3>3, <3>4, <2>4
  <2> HIDE DEF Is, t, n
  <2>6. CASE (c.by = 0) = b
    <3>1. Is(t, b) = Is(s, b) \cup {n}
      BY <2>5, <2>6
    <3> QED BY <2>2, <2>3, <2>6, <3>1
  <2>7. CASE ~ ((c.by = 0) = b)
    <3>1. Is(t, b) = Is(s, b)
      BY <2>5, <2>7
    <3> QED BY <2>2, <2>3, <2>7, <3>1
  <2> QED BY <2>6, <2>7
<1>5. ASSUME NEW b \in BOOLEAN
      PROVE  /\ Count(s, b) \in Nat
             /\ (c.by = 0) = b => Count(t, b) = Count(s, b) + 1
             /\ ~ ((c.by = 0) = b) => Count(t, b) = Count(s, b)
  <2>1. Count(s, b) = Cardinality(Is(s, b)) /\ Count(t, b) = Cardinality(Is(t, b))
    BY DEF Count
  <2>2. Cardinality(Is(s, b) \cup {n}) = Cardinality(Is(s, b)) + 1
    <3>1. IsFiniteSet(Is(s, b)) /\ n \notin Is(s, b)
      BY <1>4
    <3> HIDE DEF Is, n
    <3> QED BY <3>1, FS_AddElement
  <2> HIDE DEF Is, t, n
  <2> QED BY <1>4, <2>1, <2>2
<1>6. CASE c.by = 0
  <2>1. ((c.by = 0) = TRUE) /\ ~ ((c.by = 0) = FALSE)
    BY <1>6
  <2> QED BY <1>5, <1>6, <2>1
<1>7. CASE c.by # 0
  <2>1. ((c.by = 0) = FALSE) /\ ~ ((c.by = 0) = TRUE)
    BY <1>7
  <2> QED BY <1>5, <1>7, <2>1
<1> QED BY <1>5, <1>6, <1>7

(* The characters on the wire, then those queued.                          *)
Wired == [i \in DOMAIN wire |-> wire[i].char]

(* Characters are a sequence.                                              *)
LEMMA CharsType ==
  ASSUME ConfInv
  PROVE  /\ Wired \in Seq(Char) /\ fifo \in Seq(Char)
         /\ Chars = Wired \o fifo /\ Chars \in Seq(Char)
<1>1. wire \in Seq(Sent) /\ fifo \in Seq(Char)
  BY DEF ConfInv, QueueInv
<1>2. DOMAIN wire = 1 .. Len(wire) /\ Len(wire) \in Nat
  BY <1>1, LenProperties
<1>3. \A i \in 1 .. Len(wire) : wire[i].char \in Char
  <2>1. \A i \in 1 .. Len(wire) : wire[i] \in Sent
    BY <1>1, ElementOfSeq
  <2> QED BY <2>1 DEF Sent
<1>4. Wired \in Seq(Char)
  BY <1>2, <1>3 DEF Wired
<1>5. Chars = Wired \o fifo
  BY DEF Chars, Wired
<1> QED BY <1>1, <1>4, <1>5, ConcatProperties

(* A character queued is a character printed.                              *)
LEMMA Queued ==
  ASSUME ConfInv, NEW c \in Char, fifo' = Append(fifo, c), wire' = wire
  PROVE  Chars' = Append(Chars, c)
<1>1. /\ Wired \in Seq(Char) /\ fifo \in Seq(Char)
      /\ Chars = Wired \o fifo /\ Chars \in Seq(Char)
  BY CharsType
<1>2. Chars' = Wired \o Append(fifo, c)
  BY DEF Chars, Wired
<1>3. Append(fifo, c) = fifo \o <<c>> /\ Append(Chars, c) = Chars \o <<c>>
  BY <1>1, AppendIsConcat
<1>4. <<c>> \in Seq(Char)
  OBVIOUS
<1>5. (Wired \o fifo) \o <<c>> = Wired \o (fifo \o <<c>>)
  BY <1>1, <1>4, ConcatAssociative
<1> QED BY <1>1, <1>2, <1>3, <1>5

(* What the transmitter takes from the queue goes to the wire.             *)
LEMMA Transmitted ==
  ASSUME ConfInv, Transmit
  PROVE  Chars' = Chars
<1>1. /\ Wired \in Seq(Char) /\ fifo \in Seq(Char)
      /\ Chars = Wired \o fifo /\ Chars \in Seq(Char)
  BY CharsType
<1> DEFINE c == Head(fifo)
           r == [char |-> c, div |-> dll + 256 * dlm, line |-> lcr.line]
<1>2. fifo # << >> /\ fifo' = Tail(fifo) /\ wire' = Append(wire, r)
  BY DEF Transmit
<1>3. c \in Char /\ Tail(fifo) \in Seq(Char) /\ fifo = <<c>> \o Tail(fifo)
  BY <1>1, <1>2, HeadTailProperties
<1>4. Wired' = Append(Wired, c)
  <2>1. wire \in Seq(Sent) /\ wire' \in Seq(Sent)
    BY TransmitKeeps DEF ConfInv, QueueInv
  <2>2. DOMAIN wire = 1 .. Len(wire) /\ DOMAIN wire' = 1 .. Len(wire') /\ Len(wire) \in Nat
    BY <2>1, LenProperties
  <2> DEFINE n == Len(wire) + 1
  <2>3. Len(wire') = n /\ wire'[n] = r /\ \A i \in 1 .. Len(wire) : wire'[i] = wire[i]
    <3>1. wire \in Seq(Sent \cup {r}) /\ r \in Sent \cup {r}
      BY <2>1
    <3> HIDE DEF r
    <3> QED BY <1>2, <3>1, AppendProperties
  <2>4. r.char = c
    OBVIOUS
  <2>5. Wired' = [i \in 1 .. n |-> wire'[i].char] /\ Wired = [i \in 1 .. Len(wire) |-> wire[i].char]
    BY <2>2, <2>3 DEF Wired
  <2>6. Len(Wired) = Len(wire)
    BY <1>1, <2>2, <2>5
  <2> HIDE DEF r, c
  <2>7. /\ Append(Wired, c) \in Seq(Char) /\ Len(Append(Wired, c)) = n
        /\ \A i \in 1 .. Len(wire) : Append(Wired, c)[i] = Wired[i]
        /\ Append(Wired, c)[n] = c
    <3>1. /\ Append(Wired, c) \in Seq(Char) /\ Len(Append(Wired, c)) = Len(Wired) + 1
          /\ \A i \in 1 .. Len(Wired) : Append(Wired, c)[i] = Wired[i]
          /\ Append(Wired, c)[Len(Wired) + 1] = c
      BY <1>1, <1>3, AppendProperties
    <3> QED BY <2>6, <3>1
  <2>8. ASSUME NEW i \in 1 .. n PROVE wire'[i].char = Append(Wired, c)[i]
    <3>1. CASE i = n
      BY <3>1, <2>3, <2>4, <2>7
    <3>2. CASE i # n
      <4>1. i \in 1 .. Len(wire)
        BY <2>2, <3>2
      <4> QED BY <4>1, <2>3, <2>5, <2>7
    <3> QED BY <3>1, <3>2
  <2> DEFINE W == [i \in 1 .. n |-> wire'[i].char]
  <2>9. W \in Seq(Char) /\ Len(W) = n /\ \A i \in 1 .. n : W[i] = Append(Wired, c)[i]
    <3>1. n \in Nat
      BY <2>2 DEF n
    <3>2. \A i \in 1 .. n : Append(Wired, c)[i] \in Char
      BY <2>7, ElementOfSeq
    <3>3. \A i \in 1 .. n : wire'[i].char \in Char
      BY <2>8, <3>2
    <3>4. W \in Seq(Char) /\ Len(W) = n
      BY <3>1, <3>3
    <3>5. \A i \in 1 .. n : W[i] = Append(Wired, c)[i]
      BY <2>8
    <3> QED BY <3>4, <3>5
  <2> HIDE DEF W
  <2>10. W = Append(Wired, c)
    BY <2>7, <2>9, SeqEqual
  <2> QED BY <2>5, <2>10 DEF W
<1>5. Chars' = Wired' \o fifo'
  BY DEF Chars, Wired
<1> HIDE DEF c
<1>6. Append(Wired, c) = Wired \o <<c>> /\ <<c>> \in Seq(Char)
  BY <1>1, <1>3, AppendIsConcat
<1>7. (Wired \o <<c>>) \o Tail(fifo) = Wired \o (<<c>> \o Tail(fifo))
  BY <1>1, <1>3, <1>6, ConcatAssociative
<1> QED BY <1>1, <1>2, <1>3, <1>4, <1>5, <1>6, <1>7


------------------------------------------------------------------------------
(* Refinement                                                              *)

(* The FIFO holds a character of main and one of a handler (16 here).      *)
DeepEnough == TX_FIFO_DEPTH >= 2

(* With ConfInv inductive.                                                 *)
PrintInv == MainInv /\ TrapInv

(* Nothing is printed before crt0.                                         *)
LEMMA PrintInit == Init => PrintInv /\ C!Init
<1> SUFFICES ASSUME Init PROVE PrintInv /\ C!Init
  OBVIOUS
<1>1. fifo = << >> /\ wire = << >> /\ traps = 0
  BY DEF Init
<1>2. Chars = << >>
  <2>1. Wired \in Seq(Char) /\ fifo \in Seq(Char) /\ Chars = Wired \o fifo
    BY ConfInit, CharsType
  <2>2. Wired = << >>
    BY <1>1 DEF Wired
  <2> QED BY <1>1, <2>1, <2>2, ConcatEmptySeq
<1>3. MainSent = 0 /\ TrapSent = 0
  <2>1. \A b : {i \in DOMAIN << >> : (<< >>[i].by = 0) = b} = {}
    OBVIOUS
  <2>2. \A b : Count(<< >>, b) = 0
    BY <2>1, FS_EmptySet DEF Count
  <2> QED BY <1>2, <2>2 DEF MainSent, TrapSent
<1>4. MainInv
  <2>1. MainText > 0 => PollAt(1) >= 9 /\ PollAt(1) \in Nat
    <3>1. MainText > 0 => 1 \in 1 .. MainText
      BY Constants
    <3> QED BY <3>1, PollPositions
  <2>2. Executed = 0
    <3>1. Len(todo) = Size
      BY MainProgram DEF Init
    <3> QED BY <3>1, Constants DEF Executed
  <2>3. 0 \in 0 .. MainText /\ 0 + 1 = 1
    BY Constants
  <2>4. 0 < MainText => 0 <= PollAt(1)
    BY <2>1, Constants
  <2> QED BY <1>3, <2>2, <2>3, <2>4 DEF MainInv
<1>5. TrapInv
  BY <1>1, <1>3 DEF TrapInv
<1>6. C!Init
  BY <1>2, <1>3 DEF C!Init, MainSent, TrapSent
<1> QED BY <1>4, <1>5, <1>6 DEF PrintInv

(* When no handler runs, the traps have printed whole messages.            *)
LEMMA WholeMessages ==
  ASSUME ConfInv, TrapInv, htodo = << >>
  PROVE  /\ TrapSent = traps * TrapText
         /\ TrapSent % TrapText = 0
<1>1. TrapText \in Nat \ {0} /\ traps \in Nat
  BY Constants DEF ConfInv, TrapsInv
<1>2. TrapSent = traps * TrapText
  <2>1. CASE traps = 0
    BY <1>1, <2>1 DEF TrapInv
  <2>2. CASE traps # 0
    <3>1. PICK c \in 0 .. TrapText :
            /\ TrapSent = (traps - 1) * TrapText + c
            /\ Len(htodo) \in {2 * (TrapText - c), 2 * (TrapText - c) - 1}
      BY <2>2 DEF TrapInv
    <3>2. Len(htodo) = 0
      OBVIOUS
    <3>3. c = TrapText
      BY <1>1, <3>1, <3>2
    <3>4. (traps - 1) * TrapText + TrapText = traps * TrapText
      BY <1>1
    <3> QED BY <3>1, <3>3, <3>4
  <2> QED BY <2>1, <2>2
<1>3. TrapSent % TrapText = 0
  <2>1. traps * TrapText \in Nat /\ traps * TrapText = TrapText * traps + 0
    BY <1>1
  <2>2. 0 \in 0 .. TrapText - 1
    BY <1>1
  <2> QED BY <1>1, <1>2, <2>1, <2>2, DivModUnique
<1> QED BY <1>2, <1>3

(* Main prints its next character, while no message is open.               *)
LEMMA MainRefines ==
  ASSUME DeepEnough, ConfInv, PrintInv, MainStep
  PROVE  /\ PrintInv'
         /\ [C!Next]_<<Chars, Count(Chars, TRUE), Count(Chars, FALSE)>>
<1>1. htodo = << >> /\ htodo' = htodo /\ traps' = traps /\ wire' = wire
  BY DEF MainStep
<1>2. Executed' = Executed + 1 /\ Executed \in Nat
  <2>1. CodeInv
    BY DEF ConfInv
  <2> QED BY <2>1, MainAt, Positions
<1>3. /\ MainSent \in 0 .. MainText
      /\ MainSent > 0 => PollAt(MainSent) < Executed
      /\ MainSent < MainText => Executed <= PollAt(MainSent + 1)
  BY DEF PrintInv, MainInv
<1>4. Chars \in Seq(Char)
  BY CharsType
<1>5. CASE /\ fifo' = fifo /\ \A n \in 1 .. MainText : Executed # PollAt(n)
  <2>1. Chars' = Chars
    BY <1>1, <1>5 DEF Chars
  <2>2. MainSent' = MainSent /\ TrapSent' = TrapSent
    BY <2>1 DEF MainSent, TrapSent, Count
  <2>3. TrapInv'
    BY <1>1, <2>2 DEF PrintInv, TrapInv
  <2>4. MainSent > 0 => PollAt(MainSent) < Executed'
    <3>1. ASSUME MainSent > 0 PROVE PollAt(MainSent) < Executed + 1
      <4>1. MainSent \in 1 .. MainText
        BY <1>3, <3>1, Constants
      <4>2. PollAt(MainSent) \in Nat
        BY <4>1, PollPositions
      <4> QED BY <1>2, <1>3, <3>1, <4>2
    <3> QED BY <1>2, <3>1
  <2>5. MainSent < MainText => Executed' <= PollAt(MainSent + 1)
    <3>1. ASSUME MainSent < MainText PROVE Executed + 1 <= PollAt(MainSent + 1)
      <4>1. MainSent + 1 \in 1 .. MainText
        BY <1>3, <3>1, Constants
      <4>2. PollAt(MainSent + 1) \in Nat /\ Executed # PollAt(MainSent + 1)
        BY <1>5, <4>1, PollPositions
      <4> QED BY <1>2, <1>3, <3>1, <4>2
    <3> QED BY <1>2, <3>1
  <2>6. MainInv'
    BY <1>3, <2>2, <2>4, <2>5 DEF MainInv, PollAt
  <2>7. UNCHANGED <<Chars, Count(Chars, TRUE), Count(Chars, FALSE)>>
    BY <2>1 DEF Count
  <2> QED BY <2>3, <2>6, <2>7 DEF PrintInv
<1>6. CASE \E n \in 1 .. MainText :
             /\ Executed = PollAt(n) /\ Executed' = PollAt(n) + 1 /\ Len(fifo) <= 1
             /\ fifo' = IF Len(fifo) < TX_FIFO_DEPTH THEN Append(fifo, MainChar(n)) ELSE fifo
  <2>1. PICK n \in 1 .. MainText :
             /\ Executed = PollAt(n) /\ Executed' = PollAt(n) + 1 /\ Len(fifo) <= 1
             /\ fifo' = IF Len(fifo) < TX_FIFO_DEPTH THEN Append(fifo, MainChar(n)) ELSE fifo
    BY <1>6
  <2>2. fifo' = Append(fifo, MainChar(n))
    <3>1. TX_FIFO_DEPTH \in Nat /\ Len(fifo) \in Nat
      BY Constants, Positions
    <3>2. Len(fifo) < TX_FIFO_DEPTH
      BY <2>1, <3>1 DEF DeepEnough
    <3> QED BY <2>1, <3>2
  <2>3. MainChar(n) \in Char /\ MainChar(n).by = 0
    BY Constants DEF MainChar, Char
  <2>4. Chars' = Append(Chars, MainChar(n))
    BY <1>1, <2>2, <2>3, Queued
  <2>5. MainSent' = MainSent + 1 /\ TrapSent' = TrapSent
    <3>1. MainSent' = Count(Append(Chars, MainChar(n)), TRUE)
      BY <2>4 DEF MainSent, Count
    <3>2. TrapSent' = Count(Append(Chars, MainChar(n)), FALSE)
      BY <2>4 DEF TrapSent, Count
    <3> QED BY <1>4, <2>3, <3>1, <3>2, CountAppend DEF MainSent, TrapSent
  <2>6. n = MainSent + 1
    <3>1. n \in 1 .. MainText /\ MainText \in Nat /\ PollAt(n) \in Nat
      BY Constants, PollPositions
    <3>2. MainSent < n
      <4>1. CASE MainSent > 0
        <5>1. MainSent \in 1 .. MainText
          BY <1>3, <3>1, <4>1
        <5>2. PollAt(MainSent) \in Nat /\ PollAt(MainSent) < PollAt(n)
          BY <1>3, <2>1, <4>1, <5>1, PollPositions
        <5>3. n < MainSent => PollAt(n) + 1 < PollAt(MainSent)
          BY <5>1, PollPositions
        <5> QED BY <3>1, <5>1, <5>2, <5>3
      <4>2. CASE ~ (MainSent > 0)
        BY <1>3, <3>1, <4>2
      <4> QED BY <4>1, <4>2
    <3>3. MainSent + 1 \in 1 .. MainText /\ MainSent < MainText
      BY <1>3, <3>1, <3>2
    <3>4. PollAt(n) <= PollAt(MainSent + 1) /\ PollAt(MainSent + 1) \in Nat
      BY <1>3, <2>1, <3>3, PollPositions
    <3>5. MainSent + 1 < n => PollAt(MainSent + 1) + 1 < PollAt(n)
      BY <3>3, PollPositions
    <3> QED BY <1>3, <3>1, <3>2, <3>4, <3>5
  <2>7. MainSent' = n /\ n \in Nat /\ MainText \in Nat /\ MainSent < MainText
    BY <1>3, <2>5, <2>6, Constants
  <2>8. TrapInv'
    BY <1>1, <2>5 DEF PrintInv, TrapInv
  <2>9. MainInv'
    <3>1. PollAt(n) \in Nat /\ PollAt(n) < Executed'
      BY <2>1, PollPositions
    <3>2. n < MainText => Executed' <= PollAt(n + 1)
      <4>1. ASSUME n < MainText PROVE PollAt(n) + 1 <= PollAt(n + 1)
        <5>1. n + 1 \in 1 .. MainText /\ n < n + 1
          BY <2>7, <4>1
        <5>2. PollAt(n) + 1 < PollAt(n + 1) /\ PollAt(n + 1) \in Nat
          BY <5>1, PollPositions
        <5> QED BY <3>1, <5>2
      <4> QED BY <2>1, <4>1
    <3> QED BY <2>7, <3>1, <3>2 DEF MainInv, PollAt
  <2>10. TrapSent % TrapText = 0
    BY <1>1, WholeMessages DEF PrintInv
  <2>11. C!PrintMain
    BY <2>4, <2>5, <2>6, <2>7, <2>10
       DEF C!PrintMain, MainSent, TrapSent, C!MainChar, MainChar
  <2> QED BY <2>8, <2>9, <2>11 DEF PrintInv, C!Next
<1> QED BY <1>5, <1>6, MainPrints


(* A handler prints the next character of the message of its trap.         *)
LEMMA HandlerRefines ==
  ASSUME ConfInv, PrintInv, HandlerStep
  PROVE  /\ PrintInv'
         /\ [C!Next]_<<Chars, Count(Chars, TRUE), Count(Chars, FALSE)>>
<1>1. traps' = traps /\ wire' = wire
  BY DEF HandlerStep
<1>2. fifo = << >> /\ traps > 0 /\ Executed' = Executed
  BY HandlerPrints
<1>3. PICK n \in 1 .. TrapText :
        \/ /\ fifo' = fifo
           /\ Len(htodo) = 2 * (TrapText - n) + 2
           /\ Len(htodo') = 2 * (TrapText - n) + 1
        \/ /\ fifo' = Append(fifo, TrapChar(traps, n))
           /\ Len(htodo) = 2 * (TrapText - n) + 1
           /\ Len(htodo') = 2 * (TrapText - n)
  BY HandlerPrints
<1>4. TrapText \in Nat \ {0} /\ traps \in 1 .. MaxTraps /\ MaxTraps \in Nat /\ traps # 0
  <2>1. TrapText \in Nat \ {0} /\ MaxTraps \in Nat
    BY Constants
  <2>2. traps \in 0 .. MaxTraps
    BY DEF ConfInv, TrapsInv
  <2> QED BY <1>2, <2>1, <2>2
<1>5. PICK c \in 0 .. TrapText :
        /\ TrapSent = (traps - 1) * TrapText + c
        /\ Len(htodo) \in {2 * (TrapText - c), 2 * (TrapText - c) - 1}
  BY <1>4 DEF PrintInv, TrapInv
<1>6. Chars \in Seq(Char)
  BY CharsType
<1>7. CASE /\ fifo' = fifo
           /\ Len(htodo) = 2 * (TrapText - n) + 2
           /\ Len(htodo') = 2 * (TrapText - n) + 1
  <2>1. c = n - 1
    <3>1. 2 * (TrapText - n) + 2 \in {2 * (TrapText - c), 2 * (TrapText - c) - 1}
      BY <1>5, <1>7
    <3> QED BY <1>4, <3>1
  <2>2. Len(htodo') = 2 * (TrapText - c) - 1
    <3>1. Len(htodo') = 2 * (TrapText - n) + 1
      BY <1>7
    <3> QED BY <1>4, <2>1, <3>1
  <2>3. Chars' = Chars
    BY <1>1, <1>7 DEF Chars
  <2>4. MainSent' = MainSent /\ TrapSent' = TrapSent
    BY <2>3 DEF MainSent, TrapSent, Count
  <2>5. MainInv'
    BY <1>2, <2>4 DEF PrintInv, MainInv, PollAt
  <2>6. TrapInv'
    BY <1>1, <1>4, <1>5, <2>2, <2>4 DEF TrapInv
  <2>7. UNCHANGED <<Chars, Count(Chars, TRUE), Count(Chars, FALSE)>>
    BY <2>3 DEF Count
  <2> QED BY <2>5, <2>6, <2>7 DEF PrintInv
<1>8. CASE /\ fifo' = Append(fifo, TrapChar(traps, n))
           /\ Len(htodo) = 2 * (TrapText - n) + 1
           /\ Len(htodo') = 2 * (TrapText - n)
  <2>1. c = n - 1
    <3>1. 2 * (TrapText - n) + 1 \in {2 * (TrapText - c), 2 * (TrapText - c) - 1}
      BY <1>5, <1>8
    <3> QED BY <1>4, <3>1
  <2>2. TrapChar(traps, n) \in Char /\ TrapChar(traps, n).by # 0
    BY <1>4 DEF TrapChar, Char
  <2>3. Chars' = Append(Chars, TrapChar(traps, n))
    BY <1>1, <1>8, <2>2, Queued
  <2>4. MainSent' = MainSent /\ TrapSent' = TrapSent + 1
    <3>1. MainSent' = Count(Append(Chars, TrapChar(traps, n)), TRUE)
      BY <2>3 DEF MainSent, Count
    <3>2. TrapSent' = Count(Append(Chars, TrapChar(traps, n)), FALSE)
      BY <2>3 DEF TrapSent, Count
    <3> QED BY <1>6, <2>2, <3>1, <3>2, CountAppend DEF MainSent, TrapSent
  <2>5. MainInv'
    BY <1>2, <2>4 DEF PrintInv, MainInv, PollAt
  <2>6. (traps - 1) * TrapText \in Nat
    BY <1>4
  <2>7. TrapInv'
    <3>1. TrapSent' = (traps - 1) * TrapText + n
      BY <1>4, <1>5, <2>1, <2>4, <2>6
    <3>2. Len(htodo') \in {2 * (TrapText - n), 2 * (TrapText - n) - 1}
      BY <1>8
    <3>3. n \in 0 .. TrapText
      BY <1>4
    <3> QED BY <1>1, <1>4, <3>1, <3>2, <3>3 DEF TrapInv
  <2>8. TrapSent \div TrapText = traps - 1 /\ TrapSent % TrapText = c
    <3>1. TrapSent \in Nat /\ TrapSent = TrapText * (traps - 1) + c
      BY <1>4, <1>5, <2>6
    <3>2. traps - 1 \in Nat /\ c \in 0 .. TrapText - 1
      BY <1>4, <2>1
    <3> QED BY <1>4, <3>1, <3>2, DivModUnique
  <2>9. TrapSent < MaxTraps * TrapText
    <3>1. TrapSent < (traps - 1) * TrapText + TrapText
      BY <1>4, <1>5, <2>1, <2>6
    <3>2. (traps - 1) * TrapText + TrapText = traps * TrapText
      BY <1>4
    <3>3. traps * TrapText <= MaxTraps * TrapText
      BY <1>4
    <3>4. traps * TrapText \in Nat /\ MaxTraps * TrapText \in Nat /\ TrapSent \in Nat
      BY <1>4, <1>5, <2>6
    <3> QED BY <3>1, <3>2, <3>3, <3>4
  <2>10. C!PrintTrap
    <3>1. 1 + (TrapSent \div TrapText) = traps /\ 1 + (TrapSent % TrapText) = n
      BY <1>4, <2>1, <2>8
    <3>2. Chars' = Append(Chars, C!TrapChar(1 + (TrapSent \div TrapText),
                                            1 + (TrapSent % TrapText)))
      BY <2>3, <3>1 DEF C!TrapChar, TrapChar
    <3> QED BY <2>4, <2>9, <3>2 DEF C!PrintTrap, MainSent, TrapSent
  <2> QED BY <2>5, <2>7, <2>10 DEF PrintInv, C!Next
<1> QED BY <1>3, <1>7, <1>8

(* A trap comes between two statements and prints nothing yet.             *)
LEMMA TrapRefines ==
  ASSUME ConfInv, PrintInv, Trap
  PROVE  PrintInv' /\ Chars' = Chars
<1>1. /\ htodo = << >> /\ traps' = traps + 1 /\ htodo' = trap_handler(traps + 1)
      /\ todo' = todo /\ fifo' = fifo /\ wire' = wire
  BY DEF Trap
<1>2. Chars' = Chars /\ Executed' = Executed
  BY <1>1 DEF Chars, Executed, Size
<1>3. MainSent' = MainSent /\ TrapSent' = TrapSent
  BY <1>2 DEF MainSent, TrapSent, Count
<1>4. MainInv'
  BY <1>2, <1>3 DEF PrintInv, MainInv, PollAt
<1>5. TrapInv'
  <2>1. TrapText \in Nat /\ traps \in Nat
    BY Constants DEF ConfInv, TrapsInv
  <2>2. TrapSent = traps * TrapText
    BY <1>1, WholeMessages DEF PrintInv
  <2>3. Len(htodo') = 2 * TrapText
    <3>1. traps + 1 \in Nat
      BY <2>1
    <3> QED BY <1>1, <3>1, TrapProgram
  <2>4. TrapSent' = (traps' - 1) * TrapText + 0
    <3>1. traps' - 1 = traps /\ traps * TrapText + 0 = traps * TrapText
      BY <1>1, <2>1
    <3> QED BY <1>3, <2>2, <3>1
  <2>5. Len(htodo') \in {2 * (TrapText - 0), 2 * (TrapText - 0) - 1}
    BY <2>1, <2>3
  <2>6. traps' # 0 /\ 0 \in 0 .. TrapText
    BY <1>1, <2>1
  <2> QED BY <2>4, <2>5, <2>6 DEF TrapInv
<1> QED BY <1>2, <1>4, <1>5 DEF PrintInv

(* Every step is one of the console, or none.                              *)
LEMMA NextRefines ==
  ASSUME DeepEnough, ConfInv, PrintInv, [Next]_vars
  PROVE  /\ PrintInv'
         /\ [C!Next]_<<Chars, Count(Chars, TRUE), Count(Chars, FALSE)>>
<1>1. CASE MainStep
  BY <1>1, MainRefines
<1>2. CASE HandlerStep
  BY <1>2, HandlerRefines
<1>3. ASSUME Chars' = Chars
      PROVE  UNCHANGED <<Chars, Count(Chars, TRUE), Count(Chars, FALSE)>>
  BY <1>3 DEF Count
<1>4. CASE Trap
  BY <1>3, <1>4, TrapRefines
<1>5. ASSUME Chars' = Chars, todo' = todo, htodo' = htodo, traps' = traps
      PROVE  PrintInv'
  <2>1. MainSent' = MainSent /\ TrapSent' = TrapSent
    BY <1>5 DEF MainSent, TrapSent, Count
  <2>2. Executed' = Executed
    BY <1>5 DEF Executed, Size
  <2>3. MainInv'
    BY <2>1, <2>2 DEF PrintInv, MainInv, PollAt
  <2>4. TrapInv'
    BY <1>5, <2>1 DEF PrintInv, TrapInv
  <2> QED BY <2>3, <2>4 DEF PrintInv
<1>6. CASE Transmit
  <2>1. Chars' = Chars
    BY <1>6, Transmitted
  <2>2. todo' = todo /\ htodo' = htodo /\ traps' = traps
    BY <1>6 DEF Transmit
  <2> QED BY <1>3, <1>5, <2>1, <2>2
<1>7. CASE UNCHANGED vars
  <2>1. Chars' = Chars /\ todo' = todo /\ htodo' = htodo /\ traps' = traps
    BY <1>7 DEF vars, Chars
  <2> QED BY <1>3, <1>5, <2>1
<1>8. CASE EndOfCode
  BY <1>7, <1>8 DEF EndOfCode
<1> QED BY <1>1, <1>2, <1>4, <1>6, <1>7, <1>8 DEF Next

(* ConsoleSpec: driver and device implement the console of Console.tla:    *)
(* main's characters and the messages of the traps are queued in order,    *)
(* each once, and main never prints inside a message.  The FIFO has to     *)
(* hold two characters; that of apb_uart holds 16.                         *)
THEOREM UartImplementsConsole ==
  ASSUME DeepEnough
  PROVE  Spec => ConsoleSpec
<1>1. Init => C!Init
  BY PrintInit
<1>2. Init => ConfInv /\ PrintInv
  BY ConfInit, PrintInit
<1>3. ConfInv /\ PrintInv /\ [Next]_vars => ConfInv' /\ PrintInv'
  BY ConfNext, NextRefines
<1>4. ConfInv /\ PrintInv /\ [Next]_vars
        => [C!Next]_<<Chars, Count(Chars, TRUE), Count(Chars, FALSE)>>
  BY NextRefines
<1> QED BY <1>1, <1>2, <1>3, <1>4, PTL DEF Spec, ConsoleSpec, C!Spec
=============================================================================
