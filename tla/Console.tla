------------------------------- MODULE Console -------------------------------
(***************************************************************************)
(* What the UART and its driver promise: main prints its characters in     *)
(* order, a trap prints its message without main in between, and what has  *)
(* been printed stays printed.                                             *)
(***************************************************************************)
EXTENDS Naturals, Sequences

CONSTANTS
  MainText,      \* number of characters main prints
  TrapText,      \* number of characters of the message of a trap
  MaxTraps       \* bound of the model: traps in a run

VARIABLES
  printed,       \* characters accepted for transmission, oldest first
  sentMain,      \* how many of them main has printed
  sentTraps      \* how many the traps have printed

MainChar(n) == [by |-> 0, n |-> n]
TrapChar(t, n) == [by |-> t, n |-> n]

Init == printed = << >> /\ sentMain = 0 /\ sentTraps = 0

(* main prints its next character, when no message is open                 *)
PrintMain ==
  /\ sentMain < MainText /\ sentTraps % TrapText = 0
  /\ printed' = Append(printed, MainChar(sentMain + 1))
  /\ sentMain' = sentMain + 1
  /\ UNCHANGED sentTraps

(* a trap prints the next character of its message                         *)
PrintTrap ==
  /\ sentTraps < MaxTraps * TrapText
  /\ printed' = Append(printed, TrapChar(1 + (sentTraps \div TrapText),
                                         1 + (sentTraps % TrapText)))
  /\ sentTraps' = sentTraps + 1
  /\ UNCHANGED sentMain

Next == PrintMain \/ PrintTrap

Spec == Init /\ [][Next]_<<printed, sentMain, sentTraps>>
=============================================================================
