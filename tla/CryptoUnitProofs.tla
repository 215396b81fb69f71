-------------------------- MODULE CryptoUnitProofs --------------------------
(***************************************************************************)
(* The safety properties of CryptoUnit, for every number of lanes that     *)
(* makes an operand word a whole number of argument buffers (WholeWords),  *)
(* every width, every depth of the FIFO, every set of instructions and     *)
(* every delay of the grants.  The properties speak of the unit InStep;    *)
(* the theorems assume nothing further.                                    *)
(*                                                                         *)
(* The argument: in step, the three stages agree on a count.  A group      *)
(* never crosses an operand word, so a result is assigned to the write     *)
(* buffer as a whole, in the first cycle in which the buffer is free       *)
(* (AssignCycle); the execution units accept the next group in that cycle, *)
(* or in a later one (AcceptCycle); and a request is acknowledged in the   *)
(* cycle in which its last group is accepted (AckFacts).  So the bytes the *)
(* collector has handed over, those the execution units hold and those the *)
(* write back has assigned are one count (Accepted, Executed), however     *)
(* long a write waits for its grant.                                       *)
(*                                                                         *)
(* The data follow the counts, stage by stage: the word the lanes send     *)
(* next is the one the collector needs next and a full argument buffer     *)
(* holds the group that follows the accepted ones (GatherInv); the result  *)
(* register holds the group that follows the assigned ones (ResultInv);    *)
(* the write buffer holds bytes of one row (BuffInv); what the lanes have  *)
(* accepted together with what waits for them is what was assigned,        *)
(* without repetition (VrfInv); and no byte of a request assigned as a     *)
(* whole is lost (KeptInv).                                                *)
(***************************************************************************)
EXTENDS CryptoUnit, TLAPS

(* An operand word is a whole number of argument buffers, as with 4 lanes: *)
(* with 1 or 2 lanes an SM3 element group spans several words.             *)
WholeWords == OperandBytes % CryptoArgWidthBytes = 0

(* The result of the request is shorter than a register group of LMUL 8,   *)
(* whose byte count is 0 in the $clog2(MAXVL) bits of                      *)
(* result_bytes_total_s.                                                   *)
Short(req) == LegalReq(req) /\ req.vl * req.vsew < MAXVL

FP == INSTANCE PeRequestFlowProofs WITH popped <- Popped, reported <- Reported

(* bytes of the request in the execution units that have left the          *)
(* collector                                                               *)
Executed == wbWritten + (IF resultValid THEN ArgBytes(execReq) ELSE 0)

(* bytes of the request at the head of the FIFO that have left the         *)
(* collector                                                               *)
Accepted == IF execReq.seq = Popped + 1 THEN Executed ELSE 0

(* requests whose last result byte has been assigned to the write buffer   *)
Finished == IF execReq.seq = Popped /\ ~resultValid THEN Popped ELSE execReq.seq - 1

(* Issued requests are short and numbered in the order of issue.           *)
IssuedShort == \A n \in 1 .. Len(issued) : Short(issued[n]) /\ issued[n].seq = n

(* The lanes fetch the words of every request issued.                      *)
IssuedFetched == \A n \in 1 .. Len(issued) : WordsFetched(issued[n])

(* The handshakes are Booleans, and the state of the execution units says  *)
(* whether they hold a result.                                             *)
Handshakes ==
  /\ resultValid \in BOOLEAN /\ argBuffValid \in BOOLEAN /\ vrfValid \in BOOLEAN
  /\ wbDone \in BOOLEAN
  /\ resultValid <=> execState = "EXEC"
  /\ ~resultValid <=> execState = "IDLE"

(* The execution units hold the request taken last, or the one at the      *)
(* head, and whole element groups of it have been assigned.                *)
ExecInv ==
  /\ execReq.seq \in 0 .. Len(issued)
  /\ execReq.seq # 0 => execReq = issued[execReq.seq]
  /\ wbIdx = 0
  /\ wbWritten \in Nat
  /\ resultValid => execReq.seq # 0
  /\ \E g \in Nat : wbWritten = g * ArgBytes(execReq)
  /\ \/ /\ execReq.seq = Popped
        /\ Executed = IF resultValid THEN TotalBytes(execReq) ELSE 0
     \/ /\ execReq.seq = Popped + 1
        /\ Executed > 0 /\ Executed < TotalBytes(execReq)

(* Operand o holds nothing or one whole element group of the request at    *)
(* the head; a vector-scalar operand is read once, the others as far as    *)
(* accepted.                                                               *)
Buffered(o) ==
  /\ argFull[o] \in BOOLEAN
  /\ IF HeadValid /\ o \in OperandActive(HeadReq.op)
       THEN /\ argIdx[o] = IF argFull[o] THEN ArgBytes(HeadReq) ELSE 0
            /\ bytesRead[o] = argIdx[o] + IF VectorScalar(HeadReq, o) THEN 0 ELSE Accepted
       ELSE bytesRead[o] = 0 /\ argIdx[o] = 0 /\ ~argFull[o]

(* The arguments offered are complete, and those of the head request.      *)
CollectInv ==
  /\ \A o \in Operands : Buffered(o)
  /\ argBuffValid <=> HeadValid /\ \A o \in OperandActive(HeadReq.op) : argFull[o]
  /\ argBuffValid => peReqQ = HeadReq

(* As many requests are reported as have been assigned, the last one in    *)
(* the next cycle.                                                         *)
ReportInv ==
  /\ Reported = Finished - (IF wbDone THEN 1 ELSE 0)
  /\ wbDone => Finished > 0

(* The inductive invariant.                                                *)
PipeInv == FP!QueueInv /\ IssuedShort /\ Handshakes /\ ExecInv /\ CollectInv /\ ReportInv

(* A cycle at the end of which the unit is still in step.                  *)
Step(valid, gnt) == Cycle(valid, gnt) /\ ~Overtakes(gnt) /\ InStep'

(* The result held is assigned to the write buffer: no write is waiting.   *)
Assigns(gnt) == resultValid /\ (vrfValid => gnt)

-----------------------------------------------------------------------------
(* Arithmetic.                                                             *)

(* Quotient and remainder are unique.                                      *)
LEMMA DivModUnique ==
  ASSUME NEW a \in Nat, NEW b \in Nat \ {0}, NEW q \in Nat, NEW r \in 0 .. b - 1,
         a = b * q + r
  PROVE  a \div b = q /\ a % b = r
<1>1. /\ a \div b \in Nat /\ a % b \in 0 .. b - 1
      /\ a = b * (a \div b) + (a % b)
  OBVIOUS
<1> DEFINE c == a \div b
<1>2. b * (q - c) = (a % b) - r
  BY <1>1
<1>3. c \in Nat /\ a % b \in 0 .. b - 1
  BY <1>1
<1> HIDE DEF c
<1>4. q = c
  <2>1. CASE q > c
    <3>1. b * (q - c) >= b
      BY <1>3, <2>1
    <3> QED BY <1>2, <1>3, <3>1
  <2>2. CASE q < c
    <3>1. b * (q - c) <= -b
      BY <1>3, <2>2
    <3> QED BY <1>2, <1>3, <3>1
  <2> QED BY <1>3, <2>1, <2>2
<1> QED BY <1>1, <1>2, <1>3, <1>4 DEF c

(* What the provers know of division, as a fact to cite.                   *)
LEMMA DivModFacts ==
  ASSUME NEW a \in Nat, NEW b \in Nat \ {0}
  PROVE  a \div b \in Nat /\ a % b \in 0 .. b - 1 /\ a = b * (a \div b) + (a % b)
OBVIOUS

(* A multiple is divided without remainder.                                *)
LEMMA DivExact ==
  ASSUME NEW a \in Nat, NEW b \in Nat \ {0}, a % b = 0
  PROVE  a \div b \in Nat /\ a = b * (a \div b)
<1> DEFINE q == a \div b
<1>1. q \in Nat /\ a = b * q + 0
  BY DivModFacts
<1> HIDE DEF q
<1>2. b * q + 0 = b * q
  BY <1>1
<1> QED BY <1>1, <1>2 DEF q

(* A number below the modulus is its own remainder.                        *)
LEMMA ModSmall ==
  ASSUME NEW b \in Nat \ {0}, NEW a \in 0 .. b - 1
  PROVE  a % b = a
OBVIOUS

(* A common factor cancels.                                                *)
LEMMA DivModScaled ==
  ASSUME NEW x \in Nat, NEW y \in Nat \ {0}, NEW c \in Nat \ {0}
  PROVE  /\ (c * x) \div (c * y) = x \div y
         /\ (c * x) % (c * y) = c * (x % y)
<1> DEFINE q == x \div y
           r == x % y
<1>1. q \in Nat /\ r \in 0 .. y - 1 /\ x = y * q + r
  BY DivModFacts
<1> HIDE DEF q, r
<1>2. c * x = (c * y) * q + c * r
  BY <1>1
<1>3. c * r \in Nat /\ c * r < c * y /\ c * x \in Nat /\ c * y \in Nat \ {0}
  BY <1>1
<1>4. c * r \in 0 .. c * y - 1
  BY <1>3
<1> QED BY <1>1, <1>2, <1>3, <1>4, DivModUnique DEF q, r

(* element groups in an operand word, before the first one of the request, *)
(* and between it and the start of its word                                *)
WordGroups(req) == OperandBytes \div ArgBytes(req)
StartGroup(req) == req.vstart \div EGS(req.op)
SkipGroups(req) == StartGroup(req) % WordGroups(req)

(* Element groups and operands of an operation; some operand is not a      *)
(* vector-scalar one.                                                      *)
LEMMA OpFacts ==
  ASSUME NEW op \in CryptoOps
  PROVE  /\ EGS(op) \in {CryptoEGS_4, CryptoEGS_8}
         /\ op \in Vsha2 => EGS(op) = CryptoEGS_4
         /\ OperandActive(op) \subseteq Operands
         /\ \E o \in OperandActive(op) : o # "VS2" \/ ~(op \in VaesVS \cup {"VSM4R_VS"})
BY DEF CryptoOps, EGS, Vsm3, Vsha2, OperandActive, Operands, VaesKey, VaesVV, VaesVS, Vgcm, Vsm4

(* The constants are positive, and an argument buffer holds two of the     *)
(* smallest element groups.                                                *)
LEMMA ConstFacts ==
  /\ NrLanes \in Nat \ {0} /\ EW32 \in Nat \ {0} /\ EW64 = 2 * EW32 /\ EW64 \in Nat \ {0}
  /\ CryptoEGS_4 \in Nat \ {0} /\ CryptoEGS_8 = 2 * CryptoEGS_4 /\ CryptoEGS_8 \in Nat \ {0}
  /\ MAXVL \in Nat \ {0}
  /\ OperandBytes \in Nat \ {0} /\ CryptoArgWidthBytes \in Nat \ {0}
  /\ CryptoArgWidthBytes = 2 * (CryptoEGS_4 * EW32)
<1>1. /\ NrLanes \in Nat \ {0} /\ EW32 \in Nat \ {0} /\ EW64 = 2 * EW32
      /\ CryptoEGS_4 \in Nat \ {0} /\ CryptoEGS_8 = 2 * CryptoEGS_4
      /\ MAXVL \in Nat \ {0}
  BY CryptoAssumption
<1>2. \A a, b \in Nat \ {0} : a * b \in Nat \ {0}
  OBVIOUS
<1>3. EW64 \in Nat \ {0} /\ CryptoEGS_8 \in Nat \ {0}
  BY <1>1
<1>4. (2 * CryptoEGS_4) * EW32 = 2 * (CryptoEGS_4 * EW32)
  BY <1>1
<1> QED BY <1>1, <1>2, <1>3, <1>4 DEF OperandBytes, CryptoArgWidthBytes

(* The fields of a legal request, and its element group: all of an         *)
(* argument buffer or half of it.                                          *)
LEMMA ReqTypes ==
  ASSUME NEW req, LegalReq(req)
  PROVE  /\ req \in CryptoReq /\ req.op \in CryptoOps /\ req.seq \in Nat /\ req.id \in Nat
         /\ req.vsew \in Nat \ {0} /\ req.vl \in Nat \ {0} /\ req.vstart \in Nat
         /\ EGS(req.op) \in Nat \ {0}
         /\ ArgBytes(req) \in Nat \ {0}
         /\ ArgBytes(req) = EGS(req.op) * req.vsew
         /\ \E w \in {1, 2} : CryptoArgWidthBytes = ArgBytes(req) * w
<1>1. /\ req \in CryptoReq /\ req.op \in CryptoOps /\ req.seq \in Nat /\ req.id \in Nat
      /\ req.vsew \in {EW32, EW64} /\ req.vl \in Nat \ {0} /\ req.vstart \in Nat
      /\ req.vsew = EW64 => req.op \in Vsha2
  BY DEF LegalReq, CryptoReq
<1>2. EGS(req.op) \in {CryptoEGS_4, CryptoEGS_8} /\ (req.op \in Vsha2 => EGS(req.op) = CryptoEGS_4)
  BY <1>1, OpFacts
<1>3. EGS(req.op) \in Nat \ {0} /\ req.vsew \in Nat \ {0}
  BY <1>1, <1>2, ConstFacts
<1>4. \A a, b \in Nat \ {0} : a * b \in Nat \ {0}
  OBVIOUS
<1>5. ArgBytes(req) \in Nat \ {0} /\ ArgBytes(req) = EGS(req.op) * req.vsew
  BY <1>3, <1>4 DEF ArgBytes
<1>6. \E w \in {1, 2} : CryptoArgWidthBytes = ArgBytes(req) * w
  <2>1. CASE EGS(req.op) = CryptoEGS_4 /\ req.vsew = EW32
    <3>1. CryptoArgWidthBytes = ArgBytes(req) * 2
      BY <1>5, <2>1, ConstFacts
    <3> QED BY <3>1
  <2>2. CASE EGS(req.op) = CryptoEGS_4 /\ req.vsew = EW64
    <3>1. CryptoArgWidthBytes = ArgBytes(req) * 1
      BY <1>5, <2>2, ConstFacts
    <3> QED BY <3>1
  <2>3. CASE EGS(req.op) = CryptoEGS_8 /\ req.vsew = EW32
    <3>1. CryptoArgWidthBytes = ArgBytes(req) * 1
      BY <1>5, <2>3, ConstFacts
    <3> QED BY <3>1
  <2> QED BY <1>1, <1>2, <2>1, <2>2, <2>3, ConstFacts
<1> QED BY <1>1, <1>3, <1>5, <1>6

(* An operand word holds a whole number of element groups, and vstart      *)
(* falls on the start of one.                                              *)
LEMMA WordFacts ==
  ASSUME WholeWords, NEW req, LegalReq(req)
  PROVE  /\ WordGroups(req) \in Nat \ {0}
         /\ OperandBytes = ArgBytes(req) * WordGroups(req)
         /\ ElemsPerOperand(req) = EGS(req.op) * WordGroups(req)
         /\ StartGroup(req) \in Nat
         /\ req.vstart = EGS(req.op) * StartGroup(req)
         /\ SkipGroups(req) \in 0 .. WordGroups(req) - 1
         /\ VstartByte(req) = ArgBytes(req) * SkipGroups(req)
         /\ req.vstart * req.vsew = ArgBytes(req) * StartGroup(req)
<1> DEFINE a == ArgBytes(req)
           e == EGS(req.op)
           c == CryptoArgWidthBytes
           j == StartGroup(req)
<1>1. /\ a \in Nat \ {0} /\ e \in Nat \ {0} /\ req.vsew \in Nat \ {0} /\ a = e * req.vsew
      /\ c \in Nat \ {0} /\ OperandBytes \in Nat \ {0} /\ req.vstart \in Nat
  BY ReqTypes, ConstFacts
<1>2. PICK w \in {1, 2} : c = a * w
  BY ReqTypes
<1>3. OperandBytes = c * (OperandBytes \div c) /\ OperandBytes \div c \in Nat
  BY <1>1, DivExact DEF WholeWords, c
<1> HIDE DEF a, e, c
<1>4. PICK m \in Nat : OperandBytes = a * m
  <2>1. w * (OperandBytes \div c) \in Nat
    BY <1>3
  <2>2. OperandBytes = a * (w * (OperandBytes \div c))
    BY <1>1, <1>2, <1>3
  <2> QED BY <2>1, <2>2
<1>5. m # 0
  BY <1>1, <1>4
<1>6. WordGroups(req) = m
  <2>1. OperandBytes = a * m + 0 /\ 0 \in 0 .. a - 1
    BY <1>1, <1>4
  <2> QED BY <1>1, <2>1, DivModUnique DEF WordGroups, a
<1>7. ElemsPerOperand(req) = e * m
  <2>1. OperandBytes = req.vsew * (e * m) + 0 /\ e * m \in Nat /\ 0 \in 0 .. req.vsew - 1
    BY <1>1, <1>4
  <2> QED BY <1>1, <2>1, DivModUnique DEF ElemsPerOperand
<1>8. j \in Nat /\ req.vstart = e * j
  <2>1. req.vstart % e = 0
    BY DEF LegalReq, e
  <2> QED BY <1>1, <2>1, DivExact DEF StartGroup, e
<1> HIDE DEF j
<1>9. SkipGroups(req) = j % m /\ j % m \in 0 .. m - 1
  BY <1>5, <1>6, <1>8, DivModFacts DEF SkipGroups, j
<1>10. VstartByte(req) = a * (j % m)
  <2>1. (e * j) % (e * m) = e * (j % m)
    BY <1>1, <1>5, <1>8, DivModScaled
  <2>2. VstartByte(req) = (e * (j % m)) * req.vsew
    BY <1>7, <1>8, <2>1 DEF VstartByte
  <2> QED BY <1>1, <1>9, <2>2
<1>11. req.vstart * req.vsew = a * j
  BY <1>1, <1>8
<1> QED BY <1>4, <1>5, <1>6, <1>7, <1>8, <1>9, <1>10, <1>11 DEF a, e, j

(* The byte count of a short request does not wrap.                        *)
LEMMA TotalFacts ==
  ASSUME NEW req, Short(req)
  PROVE  /\ EgLen(req) \in Nat \ {0}
         /\ TotalBytes(req) = EgLen(req) * ArgBytes(req)
         /\ TotalBytes(req) \in 1 .. MAXVL - 1
         /\ ArgBytes(req) <= TotalBytes(req)
<1> DEFINE e == EGS(req.op)
           n == EgLen(req)
<1>1. /\ e \in Nat \ {0} /\ req.vsew \in Nat \ {0} /\ req.vl \in Nat \ {0}
      /\ ArgBytes(req) = e * req.vsew /\ ArgBytes(req) \in Nat \ {0} /\ MAXVL \in Nat \ {0}
  BY ReqTypes, ConstFacts DEF Short
<1>2. req.vl = e * n /\ n \in Nat
  <2>1. req.vl % e = 0
    BY DEF Short, LegalReq
  <2> QED BY <1>1, <2>1, DivExact DEF EgLen
<1>3. EgLen(req) = n
  OBVIOUS
<1> HIDE DEF n, e
<1>4. n # 0
  BY <1>1, <1>2
<1>5. ArgBytes(req) * n = req.vl * req.vsew
  BY <1>1, <1>2
<1>6. ArgBytes(req) * n \in Nat /\ ArgBytes(req) * n < MAXVL
  BY <1>1, <1>2, <1>5 DEF Short
<1>7. (ArgBytes(req) * n) % MAXVL = ArgBytes(req) * n
  <2>1. ArgBytes(req) * n \in 0 .. MAXVL - 1
    BY <1>1, <1>6
  <2> QED BY <1>1, <2>1, ModSmall
<1>8. ArgBytes(req) <= ArgBytes(req) * n
  BY <1>1, <1>2, <1>4
<1>9. ArgBytes(req) * n = n * ArgBytes(req)
  BY <1>1, <1>2
<1> QED BY <1>1, <1>2, <1>3, <1>4, <1>6, <1>7, <1>8, <1>9 DEF TotalBytes

(* Where element group g of a request falls: it does not cross a word.     *)
LEMMA GroupPlace ==
  ASSUME WholeWords, NEW req, LegalReq(req), NEW g \in Nat
  PROVE  LET at == VstartByte(req) + g * ArgBytes(req)
         IN /\ at \in Nat
            /\ at % OperandBytes \in Nat
            /\ (at % OperandBytes) + ArgBytes(req) <= OperandBytes
            /\ at % OperandBytes =
                  ArgBytes(req) * ((SkipGroups(req) + g) % WordGroups(req))
            /\ at \div OperandBytes = (SkipGroups(req) + g) \div WordGroups(req)
<1> DEFINE a == ArgBytes(req)
           m == WordGroups(req)
           v == SkipGroups(req)
           at == VstartByte(req) + g * ArgBytes(req)
<1>1. /\ a \in Nat \ {0} /\ m \in Nat \ {0} /\ v \in 0 .. m - 1
      /\ OperandBytes = a * m /\ VstartByte(req) = a * v
  BY ReqTypes, WordFacts
<1> HIDE DEF a, m, v
<1>2. at = a * (v + g)
  BY <1>1 DEF a
<1>3. v + g \in Nat
  BY <1>1
<1>4. at % OperandBytes = a * ((v + g) % m) /\ at \div OperandBytes = (v + g) \div m
  <2>1. (a * (v + g)) % (a * m) = a * ((v + g) % m) /\ (a * (v + g)) \div (a * m) = (v + g) \div m
    BY <1>1, <1>3, DivModScaled
  <2> QED BY <1>1, <1>2, <2>1
<1>5. (v + g) % m \in 0 .. m - 1
  BY <1>1, <1>3, DivModFacts
<1>6. a * ((v + g) % m) + a <= a * m /\ a * ((v + g) % m) \in Nat /\ a * (v + g) \in Nat
  <2> DEFINE r == (v + g) % m
  <2>1. r \in Nat /\ r + 1 <= m
    BY <1>1, <1>5
  <2> HIDE DEF r
  <2>2. a * r + a = a * (r + 1) /\ a * (r + 1) <= a * m /\ a * r \in Nat
    BY <1>1, <2>1
  <2> QED BY <1>1, <1>3, <2>2 DEF r
<1> QED BY <1>1, <1>2, <1>4, <1>6 DEF a, m, v

-----------------------------------------------------------------------------
(* The port and the sequencer of PeRequestFlow are those of the unit.      *)

(* The assumption on the instructions, in the terms of PeRequestFlow.      *)
LEMMA KindsLegal == \A k \in Kinds : FP!LegalReq(FP!Numbered(k, 1, 0))
BY PortAssumption
DEF FP!LegalReq, FP!Numbered, LegalReq, Numbered, FP!EGS, EGS, FP!Vsm3, Vsm3,
    FP!Vsha2, Vsha2, FP!CryptoReq, CryptoReq, FP!CryptoOps, CryptoOps,
    FP!VaesKey, VaesKey, FP!VaesVV, VaesVV, FP!VaesVS, VaesVS, FP!Vgcm, Vgcm,
    FP!Vsm4, Vsm4

(* Requests are the same.                                                  *)
LEMMA SameReq == FP!CryptoReq = CryptoReq /\ FP!ResetReq = ResetReq
BY DEF FP!CryptoReq, CryptoReq, FP!CryptoOps, CryptoOps, FP!Vsm3, Vsm3,
    FP!Vsha2, Vsha2, FP!VaesKey, VaesKey, FP!VaesVV, VaesVV, FP!VaesVS, VaesVS,
    FP!Vgcm, Vgcm, FP!Vsm4, Vsm4, FP!ResetReq, ResetReq

(* The state of the port is the same.                                      *)
LEMMA SamePush == FP!PeFifoPush = PeFifoPush /\ FP!HeadValid = HeadValid
                  /\ FP!FifoFull = FifoFull
BY DEF FP!PeFifoPush, PeFifoPush, FP!HeadValid, HeadValid, FP!FifoEmpty, FifoEmpty,
       FP!FifoFull, FifoFull

(* The clock edge at the port is the same.                                 *)
LEMMA SamePort == ASSUME NEW pop PROVE FP!PortClock(pop) = PortClock(pop)
BY DEF FP!PortClock, PortClock, FP!FifoClock, FifoClock, FP!PeFifoPush, PeFifoPush,
       FP!FifoEmpty, FifoEmpty, FP!FifoFull, FifoFull, FP!Slot, Slot

(* The clock edge of the sequencer is the same.                            *)
LEMMA SameSequencer == FP!SequencerClock = SequencerClock
BY DEF FP!SequencerClock, SequencerClock, FP!IssueCrypto, IssueCrypto, FP!IssueOther,
       IssueOther, FP!HoldRequest, HoldRequest, FP!NoRequest, NoRequest, FP!Numbered,
       Numbered, FP!QueueIssue, QueueIssue, FP!FreeIds, FreeIds, FP!Retire, Retire,
       FP!DonePulse, DonePulse, FP!ResetReq, ResetReq

(* What QueueInv says of the registers of the port.                        *)
LEMMA PortFacts ==
  ASSUME FP!QueueInv
  PROVE  /\ Len(issued) \in Nat /\ issued \in Seq(CryptoReq)
         /\ Popped \in 0 .. Len(issued) /\ Reported \in 0 .. Popped
         /\ fifoCnt \in 0 .. CryptoInsnQueueDepth
         /\ PeFifoPush => fifoCnt < CryptoInsnQueueDepth
         /\ queueCnt \in Nat /\ peReq \in CryptoReq
<1>1. /\ issued \in Seq(CryptoReq) /\ Popped \in Nat /\ Reported \in Nat
      /\ fifoCnt \in 0 .. CryptoInsnQueueDepth /\ queueCnt \in 0 .. CryptoInsnQueueDepth
      /\ peReq \in CryptoReq
  BY SameReq DEF FP!QueueInv, FP!TypeOK, FP!PortTypeOK
<1>2. Reported <= Popped
  BY DEF FP!QueueInv, FP!ReportedTaken
<1>3. PeFifoPush => ~FifoFull
  BY FP!RoomForPush, KindsLegal, CryptoAssumption, FifoAssumption, PortAssumption, SamePush
  DEF FP!NoPushWhileFull
<1>4. Len(issued) \in Nat /\ Popped <= Len(issued)
  BY <1>1 DEF Popped
<1> QED
  BY <1>1, <1>2, <1>3, <1>4, FifoAssumption DEF FifoFull

(* The head of the FIFO is the oldest request not yet taken.               *)
LEMMA HeadFacts ==
  ASSUME FP!QueueInv
  PROVE  /\ HeadValid \in BOOLEAN
         /\ HeadValid <=> Popped < Len(issued)
         /\ HeadValid => HeadReq = issued[Popped + 1]
<1> DEFINE push == IF PeFifoPush THEN 1 ELSE 0
<1>1. /\ issued \in Seq(CryptoReq) /\ Len(issued) \in Nat
      /\ fifoCnt \in 0 .. CryptoInsnQueueDepth /\ Popped \in Nat
      /\ CryptoInsnQueueDepth \in Nat \ {0}
  BY PortFacts, FifoAssumption
<1>2. Popped + fifoCnt + push = Len(issued)
  BY <1>1 DEF Popped
<1>3. fifoRd \in 0 .. CryptoInsnQueueDepth - 1
  BY DEF FP!QueueInv, FP!TypeOK, FP!PortTypeOK
<1>4. HeadValid <=> Popped < Len(issued)
  BY <1>1, <1>2 DEF HeadValid, FifoEmpty
<1>5. CASE fifoCnt = 0 /\ PeFifoPush
  <2>1. peReq = issued[Len(issued)]
    BY <1>5 DEF FP!QueueInv, FP!Broadcast, PeFifoPush
  <2>2. Popped + 1 = Len(issued)
    BY <1>1, <1>2, <1>5
  <2> QED
    BY <1>4, <1>5, <2>1, <2>2 DEF HeadReq, FifoHead, HeadValid
<1>6. CASE fifoCnt > 0
  <2>1. FP!Slot(0) = fifoRd
    BY <1>3, FifoAssumption DEF FP!Slot
  <2>2. fifoMem[FP!Slot(0)] = issued[Popped + 0 + 1]
    BY <1>1, <1>6 DEF FP!QueueInv, FP!QueueInIssueOrder
  <2>3. Popped + 0 + 1 = Popped + 1
    BY <1>1
  <2> QED
    BY <1>1, <1>4, <1>6, <2>1, <2>2, <2>3 DEF HeadReq, FifoHead, HeadValid
<1>7. CASE fifoCnt = 0 /\ ~PeFifoPush
  BY <1>4, <1>7 DEF HeadValid, FifoEmpty
<1> QED
  BY <1>1, <1>4, <1>5, <1>6, <1>7 DEF HeadValid

(* An instruction, numbered, is a legal request.                           *)
LEMMA NumberedLegal ==
  ASSUME NEW k \in Kinds, NEW seq \in Nat, NEW id \in Nat
  PROVE  LegalReq(Numbered(k, seq, id)) /\ Numbered(k, seq, id).seq = seq
<1>1. LegalReq(Numbered(k, 1, 0))
  BY PortAssumption
<1>2. /\ Numbered(k, 1, 0).op = k.op /\ Numbered(k, 1, 0).vsew = k.vsew
      /\ Numbered(k, 1, 0).vl = k.vl /\ Numbered(k, 1, 0).vstart = k.vstart
      /\ Numbered(k, seq, id).op = k.op /\ Numbered(k, seq, id).vsew = k.vsew
      /\ Numbered(k, seq, id).vl = k.vl /\ Numbered(k, seq, id).vstart = k.vstart
      /\ Numbered(k, seq, id).seq = seq
  BY DEF Numbered
<1>3. Numbered(k, seq, id) \in CryptoReq
  BY <1>1 DEF Numbered, CryptoReq, LegalReq
<1> QED
  BY <1>1, <1>2, <1>3 DEF LegalReq

(* The sequencer extends the history by a legal request, or leaves it.     *)
LEMMA IssueStep ==
  ASSUME issued \in Seq(CryptoReq), SequencerClock
  PROVE  issued' = issued
         \/ \E req \in CryptoReq : /\ issued' = Append(issued, req) /\ LegalReq(req)
                                   /\ req.seq = Len(issued) + 1
<1>1. Len(issued) \in Nat /\ VInsnIds \subseteq Nat
  BY PortAssumption
<1>2. ASSUME NEW k \in Kinds, NEW i \in VInsnIds, IssueCrypto(k, i)
      PROVE  \E req \in CryptoReq : /\ issued' = Append(issued, req) /\ LegalReq(req)
                                    /\ req.seq = Len(issued) + 1
  <2> DEFINE req == Numbered(k, Len(issued) + 1, i)
  <2>1. issued' = Append(issued, req)
    BY <1>2 DEF IssueCrypto
  <2>2. Len(issued) + 1 \in Nat /\ i \in Nat
    BY <1>1
  <2>3. LegalReq(req) /\ req.seq = Len(issued) + 1
    BY <2>2, NumberedLegal
  <2> HIDE DEF req
  <2>4. req \in CryptoReq
    BY <2>3 DEF LegalReq
  <2> QED
    BY <2>1, <2>3, <2>4
<1> QED
  BY <1>2 DEF SequencerClock, IssueOther, HoldRequest, NoRequest

(* In step, the history is extended by short requests.                     *)
LEMMA SequencerStep ==
  ASSUME FP!QueueInv, IssuedShort, SequencerClock, InStep'
  PROVE  /\ IssuedShort'
         /\ Len(issued') \in Nat /\ Len(issued) <= Len(issued')
         /\ \A n \in 1 .. Len(issued) : issued'[n] = issued[n]
<1>1. issued \in Seq(CryptoReq) /\ Len(issued) \in Nat
  BY PortFacts
<1>2. issued' = issued
      \/ \E req \in CryptoReq : /\ issued' = Append(issued, req) /\ LegalReq(req)
                                /\ req.seq = Len(issued) + 1
  BY <1>1, IssueStep
<1>3. \A n \in 1 .. Len(issued') : issued'[n].vl * issued'[n].vsew < MAXVL
  BY DEF InStep, Plain
<1>4. CASE issued' = issued
  BY <1>1, <1>4 DEF IssuedShort
<1>5. ASSUME NEW req, issued' = Append(issued, req), LegalReq(req), req.seq = Len(issued) + 1
      PROVE  /\ IssuedShort' /\ Len(issued') = Len(issued) + 1
             /\ \A n \in 1 .. Len(issued) : issued'[n] = issued[n]
  <2>1. /\ Len(issued') = Len(issued) + 1 /\ issued'[Len(issued) + 1] = req
        /\ \A n \in 1 .. Len(issued) : issued'[n] = issued[n]
    BY <1>1, <1>5
  <2>2. ASSUME NEW n \in 1 .. Len(issued')
        PROVE  Short(issued'[n]) /\ issued'[n].seq = n
    <3>1. n \in 1 .. Len(issued) \/ n = Len(issued) + 1
      BY <1>1, <2>1
    <3> QED
      BY <1>3, <1>5, <2>1, <3>1 DEF IssuedShort, Short
  <2>3. IssuedShort'
    BY <2>2 DEF IssuedShort, Short, LegalReq, EGS
  <2> QED
    BY <2>1, <2>3
<1> QED
  BY <1>1, <1>2, <1>4, <1>5

(* The count of the requests taken changes with pe_req_ack_o only.         *)
LEMMA PopStep ==
  ASSUME FP!QueueInv, NEW pop \in BOOLEAN, pop => HeadValid, PortClock(pop), SequencerClock
  PROVE  Popped' = IF pop THEN Popped + 1 ELSE Popped
<1> DEFINE one == IF PeFifoPush THEN 1 ELSE 0
<1>1. /\ Len(issued) \in Nat /\ issued \in Seq(CryptoReq) /\ Popped \in Nat
      /\ fifoCnt \in 0 .. CryptoInsnQueueDepth
      /\ PeFifoPush => fifoCnt < CryptoInsnQueueDepth /\ CryptoInsnQueueDepth \in Nat
  BY PortFacts, FifoAssumption
<1>2. fifoCnt' = fifoCnt + one - (IF pop THEN 1 ELSE 0)
  BY <1>1 DEF PortClock, FifoClock, FifoFull, FifoEmpty, HeadValid
<1>3. (\E req \in CryptoReq : FP!Issues(req)) \/ FP!IssuesNone
  BY FP!SequencerStep, KindsLegal, CryptoAssumption, FifoAssumption, PortAssumption,
     SameSequencer, SameReq
<1>4. /\ \A req \in CryptoReq : FP!Issues(req) => PeFifoPush'
      /\ FP!IssuesNone => ~PeFifoPush'
  <2>1. FP!PortClock(pop)
    BY SamePort
  <2>2. /\ \A req \in FP!CryptoReq : FP!Issues(req) => FP!PeFifoPush'
        /\ FP!IssuesNone => ~FP!PeFifoPush'
    BY <2>1, FP!PushStep, KindsLegal, CryptoAssumption, FifoAssumption, PortAssumption
  <2> QED
    BY <2>2, SameReq DEF FP!PeFifoPush, PeFifoPush
<1>0. /\ Popped = Len(issued) - fifoCnt - one
      /\ Popped' = Len(issued') - fifoCnt' - (IF PeFifoPush' THEN 1 ELSE 0)
  BY DEF Popped
<1> HIDE DEF one
<1>7. one \in Nat
  BY DEF one
<1>5. CASE FP!IssuesNone
  <2>1. issued' = issued /\ ~PeFifoPush'
    BY <1>4, <1>5 DEF FP!IssuesNone
  <2> QED
    BY <1>0, <1>1, <1>2, <1>7, <2>1
<1>6. ASSUME NEW req \in CryptoReq, FP!Issues(req)
      PROVE  Popped' = IF pop THEN Popped + 1 ELSE Popped
  <2>1. PeFifoPush' /\ Len(issued') = Len(issued) + 1
    <3>1. PeFifoPush'
      BY <1>4, <1>6
    <3>2. issued' = Append(issued, req)
      BY <1>6 DEF FP!Issues
    <3> QED
      BY <1>1, <3>1, <3>2
  <2> QED
    BY <1>0, <1>1, <1>2, <1>7, <2>1
<1> QED
  BY <1>3, <1>5, <1>6

-----------------------------------------------------------------------------
(* One element group at a time.                                            *)

(* An empty argument buffer is filled by one word: a group never crosses   *)
(* one.                                                                    *)
LEMMA FillFacts ==
  ASSUME WholeWords, NEW req, Short(req), NEW o, argIdx[o] = 0,
         NEW g \in Nat, bytesRead[o] = g * ArgBytes(req),
         bytesRead[o] + ArgBytes(req) <= TotalBytes(req)
  PROVE  /\ BytesTaken(req, o) = ArgBytes(req)
         /\ ReadAfter(req, o) = bytesRead[o] + ArgBytes(req)
         /\ OperandByteIdx(req, o) = (VstartByte(req) + g * ArgBytes(req)) % OperandBytes
<1> DEFINE a == ArgBytes(req)
           at == (VstartByte(req) + g * a) % OperandBytes
<1>1. a \in Nat \ {0} /\ OperandBytes \in Nat \ {0} /\ MAXVL \in Nat \ {0} /\ TotalBytes(req) \in 1 .. MAXVL - 1
  BY ReqTypes, ConstFacts, TotalFacts DEF Short
<1>2. at \in Nat /\ at + a <= OperandBytes
  BY GroupPlace DEF Short
<1>3. OperandByteIdx(req, o) = at
  BY DEF OperandByteIdx
<1>4. bytesRead[o] \in Nat
  BY <1>1
<1> HIDE DEF a, at
<1>5. BytesTaken(req, o) = a
  BY <1>1, <1>2, <1>3 DEF BytesTaken, a
<1>6. bytesRead[o] + a \in 0 .. MAXVL - 1
  BY <1>1, <1>4 DEF a
<1>7. ReadAfter(req, o) = bytesRead[o] + a
  BY <1>1, <1>5, <1>6, ModSmall DEF ReadAfter
<1> QED
  BY <1>3, <1>5, <1>7 DEF a, at

(* A result fits into the write buffer.                                    *)
LEMMA AssignFacts ==
  ASSUME WholeWords, NEW req, Short(req), wbIdx = 0, NEW g \in Nat,
         wbWritten = g * ArgBytes(req)
  PROVE  /\ AssignedBytes(req) = ArgBytes(req)
         /\ WriteLo(req) = (VstartByte(req) + g * ArgBytes(req)) % OperandBytes
         /\ WriteLo(req) \in Nat /\ WriteHi(req) = WriteLo(req) + ArgBytes(req)
         /\ WriteHi(req) <= OperandBytes
<1> DEFINE a == ArgBytes(req)
           at == (VstartByte(req) + g * a) % OperandBytes
<1>1. a \in Nat \ {0} /\ OperandBytes \in Nat \ {0} /\ VstartByte(req) + g * a \in Nat
  BY ReqTypes, ConstFacts, GroupPlace DEF Short
<1>2. at \in Nat /\ at + a <= OperandBytes
  BY GroupPlace DEF Short
<1>3. WriteLo(req) = at
  BY <1>1 DEF WriteLo
<1> HIDE DEF a, at
<1>4. WriteHi(req) = at + a
  BY <1>1, <1>2, <1>3 DEF WriteHi, a
<1> QED
  BY <1>1, <1>2, <1>3, <1>4 DEF AssignedBytes, a, at

(* Some operand is filled anew for every group.                            *)
LEMMA PerGroupOperand ==
  ASSUME NEW req, LegalReq(req)
  PROVE  /\ OperandActive(req.op) \subseteq Operands
         /\ \E o \in OperandActive(req.op) : ~VectorScalar(req, o)
BY OpFacts, ReqTypes DEF VectorScalar

(* What has been accepted of the head request is whole groups, not all.    *)
LEMMA AcceptedFacts ==
  ASSUME FP!QueueInv, IssuedShort, Handshakes, ExecInv, HeadValid
  PROVE  /\ Short(HeadReq) /\ HeadReq.seq = Popped + 1
         /\ \E g \in Nat : Accepted = g * ArgBytes(HeadReq)
         /\ Accepted + ArgBytes(HeadReq) <= TotalBytes(HeadReq)
         /\ Accepted \in Nat
         /\ ~resultValid => Accepted = wbWritten
<1>1. /\ Popped \in Nat /\ Popped + 1 \in 1 .. Len(issued) /\ HeadReq = issued[Popped + 1]
  BY PortFacts, HeadFacts
<1>2. Short(HeadReq) /\ HeadReq.seq = Popped + 1
  BY <1>1 DEF IssuedShort
<1>3. /\ EgLen(HeadReq) \in Nat \ {0} /\ ArgBytes(HeadReq) \in Nat \ {0}
      /\ TotalBytes(HeadReq) = EgLen(HeadReq) * ArgBytes(HeadReq)
      /\ ArgBytes(HeadReq) <= TotalBytes(HeadReq)
  BY <1>2, TotalFacts, ReqTypes DEF Short
<1>4. CASE execReq.seq = Popped
  <2>1. Accepted = 0 /\ 0 = 0 * ArgBytes(HeadReq) /\ 0 \in Nat
    BY <1>1, <1>3, <1>4 DEF Accepted
  <2>2. ~resultValid => wbWritten = 0
    BY <1>1, <1>4 DEF ExecInv, Executed
  <2> QED
    BY <1>2, <1>3, <2>1, <2>2
<1>5. CASE execReq.seq = Popped + 1
  <2>1. execReq = HeadReq /\ Accepted = Executed
    BY <1>1, <1>5 DEF ExecInv, Accepted
  <2>2. PICK g \in Nat : wbWritten = g * ArgBytes(HeadReq)
    BY <2>1 DEF ExecInv
  <2>3. Executed < TotalBytes(HeadReq)
    BY <1>1, <1>5, <2>1 DEF ExecInv
  <2> DEFINE h == g + (IF resultValid THEN 1 ELSE 0)
  <2>4. h \in Nat /\ Executed = h * ArgBytes(HeadReq)
    BY <1>3, <2>1, <2>2 DEF Executed
  <2> HIDE DEF h
  <2>5. h < EgLen(HeadReq)
    BY <1>3, <2>3, <2>4
  <2>6. h * ArgBytes(HeadReq) + ArgBytes(HeadReq) = (h + 1) * ArgBytes(HeadReq)
    BY <1>3, <2>4
  <2>7. (h + 1) * ArgBytes(HeadReq) <= EgLen(HeadReq) * ArgBytes(HeadReq)
    BY <1>3, <2>4, <2>5
  <2>8. ~resultValid => Accepted = wbWritten
    BY <2>1 DEF Executed, ExecInv
  <2> QED
    BY <1>2, <1>3, <2>1, <2>4, <2>6, <2>7, <2>8
<1> QED
  BY <1>4, <1>5 DEF ExecInv

(* A request is acknowledged when its last group is accepted.              *)
LEMMA AckFacts ==
  ASSUME PipeInv, WholeWords
  PROVE  PeReqAck(HeadValid, HeadReq) <=>
           argBuffValid /\ Accepted + ArgBytes(HeadReq) = TotalBytes(HeadReq)
<1> DEFINE H == HeadReq
<1>1. CASE ~HeadValid
  BY <1>1 DEF PeReqAck, PipeInv, CollectInv
<1>2. CASE HeadValid
  <2>1. /\ Short(H) /\ Accepted \in Nat /\ Accepted + ArgBytes(H) <= TotalBytes(H)
    BY <1>2, AcceptedFacts DEF PipeInv
  <2>2. ArgBytes(H) \in Nat \ {0} /\ TotalBytes(H) \in Nat
    BY <2>1, ReqTypes, TotalFacts DEF Short
  <2>3. OperandActive(H.op) \subseteq Operands /\ \E o \in OperandActive(H.op) : ~VectorScalar(H, o)
    BY <2>1, PerGroupOperand DEF Short
  <2> HIDE DEF H
  <2>4. ASSUME NEW o \in OperandActive(H.op)
        PROVE  OperandDone(H, o) <=>
                 argFull[o] /\ (VectorScalar(H, o) \/ Accepted + ArgBytes(H) = TotalBytes(H))
    <3>1. Buffered(o)
      BY <2>3, <2>4 DEF PipeInv, CollectInv
    <3>2. /\ argIdx[o] = IF argFull[o] THEN ArgBytes(H) ELSE 0
          /\ bytesRead[o] = argIdx[o] + IF VectorScalar(H, o) THEN 0 ELSE Accepted
      BY <1>2, <2>4, <3>1 DEF Buffered, H
    <3> QED
      BY <2>1, <2>2, <3>1, <3>2 DEF OperandDone, Buffered
  <2>5. PeReqAck(TRUE, H) <=> \A o \in OperandActive(H.op) : OperandDone(H, o)
    BY DEF PeReqAck
  <2>6. argBuffValid <=> \A o \in OperandActive(H.op) : argFull[o]
    BY <1>2 DEF PipeInv, CollectInv, H
  <2>7. PeReqAck(TRUE, H) <=> argBuffValid /\ Accepted + ArgBytes(H) = TotalBytes(H)
    BY <2>3, <2>4, <2>5, <2>6
  <2> QED
    BY <1>2, <2>7 DEF H, HeadValid
<1> QED
  BY <1>1, <1>2

-----------------------------------------------------------------------------
-----------------------------------------------------------------------------
(* One cycle.                                                              *)

(* A result is assigned to the write buffer as soon as the buffer is free: *)
(* as a whole, so that the execution units may take the next arguments.    *)
LEMMA AssignCycle ==
  ASSUME PipeInv, WholeWords,
         NEW valid \in SUBSET Operands, NEW gnt \in BOOLEAN, Step(valid, gnt),
         Assigns(gnt)
  PROVE  /\ execReq.seq \in 1 .. Len(issued) /\ Short(execReq)
         /\ WriteBackEn(resultValid, execReq, gnt)
         /\ AssignResult(resultValid, execReq, result, gnt)
         /\ AssignedBytes(execReq) = ArgBytes(execReq)
         /\ ArgsReady(gnt) <=> argBuffValid
         /\ ~ArgsReady(gnt) => /\ resultValid' = FALSE /\ execState' = "IDLE"
                               /\ execReq' = execReq /\ result' = result
         /\ wbIdx' = 0
         /\ wbWritten' = IF Executed = TotalBytes(execReq) THEN 0 ELSE Executed
         /\ wbDone' = (Executed = TotalBytes(execReq))
         /\ vrfValid' \in BOOLEAN
<1> USE DEF PipeInv
<1>1. UnitClock(valid, [o \in valid |-> Word(o)], gnt)
  BY DEF Step, Cycle
<1>2. resultValid /\ (vrfValid => gnt)
  BY DEF Assigns
<1>3. execReq.seq \in 1 .. Len(issued) /\ execReq = issued[execReq.seq]
  BY <1>2, PortFacts DEF ExecInv
<1>4. Short(execReq)
  BY <1>3 DEF IssuedShort
<1>5. /\ ArgBytes(execReq) \in Nat \ {0} /\ TotalBytes(execReq) \in 1 .. MAXVL - 1
      /\ wbWritten \in Nat /\ wbIdx = 0 /\ MAXVL \in Nat
  BY <1>4, ReqTypes, TotalFacts, ConstFacts DEF Short, ExecInv
<1>6. Executed = wbWritten + ArgBytes(execReq) /\ Executed <= TotalBytes(execReq)
  <2>1. Executed = wbWritten + ArgBytes(execReq)
    BY <1>2 DEF Executed
  <2> HIDE DEF Executed
  <2> QED
    BY <1>2, <1>5, <2>1 DEF ExecInv
<1>7. wbWritten # TotalBytes(execReq)
  BY <1>5, <1>6
<1>8. WriteBackEn(resultValid, execReq, gnt)
  BY <1>2, <1>7 DEF WriteBackEn
<1>9. AssignResult(resultValid, execReq, result, gnt)
  BY <1>1, <1>8 DEF UnitClock, WriteBackClock, NoAssign
<1>10. AssignedBytes(execReq) = ArgBytes(execReq)
  BY <1>4, AssignFacts DEF ExecInv
<1>11. WbReady(resultValid, execReq, gnt)
  <2>1. wbIdx + AssignedBytes(execReq) = ArgBytes(execReq)
    BY <1>5, <1>10
  <2> QED
    BY <1>8, <2>1 DEF WbReady
<1>12. ArgsReady(gnt) <=> argBuffValid
  BY <1>2, <1>11 DEF ArgsReady, ArgReady
<1>13. ~ArgsReady(gnt) => ReleaseResult(argBuffValid, WbReady(resultValid, execReq, gnt))
  <2>1. execState = "EXEC"
    BY <1>2 DEF Handshakes
  <2> QED
    BY <1>1, <1>2, <1>11, <1>12, <2>1 DEF UnitClock, ExecClock, AcceptArg, ArgReady, HoldExec
<1>14. LastBytes(execReq) <=> Executed = TotalBytes(execReq)
  BY <1>6, <1>10 DEF LastBytes
<1>15. ~LastBytes(execReq) =>
         (wbWritten + AssignedBytes(execReq)) % MAXVL = Executed
  <2>1. wbWritten + AssignedBytes(execReq) = Executed
    BY <1>6, <1>10
  <2>2. Executed \in 0 .. MAXVL - 1 /\ MAXVL \in Nat \ {0}
    BY <1>5, <1>6
  <2> QED
    BY <2>1, <2>2, ModSmall
<1>16. wbWritten' = IF Executed = TotalBytes(execReq) THEN 0 ELSE Executed
  BY <1>9, <1>14, <1>15 DEF AssignResult
<1>17. wbDone' = (Executed = TotalBytes(execReq)) /\ wbIdx' = 0
  BY <1>9, <1>11, <1>14 DEF AssignResult, Flush, LastBytes
<1>18. vrfValid' \in BOOLEAN
  BY <1>9 DEF AssignResult, Flush, LastBytes
<1> QED
  BY <1>3, <1>4, <1>8, <1>9, <1>10, <1>12, <1>13, <1>16, <1>17, <1>18 DEF ReleaseResult

(* While a write waits, or there is no result, the write back keeps what   *)
(* it has; only idle execution units take arguments.                       *)
LEMMA HoldCycle ==
  ASSUME PipeInv,
         NEW valid \in SUBSET Operands, NEW gnt \in BOOLEAN, Step(valid, gnt),
         ~Assigns(gnt)
  PROVE  /\ NoAssign(resultValid, execReq, gnt)
         /\ wbWritten' = wbWritten /\ wbIdx' = wbIdx /\ wbDone' = FALSE
         /\ vrfValid' = (vrfValid /\ ~gnt)
         /\ ArgsReady(gnt) <=> argBuffValid /\ ~resultValid
         /\ ~ArgsReady(gnt) => UNCHANGED execVars
<1>1. UnitClock(valid, [o \in valid |-> Word(o)], gnt)
  BY DEF Step, Cycle
<1>2. ~WriteBackEn(resultValid, execReq, gnt)
  BY DEF WriteBackEn, Assigns
<1>3. NoAssign(resultValid, execReq, gnt)
  BY <1>1, <1>2 DEF UnitClock, WriteBackClock, AssignResult
<1>4. ~WbReady(resultValid, execReq, gnt)
  BY <1>2 DEF WbReady
<1>5. ArgsReady(gnt) <=> argBuffValid /\ ~resultValid
  BY <1>4 DEF ArgsReady, ArgReady, PipeInv, Handshakes
<1>6. ~ArgsReady(gnt) => HoldExec(argBuffValid, WbReady(resultValid, execReq, gnt))
  BY <1>1, <1>4 DEF ArgsReady, UnitClock, ExecClock, AcceptArg, ReleaseResult
<1> QED
  BY <1>3, <1>5, <1>6 DEF HoldExec, NoAssign

(* The execution units accept the arguments of the request at the head,    *)
(* when everything accepted before has been assigned.                      *)
LEMMA AcceptCycle ==
  ASSUME PipeInv, WholeWords,
         NEW valid \in SUBSET Operands, NEW gnt \in BOOLEAN, Step(valid, gnt),
         ArgsReady(gnt)
  PROVE  /\ argBuffValid /\ HeadValid
         /\ resultValid' = TRUE /\ execState' = "EXEC"
         /\ execReq' = HeadReq
         /\ result' = args[DataOperand(HeadReq.op)]
         /\ wbWritten' = Accepted /\ wbIdx' = 0
<1>1. UnitClock(valid, [o \in valid |-> Word(o)], gnt)
  BY DEF Step, Cycle
<1>2. argBuffValid
  BY DEF ArgsReady, ArgReady
<1>3. HeadValid /\ peReqQ = HeadReq
  BY <1>2 DEF PipeInv, CollectInv
<1>4. AcceptArg(argBuffValid, peReqQ, args, WbReady(resultValid, execReq, gnt))
  <2>1. execState = "EXEC" \/ execState = "IDLE"
    BY DEF PipeInv, Handshakes
  <2> QED
    BY <1>1, <1>2, <2>1 DEF ArgsReady, ArgReady, UnitClock, ExecClock, ReleaseResult, HoldExec
<1>5. wbWritten' = Accepted /\ wbIdx' = 0
  <2>1. CASE Assigns(gnt)
    <3>1. /\ wbWritten' = IF Executed = TotalBytes(execReq) THEN 0 ELSE Executed
          /\ wbIdx' = 0 /\ resultValid
      BY <2>1, AssignCycle DEF Assigns
    <3>2. Popped \in Nat
      BY PortFacts DEF PipeInv
    <3>3. CASE execReq.seq = Popped
      <4>1. Accepted = 0
        BY <3>2, <3>3 DEF Accepted
      <4>2. Executed = TotalBytes(execReq)
        BY <3>1, <3>2, <3>3 DEF PipeInv, ExecInv
      <4> QED
        BY <3>1, <4>1, <4>2
    <3>4. CASE execReq.seq = Popped + 1
      <4> HIDE DEF Executed
      <4>1. Executed # TotalBytes(execReq)
        <5>1. Executed < TotalBytes(execReq)
          BY <3>2, <3>4 DEF PipeInv, ExecInv
        <5>2. Short(execReq)
          BY <2>1, AssignCycle
        <5>3. ArgBytes(execReq) \in Nat /\ wbWritten \in Nat /\ TotalBytes(execReq) \in Int
          BY <5>2, ReqTypes, TotalFacts DEF Short, PipeInv, ExecInv
        <5>4. Executed \in Int
          BY <3>1, <5>3 DEF Executed
        <5> QED
          BY <5>1, <5>3, <5>4
      <4> QED
        BY <3>1, <3>4, <4>1 DEF Accepted
    <3> QED
      BY <3>3, <3>4 DEF PipeInv, ExecInv
  <2>2. CASE ~Assigns(gnt)
    <3>1. wbWritten' = wbWritten /\ wbIdx' = wbIdx /\ ~resultValid
      BY <2>2, HoldCycle
    <3> QED
      BY <1>3, <3>1, AcceptedFacts DEF PipeInv, ExecInv
  <2> QED
    BY <2>1, <2>2
<1> QED
  BY <1>2, <1>3, <1>4, <1>5 DEF AcceptArg

(* What a cycle does at the port: a request is taken only in a cycle in    *)
(* which its last arguments are accepted.                                  *)
LEMMA PortStep ==
  ASSUME PipeInv, WholeWords,
         NEW valid \in SUBSET Operands, NEW gnt \in BOOLEAN, Step(valid, gnt)
  PROVE  LET ack == argBuffValid /\ Accepted + ArgBytes(HeadReq) = TotalBytes(HeadReq)
         IN /\ PeReqAck(HeadValid, HeadReq) = ack
            /\ ack \in BOOLEAN /\ (ack => HeadValid) /\ (ack => ArgsReady(gnt))
            /\ PortClock(ack) /\ SequencerClock
            /\ Popped' = IF ack THEN Popped + 1 ELSE Popped
            /\ IssuedShort'
            /\ Len(issued') \in Nat /\ Len(issued) <= Len(issued')
            /\ \A n \in 1 .. Len(issued) : issued'[n] = issued[n]
<1> DEFINE ack == argBuffValid /\ Accepted + ArgBytes(HeadReq) = TotalBytes(HeadReq)
<1>1. ack \in BOOLEAN /\ (ack => HeadValid) /\ (ack => argBuffValid)
  BY DEF PipeInv, Handshakes, CollectInv
<1>2. PeReqAck(HeadValid, HeadReq) = ack
  <2>1. PeReqAck(HeadValid, HeadReq) \in BOOLEAN
    BY HeadFacts DEF PeReqAck, PipeInv
  <2> QED
    BY <1>1, <2>1, AckFacts
<1> HIDE DEF ack
<1>3. PortClock(ack) /\ SequencerClock
  BY <1>2 DEF Step, Cycle, UnitClock
<1>4. Popped' = IF ack THEN Popped + 1 ELSE Popped
  BY <1>1, <1>3, PopStep DEF PipeInv
<1>5. ack => ArgsReady(gnt)
  BY <1>1, <1>2 DEF Step, Overtakes
<1>6. InStep'
  BY DEF Step
<1> QED
  BY <1>1, <1>2, <1>3, <1>4, <1>5, <1>6, SequencerStep DEF PipeInv, ack

(* What a cycle does to the counters of the collector: an operand is       *)
(* filled by one group, cleared when its group is accepted, or left alone. *)
LEMMA CountersStep ==
  ASSUME PipeInv, WholeWords, HeadValid,
         NEW valid \in SUBSET Operands, NEW gnt \in BOOLEAN, Step(valid, gnt),
         NEW o \in OperandActive(HeadReq.op)
  PROVE  LET ack == argBuffValid /\ Accepted + ArgBytes(HeadReq) = TotalBytes(HeadReq)
             rdy == ArgsReady(gnt)
             fills == Fills(HeadValid, HeadReq, valid, rdy, o)
             keeps == VectorScalar(HeadReq, o) /\ ~ack
         IN /\ fills => /\ ~argBuffValid /\ ~argFull[o] /\ argFull'[o] = TRUE
                        /\ argIdx'[o] = ArgBytes(HeadReq)
                        /\ bytesRead'[o] = bytesRead[o] + ArgBytes(HeadReq)
            /\ rdy => /\ argBuffValid /\ ~fills
                      /\ argFull'[o] = keeps
                      /\ argIdx'[o] = IF keeps THEN argIdx[o] ELSE 0
                      /\ bytesRead'[o] = IF ack THEN 0 ELSE bytesRead[o]
            /\ ~fills /\ ~rdy =>
                 /\ argFull'[o] = argFull[o] /\ argIdx'[o] = argIdx[o]
                 /\ bytesRead'[o] = bytesRead[o]
<1> DEFINE H == HeadReq
           rdy == ArgsReady(gnt)
           ack == argBuffValid /\ Accepted + ArgBytes(H) = TotalBytes(H)
           fills == Fills(HeadValid, H, valid, rdy, o)
           keeps == VectorScalar(H, o) /\ ~ack
<1>1. /\ Short(H) /\ Accepted \in Nat /\ Accepted + ArgBytes(H) <= TotalBytes(H)
      /\ \E g \in Nat : Accepted = g * ArgBytes(H)
  BY AcceptedFacts DEF PipeInv
<1>2. /\ ArgBytes(H) \in Nat \ {0} /\ TotalBytes(H) \in Nat
      /\ ArgBytes(H) <= TotalBytes(H) /\ o \in Operands
  BY <1>1, ReqTypes, TotalFacts, PerGroupOperand DEF Short
<1>3. /\ argFull[o] \in BOOLEAN
      /\ argIdx[o] = IF argFull[o] THEN ArgBytes(H) ELSE 0
      /\ bytesRead[o] = argIdx[o] + IF VectorScalar(H, o) THEN 0 ELSE Accepted
  BY <1>2 DEF PipeInv, CollectInv, Buffered
<1>4. PeReqAck(HeadValid, H) = ack /\ ack \in BOOLEAN /\ (ack => rdy)
  BY PortStep
<1>5. argBuffValid \in BOOLEAN /\ resultValid \in BOOLEAN
  BY DEF PipeInv, Handshakes
<1>6. argBuffValid => argFull[o]
  BY DEF PipeInv, CollectInv
<1>7. /\ bytesRead'[o] = IF fills THEN ReadAfter(H, o)
                         ELSE IF OperandDone(H, o) /\ ack THEN 0 ELSE bytesRead[o]
      /\ argIdx'[o] = IF fills THEN argIdx[o] + BytesTaken(H, o)
                      ELSE IF ArgCleared(HeadValid, H, rdy, o) THEN 0 ELSE argIdx[o]
      /\ argFull'[o] = (\/ fills /\ argIdx[o] + BytesTaken(H, o) = ArgBytes(H)
                        \/ argFull[o] /\ ~ArgCleared(HeadValid, H, rdy, o))
  BY <1>2, <1>4 DEF Step, Cycle, UnitClock, CollectorClock
<1>8. ArgCleared(HeadValid, H, rdy, o) =
        IF VectorScalar(H, o) THEN OperandDone(H, o) /\ ack ELSE rdy
  BY <1>4 DEF ArgCleared
<1>9. ack => OperandDone(H, o)
  BY <1>4 DEF PeReqAck
<1>10. rdy => argBuffValid
  BY DEF ArgsReady, ArgReady
<1>11. OperandDone(H, o) \in BOOLEAN /\ VectorScalar(H, o) \in BOOLEAN /\ rdy \in BOOLEAN
  BY DEF OperandDone, VectorScalar, ArgsReady, ArgReady
<1> HIDE DEF H, rdy, ack, fills
<1>12. CASE fills
  <2>1. ~argFull[o] /\ ~OperandDone(H, o)
    BY <1>12 DEF fills, Fills
  <2>2. ~argBuffValid /\ ~rdy
    BY <1>6, <1>10, <2>1
  <2>3. argIdx[o] = 0 /\ bytesRead[o] = IF VectorScalar(H, o) THEN 0 ELSE Accepted
    BY <1>1, <1>3, <2>1
  <2>4. \E g \in Nat : bytesRead[o] = g * ArgBytes(H)
    <3>1. 0 = 0 * ArgBytes(H)
      BY <1>2
    <3> QED
      BY <1>1, <2>3, <3>1
  <2>5. bytesRead[o] + ArgBytes(H) <= TotalBytes(H)
    BY <1>1, <1>2, <2>3
  <2>6. BytesTaken(H, o) = ArgBytes(H) /\ ReadAfter(H, o) = bytesRead[o] + ArgBytes(H)
    BY <1>1, <2>3, <2>4, <2>5, FillFacts
  <2>7. argIdx[o] + BytesTaken(H, o) = ArgBytes(H)
    BY <1>2, <2>3, <2>6
  <2> QED
    BY <1>7, <1>12, <2>1, <2>2, <2>6, <2>7 DEF H, rdy, ack, fills
<1>13. CASE ~fills /\ rdy
  <2>1. argFull[o] /\ argBuffValid
    BY <1>6, <1>10, <1>13
  <2> QED
    BY <1>4, <1>7, <1>8, <1>9, <1>11, <1>13, <2>1 DEF H, rdy, ack, fills, keeps
<1>14. CASE ~fills /\ ~rdy
  <2>1. ~ack
    BY <1>4, <1>14
  <2> QED
    BY <1>3, <1>7, <1>8, <1>14, <2>1 DEF H, rdy, ack, fills
<1>15. rdy => ~fills
  BY <1>6, <1>10 DEF fills, Fills
<1> QED
  BY <1>12, <1>13, <1>14, <1>15 DEF H, rdy, ack, fills, keeps

(* What a cycle does to the execution units and the bytes they account for.*)
LEMMA ExecStep ==
  ASSUME PipeInv, WholeWords,
         NEW valid \in SUBSET Operands, NEW gnt \in BOOLEAN, Step(valid, gnt)
  PROVE  LET ack == argBuffValid /\ Accepted + ArgBytes(HeadReq) = TotalBytes(HeadReq)
             rdy == ArgsReady(gnt)
         IN /\ resultValid' = (rdy \/ (resultValid /\ ~Assigns(gnt)))
            /\ resultValid' <=> execState' = "EXEC"
            /\ ~resultValid' <=> execState' = "IDLE"
            /\ execReq' = IF rdy THEN HeadReq ELSE execReq
            /\ Accepted' = IF ack THEN 0
                           ELSE IF rdy THEN Accepted + ArgBytes(HeadReq)
                           ELSE Accepted
            /\ ExecInv'
<1> DEFINE H == HeadReq
           rdy == ArgsReady(gnt)
           ack == argBuffValid /\ Accepted + ArgBytes(H) = TotalBytes(H)
<1>0. /\ Popped' = IF ack THEN Popped + 1 ELSE Popped
      /\ ack \in BOOLEAN /\ (ack => rdy)
      /\ Len(issued') \in Nat /\ Len(issued) <= Len(issued')
      /\ \A n \in 1 .. Len(issued) : issued'[n] = issued[n]
  BY PortStep
<1>1. /\ Popped \in 0 .. Len(issued) /\ Len(issued) \in Nat
      /\ execReq.seq \in 0 .. Len(issued)
      /\ execReq.seq # 0 => execReq = issued[execReq.seq]
      /\ wbIdx = 0 /\ wbWritten \in Nat
      /\ argBuffValid \in BOOLEAN /\ resultValid \in BOOLEAN
  BY PortFacts DEF PipeInv, ExecInv, Handshakes
<1>2. CASE ~rdy /\ Assigns(gnt)
  <2>1. /\ execReq.seq \in 1 .. Len(issued) /\ Short(execReq)
        /\ resultValid' = FALSE /\ execState' = "IDLE"
        /\ execReq' = execReq /\ wbIdx' = 0
        /\ wbWritten' = IF Executed = TotalBytes(execReq) THEN 0 ELSE Executed
    BY <1>2, AssignCycle
  <2>2. Popped' = Popped
    BY <1>0, <1>2
  <2>3. /\ ArgBytes(execReq) \in Nat \ {0} /\ TotalBytes(execReq) \in Nat \ {0}
    BY <2>1, ReqTypes, TotalFacts DEF Short
  <2>4. Executed = wbWritten + ArgBytes(execReq)
    BY <1>2 DEF Executed, Assigns
  <2>5. PICK g \in Nat : wbWritten = g * ArgBytes(execReq)
    BY DEF PipeInv, ExecInv
  <2>6. \E h \in Nat : wbWritten' = h * ArgBytes(execReq)
    <3>1. g + 1 \in Nat /\ 0 \in Nat /\ (g + 1) * ArgBytes(execReq) = Executed
          /\ 0 * ArgBytes(execReq) = 0
      BY <2>3, <2>4, <2>5
    <3> HIDE DEF Executed
    <3> QED
      BY <2>1, <3>1
  <2>7. Executed' = wbWritten'
    <3>1. wbWritten' \in Nat
      BY <1>1, <2>1, <2>3, <2>4
    <3> QED
      BY <2>1, <3>1 DEF Executed
  <2>8. \/ /\ execReq.seq = Popped
           /\ Executed = TotalBytes(execReq)
        \/ /\ execReq.seq = Popped + 1
           /\ Executed > 0 /\ Executed < TotalBytes(execReq)
    BY <1>2 DEF PipeInv, ExecInv, Assigns
  <2>9. Accepted' = Accepted
    BY <1>1, <2>1, <2>2, <2>3, <2>7, <2>8 DEF Accepted
  <2>10. wbWritten' \in Nat
    BY <1>1, <2>1, <2>3, <2>4
  <2>11. ExecInv'
    <3>1. execReq'.seq \in 0 .. Len(issued') /\ (execReq'.seq # 0 => execReq' = issued'[execReq'.seq])
      BY <1>0, <1>1, <2>1
    <3>2. ArgBytes(execReq)' = ArgBytes(execReq) /\ TotalBytes(execReq)' = TotalBytes(execReq)
      BY <2>1 DEF ArgBytes, TotalBytes, EgLen, EGS
    <3>3. \/ /\ execReq'.seq = Popped'
             /\ Executed' = 0
          \/ /\ execReq'.seq = Popped' + 1
             /\ Executed' > 0 /\ Executed' < TotalBytes(execReq)'
      BY <2>1, <2>2, <2>3, <2>7, <2>8, <3>2
    <3> QED
      BY <2>1, <2>6, <2>10, <3>1, <3>2, <3>3 DEF ExecInv
  <2> QED
    BY <1>0, <1>2, <2>1, <2>9, <2>11
<1>3. CASE rdy
  <2>1. /\ wbWritten' = Accepted /\ wbIdx' = 0 /\ HeadValid /\ argBuffValid
        /\ resultValid' = TRUE /\ execState' = "EXEC" /\ execReq' = H
    BY <1>3, AcceptCycle
  <2>2. /\ Short(H) /\ H.seq = Popped + 1 /\ Accepted \in Nat
        /\ Accepted + ArgBytes(H) <= TotalBytes(H)
        /\ H = issued[Popped + 1] /\ Popped < Len(issued)
    BY <1>1, <2>1, AcceptedFacts, HeadFacts DEF PipeInv
  <2>3. PICK g \in Nat : Accepted = g * ArgBytes(H)
    BY <2>1, AcceptedFacts DEF PipeInv
  <2>4. ArgBytes(H) \in Nat \ {0} /\ TotalBytes(H) \in Nat \ {0}
    BY <2>2, ReqTypes, TotalFacts DEF Short
  <2> HIDE DEF H
  <2>5. Executed' = Accepted + ArgBytes(H)
    <3>1. ArgBytes(execReq)' = ArgBytes(H)
      BY <2>1 DEF ArgBytes, EGS
    <3> QED
      BY <2>1, <2>2, <3>1 DEF Executed
  <2>6. Accepted' = IF ack THEN 0 ELSE Accepted + ArgBytes(H)
    BY <1>0, <1>1, <2>1, <2>2, <2>5 DEF Accepted
  <2>7. ExecInv'
    <3>1. execReq'.seq \in 0 .. Len(issued') /\ execReq'.seq # 0 /\ execReq' = issued'[execReq'.seq]
      BY <1>0, <1>1, <2>1, <2>2
    <3>2. ArgBytes(execReq)' = ArgBytes(H) /\ TotalBytes(execReq)' = TotalBytes(H)
      BY <2>1 DEF ArgBytes, TotalBytes, EgLen, EGS
    <3>3. \/ /\ execReq'.seq = Popped'
             /\ Executed' = TotalBytes(execReq)'
          \/ /\ execReq'.seq = Popped' + 1
             /\ Executed' > 0 /\ Executed' < TotalBytes(execReq)'
      <4>1. CASE ack
        BY <1>0, <2>1, <2>2, <2>5, <3>2, <4>1
      <4>2. CASE ~ack
        <5>1. Accepted + ArgBytes(H) # TotalBytes(H)
          BY <2>1, <4>2
        <5> HIDE DEF ack
        <5> QED
          BY <1>0, <2>1, <2>2, <2>4, <2>5, <3>2, <4>2, <5>1
      <4> QED
        BY <4>1, <4>2
    <3>4. wbWritten' \in Nat /\ wbIdx' = 0 /\ wbWritten' = g * ArgBytes(H)
      BY <2>1, <2>2, <2>3
    <3> QED
      BY <2>1, <3>1, <3>2, <3>3, <3>4 DEF ExecInv
  <2>8. resultValid' = (rdy \/ (resultValid /\ ~Assigns(gnt)))
    BY <1>3, <2>1
  <2>9. resultValid' <=> execState' = "EXEC"
    BY <2>1
  <2>10. ~resultValid' <=> execState' = "IDLE"
    BY <2>1
  <2> QED
    BY <1>3, <2>1, <2>6, <2>7, <2>8, <2>9, <2>10 DEF H
<1>4. CASE ~rdy /\ ~Assigns(gnt)
  <2>1. /\ wbWritten' = wbWritten /\ wbIdx' = wbIdx /\ UNCHANGED execVars
    BY <1>4, HoldCycle
  <2>2. /\ resultValid' = resultValid /\ execState' = execState /\ execReq' = execReq
    BY <2>1 DEF execVars
  <2>3. Popped' = Popped
    BY <1>0, <1>4
  <2>4. Executed' = Executed /\ Accepted' = Accepted
    BY <2>1, <2>2, <2>3 DEF Executed, Accepted, ArgBytes, EGS
  <2>5. ExecInv'
    <3>1. execReq'.seq \in 0 .. Len(issued') /\ (execReq'.seq # 0 => execReq' = issued'[execReq'.seq])
      BY <1>0, <1>1, <2>2
    <3>2. ArgBytes(execReq)' = ArgBytes(execReq) /\ TotalBytes(execReq)' = TotalBytes(execReq)
      BY <2>2 DEF ArgBytes, TotalBytes, EgLen, EGS
    <3> QED
      BY <2>1, <2>2, <2>3, <2>4, <3>1, <3>2 DEF PipeInv, ExecInv
  <2>6. resultValid' <=> execState' = "EXEC"
    BY <2>2 DEF PipeInv, Handshakes
  <2>7. ~resultValid' <=> execState' = "IDLE"
    BY <2>2 DEF PipeInv, Handshakes
  <2> QED
    BY <1>0, <1>1, <1>4, <2>2, <2>4, <2>5, <2>6, <2>7
<1> QED
  BY <1>2, <1>3, <1>4

(* A request is reported when its last result has been assigned, by some   *)
(* done bit: the id is that of the request the execution units then hold.  *)
LEMMA ReportedStep ==
  ASSUME PipeInv, WholeWords,
         NEW valid \in SUBSET Operands, NEW gnt \in BOOLEAN, Step(valid, gnt)
  PROVE  /\ wbDone => Reported < Popped
         /\ vinsnDone' # {} <=> wbDone
         /\ vinsnDone' \subseteq Nat
         /\ Reported' = IF wbDone THEN Reported + 1 ELSE Reported
         /\ Finished' = Finished + (IF wbDone' THEN 1 ELSE 0)
         /\ ReportInv'
<1>1. /\ Popped \in 0 .. Len(issued) /\ Len(issued) \in Nat /\ Reported \in 0 .. Popped
      /\ queueCnt \in Nat /\ issued \in Seq(CryptoReq) /\ vinsnDone \subseteq Nat
      /\ wbDone \in BOOLEAN /\ resultValid \in BOOLEAN
  BY PortFacts, SameReq DEF PipeInv, Handshakes, FP!QueueInv, FP!TypeOK, FP!PortTypeOK
<1>2. /\ Reported = Finished - (IF wbDone THEN 1 ELSE 0)
      /\ wbDone => Finished > 0
  BY DEF PipeInv, ReportInv
<1>3. /\ execReq.seq \in {Popped, Popped + 1} /\ execReq.seq \in 0 .. Len(issued)
      /\ execReq.seq = Popped /\ resultValid => Executed = TotalBytes(execReq)
      /\ execReq.seq = Popped + 1 => Executed < TotalBytes(execReq)
      /\ execReq.seq # 0 => execReq = issued[execReq.seq]
      /\ resultValid => execReq.seq # 0
  BY DEF PipeInv, ExecInv
<1>4. vinsnDone' = IF wbDone THEN vinsnDone \cup {execReq.id} ELSE {}
  BY DEF Step, Cycle, UnitClock, PeResp
<1>5. Finished = IF resultValid THEN execReq.seq - 1 ELSE Popped
  BY <1>1, <1>3 DEF Finished
<1>6. Finished \in Nat /\ Finished <= Popped
  BY <1>1, <1>3, <1>5
<1>7. vinsnDone' \subseteq Nat /\ (vinsnDone' # {} <=> wbDone)
  <2>1. ASSUME wbDone PROVE execReq.id \in Nat
    <3>1. execReq.seq # 0
      BY <1>1, <1>2, <1>3, <1>5, <2>1
    <3>2. execReq \in CryptoReq
      BY <1>1, <1>3, <3>1
    <3> QED
      BY <3>2 DEF CryptoReq
  <2> QED
    BY <1>1, <1>4, <2>1
<1>8. DonePulse' = IF wbDone THEN 1 ELSE 0
  BY <1>7 DEF DonePulse
<1>9. Len(issued') - queueCnt' = Len(issued) - queueCnt + DonePulse
  <2>1. SequencerClock /\ DonePulse \in {0, 1}
    BY DEF Step, Cycle, DonePulse
  <2>2. ASSUME NEW k \in Kinds, NEW i \in VInsnIds, IssueCrypto(k, i)
        PROVE  Len(issued') = Len(issued) + 1 /\ queueCnt' = queueCnt + 1 - DonePulse
    <3>1. /\ issued' = Append(issued, Numbered(k, Len(issued) + 1, i))
          /\ queueCnt' = queueCnt + 1 - DonePulse
      BY <2>2 DEF IssueCrypto
    <3> QED
      BY <1>1, <3>1
  <2>3. \/ /\ Len(issued') = Len(issued) + 1 /\ queueCnt' = queueCnt + 1 - DonePulse
        \/ /\ issued' = issued /\ queueCnt' = queueCnt - DonePulse
    BY <2>1, <2>2 DEF SequencerClock, IssueOther, HoldRequest, NoRequest
  <2> QED
    BY <1>1, <2>1, <2>3
<1>10. Reported' = IF wbDone THEN Reported + 1 ELSE Reported
  <2>1. /\ Reported' = Len(issued') - queueCnt' + DonePulse'
        /\ Reported = Len(issued) - queueCnt + DonePulse
    BY DEF Reported
  <2> HIDE DEF Reported, DonePulse
  <2> QED
    BY <1>1, <1>8, <1>9, <2>1
<1>11. Reported' = Finished
  BY <1>1, <1>2, <1>6, <1>10
<1>12. /\ Popped' \in Nat
       /\ ~ArgsReady(gnt) => Popped' = Popped /\ execReq' = execReq
       /\ resultValid' <=> (ArgsReady(gnt) \/ (resultValid /\ ~Assigns(gnt)))
  <2>1. Popped' \in Nat /\ (~ArgsReady(gnt) => Popped' = Popped)
    BY <1>1, PortStep
  <2>2. ~ArgsReady(gnt) => execReq' = execReq
    BY ExecStep
  <2>3. resultValid' = (ArgsReady(gnt) \/ (resultValid /\ ~Assigns(gnt)))
    BY ExecStep
  <2> QED
    BY <2>1, <2>2, <2>3
<1>13. Finished' = IF ~ArgsReady(gnt) /\ ~Assigns(gnt) THEN Finished ELSE Popped
  <2>1. CASE ArgsReady(gnt)
    <3>1. resultValid' /\ execReq' = HeadReq /\ HeadValid
      BY <2>1, AcceptCycle
    <3>2. HeadReq.seq = Popped + 1
      BY <3>1, AcceptedFacts DEF PipeInv
    <3> QED
      BY <1>1, <2>1, <3>1, <3>2 DEF Finished
  <2>2. CASE ~ArgsReady(gnt)
    <3>1. execReq'.seq \in {Popped', Popped' + 1} /\ Popped' = Popped /\ execReq' = execReq
      BY <1>3, <1>12, <2>2
    <3>2. Finished' = IF resultValid' THEN execReq.seq - 1 ELSE Popped
      BY <1>1, <3>1 DEF Finished
    <3>3. resultValid' <=> (resultValid /\ ~Assigns(gnt))
      BY <1>12, <2>2
    <3>4. Assigns(gnt) => resultValid
      BY DEF Assigns
    <3> QED
      BY <1>5, <2>2, <3>2, <3>3, <3>4
  <2> QED
    BY <2>1, <2>2
<1>14. Finished' = Finished + (IF wbDone' THEN 1 ELSE 0)
  <2>1. CASE Assigns(gnt)
    <3>1. /\ wbDone' = (Executed = TotalBytes(execReq)) /\ Short(execReq) /\ resultValid
      BY <2>1, AssignCycle DEF Assigns
    <3>2. Executed \in Int /\ TotalBytes(execReq) \in Nat
      <4>1. ArgBytes(execReq) \in Nat /\ TotalBytes(execReq) \in Nat
        BY <3>1, ReqTypes, TotalFacts DEF Short
      <4>2. wbWritten \in Nat
        BY DEF PipeInv, ExecInv
      <4> QED
        BY <4>1, <4>2 DEF Executed
    <3> HIDE DEF Executed
    <3>3. wbDone' <=> execReq.seq = Popped
      <4>1. execReq.seq = Popped => Executed = TotalBytes(execReq)
        BY <1>3, <3>1
      <4>2. execReq.seq = Popped + 1 => Executed # TotalBytes(execReq)
        BY <1>3, <3>2
      <4> QED
        BY <1>1, <1>3, <3>1, <4>1, <4>2
    <3>4. Finished' = Popped /\ Finished = execReq.seq - 1
      BY <1>5, <1>13, <2>1, <3>1
    <3> QED
      BY <1>1, <1>3, <3>3, <3>4
  <2>2. CASE ~Assigns(gnt)
    <3>1. wbDone' = FALSE /\ (ArgsReady(gnt) => ~resultValid)
      BY <2>2, HoldCycle
    <3>2. Finished' = Finished
      BY <1>5, <1>13, <2>2, <3>1
    <3> QED
      BY <1>6, <3>1, <3>2
  <2> QED
    BY <2>1, <2>2
<1>15. ReportInv'
  <2>1. Reported' = Finished' - (IF wbDone' THEN 1 ELSE 0)
    BY <1>6, <1>11, <1>14
  <2>2. wbDone' => Finished' > 0
    BY <1>6, <1>14
  <2> QED
    BY <2>1, <2>2 DEF ReportInv
<1> QED
  BY <1>1, <1>2, <1>6, <1>7, <1>10, <1>14, <1>15

(* HeadFacts as a state predicate, which holds in the next state too.      *)
HeadIsNext ==
  /\ HeadValid \in BOOLEAN
  /\ HeadValid <=> Popped < Len(issued)
  /\ HeadValid => HeadReq = issued[Popped + 1]

(* HeadIsNext follows from the invariant of the queue ...                  *)
LEMMA HeadNow == FP!QueueInv => HeadIsNext
BY HeadFacts DEF HeadIsNext

(* ... in the next state too.                                              *)
LEMMA HeadNext == FP!QueueInv' => HeadIsNext'
BY HeadNow, PTL

(* A cycle of the unit takes and reports as PeRequestFlow does, the id of  *)
(* the report aside.                                                       *)
LEMMA FlowStep ==
  ASSUME PipeInv, WholeWords,
         NEW valid \in SUBSET Operands, NEW gnt \in BOOLEAN, Step(valid, gnt)
  PROVE  FP!QueueInv'
<1> DEFINE ack == argBuffValid /\ Accepted + ArgBytes(HeadReq) = TotalBytes(HeadReq)
<1>1. /\ ack \in BOOLEAN /\ (ack => HeadValid)
      /\ PortClock(ack) /\ SequencerClock
      /\ Popped' = IF ack THEN Popped + 1 ELSE Popped
  BY PortStep
<1>2. wbDone \in BOOLEAN
  BY DEF PipeInv, Handshakes
<1> HIDE DEF ack
<1>3. FP!Take(ack)
  BY <1>1, SamePush DEF FP!Take
<1>4. FP!ReportCount(wbDone)
  BY ReportedStep DEF FP!ReportCount
<1>5. FP!PortClock(ack) /\ FP!SequencerClock
  BY <1>1, SamePort, SameSequencer
<1> QED
  BY <1>1, <1>2, <1>3, <1>4, <1>5, FP!QueueNext, KindsLegal, CryptoAssumption,
     FifoAssumption, PortAssumption DEF PipeInv

(* With nothing gathered the collector is ready for any request.           *)
LEMMA EmptyCollector ==
  ASSUME IssuedShort', HeadIsNext', Accepted' = 0, Popped' \in Nat, Len(issued') \in Nat,
         argBuffValid' = FALSE,
         \A o \in Operands : bytesRead'[o] = 0 /\ argIdx'[o] = 0 /\ argFull'[o] = FALSE
  PROVE  CollectInv'
<1>1. ASSUME NEW o \in Operands PROVE Buffered(o)'
  <2>1. bytesRead'[o] = 0 /\ argIdx'[o] = 0 /\ argFull'[o] = FALSE
    OBVIOUS
  <2>2. 0 = 0 + IF VectorScalar(HeadReq', o) THEN 0 ELSE Accepted'
    OBVIOUS
  <2> QED
    BY <2>1, <2>2 DEF Buffered, VectorScalar
<1>2. ASSUME HeadValid' PROVE \E o \in OperandActive(HeadReq'.op) : ~argFull'[o]
  <2>1. HeadReq' = issued'[Popped' + 1]
    BY <1>2 DEF HeadIsNext
  <2>2. Popped' < Len(issued')
    BY <1>2 DEF HeadIsNext
  <2>3. \A p, n \in Nat : p < n => p + 1 \in 1 .. n
    OBVIOUS
  <2>4. Popped' + 1 \in 1 .. Len(issued') /\ HeadReq' = issued'[Popped' + 1]
    BY <2>1, <2>2, <2>3
  <2>5. HeadReq'.op \in CryptoOps
    BY <2>4 DEF IssuedShort, Short, LegalReq, CryptoReq
  <2>6. OperandActive(HeadReq'.op) \subseteq Operands /\ OperandActive(HeadReq'.op) # {}
    BY <2>5, OpFacts
  <2> QED
    BY <2>6
<1>3. ~(HeadValid' /\ \A o \in OperandActive(HeadReq'.op) : argFull'[o])
  BY <1>2
<1>4. (\A o \in Operands : Buffered(o))'
  BY <1>1
<1> QED
  BY <1>3, <1>4 DEF CollectInv, OperandActive

(* Complete arguments are those of one request, and leave room for the     *)
(* next when they are accepted.                                            *)
LEMMA CollectStep ==
  ASSUME PipeInv, WholeWords,
         NEW valid \in SUBSET Operands, NEW gnt \in BOOLEAN, Step(valid, gnt)
  PROVE  CollectInv' /\ argBuffValid' \in BOOLEAN /\ (ArgsReady(gnt) => ~argBuffValid')
<1> DEFINE H == HeadReq
           ack == argBuffValid /\ Accepted + ArgBytes(H) = TotalBytes(H)
           rdy == ArgsReady(gnt)
<1>1. /\ ack \in BOOLEAN /\ (ack => HeadValid)
      /\ Popped' = IF ack THEN Popped + 1 ELSE Popped
      /\ IssuedShort' /\ Len(issued') \in Nat /\ Len(issued) <= Len(issued')
      /\ \A n \in 1 .. Len(issued) : issued'[n] = issued[n]
      /\ PeReqAck(HeadValid, H) = ack /\ (ack => rdy) /\ (rdy => argBuffValid)
  BY PortStep DEF ArgsReady, ArgReady
<1>2. HeadIsNext /\ HeadIsNext'
  BY FlowStep, HeadNow, HeadNext DEF PipeInv
<1>3. Popped \in 0 .. Len(issued) /\ Len(issued) \in Nat
  BY PortFacts DEF PipeInv
<1>4. Accepted' = IF ack THEN 0
                  ELSE IF rdy THEN Accepted + ArgBytes(H) ELSE Accepted
  BY ExecStep
<1>5. CollectorClock(HeadValid, H, valid, [o \in valid |-> Word(o)], rdy)
  BY DEF Step, Cycle, UnitClock
<1>6. ASSUME NEW o \in Operands, ~(HeadValid /\ o \in OperandActive(H.op))
      PROVE  bytesRead'[o] = 0 /\ argIdx'[o] = 0 /\ argFull'[o] = FALSE
  <2>1. bytesRead[o] = 0 /\ argIdx[o] = 0 /\ ~argFull[o]
    BY <1>6 DEF PipeInv, CollectInv, Buffered
  <2>2. ~Fills(HeadValid, H, valid, rdy, o)
    BY <1>6 DEF Fills, OperandLogicEn
  <2> QED
    BY <1>5, <2>1, <2>2 DEF CollectorClock
<1>7. /\ argBuffValid' = (HeadValid /\ \A o \in OperandActive(H.op) : argFull'[o])
      /\ peReqQ' = H
  BY <1>5 DEF CollectorClock
<1>8. argBuffValid' \in BOOLEAN
  BY <1>2, <1>7 DEF HeadIsNext
<1>9. CASE ~HeadValid
  <2>1. \A o \in Operands : bytesRead'[o] = 0 /\ argIdx'[o] = 0 /\ argFull'[o] = FALSE
    BY <1>6, <1>9
  <2>2. argBuffValid' = FALSE /\ ~argBuffValid
    BY <1>7, <1>9 DEF PipeInv, CollectInv
  <2>3. Accepted' = 0
    <3>1. execReq.seq # Popped + 1
      BY <1>2, <1>3, <1>9 DEF PipeInv, ExecInv, HeadIsNext
    <3> QED
      BY <1>1, <1>4, <1>9, <2>2, <3>1 DEF Accepted
  <2>4. Popped' \in Nat
    BY <1>1, <1>3
  <2> QED
    BY <1>1, <1>2, <2>1, <2>2, <2>3, <2>4, EmptyCollector
<1>10. CASE HeadValid
  <2>1. /\ Short(H) /\ Accepted \in Nat
        /\ \E o \in OperandActive(H.op) : ~VectorScalar(H, o)
        /\ OperandActive(H.op) \subseteq Operands
    BY <1>10, AcceptedFacts, PerGroupOperand DEF PipeInv, Short
  <2>2. ArgBytes(H) \in Nat \ {0}
    BY <2>1, ReqTypes DEF Short
  <2>3. ASSUME rdy PROVE ~argBuffValid'
    <3>1. PICK o \in OperandActive(H.op) : ~VectorScalar(H, o)
      BY <2>1
    <3>2. argFull'[o] = FALSE
      BY <1>10, <2>3, <3>1, CountersStep
    <3> QED
      BY <1>7, <3>2
  <2>4. CASE ack
    <3>1. rdy
      BY <1>1, <2>4
    <3>2. ASSUME NEW o \in OperandActive(H.op)
          PROVE  bytesRead'[o] = 0 /\ argIdx'[o] = 0 /\ argFull'[o] = FALSE
      BY <1>10, <2>4, <3>1, CountersStep
    <3>3. \A o \in Operands : bytesRead'[o] = 0 /\ argIdx'[o] = 0 /\ argFull'[o] = FALSE
      BY <1>6, <3>2
    <3>4. argBuffValid' = FALSE /\ Accepted' = 0 /\ Popped' \in Nat
      BY <1>1, <1>3, <1>4, <1>8, <2>3, <2>4, <3>1
    <3> QED
      BY <1>1, <1>2, <3>3, <3>4, EmptyCollector
  <2>5. CASE ~ack
    <3>1. HeadValid' /\ HeadReq' = H
      <4>1. Popped' = Popped /\ Popped + 1 \in 1 .. Len(issued)
        BY <1>1, <1>2, <1>3, <1>10, <2>5 DEF HeadIsNext
      <4>2. HeadValid'
        <5>1. Popped' < Len(issued')
          BY <1>1, <1>3, <4>1
        <5> QED
          BY <1>2, <5>1 DEF HeadIsNext
      <4> QED
        BY <1>1, <1>2, <1>10, <4>1, <4>2 DEF HeadIsNext
    <3>2. ASSUME NEW o \in OperandActive(H.op)
          PROVE  /\ argFull'[o] \in BOOLEAN
                 /\ argIdx'[o] = IF argFull'[o] THEN ArgBytes(H) ELSE 0
                 /\ bytesRead'[o] = argIdx'[o] + IF VectorScalar(H, o) THEN 0 ELSE Accepted'
      <4>1. /\ argFull[o] \in BOOLEAN
            /\ argIdx[o] = IF argFull[o] THEN ArgBytes(H) ELSE 0
            /\ bytesRead[o] = argIdx[o] + IF VectorScalar(H, o) THEN 0 ELSE Accepted
            /\ argBuffValid => argFull[o]
        BY <1>10, <2>1 DEF PipeInv, CollectInv, Buffered
      <4> DEFINE f == Fills(HeadValid, H, valid, rdy, o)
      <4>2. /\ f => /\ ~argBuffValid /\ ~argFull[o] /\ argFull'[o] = TRUE
                    /\ argIdx'[o] = ArgBytes(H)
                    /\ bytesRead'[o] = bytesRead[o] + ArgBytes(H)
            /\ rdy => /\ ~f /\ argBuffValid
                      /\ argFull'[o] = VectorScalar(H, o)
                      /\ argIdx'[o] = IF VectorScalar(H, o) THEN argIdx[o] ELSE 0
                      /\ bytesRead'[o] = bytesRead[o]
            /\ ~f /\ ~rdy =>
                 /\ argFull'[o] = argFull[o] /\ argIdx'[o] = argIdx[o]
                 /\ bytesRead'[o] = bytesRead[o]
        <5>1. VectorScalar(H, o) \in BOOLEAN
          BY DEF VectorScalar
        <5> QED
          BY <1>10, <2>5, <5>1, CountersStep
      <4>3. VectorScalar(H, o) \in BOOLEAN
        BY DEF VectorScalar
      <4> HIDE DEF f, H, rdy
      <4>4. CASE f
        <5>1. ~rdy /\ argFull[o] = FALSE
          BY <4>1, <4>2, <4>4
        <5>2. Accepted' = Accepted
          BY <1>4, <2>5, <5>1
        <5>3. bytesRead[o] = IF VectorScalar(H, o) THEN 0 ELSE Accepted
          BY <2>1, <4>1, <5>1
        <5>4. argIdx'[o] = ArgBytes(H) /\ bytesRead'[o] = bytesRead[o] + ArgBytes(H) /\ argFull'[o] = TRUE
          BY <4>2, <4>4
        <5>5. VectorScalar(H, o) => bytesRead'[o] = ArgBytes(H) + 0
          BY <2>2, <5>3, <5>4
        <5>6. ~VectorScalar(H, o) => bytesRead'[o] = ArgBytes(H) + Accepted
          BY <2>1, <2>2, <5>3, <5>4
        <5> QED
          BY <5>2, <5>4, <5>5, <5>6
      <4>5. CASE rdy
        <5>1. Accepted' = Accepted + ArgBytes(H) /\ argFull[o]
          BY <1>4, <2>5, <4>1, <4>2, <4>5
        <5> QED
          BY <2>1, <2>2, <4>1, <4>2, <4>3, <4>5, <5>1
      <4>6. CASE ~f /\ ~rdy
        BY <1>4, <2>5, <4>1, <4>2, <4>6
      <4> QED
        BY <4>4, <4>5, <4>6
    <3>3. ASSUME NEW o \in Operands PROVE Buffered(o)'
      <4>1. VectorScalar(H, o)' = VectorScalar(H, o) /\ ArgBytes(H)' = ArgBytes(H)
        BY <3>1 DEF VectorScalar, ArgBytes, EGS
      <4>2. OperandActive(H.op)' = OperandActive(H.op)
        BY <3>1 DEF OperandActive
      <4> HIDE DEF H
      <4>3. CASE o \in OperandActive(H.op)
        <5>1. /\ argFull'[o] \in BOOLEAN
              /\ argIdx'[o] = IF argFull'[o] THEN ArgBytes(H) ELSE 0
              /\ bytesRead'[o] = argIdx'[o] + IF VectorScalar(H, o) THEN 0 ELSE Accepted'
          BY <3>2, <4>3
        <5> QED
          BY <3>1, <4>1, <4>2, <4>3, <5>1 DEF Buffered, H
      <4>4. CASE o \notin OperandActive(H.op)
        <5>1. bytesRead'[o] = 0 /\ argIdx'[o] = 0 /\ argFull'[o] = FALSE
          BY <1>6, <4>4
        <5> QED
          BY <3>1, <4>1, <4>2, <4>4, <5>1 DEF Buffered, H
      <4> QED
        BY <4>3, <4>4
    <3>4. (argBuffValid <=> HeadValid /\ \A o \in OperandActive(HeadReq.op) : argFull[o])'
      BY <1>7, <1>10, <3>1 DEF OperandActive
    <3> QED
      BY <1>7, <1>8, <2>3, <3>1, <3>3, <3>4 DEF CollectInv
  <2> QED
    BY <1>1, <2>4, <2>5
<1> QED
  BY <1>2, <1>9, <1>10

(* The handshakes stay consistent.                                         *)
LEMMA HandshakesStep ==
  ASSUME PipeInv, WholeWords,
         NEW valid \in SUBSET Operands, NEW gnt \in BOOLEAN, Step(valid, gnt)
  PROVE  Handshakes'
<1>1. /\ resultValid' \in BOOLEAN
      /\ resultValid' <=> execState' = "EXEC"
      /\ ~resultValid' <=> execState' = "IDLE"
  BY ExecStep
<1>2. argBuffValid' \in BOOLEAN
  BY CollectStep
<1>3. vrfValid' \in BOOLEAN /\ wbDone' \in BOOLEAN
  <2>1. CASE Assigns(gnt)
    BY <2>1, AssignCycle
  <2>2. CASE ~Assigns(gnt)
    BY <2>2, HoldCycle DEF PipeInv, Handshakes
  <2> QED
    BY <2>1, <2>2
<1> QED
  BY <1>1, <1>2, <1>3 DEF Handshakes

-----------------------------------------------------------------------------
(* The invariant, while the unit is in step.                               *)

(* PipeInv holds initially.                                                *)
LEMMA PipeInit == Init => PipeInv
<1> SUFFICES ASSUME Init PROVE PipeInv
  OBVIOUS
<1> USE DEF Init, PortInit, CollectorInit, ExecInit, WriteBackInit
<1>1. PortInit /\ issued = <<>> /\ fifoCnt = 0 /\ ~PeFifoPush /\ vinsnDone = {} /\ queueCnt = 0
  BY DEF FifoInit, PeFifoPush
<1>2. Popped = 0 /\ Reported = 0 /\ Len(issued) = 0 /\ HeadValid = FALSE
  BY <1>1 DEF Popped, Reported, DonePulse, HeadValid, FifoEmpty
<1>3. FP!QueueInv
  <2>1. FP!Init
    BY <1>2 DEF FP!Init, FP!PortInit, FP!FifoInit, FifoInit, FP!ResetReq, ResetReq
  <2> QED
    BY <2>1, FP!FlowInit, KindsLegal, CryptoAssumption, FifoAssumption, PortAssumption
    DEF FP!FlowInv
<1>4. IssuedShort
  BY <1>1 DEF IssuedShort
<1>5. Handshakes
  BY DEF Handshakes
<1>6. execReq.seq = 0 /\ wbWritten = 0 /\ wbIdx = 0 /\ ~resultValid
  BY DEF ResetReq
<1>7. Executed = 0
  BY <1>6 DEF Executed
<1>8. 0 \in Nat /\ wbWritten = 0 * ArgBytes(execReq)
  <2>1. ArgBytes(execReq) \in Nat
    BY ConstFacts DEF ArgBytes, ResetReq, EGS, Vsm3
  <2> QED
    BY <1>6, <2>1
<1>9. ExecInv
  BY <1>2, <1>6, <1>7, <1>8 DEF ExecInv
<1>10. CollectInv
  BY <1>2 DEF CollectInv, Buffered
<1>11. ReportInv
  BY <1>2, <1>6 DEF ReportInv, Finished
<1> QED
  BY <1>3, <1>4, <1>5, <1>9, <1>10, <1>11 DEF PipeInv

(* The history is made of requests.                                        *)
IssuedOK == issued \in Seq(CryptoReq)

(* It only grows, whatever happens.                                        *)
LEMMA IssuedInvariant == Spec => []IssuedOK
<1>1. Init => IssuedOK
  BY DEF Init, PortInit, IssuedOK
<1>2. IssuedOK /\ [Next]_vars => IssuedOK'
  <2>1. ASSUME issued \in Seq(CryptoReq), Next PROVE issued' \in Seq(CryptoReq)
    BY <2>1, IssueStep DEF Next, Cycle
  <2>2. UNCHANGED vars => issued' = issued
    BY DEF vars, portVars, seqVars
  <2> QED
    BY <2>1, <2>2 DEF IssuedOK
<1> QED
  BY <1>1, <1>2, PTL DEF Spec

(* A unit that is in step after a cycle was so before it.                  *)
LEMMA StepInStep ==
  ASSUME issued \in Seq(CryptoReq), [Next]_vars, InStep'
  PROVE  /\ InStep
         /\ UNCHANGED vars \/ \E valid \in SUBSET Operands, gnt \in BOOLEAN : Step(valid, gnt)
<1>1. CASE UNCHANGED vars
  <2>1. issued' = issued /\ overtaken' = overtaken
    BY <1>1 DEF vars, portVars, seqVars
  <2>2. \A n \in 1 .. Len(issued) : Plain(issued'[n])
    BY <2>1 DEF InStep
  <2>3. InStep
    BY <2>1, <2>2 DEF InStep
  <2> QED
    BY <1>1, <2>3
<1>2. ASSUME NEW valid \in SUBSET Operands, NEW gnt \in BOOLEAN, Cycle(valid, gnt)
      PROVE  InStep /\ Step(valid, gnt)
  <2>1. SequencerClock /\ overtaken' = (overtaken \/ Overtakes(gnt))
    BY <1>2 DEF Cycle
  <2>2. ~overtaken /\ ~Overtakes(gnt)
    BY <2>1 DEF InStep
  <2>3. \A n \in 1 .. Len(issued) : n \in 1 .. Len(issued') /\ issued'[n] = issued[n]
    <3>1. ASSUME NEW req \in CryptoReq, issued' = Append(issued, req)
          PROVE  \A n \in 1 .. Len(issued) : n \in 1 .. Len(issued') /\ issued'[n] = issued[n]
      BY <3>1
    <3> QED
      BY <2>1, <3>1, IssueStep
  <2>4. \A n \in 1 .. Len(issued') : Plain(issued'[n])
    BY DEF InStep
  <2>5. \A n \in 1 .. Len(issued) : Plain(issued[n])
    BY <2>3, <2>4
  <2> QED
    BY <1>2, <2>2, <2>5 DEF Step, InStep
<1> QED
  BY <1>1, <1>2 DEF Next

(* PipeInv is inductive as long as the unit is in step.                    *)
LEMMA PipeNext ==
  ASSUME WholeWords, PipeInv,
         UNCHANGED vars \/ \E valid \in SUBSET Operands, gnt \in BOOLEAN : Step(valid, gnt)
  PROVE  PipeInv'
<1>1. ASSUME NEW valid \in SUBSET Operands, NEW gnt \in BOOLEAN, Step(valid, gnt)
      PROVE  PipeInv'
  <2>1. FP!QueueInv'
    BY <1>1, FlowStep
  <2>2. IssuedShort'
    BY <1>1, PortStep
  <2>3. Handshakes'
    BY <1>1, HandshakesStep
  <2>4. ExecInv'
    BY <1>1, ExecStep
  <2>5. CollectInv'
    BY <1>1, CollectStep
  <2>6. ReportInv'
    BY <1>1, ReportedStep
  <2> QED
    BY <2>1, <2>2, <2>3, <2>4, <2>5, <2>6 DEF PipeInv
<1>2. ASSUME UNCHANGED vars
      PROVE  PipeInv'
  <2> USE <1>2 DEF vars, collectorVars, execVars, wbVars, portVars, laneVars, seqVars, fifoVars
  <2>1. UNCHANGED FP!flowVars
    BY DEF FP!flowVars, FP!portVars, FP!fifoVars, FP!seqVars, Popped, Reported,
           PeFifoPush, DonePulse
  <2>2. FP!QueueInv'
    BY <2>1, FP!QueueStill, KindsLegal, CryptoAssumption, FifoAssumption, PortAssumption
    DEF PipeInv
  <2>3. Popped' = Popped /\ Reported' = Reported /\ HeadValid' = HeadValid /\ HeadReq' = HeadReq
    BY DEF Popped, Reported, PeFifoPush, DonePulse, HeadValid, FifoEmpty, HeadReq, FifoHead
  <2>4. Executed' = Executed /\ Accepted' = Accepted /\ Finished' = Finished
    BY <2>3 DEF Executed, Accepted, Finished, ArgBytes, EGS
  <2>5. IssuedShort'
    BY DEF PipeInv, IssuedShort, Short, LegalReq, EGS
  <2>6. Handshakes'
    BY DEF PipeInv, Handshakes
  <2>7. ExecInv'
    BY <2>3, <2>4 DEF PipeInv, ExecInv, ArgBytes, TotalBytes, EgLen, EGS
  <2>8. CollectInv'
    BY <2>3, <2>4 DEF PipeInv, CollectInv, Buffered, ArgBytes, EGS, VectorScalar, OperandActive
  <2>9. ReportInv'
    BY <2>3, <2>4 DEF PipeInv, ReportInv
  <2> QED
    BY <2>2, <2>5, <2>6, <2>7, <2>8, <2>9 DEF PipeInv
<1> QED
  BY <1>1, <1>2

-----------------------------------------------------------------------------
(* The words of the lanes and the argument buffers.                        *)

(* place of element 0 of the request in its register group                 *)
Origin(req) == req.vstart * req.vsew

(* row of the register group that byte w of the request is in              *)
Row(req, w) ==
  (req.vstart \div ElemsPerOperand(req)) + ((VstartByte(req) + w) \div OperandBytes)

(* word of operand o that the next element group is in                     *)
NextWord(req, o) == (VstartByte(req) + bytesRead[o]) \div OperandBytes

(* No request before the head still waits for words of operand o.          *)
NoneBefore(o) ==
  \A n \in opndNext[o][1] .. Popped : o \notin OperandActive(issued[n].op)

(* The next word of operand o is the one the collector needs next, and     *)
(* none when the head request has been read.                               *)
SupplyInv(o) ==
  /\ opndNext[o] \in Nat \X Nat /\ opndNext[o][1] >= 1
  /\ IF HeadValid /\ o \in OperandActive(HeadReq.op)
     THEN IF OperandDone(HeadReq, o)
          THEN opndNext[o] = <<Popped + 2, 0>>
          ELSE /\ opndNext[o][1] <= Popped + 1 /\ NoneBefore(o)
               /\ NextWord(HeadReq, o) =
                    IF opndNext[o][1] = Popped + 1 THEN opndNext[o][2] ELSE 0
     ELSE opndNext[o][1] <= Popped + 1 /\ opndNext[o][2] = 0 /\ NoneBefore(o)

(* A full argument buffer holds the next element group of the head.        *)
ArgsInv(o) ==
  HeadValid /\ o \in OperandActive(HeadReq.op) /\ argFull[o] =>
    \A i \in 0 .. ArgBytes(HeadReq) - 1 :
      args[o][i] = <<Popped + 1, IF VectorScalar(HeadReq, o) THEN i
                                 ELSE Origin(HeadReq) + Accepted + i>>

GatherInv ==
  /\ \A o \in Operands : SupplyInv(o) /\ ArgsInv(o)
  /\ argBuffValid /\ UsesScalar(HeadReq.op) => scalarQ = Popped + 1

(* Rows and bytes in them are places in the register group.                *)
LEMMA RowFacts ==
  ASSUME WholeWords, NEW req, LegalReq(req), NEW g \in Nat
  PROVE  LET w == g * ArgBytes(req)
             at == (VstartByte(req) + w) % OperandBytes
         IN /\ Row(req, w) \in Nat
            /\ Row(req, w) * OperandBytes + at = Origin(req) + w
            /\ Row(req, w) = (req.vstart + (w \div req.vsew)) \div ElemsPerOperand(req)
            /\ req.vstart \div ElemsPerOperand(req) \in Nat
            /\ (VstartByte(req) + w) \div OperandBytes \in Nat
<1> DEFINE a == ArgBytes(req)
           m == WordGroups(req)
           e == EGS(req.op)
           j == StartGroup(req)
           s == SkipGroups(req)
           f == j \div m
           q == (s + g) \div m
           r == (s + g) % m
<1>1. /\ a \in Nat \ {0} /\ m \in Nat \ {0} /\ e \in Nat \ {0} /\ j \in Nat
      /\ s \in 0 .. m - 1 /\ req.vsew \in Nat \ {0}
      /\ OperandBytes = a * m /\ VstartByte(req) = a * s
      /\ a = e * req.vsew
      /\ ElemsPerOperand(req) = e * m /\ req.vstart = e * j
      /\ Origin(req) = a * j
  BY ReqTypes, WordFacts DEF Origin
<1>2. s = j % m
  BY DEF SkipGroups
<1>3. /\ (VstartByte(req) + g * a) % OperandBytes = a * r
      /\ (VstartByte(req) + g * a) \div OperandBytes = q
  BY GroupPlace
<1> HIDE DEF a, m, e, j, s
<1>4. f \in Nat /\ j = m * f + s
  BY <1>1, <1>2, DivModFacts
<1>5. q \in Nat /\ r \in 0 .. m - 1 /\ s + g = m * q + r
  <2>1. s + g \in Nat
    BY <1>1
  <2> QED
    BY <1>1, <2>1, DivModFacts
<1>6. req.vstart \div ElemsPerOperand(req) = f
  BY <1>1, DivModScaled
<1> HIDE DEF f, q, r
<1>7. Row(req, g * a) = f + q
  BY <1>3, <1>6 DEF Row
<1>8. (f + q) * (a * m) + a * r = a * j + g * a
  <2>1. (f + q) * (a * m) + a * r = a * (m * f + (m * q + r))
    BY <1>1, <1>4, <1>5
  <2>2. m * f + (m * q + r) = j + g
    BY <1>1, <1>4, <1>5
  <2>3. a * (j + g) = a * j + g * a
    BY <1>1
  <2> QED
    BY <2>1, <2>2, <2>3
<1>9. (g * a) \div req.vsew = g * e
  <2> DEFINE v == req.vsew
             x == g * a
             y == g * e
  <2>1. x = v * y + 0 /\ y \in Nat /\ x \in Nat /\ v \in Nat \ {0} /\ 0 \in 0 .. v - 1
    BY <1>1
  <2> HIDE DEF v, x, y
  <2>2. x \div v = y
    BY <2>1, DivModUnique
  <2> QED
    BY <2>2 DEF v, x, y
<1>10. (req.vstart + g * e) \div (e * m) = f + q
  <2>1. req.vstart + g * e = e * (j + g) /\ j + g \in Nat
    BY <1>1
  <2>2. (e * (j + g)) \div (e * m) = (j + g) \div m
    BY <1>1, <2>1, DivModScaled
  <2>3. (j + g) \div m = f + q
    <3>1. j + g = m * (f + q) + r /\ f + q \in Nat
      BY <1>1, <1>4, <1>5
    <3> QED
      BY <1>1, <1>5, <2>1, <3>1, DivModUnique
  <2> QED
    BY <2>1, <2>2, <2>3
<1>11. f + q \in Nat
  BY <1>4, <1>5
<1> QED
  BY <1>1, <1>3, <1>4, <1>5, <1>6, <1>7, <1>8, <1>9, <1>10, <1>11 DEF a

(* The element group after a group is in the same word, unless that group  *)
(* ends the word.                                                          *)
LEMMA NextGroup ==
  ASSUME WholeWords, NEW req, LegalReq(req), NEW g \in Nat
  PROVE  LET at == VstartByte(req) + g * ArgBytes(req)
             next == VstartByte(req) + (g + 1) * ArgBytes(req)
         IN next \div OperandBytes =
              IF (at % OperandBytes) + ArgBytes(req) = OperandBytes
              THEN (at \div OperandBytes) + 1 ELSE at \div OperandBytes
<1> DEFINE a == ArgBytes(req)
           m == WordGroups(req)
           s == SkipGroups(req)
           q == (s + g) \div m
           r == (s + g) % m
<1>1. /\ a \in Nat \ {0} /\ m \in Nat \ {0} /\ s \in 0 .. m - 1
      /\ OperandBytes = a * m
  BY ReqTypes, WordFacts
<1>2. /\ (VstartByte(req) + g * a) % OperandBytes = a * r
      /\ (VstartByte(req) + g * a) \div OperandBytes = q
  BY GroupPlace
<1>3. g + 1 \in Nat /\ (VstartByte(req) + (g + 1) * a) \div OperandBytes = (s + (g + 1)) \div m
  BY GroupPlace
<1> HIDE DEF a, m, s
<1>4. q \in Nat /\ r \in 0 .. m - 1 /\ s + g = m * q + r
  <2>1. s + g \in Nat
    BY <1>1
  <2> QED
    BY <1>1, <2>1, DivModFacts
<1> HIDE DEF q, r
<1>5. s + (g + 1) \in Nat
  BY <1>1
<1>6. CASE r + 1 = m
  <2>1. a * r + a = a * m
    <3>1. a * r + a = a * (r + 1)
      BY <1>1, <1>4
    <3> QED
      BY <1>6, <3>1
  <2>2. s + (g + 1) = m * (q + 1) + 0 /\ q + 1 \in Nat /\ 0 \in 0 .. m - 1
    BY <1>1, <1>4, <1>6
  <2>3. (s + (g + 1)) \div m = q + 1
    BY <1>1, <1>5, <2>2, DivModUnique
  <2> QED
    BY <1>1, <1>2, <1>3, <2>1, <2>3 DEF a
<1>7. CASE r + 1 # m
  <2>1. a * r + a # a * m
    <3>1. r + 1 < m
      BY <1>1, <1>4, <1>7
    <3>2. a * (r + 1) < a * m
      BY <1>1, <1>4, <3>1
    <3>3. a * r + a = a * (r + 1) /\ a * r \in Nat /\ a * m \in Nat
      BY <1>1, <1>4
    <3> QED
      BY <1>1, <1>4, <3>2, <3>3
  <2>2. s + (g + 1) = m * q + (r + 1) /\ r + 1 \in 0 .. m - 1
    BY <1>1, <1>4, <1>7
  <2>3. (s + (g + 1)) \div m = q
    BY <1>1, <1>4, <1>5, <2>2, DivModUnique
  <2> QED
    BY <1>1, <1>2, <1>3, <2>1, <2>3 DEF a
<1> QED
  BY <1>6, <1>7

(* The lanes fetch the words up to the one of the last element group.      *)
LEMMA WordsFacts ==
  ASSUME WholeWords, NEW req, Short(req), WordsFetched(req),
         NEW o \in OperandActive(req.op), ~VectorScalar(req, o), NEW g \in 0 .. EgLen(req) - 1
  PROVE  LET q == (VstartByte(req) + g * ArgBytes(req)) \div OperandBytes
         IN /\ Words(req, o) \in Nat
            /\ q < Words(req, o)
            /\ g + 1 = EgLen(req) => q + 1 = Words(req, o)
<1> DEFINE a == ArgBytes(req)
           m == WordGroups(req)
           e == EGS(req.op)
           s == SkipGroups(req)
           n == EgLen(req)
           w == Words(req, o)
           q == (s + g) \div m
           r == (s + g) % m
<1>1. /\ a \in Nat \ {0} /\ m \in Nat \ {0} /\ e \in Nat \ {0} /\ n \in Nat \ {0}
      /\ s \in 0 .. m - 1 /\ req.vl \in Nat \ {0}
      /\ OperandBytes = a * m /\ VstartByte(req) = a * s
      /\ ElemsPerOperand(req) = e * m /\ TotalBytes(req) = n * a
      /\ g \in Nat /\ g < n
  BY ReqTypes, WordFacts, TotalFacts DEF Short
<1>2. req.vl = e * n
  <2>1. req.vl % e = 0
    BY DEF Short, LegalReq
  <2> QED
    BY <1>1, <2>1, DivExact DEF EgLen
<1>3. (VstartByte(req) + g * a) \div OperandBytes = q
  BY <1>1, GroupPlace DEF Short
<1>4. w = (req.vl + ElemsPerOperand(req) - 1) \div ElemsPerOperand(req)
  BY DEF Words, RequestedElems
<1>5. VstartByte(req) + TotalBytes(req) <= w * OperandBytes
  BY DEF WordsFetched
<1> HIDE DEF a, m, e, s, n, w
<1>6. q \in Nat /\ r \in 0 .. m - 1 /\ s + g = m * q + r
  <2>1. s + g \in Nat
    BY <1>1
  <2> QED
    BY <1>1, <2>1, DivModFacts
<1> HIDE DEF q, r
<1> DEFINE E == e * m
           x == e * n + E - 1
<1>7. E \in Nat \ {0} /\ x \in Nat
  <2>1. \A c, d \in Nat \ {0} : c * d \in Nat \ {0}
    OBVIOUS
  <2>2. E \in Nat \ {0} /\ e * n \in Nat \ {0}
    BY <1>1, <2>1
  <2> HIDE DEF E
  <2> QED
    BY <2>2
<1>8. w \in Nat /\ E * w <= x /\ x < E * w + E
  <2>1. w = x \div E
    BY <1>1, <1>2, <1>4
  <2> HIDE DEF x, E
  <2>2. x \div E \in Nat /\ x % E \in 0 .. E - 1 /\ x = E * (x \div E) + (x % E)
    BY <1>7, DivModFacts
  <2>3. E * w \in Nat
    BY <1>7, <2>1, <2>2
  <2> QED
    BY <1>7, <2>1, <2>2, <2>3
<1>9. n <= m * w
  <2>1. e * n < e * (m * w) + 1
    <3>1. E * w = e * (m * w) /\ E * w \in Nat /\ e * n \in Nat
      BY <1>1, <1>8
    <3> HIDE DEF E
    <3> QED
      BY <1>7, <1>8, <3>1
  <2>2. SUFFICES ASSUME n > m * w PROVE FALSE
    BY <1>1, <1>8
  <2>3. m * w \in Nat /\ n >= m * w + 1
    BY <1>1, <1>8, <2>2
  <2>4. e * n >= e * (m * w) + e
    BY <1>1, <2>3
  <2>5. e * n \in Nat /\ e * (m * w) \in Nat
    BY <1>1, <2>3
  <2> QED
    BY <1>1, <2>1, <2>4, <2>5
<1>10. m * w < m + n
  <2>1. e * (m * w) < e * (n + m)
    <3>1. E * w = e * (m * w) /\ E * w \in Nat /\ e * n \in Nat /\ e * (n + m) = e * n + E
      BY <1>1, <1>8
    <3> HIDE DEF E
    <3> QED
      BY <1>7, <1>8, <3>1
  <2>2. m * w \in Nat /\ n + m \in Nat
    BY <1>1, <1>8
  <2>3. SUFFICES ASSUME m * w >= n + m PROVE FALSE
    BY <1>1, <2>2
  <2>4. e * (m * w) >= e * (n + m)
    BY <1>1, <2>2, <2>3
  <2>5. e * (n + m) \in Nat /\ e * (m * w) \in Nat
    BY <1>1, <2>2
  <2> QED
    BY <2>1, <2>4, <2>5
<1>11. s + n <= m * w
  <2>1. a * (s + n) <= a * (m * w)
    <3>1. a * s + n * a = a * (s + n) /\ w * (a * m) = a * (m * w)
      BY <1>1, <1>8
    <3> QED
      BY <1>1, <1>5, <3>1
  <2>2. s + n \in Nat /\ m * w \in Nat
    BY <1>1, <1>8
  <2>3. SUFFICES ASSUME s + n >= m * w + 1 PROVE FALSE
    BY <2>2
  <2>4. a * (s + n) >= a * (m * w) + a
    BY <1>1, <2>2, <2>3
  <2>5. a * (s + n) \in Nat /\ a * (m * w) \in Nat
    BY <1>1, <2>2
  <2> QED
    BY <1>1, <2>1, <2>4, <2>5
<1>12. q < w
  <2>1. m * q < m * w
    <3>1. m * q \in Nat /\ m * w \in Nat
      BY <1>1, <1>6, <1>8
    <3> QED
      BY <1>1, <1>6, <1>11, <3>1
  <2>2. SUFFICES ASSUME q >= w PROVE FALSE
    BY <1>6, <1>8
  <2>3. m * q >= m * w
    BY <1>1, <1>6, <1>8, <2>2
  <2>4. m * q \in Nat /\ m * w \in Nat
    BY <1>1, <1>6, <1>8
  <2> QED
    BY <2>1, <2>3, <2>4
<1>13. ASSUME g + 1 = n PROVE q + 1 = w
  <2>1. m * w < m * (q + 2)
    <3>1. m * (q + 2) = m * q + m + m /\ m * q \in Nat /\ m * w \in Nat
      BY <1>1, <1>6, <1>8
    <3> QED
      BY <1>1, <1>6, <1>10, <1>13, <3>1
  <2>2. SUFFICES ASSUME w >= q + 2 PROVE FALSE
    BY <1>6, <1>8, <1>12
  <2>3. m * w >= m * (q + 2)
    BY <1>1, <1>6, <1>8, <2>2
  <2>4. m * (q + 2) \in Nat /\ m * w \in Nat
    BY <1>1, <1>6, <1>8
  <2> QED
    BY <2>1, <2>3, <2>4
<1> QED
  BY <1>3, <1>8, <1>12, <1>13 DEF a, n, w

(* The head request, not acknowledged, stays at the head.                  *)
LEMMA HeadKept ==
  ASSUME PipeInv, WholeWords, HeadValid,
         NEW valid \in SUBSET Operands, NEW gnt \in BOOLEAN, Step(valid, gnt),
         Popped' = Popped
  PROVE  HeadValid' /\ HeadReq' = HeadReq
<1>1. /\ Len(issued') \in Nat /\ Len(issued) <= Len(issued')
      /\ \A n \in 1 .. Len(issued) : issued'[n] = issued[n]
  BY PortStep
<1>2. HeadIsNext /\ HeadIsNext'
  BY FlowStep, HeadNow, HeadNext DEF PipeInv
<1>3. Popped \in 0 .. Len(issued) /\ Len(issued) \in Nat
  BY PortFacts DEF PipeInv
<1>4. Popped + 1 \in 1 .. Len(issued)
  BY <1>2, <1>3 DEF HeadIsNext
<1>5. HeadValid'
  <2>1. Popped' < Len(issued')
    BY <1>1, <1>3, <1>4
  <2> QED
    BY <1>2, <2>1 DEF HeadIsNext
<1> QED
  BY <1>1, <1>2, <1>4, <1>5 DEF HeadIsNext

(* The word that waits for an operand of the head request is the head's    *)
(* next one.                                                               *)
LEMMA SupplyFacts ==
  ASSUME PipeInv, HeadValid, NEW o \in OperandActive(HeadReq.op), o \in Operands,
         SupplyInv(o), ~OperandDone(HeadReq, o)
  PROVE  SupplyReq(o) = HeadReq /\ SupplyWord(o) = NextWord(HeadReq, o)
<1>1. /\ Popped \in Nat /\ Len(issued) \in Nat /\ Popped + 1 \in 1 .. Len(issued)
      /\ HeadReq = issued[Popped + 1] /\ HeadReq.seq = Popped + 1
  BY PortFacts, HeadFacts, AcceptedFacts DEF PipeInv
<1>2. /\ opndNext[o][1] \in Nat /\ opndNext[o][1] <= Popped + 1 /\ NoneBefore(o)
      /\ NextWord(HeadReq, o) = IF opndNext[o][1] = Popped + 1 THEN opndNext[o][2] ELSE 0
  BY DEF SupplyInv
<1>3. Popped + 1 \in Pending(o)
  BY <1>1, <1>2 DEF Pending
<1>4. ASSUME NEW n \in Pending(o) PROVE Popped + 1 <= n
  <2>1. n \in opndNext[o][1] .. Len(issued) /\ o \in OperandActive(issued[n].op)
    BY DEF Pending
  <2>2. n \notin opndNext[o][1] .. Popped
    BY <2>1 DEF NoneBefore, SupplyInv
  <2> QED
    BY <1>1, <1>2, <2>1, <2>2
<1> DEFINE c == CHOOSE n \in Pending(o) : \A m \in Pending(o) : n <= m
<1>5. c \in Pending(o) /\ \A m \in Pending(o) : c <= m
  BY <1>3, <1>4
<1>6. c \in Nat
  BY <1>1, <1>2, <1>5 DEF Pending
<1>7. c = Popped + 1
  <2> HIDE DEF c
  <2> QED
    BY <1>1, <1>3, <1>4, <1>5, <1>6
<1>8. SupplyReq(o) = HeadReq
  BY <1>1, <1>7 DEF SupplyReq
<1> QED
  BY <1>1, <1>2, <1>8 DEF SupplyWord

(* What a word brings into an empty argument buffer.                       *)
LEMMA WordTags ==
  ASSUME WholeWords, NEW req, Short(req), WordsFetched(req),
         NEW o \in OperandActive(req.op), NEW g \in Nat,
         VectorScalar(req, o) => g = 0,
         SupplyReq(o) = req,
         SupplyWord(o) = (VstartByte(req) + g * ArgBytes(req)) \div OperandBytes,
         NEW i \in 0 .. ArgBytes(req) - 1
  PROVE  LET at == (VstartByte(req) + g * ArgBytes(req)) % OperandBytes
         IN Word(o)[at + i] =
              <<req.seq, IF VectorScalar(req, o) THEN i
                         ELSE Origin(req) + g * ArgBytes(req) + i>>
<1> DEFINE a == ArgBytes(req)
           w == g * a
           at == (VstartByte(req) + w) % OperandBytes
           q == (VstartByte(req) + w) \div OperandBytes
           f == req.vstart \div ElemsPerOperand(req)
<1>1. /\ a \in Nat \ {0} /\ OperandBytes \in Nat \ {0} /\ req.vstart \in Nat
      /\ req.vsew \in Nat
  BY ReqTypes, ConstFacts DEF Short
<1>2. at \in Nat /\ at + a <= OperandBytes
  BY GroupPlace DEF Short
<1>3. /\ q \in Nat /\ f \in Nat
      /\ (f + q) * OperandBytes + at = Origin(req) + w
  BY RowFacts DEF Row, Short
<1>4. Origin(req) \in Nat /\ w \in Nat
  BY <1>1 DEF Origin
<1> HIDE DEF a, at, q, f, w
<1>5. at + i \in 0 .. OperandBytes - 1
  BY <1>1, <1>2 DEF a
<1>6. Word(o)[at + i] = <<req.seq, (FirstRow(req, o) + q) * OperandBytes + (at + i)>>
  BY <1>5 DEF Word, q, w, a
<1>7. CASE VectorScalar(req, o)
  <2>1. VstartByte(req) = 0 /\ g = 0
    BY <1>7 DEF WordsFetched
  <2>2. VstartByte(req) + w = 0
    BY <1>1, <2>1 DEF w
  <2>3. at = 0 /\ q = 0
    BY <1>1, <2>2 DEF at, q
  <2>4. FirstRow(req, o) = 0
    BY <1>7 DEF FirstRow
  <2>5. (FirstRow(req, o) + q) * OperandBytes + (at + i) = i
    BY <1>1, <2>3, <2>4
  <2> QED
    BY <1>6, <1>7, <2>5 DEF at, w, a
<1>8. CASE ~VectorScalar(req, o)
  <2>1. FirstRow(req, o) = f
    BY <1>8 DEF FirstRow, f
  <2>2. i \in Nat
    BY <1>1 DEF a
  <2>3. (f + q) * OperandBytes \in Nat
    BY <1>1, <1>3
  <2>4. (f + q) * OperandBytes + (at + i) = Origin(req) + w + i
    BY <1>2, <1>3, <1>4, <2>2, <2>3
  <2> QED
    BY <1>6, <1>8, <2>1, <2>4 DEF at, w, a
<1> QED
  BY <1>7, <1>8

(* An operand of which nothing has been read, and no request before the    *)
(* head waits for.                                                         *)
LEMMA ClearOperand ==
  ASSUME WholeWords, IssuedShort', HeadIsNext', Popped' \in Nat, Len(issued') \in Nat,
         NEW o \in Operands, bytesRead'[o] = 0, argFull'[o] = FALSE,
         NEW x \in Nat, x >= 1, x <= Popped' + 1, opndNext'[o] = <<x, 0>>,
         \A n \in x .. Popped' : o \notin OperandActive(issued'[n].op)
  PROVE  SupplyInv(o)' /\ ArgsInv(o)'
<1>1. opndNext'[o] \in Nat \X Nat /\ opndNext'[o][1] = x /\ opndNext'[o][2] = 0
  OBVIOUS
<1>2. NoneBefore(o)'
  BY <1>1 DEF NoneBefore, OperandActive
<1>3. ASSUME HeadValid'
      PROVE  ~OperandDone(HeadReq, o)' /\ NextWord(HeadReq, o)' = 0
  <2>1. HeadReq' = issued'[Popped' + 1] /\ Popped' < Len(issued')
    BY <1>3 DEF HeadIsNext
  <2>2. \A p, n \in Nat : p < n => p + 1 \in 1 .. n
    OBVIOUS
  <2>3. Popped' + 1 \in 1 .. Len(issued')
    BY <2>1, <2>2
  <2> DEFINE H == HeadReq'
  <2>4. Short(H)
    BY <2>1, <2>3 DEF IssuedShort, Short, LegalReq, EGS
  <2> HIDE DEF H
  <2>5. TotalBytes(H) \in Nat \ {0} /\ ArgBytes(H) \in Nat \ {0} /\ LegalReq(H)
    BY <2>4, TotalFacts, ReqTypes DEF Short
  <2>6. OperandBytes \in Nat \ {0} /\ VstartByte(H) \in Nat /\ VstartByte(H) \div OperandBytes = 0
    <3>1. /\ VstartByte(H) = ArgBytes(H) * SkipGroups(H) /\ WordGroups(H) \in Nat \ {0}
          /\ SkipGroups(H) \in 0 .. WordGroups(H) - 1
          /\ OperandBytes = ArgBytes(H) * WordGroups(H)
      BY <2>5, WordFacts
    <3> DEFINE v == VstartByte(H)
               b == OperandBytes
    <3>2. b \in Nat \ {0}
      BY ConstFacts
    <3>3. v \in Nat /\ v < b
      BY <2>5, <3>1
    <3> HIDE DEF v, b
    <3>4. v = b * 0 + v /\ v \in 0 .. b - 1 /\ 0 \in Nat
      BY <3>2, <3>3
    <3>5. v \div b = 0
      BY <3>2, <3>3, <3>4, DivModUnique
    <3> QED
      BY <3>2, <3>3, <3>5 DEF v, b
  <2>7. (VstartByte(H) + 0) \div OperandBytes = 0
    BY <2>6
  <2>8. NextWord(HeadReq, o)' = (VstartByte(H) + bytesRead'[o]) \div OperandBytes
    BY DEF NextWord, VstartByte, ElemsPerOperand, H
  <2>9. OperandDone(HeadReq, o)' = (bytesRead'[o] = IF VectorScalar(H, o) THEN ArgBytes(H) ELSE TotalBytes(H))
    BY DEF OperandDone, VectorScalar, ArgBytes, TotalBytes, EgLen, EGS, H
  <2> QED
    BY <2>5, <2>7, <2>8, <2>9
<1>4. SupplyInv(o)'
  <2>1. opndNext'[o][1] \in Nat /\ opndNext'[o][1] >= 1 /\ opndNext'[o][1] <= Popped' + 1
    BY <1>1
  <2>2. CASE HeadValid'
    BY <1>1, <1>2, <1>3, <2>1, <2>2 DEF SupplyInv
  <2>3. CASE ~HeadValid'
    BY <1>1, <1>2, <2>1, <2>3 DEF SupplyInv
  <2> QED
    BY <2>2, <2>3
<1>5. ArgsInv(o)'
  BY DEF ArgsInv
<1> QED
  BY <1>4, <1>5

(* A vector-scalar operand is one word: its element group is at most half  *)
(* of an argument buffer.                                                  *)
LEMMA ScalarWords ==
  ASSUME WholeWords, NEW req, LegalReq(req), NEW o, VectorScalar(req, o)
  PROVE  Words(req, o) = 1
<1> DEFINE m == WordGroups(req)
           e == CryptoEGS_4
           c == RequestedElems(req, o)
<1>1. req.op \notin Vsm3 /\ req.op \notin Vsha2
  BY DEF VectorScalar, Vsm3, Vsha2, VaesVS
<1>2. EGS(req.op) = e /\ req.vsew = EW32 /\ ArgBytes(req) = e * EW32
  BY <1>1 DEF EGS, LegalReq, CryptoReq, ArgBytes
<1>3. e \in Nat \ {0} /\ EW32 \in Nat \ {0} /\ CryptoArgWidthBytes = 2 * (e * EW32)
      /\ CryptoArgWidthBytes \in Nat \ {0} /\ OperandBytes \in Nat \ {0} /\ CryptoEGS_8 = 2 * e
  BY ConstFacts
<1>4. m \in Nat \ {0} /\ OperandBytes = ArgBytes(req) * m /\ ElemsPerOperand(req) = e * m
  BY <1>2, WordFacts
<1>5. m >= 2
  <2> DEFINE a == e * EW32
             w == OperandBytes \div CryptoArgWidthBytes
  <2>1. OperandBytes = CryptoArgWidthBytes * w /\ w \in Nat
    BY <1>3, DivExact DEF WholeWords
  <2>2. a \in Nat \ {0} /\ CryptoArgWidthBytes = 2 * a /\ OperandBytes = a * m
    BY <1>2, <1>3, <1>4
  <2> HIDE DEF a, w, m
  <2>3. OperandBytes >= CryptoArgWidthBytes
    <3>1. w # 0
      BY <1>3, <2>1
    <3> QED
      BY <1>3, <2>1, <3>1
  <2>4. m # 1
    BY <2>2, <2>3
  <2> QED
    BY <1>4, <2>4 DEF m
<1>6. c \in {e, 2 * e}
  BY <1>3 DEF RequestedElems
<1> HIDE DEF m, c, e
<1>7. e * m >= 2 * e /\ e * m \in Nat \ {0}
  BY <1>3, <1>4, <1>5
<1> DEFINE E == e * m
<1>8. E \in Nat \ {0} /\ c \in 1 .. E
  BY <1>3, <1>6, <1>7
<1> HIDE DEF E
<1>9. (c + E - 1) \div E = 1
  <2>1. c + E - 1 = E * 1 + (c - 1) /\ c - 1 \in 0 .. E - 1 /\ c + E - 1 \in Nat /\ 1 \in Nat
    BY <1>8
  <2> QED
    BY <1>8, <2>1, DivModUnique
<1> QED
  BY <1>4, <1>9 DEF Words, E, c

(* An operand whose argument buffer is filled in this cycle.               *)
LEMMA FilledOperand ==
  ASSUME PipeInv, WholeWords, IssuedFetched, GatherInv,
         HeadValid, NEW valid \in SUBSET Operands, NEW gnt \in BOOLEAN, Step(valid, gnt),
         NEW o \in OperandActive(HeadReq.op),
         Fills(HeadValid, HeadReq, valid, ArgsReady(gnt), o)
  PROVE  SupplyInv(o)' /\ ArgsInv(o)'
<1> DEFINE H == HeadReq
           a == ArgBytes(H)
           rdy == ArgsReady(gnt)
           word == [p \in valid |-> Word(p)]
           next == NextWord(H, o)
<1>1. /\ Short(H) /\ H.seq = Popped + 1 /\ Accepted \in Nat
      /\ Accepted + a <= TotalBytes(H)
      /\ \E g \in Nat : Accepted = g * a
      /\ Popped \in Nat /\ Popped + 1 \in 1 .. Len(issued) /\ H = issued[Popped + 1]
  BY AcceptedFacts, PortFacts, HeadFacts DEF PipeInv
<1>2. /\ a \in Nat \ {0} /\ TotalBytes(H) \in Nat /\ o \in Operands /\ LegalReq(H)
      /\ a <= TotalBytes(H) /\ EgLen(H) \in Nat \ {0} /\ TotalBytes(H) = EgLen(H) * a
      /\ OperandBytes \in Nat \ {0} /\ a <= CryptoArgWidthBytes /\ CryptoArgWidthBytes \in Nat
  <2>1. /\ a \in Nat \ {0} /\ TotalBytes(H) \in Nat /\ o \in Operands /\ LegalReq(H)
        /\ a <= TotalBytes(H) /\ EgLen(H) \in Nat \ {0} /\ TotalBytes(H) = EgLen(H) * a
        /\ OperandBytes \in Nat \ {0} /\ CryptoArgWidthBytes \in Nat
        /\ \E w \in {1, 2} : CryptoArgWidthBytes = a * w
    <3>1. LegalReq(H)
      BY <1>1 DEF Short
    <3>2. o \in Operands /\ OperandBytes \in Nat \ {0} /\ CryptoArgWidthBytes \in Nat
      BY <3>1, PerGroupOperand, ConstFacts
    <3>3. a \in Nat \ {0} /\ \E w \in {1, 2} : CryptoArgWidthBytes = a * w
      BY <3>1, ReqTypes
    <3>4. /\ TotalBytes(H) \in Nat /\ a <= TotalBytes(H)
          /\ EgLen(H) \in Nat \ {0} /\ TotalBytes(H) = EgLen(H) * a
      <4>1. /\ EgLen(H) \in Nat \ {0} /\ TotalBytes(H) = EgLen(H) * ArgBytes(H)
            /\ TotalBytes(H) \in 1 .. MAXVL - 1 /\ ArgBytes(H) <= TotalBytes(H)
        BY <1>1, TotalFacts
      <4>2. MAXVL \in Nat
        BY ConstFacts
      <4> QED
        BY <4>1, <4>2
    <3> QED
      BY <3>1, <3>2, <3>3, <3>4
  <2> HIDE DEF a
  <2> QED
    BY <2>1
<1>3. WordsFetched(H)
  BY <1>1 DEF IssuedFetched
<1>4. ~argFull[o] /\ ~OperandDone(H, o) /\ o \in valid
  BY DEF Fills
<1>5. /\ ~argBuffValid /\ argFull'[o] = TRUE
      /\ bytesRead'[o] = bytesRead[o] + a
  BY CountersStep
<1>6. argIdx[o] = 0 /\ bytesRead[o] = IF VectorScalar(H, o) THEN 0 ELSE Accepted
  BY <1>1, <1>2, <1>4 DEF PipeInv, CollectInv, Buffered
<1>7. Popped' = Popped /\ Accepted' = Accepted
  <2>1. ~rdy
    BY <1>5 DEF ArgsReady, ArgReady
  <2> QED
    BY <1>5, <2>1, PortStep, ExecStep
<1>8. HeadValid' /\ HeadReq' = H
  BY <1>7, HeadKept
<1>9. PICK g \in Nat : bytesRead[o] = g * a /\ (VectorScalar(H, o) => g = 0)
  <2>1. 0 = 0 * a
    BY <1>2
  <2> QED
    BY <1>1, <1>6, <2>1
<1>10. bytesRead[o] + a <= TotalBytes(H) /\ bytesRead[o] \in Nat
  BY <1>1, <1>2, <1>6
<1>11. /\ BytesTaken(H, o) = a /\ ReadAfter(H, o) = bytesRead[o] + a
       /\ OperandByteIdx(H, o) = (VstartByte(H) + g * a) % OperandBytes
  BY <1>1, <1>6, <1>9, <1>10, FillFacts
<1>12. SupplyReq(o) = H /\ SupplyWord(o) = next /\ SupplyInv(o)
  BY <1>2, <1>4, SupplyFacts DEF GatherInv
<1>13. next = (VstartByte(H) + g * a) \div OperandBytes
  BY <1>9 DEF NextWord
<1> HIDE DEF H, a, rdy, next, word
<1>14. ASSUME NEW i \in 0 .. a - 1
       PROVE  args'[o][i] = <<Popped + 1, IF VectorScalar(H, o) THEN i
                                          ELSE Origin(H) + Accepted + i>>
  <2>1. CollectorClock(HeadValid, H, valid, word, rdy)
    BY DEF Step, Cycle, UnitClock, H, rdy, word
  <2>2. i \in 0 .. CryptoArgWidthBytes - 1 /\ i \in 0 .. (0 + a) - 1 /\ i - 0 = i
    BY <1>2
  <2>3. Fills(HeadValid, H, valid, rdy, o)
    BY DEF H, rdy
  <2>4. args'[o][i] = word[o][OperandByteIdx(H, o) + i]
    BY <1>2, <1>6, <1>11, <2>1, <2>2, <2>3 DEF CollectorClock
  <2>5. args'[o][i] = Word(o)[((VstartByte(H) + g * a) % OperandBytes) + i]
    BY <1>4, <1>11, <2>4 DEF word
  <2>6. Word(o)[((VstartByte(H) + g * a) % OperandBytes) + i] =
          <<H.seq, IF VectorScalar(H, o) THEN i ELSE Origin(H) + g * a + i>>
    BY <1>1, <1>3, <1>9, <1>12, <1>13, WordTags DEF a, H
  <2>7. ~VectorScalar(H, o) => g * a = Accepted
    BY <1>6, <1>9
  <2> QED
    BY <1>1, <2>5, <2>6, <2>7
<1>15. ArgsInv(o)'
  <2>1. /\ ArgBytes(HeadReq)' = a /\ VectorScalar(HeadReq, o)' = VectorScalar(H, o)
        /\ Origin(HeadReq)' = Origin(H)
    BY <1>8 DEF ArgBytes, EGS, VectorScalar, Origin, a
  <2> QED
    BY <1>7, <1>14, <2>1 DEF ArgsInv
<1> DEFINE pops == OperandPop(HeadValid, H, valid, rdy, o)
           last == bytesRead[o] + a = TotalBytes(H)
           ends == ((VstartByte(H) + g * a) % OperandBytes) + a = OperandBytes
<1>16. opndNext'[o] = IF ~pops THEN opndNext[o]
                      ELSE IF next + 1 < Words(H, o) THEN <<Popped + 1, next + 1>>
                      ELSE <<Popped + 2, 0>>
  <2>1. opndNext'[o] = IF ~pops THEN opndNext[o]
                       ELSE IF SupplyWord(o) + 1 < Words(SupplyReq(o), o)
                       THEN <<SupplyReq(o).seq, SupplyWord(o) + 1>>
                       ELSE <<SupplyReq(o).seq + 1, 0>>
    BY <1>2, <1>4 DEF Step, Cycle, LanesClock, H, rdy
  <2>2. H.seq + 1 = Popped + 2
    BY <1>1
  <2> QED
    BY <1>1, <1>12, <2>1, <2>2
<1>17. pops <=> ends \/ last \/ VectorScalar(H, o)
  <2>1. pops <=> \/ OperandByteIdx(H, o) + BytesTaken(H, o) = OperandBytes
                 \/ ReadAfter(H, o) = TotalBytes(H)
                 \/ VectorScalar(H, o) /\ ReadAfter(H, o) = a
    BY DEF OperandPop, H, rdy, a
  <2>2. VectorScalar(H, o) => ReadAfter(H, o) = a
    BY <1>2, <1>6, <1>11
  <2> QED
    BY <1>11, <2>1, <2>2
<1>18. next \in Nat /\ Popped \in Nat
  <2>1. (VstartByte(H) + g * a) \div OperandBytes \in Nat
    BY <1>2, RowFacts DEF a
  <2> QED
    BY <1>1, <1>13, <2>1
<1>19. OperandDone(HeadReq, o)' <=> last \/ VectorScalar(H, o)
  <2>1. OperandDone(HeadReq, o)' = (bytesRead'[o] = IF VectorScalar(H, o) THEN a ELSE TotalBytes(H))
    BY <1>8 DEF OperandDone, VectorScalar, ArgBytes, TotalBytes, EgLen, EGS, a
  <2>2. VectorScalar(H, o) => bytesRead'[o] = a
    BY <1>2, <1>5, <1>6
  <2> QED
    BY <1>5, <2>1, <2>2
<1>20. NextWord(HeadReq, o)' = (VstartByte(H) + (g + 1) * a) \div OperandBytes
  <2>1. bytesRead'[o] = (g + 1) * a
    BY <1>2, <1>5, <1>9
  <2> QED
    BY <1>8, <2>1 DEF NextWord, VstartByte, ElemsPerOperand
<1>21. NextWord(HeadReq, o)' = IF ends THEN next + 1 ELSE next
  BY <1>2, <1>13, <1>20, NextGroup DEF a
<1>22. OperandActive(HeadReq.op)' = OperandActive(H.op) /\ o \in OperandActive(H.op)
  BY <1>8 DEF OperandActive, H
<1>23. g < EgLen(H) /\ (last <=> g + 1 = EgLen(H))
  <2> DEFINE n == EgLen(H)
  <2>1. n \in Nat /\ g * a + a <= n * a /\ (last <=> g * a + a = n * a)
    BY <1>2, <1>9, <1>10
  <2> HIDE DEF n, last
  <2>2. g * a + a = (g + 1) * a /\ g + 1 \in Nat
    BY <1>2
  <2>3. g + 1 <= n
    <3> SUFFICES ASSUME g + 1 >= n + 1 PROVE FALSE
      BY <2>1, <2>2
    <3>1. (g + 1) * a >= n * a + a /\ n * a \in Nat /\ (g + 1) * a \in Nat
      BY <1>2, <2>1, <2>2
    <3> QED
      BY <1>2, <2>1, <2>2, <3>1
  <2>4. (g + 1) * a = n * a => g + 1 = n
    <3> SUFFICES ASSUME (g + 1) * a = n * a, g + 1 < n PROVE FALSE
      BY <2>1, <2>3
    <3>1. (g + 1) * a + a <= n * a /\ (g + 1) * a \in Nat
      BY <1>2, <2>1, <2>2
    <3> QED
      BY <1>2, <3>1
  <2> QED
    BY <2>1, <2>2, <2>3, <2>4 DEF n
<1> HIDE DEF pops, last, ends
<1>24. CASE last \/ VectorScalar(H, o)
  <2>1. ~(next + 1 < Words(H, o))
    <3>1. CASE VectorScalar(H, o)
      <4>1. VstartByte(H) + g * a = 0
        <5>1. VstartByte(H) = 0
          BY <1>3, <3>1 DEF WordsFetched, H
        <5>2. g = 0
          BY <1>9, <3>1
        <5>3. g * a = 0
          BY <1>2, <5>2
        <5> QED
          BY <5>1, <5>3
      <4>2. next = 0
        BY <1>2, <1>13, <4>1
      <4>3. Words(H, o) = 1
        BY <1>1, <3>1, ScalarWords DEF Short
      <4> QED
        BY <4>2, <4>3
    <3>2. CASE ~VectorScalar(H, o) /\ last
      <4>1. g \in 0 .. EgLen(H) - 1 /\ g + 1 = EgLen(H)
        BY <1>2, <1>23, <3>2
      <4>2. next + 1 = Words(H, o)
        BY <1>1, <1>3, <1>13, <1>22, <3>2, <4>1, WordsFacts DEF a
      <4>3. Words(H, o) \in Nat
        BY <1>18, <4>2
      <4> QED
        BY <4>2, <4>3
    <3> QED
      BY <1>24, <3>1, <3>2
  <2>2. opndNext'[o] = <<Popped + 2, 0>>
    BY <1>16, <1>17, <1>24, <2>1
  <2>3. Popped + 2 \in Nat /\ Popped + 2 >= 1 /\ 0 \in Nat
    BY <1>18
  <2>4. OperandDone(HeadReq, o)'
    BY <1>19, <1>24
  <2> QED
    BY <1>7, <1>8, <1>15, <1>22, <2>2, <2>3, <2>4 DEF SupplyInv, OperandActive
<1>25. CASE ~last /\ ~VectorScalar(H, o) /\ ends
  <2>1. g + 1 \in 0 .. EgLen(H) - 1
    BY <1>2, <1>23, <1>25
  <2>2. (VstartByte(H) + (g + 1) * a) \div OperandBytes < Words(H, o)
    BY <1>1, <1>3, <1>22, <1>25, <2>1, WordsFacts DEF a
  <2>3. next + 1 < Words(H, o)
    BY <1>20, <1>21, <1>25, <2>2
  <2>4. opndNext'[o] = <<Popped + 1, next + 1>>
    BY <1>16, <1>17, <1>25, <2>3
  <2>5. ~OperandDone(HeadReq, o)'
    BY <1>19, <1>25
  <2>6. NoneBefore(o)'
    <3>1. opndNext'[o][1] = Popped' + 1
      BY <1>7, <2>4
    <3> QED
      BY <1>7, <1>18, <3>1 DEF NoneBefore
  <2>7. /\ opndNext'[o] \in Nat \X Nat /\ opndNext'[o][1] = Popped + 1 /\ opndNext'[o][2] = next + 1
        /\ Popped + 1 >= 1 /\ Popped + 1 <= Popped + 1
    BY <1>18, <2>4
  <2>8. NextWord(HeadReq, o)' = next + 1
    BY <1>21, <1>25
  <2> QED
    BY <1>7, <1>8, <1>15, <1>22, <2>5, <2>6, <2>7, <2>8 DEF SupplyInv, OperandActive
<1>26. CASE ~last /\ ~VectorScalar(H, o) /\ ~ends
  <2>1. opndNext'[o] = opndNext[o] /\ NextWord(HeadReq, o)' = next
    BY <1>16, <1>17, <1>21, <1>26
  <2>2. ~OperandDone(HeadReq, o)'
    BY <1>19, <1>26
  <2>3. /\ opndNext[o] \in Nat \X Nat /\ opndNext[o][1] >= 1
        /\ opndNext[o][1] <= Popped + 1 /\ NoneBefore(o)
        /\ next = IF opndNext[o][1] = Popped + 1 THEN opndNext[o][2] ELSE 0
    BY <1>4, <1>12, <1>22 DEF SupplyInv, H, next
  <2>4. NoneBefore(o)'
    <3>1. \A n \in 1 .. Len(issued) : issued'[n] = issued[n]
      BY PortStep
    <3>2. Len(issued) \in Nat
      BY PortFacts DEF PipeInv
    <3>3. ASSUME NEW n \in opndNext[o][1] .. Popped PROVE o \notin OperandActive(issued'[n].op)
      <4>1. n \in 1 .. Len(issued)
        BY <1>1, <2>3, <3>2
      <4> QED
        BY <2>3, <3>1, <4>1 DEF NoneBefore
    <3> QED
      BY <1>7, <2>1, <3>3 DEF NoneBefore, OperandActive
  <2> QED
    BY <1>7, <1>8, <1>15, <1>22, <2>1, <2>2, <2>3, <2>4 DEF SupplyInv, OperandActive
<1> QED
  BY <1>24, <1>25, <1>26

(* An operand no word is taken for, and whose request stays at the head.   *)
LEMMA KeptOperand ==
  ASSUME PipeInv, WholeWords, GatherInv,
         HeadValid, NEW valid \in SUBSET Operands, NEW gnt \in BOOLEAN, Step(valid, gnt),
         NEW o \in Operands, Popped' = Popped,
         ~Fills(HeadValid, HeadReq, valid, ArgsReady(gnt), o)
  PROVE  SupplyInv(o)' /\ ArgsInv(o)'
<1> DEFINE H == HeadReq
           rdy == ArgsReady(gnt)
           ack == argBuffValid /\ Accepted + ArgBytes(H) = TotalBytes(H)
<1>1. HeadValid' /\ HeadReq' = H
  BY HeadKept
<1>2. ~ack /\ Popped \in Nat /\ Len(issued) \in Nat /\ Popped <= Len(issued)
      /\ \A n \in 1 .. Len(issued) : issued'[n] = issued[n]
      /\ Accepted' = IF rdy THEN Accepted + ArgBytes(H) ELSE Accepted
  <2>1. Popped \in Nat /\ Len(issued) \in Nat /\ Popped <= Len(issued)
    BY PortFacts DEF PipeInv
  <2>2. /\ Popped' = IF ack THEN Popped + 1 ELSE Popped
        /\ \A n \in 1 .. Len(issued) : issued'[n] = issued[n]
    BY PortStep
  <2>3. Accepted' = IF ack THEN 0 ELSE IF rdy THEN Accepted + ArgBytes(H) ELSE Accepted
    BY ExecStep
  <2> HIDE DEF ack
  <2>4. ~ack
    BY <2>1, <2>2
  <2> QED
    BY <2>1, <2>2, <2>3, <2>4
<1>12. ~rdy => Accepted' = Accepted
  <2>1. Accepted' = IF ack THEN 0 ELSE IF rdy THEN Accepted + ArgBytes(H) ELSE Accepted
    BY ExecStep
  <2>2. ack => rdy
    BY PortStep
  <2> HIDE DEF ack, rdy, H
  <2> QED
    BY <2>1, <2>2
<1>3. opndNext'[o] = opndNext[o]
  BY DEF Step, Cycle, LanesClock, OperandPop
<1>4. args'[o] = args[o]
  BY DEF Step, Cycle, UnitClock, CollectorClock
<1>5. o \in OperandActive(H.op) =>
        /\ bytesRead'[o] = bytesRead[o]
        /\ argFull'[o] => argFull[o] /\ (VectorScalar(H, o) \/ ~rdy)
  <2> SUFFICES ASSUME o \in OperandActive(H.op)
               PROVE  /\ bytesRead'[o] = bytesRead[o]
                      /\ argFull'[o] => argFull[o] /\ (VectorScalar(H, o) \/ ~rdy)
    OBVIOUS
  <2>1. argBuffValid => argFull[o]
    BY DEF PipeInv, CollectInv
  <2>2. VectorScalar(H, o) \in BOOLEAN
    BY DEF VectorScalar
  <2> QED
    BY <1>2, <2>1, <2>2, CountersStep
<1>6. SupplyInv(o)
  BY DEF GatherInv
<1>7. /\ opndNext[o] \in Nat \X Nat /\ opndNext[o][1] >= 1 /\ opndNext[o][1] \in Nat
  BY <1>6 DEF SupplyInv
<1>8. NoneBefore(o) => NoneBefore(o)'
  <2>1. ASSUME NEW n \in opndNext[o][1] .. Popped PROVE issued'[n] = issued[n]
    BY <1>2, <1>7
  <2> QED
    BY <1>3, <2>1 DEF NoneBefore, OperandActive
<1>9. OperandActive(HeadReq.op)' = OperandActive(H.op)
  BY <1>1 DEF OperandActive
<1>10. SupplyInv(o)'
  <2>1. CASE o \in OperandActive(H.op)
    <3>1. /\ OperandDone(HeadReq, o)' = OperandDone(H, o)
          /\ NextWord(HeadReq, o)' = NextWord(H, o)
      BY <1>1, <1>5, <2>1 DEF OperandDone, NextWord, VectorScalar, ArgBytes, TotalBytes, EgLen,
                             EGS, VstartByte, ElemsPerOperand
    <3> QED
      BY <1>1, <1>3, <1>6, <1>7, <1>8, <1>9, <2>1, <3>1 DEF SupplyInv
  <2>2. CASE o \notin OperandActive(H.op)
    BY <1>1, <1>3, <1>6, <1>7, <1>8, <1>9, <2>2 DEF SupplyInv
  <2> QED
    BY <2>1, <2>2
<1>11. ArgsInv(o)'
  <2>1. /\ ArgBytes(HeadReq)' = ArgBytes(H) /\ VectorScalar(HeadReq, o)' = VectorScalar(H, o)
        /\ Origin(HeadReq)' = Origin(H)
    BY <1>1 DEF ArgBytes, EGS, VectorScalar, Origin
  <2> HIDE DEF H
  <2>2. SUFFICES ASSUME o \in OperandActive(H.op), argFull'[o]
                 PROVE  \A i \in 0 .. ArgBytes(H) - 1 :
                          args'[o][i] = <<Popped + 1, IF VectorScalar(H, o) THEN i
                                                     ELSE Origin(H) + Accepted' + i>>
    BY <1>1, <1>9, <2>1 DEF ArgsInv, H
  <2>3. argFull[o] /\ (VectorScalar(H, o) \/ ~rdy)
    BY <1>5, <2>2
  <2>4. \A i \in 0 .. ArgBytes(H) - 1 :
          args[o][i] = <<Popped + 1, IF VectorScalar(H, o) THEN i
                                     ELSE Origin(H) + Accepted + i>>
    BY <2>2, <2>3 DEF GatherInv, ArgsInv, H
  <2>5. ~rdy => Accepted' = Accepted
    BY <1>12
  <2> QED
    BY <1>4, <2>3, <2>4, <2>5
<1> QED
  BY <1>10, <1>11

(* An operand of a request that is acknowledged, or with no request.       *)
LEMMA TakenOperand ==
  ASSUME PipeInv, WholeWords, GatherInv,
         NEW valid \in SUBSET Operands, NEW gnt \in BOOLEAN, Step(valid, gnt),
         NEW o \in Operands,
         ~HeadValid \/ Popped' # Popped
  PROVE  SupplyInv(o)' /\ ArgsInv(o)'
<1> DEFINE H == HeadReq
           ack == argBuffValid /\ Accepted + ArgBytes(H) = TotalBytes(H)
<1>1. /\ Popped \in Nat /\ Len(issued) \in Nat /\ Popped <= Len(issued)
      /\ HeadValid <=> Popped < Len(issued)
      /\ HeadValid => H = issued[Popped + 1]
  BY PortFacts, HeadFacts DEF PipeInv
<1>2. /\ \A n \in 1 .. Len(issued) : issued'[n] = issued[n]
      /\ Len(issued') \in Nat /\ IssuedShort'
      /\ Popped' = IF ack THEN Popped + 1 ELSE Popped
      /\ ack \in BOOLEAN /\ (ack => HeadValid) /\ (ack => ArgsReady(gnt))
      /\ PeReqAck(HeadValid, H) = ack
  BY PortStep
<1>3. HeadIsNext'
  BY FlowStep, HeadNext
<1>4. ack <=> HeadValid
  BY <1>1, <1>2
<1>5. ~Fills(HeadValid, H, valid, ArgsReady(gnt), o)
  <2>1. ack /\ o \in OperandActive(H.op) => OperandDone(H, o)
    BY <1>2 DEF PeReqAck
  <2> QED
    BY <1>4, <2>1 DEF Fills, OperandLogicEn
<1>6. opndNext'[o] = opndNext[o]
  BY <1>5 DEF Step, Cycle, LanesClock, OperandPop
<1> HIDE DEF ack, H
<1>7. bytesRead'[o] = 0 /\ argFull'[o] = FALSE
  <2>1. CASE HeadValid /\ o \in OperandActive(H.op)
    <3>1. ArgsReady(gnt) /\ ack
      BY <1>2, <1>4, <2>1
    <3> QED
      BY <2>1, <3>1, CountersStep DEF ack, H
  <2>2. CASE ~(HeadValid /\ o \in OperandActive(H.op))
    <3>1. bytesRead[o] = 0 /\ argFull[o] = FALSE
      BY <2>2 DEF PipeInv, CollectInv, Buffered, H
    <3> QED
      BY <1>5, <3>1 DEF Step, Cycle, UnitClock, CollectorClock, H
  <2> QED
    BY <2>1, <2>2
<1>8. SupplyInv(o)
  BY DEF GatherInv
<1>9. CASE HeadValid /\ o \in OperandActive(H.op)
  <2>1. OperandDone(H, o)
    BY <1>2, <1>4, <1>9 DEF PeReqAck
  <2>2. opndNext'[o] = <<Popped + 2, 0>> /\ Popped' = Popped + 1
    BY <1>2, <1>4, <1>6, <1>8, <1>9, <2>1 DEF SupplyInv, H
  <2>3. /\ Popped + 2 \in Nat /\ Popped + 2 >= 1 /\ Popped + 2 <= Popped' + 1 /\ Popped' \in Nat
        /\ Popped + 2 .. Popped' = {}
    BY <1>1, <2>2
  <2> QED
    BY <1>2, <1>3, <1>7, <2>2, <2>3, ClearOperand
<1>10. CASE ~(HeadValid /\ o \in OperandActive(H.op))
  <2> DEFINE x == opndNext[o][1]
  <2>1. /\ opndNext[o] \in Nat \X Nat /\ x >= 1 /\ x \in Nat
        /\ x <= Popped + 1 /\ opndNext[o][2] = 0 /\ NoneBefore(o)
    BY <1>8, <1>10 DEF SupplyInv, H
  <2>2. opndNext'[o] = <<x, 0>>
    BY <1>6, <2>1
  <2>3. Popped' \in Nat /\ x <= Popped' + 1
    BY <1>1, <1>2, <2>1
  <2>4. ASSUME NEW n \in x .. Popped' PROVE o \notin OperandActive(issued'[n].op)
    <3>1. CASE n \in x .. Popped
      <4>1. n \in 1 .. Len(issued)
        BY <1>1, <2>1, <3>1
      <4> QED
        BY <1>2, <2>1, <3>1, <4>1 DEF NoneBefore
    <3>2. CASE n \notin x .. Popped
      <4>1. n = Popped + 1 /\ ack
        BY <1>1, <1>2, <2>1, <2>4, <3>2
      <4>2. n \in 1 .. Len(issued) /\ H = issued[n]
        BY <1>1, <1>4, <4>1
      <4> QED
        BY <1>2, <1>4, <1>10, <4>1, <4>2
    <3> QED
      BY <3>1, <3>2
  <2> HIDE DEF x
  <2> QED
    BY <1>2, <1>3, <1>7, <2>1, <2>2, <2>3, <2>4, ClearOperand
<1> QED
  BY <1>9, <1>10

(* What the collector has gathered after a cycle.                          *)
LEMMA GatherStep ==
  ASSUME PipeInv, WholeWords, IssuedFetched, GatherInv,
         NEW valid \in SUBSET Operands, NEW gnt \in BOOLEAN, Step(valid, gnt)
  PROVE  GatherInv'
<1>1. ASSUME NEW o \in Operands PROVE SupplyInv(o)' /\ ArgsInv(o)'
  <2>1. CASE Fills(HeadValid, HeadReq, valid, ArgsReady(gnt), o)
    <3>1. HeadValid /\ o \in OperandActive(HeadReq.op)
      BY <2>1 DEF Fills, OperandLogicEn
    <3> QED
      BY <2>1, <3>1, FilledOperand
  <2>2. CASE ~HeadValid \/ Popped' # Popped
    BY <2>2, TakenOperand
  <2>3. CASE /\ ~Fills(HeadValid, HeadReq, valid, ArgsReady(gnt), o)
             /\ HeadValid /\ Popped' = Popped
    BY <2>3, KeptOperand
  <2> QED
    BY <2>1, <2>2, <2>3
<1>2. ASSUME argBuffValid', UsesScalar(HeadReq.op)' PROVE scalarQ' = Popped' + 1
  <2>1. CollectorClock(HeadValid, HeadReq, valid, [o \in valid |-> Word(o)], ArgsReady(gnt))
    BY DEF Step, Cycle, UnitClock
  <2>2. HeadValid /\ scalarQ' = IF UsesScalar(HeadReq.op) THEN HeadReq.seq ELSE scalarQ
    BY <1>2, <2>1 DEF CollectorClock
  <2>3. ~ArgsReady(gnt)
    BY <1>2, CollectStep
  <2>4. Popped' = Popped
    BY <2>3, PortStep
  <2>5. HeadReq' = HeadReq
    BY <2>2, <2>4, HeadKept
  <2>6. UsesScalar(HeadReq.op)
    BY <1>2, <2>5 DEF UsesScalar
  <2>7. HeadReq.seq = Popped + 1
    BY <2>2, AcceptedFacts DEF PipeInv
  <2> QED
    BY <2>2, <2>4, <2>6, <2>7
<1>3. (argBuffValid /\ UsesScalar(HeadReq.op) => scalarQ = Popped + 1)'
  BY <1>2
<1>4. (\A o \in Operands : SupplyInv(o) /\ ArgsInv(o))'
  BY <1>1
<1> QED
  BY <1>3, <1>4 DEF GatherInv
-----------------------------------------------------------------------------
(* What the collector has gathered, as an invariant.                       *)

(* Nothing has been gathered at reset.                                     *)
LEMMA GatherInit == Init => GatherInv
<1> SUFFICES ASSUME Init PROVE GatherInv
  OBVIOUS
<1>1. issued = <<>> /\ fifoCnt = 0 /\ ~PeFifoPush /\ argBuffValid = FALSE
      /\ opndNext = [o \in Operands |-> <<1, 0>>]
  BY DEF Init, PortInit, FifoInit, CollectorInit, PeFifoPush
<1>2. Popped = 0 /\ HeadValid = FALSE /\ Len(issued) = 0
  BY <1>1 DEF Popped, HeadValid, FifoEmpty
<1>4. ASSUME NEW o \in Operands PROVE SupplyInv(o) /\ ArgsInv(o)
  <2>1. opndNext[o] = <<1, 0>>
    BY <1>1
  <2>2. NoneBefore(o)
    BY <1>2, <2>1 DEF NoneBefore
  <2> QED
    BY <1>2, <2>1, <2>2 DEF SupplyInv, ArgsInv
<1> QED
  BY <1>1, <1>4 DEF GatherInv

(* Nothing the invariant speaks of changes when the unit's variables do    *)
(* not.                                                                    *)
LEMMA Unchanged ==
  ASSUME UNCHANGED vars
  PROVE  /\ Popped' = Popped /\ HeadValid' = HeadValid /\ HeadReq' = HeadReq
         /\ Accepted' = Accepted /\ issued' = issued /\ bytesRead' = bytesRead
         /\ argFull' = argFull /\ args' = args /\ argBuffValid' = argBuffValid
         /\ scalarQ' = scalarQ /\ opndNext' = opndNext /\ execReq' = execReq
         /\ resultValid' = resultValid /\ result' = result
         /\ UNCHANGED wbVars /\ vrf' = vrf
<1> USE DEF vars, collectorVars, execVars, wbVars, portVars, laneVars, seqVars, fifoVars
<1>1. Popped' = Popped /\ HeadValid' = HeadValid /\ HeadReq' = HeadReq
  BY DEF Popped, PeFifoPush, HeadValid, FifoEmpty, HeadReq, FifoHead
<1>2. Accepted' = Accepted
  BY <1>1 DEF Accepted, Executed, ArgBytes, EGS
<1> QED
  BY <1>1, <1>2

(* A cycle keeps what GatherInv says.                                      *)
LEMMA GatherNext ==
  ASSUME WholeWords, PipeInv, InStep, GatherInv,
         UNCHANGED vars \/ \E valid \in SUBSET Operands, gnt \in BOOLEAN : Step(valid, gnt)
  PROVE  GatherInv'
<1>1. ASSUME NEW valid \in SUBSET Operands, NEW gnt \in BOOLEAN, Step(valid, gnt)
      PROVE  GatherInv'
  <2>1. IssuedFetched
    BY DEF IssuedFetched, InStep, Plain
  <2> QED
    BY <1>1, <2>1, GatherStep
<1>2. ASSUME UNCHANGED vars
      PROVE  GatherInv'
  <2>2. ASSUME NEW o \in Operands PROVE SupplyInv(o)' /\ ArgsInv(o)'
    <3>1. SupplyInv(o) /\ ArgsInv(o)
      BY DEF GatherInv
    <3>2. NoneBefore(o)' = NoneBefore(o) /\ NextWord(HeadReq, o)' = NextWord(HeadReq, o)
          /\ OperandDone(HeadReq, o)' = OperandDone(HeadReq, o)
          /\ OperandActive(HeadReq.op)' = OperandActive(HeadReq.op)
      BY <1>2, Unchanged DEF NoneBefore, NextWord, OperandDone, VectorScalar, VstartByte,
            TotalBytes, ElemsPerOperand, EgLen, ArgBytes, EGS, OperandActive
    <3>3. SupplyInv(o)'
      BY <1>2, <3>1, <3>2, Unchanged DEF SupplyInv
    <3>4. ArgsInv(o)'
      BY <1>2, <3>1, <3>2, Unchanged DEF ArgsInv, Origin, ArgBytes, EGS, VectorScalar
    <3> QED
      BY <3>3, <3>4
  <2>3. (argBuffValid /\ UsesScalar(HeadReq.op) => scalarQ = Popped + 1)'
    BY <1>2, Unchanged DEF GatherInv, UsesScalar
  <2>4. (\A o \in Operands : SupplyInv(o) /\ ArgsInv(o))'
    BY <2>2
  <2> QED
    BY <2>3, <2>4 DEF GatherInv
<1> QED
  BY <1>1, <1>2

(* GatherInv holds as long as the unit is in step.                         *)
LEMMA GatherInvariant ==
  ASSUME WholeWords
  PROVE  Spec => [](InStep => PipeInv /\ GatherInv)
<1>1. Init => (InStep => PipeInv /\ GatherInv)
  BY PipeInit, GatherInit
<1>2. IssuedOK /\ (InStep => PipeInv /\ GatherInv) /\ [Next]_vars
        => (InStep => PipeInv /\ GatherInv)'
  BY StepInStep, PipeNext, GatherNext DEF IssuedOK
<1> QED
  BY <1>1, <1>2, IssuedInvariant, PTL DEF Spec

(* Whenever the collector offers arguments, all the operands the operation *)
(* reads hold the same element group of the request offered with them, and *)
(* the scalar is that request's (operand_collector.sv: arg_buff_valid_d,   *)
(* pe_req_q and scalar_q are separate registers).                          *)
THEOREM UnitArgsMatchRequest ==
  ASSUME WholeWords
  PROVE  Spec => []ArgsMatchRequest
<1>1. ASSUME PipeInv, GatherInv, argBuffValid
      PROVE  /\ \E g \in 0 .. EgLen(peReqQ) - 1 :
                  \A o \in OperandActive(peReqQ.op) : HoldsGroup(peReqQ, o, g)
             /\ UsesScalar(peReqQ.op) => scalarQ = peReqQ.seq
  <2> DEFINE H == HeadReq
             a == ArgBytes(H)
             n == EgLen(H)
  <2>1. HeadValid /\ peReqQ = H /\ \A o \in OperandActive(H.op) : argFull[o]
    BY <1>1 DEF PipeInv, CollectInv
  <2>2. Short(H) /\ H.seq = Popped + 1 /\ Accepted + a <= TotalBytes(H)
    BY <1>1, <2>1, AcceptedFacts DEF PipeInv
  <2>3. PICK g \in Nat : Accepted = g * a
    BY <1>1, <2>1, AcceptedFacts DEF PipeInv
  <2>4. a \in Nat \ {0} /\ n \in Nat \ {0} /\ TotalBytes(H) = n * a
        /\ OperandActive(H.op) \subseteq Operands
    BY <2>2, ReqTypes, TotalFacts, PerGroupOperand DEF Short
  <2> HIDE DEF a, n, H
  <2>5. g \in 0 .. n - 1
    <3>1. (g + 1) * a <= n * a
      BY <2>2, <2>3, <2>4 DEF a
    <3>2. g + 1 <= n
      BY <2>4, <3>1
    <3> QED
      BY <2>4, <3>2
  <2>6. ASSUME NEW o \in OperandActive(H.op) PROVE HoldsGroup(H, o, g)
    <3>1. ArgsInv(o)
      BY <1>1, <2>4 DEF GatherInv
    <3>2. \A i \in 0 .. a - 1 :
            args[o][i] = <<H.seq, IF VectorScalar(H, o) THEN i ELSE Origin(H) + Accepted + i>>
      BY <2>1, <2>2, <3>1 DEF ArgsInv, H, a
    <3> QED
      BY <2>3, <3>2 DEF HoldsGroup, GroupByte, Origin, a
  <2>7. UsesScalar(H.op) => scalarQ = H.seq
    BY <1>1, <2>2 DEF GatherInv, H
  <2> QED
    BY <2>1, <2>5, <2>6, <2>7 DEF n
<1>2. (InStep => PipeInv /\ GatherInv) => ArgsMatchRequest
  BY <1>1 DEF ArgsMatchRequest
<1> QED
  BY <1>2, GatherInvariant, PTL

(* A request leaves the FIFO only when every word the lanes fetch for its  *)
(* operands has been consumed (operand_collector.sv: pe_req_ack_o).        *)
THEOREM UnitAckAfterRead ==
  ASSUME WholeWords
  PROVE  Spec => []AckAfterRead
<1>1. ASSUME PipeInv, GatherInv, PeReqAck(HeadValid, HeadReq), NEW o \in OperandActive(HeadReq.op)
      PROVE  opndNext[o][1] > HeadReq.seq
  <2>1. HeadValid /\ OperandDone(HeadReq, o)
    BY <1>1 DEF PeReqAck
  <2>2. Short(HeadReq) /\ HeadReq.seq = Popped + 1 /\ Popped \in Nat
    BY <1>1, <2>1, AcceptedFacts, PortFacts DEF PipeInv
  <2>3. o \in Operands
    BY <2>2, PerGroupOperand DEF Short
  <2>4. opndNext[o] = <<Popped + 2, 0>>
    BY <1>1, <2>1, <2>3 DEF GatherInv, SupplyInv
  <2> QED
    BY <2>2, <2>4
<1>2. (InStep => PipeInv /\ GatherInv) => AckAfterRead
  BY <1>1 DEF AckAfterRead
<1> QED
  BY <1>2, GatherInvariant, PTL
-----------------------------------------------------------------------------
(* The result register.                                                    *)

(* All result bytes of the request in the execution units are assigned.    *)
Complete == execReq.seq = Popped /\ ~resultValid

(* its result bytes that have been assigned to the write buffer            *)
Assigned == IF Complete THEN TotalBytes(execReq) ELSE wbWritten

(* place, from the first result byte, of the group in the result register: *)
(* the next to assign, or the last assigned                                *)
Held == IF resultValid THEN wbWritten ELSE Assigned - ArgBytes(execReq)

ResultInv ==
  execReq.seq # 0 =>
    \A i \in 0 .. ArgBytes(execReq) - 1 :
      result[i] = <<execReq.seq, Origin(execReq) + Held + i>>

(* The result goes to the place of an operand read for every group.        *)
LEMMA DataFacts ==
  ASSUME NEW req, LegalReq(req)
  PROVE  /\ DataOperand(req.op) \in OperandActive(req.op)
         /\ ~VectorScalar(req, DataOperand(req.op))
BY ReqTypes DEF DataOperand, OperandActive, VectorScalar, CryptoOps, Operands, VaesKey, VaesVV,
                VaesVS, Vgcm, Vsha2, Vsm4, Vsm3

(* What the request in the execution units measures after a cycle.         *)
LEMMA NextReq ==
  ASSUME NEW r, execReq' = r
  PROVE  /\ ArgBytes(execReq)' = ArgBytes(r) /\ TotalBytes(execReq)' = TotalBytes(r)
         /\ Origin(execReq)' = Origin(r) /\ execReq.seq' = r.seq
BY DEF ArgBytes, TotalBytes, EgLen, EGS, Origin

(* The request in the execution units, before it is the one at the head.   *)
LEMMA ExecFacts ==
  ASSUME PipeInv
  PROVE  /\ Popped \in Nat /\ wbWritten \in Nat /\ execReq.seq \in Nat
         /\ resultValid \in BOOLEAN /\ argBuffValid \in BOOLEAN
         /\ execReq.seq # 0 =>
              /\ execReq.seq \in 1 .. Len(issued) /\ execReq = issued[execReq.seq]
              /\ Short(execReq) /\ LegalReq(execReq)
              /\ ArgBytes(execReq) \in Nat \ {0}
              /\ TotalBytes(execReq) \in Nat \ {0} /\ Origin(execReq) \in Nat
              /\ TotalBytes(execReq) = EgLen(execReq) * ArgBytes(execReq)
              /\ EgLen(execReq) \in Nat \ {0}
         /\ resultValid => /\ execReq.seq # 0
                           /\ Executed = wbWritten + ArgBytes(execReq)
         /\ \/ /\ execReq.seq = Popped
               /\ ~resultValid => wbWritten = 0
               /\ resultValid => wbWritten + ArgBytes(execReq) = TotalBytes(execReq)
            \/ /\ execReq.seq = Popped + 1
               /\ resultValid => wbWritten + ArgBytes(execReq) < TotalBytes(execReq)
<1>1. /\ Popped \in Nat /\ Len(issued) \in Nat /\ wbWritten \in Nat
      /\ execReq.seq \in 0 .. Len(issued)
      /\ resultValid \in BOOLEAN /\ argBuffValid \in BOOLEAN
      /\ execReq.seq # 0 => execReq = issued[execReq.seq]
      /\ resultValid => execReq.seq # 0
  BY PortFacts DEF PipeInv, ExecInv, Handshakes
<1>2. execReq.seq # 0 => Short(execReq)
  BY <1>1 DEF PipeInv, IssuedShort
<1>3. execReq.seq # 0 =>
        /\ LegalReq(execReq)
        /\ ArgBytes(execReq) \in Nat \ {0}
        /\ TotalBytes(execReq) \in Nat \ {0} /\ Origin(execReq) \in Nat
        /\ TotalBytes(execReq) = EgLen(execReq) * ArgBytes(execReq)
        /\ EgLen(execReq) \in Nat \ {0}
  <2> SUFFICES ASSUME execReq.seq # 0
               PROVE  /\ LegalReq(execReq)
                      /\ ArgBytes(execReq) \in Nat \ {0}
                      /\ TotalBytes(execReq) \in Nat \ {0} /\ Origin(execReq) \in Nat
                      /\ TotalBytes(execReq) = EgLen(execReq) * ArgBytes(execReq)
                      /\ EgLen(execReq) \in Nat \ {0}
    OBVIOUS
  <2>1. LegalReq(execReq)
    BY <1>2 DEF Short
  <2>2. /\ ArgBytes(execReq) \in Nat \ {0} /\ execReq.vstart \in Nat /\ execReq.vsew \in Nat
    BY <2>1, ReqTypes
  <2>3. Origin(execReq) \in Nat
    BY <2>2 DEF Origin
  <2>4. /\ EgLen(execReq) \in Nat \ {0} /\ TotalBytes(execReq) \in 1 .. MAXVL - 1
        /\ TotalBytes(execReq) = EgLen(execReq) * ArgBytes(execReq) /\ MAXVL \in Nat
    BY <1>2, TotalFacts, ConstFacts
  <2> QED
    BY <2>1, <2>2, <2>3, <2>4
<1>4. Executed = wbWritten + (IF resultValid THEN ArgBytes(execReq) ELSE 0)
  BY DEF Executed
<1>5. \/ /\ execReq.seq = Popped
         /\ Executed = IF resultValid THEN TotalBytes(execReq) ELSE 0
      \/ /\ execReq.seq = Popped + 1
         /\ Executed > 0 /\ Executed < TotalBytes(execReq)
  BY DEF PipeInv, ExecInv
<1> QED
  BY <1>1, <1>2, <1>3, <1>4, <1>5

(* The bytes assigned after a cycle: those of a result assigned in it are  *)
(* added.                                                                  *)
AssignedNext(gnt) == IF Assigns(gnt) THEN Assigned + ArgBytes(execReq) ELSE Assigned

(* A group is accepted: it is the next of the request at the head.         *)
LEMMA TakeStep ==
  ASSUME PipeInv, WholeWords,
         NEW valid \in SUBSET Operands, NEW gnt \in BOOLEAN, Step(valid, gnt), ArgsReady(gnt)
  PROVE  /\ execReq' = HeadReq /\ HeadReq.seq = Popped + 1 /\ LegalReq(HeadReq)
         /\ resultValid' = TRUE /\ wbWritten' = Accepted /\ Accepted \in Nat
         /\ resultValid => Assigns(gnt)
         /\ execReq.seq = Popped => Accepted = 0
         /\ execReq.seq # Popped => execReq = HeadReq /\ Accepted = Executed
         /\ Assigned' = Accepted
<1>1. /\ argBuffValid /\ HeadValid /\ execReq' = HeadReq /\ resultValid' = TRUE
      /\ wbWritten' = Accepted
  BY AcceptCycle
<1>2. LegalReq(HeadReq) /\ HeadReq.seq = Popped + 1 /\ Accepted \in Nat
  BY <1>1, AcceptedFacts DEF PipeInv, Short
<1>3. resultValid => Assigns(gnt)
  BY HoldCycle
<1>4. /\ Popped \in Nat /\ (execReq.seq = Popped \/ execReq.seq = Popped + 1)
      /\ execReq.seq = Popped + 1 => execReq = issued[Popped + 1]
  <2>1. Popped \in Nat /\ (execReq.seq = Popped \/ execReq.seq = Popped + 1)
    BY ExecFacts
  <2>2. execReq.seq # 0 => execReq = issued[execReq.seq]
    BY ExecFacts
  <2> QED
    BY <2>1, <2>2
<1>5. HeadReq = issued[Popped + 1]
  BY <1>1, HeadFacts DEF PipeInv
<1>6. Assigned' = wbWritten'
  BY <1>1 DEF Assigned, Complete
<1>7. Accepted = IF execReq.seq = Popped + 1 THEN Executed ELSE 0
  BY DEF Accepted
<1>8. /\ execReq.seq = Popped => Accepted = 0
      /\ execReq.seq # Popped => execReq = HeadReq /\ Accepted = Executed
  BY <1>4, <1>5, <1>7
<1> QED
  BY <1>1, <1>2, <1>3, <1>6, <1>8

(* The bytes of the group accepted.                                        *)
LEMMA TakenTags ==
  ASSUME PipeInv, WholeWords, GatherInv,
         NEW valid \in SUBSET Operands, NEW gnt \in BOOLEAN, Step(valid, gnt), ArgsReady(gnt)
  PROVE  \A i \in 0 .. ArgBytes(HeadReq) - 1 :
           result'[i] = <<Popped + 1, Origin(HeadReq) + Accepted + i>>
<1> DEFINE H == HeadReq
           d == DataOperand(H.op)
<1>1. argBuffValid /\ HeadValid /\ result' = args[d]
  BY AcceptCycle
<1>2. /\ \A o \in OperandActive(H.op) : argFull[o]
      /\ \A o \in Operands : ArgsInv(o)
  BY <1>1 DEF PipeInv, CollectInv, GatherInv
<1>3. LegalReq(H)
  BY TakeStep
<1>4. d \in OperandActive(H.op) /\ d \in Operands /\ ~VectorScalar(H, d)
  BY <1>3, DataFacts, PerGroupOperand
<1>5. \A i \in 0 .. ArgBytes(H) - 1 : args[d][i] = <<Popped + 1, Origin(H) + Accepted + i>>
  BY <1>1, <1>2, <1>4 DEF ArgsInv
<1> QED
  BY <1>1, <1>5

(* A result is assigned and no group accepted: the execution units idle.   *)
LEMMA ReleaseStep ==
  ASSUME PipeInv, WholeWords,
         NEW valid \in SUBSET Operands, NEW gnt \in BOOLEAN, Step(valid, gnt),
         Assigns(gnt), ~ArgsReady(gnt)
  PROVE  /\ Popped' = Popped /\ execReq' = execReq /\ result' = result /\ resultValid' = FALSE
         /\ Assigned = wbWritten /\ Assigned' = wbWritten + ArgBytes(execReq)
<1>1. /\ execReq' = execReq /\ result' = result /\ resultValid' = FALSE
      /\ wbWritten' = IF Executed = TotalBytes(execReq) THEN 0 ELSE Executed
  BY AssignCycle
<1>2. Popped' = Popped
  BY PortStep
<1>3. TotalBytes(execReq)' = TotalBytes(execReq)
  BY <1>1, NextReq
<1>4. Complete' <=> execReq.seq = Popped
  BY <1>1, <1>2 DEF Complete
<1>5. /\ Executed = wbWritten + ArgBytes(execReq)
      /\ execReq.seq = Popped => Executed = TotalBytes(execReq)
      /\ execReq.seq # Popped => Executed # TotalBytes(execReq)
  <2>1. resultValid
    BY DEF Assigns
  <2>2. /\ Executed = wbWritten + ArgBytes(execReq) /\ execReq.seq # 0
        /\ wbWritten \in Nat
    BY <2>1, ExecFacts
  <2>3. ArgBytes(execReq) \in Nat /\ TotalBytes(execReq) \in Nat
    BY <2>2, ExecFacts
  <2>4. \/ execReq.seq = Popped /\ wbWritten + ArgBytes(execReq) = TotalBytes(execReq)
        \/ execReq.seq # Popped /\ wbWritten + ArgBytes(execReq) < TotalBytes(execReq)
    BY <2>1, ExecFacts
  <2> QED
    BY <2>2, <2>3, <2>4
<1>6. Assigned' = IF Complete' THEN TotalBytes(execReq) ELSE wbWritten'
  BY <1>3 DEF Assigned
<1>7. Assigned = wbWritten
  BY DEF Assigned, Complete, Assigns
<1> QED
  BY <1>1, <1>2, <1>4, <1>5, <1>6, <1>7

(* Nothing is accepted and nothing is assigned.                            *)
LEMMA StillStep ==
  ASSUME PipeInv, WholeWords,
         NEW valid \in SUBSET Operands, NEW gnt \in BOOLEAN, Step(valid, gnt),
         ~Assigns(gnt), ~ArgsReady(gnt)
  PROVE  /\ Popped' = Popped /\ execReq' = execReq /\ result' = result
         /\ resultValid' = resultValid /\ wbWritten' = wbWritten
         /\ Assigned' = Assigned
<1>1. /\ execReq' = execReq /\ result' = result /\ resultValid' = resultValid
      /\ wbWritten' = wbWritten
  BY HoldCycle DEF execVars
<1>2. Popped' = Popped
  BY PortStep
<1>3. TotalBytes(execReq)' = TotalBytes(execReq)
  BY <1>1, NextReq
<1>4. Complete' = Complete
  BY <1>1, <1>2 DEF Complete
<1> QED
  BY <1>1, <1>2, <1>3, <1>4 DEF Assigned

(* What the result register holds after a cycle.                           *)
LEMMA ResultKept ==
  ASSUME PipeInv, WholeWords, GatherInv, ResultInv,
         NEW valid \in SUBSET Operands, NEW gnt \in BOOLEAN, Step(valid, gnt)
  PROVE  ResultInv'
<1>1. CASE ArgsReady(gnt)
  <2>1. /\ execReq' = HeadReq /\ HeadReq.seq = Popped + 1 /\ resultValid' = TRUE
        /\ wbWritten' = Accepted
    BY <1>1, TakeStep
  <2>2. \A i \in 0 .. ArgBytes(HeadReq) - 1 :
          result'[i] = <<Popped + 1, Origin(HeadReq) + Accepted + i>>
    BY <1>1, TakenTags
  <2>3. /\ ArgBytes(execReq)' = ArgBytes(HeadReq) /\ Origin(execReq)' = Origin(HeadReq)
    BY <2>1, NextReq
  <2>4. Held' = Accepted
    BY <2>1 DEF Held
  <2> QED
    BY <2>1, <2>2, <2>3, <2>4 DEF ResultInv
<1>2. CASE ~ArgsReady(gnt) /\ Assigns(gnt)
  <2>1. /\ execReq' = execReq /\ result' = result /\ resultValid' = FALSE
        /\ Assigned' = wbWritten + ArgBytes(execReq)
    BY <1>2, ReleaseStep
  <2>2. /\ ArgBytes(execReq)' = ArgBytes(execReq) /\ Origin(execReq)' = Origin(execReq)
    BY <2>1, NextReq
  <2>3. Held' = wbWritten /\ Held = wbWritten
    <3>1. Held' = Assigned' - ArgBytes(execReq)
      BY <2>1, <2>2 DEF Held
    <3>2. resultValid /\ wbWritten \in Nat /\ ArgBytes(execReq) \in Nat
      BY <1>2, ExecFacts DEF Assigns
    <3>3. Held = wbWritten
      BY <3>2 DEF Held
    <3> QED
      BY <2>1, <3>1, <3>2, <3>3
  <2> QED
    BY <2>1, <2>2, <2>3 DEF ResultInv
<1>3. CASE ~ArgsReady(gnt) /\ ~Assigns(gnt)
  <2>1. /\ execReq' = execReq /\ result' = result /\ resultValid' = resultValid
        /\ wbWritten' = wbWritten /\ Assigned' = Assigned
    BY <1>3, StillStep
  <2>2. /\ ArgBytes(execReq)' = ArgBytes(execReq) /\ Origin(execReq)' = Origin(execReq)
    BY <2>1, NextReq
  <2>3. Held' = Held
    BY <2>1, <2>2 DEF Held
  <2> QED
    BY <2>1, <2>2, <2>3 DEF ResultInv
<1> QED
  BY <1>1, <1>2, <1>3

(* What becomes of the bytes assigned: the request in the execution units  *)
(* stays, or it has been assigned as a whole when the next one comes.      *)
LEMMA BytesStep ==
  ASSUME PipeInv, WholeWords,
         NEW valid \in SUBSET Operands, NEW gnt \in BOOLEAN, Step(valid, gnt)
  PROVE  \/ execReq'.seq = execReq.seq + 1 /\ Assigned' = 0
         \/ execReq' = execReq /\ Assigned' = AssignedNext(gnt)
<1>1. CASE ArgsReady(gnt)
  <2>1. /\ execReq' = HeadReq /\ HeadReq.seq = Popped + 1
        /\ resultValid => Assigns(gnt)
        /\ execReq.seq = Popped => Accepted = 0
        /\ execReq.seq # Popped => execReq = HeadReq /\ Accepted = Executed
        /\ Assigned' = Accepted
    BY <1>1, TakeStep
  <2>2. CASE execReq.seq = Popped
    BY <2>1, <2>2
  <2>3. CASE execReq.seq # Popped
    <3>1. Assigned = wbWritten
      BY <2>3 DEF Assigned, Complete
    <3>2. wbWritten \in Nat
      BY ExecFacts
    <3>3. Executed = IF resultValid THEN wbWritten + ArgBytes(execReq) ELSE wbWritten
      BY <3>2 DEF Executed
    <3>4. Assigns(gnt) => resultValid
      BY DEF Assigns
    <3> QED
      BY <2>1, <2>3, <3>1, <3>3, <3>4 DEF AssignedNext
  <2> QED
    BY <2>2, <2>3
<1>2. CASE ~ArgsReady(gnt) /\ Assigns(gnt)
  BY <1>2, ReleaseStep DEF AssignedNext
<1>3. CASE ~ArgsReady(gnt) /\ ~Assigns(gnt)
  BY <1>3, StillStep DEF AssignedNext
<1> QED
  BY <1>1, <1>2, <1>3
-----------------------------------------------------------------------------
(* The write buffer and the bytes the lanes have accepted.                 *)

(* the bytes in the write buffer                                           *)
Buffer == {wbBuff[b] : b \in DOMAIN wbBuff}

(* the bytes in the write buffer the lanes have not accepted yet           *)
Waiting == IF wbDirty \/ vrfValid THEN Buffer ELSE {}

(* what is offered to the lanes belongs to the request named               *)
InPlace ==
  vrfValid =>
    \E n \in 1 .. Len(issued) :
      /\ issued[n].id = vrfId
      /\ \A b \in DOMAIN wbBuff : wbBuff[b] = <<n, vrfAddr * OperandBytes + b>>

(* A buffer being filled holds bytes of the row the next group goes to, a  *)
(* buffer offered to the lanes those of the row it is offered at.          *)
BuffInv ==
  /\ wbDirty \in BOOLEAN
  /\ ~(wbDirty /\ vrfValid)
  /\ wbDone => vrfValid
  /\ wbDirty =>
       /\ execReq.seq # 0 /\ ~Complete
       /\ \A b \in DOMAIN wbBuff :
            wbBuff[b] = <<execReq.seq, VrfAddress(execReq) * OperandBytes + b>>
  /\ InPlace

(* the bytes of the result being assigned                                  *)
NewBytes == {<<execReq.seq, Origin(execReq) + wbWritten + i>> : i \in 0 .. ArgBytes(execReq) - 1}

(* Where a result goes: its bytes join those of their row.                 *)
LEMMA AssignStep ==
  ASSUME PipeInv, WholeWords, GatherInv, ResultInv, BuffInv,
         NEW valid \in SUBSET Operands, NEW gnt \in BOOLEAN, Step(valid, gnt), Assigns(gnt)
  PROVE  /\ vrfValid => gnt
         /\ wbDirty' = ~Flush(execReq) /\ vrfValid' = Flush(execReq)
         /\ Flush(execReq) \in BOOLEAN
         /\ wbDone' => vrfValid'
         /\ vrfValid' => vrfId' = execReq.id /\ vrfAddr' = VrfAddress(execReq)
         /\ \A b \in DOMAIN wbBuff' :
              wbBuff'[b] = <<execReq.seq, VrfAddress(execReq) * OperandBytes + b>>
         /\ ~Flush(execReq) =>
              /\ execReq.seq = Popped + 1 /\ execReq' = execReq
              /\ execReq.seq = Popped' => resultValid'
              /\ VrfAddress(execReq)' = VrfAddress(execReq)
         /\ Buffer' = NewBytes \cup IF wbDirty THEN Buffer ELSE {}
<1> DEFINE r == execReq
           a == ArgBytes(r)
           lo == WriteLo(r)
           row == VrfAddress(r)
           base == Origin(r) + wbWritten
<1>0. resultValid
  BY DEF Assigns
<1>1. /\ r.seq # 0 /\ Short(r) /\ LegalReq(r) /\ wbWritten \in Nat /\ a \in Nat \ {0}
      /\ Origin(r) \in Nat
      /\ Executed = wbWritten + a
      /\ r.seq = Popped => wbWritten + a = TotalBytes(r)
      /\ r.seq # Popped => r.seq = Popped + 1
  <2>1. /\ r.seq # 0 /\ wbWritten \in Nat
        /\ Executed = wbWritten + a
    BY <1>0, ExecFacts
  <2>2. Short(r) /\ LegalReq(r) /\ a \in Nat \ {0} /\ Origin(r) \in Nat
    BY <2>1, ExecFacts
  <2>3. \/ r.seq = Popped /\ wbWritten + a = TotalBytes(r)
        \/ r.seq = Popped + 1
    BY <1>0, ExecFacts
  <2>4. Popped \in Nat
    BY ExecFacts
  <2> QED
    BY <2>1, <2>2, <2>3, <2>4
<1>2. /\ AssignResult(resultValid, r, result, gnt)
      /\ WriteBackEn(resultValid, r, gnt)
      /\ AssignedBytes(r) = a
      /\ wbWritten' = IF Executed = TotalBytes(r) THEN 0 ELSE Executed
  BY AssignCycle
<1>3. PICK g \in Nat : wbWritten = g * a
  BY DEF PipeInv, ExecInv
<1>4. /\ lo = (VstartByte(r) + g * a) % OperandBytes
      /\ lo \in Nat /\ WriteHi(r) = lo + a /\ wbIdx = 0
  BY <1>1, <1>3, AssignFacts DEF PipeInv, ExecInv
<1>5. /\ row \in Nat /\ row = Row(r, g * a) /\ row * OperandBytes + lo = base
      /\ OperandBytes \in Nat \ {0}
  <2>1. /\ Row(r, g * a) \in Nat
        /\ Row(r, g * a) * OperandBytes + ((VstartByte(r) + g * a) % OperandBytes) = Origin(r) + g * a
        /\ Row(r, g * a) = (r.vstart + ((g * a) \div r.vsew)) \div ElemsPerOperand(r)
    BY <1>1, RowFacts
  <2>2. row = Row(r, g * a)
    BY <1>3, <2>1 DEF VrfAddress
  <2> HIDE DEF a, row
  <2> QED
    BY <1>3, <1>4, <2>1, <2>2, ConstFacts
<1>6. Flush(r) \in BOOLEAN /\ (LastBytes(r) <=> wbWritten + a = TotalBytes(r))
  BY <1>2 DEF Flush, LastBytes
<1>7. /\ wbDirty' = ~Flush(r) /\ vrfValid' = Flush(r)
      /\ vrfValid => gnt
      /\ vrfValid' => vrfId' = r.id /\ vrfAddr' = row
      /\ wbDone' => vrfValid'
      /\ wbBuff' = BuffAfter(r, result)
  BY <1>2 DEF AssignResult, WriteBackEn, Flush
<1> DEFINE new == lo .. lo + a - 1
           kept == IF wbDirty THEN DOMAIN wbBuff ELSE {}
<1>8. /\ DOMAIN wbBuff' = new \cup kept
      /\ \A b \in new : wbBuff'[b] = result[b - lo]
      /\ \A b \in kept \ new : wbBuff'[b] = wbBuff[b]
  <2>1. wbBuff' = [b \in new \cup kept |-> IF b \in new THEN result[b - lo + wbIdx] ELSE wbBuff[b]]
    <3>1. WriteLo(r) .. WriteHi(r) - 1 = new
      <4>1. WriteHi(r) - 1 = lo + a - 1
        BY <1>1, <1>4
      <4> QED
        BY <4>1, Zenon
    <3>2. BuffAfter(r, result) =
            [b \in (WriteLo(r) .. WriteHi(r) - 1) \cup kept |->
               IF b \in WriteLo(r) .. WriteHi(r) - 1 THEN result[b - lo + wbIdx] ELSE wbBuff[b]]
      BY Zenon DEF BuffAfter
    <3> QED
      BY <1>7, <3>1, <3>2, Zenon
  <2> HIDE DEF new, kept
  <2>2. ASSUME NEW b \in new PROVE b - lo + wbIdx = b - lo
    BY <1>1, <1>4, <2>2 DEF new
  <2> QED
    BY <2>1, <2>2
<1>9. \A i \in 0 .. a - 1 : result[i] = <<r.seq, base + i>>
  <2>1. Held = wbWritten
    BY <1>0 DEF Held
  <2> QED
    BY <1>1, <2>1 DEF ResultInv
<1>10. \A b \in kept : wbBuff[b] = <<r.seq, row * OperandBytes + b>>
  BY DEF BuffInv
<1> HIDE DEF r, a, lo, row, base, kept
<1>11. ASSUME NEW b \in new
       PROVE  /\ b - lo \in 0 .. a - 1 /\ wbBuff'[b] = <<r.seq, base + (b - lo)>>
              /\ wbBuff'[b] = <<r.seq, row * OperandBytes + b>>
  <2>1. b - lo \in 0 .. a - 1 /\ b \in Nat
    BY <1>1, <1>4
  <2>2. wbBuff'[b] = <<r.seq, base + (b - lo)>>
    BY <1>8, <1>9, <2>1
  <2>3. row * OperandBytes \in Nat
    BY <1>5
  <2>4. base + (b - lo) = row * OperandBytes + b
    BY <1>4, <1>5, <2>1, <2>3
  <2> QED
    BY <2>1, <2>2, <2>4
<1>12. \A b \in DOMAIN wbBuff' : wbBuff'[b] = <<r.seq, row * OperandBytes + b>>
  <2> HIDE DEF new
  <2> QED
    BY <1>8, <1>10, <1>11
<1>13. Buffer' = NewBytes \cup IF wbDirty THEN Buffer ELSE {}
  <2>1. NewBytes = {<<r.seq, base + i>> : i \in 0 .. a - 1}
    BY DEF NewBytes, r, base, a
  <2>2. Buffer' = {wbBuff'[b] : b \in DOMAIN wbBuff'}
    BY DEF Buffer
  <2>3. ASSUME NEW i \in 0 .. a - 1 PROVE lo + i \in new /\ (lo + i) - lo = i
    BY <1>1, <1>4
  <2> HIDE DEF new
  <2>4. NewBytes \subseteq Buffer'
    <3> SUFFICES ASSUME NEW i \in 0 .. a - 1 PROVE <<r.seq, base + i>> \in Buffer'
      BY <2>1
    <3> QED
      BY <1>8, <1>11, <2>2, <2>3
  <2>5. ASSUME wbDirty, NEW b \in DOMAIN wbBuff PROVE wbBuff[b] \in Buffer'
    <3>1. b \in kept
      BY <2>5 DEF kept
    <3>2. wbBuff[b] = wbBuff'[b] /\ b \in DOMAIN wbBuff'
      BY <1>8, <1>10, <1>12, <3>1
    <3> QED
      BY <2>2, <3>2
  <2>6. ASSUME NEW b \in DOMAIN wbBuff'
        PROVE  wbBuff'[b] \in NewBytes \cup IF wbDirty THEN Buffer ELSE {}
    <3>1. CASE b \in new
      BY <1>11, <2>1, <3>1
    <3>2. CASE b \notin new
      BY <1>8, <3>2 DEF kept, Buffer
    <3> QED
      BY <3>1, <3>2
  <2> QED
    BY <2>2, <2>4, <2>5, <2>6 DEF Buffer
<1>14. ASSUME ~Flush(r)
       PROVE  /\ r.seq = Popped + 1 /\ execReq' = r
              /\ r.seq = Popped' => resultValid'
              /\ VrfAddress(execReq)' = row
  <2>1. wbWritten + a # TotalBytes(r) /\ lo + a # OperandBytes
    BY <1>4, <1>6, <1>14 DEF Flush
  <2>2. r.seq = Popped + 1 /\ r.seq # Popped
    <3>1. Popped \in Nat
      BY ExecFacts
    <3> QED
      BY <1>1, <2>1, <3>1
  <2>8. execReq' = r /\ (r.seq = Popped' => resultValid')
    <3>1. CASE ArgsReady(gnt)
      BY <2>2, <3>1, TakeStep DEF r
    <3>2. CASE ~ArgsReady(gnt)
      <4>1. execReq' = r /\ Popped' = Popped
        BY <3>2, ReleaseStep DEF r
      <4> QED
        BY <2>2, <4>1
    <3> QED
      BY <3>1, <3>2
  <2>3. wbWritten' = (g + 1) * a
    <3>1. wbWritten' = wbWritten + a
      BY <1>1, <1>2, <2>1
    <3> QED
      BY <1>1, <1>3, <3>1
  <2>4. VrfAddress(execReq)' = (r.vstart + (((g + 1) * a) \div r.vsew)) \div ElemsPerOperand(r)
    BY <2>8, <2>3 DEF VrfAddress, ElemsPerOperand, r
  <2>5. g + 1 \in Nat /\ Row(r, (g + 1) * a) = (r.vstart + (((g + 1) * a) \div r.vsew)) \div ElemsPerOperand(r)
    BY <1>1, RowFacts DEF a
  <2>6. (VstartByte(r) + (g + 1) * a) \div OperandBytes = (VstartByte(r) + g * a) \div OperandBytes
    BY <1>1, <1>4, <2>1, NextGroup DEF a
  <2>7. Row(r, (g + 1) * a) = Row(r, g * a)
    BY <2>6 DEF Row
  <2> QED
    BY <1>5, <2>2, <2>4, <2>5, <2>7, <2>8
<1> QED
  BY <1>1, <1>6, <1>7, <1>12, <1>13, <1>14 DEF r, row

(* The write buffer when no result is assigned: a write may be granted.    *)
LEMMA GrantStep ==
  ASSUME PipeInv, BuffInv,
         NEW valid \in SUBSET Operands, NEW gnt \in BOOLEAN, Step(valid, gnt), ~Assigns(gnt)
  PROVE  /\ UNCHANGED <<wbWritten, wbBuff, wbDirty, vrfId, vrfAddr>>
         /\ wbDone' = FALSE /\ vrfValid' = (vrfValid /\ ~gnt)
         /\ Buffer' = Buffer
         /\ vrf' \cup Waiting' = vrf \cup Waiting
         /\ Waiting \cap vrf = {} => Waiting' \cap vrf' = {}
<1>1. /\ UNCHANGED <<wbWritten, wbBuff, wbDirty, vrfId, vrfAddr>>
      /\ wbDone' = FALSE /\ vrfValid' = (vrfValid /\ ~gnt)
  BY HoldCycle DEF NoAssign
<1>2. vrf' = IF vrfValid /\ gnt THEN vrf \cup Buffer ELSE vrf
  BY DEF Step, Cycle, LanesClock, Buffer
<1>3. Buffer' = Buffer
  BY <1>1 DEF Buffer
<1>4. vrfValid \in BOOLEAN /\ wbDirty \in BOOLEAN /\ ~(wbDirty /\ vrfValid)
  BY DEF PipeInv, Handshakes, BuffInv
<1>5. Waiting' = IF wbDirty \/ (vrfValid /\ ~gnt) THEN Buffer ELSE {}
  BY <1>1, <1>3 DEF Waiting
<1> QED
  BY <1>1, <1>2, <1>3, <1>4, <1>5 DEF Waiting
(* What the write buffer holds after a cycle.                              *)
LEMMA BuffKept ==
  ASSUME PipeInv, WholeWords, GatherInv, ResultInv, BuffInv,
         NEW valid \in SUBSET Operands, NEW gnt \in BOOLEAN, Step(valid, gnt)
  PROVE  BuffInv'
<1>0. /\ Len(issued') \in Nat /\ Len(issued) <= Len(issued') /\ Len(issued) \in Nat
      /\ \A n \in 1 .. Len(issued) : issued'[n] = issued[n]
  BY PortStep, PortFacts DEF PipeInv
<1>1. CASE Assigns(gnt)
  <2> DEFINE row == VrfAddress(execReq)
  <2>1. /\ wbDirty' = ~Flush(execReq) /\ vrfValid' = Flush(execReq)
        /\ Flush(execReq) \in BOOLEAN
        /\ wbDone' => vrfValid'
        /\ vrfValid' => vrfId' = execReq.id /\ vrfAddr' = row
        /\ \A b \in DOMAIN wbBuff' :
             wbBuff'[b] = <<execReq.seq, row * OperandBytes + b>>
        /\ ~Flush(execReq) =>
             /\ execReq' = execReq /\ VrfAddress(execReq)' = row
             /\ execReq.seq = Popped' => resultValid'
    BY <1>1, AssignStep
  <2>2. /\ execReq.seq \in 1 .. Len(issued) /\ execReq = issued[execReq.seq]
        /\ Popped \in Nat /\ execReq.seq # 0
    BY <1>1, ExecFacts DEF Assigns
  <2> HIDE DEF row
  <2>4. ASSUME vrfValid'
        PROVE  \E n \in 1 .. Len(issued') :
                 /\ issued'[n].id = vrfId'
                 /\ \A b \in DOMAIN wbBuff' : wbBuff'[b] = <<n, vrfAddr' * OperandBytes + b>>
    <3>1. execReq.seq \in 1 .. Len(issued') /\ issued'[execReq.seq] = execReq
      BY <1>0, <2>2
    <3> QED
      BY <2>1, <2>4, <3>1
  <2>5. ~Flush(execReq) => ~Complete'
    BY <2>1 DEF Complete
  <2>6. ~Flush(execReq) =>
          \A b \in DOMAIN wbBuff' :
            wbBuff'[b] = <<execReq'.seq, VrfAddress(execReq)' * OperandBytes + b>>
    BY <2>1
  <2> QED
    BY <2>1, <2>2, <2>4, <2>5, <2>6 DEF BuffInv, InPlace
<1>2. CASE ~Assigns(gnt)
  <2>1. /\ wbWritten' = wbWritten /\ wbBuff' = wbBuff /\ wbDirty' = wbDirty
        /\ vrfId' = vrfId /\ vrfAddr' = vrfAddr
        /\ wbDone' = FALSE /\ vrfValid' = (vrfValid /\ ~gnt)
    BY <1>2, GrantStep
  <2>2. /\ wbDirty \in BOOLEAN /\ ~(wbDirty /\ vrfValid) /\ vrfValid \in BOOLEAN
        /\ InPlace
    BY DEF BuffInv, PipeInv, Handshakes
  <2>3. InPlace'
    <3> SUFFICES ASSUME vrfValid'
                 PROVE  \E n \in 1 .. Len(issued') :
                          /\ issued'[n].id = vrfId
                          /\ \A b \in DOMAIN wbBuff : wbBuff[b] = <<n, vrfAddr * OperandBytes + b>>
      BY <2>1 DEF InPlace
    <3>1. PICK n \in 1 .. Len(issued) :
            /\ issued[n].id = vrfId
            /\ \A b \in DOMAIN wbBuff : wbBuff[b] = <<n, vrfAddr * OperandBytes + b>>
      BY <2>1, <2>2 DEF InPlace
    <3>2. n \in 1 .. Len(issued') /\ issued'[n] = issued[n]
      BY <1>0
    <3> QED
      BY <3>1, <3>2
  <2>4. ASSUME wbDirty
        PROVE  /\ execReq' = execReq /\ execReq.seq # 0 /\ ~Complete'
               /\ VrfAddress(execReq)' = VrfAddress(execReq)
    <3>1. execReq.seq # 0 /\ ~Complete
      BY <2>4 DEF BuffInv
    <3>2. execReq' = execReq /\ ~Complete'
      <4>1. CASE ArgsReady(gnt)
        <5>1. resultValid' = TRUE /\ (resultValid => Assigns(gnt))
          BY <4>1, TakeStep
        <5>2. execReq.seq # Popped
          BY <1>2, <3>1, <5>1, ExecFacts DEF Complete
        <5>3. execReq' = execReq
          BY <4>1, <5>2, TakeStep
        <5> QED
          BY <5>1, <5>3 DEF Complete
      <4>2. CASE ~ArgsReady(gnt)
        <5>1. Popped' = Popped /\ execReq' = execReq /\ resultValid' = resultValid
          BY <1>2, <4>2, StillStep
        <5> QED
          BY <3>1, <5>1 DEF Complete
      <4> QED
        BY <4>1, <4>2
    <3> QED
      BY <2>1, <3>1, <3>2 DEF VrfAddress, ElemsPerOperand
  <2>5. wbDirty =>
          \A b \in DOMAIN wbBuff :
            wbBuff[b] = <<execReq.seq, VrfAddress(execReq) * OperandBytes + b>>
    BY DEF BuffInv
  <2> QED
    BY <2>1, <2>2, <2>3, <2>4, <2>5 DEF BuffInv
<1> QED
  BY <1>1, <1>2

(* The set all holds w bytes of request r, from its first one, and no byte *)
(* of a later place or a later request.                                    *)
UpTo(all, r, w) ==
  /\ \A t \in all :
       /\ t \in Nat \X Nat /\ t[1] \in 1 .. r.seq
       /\ t[1] = r.seq => t[2] < Origin(r) + w
  /\ r.seq # 0 => \A p \in 0 .. w - 1 : <<r.seq, Origin(r) + p>> \in all

(* The bytes accepted by the lanes and the bytes waiting are, without      *)
(* repetition, the bytes assigned so far.                                  *)
VrfInv ==
  /\ UpTo(vrf \cup Waiting, execReq, Assigned)
  /\ Waiting \cap vrf = {}

(* What write back and the lanes do to these bytes.                        *)
LEMMA VrfStep ==
  ASSUME PipeInv, WholeWords, GatherInv, ResultInv, BuffInv, VrfInv,
         NEW valid \in SUBSET Operands, NEW gnt \in BOOLEAN, Step(valid, gnt)
  PROVE  UpTo(vrf' \cup Waiting', execReq, AssignedNext(gnt)) /\ Waiting' \cap vrf' = {}
<1> DEFINE r == execReq
           base == Origin(r)
           all == vrf \cup Waiting
<1>1. CASE Assigns(gnt)
  <2> DEFINE a == ArgBytes(r)
  <2>0. resultValid
    BY <1>1 DEF Assigns
  <2>1. /\ r.seq \in Nat /\ r.seq # 0 /\ wbWritten \in Nat /\ a \in Nat \ {0} /\ base \in Nat
    <3>1. r.seq \in Nat /\ r.seq # 0 /\ wbWritten \in Nat
      BY <2>0, ExecFacts
    <3> QED
      BY <3>1, ExecFacts
  <2>2. Assigned = wbWritten /\ AssignedNext(gnt) = wbWritten + a
    BY <1>1, <2>0 DEF Assigned, Complete, AssignedNext
  <2>5. /\ vrfValid => gnt
        /\ wbDirty' \/ vrfValid'
        /\ Buffer' = NewBytes \cup IF wbDirty THEN Buffer ELSE {}
    BY <1>1, AssignStep
  <2>6. vrf' = IF vrfValid THEN vrf \cup Buffer ELSE vrf
    BY <2>5 DEF Step, Cycle, LanesClock, Buffer
  <2>7. Waiting' = Buffer'
    BY <2>5 DEF Waiting
  <2>8. wbDirty \in BOOLEAN /\ vrfValid \in BOOLEAN /\ ~(wbDirty /\ vrfValid)
    BY DEF BuffInv, PipeInv, Handshakes
  <2>9. NewBytes = {<<r.seq, base + wbWritten + i>> : i \in 0 .. a - 1}
    BY DEF NewBytes
  <2>10. \A t \in all : /\ t \in Nat \X Nat /\ t[1] \in 1 .. r.seq
                        /\ t[1] = r.seq => t[2] < base + wbWritten
    BY <2>2 DEF VrfInv, UpTo
  <2>11. Waiting \cap vrf = {}
    BY DEF VrfInv
  <2>12. \A p \in 0 .. wbWritten - 1 : <<r.seq, base + p>> \in all
    BY <2>1, <2>2 DEF VrfInv, UpTo
  <2>13. Waiting = IF wbDirty \/ vrfValid THEN Buffer ELSE {}
    BY DEF Waiting
  <2> HIDE DEF r, base, a
  <2>14. ASSUME NEW t \in NewBytes
         PROVE  /\ t \in Nat \X Nat /\ t[1] = r.seq /\ t[2] >= base + wbWritten
                /\ t[2] < base + (wbWritten + a) /\ t \notin all
    <3>1. PICK i \in 0 .. a - 1 : t = <<r.seq, base + wbWritten + i>>
      BY <2>9
    <3>2. /\ base + wbWritten + i \in Nat /\ base + wbWritten + i >= base + wbWritten
          /\ base + wbWritten + i < base + (wbWritten + a)
      BY <2>1
    <3>3. t \in Nat \X Nat /\ t[1] = r.seq /\ t[2] = base + wbWritten + i
      BY <2>1, <3>1, <3>2
    <3>4. ~(t[2] < base + wbWritten)
      BY <2>1, <3>2, <3>3
    <3> QED
      BY <2>10, <3>2, <3>3, <3>4
  <2>15. vrf' \cup Waiting' = all \cup NewBytes
    BY <2>5, <2>6, <2>7, <2>8, <2>13
  <2>16. Waiting' \cap vrf' = {}
    BY <2>5, <2>6, <2>7, <2>8, <2>11, <2>13, <2>14
  <2> HIDE DEF all
  <2>17. ASSUME NEW t \in vrf' \cup Waiting'
         PROVE  /\ t \in Nat \X Nat /\ t[1] \in 1 .. r.seq
                /\ t[1] = r.seq => t[2] < base + (wbWritten + a)
    <3>1. CASE t \in all
      <4>1. t[2] \in Nat /\ t[1] = r.seq => t[2] < base + (wbWritten + a)
        <5>1. t[2] \in Nat /\ t[1] = r.seq => t[2] < base + wbWritten
          BY <2>10, <3>1
        <5>2. base + wbWritten < base + (wbWritten + a) /\ base + wbWritten \in Nat
              /\ base + (wbWritten + a) \in Nat
          BY <2>1
        <5> QED
          BY <5>1, <5>2
      <4> QED
        BY <2>10, <3>1, <4>1
    <3>2. CASE t \in NewBytes
      BY <2>1, <2>14, <3>2
    <3> QED
      BY <2>15, <3>1, <3>2
  <2>18. ASSUME NEW p \in 0 .. (wbWritten + a) - 1
         PROVE  <<r.seq, base + p>> \in vrf' \cup Waiting'
    <3>1. CASE p \in 0 .. wbWritten - 1
      BY <2>12, <2>15, <3>1
    <3>2. CASE p \notin 0 .. wbWritten - 1
      <4>1. p - wbWritten \in 0 .. a - 1 /\ base + wbWritten + (p - wbWritten) = base + p
        BY <2>1, <3>2
      <4>2. <<r.seq, base + p>> \in NewBytes
        BY <2>9, <4>1
      <4> QED
        BY <2>15, <4>2
    <3> QED
      BY <3>1, <3>2
  <2> QED
    BY <2>2, <2>16, <2>17, <2>18 DEF UpTo, r, base
<1>2. CASE ~Assigns(gnt)
  <2>1. vrf' \cup Waiting' = all /\ Waiting' \cap vrf' = {}
    BY <1>2, GrantStep DEF VrfInv
  <2>2. AssignedNext(gnt) = Assigned
    BY <1>2 DEF AssignedNext
  <2> QED
    BY <2>1, <2>2 DEF VrfInv
<1> QED
  BY <1>1, <1>2

(* What the lanes have accepted after a cycle.                             *)
LEMMA VrfKept ==
  ASSUME PipeInv, WholeWords, GatherInv, ResultInv, BuffInv, VrfInv,
         NEW valid \in SUBSET Operands, NEW gnt \in BOOLEAN, Step(valid, gnt)
  PROVE  VrfInv'
<1> DEFINE all == vrf' \cup Waiting'
<1>1. UpTo(all, execReq, AssignedNext(gnt)) /\ Waiting' \cap vrf' = {}
  BY VrfStep
<1> HIDE DEF all
<1>2. UpTo(all, execReq', Assigned')
  <2>1. CASE execReq' = execReq /\ Assigned' = AssignedNext(gnt)
    BY <1>1, <2>1
  <2>2. CASE execReq'.seq = execReq.seq + 1 /\ Assigned' = 0
    <3>1. execReq.seq \in Nat
      BY ExecFacts
    <3>2. \A t \in all : t \in Nat \X Nat /\ t[1] \in 1 .. execReq.seq
      BY <1>1 DEF UpTo
    <3>3. ASSUME NEW t \in all
          PROVE  t \in Nat \X Nat /\ t[1] \in 1 .. execReq.seq + 1 /\ t[1] # execReq.seq + 1
      BY <3>1, <3>2
    <3>4. 0 .. 0 - 1 = {}
      OBVIOUS
    <3> QED
      BY <2>2, <3>3, <3>4 DEF UpTo
  <2> QED
    BY <2>1, <2>2, BytesStep
<1>3. VrfInv' <=> UpTo(all, execReq', Assigned') /\ Waiting' \cap vrf' = {}
  BY DEF VrfInv, UpTo, Origin, all
<1> QED
  BY <1>1, <1>2, <1>3

(* the bytes the lanes have accepted or are offered                        *)
Kept == vrf \cup IF vrfValid THEN Buffer ELSE {}

(* The bytes of the requests assigned are kept, however late the grants.   *)
KeptInv == \A n \in 1 .. Finished : ResultTags(issued[n]) \subseteq Kept

(* No byte is taken back.                                                  *)
LEMMA KeptGrows ==
  ASSUME PipeInv, WholeWords, GatherInv, ResultInv, BuffInv,
         NEW valid \in SUBSET Operands, NEW gnt \in BOOLEAN, Step(valid, gnt)
  PROVE  Kept \subseteq Kept'
<1>1. vrf' = IF vrfValid /\ gnt THEN vrf \cup Buffer ELSE vrf
  BY DEF Step, Cycle, LanesClock, Buffer
<1>2. vrfValid \in BOOLEAN
  BY DEF PipeInv, Handshakes
<1>3. CASE Assigns(gnt)
  <2>1. vrfValid => gnt
    BY <1>3 DEF Assigns
  <2> QED
    BY <1>1, <1>2, <2>1 DEF Kept
<1>4. CASE ~Assigns(gnt)
  <2>1. vrfValid' = (vrfValid /\ ~gnt) /\ Buffer' = Buffer
    BY <1>4, GrantStep
  <2> QED
    BY <1>1, <1>2, <2>1 DEF Kept
<1> QED
  BY <1>3, <1>4

(* When the last byte of a request is assigned, all its bytes are kept.    *)
LEMMA LastKept ==
  ASSUME PipeInv, WholeWords, GatherInv, ResultInv, BuffInv, VrfInv,
         NEW valid \in SUBSET Operands, NEW gnt \in BOOLEAN, Step(valid, gnt), wbDone'
  PROVE  /\ resultValid /\ execReq.seq \in 1 .. Len(issued) /\ execReq = issued[execReq.seq]
         /\ ResultTags(execReq) \subseteq Kept'
<1> DEFINE r == execReq
<1>1. Assigns(gnt)
  BY HoldCycle
<1>2. resultValid
  BY <1>1 DEF Assigns
<1>3. r.seq \in 1 .. Len(issued) /\ r = issued[r.seq] /\ r.seq # 0
  BY <1>2, ExecFacts
<1>4. /\ ArgBytes(r) \in Nat \ {0} /\ Origin(r) \in Nat /\ EgLen(r) \in Nat \ {0}
      /\ TotalBytes(r) = EgLen(r) * ArgBytes(r)
  BY <1>3, ExecFacts
<1>5. Executed = TotalBytes(r)
  BY <1>1, AssignCycle
<1>6. AssignedNext(gnt) = TotalBytes(r)
  <2>1. Assigned = wbWritten
    BY <1>2 DEF Assigned, Complete
  <2> QED
    BY <1>1, <1>2, <1>5, <2>1 DEF AssignedNext, Executed
<1>7. Waiting' = Buffer' /\ Kept' = vrf' \cup Waiting'
  <2>1. /\ wbDirty' = ~Flush(r) /\ vrfValid' = Flush(r) /\ Flush(r) \in BOOLEAN
        /\ wbDone' => vrfValid'
    BY <1>1, AssignStep
  <2> QED
    BY <2>1 DEF Waiting, Kept
<1>8. \A p \in 0 .. TotalBytes(r) - 1 : <<r.seq, Origin(r) + p>> \in vrf' \cup Waiting'
  <2>1. UpTo(vrf' \cup Waiting', r, TotalBytes(r))
    BY <1>6, VrfStep
  <2> QED
    BY <1>3, <2>1 DEF UpTo
<1>9. ResultTags(r) \subseteq Kept'
  <2> SUFFICES ASSUME NEW t \in ResultTags(r)
               PROVE  t \in Kept'
    OBVIOUS
  <2>1. PICK j \in 0 .. (ArgBytes(r) * EgLen(r)) - 1 : t = <<r.seq, GroupByte(r, 0, j)>>
    BY DEF ResultTags
  <2> HIDE DEF r
  <2>2. ArgBytes(r) * EgLen(r) = TotalBytes(r)
    BY <1>4
  <2>3. GroupByte(r, 0, j) = Origin(r) + j
    <3>1. GroupByte(r, 0, j) = Origin(r) + 0 * ArgBytes(r) + j
      BY DEF GroupByte, Origin
    <3> QED
      BY <1>4, <3>1
  <2> QED
    BY <1>7, <1>8, <2>1, <2>2, <2>3
<1> QED
  BY <1>2, <1>3, <1>9

(* What is kept of the requests assigned, after a cycle.                   *)
LEMMA KeptKept ==
  ASSUME PipeInv, WholeWords, GatherInv, ResultInv, BuffInv, VrfInv, KeptInv,
         NEW valid \in SUBSET Operands, NEW gnt \in BOOLEAN, Step(valid, gnt)
  PROVE  KeptInv'
<1>1. /\ Popped \in Nat /\ Len(issued) \in Nat /\ Popped <= Len(issued)
      /\ execReq.seq \in 0 .. Len(issued)
  BY PortFacts DEF PipeInv, ExecInv
<1>2. /\ Finished' = Finished + (IF wbDone' THEN 1 ELSE 0)
      /\ \A n \in 1 .. Len(issued) : issued'[n] = issued[n]
  BY PortStep, ReportedStep
<1>3. Finished \in Int /\ Finished <= Len(issued)
  BY <1>1 DEF Finished
<1>4. ASSUME NEW n \in 1 .. Finished
      PROVE  ResultTags(issued'[n]) \subseteq Kept'
  <2>1. n \in 1 .. Len(issued)
    BY <1>1, <1>3
  <2>2. issued'[n] = issued[n]
    BY <1>2, <2>1
  <2>3. ResultTags(issued[n]) \subseteq Kept
    BY DEF KeptInv
  <2> QED
    BY <2>2, <2>3, KeptGrows
<1>5. ASSUME wbDone', NEW n \in 1 .. Finished + 1, n \notin 1 .. Finished
      PROVE  ResultTags(issued'[n]) \subseteq Kept'
  <2>1. /\ resultValid /\ execReq.seq \in 1 .. Len(issued) /\ execReq = issued[execReq.seq]
        /\ ResultTags(execReq) \subseteq Kept'
    BY <1>5, LastKept
  <2>2. n = execReq.seq
    <3>1. Finished = execReq.seq - 1
      BY <2>1 DEF Finished
    <3> QED
      BY <1>3, <1>5, <2>1, <3>1
  <2> QED
    BY <1>2, <2>1, <2>2
<1>6. ASSUME NEW n \in 1 .. Finished'
      PROVE  ResultTags(issued'[n]) \subseteq Kept'
  <2>1. CASE wbDone'
    BY <1>2, <1>4, <1>5, <2>1
  <2>2. CASE ~wbDone'
    BY <1>2, <1>3, <1>4, <2>2
  <2> QED
    BY <2>1, <2>2
<1>7. ASSUME NEW n PROVE ResultTags(issued[n])' = ResultTags(issued'[n])
  BY DEF ResultTags, ArgBytes, EgLen, EGS, GroupByte
<1> QED
  BY <1>6, <1>7 DEF KeptInv
-----------------------------------------------------------------------------
(* The data invariants together.                                           *)

DataInv == ResultInv /\ BuffInv /\ VrfInv /\ KeptInv

(* No byte has been assigned at reset.                                     *)
LEMMA DataInit == Init => DataInv
<1> SUFFICES ASSUME Init PROVE DataInv
  OBVIOUS
<1>1. /\ execReq.seq = 0 /\ wbDirty = FALSE /\ vrfValid = FALSE /\ wbDone = FALSE /\ vrf = {}
  BY DEF Init, ExecInit, WriteBackInit, ResetReq
<1>2. ResultInv
  BY <1>1 DEF ResultInv
<1>3. BuffInv
  BY <1>1 DEF BuffInv, InPlace
<1>4. VrfInv
  BY <1>1 DEF VrfInv, UpTo, Waiting
<1>5. KeptInv
  <2>1. Popped = 0 /\ resultValid = FALSE
    <3>1. PipeInv
      BY PipeInit
    <3>2. resultValid = FALSE /\ Len(issued) = 0
      BY DEF Init, ExecInit, PortInit
    <3> QED
      BY <3>1, <3>2, PortFacts DEF PipeInv
  <2>2. Finished = 0
    BY <1>1, <2>1 DEF Finished
  <2>3. 1 .. 0 = {}
    OBVIOUS
  <2> QED
    BY <2>2, <2>3 DEF KeptInv
<1> QED
  BY <1>2, <1>3, <1>4, <1>5 DEF DataInv

(* A cycle keeps what DataInv says.                                        *)
LEMMA DataNext ==
  ASSUME WholeWords, PipeInv, GatherInv, DataInv,
         UNCHANGED vars \/ \E valid \in SUBSET Operands, gnt \in BOOLEAN : Step(valid, gnt)
  PROVE  DataInv'
<1>1. ASSUME NEW valid \in SUBSET Operands, NEW gnt \in BOOLEAN, Step(valid, gnt)
      PROVE  DataInv'
  BY <1>1, ResultKept, BuffKept, VrfKept, KeptKept DEF DataInv
<1>2. ASSUME UNCHANGED vars
      PROVE  DataInv'
  <2>1. /\ execReq' = execReq /\ resultValid' = resultValid /\ result' = result
        /\ Popped' = Popped /\ issued' = issued /\ vrf' = vrf
        /\ wbWritten' = wbWritten /\ wbBuff' = wbBuff /\ wbDirty' = wbDirty
        /\ vrfValid' = vrfValid /\ vrfId' = vrfId /\ vrfAddr' = vrfAddr /\ wbDone' = wbDone
    BY <1>2, Unchanged DEF wbVars
  <2>2. /\ ArgBytes(execReq)' = ArgBytes(execReq) /\ TotalBytes(execReq)' = TotalBytes(execReq)
        /\ Origin(execReq)' = Origin(execReq)
    BY <2>1, NextReq
  <2>3. /\ Complete' = Complete /\ Waiting' = Waiting /\ Kept' = Kept /\ Finished' = Finished
        /\ VrfAddress(execReq)' = VrfAddress(execReq)
    BY <2>1 DEF Complete, Waiting, Kept, Buffer, Finished, VrfAddress, ElemsPerOperand
  <2>4. Assigned' = Assigned /\ Held' = Held
    BY <2>1, <2>2, <2>3 DEF Assigned, Held
  <2>5. ResultInv'
    BY <2>1, <2>2, <2>4 DEF DataInv, ResultInv
  <2>6. InPlace'
    BY <2>1 DEF DataInv, BuffInv, InPlace
  <2>7. BuffInv'
    BY <2>1, <2>3, <2>6 DEF DataInv, BuffInv
  <2>8. VrfInv'
    BY <2>1, <2>2, <2>3, <2>4 DEF DataInv, VrfInv, UpTo
  <2>9. KeptInv'
    <3>1. ASSUME NEW n PROVE ResultTags(issued[n])' = ResultTags(issued[n])
      BY <2>1 DEF ResultTags, ArgBytes, EgLen, EGS, GroupByte
    <3> QED
      BY <2>3, <3>1 DEF DataInv, KeptInv
  <2> QED
    BY <2>5, <2>7, <2>8, <2>9 DEF DataInv
<1> QED
  BY <1>1, <1>2

(* Everything said of the counts and of the data, while in step.           *)
UnitInv == PipeInv /\ GatherInv /\ DataInv

LEMMA UnitInvariant ==
  ASSUME WholeWords
  PROVE  Spec => []IssuedOK /\ [](InStep => UnitInv)
<1>1. Init => (InStep => UnitInv)
  BY PipeInit, GatherInit, DataInit DEF UnitInv
<1>2. IssuedOK /\ (InStep => UnitInv) /\ [Next]_vars => (InStep => UnitInv)'
  BY StepInStep, PipeNext, GatherNext, DataNext DEF IssuedOK, UnitInv
<1> QED
  BY <1>1, <1>2, IssuedInvariant, PTL DEF Spec

(* A byte offered to the lanes belongs to the request whose id goes with   *)
(* it, and is offered at the address it came from (write_back.sv).         *)
THEOREM UnitWritesInPlace ==
  ASSUME WholeWords
  PROVE  Spec => []WritesInPlace
<1>1. (InStep => UnitInv) => WritesInPlace
  BY DEF UnitInv, DataInv, BuffInv, InPlace, WritesInPlace
<1> QED
  BY <1>1, UnitInvariant, PTL

(* However late the lanes grant, all that may be missing in the lanes of   *)
(* the requests reported done is the write on offer (crypto_unit.sv).      *)
THEOREM UnitReportedKept ==
  ASSUME WholeWords
  PROVE  Spec => []ReportedKept
<1>1. ASSUME UnitInv, NEW n \in 1 .. Reported
      PROVE  ResultTags(issued[n])
               \subseteq vrf \cup (IF vrfValid THEN {wbBuff[b] : b \in DOMAIN wbBuff} ELSE {})
  <2>1. Popped \in Nat /\ execReq.seq \in Nat
    BY <1>1, ExecFacts DEF UnitInv
  <2>2. Finished \in Int
    BY <2>1 DEF Finished
  <2>3. Reported = Finished - (IF wbDone THEN 1 ELSE 0)
    BY <1>1 DEF UnitInv, PipeInv, ReportInv
  <2>4. n \in 1 .. Finished
    BY <2>2, <2>3
  <2> QED
    BY <1>1, <2>4 DEF UnitInv, DataInv, KeptInv, Kept, Buffer
<1>2. (InStep => UnitInv) => ReportedKept
  BY <1>1 DEF ReportedKept
<1> QED
  BY <1>2, UnitInvariant, PTL

(* No byte is handed to the lanes twice: a granted write is withdrawn, an  *)
(* ungranted one is neither overwritten nor counted as done.               *)
THEOREM UnitWrittenOnce ==
  ASSUME WholeWords
  PROVE  Spec => WrittenOnce
<1>1. ASSUME UnitInv, vrfValid PROVE {wbBuff[b] : b \in DOMAIN wbBuff} \cap vrf = {}
  BY <1>1 DEF UnitInv, DataInv, VrfInv, Waiting, Buffer
<1>2. IssuedOK /\ (InStep => UnitInv) /\ [Next]_vars =>
        (InStep' /\ vrfValid /\ stall' = 0 => {wbBuff[b] : b \in DOMAIN wbBuff} \cap vrf = {})
  BY <1>1, StepInStep DEF IssuedOK
<1> QED
  BY <1>2, UnitInvariant, PTL DEF WrittenOnce, Spec

(* Element groups are executed one after the other, request after request, *)
(* none skipped and none repeated (execution_units.sv).                    *)
THEOREM UnitGroupsInOrder ==
  ASSUME WholeWords
  PROVE  Spec => GroupsInOrder
<1>1. ASSUME IssuedOK, InStep => UnitInv, [Next]_vars, InStep', result' # result
      PROVE  IF execReq'.seq = execReq.seq
             THEN result'[0] = <<execReq.seq, result[0][2] + ArgBytes(execReq)>>
             ELSE /\ execReq'.seq = execReq.seq + 1
                  /\ FirstByte(execReq', result')
                  /\ execReq.seq # 0 =>
                       result[0][2] = GroupByte(execReq, EgLen(execReq) - 1, 0)
  <2>0. PipeInv /\ GatherInv /\ DataInv
    BY <1>1, StepInStep DEF IssuedOK, UnitInv
  <2>1. PICK valid \in SUBSET Operands, gnt \in BOOLEAN : Step(valid, gnt)
    BY <1>1, StepInStep, Unchanged DEF IssuedOK
  <2>2. ArgsReady(gnt)
    BY <1>1, <2>0, <2>1, ReleaseStep, StillStep
  <2> DEFINE H == HeadReq
             r == execReq
  <2>3. /\ execReq' = H /\ H.seq = Popped + 1
        /\ r.seq # Popped => r = H
        /\ \A i \in 0 .. ArgBytes(H) - 1 :
             result'[i] = <<Popped + 1, Origin(H) + Accepted + i>>
    BY <2>0, <2>1, <2>2, TakeStep, TakenTags
  <2>4. /\ Popped \in Nat /\ wbWritten \in Nat /\ r.seq \in Nat
        /\ r.seq = Popped \/ r.seq = Popped + 1
        /\ r.seq # 0 => /\ ArgBytes(r) \in Nat \ {0} /\ Origin(r) \in Nat
                        /\ TotalBytes(r) \in Nat /\ EgLen(r) \in Nat \ {0}
                        /\ TotalBytes(r) = EgLen(r) * ArgBytes(r)
    BY <2>0, ExecFacts
  <2>5. /\ LegalReq(H) /\ Accepted \in Nat
        /\ r.seq = Popped => Accepted = 0
        /\ r.seq # Popped => Accepted = Executed
    BY <2>0, <2>1, <2>2, TakeStep
  <2>6. ArgBytes(H) \in Nat \ {0} /\ Origin(H) \in Nat
    <3>1. ArgBytes(H) \in Nat \ {0} /\ H.vstart \in Nat /\ H.vsew \in Nat
      BY <2>5, ReqTypes
    <3> QED
      BY <3>1 DEF Origin
  <2> HIDE DEF H
  <2>7. result'[0] = <<Popped + 1, Origin(H) + Accepted>>
    <3>1. 0 \in 0 .. ArgBytes(H) - 1 /\ Origin(H) + Accepted + 0 = Origin(H) + Accepted
      BY <2>5, <2>6
    <3> QED
      BY <2>3, <3>1
  <2>8. r.seq # 0 => result[0] = <<r.seq, Origin(r) + Held>>
    <3> SUFFICES ASSUME r.seq # 0
                 PROVE  result[0] = <<r.seq, Origin(r) + Held>>
      OBVIOUS
    <3>1. 0 \in 0 .. ArgBytes(r) - 1
      BY <2>4
    <3>2. result[0] = <<r.seq, Origin(r) + Held + 0>>
      BY <2>0, <3>1 DEF DataInv, ResultInv
    <3>3. Held \in Int
      BY <2>4 DEF Held, Assigned
    <3> QED
      BY <2>4, <3>2, <3>3
  <2>9. r.seq # 0 => Held = (IF r.seq = Popped THEN TotalBytes(r) ELSE Executed) - ArgBytes(r)
    <3> SUFFICES ASSUME r.seq # 0
                 PROVE  Held = (IF r.seq = Popped THEN TotalBytes(r) ELSE Executed) - ArgBytes(r)
      OBVIOUS
    <3>1. CASE resultValid
      <4>1. Held = wbWritten /\ Executed = wbWritten + ArgBytes(r)
        BY <3>1 DEF Held, Executed
      <4>2. r.seq = Popped => wbWritten + ArgBytes(r) = TotalBytes(r)
        BY <2>0, <2>4, <3>1, ExecFacts
      <4> QED
        BY <2>4, <4>1, <4>2
    <3>2. CASE ~resultValid
      <4>1. Held = Assigned - ArgBytes(r) /\ Executed = wbWritten + 0
        BY <3>2 DEF Held, Executed
      <4>2. Assigned = IF r.seq = Popped THEN TotalBytes(r) ELSE wbWritten
        BY <3>2 DEF Assigned, Complete
      <4> QED
        BY <2>4, <4>1, <4>2
    <3> QED
      BY <2>0, <3>1, <3>2, ExecFacts
  <2> HIDE DEF r
  <2>10. CASE r.seq = Popped
    <3>1. H.seq = r.seq + 1 /\ H.seq # r.seq
      BY <2>3, <2>4, <2>10
    <3>2. FirstByte(H, result')
      <4>1. GroupByte(H, 0, 0) = Origin(H)
        <5>1. GroupByte(H, 0, 0) = Origin(H) + 0 * ArgBytes(H) + 0
          BY DEF GroupByte, Origin
        <5> QED
          BY <2>6, <5>1
      <4>2. Origin(H) + Accepted = Origin(H)
        BY <2>5, <2>6, <2>10
      <4> QED
        BY <2>3, <2>7, <4>1, <4>2 DEF FirstByte
    <3>3. r.seq # 0 => result[0][2] = GroupByte(r, EgLen(r) - 1, 0)
      <4> SUFFICES ASSUME r.seq # 0 PROVE result[0][2] = GroupByte(r, EgLen(r) - 1, 0)
        OBVIOUS
      <4>1. GroupByte(r, EgLen(r) - 1, 0) = Origin(r) + (EgLen(r) - 1) * ArgBytes(r) + 0
        BY DEF GroupByte, Origin
      <4>2. (EgLen(r) - 1) * ArgBytes(r) = TotalBytes(r) - ArgBytes(r)
        BY <2>4
      <4>3. result[0][2] = Origin(r) + (TotalBytes(r) - ArgBytes(r))
        BY <2>8, <2>9, <2>10
      <4> QED
        BY <2>4, <4>1, <4>2, <4>3
    <3> QED
      BY <2>3, <3>1, <3>2, <3>3 DEF r
  <2>11. CASE r.seq # Popped
    <3>1. r = H /\ r.seq = Popped + 1 /\ r.seq # 0
      BY <2>3, <2>4, <2>11
    <3>2. result[0][2] = Origin(r) + (Accepted - ArgBytes(r))
      BY <2>5, <2>8, <2>9, <2>11, <3>1
    <3>3. result[0][2] + ArgBytes(r) = Origin(r) + Accepted
      BY <2>4, <2>5, <3>1, <3>2
    <3> QED
      BY <2>3, <2>7, <3>1, <3>3 DEF r
  <2> QED
    BY <2>10, <2>11
<1>2. IssuedOK /\ (InStep => UnitInv) /\ [Next]_vars =>
        (InStep' /\ result' # result =>
           IF execReq'.seq = execReq.seq
           THEN result'[0] = <<execReq.seq, result[0][2] + ArgBytes(execReq)>>
           ELSE /\ execReq'.seq = execReq.seq + 1
                /\ FirstByte(execReq', result')
                /\ execReq.seq # 0 =>
                     result[0][2] = GroupByte(execReq, EgLen(execReq) - 1, 0))
  BY <1>1
<1> QED
  BY <1>2, UnitInvariant, PTL DEF Spec, GroupsInOrder
=============================================================================
