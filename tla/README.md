# Marian in TLA+

Marian is a RISC-V system on chip with a vector unit (Ara, itself behind a
CVA6 core) extended by a *crypto unit* that executes the vector cryptography
instructions: AES, GCM, SHA-2, SM3, SM4. Its run-time library and benchmarks are
bare-metal C. This directory holds TLA+ models of the hardware's control logic
and of the software, the TLC configurations that check them, and proofs checked
by TLAPS. Paths below are relative to the repository (RTL in `src/ip`, software
in `sw`); `PROJECT.json` maps every definition to its lines and lists the
hazards, each at its line, with the properties that would catch it.

## Inventory

| part | state | operations | what makes it correct |
|---|---|---|---|
| crypto unit, port (`crypto_unit.sv`) | last id and valid, PE FIFO, response register | push of a new broadcast, pop on acknowledge, done bits | every request pushed once, in order; a done bit means what it says |
| operand collector (`operand_collector.sv`) | bytes read, argument buffers and full flags, argument valid, request and scalar registers | take a word, hand over arguments, acknowledge the request | the arguments handed over together are one element group of one request; every word fetched is consumed |
| execution units (`execution_units.sv`) | IDLE/EXEC, result, its request | accept, hold, release | groups in order, none lost under back-pressure |
| write back (`write_back.sv`) | bytes written, write buffer and byte enables, write request to the lanes, done flag | assign a result, flush the buffer, handshake with the lanes | each byte written once, in its place, under the id of its request |
| functional units (`aes.sv`, `gcm.sv`, `sha.sv`, `sm3.sv`, `sm4.sv`, `src/ip/crypto`) | none (combinational) | - | the arithmetic itself |
| main sequencer, dispatcher, lane sequencer, operand requester (Ara) | running instructions, credits, hazard tables, request registers | issue, broadcast, fetch, grant | unique ids, no queue overflow, chaining never overtakes |
| trap path (`crt0.S`, `runtime.c`, `handlers.c`) | pushed registers, `interrupt_id`, callbacks | save, dispatch, claim, complete, restore | the interrupted program does not notice; every claim is completed |
| CLINT, PLIC, APB timer, GPIO with their drivers | `mtime`, `mtimecmp`, `msip`; priorities, pending, claimed; compare and control registers; pin registers | register accesses, ticks, edges | interrupts follow the comparison; a read-modify-write is not undone by a handler |
| interrupt tests (`plic_test`, `gpio_test`, `timer_test`, `clint_test`) | a counter | set up, `wfi`, count | a test that passes has seen the interrupts it claims |
| UART, driver and console (`apb_uart.sv`, `uart16550.c`, `serial.c`) | divisor, line control, IER, transmit FIFO | configure, polled transmit | nothing lost or reordered when traps print; text leaves at the configured rate |
| `printf.c` | output position, caller's buffer | integers, strings, characters, floats | the text of C, never beyond the buffer |
| SHA-2 (`sha256.c`, `sha512.c`) | context: partial block, counters, chaining value; ring of 16 words | update, final, one-shot hash, block function | every byte hashed once, in order, with its length; the standard's rounds |
| AES (`aes_enc.c`, `aes_dec.c`, `api_aes.h`) | expanded keys, the block | two key schedules, two pairs of block functions | the two implementations agree; decryption undoes encryption |
| SM3, SM4 (`sm3_api.c`, `sm3_cf256_zksh.c`, `sm4_reference.c`, `test_sm4.c`) | registers, schedule words, round keys | hash; expand, encrypt, decrypt | the standard's digest; decryption undoes encryption |
| `ariane/axi_shim.sv`, `ariane/entropy_source.sv`, CSR file, RTC divider, memories, boot ROM, debug | state machines, storage | bus accesses | see *Not modelled* |

In the hardware the parts interact by broadcast (sequencer to every unit and
lane, held until all are ready), by valid/ready streams (operand queues to
crypto unit), by request/grant (write back to the lanes) and by done bits (units
to sequencer); what is hard is two pipelines advancing at their own pace on the
same clock, with state registered in one and read in the other. Software and
hardware interact by memory-mapped registers and traps; what is hard there is a
trap between any two accesses. The ciphers and hashes are sequential; what is
hard in them is in-place updates, renamed registers, boundaries of blocks and
the order of bytes. Nothing in the system persists, so there is no crash
recovery, and no message can be lost or duplicated.

## Modules

| module | models | remarks |
|---|---|---|
| `CryptoTypes` | the crypto part of `ara_pkg.sv`, byte arithmetic shared by the stages | constants and operators only |
| `FifoV3` | the fall-through FIFO of the common cells library | external: modelled from its interface and use |
| `PeRequests` | the port of `crypto_unit.sv` and the issue side of `ara_sequencer.sv` | `PortClock` and `SequencerClock` are the two halves of a clock edge |
| `PeRequestFlow` | abstract specification: what the unit promises the sequencer | takes and reports requests in order, at any time |
| `OperandCollector`, `ExecutionUnits`, `WriteBack` | the three stages, one clock operator each | parameters are the inputs of the cycle |
| `CryptoUnit` | stages, port, lanes and sequencer composed | one step is one rising clock edge; implements `PeRequestFlow` |
| `Drivers` | device drivers and interrupt tests as sequences of register accesses | a read-modify-write is a load and a store |
| `Interrupts` | the machine that runs them: hart, trap path, CLINT, PLIC, timer, GPIO | a trap may come before any statement |
| `Console` | abstract specification: characters are printed in order, a message of a trap in one piece | |
| `Uart` | `apb_uart.sv`, the driver, `crt0`, main and printing handlers | implements `Console` |
| `Printf` | `_vsnprintf` and the functions it calls; `RefText` is C's definition | one conversion per step |
| `Words` | words as sets of bits: addition, rotation, byte order | `Tabulated` makes TLC evaluate a function once |
| `Powers` | powers of two and the two words of a counter | used by `Sha2Context` and its proofs |
| `Digest` | abstract specification: the digest of a message is that of its padding | |
| `Sha2Context` | update, final and the one-shot hash of both SHA-2 files | implements `Digest`; bytes are tags |
| `Sha2Rounds` | the two unrolled compression functions | parameterised by words and word functions |
| `Sha2Words` | the functions on words and big-endian memory, three ways | |
| `AesBytes`, `AesWords` | byte-wise and 64-bit forms of the round functions | S-boxes as tables |
| `AesKeys` | both key schedules, word by word | |
| `AesEcb` | abstract specification: the byte-wise encryption and decryption, over any round functions | |
| `AesOpenssl` | OpenSSL's functions as the benchmark calls them | implements `AesEcb` |
| `Sm3` | `sm3_256` with its compression function | |
| `Sm4`, `Sm4Words` | SM4 of the reference and of OpenSSL; its words | `Sm4` is parameterised by the functions on words |
| `PeRequestFlowProofs`, `CryptoUnitProofs`, `InterruptsProofs`, `UartProofs`, `Sha2ContextProofs`, `HashesProofs`, `CiphersProofs`, `AesProofs` | theorems | |
| `MC...` | instances for TLC | |

State names follow the code. In the crypto unit they follow the registers
(`wbWritten` is `result_bytes_written_q`, and so on); every stage's clock operator
reads the current registers and the combinational outputs of the other stages,
and assigns all of its own registers, as the `_d`/`_q` pairs do. In the
software they follow the variables and structure members.

**Tags.** A byte of the crypto unit is a tag `<<seq, pos>>`: byte `pos` of the
register group of request `seq`. The unit moves bytes and applies combinational
functions to element groups, so where a byte came from and where it is written
are properties of tags. Shuffling (a fixed permutation, undone on the way in) is
left out. `Sha2Context` does the same with the bytes of a message: the block
function is not computed, the sequence of blocks given to it is kept.

**Statements.** `Drivers` and `Uart` hold programs as sequences of statements,
one per access to a device register or CSR. The hart executes the next one or
takes a pending interrupt; handlers do the same to main. A trap pushes what
`trap_vector` pushes and the model follows whose value every caller-saved
register holds. Nops are longer than the latency of an interrupt, which is what
the programs put them there for.

**Words.** A word is the set of the positions of its one bits, so that xor,
rotation and byte order are operations on sets, of the width the code has.
`Sha2Rounds` takes words and functions as parameters instead: the proof needs
only that addition is associative and commutative.

The mutants (definitions with a suffix after an underscore and a comment that
starts with "Mutant") are plausible bugs of the code; each breaks the property
it is listed with.

## Runs

| run | module | shows |
|---|---|---|
| `flow` | `MCPeRequestFlow` | the port pushes each request once, in order, into a FIFO with room; ids in flight are distinct |
| `unit` | `MCCryptoUnit` | writes granted at once or a cycle late: the unit implements `PeRequestFlow` (`FlowSpec`) and every instruction is reported done (`EveryInstructionRetires`) |
| `pressure` | `MCCryptoUnit` | writes granted up to three cycles late. Until a request is first acknowledged over waiting arguments (`InStep`): arguments belong together (`ArgsMatchRequest`), no word is left behind (`AckAfterRead`), groups run in order (`GroupsInOrder`), bytes land in place (`WritesInPlace`) once (`WrittenOnce`), and what is reported done is in the register file or on offer to it (`ReportedKept`) |
| `traps` | `MCInterrupts` | the interrupt tests count interrupts, not wake-ups (`WakeupsAreInterrupts`, `PassedMeansServed`); toggles are not lost between load and store (`PadoutCountsToggles`); no early timer trap (`TimerTrapNotEarly`); `plic_test` ends (`PlicTestCompletes`) |
| `uart` | `Uart` | never more than two characters in the FIFO (`TwoAreEnough`), every one sent with the default configuration (`SentAsConfigured`), the console implemented (`ConsoleSpec`), all of main's text sent (`TextIsSent`) |
| `library` | `MCLibrary` | `Printf`: the text C prescribes (`MatchesC`), and in the buffer its prefix and a terminator, nothing behind (`BufferHoldsPrefix`). `Sha2Context`: bytes are hashed once and in order however they are cut (`BytesAccounted`, `PartialBlockKept`), their length in bits is right across the carry (`LengthCounted`), SHA-256 leaves no old bytes (`UnusedZeroed`), every form gives the digest of the padded message (`DigestSpec`). The two share nothing and are not interleaved |
| `hashes` | `MCHashes` | SHA-2's renamed registers, ring and result are the standard's (`RegistersRotated`, `RingIsSchedule`, `ReturnsStandard`), its functions on words too (`WordsAreStandard`); so is SM3, padding included (`Sm3IsStandard`) |
| `ciphers` | `MCCiphers` | the two key schedules of AES agree word by word (`SchedulesAgree`), the one for decryption is the other transformed and turned round and SM4's is the one `sm4_api.h` publishes for the words the code loads (`KeySchedules`), OpenSSL's functions do what the byte-wise ones do (`EcbSpec`), decryption meets the blocks of the encryption in reverse (`DecryptRetraces`, `Sm4Retraces`) |

Four runs end in a violation of what the code's own comments and assertions say:

| run | what happens |
|---|---|
| `late_grant` | the done bit (`crypto_unit.sv:334`) follows the write buffer, not the grant: a write taken one cycle late is reported done while it is still on offer (`DoneAfterWritten`). `operand_requester.sv:264`, "The very last grant must happen when the instruction actually write in the VRF", is about a final grant the lanes send to this unit too and that `write_back.sv` (:63) does not read |
| `withdrawn` | `operand_collector.sv:175` acknowledges a request whose arguments still wait; with grants four cycles late they are withdrawn (`ArgsHeld`), against the assertion at :502, "arg_vld changed before arg_rdy set" |
| `context` | `trap_vector` (`crt0.S:135`) uses `a0` and `t5` before it pushes them, "store context before jumping to handler" (:138): the interrupted program resumes with two registers changed |
| `not_aes` | OpenSSL's key words are packed with the first byte on top but `Cipher` reads them as little-endian memory: the "AES128/256" benchmark (`test_block_aes_128.c:7`) does not compute AES, though it decrypts what it encrypts |

### Bounds

- *Crypto unit.* One model byte stands for 16: EW32 = 1 scaled unit, an operand
  word (32 bytes) is 2, MAXVL (512 bytes) is 8, so a group is half a word, or a
  whole one (SHA-2 at EW64, SM3), as with the real 4-lane configuration. Four
  words are enough for a request to be in all three stages while the next waits.
  `MCKinds` has one operation for each pattern of operands, with lengths that end
  in the middle of a word and at its end. Two requests (`MaxReq`) overlap in every
  way the pipeline allows. `PeRequestFlow` needs no data and has five requests,
  three ids and two entries, so that ids, slots and credits are all reused.
  `MaxStall` bounds how many cycles a write may stay ungranted. The lanes promise
  no bound: 3 is the first value at which a request is acknowledged over waiting
  arguments, 4 the first at which these are withdrawn. The properties of
  `pressure` say `InStep`, which is false from the first such acknowledgement on
  (its history variable is `overtaken`), so that no bound on the grants is needed
  for them to hold; 3 gives the arguments time to wait and to be overtaken, and
  5 was run once, with the steps after an acknowledgement cut off. `FlowSpec`
  does need a bound, which is why `unit` has 1: see the divergences below. `unit`
  has the kinds that end with their first group, with a whole word and with half
  of one (`UnitKinds`); checking fairness is too slow for more.
- *Interrupts.* `plic_test` waits for 2 interrupts instead of 10: the second
  wake-up is the first that can be mistaken for another. Half a CLINT register
  holds 2 bits (`Half` = 4), the clock ticks twice, and no test runs for a whole
  half.
- *UART.* Six characters of main, two of them before interrupts are enabled, three
  traps with messages of two characters; a FIFO of three: one more than is ever
  used. The divisor 300 does not fit in one of the two latches.
- *printf.* Integers of 2 to 5 bits, so that all their boundaries are among the
  arguments; doubles with 6 bits of fraction and 12 of mantissa, all values from
  -130/64 to 130/64. The conversion buffers (8 and 12 characters) are longer than
  any converted value, as in the code but for the cases under *Known divergences*.
  Pairs of conversions (`MaxItems`) are enough for what one leaves to the next,
  the output position.
- *SHA-2 context.* Blocks of 6 bytes with 2 for the length; a byte counts 3 bits,
  so the low word carries within `MaxLen` = 13 bytes, two blocks and one.
- *Hashes.* `Sha2Rounds` runs all 64 rounds on words of 3 bits with functions as
  unlike each other as 3 bits allow, four messages and two chaining values; the
  theorems carry the result to all words. `Sha2Words` has words of full width with
  at most `MaxOnes` = 2 one bits: the functions are linear, so their values on
  single bits determine them; the theorem needs no bound. SM3 is at full width,
  with messages (`Inputs`) that end before, at and after each boundary. A message
  of SM3 has fewer than 2^29 bytes (`InputsAssumption`): its length in bits is
  modelled in four bytes, where the code has eight.
- *Ciphers.* Full width and all rounds: three keys, three sizes, two blocks; for
  SM4 two of each.

### Fairness

- `CryptoUnit!FairSpec`: the clock ticks (weak fairness of `Next`), an operand
  whose words are still to come eventually gets the next one (the operand
  requesters arbitrate round robin, the queues do not drop words), and a broadcast
  eventually ends (all lanes eventually take the request). The unit itself has no
  fairness of its own: it moves with the clock.
- `Interrupts!PeriodicSpec`: the hart executes, an interrupt that stays pending is
  taken and the devices' clocks run (weak fairness of each). Main also has to get
  a turn between the interrupts of a periodic timer: the formula says that again
  and again nothing is pending, as when a period is longer than its handler, and
  that main then executes (strong fairness of `MainStep`). Programs whose
  interrupt never goes away (`clint_test`'s software trap) have no behaviour that
  satisfies the formula: their safety properties are checked all the same, and no
  liveness is claimed of them.
- `Uart!FairSpec`: the hart executes main and handlers and the transmitter shifts
  (weak fairness of each); traps need none. That handlers end is not assumed, it
  follows.

## Proofs

`PeRequestFlowProofs` proves, for every queue depth, set of ids and set of
instructions, type correctness and the four properties of the run `flow`. None
of them is inductive. `FlowInv` adds: the broadcast of a crypto request carries
the request issued last (`Broadcast`); the credit counter is the number of
requests issued and not yet reported (`Credit`); the response register names the
request reported last (`DoneIsLast`); and no more requests are reported than
taken (`ReportedTaken`). The argument: a broadcast is pushed in the cycle in
which it starts and in no other, because a replaced broadcast has a new id and a
held one has not (`PushStep`); what is in the FIFO is part of what the counter
counts, so there is room for it (`RoomForPush`); a push extends and a pop shortens
the window of the history the FIFO holds (`QueueStep`); a done bit clears the id
of the request reported last, which no other request in flight has, and a new
request takes a free id (`IdsStep`). Assumed: `FifoAssumption` (the depth is
positive), `PortAssumption` (ids are numbers, the instructions legal requests).

`CryptoUnitProofs` proves the six safety properties of the run `pressure`, for every
width, depth of the FIFO, set of ids, set of instructions and delay of the grants.
Hypothesis: `WholeWords`, an operand word is a whole number of argument buffers, as
with the four lanes of the repository's configuration; with 1 or 2 lanes an SM3 group
spans several words and is written in several cycles. The properties themselves
say `InStep`: they hold up to the first of the three events of that definition, after
which the stages lose count of each other (*Known divergences*). `StepInStep`
shows that a step that ends in step began in step, so the invariants are carried
along such steps only.

None of the properties is inductive. `PipeInv` ties the stages to each other by
their counts. Its first part is the invariant of `PeRequestFlow`'s queue
(`PeRequestFlowProofs!QueueInv`), instantiated with what the unit pops and reports;
then, the request in the execution units is the head of the FIFO or the one just
popped, of which whole groups have been assigned (`ExecInv`), the collector has read
what it has passed on and at most one group more (`CollectInv`), and as many
requests are reported as have been assigned as a whole (`ReportInv`). A result may
wait for a grant and the next arguments for the result, for any number of cycles
(`HoldCycle`); what makes the counts agree is that a group never crosses an operand
word, so it is assigned as a whole in the first cycle in which the write buffer is
free (`AssignCycle`), and that the next group may be accepted in that same cycle
(`AcceptCycle`). The data follow: `GatherInv` says which byte each place of the
argument buffers holds and which word each operand is to be given next;
`ResultInv`, `BuffInv` and `VrfInv` follow the bytes through result register, write
buffer and lanes, which together hold the bytes assigned so far, in place and without
repetition, whether the request changes in that cycle or not (`BytesStep`);
`KeptInv` keeps them for the requests assigned before.

`UartProofs` proves, for every length of the texts, number of traps and 16-bit
divisor, that at most two characters are queued, that every one leaves with the
default configuration and, for a FIFO of two or more (`DeepEnough`; it has 16),
that driver and device implement `Console` (`UartImplementsConsole`). What the
registers hold is a function of how many statements main has executed
(`ConfigInv`), and so are the characters printed (`MainInv`); the same of the
handler and its message (`TrapInv`). The heart is `QueueInv`: a writer that has
seen the FIFO empty finds at most one character in it when it writes, since only a
trap can come between and its handler polls before each of its own. Assumed:
`UartAssumption` (lengths), `DivisorAssumption` (the divisor fits the two
latches).

`InterruptsProofs` proves the four safety properties of the run `traps`, for every
width of the CLINT's registers, number of wake-ups and number of RTC ticks. The
programs are concatenations of driver calls; the first part of the module lists
them statement by statement and proves the lists equal to the concatenations. Two
parts of the argument are shared: a trap in progress is at one of the stages of
`mtvec_handler` (`StageInv`), and only the PLIC can interrupt the external tests
(`SourceInv`: the time set is beyond the ticks, whatever the upper half of
`mtimecmp` held). Then: a wake-up has a pending interrupt that is taken before the
nops are over (`WakeInv`), and the handlers served are at least what main has
waited for, less one that it is still owed (`ServedInv`); main's toggle is over
before interrupts are enabled and the handler's copy of the register is current
while it modifies it (`ToggleInv`); `M_TIMER` is enabled only with `mtimecmp` at
or after the time asked for (`EarlyInv`). Hypotheses: `NoLongTimer` for
`TimerTrapNotEarly`, without which it is false (`LongTimer` below); `CountsBoth`
(`Wakeups` >= 2) for `PassedMeansServed`, since the history variable `served`
counts to `Wakeups` only and `gpio_test` waits for two. Assumed:
`DriversAssumption`, `InterruptsAssumption` (no test runs for half a register's
range).

`Sha2ContextProofs` proves, for every size of block, of byte and of message, that
any sequence of updates keeps `BytesAccounted`, `PartialBlockKept` and
`UnusedZeroed`. Their conjunction is inductive with the length typed
(`IInv`); the argument is arithmetic on whole blocks (`WholeConcat`: whole
blocks followed by the whole blocks after them) in each of update's three paths:
keep, complete, consume. Two results more rest on them. `UpdatesCount`: the two
words of the counter hold the length in bits modulo their range (`CountInv` says
what each word is), through the carry that SHA-256 and SHA-512 detect by comparing
the sum with what was added to (`CountTwoWords`, from the uniqueness of quotient
and remainder). `ContextsDigest`: update, final, and the one-shot hash of both
files implement `Digest`, every step a step or a stutter of it; the final function
is where the work is, and `FinalPadded` puts together the marker, the spill into
another block, the zeros and the bytes of the length, most significant first
(`Halves`, `ByteOfLow`), in the blocks the padded message falls into
(`PadBlockBytes`); `HashPadded` does it again for the one-shot form with its own
comparison. Induction over numbers is done with sets: `LeastElement` comes from the
library's theorem that < is well founded, and the powers of two are shown to exist
and to be unique with it (`Pow2Def`). Assumed: `BlockAssumption`.

`HashesProofs` proves three things about the hash functions. *The rounds of SHA-2*,
for any words and word functions and any multiple of 16
rounds: both unrolled functions return the standard's chaining value. The
invariant relates three things to the standard's history: the registers seen
through their renaming (`RegistersRotated`), the ring, which holds the last
sixteen words of the schedule although they are overwritten in place
(`RingIsSchedule`), and the control of the two loops (`Control`). `RoundIsMoved`
is the heart: a round of either macro, seen through the renaming, is the
standard's round; its proof is where addition has to be associative and
commutative (`PlusAssumption`). The other assumptions say that the functions
return words and that there are as many constants as rounds.

*The functions on words* (`WordsCorrect`): for every word of 32 and of 64 bits the
functions of the scalar files and of OpenSSL's macros are FIPS 180-4's, and
reading and storing big-endian words agree. A rotation is written as two shifts
(`RorTurns`), to the left in one of the headers (`RotateTurns`); moving the bytes
of a word end for end is followed bit by bit (`InEndForEnd`) and undoes itself
(`EndForEndTwice`).

*SM3* (`Sm3Correct`): for every message below `InputsAssumption`'s length, at full width. The
invariant `Sm3Inv` has three parts. `WorkInv`: the blocks compressed, those the
running call still has and the calls to come are together the blocks of the
padded message, in order. `sm3_256` gives its whole blocks to one call and pads
the rest in a buffer of 64 bytes, of which it may need two; the standard pads the
message. `CallsArePadded` shows they are the same: `PaddedIs` says what each byte of
the padded message is, `LastIsPadded` puts together the marker, the spill past 56
bytes, the zeros and the bytes of the length, none written above the highest that
is not 0 (`LengthAtEnd`). `ChainInv`: the state in memory is the chaining value,
its bytes reversed between calls (`ReversedTwice`, `LoadedIsBigEndian`). `RoundsInv`:
the registers are the standard's variables under their names of the round, the
sixteen words are the schedule's that are still needed (`RingApart`: a word
overwritten in place is not read again), and the round constant, which is
replaced after 16 rounds and turned by one bit after each, is the standard's
(`TurningOn`, with the 32-bit constants evaluated through their halves).
`RoundIsStandard` and `KeyIsStandard` compare a round and a schedule word; the
macros write the majority and the choice with other operators and add in another
order, so addition modulo 2^32 of words as sets of bits is proved commutative
(`AddCommutes`) and associative (`AddAssociates`, by induction on the bit with
`AllNumbers`). Assumed: `InputsAssumption`.

`CiphersProofs` proves about the ciphers as they are, at full width and with their
tables. `SchedulesAlwaysAgree`: for every key of each of the three sizes the two
expansions of AES hold the same words. `KeyInv` says that each array read so far
satisfies the recurrence of the standard in its own packing, and how many
iterations each loop has left before its early return (`IterationAgrees`,
`Counting`); that OpenSSL's lookups in `Te0` to `Te3`, masked and put together,
are `SubWord` of the rotated word is `RotatedIs` and `SubstitutedIs`, which follow
a byte through shifts, masks and rotations lane by lane. `Sm4DecryptionRetraces`:
for every key and block SM4's decryption under the reversed keys retraces the
encryption. The invariant has the history of the encryption (`TrailInv`), how far
the in-place reversal has come and what each half of the array holds (`SwapInv`),
and what the block functions return (`TextInv`). A Feistel round is undone by
itself: what is needed of the round function is that it returns words. Assumed:
`KeyAssumption` and `Sm4Assumption`, keys and blocks are arrays of bytes.

`AesProofs` proves, for every key of each size and every block, that OpenSSL's
AES implements the byte-wise one (`OpensslIsEcb`), that its decryption is before
each of its rounds at the block the encryption was at, substituted and shifted,
and so returns the plaintext (`DecryptionRetraces`, `RoundTrip`). There are three
parts. Lanes: `Agree` says that a lane of one word holds what a lane of another
does; every shift, mask, sum and product of `SubLong`, `InvSubLong` and
`XtimeLong` preserves it, since the mask after each shift clears what came from
the next lane (`KeepsAbove`, `KeepsBelow`), so the value of every byte of a word
is that of a word with this byte alone (`SubBytes`). Columns: the rotations and
swaps of OpenSSL's MixColumns, the `XT` macros of the other file, and the inverse
of both are sums of a byte doubled up to three times; doubling is linear
(`TwXor`), and the sums are compared (`MixedWordBytes`, `InvMixedWordBytes`) and
cancelled (`ColumnUnmixed`) without any table. States: `AesInv` says the words of
the key are complete and the state two words; each action maps to a step of
`AesEcb` (`EcbStep`), whose own invariant `RetraceInv` carries the history of the
encryption that the decryption walks backwards. Assumed: `BlocksAssumption`
(blocks are sixteen bytes) and `TablesAssumption`, three equations of the S-box
and its circuits for each of the 256 bytes, which has no parameter: TLC evaluates
it in full on every run of these modules. Hypothesis: `DecryptWith = "rk"`, what the
benchmark does; with the other key it is false (Known divergences).
`DecryptionKeys` needs no such hypothesis: for every key, what
`aes_set_decrypt_key` leaves is the key schedule of the standard's equivalent
inverse cipher. Its invariant `DkInv` says what the array holds in the middle of
each loop: the first half-swapped round keys, then, from the front, round keys
transformed word by word (`DkInvStep`). The products the loop stores are those
of the macros, the `Td` tables at `Te1`'s low byte among them (`TimesIs`,
`ProductsAreStored`).

Only model-checked:

- liveness, which is outside the prover: `EveryInstructionRetires`,
  `PlicTestCompletes`, `TextIsSent`;
- that the composed unit implements `PeRequestFlow` (`FlowSpec`);
- what is computed from tables, or by recursion over
  the data: `MatchesC`, `BufferHoldsPrefix` and
  the half of `KeySchedules` about SM4's published schedule, which compares constants
  (the other half is `DecryptionKeys`).

## Known divergences

Places where the code does not do what it, its comments or its tests say, beyond
the four runs above. Those in the table can be seen by changing one constant or line of a
configuration, or the definition of `InStep`, with the other properties of the
run taken out where they fail first (`DecryptRetraces` before
`DecryptReturnsPlaintext`):

| change | property that fails | what happens |
|---|---|---|
| `MaxStall` = 2 with `Kinds <- LongKinds` in `CryptoUnit_unit.cfg` | `FlowSpec` | the execution units take the next argument as the last bytes are assigned and `crypto_unit.sv:335` indexes the done bit with the next request's id |
| `CryptoEGS_4` = 2, `CryptoEGS_8` = 4 with `Kinds <- NarrowKinds` in `CryptoUnit_unit.cfg` | `FlowSpec` | as above without any wait: the two words of an SM3 group keep the write back busy while the next argument arrives |
| `InStep` without `~overtaken`, in `CryptoUnit_pressure.cfg` | `ArgsMatchRequest` | after an acknowledgement over waiting arguments (`operand_collector.sv:175`) the registers of the argument, of its request and of its scalar hold two requests |
| `InStep` without `Plain`, `Kinds <- FullGroupKinds` there | `AckAfterRead` | a group of MAXVL bytes has a 9-bit total of 0 (`operand_collector.sv:108`) and is acknowledged unread |
| `InStep` without `Plain`, `Kinds <- ScalarVstartKinds` there | `ArgsMatchRequest` | vstart is applied to the single group of a vector-scalar operand (`operand_collector.sv:318`) |
| `Kinds <- MidWordKinds`, `MaxReq` = 1 in `CryptoUnit_unit.cfg` | `EveryInstructionRetires` | vstart in the middle of a word: fewer bytes are fetched (`crypto_unit.sv:209`) than the collector waits for |
| `ProgramSet <- LongTimer` in `Interrupts_traps.cfg` | `TimerTrapNotEarly` | `set_timer` (`clint.c:12`) stores 64 bits through a 32-bit register macro and the timer trap comes early (`clint.h:25`) |
| `DecryptWith = "dk"` and the invariant `DecryptReturnsPlaintext` in `Ciphers_blocks.cfg` | `DecryptReturnsPlaintext` | the key expanded for decryption does not decrypt (the FIXME at `test_block_aes_128.c:143`), for the reason `not_aes` shows |
| the invariant `ExpandsAsPublished` in `Ciphers_blocks.cfg` | `ExpandsAsPublished` | `REV8_BE32` (`util.h:26`) is not parenthesised: `REV8_BE32(mkp[0]) ^ FK[0]` (`sm4_reference.c:78`) adds FK to its last term only, and the round keys are not those of `sm4_api.h:17`. Both directions use the same keys |

Found by reading, and left out of what the runs claim:

- `clint_test`'s software trap is never cleared (`main.c:43`): the level interrupt
  is taken again after every `mret`.
- `gpio_test` makes the edge before `wfi` (`gpio_test.c:65`); taken in between,
  the interrupt leaves nothing to wake up for.
- The handler of an exception returns to the instruction that raised it
  (`runtime.c:190`); `_fail` (`crt0.S:186`) is not reached from there.
- `uart_enable_irq` enables the interrupts whose argument is false
  (`uart16550.c:113` against `uart16550.h:132`).
- `printf`: an exact half that would carry into the whole part does not (`%.1f` of
  0.95, `printf.c:358`); a `long` in binary does not fit the conversion buffer
  (:45); a double beyond 2^31 prints nothing (:367); `snprintf`
  returns the length of the whole text when the buffer is too small, where
  `printf.h:77` promises `count`; `#` with zeros loses
  digits to the prefix (:190); `-` suppresses the zeros of a precision (:174);
  zero padding ends at 32 characters; a negative precision from `*` counts as 0;
  `%hhd` depends on plain `char`, which is unsigned here. `MatchesC` leaves these
  combinations out; `MCLibrary` says where.

## Not modelled

- The crypto functional units and `src/ip/crypto`: combinational arithmetic on
  128-bit blocks without state. The C models of the same ciphers are checked.
- The rest of the main sequencer, the dispatcher, the lanes and the operand
  requesters: they are Ara's, several thousand lines whose state TLC cannot
  enumerate together with the crypto unit. What they do to the unit appears as
  nondeterminism: broadcasts held or replaced at any time, words and grants at
  any time. Lanes that accept at different times are not told apart.
- `axi_shim.sv`, `entropy_source.sv` and the CSR file: CVA6's, without a client in
  the repository that would say what is expected of them.
- The vector assembly of the benchmarks (`.s`), the straight-line instruction
  tests (`basic_*`, `vector_addition`, `memcpy`), QSPI and LFSR utilities, memories,
  generated ROM contents, the debug system, submodules that are not in the
  repository.
- UART reception, functions of the drivers that no program calls.

Outside the prover: liveness, `ENABLED`, and induction theorems over a predicate;
where a proof needs induction over numbers it takes the least element of a set of
counterexamples. No module declares a `RECURSIVE` operator: loops over data are
actions or functions over finite domains. TLC evaluates a function each time it is
applied; `Tabulated` (in `Words`), which chooses the function from the set that has
only it, makes a table of it and means nothing to the prover.
