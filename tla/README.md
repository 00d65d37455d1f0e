# A verification of VeriCross in TLA+

VeriCross runs a program on a functional model of RV32I and, in lockstep, on the
RTL of a soft processor compiled by Verilator, and stops at the first instruction
at which the two differ. These modules model the simulator under `src/sim` and
what it needs of the cores; TLC checks them on small instances and TLAPS proves
the main results for every size.

All line numbers below and in `PROJECT.json` refer to the sources under `src/`.

## 1. The system

| Component | Source | State | Operations | Modules |
| --- | --- | --- | --- | --- |
| main memory | `sim/memory.cpp` | `mem`, a write buffer for the primary and each replica, the bus registers `if_prim`, `if_reps` | `drive`/`update`, `drive_replica`/`update_replica`, `read`, `write` | MemoryTypes, MemoryBus, PrivateMemories, Memory |
| concurrent execution | `sim/sim_concurrent.cpp` | the loop's place, both halt flags, the ring buffer of logs, the timeout counter | one iteration: functional instruction, verilated cycles, `Validator::validate`, mismatch report, log, system call | CoreTypes, Lockstep, ConcurrentSystem |
| single execution | `sim/sim_single.cpp` | the loop's place, the halt flag | one cycle, log, system call | CoreTypes, SingleRun, SingleSystem |
| functional core | `sim/functional_core.cpp` | `reg`, `pc`, `cnt_inst`, `instif`, `memif` | `drive`, `update`, `read_reg`, `write_reg` | FunctionalCore; its bus in CoreBus |
| decoder and log lines | `sim/riscv.cpp` | none (objects built per instruction) | constructor, `get_imm`, `get_log` | RiscV, and the log in FunctionalCore |
| system calls | `sim/syscall.cpp` | `fd_map`, `fd_next`, `brk_addr`, and the host's open files | `emulate` | ProgramFiles, SysCall; effects on cores and memories in Lockstep, SingleSystem and Memory |
| loader | `sim/loader.cpp` | the sections, the working directory | constructor, `make_jal` | Startup; `make_jal` in RiscV |
| command line | `sim/main.cpp` | the options, the cores, the log file | parse, construct, load, run | Startup |
| core interface, wrappers | `sim/core.hpp`, `core_wrapper/*_core.cpp` | the RTL model, `instif`, `memif`, `cnt_inst` | `reset`, `drive`, `update`, `read_reg`, `write_reg` | SingleSystem (call by call); the parameters `VExec`, `MaxStall`, `Deferred` of Lockstep |
| fault injection | `core_wrapper/kronos_core_faulty.cpp` | a random generator | `update`, `inject_fault` | FaultInjection, in Lockstep and ConcurrentSystem |
| processor cores, benchmarks, scripts | `core_patch`, `benchmark`, `eval`, `sim/test`, `Makefile` | | | not modelled |

`main` builds one Memory, one or two Cores and one SysCall, writes the loader's
sections to memory and calls one of the two main loops. There is a single
thread. What makes it hard is not interleaving of threads but of *calls*: in
concurrent execution two cores take turns on one memory, at different speeds,
and every piece of state exists twice, or once but seen by two: the memory (one
array and two write buffers), the instruction counters, the halt flags, the
registers a system call reads (from one core) and writes (to all). The
verilated core may be slow, silent or wrong, which is what VeriCross is for.

What has to be right, component by component:

* main memory: the write buffers do not show; each core sees a memory of its own.
* concurrent execution: a correct core is never accused; a wrong one does not
  spoil what the functional core, the program and the host see; the run ends;
  counters, halt flags and the limit agree; the report shows the right instructions.
* single execution: the program runs one instruction after the other on every
  kind of core, whenever its pipeline puts a store on the bus; one system call per
  ecall; an end.
* functional core: it is RV32I. Writing registers in place, x0 too, and words
  under masks must not show.
* decoder: immediates put together from pieces are those the format defines.
* system calls: the program's descriptors lead to the program's files, the
  simulator's own stay open and out of reach, virtual time is that of the instructions.
* loader: the program is in the memory as it was linked, execution gets to `_start`.
* command line: the right cores, in the right order and directory.

The list of hazards, each at its line, is `hazards` in `PROJECT.json`.

## 2. The modules

```
MemoryTypes ── MemoryBus ─┬─ PrivateMemories   (abstract: a memory per core)
    │                     ├─ Memory            refines PrivateMemories
    └─ CoreTypes ─┬───────┴─ CoreBus           (an instruction on the bus)
                  ├─ SingleRun                 (abstract: one instruction after the other)
                  └─ FaultInjection ── Lockstep           refines SingleRun, cut short at most
Memory, FaultInjection, CoreBus ── ConcurrentSystem       refines Lockstep
Memory, CoreBus ── SingleSystem                           refines SingleRun
Words ─┬─ RiscV ── FunctionalCore              refines RV32I
       └─ Encoding ── RV32I                    (abstract: the manual)
SysCall                                        refines ProgramFiles
Startup
```

`MCMemory`, `MCLockstep`, `MCConcurrentSystem`, `MCSingleSystem` (the last three with
the programs in `MCProgram`), `MCFunctionalCore`, `MCSysCall` and `MCStartup` give
the constants values for TLC. A module `X_proofs` holds the proofs about `X`.

### Memory

`mem` is the array, `wb[c]` the `std::map` of core `c` (Absent: no entry),
`rdata[c]` the read data in `if_prim` or `if_reps[c]`. The actions are the calls
the main loops make: `PrimaryCycle` is `drive` and `update` together (nothing
but the core's own `update` comes between them), `ReplicaCycle` is
`drive_replica`, `update_replica` and the `cleanup_wb` in it, `Transfer` the
public `write` of the loader and the system calls. The public `read` has no
effect and is `Seen`. Words have LANES lanes of values in Byte, addresses wrap
at NADDRS and around the array as in the code. Instruction and data reads of
one cycle see the memory before its store; a request with both `d_re` and
`d_we` reads (`else if` in `update`).

`PrivateMemories` is the promise: each core has a memory of its own, on which
only its stores and the transfers act. A transfer of single bytes gives *every*
core the primary's neighbours of the byte (`write_1b` reads the primary's word
and writes it everywhere): it is part of the promise because it is what the
code does, and harmless because the memories are equal when it happens
(MemoriesAgree).

Which byte of a transfer lands in which lane (`Overlay`) is one definition, used by
Memory and by the promise: the checks show that the byte loop and the write buffers
go together, at unaligned addresses and around the end in `concurrent`, and not that
the loop puts each byte in its place.

### SingleRun and Lockstep

`SingleRun` is what a program and a host may expect of a run: one instruction
after the other on a memory, each followed by its system call if it is an ecall,
until an exit, an unknown instruction or the limit. No code has it as it stands;
it is the specification of both main loops.

In `Lockstep` the memory each core sees is a value of its own (`fmem`, `vmem`).
Instructions are the parameters `Exec` (the functional core: a function) and
`VExec` (the verilated core: any set of outcomes), the host is `Replies`. An
iteration of the loop is

* `FExecute` or `FUnknown`: lines 69-77,
* any number of `VIdle` (a cycle without a report; the outputs show the last
  instruction or one that is still in the pipeline) and at most one `VRetire`: 79-90,
* `Mismatch`, `Pass` or `PassCall`: 91-142, and the condition and the last message.

A report is taken in the EX stage of Kronos and in the MA stage of RVCoreP, so
a store can be on the bus one cycle after its report (`late`, chosen by
`Deferred`) or in the same cycle. After each of its cycles the faulty core may
lose a bit (`Upset`, in FaultInjection). The ring buffer holds, per slot, the
number of the logged instruction: that is what tells the entries apart.

Each action consists of a part for the loop and the cores (`FRetires`, `FFails`,
`VStalls`, `VReports`, `Disagree`, `Agree`, `Emulates`) and one for the memories,
so that ConcurrentSystem can put the shared memory in the place of the second.

`HostSeesReference` maps `fcore` and `fmem` to the core and memory of SingleRun,
the verilated core's cycles to stuttering, and adds `CutShort`: the verilated
core can end the run between an instruction and its system call.

### ConcurrentSystem

The main loop on the real memory: `Loop` is Lockstep with `Seen(Prim)` and
`Seen(Rep)` for the memories, and each action does to Memory what the code does,
a bus cycle of the primary, of the replica, or a transfer. A late store is on
the bus in the next cycle, whatever that cycle reports; in a cycle without a
store the verilated core's bus carries any request that is none. `LoopSpec` says
that all this is Lockstep: what is shown of it holds of the program.
`HostSeesProgram` draws the conclusion that counts: on the shared memory, too, the
program and the host see one run of the functional core.

### SingleSystem

Single execution call by call: `mem->drive`, `core->drive`, `mem->drive` again,
`core->update` and `mem->update`, the body. The cores are the functional one and
verilated ones behind `KronosCore` and `RVCorePCore`: registers that change at
`Edge`, outputs (`Bus`, `Report`) that follow the registers and the read data.
This is where the order of the calls matters: the memory latches the bus twice in
an iteration, as the functional core writes its interface in `drive` and a
verilated one's outputs settle there. `MtvecOverride` is how `KronosCore::update`
sends an ecall on behind itself. Both designs of `MCSingleSystem` are small
pipelines with the reports and bus cycles of the originals, not the originals.

`RunSpec` maps it to SingleRun. The mapping has to say what a core has executed
while its load waits for data and its store for the bus (`Executed`, `Settled`), and
that a report which was on the interface before its first use is owed no store
(`Owed`). `DesignConforms` is what a verilated design has to do for it: report the
instructions in order, have the store of each on the bus by the edge behind its
report, and have its registers ready at an ecall. It speaks of the design's
outputs only; when they are latched, served and overridden is the code's part.

### Startup

`main()` up to the main loop, with the constructor of Loader. The working
directory is state: base_dir is relative, entered by the loader, left on each of
its ways out and entered again by main, after the log file was opened. Addresses
count words; a line of the objdump file is the function header in it. The
sections are written in their order, over the end of the memory too.

### FunctionalCore and RV32I

A word is the set of the positions of its ones (`Words`): masks are
intersections, shifts move positions, and words keep their 32 bits. Everything
the code computes with integers of C++ is in Words, marked external; an
assumption that TLC evaluates (`WordsAreNumbers`) checks it against numbers, on
words of few bits, as TLC's integers have 32; a theorem (`WordsCompute`) does for
all words.
`Execute` is a whole `drive()` of a known instruction and the memory's `update()`;
`Unknown` is a `drive()` that fails. RiscV is the decoder, with the order of its
tests and its neglect of the other bits of funct7.

RV32I and Encoding are written from the manual's side: instructions are records
of operands that are laid out in words by format, x0 is never written, and
memory is bytes. Words with no listed encoding and misaligned accesses may do
anything. `ImplementsISA` maps the words of memory to bytes. The instructions that the
manual's side considers (`Listing`) have operands their formats can hold (`Legal`).

### SysCall

`fd_map`, `fd_next`, `brk_addr`, the halt flags and the descriptors that the host
has open (`host`). The actions are the cases of `emulate`; lseek, read and write
differ only in what they transfer and are one action. As in `std::map`, looking
up an unknown descriptor enters it with value 0. The host opens a file at its
lowest free descriptor, or fails. What else is open when the program starts, the
log of the option `-l` for one, is `Private`, at any descriptors above the standard
ones. `told` has the times last told to the program, those of files in a `struct stat`
and that of day by gettimeofday, in seconds since the base of `vtime` and what the
code writes behind them, which is nanoseconds in both. `owned`
and `proper` are not in the code: they are the program's view, the
files at the descriptors it has open and whether it has kept to them; `reached` is
what the host acted on in the last call with a descriptor.

`ProgramFiles` is the promise, without tables and numbers of the host: open gives
a number that was never given before, a program that uses the descriptors it has
open reaches the files it opened there and can close them, and one that does not
reaches its own files or the standard streams, never what is private. `ProgramsFiles`
maps `owned` and the numbers below `fd_next` to it.

## 3. What TLC checks

| Run | Question | Bounds |
| --- | --- | --- |
| memory_two_replicas | three cores: the same effects as on memories of their own, call by call; commit and clean-up | one word of one lane at two addresses, all requests and transfers |
| lockstep | a verilated core with faults of its own and injected ones; all safety properties, what the host sees, that every step brings the end nearer, termination | 13 instructions, timeout 2, ring of 3, a fault every 2 instructions, one register, one word of two lanes |
| lockstep_correct | a correct verilated core is in step and never accused | 12 instructions, stalls up to 2 of timeout 3 |
| lockstep_masks, lockstep_hang, lockstep_stale_call | the findings in section 5 | small programs |
| concurrent | the loop on the shared memory is the loop on private ones; what the host sees; the primary's buffer is emptied | 10 instructions, timeout 2, two words of two lanes, three kinds of faults |
| single | the functional core and two designs behind the wrappers: one instruction after the other, one call per ecall, one clock, what the proof asks of a design, an end, and that only silence puts it off | 18 instructions, two words of two lanes |
| startup | options, directories, cores, sections | command lines of up to two of 14 options, four directories, seven programs, memory of 8 words |
| isa | the functional core is RV32I | 32-bit words, 16 words of memory, four settings of the registers, each instruction with the operands that matter, and an instruction that reads back what it did |
| isa_jalr | finding | programs with `jalr x1, 0(x1)` |
| syscall | descriptors as ProgramFiles promises them, streams, private descriptors, time | two files, five host descriptors, any of the last two private, six numbers used as descriptors, five instructions of time, two to a second |

Why these bounds are enough to meet the interesting cases. In Memory, words do
not influence each other except through a transfer over several of them, so one
word shows every order of stores, clean-ups and transfers; two replicas
are needed for a word that only some cores have buffered. Partial stores, several
words and transfers across words and around the end of the memory are met in
`concurrent`, where the program stores single bytes and whole words, early and
late, around system calls that write. In Lockstep the loop of the
program is passed several times, the ring buffer (3) wraps, a stall can be
shorter than, as long as and longer than the timeout, every instruction can
go wrong in five ways, and faults are injected in reporting and silent cycles.
The program of `single` has calls in a row, a load whose value the next instruction
needs, stores around it, a branch back and an unknown instruction at the end.
In Startup every option is there with a good and, where there is one, a bad
argument; the digits of `-i` are more than a `long long` holds, or the product with
the suffix overflows; the programs fit, lie over the entry, are longer than the
memory, start at 0, lack `_start`, a file or most of the stack.
In FunctionalCore each instruction is tested between two
that set its operands and one that reads; the operands have signs of all
combinations, the highest bit, overlaps of rd with rs1, every byte lane, and
immediates at the ends of their ranges. In SysCall five host descriptors leave
two for files, so they run out and are given away again. TLC does not check
deadlock where the run comes to a proper end; the memory runs do not end.

**Fairness.** `FairSpec` of Lockstep and `SysFairSpec` of SingleSystem assume weak
fairness of the whole next-state relation only: the loop is one thread that waits
for nothing, so a step it can take it takes. In `lockstep` this is enough for
`Termination`, because the timeout bounds a silent core and the limit bounds the
program: by `EveryStepCounts` each step takes from a number, so that a run that goes
on takes finitely many. That half is a safety property and proved; the other half is
that a run which has not ended can take a step (TLC, no deadlock before the end) and
by fairness does. `sim_single` has no timeout (hazard at `sim_single.cpp:17`), and nothing
is assumed about the RTL: `EndsUnlessSilent` says that the run ends or the
verilated core stops reporting for good. SingleSystem's `EveryStepCounts` is its safe
half: no step but a cycle without a report leaves the remaining calls as many.

Every property has a mutant: a variant of one modelled definition, in the
module next to it and marked `mutant`, under which the same run finds the property
violated.

## 4. What is proved

All proofs are for every value of the constants, from the named assumptions of
the modules (types of parameters, positive sizes) and those named below.

* **Memory_proofs.** `TypeCorrect`; `CallsArePrivate`: call by call
  the memory acts on each core's view as PrivateMemories says; `Refinement`: Memory
  implements PrivateMemories, for any number of replicas; `CommittedValueIsPrimary`
  and `NothingLeft`, about the clean-up. The key lemma is `CleanUpInvisible`:
  committing the primary's value and dropping the entries equal to it changes what no
  core reads. It needs that without replicas the buffers are empty, an invariant of
  its own.
* **CoreTypes_proofs.** Lemmas: what instructions, transfers and injected faults
  do to cores and images.
* **Lockstep_proofs.** `TypeCorrect`; `LoopInvariant`, the loop's book-keeping at
  each place for *any* verilated core: halt flags, counters and validity go
  together. CountsAgree alone is not inductive, since in mid-iteration the
  counters differ by one or both cores may not have reported. From it follow
  `CountersAgree`, `LimitKept` (for `MaxInsts > 0`; with a limit of 0 one
  instruction is executed), `BothTookPart` and `StepsUsedUp`: a run has at most
  `(MaxInsts + 1) * (VCORE_TIMEOUT + 3) + 1` steps, whatever the verilated core does. With `AllKnown` (the program consists
  of known instructions) and `CorrectVcore` (it computes what the functional core
  does, within the timeout, without faults) `StepInvariant` gives `CorrectVcoreInStep`
  and `CorrectVcoreNotAccused`. `LastShown`, for every option -m: `RingInv` says
  what each slot holds from the next to be written on, which moves by one with every
  logged instruction and lags by one in mid-iteration; it rests on lemmas about
  remainders, proved from division. `MemInv` gives `PassedStoresAgree` under
  `MasksSound` alone: stores that pass the Validator have the right masks. Without it
  the property is false (finding below). `HostSeesOneRun`:
  `Spec /\ []CallsReported => HostSeesReference`, concurrent execution implements
  SingleRun up to being cut short, whatever the verilated core does and whichever
  faults are injected. `CallsReported` is the test that `sim_concurrent.cpp:140` lacks
  (finding below); without it the stale ecall refutes the property. A program keeps to
  it unless an ecall is followed by an instruction the functional core fails at; one of
  known instructions always does (`AllReported`, corollary `HostSeesKnownProgram`).
* **ConcurrentSystem_proofs.** `LoopOnSharedMemory`: the loop on the shared memory
  implements Lockstep, for every program, memory size, host and verilated core. Each
  action is split as in the module; the memory's half is `Memory_proofs`, used and
  not only cited, and `CleanUpInvisible` again carries it. `PrimaryBufferDrained`: at
  the head of an iteration the primary's buffer holds at most the word of a store
  that the verilated core still owes, for any verilated core. `DrainInv` follows a
  word through the iteration: it comes in by the functional core's store and leaves
  with the store behind the report that passed, or the Validator ends the run.
  The other theorems say of the composition what Lockstep_proofs says of the loop.
  They are not proved again: `Proved` is an instance of Lockstep_proofs with the two
  views of the shared memory for the two memories, `LoopMeets` proves the assumptions
  its theorems rest on from those of ConcurrentSystem, and `LoopIsProved` that every
  run of the composition is one of the instance. So `AnyCoreOnSharedMemory` (counts,
  both cores taking part, the instructions shown) and `StepsUsedUpOnSharedMemory` hold for
  any verilated core; `CorrectCoreOnSharedMemory`: a correct one stays in step and is
  never accused, under `AllKnown` and `CorrectVcore` as above; `CoresReadTheSame`: under
  `MasksSound` both cores read the same at the head of an iteration, whatever each has
  buffered; `ProgramOnSharedMemory`: under `[]Loop!CallsReported`, what the program and
  the host see of the composition is a run of the functional core, cut short at most,
  and `KnownProgramOnSharedMemory`: under `AllKnown` without that proviso.
* **Startup_proofs.** `TypeCorrect` and the four safety properties, for all known
  cores, command lines, directories and programs (`OptionsAssumption`: options come
  with the arguments getopt_long gives them; `FilesAssumption`: files that can be
  opened hold words, or function headers; `JalAssumption`: make_jal returns a word).
  `TypeCorrect` covers the sections (none or three, of words) and the memory (a
  number at each word). `LoadedAsLinked`: the contents of each word, whatever the
  sections overlap and however often they go round the memory, and the break
  address, for programs whose first function is not at 0 (the code takes 0 for not
  found yet, hazard at `loader.cpp:73`). The inductive invariant `IInv` has four
  parts next to the types. `Read`: what is left of the command line, and the log.
  `Chosen`: behind the options, the cores are those they ask for. `Places`: the
  working directory at each step is the one started in or base_dir, and the program
  is base_dir's. `Loaded`: the memory is empty until the sections are written, which
  are the program's, and an image of them in their order from then on.
  `RunsInBaseDir` and `ProgramLoaded` alone say nothing of the steps before the run
  and are not inductive.
* **SingleSystem_proofs.** `SysTypeCorrect`; `ClockedTogether`: at each edge of a
  verilated core the memory serves the request its outputs show on the data of the
  edge before; `Settles` says what the buses hold at each of the five calls.
  `EachCallOnce`: no ecall is emulated twice; `CallsInv` says that a report which is
  still fresh is one past every call so far. `StepsUsedUp`: every call but the last of
  an iteration without a report takes from what is left of the limit; `StepInv` says
  that the count is past the limit only where the loop stops or is about to, and that
  the functional core reports nothing only when it has failed. `OneRunWhateverTheCore`:
  `SysSpec /\ []DesignConforms => RunSpec`. For the functional core the hypothesis is
  empty, so there the theorem is unconditional; for a verilated core `RunSpec` cannot
  follow from the interface alone, as RTL may report what it likes. TLC checks
  `DesignConforms` on both designs of the run with the wrapper around them. Without
  the second latch of the bus it is violated; without the mtvec override it holds
  and `RunSpec` does not. `RunInv` ties the functional core's request, its report and
  `fail` together within the iteration; `EdgeRetires` is the edge of a conforming
  design, whose store may be served at the edge that reports it (`StoredTwice`) or
  at the next. `CallAssumption`: a program goes on behind its ecall.
* **FunctionalCore_proofs.** `CoreIsRV32I`: `Spec /\ []RegularJalr => ImplementsISA`, for
  every program, memory size, entry and listing of legal instructions: each cycle
  of the core is the manual's instruction. `RegularJalr` is the one thing asked of
  the program: a jalr has two different registers and an even target. Without the
  first the property is false (finding below, run `isa_jalr`); the second is a mask
  the code lacks (hazard at `functional_core.cpp:101`). The programs of run `isa` keep
  to both. The proof goes along the instruction: `InstructionsDecoded` (name,
  registers, immediate and target from the words the manual lays out;
  `AlternateBit`: among legal words one bit of funct7 is enough), `ByteAddress` and
  `GatherIsField` (the manual's bytes in the lanes of aligned words), `LoadsAgree`,
  `AluAgrees` with `SignDecides` (signed comparison by the highest bits) and
  `ShiftsAgree`, `TargetAgrees`, `WrittenBack` (x0 written and cleared is x0 not
  written), `StoresAgree` (a masked word is the bytes stored). Words are sets of
  bits, so all this is proved position by position. `LogLinesAreTrue`: the log
  line's second reading of memory shows what the instruction did: loads, except of
  halfwords at odd addresses (hazard at `functional_core.cpp:101`); the word a store
  left in memory, at any address; and in it the bytes of rs2 at the place addressed, if
  the address is a multiple of the size. `TypeCorrect` includes that x0 is zero between instructions.
  `ImmediatesDecoded`: for all five formats and every immediate, decoding what the
  manual's layout encodes gives the immediate back; `LoaderJumpDecoded`: the same
  for the jump `make_jal` makes. `ProgramEntered`: the first instruction gets to
  `_start`, for every aligned entry from which it is within reach of a jal
  (`ReachAssumption`; nothing in the code tests the reach). Word addition is defined
  by its carries; `CarryStep` and `PlusMinus` show bit by bit that adding the
  difference of two addresses gives the second. `WordsCompute`: the model's addition,
  subtraction and comparisons are those of `uint32_t` and `int32_t`, addition and
  subtraction modulo 2^32, and a word stands for one number. The number of a word
  is that of its four octets, so that no induction is needed: the adder is followed
  bit by bit through an octet and then octet by octet.
* **SysCall_proofs.** `TypeCorrect`, `StandardKept` and `FilesKept`. `OwnFiles` is
  not inductive: `OwnInv` adds that the program's descriptors lead to different
  ones of the host and that `fd_next` is above all of them. `PrivateKept`: no number,
  opened, closed or made up, leads to a private descriptor; an entry of `fd_map` is
  made for a descriptor that the host has just given or is 0, and private descriptors
  are never given again. `PromiseKept`: SysCall implements ProgramFiles, call by call
  (`ClosesOrMisuses` and its neighbours), from the same invariant
  with `PrivateInv`. `TimeOfInstructions`: the
  timestamps of files, a quotient and a remainder of the instruction count, are that
  count in nanoseconds and advance; the seconds told never go back. The time of day,
  read in microseconds as newlib does, does go back at each turn of a second
  (section 5); proved is that it is never behind the instructions and at most
  `(NSEC - 1) * (SECOND - 1)` microseconds ahead.

Only model-checked: `Termination` and `EndsUnlessSilent`, which are liveness under
fairness, out of this prover's reach, and of which the safe half is proved;
`DesignConforms`, which is a contract for RTL and a hypothesis of the theorem that
needs it; and the properties that the code violates, each of which has a theorem
with the hypothesis that is missing (`CoresReadTheSame`, `PassedStoresAgree` under
`MasksSound`, `ProgramOnSharedMemory` under `CallsReported`, `CoreIsRV32I` under
`RegularJalr`), but for `CleanEndIsChecked`.

## 5. What the code does otherwise

Four runs end in a violation of what the repository says of itself; details in
`findings`.

1. `lockstep_masks`: the Validator compares stores by masked data, not by masks
   (`sim_concurrent.cpp:37`). A zero byte stored too much or too little passes.
2. `lockstep_hang`: a verilated core that hangs at the last instruction with its
   outputs showing it is validated though it never reported (`sim_concurrent.cpp:91`).
3. `lockstep_stale_call`: when both cores fail after an ecall, the ecall is still in
   both reports and is emulated again (`sim_concurrent.cpp:140`; `sim_single.cpp:30`
   has the missing test).
4. `isa_jalr`: `jalr` with rd = rs1 jumps to pc + 4 + imm (`functional_core.cpp:64`).

Findings without a run, listed as hazards: nanoseconds in the microseconds of
gettimeofday, so that the time of day goes back each second (nothing in the repository
says what the field is; `TimeTold` bounds how far it is off), lseek with negative
offsets, and faults injected in every cycle while the count stands at a multiple of
a million. The last is in the model (`Upset`): the comment at `kronos_core_faulty.cpp:28` speaks of one fault every
million instructions, but the properties of `lockstep` hold with the bursts.

## 6. What is not modelled

The RTL: its own pipelines, the signals between it and its wrapper in
`kronos_top.sv` and `rvcorep_main.sv`, and `core_patch`. The two designs that TLC
runs report in the stage, and put stores on the bus in the cycle, that the top
modules take them from; the theorems hold for any design with that interface. In
Lockstep and ConcurrentSystem the store on the verilated core's bus is the one in its
report, as the top modules take the two from the same signals (`kronos_top.sv:70`,
`rvcorep_main.sv:70`).
Mnemonics and the wording of logs and usage texts; the statistics printed at the
end. The contents of files, paths and buffers, the layout of `struct stat`, flags
of `open` and file positions. Benchmarks, tests, evaluation scripts and build files.

Undefined behaviour: a shift by an immediate of 32 or more (only from an
encoding RV32I does not have) is taken as the shift of x86; reports and buses
before their first use are uninitialised, and `InitInsts` and `Requests` stand for them.

## 7. Plan

Done, in this order: memory, main loop, functional core, decoder and the tables of
system calls with their first proofs; fault injection; the loop on the shared
memory; single execution call by call with the wrappers; the command line and the
loader; the entry into the program, the ring buffer and the clock proved.

Proved since: start-up, the functional core as RV32I, its log lines, and single
execution as SingleRun; that no step of either main loop is for nothing; the
descriptors as the program sees them (ProgramFiles), and what is private out of its
reach; words as numbers modulo 2^32; and all of Lockstep's results on the shared
memory, a correct verilated core among them. Every safety property of a passing run
is a theorem, except the one that is asked of a design.

Left:

1. SysCall: lseek's positions, with offsets of 32 bits and results cut to int.
2. A contract like `DesignConforms` in ConcurrentSystem, so that what is shown of a
   correct verilated core holds of a design with its registers and bus, not of
   `VExec`.
