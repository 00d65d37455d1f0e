-------------------------------- MODULE Lockstep --------------------------------
(***************************************************************************)
(* Concurrent execution (sim/sim_concurrent.cpp): the functional core and  *)
(* a verilated core run the same program in lockstep.  Each iteration of   *)
(* the main loop executes one instruction on the functional core, clocks   *)
(* the verilated core until it reports one, compares the two reports, and  *)
(* emulates a system call for both.  The memory each core sees is its own  *)
(* (PrivateMemories): Memory_proofs shows that Memory provides that.       *)
(*                                                                         *)
(* The verilated core is RTL: its instructions are VExec, any set of       *)
(* outcomes, and it may stay silent for MaxStall cycles.  A report is      *)
(* taken in the EX stage of Kronos and in the MA stage of RVCoreP, so the  *)
(* store behind it is on the bus one cycle later or in the same cycle.     *)
(***************************************************************************)
EXTENDS FaultInjection

CONSTANTS
  MaxInsts,       \* the option -i
  VCORE_TIMEOUT,  \* cycles to wait for a report (1000)
  MismatchInsts,  \* the option -m, 0 without it
  MaxStall,       \* consecutive cycles without a report of the verilated core
  Deferred,       \* whether a store follows its report by one cycle: TRUE, FALSE
  None,           \* no report
  VExec(_, _)     \* VExec(arch, mem): outcomes of one verilated instruction

ASSUME LockstepAssumption ==
  /\ MaxInsts \in Nat /\ VCORE_TIMEOUT \in Nat \ {0} /\ MismatchInsts \in Nat
  /\ MaxStall \in Nat /\ Deferred \subseteq BOOLEAN /\ None \notin InstIF
ASSUME VExecAssumption ==
  \A a \in Arch, m \in Image :
    /\ VExec(a, m) \subseteq [arch : Arch, instif : InstIF]
    /\ VExec(a, m) # {} \/ MaxStall >= VCORE_TIMEOUT

VARIABLES
  fcore, vcore,   \* cores[0] and cores[1]
  fmem, vmem,     \* the memory as each of them reads it
  fhalt, vhalt,   \* their halt flags
  late,           \* the report whose store is not on vcore's bus yet, or None
  stage,          \* where the loop is: "fetch", "wait", "check", "done"
  i,              \* cycles vcore has run in this iteration
  log_buffer,     \* ring buffer of logs: the number of the logged instruction, or 0
  outcome,        \* the failure printed, "none" if there is none
  shown,          \* the logs shown on a mismatch, in order, 0 for none
  calls           \* the system calls emulated so far

vars == <<fcore, vcore, fmem, vmem, fhalt, vhalt, late, stage, i, log_buffer,
          outcome, shown, calls>>
hostVars  == <<log_buffer, outcome, shown, calls>>

Slots == 0 .. MismatchInsts - 1

TypeOK ==
  /\ fcore \in Core /\ vcore \in Core
  /\ fmem \in Image /\ vmem \in Image
  /\ fhalt \in BOOLEAN /\ vhalt \in BOOLEAN
  /\ late \in InstIF \cup {None}
  /\ stage \in {"fetch", "wait", "check", "done"}
  /\ i \in 0 .. VCORE_TIMEOUT
  /\ log_buffer \in [Slots -> Nat]
  /\ outcome \in {"none", "mismatch", "one stopped"}

Init ==
  /\ \E inst \in InitInsts : fcore = InitCore(inst)
  /\ \E inst \in InitInsts : vcore = InitCore(inst)
  /\ fmem = InitMem /\ vmem = InitMem
  /\ fhalt = FALSE /\ vhalt = FALSE
  /\ late = None /\ stage = "fetch" /\ i = 0
  /\ log_buffer = [s \in Slots |-> 0]
  /\ outcome = "none" /\ shown = <<>> /\ calls = <<>>

--------------------------------------------------------------------------------
LimitReached(cnt) == cnt >= MaxInsts

(* fcore's drive() and update(): one instruction, with outcome x. *)
FRetires(x) ==
  /\ stage = "fetch" /\ x.known
  /\ fcore' = Retire(fcore, x)
  /\ fhalt' = LimitReached(fcore.cnt_inst + 1)
  /\ stage' = "wait" /\ i' = 0
  /\ UNCHANGED <<vcore, vhalt, late, hostVars>>

(* ... and the memory's. *)
FExecute ==
  LET x == Exec(ArchOf(fcore), fmem)
  IN  FRetires(x) /\ fmem' = AfterInst(fmem, x.instif) /\ UNCHANGED vmem

(* An opcode fcore does not know: drive() fails after it cleared valid. *)
FFails(x) ==
  /\ stage = "fetch" /\ ~ x.known
  /\ fcore' = Unreported(fcore, fcore.instif)
  /\ fhalt' = TRUE
  /\ stage' = "wait" /\ i' = 0
  /\ UNCHANGED <<vcore, vhalt, late, hostVars>>

FUnknown == FFails(Exec(ArchOf(fcore), fmem)) /\ UNCHANGED <<fmem, vmem>>

SettledLost == vmem                          \* mutant: a store one cycle late is lost

(* vcore's memory once the store of its last report is on the bus. *)
Settled == IF late = None THEN vmem ELSE AfterInst(vmem, late)

LoopsTooOften(n) == n <= VCORE_TIMEOUT       \* mutant: off by one
LoopsForever(n) == TRUE                      \* mutant: no timeout

(* The condition of the inner loop, after n cycles. *)
Loops(n) == n < VCORE_TIMEOUT

(* A cycle of vcore without a report.  While inst_valid is low the outputs  *)
(* show the last instruction or one still on its way through the pipeline.  *)
VStalls(xs) ==
  /\ stage = "wait" /\ Loops(i) /\ i < MaxStall
  /\ \E inst \in {vcore.instif} \cup {x.instif : x \in xs} :
       vcore' \in Upset(Unreported(vcore, inst))
  /\ late' = None
  /\ i' = i + 1
  /\ stage' = IF Loops(i') THEN "wait" ELSE "check"
  /\ UNCHANGED <<fcore, fhalt, vhalt, hostVars>>

VIdle == VStalls(VExec(ArchOf(vcore), Settled)) /\ vmem' = Settled /\ UNCHANGED fmem

(* The cycle of vcore that reports instruction x ends the waiting; the      *)
(* store of x follows one cycle later (d) or is on the bus now.             *)
VReports(x, d) ==
  /\ stage = "wait" /\ Loops(i)
  /\ vcore' \in Upset(Retire(vcore, x))
  /\ late' = IF d THEN x.instif ELSE None
  /\ stage' = "check"
  /\ UNCHANGED <<fcore, fhalt, vhalt, i, hostVars>>

VRetire ==
  /\ \E x \in VExec(ArchOf(vcore), Settled), d \in Deferred :
       VReports(x, d) /\ vmem' = IF d THEN Settled ELSE AfterInst(Settled, x.instif)
  /\ UNCHANGED fmem

--------------------------------------------------------------------------------
(* Validator::validate.  Loads are compared by the address of the byte, not *)
(* by the data, which Kronos does not have yet in the EX stage; stores by   *)
(* the address and the masked data.                                         *)
MaskedOut(inst) ==                           \* mutant: the mask is inverted
  [l \in Lanes |-> IF l \in inst.d_wmask THEN 0 ELSE inst.d_wdata[l]]

Masked(inst) == [l \in Lanes |-> IF l \in inst.d_wmask THEN inst.d_wdata[l] ELSE 0]

Validate(fif, vif) ==
  /\ fif.pc = vif.pc /\ fif.ir = vif.ir
  /\ CASE Attr[fif.ir] = "load"  -> /\ fif.d_addr \div LANES = vif.d_addr \div LANES
                                    /\ fif.d_baddr = vif.d_baddr
       [] Attr[fif.ir] = "store" -> /\ fif.d_addr = vif.d_addr
                                    /\ Masked(fif) = Masked(vif)
       [] Attr[fif.ir] = "rd"    -> fif.result = vif.result
       [] OTHER -> TRUE

VStopsLate == vhalt \/ vcore.cnt_inst > MaxInsts \/ ~ vcore.instif.valid  \* mutant: off by one
VStopsAtLimit == vhalt \/ LimitReached(vcore.cnt_inst)      \* mutant: the timeout is ignored

(* vcore is stopped at the limit and when the waiting was in vain. *)
VStops == vhalt \/ LimitReached(vcore.cnt_inst) \/ ~ vcore.instif.valid

OldestOff == (fcore.cnt_inst + 1) % MismatchInsts            \* mutant: off by one

(* The slot of the ring buffer that is written next holds its oldest entry. *)
Oldest == fcore.cnt_inst % MismatchInsts

(* The entries of the ring buffer from the oldest on.  The k-th one is      *)
(* printed as the MismatchInsts + 1 - k-th last; nothing is for an empty one. *)
ShownLogs == [k \in 1 .. MismatchInsts |-> log_buffer[(Oldest + k - 1) % MismatchInsts]]

Disagree ==
  /\ stage = "check"
  /\ ~ Validate(fcore.instif, vcore.instif)
  /\ outcome' = "mismatch"
  /\ shown' = ShownLogs
  /\ fhalt' = TRUE /\ vhalt' = TRUE /\ stage' = "done"
  /\ UNCHANGED <<fcore, vcore, late, i, log_buffer, calls>>

Mismatch == Disagree /\ UNCHANGED <<fmem, vmem>>

(* The end of the body and the condition of the loop. *)
LoopOrStop(fh, vh) ==
  /\ fhalt' = fh /\ vhalt' = vh
  /\ stage' = IF fh \/ vh THEN "done" ELSE "fetch"
  /\ outcome' = IF fh # vh THEN "one stopped" ELSE outcome

SaveLog ==
  log_buffer' = IF MismatchInsts = 0 THEN log_buffer
                ELSE [log_buffer EXCEPT ![fcore.cnt_inst % MismatchInsts] = fcore.cnt_inst]

IsCall == fcore.instif.ir = Ecall

Agree ==
  /\ stage = "check"
  /\ Validate(fcore.instif, vcore.instif)
  /\ ~ IsCall
  /\ SaveLog
  /\ LoopOrStop(fhalt, VStops)
  /\ UNCHANGED <<fcore, vcore, late, i, shown, calls>>

Pass == Agree /\ UNCHANGED <<fmem, vmem>>

CallerReplica == vcore                       \* mutant: asks cores[1]

(* SysCall::read_reg: the arguments are those in cores[0]'s registers. *)
Caller == fcore

(* sys->emulate(), answering r: a0 goes to all the cores. *)
Emulates(r) ==
  /\ stage = "check"
  /\ Validate(fcore.instif, vcore.instif)
  /\ IsCall
  /\ SaveLog
  /\ fcore' = Returned(fcore, r.a0)
  /\ vcore' = Returned(vcore, r.a0)
  /\ LoopOrStop(fhalt \/ r.exit, VStops \/ r.exit)
  /\ calls' = Append(calls, [cnt |-> fcore.cnt_inst, reg |-> Caller.reg])
  /\ UNCHANGED <<late, i, shown>>

PassCall ==
  \E r \in Replies(Caller.reg, fmem) :
    /\ Emulates(r)
    /\ fmem' = Transferred(r.xfer, fmem, fmem)
    /\ vmem' = Transferred(r.xfer, fmem, vmem)

Next == FExecute \/ FUnknown \/ VIdle \/ VRetire \/ Mismatch \/ Pass \/ PassCall

Spec == Init /\ [][Next]_vars

(* The main loop is one thread; nothing in it waits for anybody else. *)
FairSpec == Spec /\ WF_vars(Next)

--------------------------------------------------------------------------------
(* Both cores hold the same state whenever an iteration starts, also after  *)
(* system calls whose results come from the functional core alone, and      *)
(* whether the verilated core's stores are early or late (correct vcore).   *)
InStep ==
  stage = "fetch" => /\ ArchOf(fcore) = ArchOf(vcore)
                     /\ fmem = Settled
                     /\ fcore.cnt_inst = vcore.cnt_inst

(* A verilated core that computes what the functional core computes, within *)
(* the timeout, is never accused: no mismatch is printed, and at the end of *)
(* the program or at the limit both cores stop in the same iteration.       *)
NoFalseAlarm == outcome = "none"

(* The instruction counters, each kept by its core, never drift apart, or   *)
(* the limit would stop one core only (any vcore).                          *)
CountsAgree == stage = "fetch" => fcore.cnt_inst = vcore.cnt_inst

(* While the run goes on, the stores that passed the Validator have had the *)
(* same effect on both memories, and system calls keep them equal, whatever *)
(* the verilated core's registers hold.  The Validator does not compare the *)
(* masks: for whole-word stores, or a vcore with the right masks.           *)
MemoriesAgree == stage = "fetch" => fmem = Settled

(* The loop never goes on from an iteration in which a core executed        *)
(* nothing: stale reports that happen to be equal stop it (any vcore).      *)
GoesOnOnlyAfterBoth ==
  [][stage = "check" /\ stage' = "fetch"
       => /\ fcore.instif.valid /\ vcore.instif.valid
          /\ fcore.cnt_inst < MaxInsts]_vars

(* A mismatch shows the last instructions before the failed one, each as    *)
(* what it is, the last, the last but one, and so on, as many as asked for  *)
(* or as there were; the ring buffer wraps and is not full at first         *)
(* (mismatch of an instruction fcore executed).                             *)
Numbered(n) == IF n > 0 THEN n ELSE 0

LastInstructions ==
  outcome = "mismatch" /\ fcore.instif.valid =>
    shown = [k \in 1 .. MismatchInsts |-> Numbered(fcore.cnt_inst - 1 - MismatchInsts + k)]

(* max_insts bounds the instructions executed. *)
AtMostMaxInsts == fcore.cnt_inst <= MaxInsts

(* No instruction is emulated twice. *)
CallsOnce == \A j, k \in DOMAIN calls : j < k => calls[j].cnt < calls[k].cnt

(* A run that prints no failure has had every instruction executed and      *)
(* reported by both cores, the last one too.                                *)
CleanEndIsChecked ==
  stage = "done" /\ outcome = "none" => fcore.instif.valid /\ vcore.instif.valid

(* The report a system call is emulated for is one (sim_concurrent.cpp:140  *)
(* does not test it): no ecall is followed by an instruction that fails.    *)
CallsReported == stage = "check" /\ IsCall => fcore.instif.valid

Reference == INSTANCE SingleRun WITH
  core <- fcore, mem <- fmem, halt <- (stage = "done"),
  stage <- (IF stage \in {"wait", "check"} THEN "finish" ELSE "cycle")

CutShort ==
  /\ stage = "check" /\ stage' = "done"
  /\ UNCHANGED <<fcore, fmem, calls>>

ReferenceStep ==
  \/ Reference!Execute
  \/ Reference!Unknown
  \/ \E stopped \in BOOLEAN : Reference!Finish(stopped)
  \/ CutShort

(* What the program and the host see is a single run of the functional      *)
(* core: the verilated core can only cut it short.                          *)
HostSeesReference == Reference!Init /\ [][ReferenceStep]_(Reference!vars)

(* Every run ends, even if the verilated core hangs or never exits: the     *)
(* timeout and the limit see to it (any vcore).                             *)
Termination == <>(stage = "done")

(* What a run has before it: the instructions up to the limit, none once    *)
(* fcore is halted, each worth VCORE_TIMEOUT + 3 steps, and the place in    *)
(* the iteration.  A limit of 0 lets one instruction pass.                  *)
Left == IF fhalt THEN 0 ELSE MaxInsts + 1 - fcore.cnt_inst

Place ==
  CASE stage = "fetch" -> 1
    [] stage = "wait"  -> VCORE_TIMEOUT + 2 - i
    [] stage = "check" -> 2
    [] OTHER           -> 0

Remaining == Left * (VCORE_TIMEOUT + 3) + Place

(* Every step, whatever the verilated core does, an unknown instruction,    *)
(* the system calls and the last iteration too, brings the end nearer: a    *)
(* run of the loop has at most (MaxInsts + 1) * (VCORE_TIMEOUT + 3) + 1     *)
(* steps (any vcore).                                                       *)
EveryStepCounts == [][Remaining' \in Nat /\ Remaining' < Remaining]_vars
================================================================================
