------------------------------ MODULE SingleSystem ------------------------------
(***************************************************************************)
(* Single execution (sim/sim_single.cpp) of the functional core or of a    *)
(* verilated one (core_wrapper/), on the main memory: the calls of an      *)
(* iteration one by one.  A verilated core is RTL whose outputs follow its *)
(* registers and inputs without a clock, so the order of the calls decides *)
(* what reaches the memory.                                                *)
(***************************************************************************)
EXTENDS Memory, CoreBus

CONSTANTS
  Models,          \* the cores to choose from: "functional", "kronos", "rvcorep"
  Rtl,             \* what the registers of a verilated design may hold
  AfterReset(_),   \* AfterReset(m): its registers after a cycle of reset
  Bus(_, _, _),    \* Bus(m, s, r): its memory outputs in state s, reading r
  Report(_, _, _), \* Report(m, s, r): its instruction outputs
  Edge(_, _, _),   \* Edge(m, s, r): its registers after the clock edge
  TrapTo(_, _),    \* TrapTo(s, pc): mtvec overridden
  Behind(_),       \* Behind(pc): pc + 4
  RtlReg(_),       \* RtlReg(s): its register file
  RtlReturned(_, _),     \* RtlReturned(s, a0): a0 written
  RtlArch(_, _, _, _),   \* RtlArch(m, s, r, mem): what it has executed, for the reader
  MaxInsts         \* the option -i

ASSUME SingleAssumption == Reps = {} /\ MaxInsts \in Nat
ASSUME RtlAssumption ==
  \A m \in Models \ {"functional"} :
    /\ AfterReset(m) \in Rtl
    /\ \A s \in Rtl :
         /\ RtlReg(s) \in [Reg -> Val]
         /\ \A pc \in PC : TrapTo(s, Behind(pc)) \in Rtl
         /\ \A a0 \in Val : RtlReturned(s, a0) \in Rtl
         /\ \A r \in ReadRegs : /\ Bus(m, s, r) \in Request /\ Report(m, s, r) \in InstIF
                                /\ Edge(m, s, r) \in Rtl

(* An ecall is executed by going on behind it (functional_core.cpp:46). *)
ASSUME CallAssumption ==
  \A a \in Arch, m \in Image :
    LET x == Exec(a, m)
    IN  x.known /\ x.instif.ir = Ecall => x.arch.pc = Behind(x.instif.pc)

VARIABLES
  model,     \* the option -c, "functional" without it
  core,      \* an Arch of the functional core, the registers of a verilated one
  inputs,    \* top->mem_i_rdata and mem_d_rdata
  memif,     \* core->memif without the read data, which are rdata[Prim]
  if_prim,   \* Memory's copy of it
  instif, cnt_inst, halt,
  fail,      \* local to the iteration
  step,      \* the next call
  calls      \* the system calls emulated so far: instruction count and registers

sysVars == <<vars, model, core, inputs, memif, if_prim, instif, cnt_inst, halt, fail, step, calls>>

Functional == model = "functional"

SysTypeOK ==
  /\ mem \in Image /\ rdata \in [Cores -> ReadRegs]
  /\ model \in Models
  /\ core \in IF Functional THEN Arch ELSE Rtl
  /\ inputs \in ReadRegs
  /\ memif \in Request /\ if_prim \in Request
  /\ instif \in InstIF
  /\ cnt_inst \in Nat
  /\ halt \in BOOLEAN /\ fail \in BOOLEAN
  /\ step \in {"latch", "drive", "relatch", "update", "body"}

(* The constructors and reset(); the buses hold anything before their use. *)
SysInit ==
  /\ mem = InitMem
  /\ wb = [c \in Cores |-> [w \in Words |-> Absent]]
  /\ rdata = [c \in Cores |-> [i_rdata |-> Zero, d_rdata |-> Zero]]
  /\ model \in Models
  /\ core = IF Functional THEN InitArch ELSE AfterReset(model)
  /\ inputs = rdata[Prim]
  /\ memif \in Requests /\ if_prim \in Requests
  /\ instif \in InitInsts
  /\ cnt_inst = 0 /\ halt = FALSE /\ fail = FALSE
  /\ step = "latch" /\ calls = <<>>

--------------------------------------------------------------------------------
LatchedEarly == IF step = "latch" THEN memif ELSE if_prim  \* mutant: no second drive()

Latched == memif

(* Memory::drive(), before the core's drive() and after it. *)
Latch ==
  /\ \/ step = "latch" /\ ~ halt /\ fail' = FALSE /\ step' = "drive"
     \/ step = "relatch" /\ step' = "update" /\ UNCHANGED fail
  /\ if_prim' = Latched
  /\ UNCHANGED <<vars, model, core, inputs, memif, instif, cnt_inst, halt, calls>>

(* drive() of the functional core executes an instruction. *)
FunctionalDrive ==
  /\ step = "drive" /\ Functional
  /\ LET x == Exec(core, Seen(Prim))
     IN  \/ /\ x.known
            /\ core' = x.arch
            /\ instif' = [x.instif EXCEPT !.valid = TRUE]
            /\ memif' = Access(x.instif, memif.i_addr)
            /\ cnt_inst' = cnt_inst + 1
            /\ UNCHANGED fail
         \/ /\ ~ x.known
            /\ instif' = [instif EXCEPT !.valid = FALSE]
            /\ memif' = NoAccess(instif, memif.i_addr)
            /\ fail' = TRUE
            /\ UNCHANGED <<core, cnt_inst>>
  /\ step' = "relatch"
  /\ UNCHANGED <<vars, model, inputs, if_prim, halt, calls>>

(* drive() of a verilated core lets the outputs settle on the read data. *)
VerilatedDrive ==
  /\ step = "drive" /\ ~ Functional
  /\ inputs' = rdata[Prim]
  /\ memif' = Bus(model, core, inputs')
  /\ step' = "relatch"
  /\ UNCHANGED <<vars, model, core, if_prim, instif, cnt_inst, halt, fail, calls>>

(* Kronos takes an ecall for a trap: it is sent on behind the instruction. *)
NoOverride(s, inst) == s               \* mutant: KronosCore::update without it
MtvecOverride(s, inst) ==
  IF model = "kronos" /\ inst.valid /\ inst.ir = Ecall
    THEN TrapTo(s, Behind(inst.pc)) ELSE s

(* update() of a verilated core: the clock edge. *)
VerilatedUpdate ==
  LET s == Edge(model, core, inputs)
  IN  /\ instif' = Report(model, s, inputs)
      /\ memif' = Bus(model, s, inputs)
      /\ core' = MtvecOverride(s, instif')
      /\ cnt_inst' = IF instif'.valid THEN cnt_inst + 1 ELSE cnt_inst

(* core->update() and mem->update(). *)
Update ==
  /\ step = "update"
  /\ \/ Functional /\ UNCHANGED <<instif, memif, core, cnt_inst>>
     \/ ~ Functional /\ VerilatedUpdate
  /\ PrimaryCycle(if_prim)
  /\ step' = "body"
  /\ UNCHANGED <<model, inputs, if_prim, halt, fail, calls>>

IsCallUnchecked == instif.ir = Ecall   \* mutant: as in sim_concurrent.cpp:140

IsCall == instif.valid /\ instif.ir = Ecall

RegFile == IF Functional THEN core.reg ELSE RtlReg(core)

ReturnedAlways(a0) ==                  \* mutant: writes what is no result too
  IF Functional THEN [core EXCEPT !.reg[A0] = a0] ELSE RtlReturned(core, a0)

(* SysCall::write_reg on cores[0]. *)
CoreReturned(a0) ==
  IF a0 = Keep THEN core
  ELSE IF Functional THEN [core EXCEPT !.reg[A0] = a0] ELSE RtlReturned(core, a0)

StopsAtLimit == cnt_inst >= MaxInsts   \* mutant: drive() failing is ignored

Stops == cnt_inst >= MaxInsts \/ fail

(* The rest of the iteration. *)
Body ==
  /\ step = "body"
  /\ \/ /\ IsCall
        /\ \E r \in Replies(RegFile, Seen(Prim)) :
             /\ core' = CoreReturned(r.a0)
             /\ Transfer(r.xfer)
             /\ calls' = Append(calls, [cnt |-> cnt_inst, reg |-> RegFile])
             /\ halt' = (r.exit \/ Stops)
     \/ ~ IsCall /\ halt' = Stops /\ UNCHANGED <<core, vars, calls>>
  /\ step' = "latch"
  /\ UNCHANGED <<model, inputs, memif, if_prim, instif, cnt_inst, fail>>

SysNext == Latch \/ FunctionalDrive \/ VerilatedDrive \/ Update \/ Body

SysSpec == SysInit /\ [][SysNext]_sysVars

(* The loop is one thread, and nothing in it waits. *)
SysFairSpec == SysSpec /\ WF_sysVars(SysNext)

--------------------------------------------------------------------------------
(* A verilated core and the memory are clocked together (KronosCore and    *)
(* RVCorePCore, drive and update; Memory, drive and update): the request   *)
(* served at an edge is the one the core's outputs show once they follow   *)
(* the read data of the edge before, and its registers take those data.    *)
OneClock ==
  [][step = "update" /\ step' = "body" /\ ~ Functional =>
       LET r == rdata[Prim]
           req == Bus(model, core, r)
       IN  /\ core' \in {Edge(model, core, r)} \cup
                        {TrapTo(Edge(model, core, r), Behind(pc)) : pc \in PC}
           /\ rdata'[Prim] = ReadData(r, req, mem)
           /\ \A w \in Words : mem'[w] = IF Stores(req) /\ w = WordOf(req.d_addr)
                THEN Merge(mem[w], req.d_wdata, req.d_wmask) ELSE mem[w]]_sysVars

(* No ecall is emulated twice, though its report stays on the interface of  *)
(* a core that fails on the next instruction or falls silent.               *)
CallsOnce == \A j, k \in DOMAIN calls : j < k => calls[j].cnt < calls[k].cnt

(* The last report's store may be on the way to the bus: the functional     *)
(* core's within its iteration, a verilated core's until the next edge.     *)
Owed == instif.valid /\ IF Functional THEN step \in {"relatch", "update"} ELSE cnt_inst > 0

(* The memory once that store has been on the bus. *)
Settled == IF Owed THEN AfterInst(mem, instif) ELSE mem

Executed == IF Functional THEN core ELSE RtlArch(model, core, rdata[Prim], Settled)

(* Instructions that are reported or failed, and not through the loop yet. *)
Pending ==
  step \in {"relatch", "update", "body"} /\ (Functional \/ (step = "body" /\ instif.valid))

Run == INSTANCE SingleRun WITH
  core <- [pc |-> Executed.pc, reg |-> Executed.reg, cnt_inst |-> cnt_inst, instif |-> instif],
  mem <- Settled,
  stage <- (IF Pending THEN "finish" ELSE "cycle")

(* Whatever the core, its pipeline and the cycle in which its stores arrive, *)
(* the program runs one instruction after the other, each on the memory its  *)
(* predecessors left, and goes on behind its system calls.                   *)
RunSpec == Run!Spec

(* What the outputs a design is about to show at an edge, inst, must be: no *)
(* report, or the next instruction.                                         *)
InOrder(inst) ==
  inst.valid => LET x == Exec(Executed, Settled)
                IN  x.known /\ inst = [x.instif EXCEPT !.valid = TRUE]

(* Its stores are on the bus when they are reported or at the edge behind. *)
Served(req) ==
  IF Stores(req)
    THEN [mem EXCEPT ![WordOf(req.d_addr)] = Merge(@, req.d_wdata, req.d_wmask)] ELSE mem

KeepsPace(inst, req) ==
  Served(req) = Settled \/ (inst.valid /\ Served(req) = AfterInst(Settled, inst))

(* Its registers go with what it has reported, at mtvec after a trap, and   *)
(* at an ecall they are there to read and write, with no load under way.    *)
GoesOn(inst, s, seen) ==
  LET arch  == IF inst.valid THEN Exec(Executed, Settled).arch ELSE Executed
      store == IF inst.valid THEN AfterInst(Settled, inst) ELSE Settled
  IN  IF model = "kronos" /\ inst.valid /\ inst.ir = Ecall
        THEN \A pc \in PC : RtlArch(model, TrapTo(s, pc), seen, store) = [arch EXCEPT !.pc = pc]
        ELSE RtlArch(model, s, seen, store) = arch

AtEdge ==
  LET r    == rdata[Prim]
      s    == Edge(model, core, r)
      inst == Report(model, s, r)
      req  == Bus(model, core, r)
  IN  InOrder(inst) /\ KeepsPace(inst, req) /\ GoesOn(inst, s, ReadData(r, req, mem))

AtCall ==
  /\ RtlReg(core) = Executed.reg
  /\ \A m \in Image :
       /\ RtlArch(model, core, rdata[Prim], m) = Executed
       /\ \A a0 \in Val : RtlArch(model, RtlReturned(core, a0), rdata[Prim], m)
                            = [Executed EXCEPT !.reg[A0] = a0]

(* With the wrapper and the memory around it, a verilated design gets the   *)
(* inputs at the right time to do its part: report instructions in order,   *)
(* store them in time, show and take registers at system calls.  RunSpec    *)
(* follows from this, by the order of the calls (sim_single.cpp), the       *)
(* memory and the mtvec override, which it leaves out.                      *)
DesignConforms ==
  ~ Functional => /\ cnt_inst = 0 => Executed = InitArch
                  /\ step = "update" => AtEdge
                  /\ step = "body" /\ IsCall => AtCall

(* A run ends by an exit, an unknown instruction or the limit; only a        *)
(* verilated core that falls silent keeps it from ending: no timeout here.   *)
EndsUnlessSilent == <>halt \/ (~ Functional /\ <>[](~ instif.valid))

(* What a run has before it: the instructions up to the limit, the one in   *)
(* this iteration too, at five calls each, and the calls of this iteration. *)
CallsLeft ==
  CASE step = "latch"  -> 5
    [] step = "drive"  -> 4
    [] step = "relatch" -> 3
    [] step = "update" -> 2
    [] OTHER           -> 1

Left == MaxInsts + 1 - cnt_inst + IF Pending /\ instif.valid THEN 1 ELSE 0

Remaining == IF halt THEN 0 ELSE 5 * Left + CallsLeft

(* A verilated core has reported nothing in this iteration. *)
Waits == step = "body" /\ ~ Functional /\ ~ instif.valid

(* Nothing but a silent verilated core keeps a run from its end: the limit, *)
(* exits and unknown instructions stop the loop at once, so that the calls  *)
(* of iterations with a report are at most five for each instruction up to  *)
(* the limit, and one instruction with a limit of 0.                        *)
EveryStepCounts == [][Remaining' \in Nat /\ (Waits \/ Remaining' < Remaining)]_sysVars
================================================================================
