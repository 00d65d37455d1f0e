---------------------------- MODULE ConcurrentSystem ----------------------------
(***************************************************************************)
(* Concurrent execution on the shared memory: the main loop of Lockstep    *)
(* (sim/sim_concurrent.cpp) and Memory (sim/memory.cpp) put together.  A   *)
(* core reads what Memory shows to it; its stores travel over its bus,     *)
(* those of a system call through the public write().                      *)
(***************************************************************************)
EXTENDS Memory, FaultInjection, CoreBus

CONSTANTS
  Rep,            \* cores[1], the only replica
  MaxInsts, VCORE_TIMEOUT, MismatchInsts, MaxStall, Deferred, None, VExec(_, _)

ASSUME RepAssumption == Reps = {Rep}
ASSUME LoopAssumption ==
  /\ MaxInsts \in Nat /\ VCORE_TIMEOUT \in Nat \ {0} /\ MismatchInsts \in Nat
  /\ MaxStall \in Nat /\ Deferred \subseteq BOOLEAN /\ None \notin InstIF
ASSUME OutcomesAssumption ==
  \A a \in Arch, m \in Image :
    /\ VExec(a, m) \subseteq [arch : Arch, instif : InstIF]
    /\ VExec(a, m) # {} \/ MaxStall >= VCORE_TIMEOUT

VARIABLES fcore, vcore, fhalt, vhalt, late, stage, i, log_buffer, outcome, shown, calls

sysVars == <<vars, fcore, vcore, fhalt, vhalt, late, stage, i, log_buffer, outcome, shown, calls>>

(* The main loop, each core on the memory it sees. *)
Loop == INSTANCE Lockstep WITH fmem <- Seen(Prim), vmem <- Seen(Rep)

SysInit ==
  /\ mem = InitMem
  /\ wb = [c \in Cores |-> [w \in Words |-> Absent]]
  /\ rdata = [c \in Cores |-> [i_rdata |-> Zero, d_rdata |-> Zero]]
  /\ \E inst \in InitInsts : fcore = InitCore(inst)
  /\ \E inst \in InitInsts : vcore = InitCore(inst)
  /\ fhalt = FALSE /\ vhalt = FALSE
  /\ late = None /\ stage = "fetch" /\ i = 0
  /\ log_buffer = [s \in Loop!Slots |-> 0]
  /\ outcome = "none" /\ shown = <<>> /\ calls = <<>>

--------------------------------------------------------------------------------
(* What vcore's bus may carry in the cycle of the store inst, and in one    *)
(* without a store, when its pipeline may be fetching, reading or idle.     *)
VBus(inst) ==
  IF inst # None /\ Attr[inst.ir] = "store"
    THEN {Access(inst, fetch) : fetch \in Addr}
    ELSE {req \in Requests : ~ Stores(req)}

(* fcore fetches by mem->read() and leaves i_addr alone: it holds anything. *)
FCycle ==
  LET x == Exec(ArchOf(fcore), Seen(Prim))
  IN  \E fetch \in Addr :
        \/ Loop!FRetires(x) /\ PrimaryCycle(Access(x.instif, fetch))
        \/ Loop!FFails(x) /\ PrimaryCycle(NoAccess(fcore.instif, fetch))

VCycle(inst) == \E req \in VBus(inst) : ReplicaCycle([r \in Reps |-> req])

(* A late store is on the bus in the next cycle, whatever that reports. *)
Outcomes == VExec(ArchOf(vcore), Loop!Settled)

VSilent == Loop!VStalls(Outcomes) /\ VCycle(late)

(* The bus takes one store in a cycle. *)
VCommit ==
  \E x \in Outcomes, d \in Deferred :
    /\ Loop!VReports(x, d)
    /\ \/ d /\ VCycle(late)
       \/ ~ d /\ late = None /\ VCycle(x.instif)

Checked == (Loop!Disagree \/ Loop!Agree) /\ UNCHANGED vars

(* What the host writes for the program goes through Memory::write(). *)
Called == \E r \in Replies(Loop!Caller.reg, Seen(Prim)) : Loop!Emulates(r) /\ Transfer(r.xfer)

SysNext == FCycle \/ VSilent \/ VCommit \/ Checked \/ Called

SysSpec == SysInit /\ [][SysNext]_sysVars

--------------------------------------------------------------------------------
(* The shared memory is invisible to the loop: with its write buffers in    *)
(* between, the loop behaves as if each core had a memory of its own, so    *)
(* what Lockstep proves of it holds of the program (sim_concurrent.cpp on   *)
(* memory.cpp), also when stores of the two cores to a word overlap.        *)
LoopSpec == Loop!Spec

(* So the program and the host see one run of the functional core, cut      *)
(* short at most, also on the shared memory: neither its write buffers nor  *)
(* the verilated core and its early or late stores show in it, as long as   *)
(* no ecall is followed by an instruction that fails (Loop!CallsReported).  *)
HostSeesProgram == Loop!HostSeesReference

(* The primary's write buffer does not fill up in a long run: at the head   *)
(* of an iteration it holds at most the word of the store that the          *)
(* verilated core has reported and not made yet (any vcore).                *)
PrimaryDrained ==
  stage = "fetch" =>
    \A w \in Words : Buffered(Prim, w) =>
      late # None /\ Attr[late.ir] = "store" /\ w = WordOf(late.d_addr)
================================================================================
