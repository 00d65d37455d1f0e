------------------------------- MODULE CoreTypes -------------------------------
(***************************************************************************)
(* The cores VeriCross runs, as its main loops see them: a program counter *)
(* and a register file, an instruction counter, and the CoreInstructionIF  *)
(* through which each executed instruction is reported.  What instructions *)
(* compute is a parameter, and so is what the host answers to the system   *)
(* calls of the program.  It has no state.                                 *)
(***************************************************************************)
EXTENDS MemoryTypes

CONSTANTS
  PC,             \* values of the program counter
  Reg,            \* register names
  A0,             \* the register a system call returns its result in
  Val,            \* values of a register
  IR,             \* instruction words
  Attr,           \* Attr[ir]: how the instruction is logged and compared
  Ecall,          \* the ecall instruction, 0x00000073
  Keep,           \* the system call leaves a0 alone
  InitArch,       \* registers and program counter after reset
  InitInsts,      \* what an instruction interface never written may hold
  InitMem,        \* memory once the program is loaded
  Exec(_, _),     \* Exec(arch, mem): one instruction of the functional core
  Replies(_, _)   \* Replies(reg, mem): what a system call may come to

Arch   == [pc : PC, reg : [Reg -> Val]]
InstIF == [valid : BOOLEAN, pc : PC, ir : IR, result : Val, d_addr : Addr,
           d_baddr : Lanes, d_wdata : Word, d_wmask : SUBSET Lanes]
Core   == [pc : PC, reg : [Reg -> Val], cnt_inst : Nat, instif : InstIF]
(* xfer is what mem->write() is given; no bytes when nothing is written. *)
Reply(r) == /\ r.exit \in BOOLEAN
            /\ r.a0 \in Val \cup {Keep}
            /\ IsTransfer(r.xfer)

ASSUME ProgramAssumption ==
  /\ A0 \in Reg
  /\ Attr \in [IR -> {"load", "store", "rd", "none"}]
  /\ Ecall \in IR /\ Attr[Ecall] = "none"
  /\ Keep \notin Val
  /\ InitArch \in Arch
  /\ InitInsts \subseteq InstIF
  /\ InitMem \in Image
ASSUME ExecAssumption ==
  \A a \in Arch, m \in Image :
    Exec(a, m) \in [known : BOOLEAN, arch : Arch, instif : InstIF]
ASSUME RepliesAssumption ==
  \A reg \in [Reg -> Val], m \in Image : \A r \in Replies(reg, m) : Reply(r)

--------------------------------------------------------------------------------
ArchOf(core) == [pc |-> core.pc, reg |-> core.reg]

(* The constructor and reset() of a core; inst is what its interface holds. *)
InitCore(inst) == [pc |-> InitArch.pc, reg |-> InitArch.reg, cnt_inst |-> 0, instif |-> inst]

(* A core after the instruction with outcome x. *)
Retire(core, x) ==
  [pc |-> x.arch.pc, reg |-> x.arch.reg, cnt_inst |-> core.cnt_inst + 1,
   instif |-> [x.instif EXCEPT !.valid = TRUE]]

UnreportedCounted(core, inst) ==     \* mutant: counts cycles, not instructions
  [core EXCEPT !.cnt_inst = @ + 1, !.instif = [inst EXCEPT !.valid = FALSE]]

(* A core whose outputs show inst and say that it is not a report. *)
Unreported(core, inst) == [core EXCEPT !.instif = [inst EXCEPT !.valid = FALSE]]

(* The memory after the store an instruction reports, if it is one. *)
AfterInst(m, inst) ==
  IF Attr[inst.ir] = "store"
    THEN [m EXCEPT ![WordOf(inst.d_addr)] = Merge(@, inst.d_wdata, inst.d_wmask)]
    ELSE m

(* SysCall::write_reg on one core. *)
Returned(core, a0) == IF a0 = Keep THEN core ELSE [core EXCEPT !.reg[A0] = a0]
================================================================================
