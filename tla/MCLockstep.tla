------------------------------- MODULE MCLockstep -------------------------------
(***************************************************************************)
(* Instances of Lockstep for TLC: a program of MCProgram on both cores,    *)
(* and the faults the verilated core may show at any instruction.          *)
(***************************************************************************)
EXTENDS Lockstep, MCProgram

CONSTANTS
  Program,    \* the instructions from pc 0 on
  Faults      \* what may go wrong in the verilated core

MCExec(a, m) == ExecOf(Program, a, m)
MCReplies(reg, m) == Answers(reg, Keep)

(* An opcode the machine does not have hangs the verilated core. *)
MCVExec(a, m) ==
  LET op == OpAt(Program, a.pc)
      x  == Outcome(op, a, m)
  IN  IF op = "bad" THEN {} ELSE {x} \cup {Faulty(x, f, a) : f \in Faults}

MCPC    == 0 .. 9
MCReg   == {"a0"}
MCInsts == {Silent(0, "j")}
Either  == BOOLEAN
MCFlip(v) == {1 - v}
NoFaults == {}
AllFaults == {"register", "result", "branch", "data", "address"}
================================================================================
