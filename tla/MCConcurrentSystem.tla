--------------------------- MODULE MCConcurrentSystem ---------------------------
(***************************************************************************)
(* An instance of ConcurrentSystem for TLC: a program of MCProgram on both *)
(* cores, which share a memory of two words.                               *)
(***************************************************************************)
EXTENDS ConcurrentSystem, MCProgram

CONSTANTS
  Program,    \* the instructions from pc 0 on
  Faults      \* what may go wrong in the verilated core

MCExec(a, m) == ExecOf(Program, a, m)

(* ... and one answer covers two bytes of different words, around the end too. *)
MCReplies(reg, m) == Answers(reg, Keep) \cup
  {[exit |-> FALSE, a0 |-> 0, xfer |-> <<1 + 2 * reg["a0"], <<1, 0>>>>]}

MCVExec(a, m) ==
  LET op == OpAt(Program, a.pc)
      x  == Outcome(op, a, m)
  IN  IF op = "bad" THEN {} ELSE {x} \cup {Faulty(x, f, a) : f \in Faults}

MCPC    == 0 .. 9
MCReg   == {"a0"}
MCInsts == {Silent(0, "j")}
MCMem   == [w \in 0 .. 1 |-> Cleared[0]]
MCFlip(v) == {1 - v}
Either  == BOOLEAN
MCFaults == {"register", "branch", "data"}

(* A cycle without a store: the bus is idle. *)
Quiet == {[en |-> FALSE, i_addr |-> 0, d_re |-> FALSE, d_we |-> FALSE, d_addr |-> 0,
           d_wdata |-> Zero, d_wmask |-> {}]}
================================================================================
