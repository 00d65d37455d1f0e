----------------------------- MODULE MCSingleSystem -----------------------------
(***************************************************************************)
(* Instances of SingleSystem for TLC: a program of MCProgram on the        *)
(* functional core and on two small designs with the wrappers' interface.  *)
(* The one in place of Kronos takes an instruction from "if" to "ex",      *)
(* where it is reported and its access shows on the bus, waits for the     *)
(* data of a load, and traps on an ecall; the one in place of RVCoreP      *)
(* reports behind its bus cycle and forwards the data of a load, as they   *)
(* arrive, to the instruction that follows.  Instructions the machine does *)
(* not have silence both.                                                  *)
(***************************************************************************)
EXTENDS SingleSystem, MCProgram

CONSTANT Program    \* the instructions from pc 0 on

(* The result of a load is left out: Kronos reports it before it arrives. *)
Shown(x) == IF x.instif.ir = "lb" THEN [x EXCEPT !.instif.result = 0] ELSE x

MCExec(a, m) == LET x == ExecOf(Program, a, m) IN [Shown(x) EXCEPT !.known = x.known]

MCReplies(reg, m) == Answers(reg, Keep)

MCPC    == 0 .. 9
MCReg   == {"a0"}
MCInsts == {Silent(0, "j"), Silent(0, "ecall"),
            [Silent(0, "sv") EXCEPT !.valid = TRUE, !.d_wdata = [l \in Bits |-> 1], !.d_wmask = Bits]}
MCMem   == [w \in 0 .. 1 |-> Cleared[0]]
MCModels == {"functional", "kronos", "rvcorep"}

Quiet == [en |-> FALSE, i_addr |-> 0, d_re |-> FALSE, d_we |-> FALSE, d_addr |-> 0,
          d_wdata |-> Zero, d_wmask |-> {}]
(* What an interface never written may hold. *)
MCRequests == {Quiet, [Quiet EXCEPT !.en = TRUE, !.d_we = TRUE, !.d_wmask = Bits]}

--------------------------------------------------------------------------------
(* Their registers, as far as the program drives them. *)
Seeming == {[Shown(Outcome(OpAt(Program, pc), [pc |-> pc, reg |-> [a0 |-> a]], MCMem)).instif
               EXCEPT !.valid = v] : pc \in MCPC, a \in Bits, v \in BOOLEAN}
MCRtl == [ph : {"if", "ex", "wait"}, pc : MCPC, a0 : Bits, mtvec : MCPC,
          report : Seeming \cup {Silent(0, "j")}]

MCAfterReset(m) ==
  [ph |-> IF m = "kronos" THEN "if" ELSE "ex", pc |-> 0, a0 |-> 0, mtvec |-> 0,
   report |-> Silent(0, "j")]

(* The value of a0 in this cycle: a load's data have just arrived in "wait". *)
A0In(s, r) == IF s.ph = "wait" THEN r.d_rdata[1] ELSE s.a0

(* The instruction at pc, and its outcome as far as it is known without memory. *)
Op(s) == OpAt(Program, s.pc)
Ran(s, r) == Shown(Outcome(Op(s), [pc |-> s.pc, reg |-> [a0 |-> A0In(s, r)]], MCMem))

InEx(m, s) == Op(s) # "bad" /\ (s.ph = "ex" \/ m = "rvcorep")

MCBus(m, s, r) == IF InEx(m, s) THEN Access(Ran(s, r).instif, s.pc) ELSE Quiet

MCReport(m, s, r) ==
  IF m = "rvcorep" THEN s.report
  ELSE [Ran(s, r).instif EXCEPT !.valid = (s.ph = "ex")]

KronosEdge(s, r) ==
  LET x == Ran(s, r)
  IN  CASE s.ph = "wait" -> [s EXCEPT !.ph = "if", !.a0 = r.d_rdata[1]]
        [] s.ph = "ex" -> [s EXCEPT !.ph = IF Op(s) = "lb" THEN "wait" ELSE "if",
                                    !.pc = IF Op(s) = "ecall" THEN s.mtvec ELSE x.arch.pc,
                                    !.a0 = IF Op(s) = "lb" THEN @ ELSE x.arch.reg["a0"]]
        [] OTHER -> IF Op(s) = "bad" THEN s ELSE [s EXCEPT !.ph = "ex"]

RVCorePEdge(s, r) ==
  LET x == Ran(s, r)
  IN  IF Op(s) = "bad" THEN [s EXCEPT !.ph = "ex", !.a0 = A0In(s, r), !.report.valid = FALSE]
      ELSE [s EXCEPT !.ph = IF Op(s) = "lb" THEN "wait" ELSE "ex",
                     !.pc = x.arch.pc, !.a0 = x.arch.reg["a0"],
                     !.report = [x.instif EXCEPT !.valid = TRUE]]

MCEdge(m, s, r) == IF m = "kronos" THEN KronosEdge(s, r) ELSE RVCorePEdge(s, r)

MCTrapTo(s, pc) == [s EXCEPT !.mtvec = pc]
MCBehind(pc) == (pc + 1) % 10
MCRtlReg(s) == [a0 |-> s.a0]
MCRtlReturned(s, a0) == [s EXCEPT !.a0 = a0]

(* With Kronos's instruction in "ex" executed, and the load's data taken. *)
MCRtlArch(m, s, r, store) ==
  LET x == Outcome(Op(s), [pc |-> s.pc, reg |-> [a0 |-> s.a0]], store)
  IN  IF m # "kronos" \/ s.ph # "ex" THEN [pc |-> s.pc, reg |-> [a0 |-> A0In(s, r)]]
      ELSE IF Op(s) = "ecall" THEN [x.arch EXCEPT !.pc = s.mtvec] ELSE x.arch
================================================================================
