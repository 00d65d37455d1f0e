-------------------------------- MODULE MCProgram --------------------------------
(***************************************************************************)
(* A machine with one register and words of two bytes, and programs for    *)
(* it, to give the cores' instructions and the host's answers to TLC.      *)
(***************************************************************************)
EXTENDS Integers, Sequences

Ops     == {"not", "sb", "sw", "sv", "lb", "ecall", "j", "bz", "bad"}
OpAttr  == [op \in Ops |-> CASE op \in {"sb", "sw", "sv"} -> "store" [] op = "lb" -> "load"
                             [] op = "not" -> "rd"   [] OTHER -> "none"]
Bits    == {0, 1}
Pair    == [Bits -> Bits]

(* pc 0 onwards; j goes back to the start, bz does if a0 is zero. *)
Bytes   == <<"not", "sb", "lb", "ecall", "j">>
Whole   == <<"not", "sw", "lb", "ecall", "bz", "bad">>
Calls   == <<"not", "ecall", "sb", "ecall", "not", "ecall", "lb", "ecall", "ecall", "bad">>
ToBad   == <<"not", "ecall", "bad">>
Chained == <<"not", "sb", "not", "lb", "sv", "sb", "ecall", "ecall", "bz", "bad">>
Mixed   == <<"sb", "not", "sw", "sb", "sv", "lb", "ecall", "bz", "bad">>

Origin  == [pc |-> 0, reg |-> [a0 |-> 0]]
Cleared == [w \in {0} |-> [l \in Bits |-> 0]]
Silent(pc, ir) == [valid |-> FALSE, pc |-> pc, ir |-> ir, result |-> 0, d_addr |-> 0,
                   d_baddr |-> 0, d_wdata |-> [l \in Bits |-> 0], d_wmask |-> {}]

(* Instruction op of the machine: not inverts a0, sb stores a0 in byte a0,  *)
(* sw stores it in both bytes, sv in the bytes of word 1, lb loads byte 1   *)
(* into a0; result is a0 afterwards, as instif.result is.                   *)
Outcome(op, a, m) ==
  LET x == a.reg["a0"]
      y == CASE op = "not" -> 1 - x [] op = "lb" -> m[0][1] [] OTHER -> x
  IN  [arch |-> [pc |-> IF op = "j" \/ (op = "bz" /\ x = 0) THEN 0 ELSE (a.pc + 1) % 10, reg |-> [a0 |-> y]],
       instif |-> [Silent(a.pc, op) EXCEPT
                     !.result = y, !.d_addr = IF op = "sv" THEN 2 ELSE 0,
                     !.d_baddr = IF op = "lb" THEN 1 ELSE 0,
                     !.d_wdata = [l \in Bits |-> IF l = x \/ op \in {"sw", "sv"} THEN x ELSE 0],
                     !.d_wmask = CASE op = "sb" -> {x} [] op \in {"sw", "sv"} -> Bits
                                   [] OTHER -> {}]]

OpAt(program, pc) == IF pc < Len(program) THEN program[pc + 1] ELSE "j"

ExecOf(program, a, m) ==
  LET op == OpAt(program, a.pc)
      x  == Outcome(op, a, m)
  IN  [known |-> op # "bad", arch |-> x.arch, instif |-> x.instif]

(* What goes wrong in a verilated core, one instruction at a time. *)
Faulty(x, fault, a) ==
  CASE fault = "register" -> [x EXCEPT !.arch.reg["a0"] = 1 - @]
    [] fault = "result"   -> [x EXCEPT !.instif.result = 1 - @, !.arch.reg["a0"] = 1 - @]
    [] fault = "branch"   -> [x EXCEPT !.arch.pc = a.pc]
    [] fault = "data"     -> [x EXCEPT !.instif.d_wdata = [l \in Bits |-> 1 - @[l]]]
    [] fault = "address"  -> [x EXCEPT !.instif.d_baddr = 0]

(* The program exits, writes (the call returns a value), or reads a byte.   *)
Answers(reg, keep) ==
  {[exit |-> TRUE, a0 |-> keep, xfer |-> <<0, <<>>>>],
   [exit |-> FALSE, a0 |-> 1, xfer |-> <<0, <<>>>>],
   [exit |-> FALSE, a0 |-> 0, xfer |-> <<reg["a0"], <<1>>>>]}
================================================================================
