-------------------------------- MODULE Encoding --------------------------------
(***************************************************************************)
(* How the RISC-V manual lays out the operands of RV32I's instructions in  *)
(* words, format by format.  It has no state.                              *)
(***************************************************************************)
EXTENDS Words

(* The formats.  Place moves bits lo .. hi of an operand to position at.    *)
Place(w, lo, hi, at) == {i - lo + at : i \in w \cap (lo .. hi)}
Num(n, width, at) == {i + at : i \in {j \in 0 .. width - 1 : (n \div 2^j) % 2 = 1}}

Layout(f, opcode, funct3, a) ==
  {0, 1} \cup Num(opcode, 5, 2) \cup
  CASE f = "R" -> Num(a.rd, 5, 7) \cup Num(funct3, 3, 12) \cup Num(a.rs1, 5, 15)
                  \cup Num(a.rs2, 5, 20)
    [] f = "I" -> Num(a.rd, 5, 7) \cup Num(funct3, 3, 12) \cup Num(a.rs1, 5, 15)
                  \cup Place(a.imm, 0, 11, 20)
    [] f = "S" -> Place(a.imm, 0, 4, 7) \cup Num(funct3, 3, 12) \cup Num(a.rs1, 5, 15)
                  \cup Num(a.rs2, 5, 20) \cup Place(a.imm, 5, 11, 25)
    [] f = "B" -> Place(a.imm, 1, 4, 8) \cup Place(a.imm, 11, 11, 7) \cup Num(funct3, 3, 12)
                  \cup Num(a.rs1, 5, 15) \cup Num(a.rs2, 5, 20) \cup Place(a.imm, 5, 10, 25)
                  \cup Place(a.imm, 12, 12, 31)
    [] f = "U" -> Num(a.rd, 5, 7) \cup Place(a.imm, 12, 31, 12)
    [] f = "J" -> Num(a.rd, 5, 7) \cup Place(a.imm, 12, 19, 12) \cup Place(a.imm, 11, 11, 20)
                  \cup Place(a.imm, 1, 10, 21) \cup Place(a.imm, 20, 20, 31)

Opcodes ==
          [lui |-> <<"U", 13, 0>>, auipc |-> <<"U", 5, 0>>,
           jal |-> <<"J", 27, 0>>, jalr |-> <<"I", 25, 0>>,
           beq |-> <<"B", 24, 0>>, bne |-> <<"B", 24, 1>>, blt |-> <<"B", 24, 4>>,
           bge |-> <<"B", 24, 5>>, bltu |-> <<"B", 24, 6>>, bgeu |-> <<"B", 24, 7>>,
           lb |-> <<"I", 0, 0>>, lh |-> <<"I", 0, 1>>, lw |-> <<"I", 0, 2>>,
           lbu |-> <<"I", 0, 4>>, lhu |-> <<"I", 0, 5>>,
           sb |-> <<"S", 8, 0>>, sh |-> <<"S", 8, 1>>, sw |-> <<"S", 8, 2>>,
           addi |-> <<"I", 4, 0>>, slli |-> <<"I", 4, 1>>, slti |-> <<"I", 4, 2>>,
           sltiu |-> <<"I", 4, 3>>, xori |-> <<"I", 4, 4>>, srli |-> <<"I", 4, 5>>,
           srai |-> <<"I", 4, 5>>, ori |-> <<"I", 4, 6>>, andi |-> <<"I", 4, 7>>,
           add |-> <<"R", 12, 0>>, sub |-> <<"R", 12, 0>>, sll |-> <<"R", 12, 1>>,
           slt |-> <<"R", 12, 2>>, sltu |-> <<"R", 12, 3>>, xor |-> <<"R", 12, 4>>,
           srl |-> <<"R", 12, 5>>, sra |-> <<"R", 12, 5>>, or |-> <<"R", 12, 6>>,
           and |-> <<"R", 12, 7>>, fence |-> <<"I", 3, 0>>, ecall |-> <<"I", 28, 0>>]

Op(id) == Opcodes[id]

(* Immediates with bits from low on; the copies of their sign begin at high. *)
IsImm(imm, low, high) ==
  /\ imm \in Word
  /\ \A i \in low .. 31 : i >= high => (i \in imm <=> high \in imm)
  /\ \A i \in Bits : i < low => i \notin imm

Shifts == {"slli", "srli", "srai"}

(* The operands that instructions can have.                                 *)
Legal(a) ==
  /\ a.id \in DOMAIN Opcodes
  /\ a.rd \in 0 .. 31 /\ a.rs1 \in 0 .. 31 /\ a.rs2 \in 0 .. 31
  /\ Op(a.id)[1] \in {"I", "S"} => IsImm(a.imm, 0, 11)
  /\ Op(a.id)[1] = "B" => IsImm(a.imm, 1, 12)
  /\ Op(a.id)[1] = "U" => IsImm(a.imm, 12, 31)
  /\ Op(a.id)[1] = "J" => IsImm(a.imm, 1, 20)
  /\ a.id \in Shifts => a.imm \subseteq 0 .. 4
  /\ a.id = "ecall" => a.imm = {}

Encode(a) ==
  Layout(Op(a.id)[1], Op(a.id)[2], Op(a.id)[3], a)
    \cup (IF a.id \in {"sub", "sra", "srai"} THEN {30} ELSE {})
================================================================================
