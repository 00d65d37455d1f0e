--------------------------- MODULE MCFunctionalCore ---------------------------
(***************************************************************************)
(* Programs for the functional core: two instructions that give x1 and x2  *)
(* values, one of all the instructions with the operands that matter, one  *)
(* that reads back what it did.  They start in word 4 of 16; words 8 to 15 *)
(* are data.  Jumps through a register go to even addresses.               *)
(***************************************************************************)
EXTENDS FunctionalCore, Encoding

W(n) == IF n >= 0 THEN {i \in 0 .. 30 : (n \div 2^i) % 2 = 1}
        ELSE Bits \ {i \in 0 .. 30 : ((-n - 1) \div 2^i) % 2 = 1}

I(id, rd, rs1, rs2, imm) == [id |-> id, rd |-> rd, rs1 |-> rs1, rs2 |-> rs2, imm |-> imm]

Setups ==
  {<<I("addi", 1, 0, 0, W(-1)), I("slli", 2, 1, 0, W(31))>>,
   <<I("addi", 1, 0, 0, W(5)),  I("addi", 2, 1, 0, W(-7))>>,
   <<I("lui", 1, 0, 0, W(-4096)), I("addi", 2, 0, 0, W(36))>>,
   <<I("addi", 1, 0, 0, W(2)),  I("xori", 2, 0, 0, W(2))>>}

RegisterIds  == {"add", "sub", "sll", "slt", "sltu", "xor", "srl", "sra", "or", "and"}
ImmediateIds == {"addi", "slti", "sltiu", "xori", "ori", "andi"}
BranchIds    == {"beq", "bne", "blt", "bge", "bltu", "bgeu"}

Tested ==
       {I(id, 3, 1, 2, {}) : id \in RegisterIds}
  \cup {I(id, 1, 2, 1, {}) : id \in RegisterIds}
  \cup {I(id, 3, 1, 0, W(n)) : id \in ImmediateIds, n \in {-1, 5, -2048}}
  \cup {I(id, 2, 2, 0, W(n)) : id \in {"slli", "srli", "srai"}, n \in {1, 31}}
  \cup {I(id, rd, 0, 0, imm) : id \in {"lui", "auipc"}, rd \in {0, 3}, imm \in {{12, 31}, 12 .. 31}}
  \cup {I(id, rd, 0, 0, W(n)) : id \in {"lb", "lbu", "lh", "lhu", "lw"}, rd \in {3}, n \in 32 .. 35}
  \cup {I(id, 1, 1, 0, W(36)) : id \in {"lb", "lh", "lw"}}
  \cup {I(id, 0, 0, rs2, W(n)) : id \in {"sb", "sh", "sw"}, rs2 \in {1, 2}, n \in 40 .. 43}
  \cup {I("sb", 0, 2, 1, W(-2047)), I("sb", 0, 2, 1, W(63))}
  \cup {I(id, 0, 1, 2, W(n)) : id \in BranchIds, n \in {8, -8}}
  \cup {I("bne", 0, 1, 0, W(n)) : n \in {2048, -2048, 4094, -4096}}
  \cup {I("jal", rd, 0, 0, W(n)) : rd \in {0, 3}, n \in {8, -4, 2048, -1048576}}
  \cup {I("jalr", 3, 2, 0, W(4)), I("jalr", 0, 2, 0, W(-4)), I("jalr", 1, 0, 0, W(-16))}
  \cup {I("addi", 0, 1, 0, W(5)), I("fence", 0, 0, 0, {}), I("ecall", 0, 0, 0, {})}

ReadBack == {I("lw", 4, 0, 0, W(40)), I("lh", 4, 0, 0, W(42)), I("add", 4, 3, 0, {})}

(* jalr with the same register for the link and for the base. *)
CallFar == {I("jalr", 1, 1, 0, W(0))}

Entry == {I("jal", 0, 0, 0, Minus(s, INITIAL_PC)) : s \in Starts}
Written == UNION {{s[1], s[2]} : s \in Setups}

Instructions == Written \cup Tested \cup CallFar \cup ReadBack \cup Entry
ByWord ==
  LET word == [a \in Instructions |-> Encode(a)]
  IN  [w \in {word[a] : a \in Instructions} |-> CHOOSE a \in Instructions : word[a] = w]
MCListing == ByWord

Number4(b) == Bit(b, 2) + 2 * Bit(b, 3) + 4 * Bit(b, 4) + 8 * Bit(b, 5)

(* The words of the data: a byte and a halfword with and without sign. *)
Data(n) == CASE n = 8 -> {0, 7, 9, 14, 15, 20, 31} [] n = 10 -> {3, 23, 24} [] OTHER -> {0, 1}

Text(s, t, r) == <<s[1], s[2], t, r>>
ImageOf(text) ==
  [c \in Cells |-> LET n == Number4(c)
                   IN  IF n \in 4 .. 7 THEN Encode(text[n - 3])
                       ELSE IF n >= 8 THEN Data(n) ELSE {}]

ProgramsOf(tested) == {ImageOf(Text(s, t, r)) : s \in Setups, t \in tested, r \in ReadBack}

(* The operators on words are those on numbers (WordsCompute, for all). *)
ASSUME WordsAreNumbers ==
  /\ \A a, b \in SUBSET {0, 1, 2, 3, 28, 29} :
       /\ Uint32(Plus(a, b)) = Uint32(a) + Uint32(b)
       /\ Below(a, b) <=> Uint32(a) < Uint32(b)
       /\ Below(a, b) \/ Uint32(Minus(a, b)) = Uint32(a) - Uint32(b)
  /\ \A a, b \in SUBSET {0, 1, 14, 30, 31} :
       /\ SignedBelow(a, b) <=> Int32(a) < Int32(b)
       /\ Plus(Minus(a, b), b) = a

MCCellBits   == {2, 3, 4, 5}
MCPrograms   == ProgramsOf(Tested)
FarPrograms  == ProgramsOf(CallFar)
MCInitialPC  == {16}
MCInitialSP  == {10, 13, 14, 17, 18, 19, 20}
MCStarts     == {{16, 4}, {11, 4}, {20, 4}}
================================================================================
