---------------------------------- MODULE RiscV ----------------------------------
(***************************************************************************)
(* RiscVInstruction: how an instruction word is decoded, for execution,    *)
(* comparison and logging.  Also make_jal, by which the loader encodes the *)
(* one instruction VeriCross writes itself.  It has no state.              *)
(***************************************************************************)
EXTENDS Words, Sequences

Branches  == <<"beq", "bne", "???", "???", "blt", "bge", "bltu", "bgeu">>
Loads     == <<"lb", "lh", "lw", "???", "lbu", "lhu", "???", "???">>
Stores    == <<"sb", "sh", "sw", "???", "???", "???", "???", "???">>
Immediate == <<"addi", "slli", "slti", "sltiu", "xori", "srli", "ori", "andi">>
Registers == <<"add", "sll", "slt", "sltu", "xor", "srl", "or", "and">>
Misc      == <<"fence", "fencei", "???", "???", "???", "???", "???", "???">>
System    == <<"???", "csrrw", "csrrs", "csrrc", "???", "csrrwi", "csrrsi", "csrrci">>

(* funct7 & 0b0100000 makes a subtraction or an arithmetic shift of these. *)
Alternate(id) == CASE id = "add" -> "sub" [] id = "srl" -> "sra" [] id = "srli" -> "srai"
                   [] OTHER -> id

Privileged(ir) == CASE Field(ir, 20, 12) = {}        -> "ecall"    \* 0x000
                    [] Field(ir, 20, 12) = {0}       -> "ebreak"   \* 0x001
                    [] Field(ir, 20, 12) = {1, 8, 9} -> "mret"     \* 0x302
                    [] Field(ir, 20, 12) = {0, 2, 8} -> "wfi"      \* 0x105
                    [] OTHER -> "???"

OP(ir)     == Number(Field(ir, 2, 5))
Funct3(ir) == Number(Field(ir, 12, 3))

InstrId(ir) ==
  LET row(table) == table[Funct3(ir) + 1]
      alt(id) == IF 30 \in ir THEN Alternate(id) ELSE id
  IN  CASE ~ {0, 1} \subseteq ir -> "???"          \* not a 32-bit instruction
        [] OP(ir) = 13 -> "lui"
        [] OP(ir) = 5  -> "auipc"
        [] OP(ir) = 27 -> "jal"
        [] OP(ir) = 25 -> "jalr"
        [] OP(ir) = 24 -> row(Branches)
        [] OP(ir) = 0  -> row(Loads)
        [] OP(ir) = 8  -> row(Stores)
        [] OP(ir) = 4  -> alt(row(Immediate))
        [] OP(ir) = 12 -> alt(row(Registers))
        [] OP(ir) = 3  -> row(Misc)
        [] OP(ir) = 28 -> IF Funct3(ir) = 0 THEN Privileged(ir) ELSE row(System)
        [] OTHER -> "???"

(* attr & FMT_MASK, for the instructions that are known. *)
Format(op) == CASE op \in {13, 5} -> "U" [] op = 27 -> "J" [] op = 24 -> "B" [] op = 8 -> "S"
                [] op = 12 -> "R" [] OTHER -> "I"

BranchSwapped(ir) ==                     \* mutant: takes bit 11 from the place of bit 12
  {i \in 12 .. 31 : 31 \in ir} \cup (Shl(ir, 4) \cap {12}) \cup (Shr(ir, 20) \cap (5 .. 10))
    \cup (Shr(ir, 7) \cap (1 .. 4))

BranchImm(ir) ==
  {i \in 12 .. 31 : 31 \in ir} \cup (Shl(ir, 4) \cap {11}) \cup (Shr(ir, 20) \cap (5 .. 10))
    \cup (Shr(ir, 7) \cap (1 .. 4))

JumpImm(ir) ==
  {i \in 20 .. 31 : 31 \in ir} \cup (ir \cap (12 .. 19)) \cup (Shr(ir, 9) \cap {11})
    \cup (Shr(ir, 20) \cap (1 .. 10))

StoreImm(ir) ==
  {i \in 12 .. 31 : 31 \in ir} \cup (Shr(ir, 20) \cap (5 .. 11)) \cup (Shr(ir, 7) \cap (0 .. 4))

ShortImm(ir) == {i \in 12 .. 31 : 31 \in ir} \cup (Shr(ir, 20) \cap (0 .. 11))

GetImm(fmt, ir) ==
  CASE fmt = "I" -> ShortImm(ir) [] fmt = "S" -> StoreImm(ir) [] fmt = "B" -> BranchImm(ir)
    [] fmt = "U" -> ir \cap (12 .. 31) [] fmt = "J" -> JumpImm(ir) [] OTHER -> {}

Decode(pc, ir) ==
  LET imm == GetImm(Format(OP(ir)), ir)
  IN  [id |-> InstrId(ir), imm |-> imm, npc |-> Plus(pc, imm),
       rs1 |-> Number(Field(ir, 15, 5)), rs2 |-> Number(Field(ir, 20, 5)),
       rd |-> Number(Field(ir, 7, 5))]

(* attr & LOG_LOAD and LOG_STORE, and the bytes they transfer. *)
Size(id) == CASE id \in {"lb", "lbu", "sb"} -> 1 [] id \in {"lh", "lhu", "sh"} -> 2
              [] id \in {"lw", "sw"} -> 4 [] OTHER -> 0
IsLoad(id)   == id \in {"lb", "lh", "lw", "lbu", "lhu"}
IsStore(id)  == id \in {"sb", "sh", "sw"}
IsBranch(id) == id \in {"beq", "bne", "blt", "bge", "bltu", "bgeu"}

JalForward(imm) ==                       \* mutant: without the sign of the distance
  (Shl(imm, 20) \cap (21 .. 30)) \cup (Shl(imm, 9) \cap {20}) \cup (imm \cap (12 .. 19))
    \cup {0, 1, 2, 3, 5, 6}

(* Loader::make_jal: jal x0 over the distance imm. *)
MakeJal(imm) ==
  (Shl(imm, 20) \cap (21 .. 30)) \cup (Shl(imm, 9) \cap {20}) \cup (imm \cap (12 .. 19))
    \cup (Shl(imm, 11) \cap {31}) \cup {0, 1, 2, 3, 5, 6}
================================================================================
