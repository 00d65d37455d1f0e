----------------------------- MODULE FunctionalCore -----------------------------
(***************************************************************************)
(* VeriCross's functional core with the memory it reads directly: fetch,   *)
(* decode, execution in place on the register file, the report on the      *)
(* CoreInstructionIF, and the log line written for it.  One step is one    *)
(* cycle of single execution.  Words are those of the real machine; only   *)
(* the memory is small, and addresses wrap around it as in the code.       *)
(*                                                                         *)
(* System calls, exit and the limit are SingleRun's; here the program runs *)
(* up to the bound MaxInsts.                                               *)
(***************************************************************************)
EXTENDS RiscV

CONSTANTS
  CellBits,      \* bits of an address that select a word: 2 .. 20 in the code
  INITIAL_PC, INITIAL_SP,
  Programs,      \* memory images of the program
  Starts,        \* addresses _start may have
  Listing,       \* instructions the programs are made of, for the property
  MaxInsts       \* bound on the instructions executed

Cells == SUBSET CellBits
Image == [Cells -> Word]
Lanes == {{}, {0}, {1}, {0, 1}}          \* addr & 3, as a word

ASSUME CoreAssumption ==
  /\ CellBits \subseteq 2 .. 31
  /\ INITIAL_PC \in Word /\ INITIAL_SP \in Word
  /\ Programs \subseteq Image
  /\ Starts \subseteq Word
  /\ MaxInsts \in Nat

(* The entry is aligned and _start within a jal of it.                      *)
ASSUME ReachAssumption ==
  /\ INITIAL_PC \cap {0, 1} = {}
  /\ \A s \in Starts :
       LET d == Minus(s, INITIAL_PC)
       IN  0 \notin d /\ \A i \in 20 .. 31 : i \in d <=> 20 \in d

VARIABLES
  reg, pc, cnt_inst, instif,
  memif,         \* what the core drives to the memory, kept from store to store
  mem,           \* the memory's words
  start_addr     \* the address of _start the loader has found

vars == <<reg, pc, cnt_inst, instif, memif, mem, start_addr>>

InstIF == [valid : BOOLEAN, pc : Word, ir : Word, result : Word, d_addr : Word,
           d_baddr : Lanes, d_wdata : Word, d_wmask : SUBSET (0 .. 3)]
MemIF  == [d_we : BOOLEAN, d_addr : Word, d_wdata : Word, d_wmask : SUBSET (0 .. 3)]

TypeOK ==
  /\ reg \in [0 .. 31 -> Word] /\ reg[0] = {}
  /\ pc \in Word
  /\ cnt_inst \in Nat
  /\ instif \in InstIF
  /\ memif \in MemIF
  /\ mem \in Image
  /\ start_addr \in Starts

--------------------------------------------------------------------------------
(* addr & ~0x3 and addr & 0x3. *)
Aligned(addr) == addr \ {0, 1}
Lane(addr)    == addr \cap {0, 1}

(* Memory::read_4b and read_1b, and read() of the bytes of a halfword or of *)
(* a word: at an address that is no multiple of 4 it reads byte by byte.    *)
Read4(m, addr) == m[addr \cap CellBits]
Read1(m, addr) == Field(Read4(m, addr), 8 * Number(Lane(addr)), 8)
Read2(m, addr) == Read1(m, addr) \cup Shl(Read1(m, Plus(addr, {0})), 8)
Fetch(m, addr) ==
  IF Lane(addr) = {} THEN Read4(m, addr)
  ELSE Read2(m, addr) \cup Shl(Read2(m, Plus(addr, {1})), 16)

(* expand_wmask and write_mask. *)
Expand(mask) == {i \in Bits : i \div 8 \in mask}
Write(m, addr, data, mask) ==
  [m EXCEPT ![addr \cap CellBits] = (@ \ Expand(mask)) \cup (data \cap Expand(mask))]

--------------------------------------------------------------------------------
ShiftBy(w) == Number(w)                   \* w & 0x1f

SignedAlways(a, b) == SignedBelow(a, b)  \* mutant: compares unsigned words as signed

SignedLess(a, b)   == SignedBelow(a, b)
UnsignedLess(a, b) == Below(a, b)

(* The arithmetic and logic instructions, on two registers or on rs1 and an *)
(* immediate.  A shift by an immediate of 32 or more is undefined in C++;   *)
(* the shift instructions of x86 use the low five bits.                     *)
Alu(id, a, b) ==
  CASE id \in {"add", "addi"}   -> Plus(a, b)
    [] id = "sub"               -> Minus(a, b)
    [] id \in {"sll", "slli"}   -> Shl(a, ShiftBy(b))
    [] id \in {"slt", "slti"}   -> Flag(SignedLess(a, b))
    [] id \in {"sltu", "sltiu"} -> Flag(UnsignedLess(a, b))
    [] id \in {"xor", "xori"}   -> Xor(a, b)
    [] id \in {"srl", "srli"}   -> Shr(a, ShiftBy(b))
    [] id \in {"sra", "srai"}   -> Sar(a, ShiftBy(b))
    [] id \in {"or", "ori"}     -> a \cup b
    [] id \in {"and", "andi"}   -> a \cap b

WithImmediate == {Immediate[i] : i \in 1 .. 8} \cup {"srai"}
WithRegisters == {Registers[i] : i \in 1 .. 8} \cup {"sub", "sra"}

Taken(id, a, b) ==
  CASE id = "beq" -> a = b [] id = "bne" -> a # b
    [] id = "blt" -> SignedLess(a, b) [] id = "bge" -> ~ SignedLess(a, b)
    [] id = "bltu" -> UnsignedLess(a, b) [] id = "bgeu" -> ~ UnsignedLess(a, b)

Load(id, m, addr) ==
  CASE id = "lb" -> Sext(Read1(m, addr), 8) [] id = "lbu" -> Read1(m, addr)
    [] id = "lh" -> Sext(Read2(m, addr), 16) [] id = "lhu" -> Read2(m, addr)
    [] id = "lw" -> Read4(m, Aligned(addr))

(* The register file after the switch: instructions write reg[rd] in place, *)
(* also reg[0].                                                             *)
Executed(inst, addr) ==
  LET a == reg[inst.rs1]
      Put(w) == [reg EXCEPT ![inst.rd] = w]
  IN  CASE inst.id = "lui" -> Put(inst.imm)
        [] inst.id = "auipc" -> Put(inst.npc)
        [] inst.id \in {"jal", "jalr"} -> Put(Plus(pc, {2}))
        [] IsLoad(inst.id) -> Put(Load(inst.id, mem, addr))
        [] inst.id \in WithImmediate -> Put(Alu(inst.id, a, inst.imm))
        [] inst.id \in WithRegisters -> Put(Alu(inst.id, a, reg[inst.rs2]))
        [] OTHER -> reg                   \* branches, stores, fences, system

(* npc, from the registers regs as the switch left them: jalr reads rs1     *)
(* after it has written the link to rd.                                     *)
NextPC(inst, regs) ==
  CASE inst.id = "jal" -> inst.npc
    [] inst.id = "jalr" -> Plus(regs[inst.rs1], inst.imm)
    [] IsBranch(inst.id) /\ Taken(inst.id, reg[inst.rs1], reg[inst.rs2]) -> inst.npc
    [] OTHER -> Plus(pc, {2})

(* What a store drives: its data moved to the lanes addressed; sh ignores   *)
(* the lowest bit of the address, sw the lowest two.                        *)
StoreRequest(inst, addr) ==
  LET lane == CASE inst.id = "sb" -> Number(Lane(addr))
                [] inst.id = "sh" -> Number(addr \cap {1})
                [] inst.id = "sw" -> 0
  IN  [d_we |-> TRUE, d_addr |-> Aligned(addr), d_wdata |-> Shl(reg[inst.rs2], 8 * lane),
       d_wmask |-> lane .. lane + Size(inst.id) - 1]

Request(inst, addr) ==
  CASE IsStore(inst.id) -> StoreRequest(inst, addr)
    [] IsLoad(inst.id)  -> [memif EXCEPT !.d_we = FALSE, !.d_addr = Aligned(addr)]
    [] OTHER            -> [memif EXCEPT !.d_we = FALSE]

LaneOfHalves(inst, addr) ==              \* mutant: bytes have the lane of their halfword
  IF inst.id = "lw" THEN {} ELSE addr \cap {1}

ByteLane(inst, addr) ==
  CASE inst.id \in {"lb", "lbu"} -> Lane(addr) [] inst.id \in {"lh", "lhu"} -> addr \cap {1}
    [] OTHER -> {}

--------------------------------------------------------------------------------
Quiet == [valid |-> FALSE, pc |-> {}, ir |-> {}, result |-> {}, d_addr |-> {},
          d_baddr |-> {}, d_wdata |-> {}, d_wmask |-> {}]

(* The loader puts a jump to _start at the initial program counter. *)
Entered(image, start) ==
  [image EXCEPT ![INITIAL_PC \cap CellBits] = MakeJal(Minus(start, INITIAL_PC))]

Init ==
  /\ reg = [[r \in 0 .. 31 |-> {}] EXCEPT ![2] = INITIAL_SP]
  /\ pc = INITIAL_PC
  /\ cnt_inst = 0
  /\ instif = Quiet
  /\ memif = [d_we |-> FALSE, d_addr |-> {}, d_wdata |-> {}, d_wmask |-> {}]
  /\ start_addr \in Starts
  /\ mem \in {Entered(image, start_addr) : image \in Programs}

NotCleared(regs) == regs                 \* mutant: the zero register keeps its result
Cleared(regs) == [regs EXCEPT ![0] = {}]

(* drive() of a known instruction, then the memory's update(). *)
Execute ==
  LET inst == Decode(pc, Fetch(mem, pc))
      addr == Plus(reg[inst.rs1], inst.imm)
      regs == Executed(inst, addr)
  IN  /\ cnt_inst < MaxInsts
      /\ inst.id # "???"
      /\ memif' = Request(inst, addr)
      /\ instif' = [valid |-> TRUE, pc |-> pc, ir |-> Fetch(mem, pc), result |-> regs[inst.rd],
                    d_addr |-> memif'.d_addr, d_baddr |-> ByteLane(inst, addr),
                    d_wdata |-> memif'.d_wdata, d_wmask |-> memif'.d_wmask]
      /\ pc' = NextPC(inst, regs)
      /\ reg' = Cleared(regs)
      /\ cnt_inst' = cnt_inst + 1
      /\ mem' = IF memif'.d_we THEN Write(mem, memif'.d_addr, memif'.d_wdata, memif'.d_wmask)
                ELSE mem
      /\ UNCHANGED start_addr

(* drive() of an unknown instruction fails. *)
Unknown ==
  /\ cnt_inst < MaxInsts
  /\ InstrId(Fetch(mem, pc)) = "???"
  /\ memif' = [memif EXCEPT !.d_we = FALSE]
  /\ instif' = [instif EXCEPT !.valid = FALSE]
  /\ UNCHANGED <<reg, pc, cnt_inst, mem, start_addr>>

Next == Execute \/ Unknown

Spec == Init /\ [][Next]_vars

--------------------------------------------------------------------------------
(* get_log: the word a store leaves in memory and the value a load reads,   *)
(* worked out again from the report and the memory after the cycle.         *)
LoggedStore(iif) ==
  (Read4(mem, iif.d_addr) \ Expand(iif.d_wmask)) \cup (iif.d_wdata \cap Expand(iif.d_wmask))

LoggedLoad(iif) ==
  LET id   == InstrId(iif.ir)
      data == Field(Read4(mem, iif.d_addr), 8 * Number(iif.d_baddr), 8 * Size(id))
  IN  IF id \in {"lb", "lh"} THEN Sext(data, 8 * Size(id)) ELSE data

(* The log line, worked out again after the memory has been updated, shows  *)
(* what the instruction did.  Of a load: the value it wrote, for bytes at   *)
(* every lane, halfwords at both, and words at any address (the core and    *)
(* get_log both align it); a halfword at an odd address is shown from the   *)
(* even one, and is left out.  Of a store: the word now in memory, at any   *)
(* address, and in it the bytes of rs2, at the place that was addressed if  *)
(* the address is a multiple of the size.                                   *)
LoadShown(inst, addr) ==
  (inst.id \in {"lh", "lhu"} => 0 \notin addr) => LoggedLoad(instif)' = instif'.result

StoreShown(inst, addr) ==
  /\ LoggedStore(instif)' = Read4(mem', Aligned(addr))
  /\ Number(Lane(addr)) % Size(inst.id) = 0 =>
       Field(LoggedStore(instif)', 8 * Number(Lane(addr)), 8 * Size(inst.id))
         = Field(reg[inst.rs2], 0, 8 * Size(inst.id))

AccessShown ==
  instif'.valid =>
    \A inst \in {Decode(pc, instif'.ir)} : \A addr \in {Plus(reg[inst.rs1], inst.imm)} :
      /\ IsLoad(inst.id) => LoadShown(inst, addr)
      /\ IsStore(inst.id) => StoreShown(inst, addr)

LogShowsAccess == [][AccessShown]_vars

(* The first instruction executed, encoded by the loader and decoded by the *)
(* core, gets to _start (starts in the reach of a jal).                     *)
EntersProgram == cnt_inst = 1 => pc = start_addr

(* The core computes what RV32I says, although it writes registers in place *)
(* (x0 too) and stores words under masks.                                   *)
ISA == INSTANCE RV32I WITH
  regs <- reg, ByteBits <- CellBits \cup {0, 1},
  bytes <- [b \in SUBSET (CellBits \cup {0, 1}) |->
              Field(mem[b \cap CellBits], 8 * Number(Lane(b)), 8)]

ImplementsISA == ISA!Spec

(* The instructions considered have operands that their formats can hold.   *)
ASSUME ListingAssumption == \A w \in DOMAIN Listing : ISA!Legal(Listing[w])

(* A jalr with two registers, to an even address: the programs for which    *)
(* the order of reading and writing registers does not show, and that keep  *)
(* to the manual's instruction addresses.                                   *)
RegularJalr ==
  \A inst \in {Decode(pc, Fetch(mem, pc))} :
    inst.id = "jalr" => /\ inst.rd # inst.rs1
                        /\ 0 \notin Plus(reg[inst.rs1], inst.imm)
================================================================================
