-------------------------- MODULE FunctionalCore_proofs --------------------------
(***************************************************************************)
(* For every program: the decoder undoes the encodings of the manual and   *)
(* of the loader's make_jal; the types of the functional core, with the    *)
(* zero register, which instructions do write and every cycle clears; each *)
(* cycle is a step of RV32I, except a jalr that links the register it      *)
(* jumps by; a log line shows what memory holds; and the operators on      *)
(* words are the arithmetic of uint32_t and int32_t.                       *)
(*                                                                         *)
(* The step of RV32I is proved operand by operand: the decoded instruction *)
(* (InstructionsDecoded), addresses and bytes (ByteAddress, LoadsAgree,    *)
(* StoresAgree), arithmetic (AluAgrees), the jump (TargetAgrees).          *)
(***************************************************************************)
EXTENDS FunctionalCore, Encoding, TLAPS

LEMMA ShlBit == ASSUME NEW w \in Word, NEW n \in Nat, NEW i \in Bits
                PROVE  i \in Shl(w, n) <=> i - n \in w
  BY DEF Shl, Word, Bits

LEMMA ShrBit == ASSUME NEW w \in Word, NEW n \in Nat, NEW i \in Bits
                PROVE  i \in Shr(w, n) <=> i + n \in w
  BY DEF Shr, Word, Bits

LEMMA JumpImmBit ==
  ASSUME NEW ir \in Word, NEW i \in Bits
  PROVE  i \in JumpImm(ir) <=> \/ i >= 20 /\ 31 \in ir
                               \/ i \in 12 .. 19 /\ i \in ir
                               \/ i = 11 /\ 20 \in ir
                               \/ i \in 1 .. 10 /\ i + 20 \in ir
<1>1. i \in Shr(ir, 9) <=> i + 9 \in ir
  BY ShrBit
<1>2. i \in Shr(ir, 20) <=> i + 20 \in ir
  BY ShrBit
<1> QED BY <1>1, <1>2 DEF JumpImm, Bits

LEMMA MakeJalBit ==
  ASSUME NEW imm \in Word, NEW j \in Bits
  PROVE  j \in MakeJal(imm) <=> \/ j \in 21 .. 30 /\ j - 20 \in imm
                                \/ j = 20 /\ 11 \in imm
                                \/ j \in 12 .. 19 /\ j \in imm
                                \/ j = 31 /\ 20 \in imm
                                \/ j \in {0, 1, 2, 3, 5, 6}
<1>1. j \in Shl(imm, 20) <=> j - 20 \in imm
  BY ShlBit
<1>2. j \in Shl(imm, 9) <=> j - 9 \in imm
  BY ShlBit
<1>3. j \in Shl(imm, 11) <=> j - 11 \in imm
  BY ShlBit
<1> QED BY <1>1, <1>2, <1>3 DEF MakeJal, Bits

LEMMA MakeJalWord == ASSUME NEW imm \in Word PROVE MakeJal(imm) \in Word
  BY DEF MakeJal, Shl, Word, Bits

(* The distance to _start survives make_jal and get_imm.                    *)
THEOREM LoaderJumpDecoded ==
  ASSUME NEW imm, IsImm(imm, 1, 20)
  PROVE  JumpImm(MakeJal(imm)) = imm
<1> USE DEF IsImm
<1>1. \A i \in Bits : i \in JumpImm(MakeJal(imm)) <=> i \in imm
  <2> SUFFICES ASSUME NEW i \in Bits PROVE i \in JumpImm(MakeJal(imm)) <=> i \in imm
    OBVIOUS
  <2>1. \/ i >= 20 /\ 31 \in MakeJal(imm)
        \/ i \in 12 .. 19 /\ i \in MakeJal(imm)
        \/ i = 11 /\ 20 \in MakeJal(imm)
        \/ i \in 1 .. 10 /\ i + 20 \in MakeJal(imm)
        <=> i \in JumpImm(MakeJal(imm))
    BY MakeJalWord, JumpImmBit
  <2>2. 31 \in MakeJal(imm) <=> 20 \in imm
    BY MakeJalBit DEF Bits
  <2>3. 20 \in MakeJal(imm) <=> 11 \in imm
    BY MakeJalBit DEF Bits
  <2>4. i \in 12 .. 19 => (i \in MakeJal(imm) <=> i \in imm)
    BY MakeJalBit DEF Bits
  <2>5. i \in 1 .. 10 => (i + 20 \in MakeJal(imm) <=> i \in imm)
    <3> SUFFICES ASSUME i \in 1 .. 10 PROVE i + 20 \in MakeJal(imm) <=> i \in imm
      OBVIOUS
    <3>1. i + 20 \in Bits /\ i + 20 \in 21 .. 30 /\ (i + 20) - 20 = i
      BY DEF Bits
    <3> QED BY <3>1, MakeJalBit
  <2>6. (i >= 20 => (i \in imm <=> 20 \in imm)) /\ (i = 0 => i \notin imm)
    BY DEF Bits
  <2>7. i = 0 \/ i \in 1 .. 10 \/ i = 11 \/ i \in 12 .. 19 \/ i >= 20
    BY DEF Bits
  <2> QED BY <2>1, <2>2, <2>3, <2>4, <2>5, <2>6, <2>7 DEF Bits
<1>2. JumpImm(MakeJal(imm)) \in Word
  BY MakeJalWord DEF JumpImm, Shr, Word, Bits
<1> QED BY <1>1, <1>2 DEF Word

--------------------------------------------------------------------------------
(* The manual's formats: where the bits of their operands go.               *)
LEMMA NumBits ==
  ASSUME NEW n, NEW width \in Nat, NEW at \in Nat
  PROVE  \A j \in Num(n, width, at) : j \in Int /\ j >= at /\ j < at + width
  BY DEF Num

LEMMA LowBits ==
  ASSUME NEW j \in Bits, NEW opcode, NEW rd, NEW funct3, NEW rs1, NEW rs2
  PROVE  /\ j >= 7 => j \notin {0, 1} /\ j \notin Num(opcode, 5, 2)
         /\ j >= 12 \/ j < 7 => j \notin Num(rd, 5, 7)
         /\ j >= 15 \/ j < 12 => j \notin Num(funct3, 3, 12)
         /\ j >= 20 \/ j < 15 => j \notin Num(rs1, 5, 15)
         /\ j >= 25 \/ j < 20 => j \notin Num(rs2, 5, 20)
<1>1. j >= 7 => j \notin {0, 1} /\ j \notin Num(opcode, 5, 2)
  BY NumBits DEF Bits
<1>2. j >= 12 \/ j < 7 => j \notin Num(rd, 5, 7)
  BY NumBits DEF Bits
<1>3. j >= 15 \/ j < 12 => j \notin Num(funct3, 3, 12)
  BY NumBits DEF Bits
<1>4. j >= 20 \/ j < 15 => j \notin Num(rs1, 5, 15)
  BY NumBits DEF Bits
<1>5. j >= 25 \/ j < 20 => j \notin Num(rs2, 5, 20)
  BY NumBits DEF Bits
<1> QED BY <1>1, <1>2, <1>3, <1>4, <1>5

LEMMA LayoutWord ==
  ASSUME NEW a, a.imm \in Word, NEW opcode, NEW funct3, NEW f \in {"I", "S", "B", "U", "J"}
  PROVE  Layout(f, opcode, funct3, a) \in Word
<1>1. /\ Num(opcode, 5, 2) \subseteq Bits /\ Num(a.rd, 5, 7) \subseteq Bits
      /\ Num(funct3, 3, 12) \subseteq Bits /\ Num(a.rs1, 5, 15) \subseteq Bits
      /\ Num(a.rs2, 5, 20) \subseteq Bits /\ {0, 1} \subseteq Bits
  BY NumBits DEF Bits
<1>2. /\ Place(a.imm, 0, 11, 20) \subseteq Bits
      /\ Place(a.imm, 0, 4, 7) \subseteq Bits /\ Place(a.imm, 5, 11, 25) \subseteq Bits
      /\ Place(a.imm, 1, 4, 8) \subseteq Bits /\ Place(a.imm, 11, 11, 7) \subseteq Bits
      /\ Place(a.imm, 5, 10, 25) \subseteq Bits /\ Place(a.imm, 12, 12, 31) \subseteq Bits
      /\ Place(a.imm, 12, 31, 12) \subseteq Bits /\ Place(a.imm, 12, 19, 12) \subseteq Bits
      /\ Place(a.imm, 11, 11, 20) \subseteq Bits /\ Place(a.imm, 1, 10, 21) \subseteq Bits
      /\ Place(a.imm, 20, 20, 31) \subseteq Bits
  BY DEF Place, Word, Bits
<1> QED BY <1>1, <1>2 DEF Layout, Word

(* I: twelve bits in 20 .. 31.                                              *)
LEMMA ShortReturns ==
  ASSUME NEW a, NEW opcode, NEW funct3, IsImm(a.imm, 0, 11)
  PROVE  ShortImm(Layout("I", opcode, funct3, a)) = a.imm
<1> DEFINE ir == Layout("I", opcode, funct3, a)
<1>1. a.imm \in Word
  BY DEF IsImm
<1>2. \A j \in 20 .. 31 : j \in ir <=> j - 20 \in a.imm
  <2> SUFFICES ASSUME NEW j \in 20 .. 31 PROVE j \in ir <=> j - 20 \in a.imm
    OBVIOUS
  <2>1. j \in Bits
    BY DEF Bits
  <2>2. j \in Place(a.imm, 0, 11, 20) <=> j - 20 \in a.imm
    BY <1>1, <2>1 DEF Place, Word, Bits
  <2>3. j \notin {0, 1} /\ j \notin Num(opcode, 5, 2) /\ j \notin Num(a.rd, 5, 7)
        /\ j \notin Num(funct3, 3, 12) /\ j \notin Num(a.rs1, 5, 15)
    BY <2>1, LowBits
  <2> QED BY <2>2, <2>3 DEF Layout
<1>0. ir \in Word
  BY <1>1, LayoutWord
<1> HIDE DEF ir
<1>3. \A i \in Bits : i \in ShortImm(ir) <=> i \in a.imm
  <2> SUFFICES ASSUME NEW i \in Bits PROVE i \in ShortImm(ir) <=> i \in a.imm
    OBVIOUS
  <2>1. 31 \in ir <=> 11 \in a.imm
    BY <1>2
  <2>2. i >= 11 => (i \in a.imm <=> 11 \in a.imm)
    BY DEF IsImm, Bits
  <2>3. i <= 11 => (i \in Shr(ir, 20) <=> i \in a.imm)
    <3> SUFFICES ASSUME i <= 11 PROVE i \in Shr(ir, 20) <=> i \in a.imm
      OBVIOUS
    <3>1. i \in Shr(ir, 20) <=> i + 20 \in ir
      BY <1>0, ShrBit
    <3>2. i + 20 \in 20 .. 31 /\ (i + 20) - 20 = i
      BY DEF Bits
    <3> QED BY <3>1, <3>2, <1>2
  <2> QED BY <2>1, <2>2, <2>3 DEF ShortImm, Bits
<1>4. ShortImm(ir) \subseteq Bits
  BY DEF ShortImm, Shr, Bits
<1> QED BY <1>1, <1>3, <1>4 DEF Word, ir

(* S: bits 11 .. 5 in 31 .. 25 and 4 .. 0 in 11 .. 7.                       *)
LEMMA StoreReturns ==
  ASSUME NEW a, NEW opcode, NEW funct3, IsImm(a.imm, 0, 11)
  PROVE  StoreImm(Layout("S", opcode, funct3, a)) = a.imm
<1> DEFINE ir == Layout("S", opcode, funct3, a)
<1>1. a.imm \in Word
  BY DEF IsImm
<1>2. ir \in Word
  BY <1>1, LayoutWord
<1>3. \A j \in 25 .. 31 : j \in ir <=> j - 20 \in a.imm
  <2> SUFFICES ASSUME NEW j \in 25 .. 31 PROVE j \in ir <=> j - 20 \in a.imm
    OBVIOUS
  <2>1. j \in Bits
    BY DEF Bits
  <2>2. j \in Place(a.imm, 5, 11, 25) <=> j - 20 \in a.imm
    BY <1>1, <2>1 DEF Place, Word, Bits
  <2>3. j \notin Place(a.imm, 0, 4, 7)
    BY <1>1, <2>1 DEF Place, Word, Bits
  <2>4. j \notin {0, 1} /\ j \notin Num(opcode, 5, 2) /\ j \notin Num(funct3, 3, 12) /\ j \notin Num(a.rs1, 5, 15) /\ j \notin Num(a.rs2, 5, 20)
    BY <2>1, LowBits
  <2> QED BY <2>2, <2>3, <2>4 DEF Layout
<1>4. \A j \in 7 .. 11 : j \in ir <=> j - 7 \in a.imm
  <2> SUFFICES ASSUME NEW j \in 7 .. 11 PROVE j \in ir <=> j - 7 \in a.imm
    OBVIOUS
  <2>1. j \in Bits
    BY DEF Bits
  <2>2. j \in Place(a.imm, 0, 4, 7) <=> j - 7 \in a.imm
    BY <1>1, <2>1 DEF Place, Word, Bits
  <2>3. j \notin Place(a.imm, 5, 11, 25)
    BY <1>1, <2>1 DEF Place, Word, Bits
  <2>4. j \notin {0, 1} /\ j \notin Num(opcode, 5, 2) /\ j \notin Num(funct3, 3, 12) /\ j \notin Num(a.rs1, 5, 15) /\ j \notin Num(a.rs2, 5, 20)
    BY <2>1, LowBits
  <2> QED BY <2>2, <2>3, <2>4 DEF Layout
<1> HIDE DEF ir
<1>5. \A i \in Bits : i \in StoreImm(ir) <=> i \in a.imm
  <2> SUFFICES ASSUME NEW i \in Bits PROVE i \in StoreImm(ir) <=> i \in a.imm
    OBVIOUS
  <2>1. 31 \in ir <=> 11 \in a.imm
    BY <1>3
  <2>2. i >= 11 => (i \in a.imm <=> 11 \in a.imm)
    BY DEF IsImm, Bits
  <2>3. i < 0 => i \notin a.imm
    BY DEF IsImm
  <2>4. i \in 5 .. 11 => (i \in Shr(ir, 20) <=> i \in a.imm)
    <3> SUFFICES ASSUME i \in 5 .. 11 PROVE i \in Shr(ir, 20) <=> i \in a.imm
      OBVIOUS
    <3>1. i \in Shr(ir, 20) <=> i + 20 \in ir
      BY <1>2, ShrBit
    <3>2. i + 20 \in 25 .. 31 /\ (i + 20) - 20 = i
      BY DEF Bits
    <3> QED BY <3>1, <3>2, <1>3
  <2>5. i \in 0 .. 4 => (i \in Shr(ir, 7) <=> i \in a.imm)
    <3> SUFFICES ASSUME i \in 0 .. 4 PROVE i \in Shr(ir, 7) <=> i \in a.imm
      OBVIOUS
    <3>1. i \in Shr(ir, 7) <=> i + 7 \in ir
      BY <1>2, ShrBit
    <3>2. i + 7 \in 7 .. 11 /\ (i + 7) - 7 = i
      BY DEF Bits
    <3> QED BY <3>1, <3>2, <1>4
  <2> QED BY <2>1, <2>2, <2>3, <2>4, <2>5 DEF StoreImm, Bits
<1>6. StoreImm(ir) \subseteq Bits
  BY <1>2 DEF StoreImm, Shl, Shr, Word, Bits
<1> QED BY <1>1, <1>5, <1>6 DEF Word, ir

(* B: bit 12 in 31, 10 .. 5 in 30 .. 25, 4 .. 1 in 11 .. 8, 11 in 7.        *)
LEMMA BranchReturns ==
  ASSUME NEW a, NEW opcode, NEW funct3, IsImm(a.imm, 1, 12)
  PROVE  BranchImm(Layout("B", opcode, funct3, a)) = a.imm
<1> DEFINE ir == Layout("B", opcode, funct3, a)
<1>1. a.imm \in Word
  BY DEF IsImm
<1>2. ir \in Word
  BY <1>1, LayoutWord
<1>3. \A j \in {31} : j \in ir <=> j - 19 \in a.imm
  <2> SUFFICES ASSUME NEW j \in {31} PROVE j \in ir <=> j - 19 \in a.imm
    OBVIOUS
  <2>1. j \in Bits
    BY DEF Bits
  <2>2. j \in Place(a.imm, 12, 12, 31) <=> j - 19 \in a.imm
    BY <1>1, <2>1 DEF Place, Word, Bits
  <2>3. j \notin Place(a.imm, 1, 4, 8) /\ j \notin Place(a.imm, 11, 11, 7) /\ j \notin Place(a.imm, 5, 10, 25)
    BY <1>1, <2>1 DEF Place, Word, Bits
  <2>4. j \notin {0, 1} /\ j \notin Num(opcode, 5, 2) /\ j \notin Num(funct3, 3, 12) /\ j \notin Num(a.rs1, 5, 15) /\ j \notin Num(a.rs2, 5, 20)
    BY <2>1, LowBits
  <2> QED BY <2>2, <2>3, <2>4 DEF Layout
<1>4. \A j \in 25 .. 30 : j \in ir <=> j - 20 \in a.imm
  <2> SUFFICES ASSUME NEW j \in 25 .. 30 PROVE j \in ir <=> j - 20 \in a.imm
    OBVIOUS
  <2>1. j \in Bits
    BY DEF Bits
  <2>2. j \in Place(a.imm, 5, 10, 25) <=> j - 20 \in a.imm
    BY <1>1, <2>1 DEF Place, Word, Bits
  <2>3. j \notin Place(a.imm, 1, 4, 8) /\ j \notin Place(a.imm, 11, 11, 7) /\ j \notin Place(a.imm, 12, 12, 31)
    BY <1>1, <2>1 DEF Place, Word, Bits
  <2>4. j \notin {0, 1} /\ j \notin Num(opcode, 5, 2) /\ j \notin Num(funct3, 3, 12) /\ j \notin Num(a.rs1, 5, 15) /\ j \notin Num(a.rs2, 5, 20)
    BY <2>1, LowBits
  <2> QED BY <2>2, <2>3, <2>4 DEF Layout
<1>5. \A j \in 8 .. 11 : j \in ir <=> j - 7 \in a.imm
  <2> SUFFICES ASSUME NEW j \in 8 .. 11 PROVE j \in ir <=> j - 7 \in a.imm
    OBVIOUS
  <2>1. j \in Bits
    BY DEF Bits
  <2>2. j \in Place(a.imm, 1, 4, 8) <=> j - 7 \in a.imm
    BY <1>1, <2>1 DEF Place, Word, Bits
  <2>3. j \notin Place(a.imm, 11, 11, 7) /\ j \notin Place(a.imm, 5, 10, 25) /\ j \notin Place(a.imm, 12, 12, 31)
    BY <1>1, <2>1 DEF Place, Word, Bits
  <2>4. j \notin {0, 1} /\ j \notin Num(opcode, 5, 2) /\ j \notin Num(funct3, 3, 12) /\ j \notin Num(a.rs1, 5, 15) /\ j \notin Num(a.rs2, 5, 20)
    BY <2>1, LowBits
  <2> QED BY <2>2, <2>3, <2>4 DEF Layout
<1>6. \A j \in {7} : j \in ir <=> j + 4 \in a.imm
  <2> SUFFICES ASSUME NEW j \in {7} PROVE j \in ir <=> j + 4 \in a.imm
    OBVIOUS
  <2>1. j \in Bits
    BY DEF Bits
  <2>2. j \in Place(a.imm, 11, 11, 7) <=> j + 4 \in a.imm
    BY <1>1, <2>1 DEF Place, Word, Bits
  <2>3. j \notin Place(a.imm, 1, 4, 8) /\ j \notin Place(a.imm, 5, 10, 25) /\ j \notin Place(a.imm, 12, 12, 31)
    BY <1>1, <2>1 DEF Place, Word, Bits
  <2>4. j \notin {0, 1} /\ j \notin Num(opcode, 5, 2) /\ j \notin Num(funct3, 3, 12) /\ j \notin Num(a.rs1, 5, 15) /\ j \notin Num(a.rs2, 5, 20)
    BY <2>1, LowBits
  <2> QED BY <2>2, <2>3, <2>4 DEF Layout
<1> HIDE DEF ir
<1>7. \A i \in Bits : i \in BranchImm(ir) <=> i \in a.imm
  <2> SUFFICES ASSUME NEW i \in Bits PROVE i \in BranchImm(ir) <=> i \in a.imm
    OBVIOUS
  <2>1. 31 \in ir <=> 12 \in a.imm
    BY <1>3
  <2>2. i >= 12 => (i \in a.imm <=> 12 \in a.imm)
    BY DEF IsImm, Bits
  <2>3. i < 1 => i \notin a.imm
    BY DEF IsImm
  <2>4. i \in 5 .. 10 => (i \in Shr(ir, 20) <=> i \in a.imm)
    <3> SUFFICES ASSUME i \in 5 .. 10 PROVE i \in Shr(ir, 20) <=> i \in a.imm
      OBVIOUS
    <3>1. i \in Shr(ir, 20) <=> i + 20 \in ir
      BY <1>2, ShrBit
    <3>2. i + 20 \in 25 .. 30 /\ (i + 20) - 20 = i
      BY DEF Bits
    <3> QED BY <3>1, <3>2, <1>4
  <2>5. i \in 1 .. 4 => (i \in Shr(ir, 7) <=> i \in a.imm)
    <3> SUFFICES ASSUME i \in 1 .. 4 PROVE i \in Shr(ir, 7) <=> i \in a.imm
      OBVIOUS
    <3>1. i \in Shr(ir, 7) <=> i + 7 \in ir
      BY <1>2, ShrBit
    <3>2. i + 7 \in 8 .. 11 /\ (i + 7) - 7 = i
      BY DEF Bits
    <3> QED BY <3>1, <3>2, <1>5
  <2>6. i = 11 => (i \in Shl(ir, 4) <=> i \in a.imm)
    <3> SUFFICES ASSUME i = 11 PROVE i \in Shl(ir, 4) <=> i \in a.imm
      OBVIOUS
    <3>1. i \in Shl(ir, 4) <=> i - 4 \in ir
      BY <1>2, ShlBit
    <3>2. i - 4 \in {7} /\ (i - 4) + 4 = i
      BY DEF Bits
    <3> QED BY <3>1, <3>2, <1>6
  <2> QED BY <2>1, <2>2, <2>3, <2>4, <2>5, <2>6 DEF BranchImm, Bits
<1>8. BranchImm(ir) \subseteq Bits
  BY <1>2 DEF BranchImm, Shl, Shr, Word, Bits
<1> QED BY <1>1, <1>7, <1>8 DEF Word, ir

(* J: bit 20 in 31, 10 .. 1 in 30 .. 21, 11 in 20, 19 .. 12 in place.       *)
LEMMA JalReturns ==
  ASSUME NEW a, NEW opcode, NEW funct3, IsImm(a.imm, 1, 20)
  PROVE  JumpImm(Layout("J", opcode, funct3, a)) = a.imm
<1> DEFINE ir == Layout("J", opcode, funct3, a)
<1>1. a.imm \in Word
  BY DEF IsImm
<1>2. ir \in Word
  BY <1>1, LayoutWord
<1>3. \A j \in {31} : j \in ir <=> j - 11 \in a.imm
  <2> SUFFICES ASSUME NEW j \in {31} PROVE j \in ir <=> j - 11 \in a.imm
    OBVIOUS
  <2>1. j \in Bits
    BY DEF Bits
  <2>2. j \in Place(a.imm, 20, 20, 31) <=> j - 11 \in a.imm
    BY <1>1, <2>1 DEF Place, Word, Bits
  <2>3. j \notin Place(a.imm, 12, 19, 12) /\ j \notin Place(a.imm, 11, 11, 20) /\ j \notin Place(a.imm, 1, 10, 21)
    BY <1>1, <2>1 DEF Place, Word, Bits
  <2>4. j \notin {0, 1} /\ j \notin Num(opcode, 5, 2) /\ j \notin Num(a.rd, 5, 7)
    BY <2>1, LowBits
  <2> QED BY <2>2, <2>3, <2>4 DEF Layout
<1>4. \A j \in 21 .. 30 : j \in ir <=> j - 20 \in a.imm
  <2> SUFFICES ASSUME NEW j \in 21 .. 30 PROVE j \in ir <=> j - 20 \in a.imm
    OBVIOUS
  <2>1. j \in Bits
    BY DEF Bits
  <2>2. j \in Place(a.imm, 1, 10, 21) <=> j - 20 \in a.imm
    BY <1>1, <2>1 DEF Place, Word, Bits
  <2>3. j \notin Place(a.imm, 12, 19, 12) /\ j \notin Place(a.imm, 11, 11, 20) /\ j \notin Place(a.imm, 20, 20, 31)
    BY <1>1, <2>1 DEF Place, Word, Bits
  <2>4. j \notin {0, 1} /\ j \notin Num(opcode, 5, 2) /\ j \notin Num(a.rd, 5, 7)
    BY <2>1, LowBits
  <2> QED BY <2>2, <2>3, <2>4 DEF Layout
<1>5. \A j \in {20} : j \in ir <=> j - 9 \in a.imm
  <2> SUFFICES ASSUME NEW j \in {20} PROVE j \in ir <=> j - 9 \in a.imm
    OBVIOUS
  <2>1. j \in Bits
    BY DEF Bits
  <2>2. j \in Place(a.imm, 11, 11, 20) <=> j - 9 \in a.imm
    BY <1>1, <2>1 DEF Place, Word, Bits
  <2>3. j \notin Place(a.imm, 12, 19, 12) /\ j \notin Place(a.imm, 1, 10, 21) /\ j \notin Place(a.imm, 20, 20, 31)
    BY <1>1, <2>1 DEF Place, Word, Bits
  <2>4. j \notin {0, 1} /\ j \notin Num(opcode, 5, 2) /\ j \notin Num(a.rd, 5, 7)
    BY <2>1, LowBits
  <2> QED BY <2>2, <2>3, <2>4 DEF Layout
<1>6. \A j \in 12 .. 19 : j \in ir <=> j \in a.imm
  <2> SUFFICES ASSUME NEW j \in 12 .. 19 PROVE j \in ir <=> j \in a.imm
    OBVIOUS
  <2>1. j \in Bits
    BY DEF Bits
  <2>2. j \in Place(a.imm, 12, 19, 12) <=> j \in a.imm
    BY <1>1, <2>1 DEF Place, Word, Bits
  <2>3. j \notin Place(a.imm, 11, 11, 20) /\ j \notin Place(a.imm, 1, 10, 21) /\ j \notin Place(a.imm, 20, 20, 31)
    BY <1>1, <2>1 DEF Place, Word, Bits
  <2>4. j \notin {0, 1} /\ j \notin Num(opcode, 5, 2) /\ j \notin Num(a.rd, 5, 7)
    BY <2>1, LowBits
  <2> QED BY <2>2, <2>3, <2>4 DEF Layout
<1> HIDE DEF ir
<1>7. \A i \in Bits : i \in JumpImm(ir) <=> i \in a.imm
  <2> SUFFICES ASSUME NEW i \in Bits PROVE i \in JumpImm(ir) <=> i \in a.imm
    OBVIOUS
  <2>1. 31 \in ir <=> 20 \in a.imm
    BY <1>3
  <2>2. i >= 20 => (i \in a.imm <=> 20 \in a.imm)
    BY DEF IsImm, Bits
  <2>3. i < 1 => i \notin a.imm
    BY DEF IsImm
  <2>4. i \in 1 .. 10 => (i \in Shr(ir, 20) <=> i \in a.imm)
    <3> SUFFICES ASSUME i \in 1 .. 10 PROVE i \in Shr(ir, 20) <=> i \in a.imm
      OBVIOUS
    <3>1. i \in Shr(ir, 20) <=> i + 20 \in ir
      BY <1>2, ShrBit
    <3>2. i + 20 \in 21 .. 30 /\ (i + 20) - 20 = i
      BY DEF Bits
    <3> QED BY <3>1, <3>2, <1>4
  <2>5. i = 11 => (i \in Shr(ir, 9) <=> i \in a.imm)
    <3> SUFFICES ASSUME i = 11 PROVE i \in Shr(ir, 9) <=> i \in a.imm
      OBVIOUS
    <3>1. i \in Shr(ir, 9) <=> i + 9 \in ir
      BY <1>2, ShrBit
    <3>2. i + 9 \in {20} /\ (i + 9) - 9 = i
      BY DEF Bits
    <3> QED BY <3>1, <3>2, <1>5
  <2>6. i \in 12 .. 19 => (i \in ir <=> i \in a.imm)
    BY <1>6
  <2> QED BY <2>1, <2>2, <2>3, <2>4, <2>5, <2>6 DEF JumpImm, Bits
<1>8. JumpImm(ir) \subseteq Bits
  BY <1>2 DEF JumpImm, Shl, Shr, Word, Bits
<1> QED BY <1>1, <1>7, <1>8 DEF Word, ir

(* U: bits 31 .. 12 in place.                                               *)
LEMMA UpperReturns ==
  ASSUME NEW a, NEW opcode, NEW funct3, IsImm(a.imm, 12, 31)
  PROVE  Layout("U", opcode, funct3, a) \cap (12 .. 31) = a.imm
<1> DEFINE ir == Layout("U", opcode, funct3, a)
<1>1. a.imm \in Word
  BY DEF IsImm
<1>2. \A j \in 12 .. 31 : j \in ir <=> j \in a.imm
  <2> SUFFICES ASSUME NEW j \in 12 .. 31 PROVE j \in ir <=> j \in a.imm
    OBVIOUS
  <2>1. j \in Bits
    BY DEF Bits
  <2>2. j \in Place(a.imm, 12, 31, 12) <=> j \in a.imm
    BY <1>1, <2>1 DEF Place, Word, Bits
  <2>3. j \notin {0, 1} /\ j \notin Num(opcode, 5, 2) /\ j \notin Num(a.rd, 5, 7)
    BY <2>1, LowBits
  <2> QED BY <2>2, <2>3 DEF Layout
<1>3. \A i \in a.imm : i \in 12 .. 31
  BY <1>1 DEF IsImm, Word, Bits
<1> HIDE DEF ir
<1>4. ir \cap (12 .. 31) = a.imm
  BY <1>2, <1>3
<1> QED BY <1>4 DEF ir

(* In the layout of every format with an immediate, get_imm finds the        *)
(* immediate, for all its values: no bit is lost, moved or left unsigned.    *)
THEOREM ImmediatesDecoded ==
  ASSUME NEW a, NEW opcode, NEW funct3
  PROVE  /\ IsImm(a.imm, 0, 11)  => GetImm("I", Layout("I", opcode, funct3, a)) = a.imm
         /\ IsImm(a.imm, 0, 11)  => GetImm("S", Layout("S", opcode, funct3, a)) = a.imm
         /\ IsImm(a.imm, 1, 12)  => GetImm("B", Layout("B", opcode, funct3, a)) = a.imm
         /\ IsImm(a.imm, 12, 31) => GetImm("U", Layout("U", opcode, funct3, a)) = a.imm
         /\ IsImm(a.imm, 1, 20)  => GetImm("J", Layout("J", opcode, funct3, a)) = a.imm
<1>1. \A ir : /\ GetImm("I", ir) = ShortImm(ir) /\ GetImm("S", ir) = StoreImm(ir)
              /\ GetImm("B", ir) = BranchImm(ir) /\ GetImm("J", ir) = JumpImm(ir)
              /\ GetImm("U", ir) = ir \cap (12 .. 31)
  BY DEF GetImm
<1> QED BY <1>1, ShortReturns, StoreReturns, BranchReturns, JalReturns, UpperReturns

--------------------------------------------------------------------------------
LEMMA NumberRange == \A w : Number(w) \in 0 .. 31
  BY DEF Number, Bit

LEMMA WordOperators ==
  /\ \A a, b : Plus(a, b) \in Word /\ Minus(a, b) \in Word /\ Not(a) \in Word
  /\ \A w, n : Shl(w, n) \in Word /\ Shr(w, n) \in Word /\ Sar(w, n) \in Word
  /\ \A w \in Word : \A n : Sext(w, n) \in Word
  /\ \A a \in Word, b \in Word : Xor(a, b) \in Word /\ a \cup b \in Word /\ a \cap b \in Word
  /\ \A b \in BOOLEAN : Flag(b) \in Word
  /\ \A w \in Word : \A lo, n \in Nat : Field(w, lo, n) \in Word
<1>1. \A a, b : Plus(a, b) \in Word /\ Minus(a, b) \in Word /\ Not(a) \in Word
  BY DEF Plus, Minus, Not, Word
<1>2. \A w, n : Shl(w, n) \in Word /\ Shr(w, n) \in Word /\ Sar(w, n) \in Word
  BY DEF Shl, Shr, Sar, Word
<1>3. \A w \in Word : \A n : Sext(w, n) \in Word
  BY DEF Sext, Word
<1>4. \A a \in Word, b \in Word : Xor(a, b) \in Word /\ a \cup b \in Word /\ a \cap b \in Word
  BY DEF Xor, Word
<1>5. \A b \in BOOLEAN : Flag(b) \in Word
  BY DEF Flag, Word, Bits
<1>6. \A w \in Word : \A lo, n \in Nat : Field(w, lo, n) \in Word
  BY DEF Field, Word, Bits
<1> QED BY <1>1, <1>2, <1>3, <1>4, <1>5, <1>6

LEMMA DecodeType ==
  ASSUME NEW ir \in Word, NEW at
  PROVE  /\ Decode(at, ir).imm \in Word /\ Decode(at, ir).npc \in Word
         /\ Decode(at, ir).rd \in 0 .. 31
         /\ Decode(at, ir).rs1 \in 0 .. 31 /\ Decode(at, ir).rs2 \in 0 .. 31
<1>1. \A fmt : GetImm(fmt, ir) \in Word
  BY DEF GetImm, ShortImm, StoreImm, BranchImm, JumpImm, Shl, Shr, Word, Bits
<1> QED BY <1>1, NumberRange, WordOperators DEF Decode

LEMMA ReadType ==
  ASSUME NEW m \in Image, NEW addr
  PROVE  /\ Read4(m, addr) \in Word /\ Read1(m, addr) \in Word /\ Read2(m, addr) \in Word
         /\ Fetch(m, addr) \in Word
<1>1. \A x : Read4(m, x) \in Word
  BY DEF Read4, Image, Cells
<1>2. \A x : Read1(m, x) \in Word
  <2> SUFFICES ASSUME NEW x PROVE Read1(m, x) \in Word
    OBVIOUS
  <2>1. 8 * Number(Lane(x)) \in Nat
    BY NumberRange
  <2> QED BY <1>1, <2>1, WordOperators DEF Read1
<1>3. \A x : Read2(m, x) \in Word
  BY <1>2, WordOperators DEF Read2
<1> QED BY <1>1, <1>2, <1>3, WordOperators DEF Fetch

LEMMA WriteType ==
  ASSUME NEW m \in Image, NEW addr, NEW data \in Word, NEW mask
  PROVE  Write(m, addr, data, mask) \in Image
<1>1. addr \cap CellBits \in Cells
  BY DEF Cells
<1>2. (m[addr \cap CellBits] \ Expand(mask)) \cup (data \cap Expand(mask)) \in Word
  BY <1>1 DEF Image, Word
<1> QED BY <1>1, <1>2 DEF Write, Image

(* The operands of an instruction in the state it is executed in.           *)
LEMMA OperandTypes ==
  ASSUME TypeOK, NEW addr, NEW inst, inst = Decode(pc, Fetch(mem, pc))
  PROVE  /\ Fetch(mem, pc) \in Word
         /\ inst.rd \in 0 .. 31 /\ inst.imm \in Word /\ inst.npc \in Word
         /\ reg[inst.rs1] \in Word /\ reg[inst.rs2] \in Word
         /\ \A id : IsLoad(id) => Load(id, mem, addr) \in Word
<1>1. Fetch(mem, pc) \in Word
  BY ReadType DEF TypeOK
<1>2. /\ inst.rd \in 0 .. 31 /\ inst.imm \in Word /\ inst.npc \in Word
      /\ inst.rs1 \in 0 .. 31 /\ inst.rs2 \in 0 .. 31
  BY <1>1, DecodeType
<1>3. \A id : IsLoad(id) => Load(id, mem, addr) \in Word
  <2>1. mem \in Image
    BY DEF TypeOK
  <2> QED BY <2>1, ReadType, WordOperators DEF Load, IsLoad
<1> QED BY <1>1, <1>2, <1>3 DEF TypeOK

LEMMA AluType ==
  ASSUME NEW a \in Word, NEW b \in Word, NEW id \in WithImmediate \cup WithRegisters
  PROVE  Alu(id, a, b) \in Word
<1>1. id \in {"add", "addi", "sub", "sll", "slli", "slt", "slti", "sltu", "sltiu", "xor", "xori",
              "srl", "srli", "sra", "srai", "or", "ori", "and", "andi"}
  <2>1. \A i \in 1 .. 8 : i \in {1, 2, 3, 4, 5, 6, 7, 8}
    OBVIOUS
  <2> QED BY <2>1 DEF WithImmediate, WithRegisters, Immediate, Registers
<1>2. SignedLess(a, b) \in BOOLEAN /\ UnsignedLess(a, b) \in BOOLEAN
  BY DEF SignedLess, UnsignedLess, SignedBelow, Below
<1> QED BY <1>1, <1>2, WordOperators DEF Alu

LEMMA ExecutedType ==
  ASSUME TypeOK, NEW addr, NEW inst, inst = Decode(pc, Fetch(mem, pc))
  PROVE  Executed(inst, addr) \in [0 .. 31 -> Word]
<1>1. \A w \in Word : [reg EXCEPT ![inst.rd] = w] \in [0 .. 31 -> Word]
  BY OperandTypes DEF TypeOK
<1>2. reg \in [0 .. 31 -> Word]
  BY DEF TypeOK
<1>3. inst.imm \in Word /\ inst.npc \in Word /\ Plus(pc, {2}) \in Word
  BY OperandTypes, WordOperators
<1>4. IsLoad(inst.id) => Load(inst.id, mem, addr) \in Word
  BY OperandTypes
<1>5. inst.id \in WithImmediate => Alu(inst.id, reg[inst.rs1], inst.imm) \in Word
  BY OperandTypes, AluType
<1>6. inst.id \in WithRegisters => Alu(inst.id, reg[inst.rs1], reg[inst.rs2]) \in Word
  BY OperandTypes, AluType
<1> QED BY <1>1, <1>2, <1>3, <1>4, <1>5, <1>6 DEF Executed

LEMMA RequestType ==
  ASSUME TypeOK, NEW addr \in Word, NEW inst
  PROVE  Request(inst, addr) \in MemIF
<1>1. memif \in MemIF
  BY DEF TypeOK
<1>2. Aligned(addr) \in Word
  BY DEF Aligned, Word
<1>3. IsStore(inst.id) => StoreRequest(inst, addr) \in MemIF
  <2> SUFFICES ASSUME IsStore(inst.id) PROVE StoreRequest(inst, addr) \in MemIF
    OBVIOUS
  <2>1. inst.id \in {"sb", "sh", "sw"}
    BY DEF IsStore
  <2>2. Number(Lane(addr)) \in 0 .. 3 /\ Number(addr \cap {1}) \in {0, 2}
    BY DEF Number, Bit, Lane
  <2>3. /\ Number(Lane(addr)) .. Number(Lane(addr)) + 1 - 1 \subseteq 0 .. 3
        /\ Number(addr \cap {1}) .. Number(addr \cap {1}) + 2 - 1 \subseteq 0 .. 3
        /\ 0 .. 0 + 4 - 1 \subseteq 0 .. 3
    BY <2>2
  <2>4. CASE inst.id = "sb"
    BY <1>2, <2>3, <2>4, WordOperators DEF StoreRequest, Size, MemIF
  <2>5. CASE inst.id = "sh"
    BY <1>2, <2>3, <2>5, WordOperators DEF StoreRequest, Size, MemIF
  <2>6. CASE inst.id = "sw"
    BY <1>2, <2>3, <2>6, WordOperators DEF StoreRequest, Size, MemIF
  <2> QED BY <2>1, <2>4, <2>5, <2>6
<1> QED BY <1>1, <1>2, <1>3 DEF Request, MemIF

LEMMA InitType == Init => TypeOK
<1> SUFFICES ASSUME Init PROVE TypeOK
  OBVIOUS
<1>1. INITIAL_SP \in Word /\ INITIAL_PC \in Word /\ {} \in Word /\ 0 \in Nat
  BY CoreAssumption DEF Word
<1>2. reg \in [0 .. 31 -> Word] /\ reg[0] = {}
  BY <1>1 DEF Init
<1>3. instif \in InstIF
  BY <1>1 DEF Init, Quiet, InstIF, Lanes
<1>4. memif \in MemIF
  BY <1>1 DEF Init, MemIF
<1>5. mem \in Image
  <2>1. PICK image \in Programs : mem = Entered(image, start_addr)
    BY DEF Init
  <2>2. image \in [Cells -> Word]
    BY CoreAssumption DEF Image
  <2>3. MakeJal(Minus(start_addr, INITIAL_PC)) \in Word
    BY DEF MakeJal, Shl, Word, Bits, Minus, Not
  <2>4. INITIAL_PC \cap CellBits \in Cells
    BY DEF Cells
  <2> QED BY <2>1, <2>2, <2>3, <2>4 DEF Entered, Image
<1> QED BY <1>1, <1>2, <1>3, <1>4, <1>5 DEF Init, TypeOK

(* The state keeps its types and x0 stays zero, whatever the program.       *)
THEOREM TypeCorrect == Spec => []TypeOK
<1>1. Init => TypeOK
  BY InitType
<1>2. TypeOK /\ [Next]_vars => TypeOK'
  <2> SUFFICES ASSUME TypeOK, [Next]_vars PROVE TypeOK'
    OBVIOUS
  <2>1. CASE Execute
    <3> DEFINE inst == Decode(pc, Fetch(mem, pc))
               addr == Plus(reg[inst.rs1], inst.imm)
               regs == Executed(inst, addr)
    <3>1. addr \in Word /\ Fetch(mem, pc) \in Word /\ inst.rd \in 0 .. 31
          /\ inst.npc \in Word /\ inst.imm \in Word
      BY OperandTypes, WordOperators
    <3>2. regs \in [0 .. 31 -> Word]
      BY ExecutedType
    <3>3. Request(inst, addr) \in MemIF
      BY <3>1, RequestType
    <3>4. NextPC(inst, regs) \in Word
      BY <3>1, WordOperators DEF NextPC
    <3>5. ByteLane(inst, addr) \in Lanes
      <4>1. Lane(addr) \in Lanes /\ addr \cap {1} \in Lanes /\ {} \in Lanes
        BY DEF Lane, Lanes
      <4> QED BY <4>1 DEF ByteLane
    <3>6. Cleared(regs) \in [0 .. 31 -> Word] /\ Cleared(regs)[0] = {}
      BY <3>2 DEF Cleared, Word
    <3>7. /\ memif' = Request(inst, addr)
          /\ instif' = [valid |-> TRUE, pc |-> pc, ir |-> Fetch(mem, pc), result |-> regs[inst.rd],
                        d_addr |-> memif'.d_addr, d_baddr |-> ByteLane(inst, addr),
                        d_wdata |-> memif'.d_wdata, d_wmask |-> memif'.d_wmask]
          /\ pc' = NextPC(inst, regs) /\ reg' = Cleared(regs) /\ cnt_inst' = cnt_inst + 1
          /\ mem' = IF memif'.d_we THEN Write(mem, memif'.d_addr, memif'.d_wdata, memif'.d_wmask)
                    ELSE mem
          /\ start_addr' = start_addr
      BY <2>1 DEF Execute
    <3> HIDE DEF inst, addr, regs
    <3>8. memif' \in MemIF
      BY <3>3, <3>7
    <3>9. instif' \in InstIF
      BY <3>1, <3>2, <3>5, <3>7, <3>8 DEF InstIF, MemIF, TypeOK
    <3>10. mem' \in Image
      BY <3>7, <3>8, WriteType DEF MemIF, TypeOK
    <3> QED BY <3>4, <3>6, <3>7, <3>8, <3>9, <3>10 DEF TypeOK
  <2>2. CASE Unknown
    BY <2>2 DEF Unknown, TypeOK, MemIF, InstIF
  <2>3. CASE UNCHANGED vars
    BY <2>3 DEF vars, TypeOK
  <2> QED BY <2>1, <2>2, <2>3 DEF Next
<1> QED BY <1>1, <1>2, PTL DEF Spec

--------------------------------------------------------------------------------
(* Arithmetic on words: a carry leaves a position as a full adder makes it. *)
LEMMA CarryStep ==
  ASSUME NEW a \in Word, NEW b \in Word, NEW i \in Bits
  PROVE  Carry(a, b, i + 1) <=> \/ i \in a /\ i \in b
                                \/ (i \in a \/ i \in b) /\ Carry(a, b, i)
<1>1. ASSUME Carry(a, b, i + 1)
      PROVE  (i \in a /\ i \in b) \/ ((i \in a \/ i \in b) /\ Carry(a, b, i))
  <2>1. PICK j \in a \cap b : j < i + 1 /\ (j + 1 .. i) \subseteq a \cup b
    <3>1. (i + 1) - 1 = i
      BY DEF Bits
    <3> QED BY <1>1, <3>1 DEF Carry
  <2>2. j \in Bits
    BY DEF Word
  <2>3. CASE j = i
    BY <2>3
  <2>4. CASE j < i
    <3>1. i \in j + 1 .. i /\ (j + 1 .. i - 1) \subseteq j + 1 .. i
      BY <2>2, <2>4 DEF Bits
    <3> QED BY <2>1, <2>4, <3>1 DEF Carry
  <2> QED BY <2>1, <2>2, <2>3, <2>4 DEF Bits
<1>2. ASSUME i \in a, i \in b PROVE Carry(a, b, i + 1)
  <2>1. (i + 1 .. (i + 1) - 1) = {} /\ i < i + 1
    BY DEF Bits
  <2> QED BY <1>2, <2>1 DEF Carry
<1>3. ASSUME i \in a \/ i \in b, Carry(a, b, i) PROVE Carry(a, b, i + 1)
  <2>1. PICK j \in a \cap b : j < i /\ (j + 1 .. i - 1) \subseteq a \cup b
    BY <1>3 DEF Carry
  <2>2. j \in Bits
    BY DEF Word
  <2>3. j < i + 1 /\ \A k \in j + 1 .. (i + 1) - 1 : k \in j + 1 .. i - 1 \/ k = i
    BY <2>1, <2>2 DEF Bits
  <2> QED BY <1>3, <2>1, <2>3 DEF Carry
<1> QED BY <1>1, <1>2, <1>3

LEMMA CarryNone == ASSUME NEW a \in Word, NEW b \in Word PROVE ~ Carry(a, b, 0)
  BY DEF Carry, Word, Bits

(* What is counted from 0 up reaches every position.                        *)
LEMMA AllBits ==
  ASSUME NEW S, 0 \in S, \A i \in Bits : i \in S => i + 1 \in S
  PROVE  \A i \in Bits : i \in S
<1>1. 1 \in S /\ 2 \in S /\ 3 \in S /\ 4 \in S
  BY DEF Bits
<1>2. 5 \in S /\ 6 \in S /\ 7 \in S /\ 8 \in S
  BY <1>1 DEF Bits
<1>3. 9 \in S /\ 10 \in S /\ 11 \in S /\ 12 \in S
  BY <1>2 DEF Bits
<1>4. 13 \in S /\ 14 \in S /\ 15 \in S /\ 16 \in S
  BY <1>3 DEF Bits
<1>5. 17 \in S /\ 18 \in S /\ 19 \in S /\ 20 \in S
  BY <1>4 DEF Bits
<1>6. 21 \in S /\ 22 \in S /\ 23 \in S /\ 24 \in S
  BY <1>5 DEF Bits
<1>7. 25 \in S /\ 26 \in S /\ 27 \in S /\ 28 \in S
  BY <1>6 DEF Bits
<1>8. 29 \in S /\ 30 \in S /\ 31 \in S
  BY <1>7 DEF Bits
<1> QED BY <1>1, <1>2, <1>3, <1>4, <1>5, <1>6, <1>7, <1>8 DEF Bits

(* Adding back what was subtracted.                                         *)
LEMMA PlusMinus ==
  ASSUME NEW s \in Word, NEW p \in Word
  PROVE  Plus(p, Minus(s, p)) = s
<1> DEFINE x == Not(s)
           t == Plus(x, p)
           n == Not(t)
<1>1. x \in Word /\ t \in Word /\ n \in Word
  BY DEF Not, Plus, Word
<1>2. \A i \in Bits : /\ i \in x <=> i \notin s
                      /\ i \in n <=> i \notin t
                      /\ i \in t <=> ((i \in x) # ((i \in p) # Carry(x, p, i)))
  BY DEF Not, Plus
<1>3. Minus(s, p) = n
  BY DEF Minus
<1> HIDE DEF x, t, n
<1> DEFINE S == {i \in 0 .. 32 : Carry(x, p, i) <=> Carry(p, n, i)}
<1>4. 0 \in S
  BY <1>1, CarryNone
<1>5. \A i \in Bits : i \in S => i + 1 \in S
  <2> SUFFICES ASSUME NEW i \in Bits, i \in S PROVE i + 1 \in S
    OBVIOUS
  <2>1. Carry(x, p, i + 1) <=> \/ i \in x /\ i \in p
                               \/ (i \in x \/ i \in p) /\ Carry(x, p, i)
    BY <1>1, CarryStep
  <2>2. Carry(p, n, i + 1) <=> \/ i \in p /\ i \in n
                               \/ (i \in p \/ i \in n) /\ Carry(p, n, i)
    BY <1>1, CarryStep
  <2>3. Carry(x, p, i + 1) <=> Carry(p, n, i + 1)
    <3>1. i \in n <=> i \notin t
      BY <1>2
    <3>2. i \in t <=> ((i \in x) # ((i \in p) # Carry(x, p, i)))
      BY <1>2
    <3>3. Carry(x, p, i) <=> Carry(p, n, i)
      OBVIOUS
    <3> HIDE DEF S
    <3>4. Carry(x, p, i) \in BOOLEAN /\ Carry(p, n, i) \in BOOLEAN
      BY DEF Carry
    <3> QED BY <2>1, <2>2, <3>1, <3>2, <3>3, <3>4
  <2>4. i + 1 \in 0 .. 32
    BY DEF Bits
  <2> QED BY <2>3, <2>4
<1>6. \A i \in Bits : i \in S
  <2> HIDE DEF S
  <2> QED BY <1>4, <1>5, AllBits
<1>7. \A i \in Bits : i \in Plus(p, n) <=> i \in s
  <2> SUFFICES ASSUME NEW i \in Bits PROVE i \in Plus(p, n) <=> i \in s
    OBVIOUS
  <2>1. i \in Plus(p, n) <=> ((i \in p) # ((i \in n) # Carry(p, n, i)))
    BY DEF Plus
  <2>2. Carry(x, p, i) <=> Carry(p, n, i)
    BY <1>6
  <2>3. /\ i \in x <=> i \notin s
        /\ i \in n <=> i \notin t
        /\ i \in t <=> ((i \in x) # ((i \in p) # Carry(x, p, i)))
    BY <1>2
  <2>4. Carry(x, p, i) \in BOOLEAN /\ Carry(p, n, i) \in BOOLEAN
    BY DEF Carry
  <2> HIDE DEF S
  <2> QED BY <2>1, <2>2, <2>3, <2>4
<1> QED BY <1>3, <1>7 DEF Plus, Word

--------------------------------------------------------------------------------
(* The first instruction is the loader's jump as long as none was executed. *)
AtEntry == cnt_inst = 0 => /\ pc = INITIAL_PC
                           /\ Fetch(mem, pc) = MakeJal(Minus(start_addr, INITIAL_PC))

LEMMA JalDecoded ==
  ASSUME NEW s \in Starts
  PROVE  LET inst == Decode(INITIAL_PC, MakeJal(Minus(s, INITIAL_PC)))
         IN  inst.id = "jal" /\ inst.npc = s
<1> DEFINE d  == Minus(s, INITIAL_PC)
           ir == MakeJal(d)
<1>1. d \in Word /\ s \in Word /\ INITIAL_PC \in Word
  BY CoreAssumption DEF Minus, Not, Word
<1>2. 0 \notin d /\ \A i \in 20 .. 31 : i \in d <=> 20 \in d
  BY ReachAssumption
<1> HIDE DEF d
<1>3. IsImm(d, 1, 20)
  BY <1>1, <1>2 DEF IsImm, Bits
<1>4. JumpImm(ir) = d
  BY <1>3, LoaderJumpDecoded
<1>5. /\ 0 \in ir /\ 1 \in ir /\ 2 \in ir /\ 3 \in ir
      /\ 4 \notin ir /\ 5 \in ir /\ 6 \in ir
  BY <1>1, MakeJalBit DEF Bits
<1> HIDE DEF ir
<1>6. OP(ir) = 27
  <2>1. /\ 0 \in Field(ir, 2, 5) /\ 1 \in Field(ir, 2, 5) /\ 2 \notin Field(ir, 2, 5)
        /\ 3 \in Field(ir, 2, 5) /\ 4 \in Field(ir, 2, 5)
    BY <1>5 DEF Field
  <2> QED BY <2>1 DEF OP, Number, Bit
<1>7. InstrId(ir) = "jal"
  BY <1>5, <1>6 DEF InstrId
<1>8. Decode(INITIAL_PC, ir).npc = Plus(INITIAL_PC, d)
  BY <1>4, <1>6 DEF Decode, GetImm, Format
<1>9. Plus(INITIAL_PC, d) = s
  BY <1>1, PlusMinus DEF d
<1> QED BY <1>7, <1>8, <1>9 DEF ir, d, Decode

(* Execution enters every program at its _start: the loader's jump, encoded *)
(* by make_jal, fetched and decoded by the core, gets there (loader.cpp:121,*)
(* functional_core.cpp:48).                                                 *)
THEOREM ProgramEntered == Spec => []EntersProgram
<1>1. Init => TypeOK /\ AtEntry /\ EntersProgram
  <2> SUFFICES ASSUME Init PROVE AtEntry /\ EntersProgram
    BY InitType
  <2>1. PICK image \in Programs : mem = Entered(image, start_addr)
    BY DEF Init
  <2>2. image \in [Cells -> Word] /\ INITIAL_PC \cap CellBits \in Cells
    BY CoreAssumption DEF Image, Cells
  <2>3. mem[INITIAL_PC \cap CellBits] = MakeJal(Minus(start_addr, INITIAL_PC))
    BY <2>1, <2>2 DEF Entered
  <2>4. Fetch(mem, INITIAL_PC) = MakeJal(Minus(start_addr, INITIAL_PC))
    BY <2>3, ReachAssumption DEF Fetch, Lane, Read4
  <2> QED BY <2>4 DEF Init, AtEntry, EntersProgram
<1>2. TypeOK /\ AtEntry /\ EntersProgram /\ [Next]_vars => (AtEntry /\ EntersProgram)'
  <2> SUFFICES ASSUME TypeOK, AtEntry, EntersProgram, [Next]_vars
               PROVE  AtEntry' /\ EntersProgram'
    OBVIOUS
  <2>1. CASE Execute
    <3>1. cnt_inst' = cnt_inst + 1 /\ cnt_inst \in Nat
      BY <2>1 DEF Execute, TypeOK
    <3>2. CASE cnt_inst = 0
      <4>1. Decode(pc, Fetch(mem, pc)).id = "jal" /\ Decode(pc, Fetch(mem, pc)).npc = start_addr
        BY <3>2, JalDecoded DEF AtEntry, TypeOK
      <4>2. pc' = start_addr /\ start_addr' = start_addr
        BY <2>1, <4>1 DEF Execute, NextPC
      <4> QED BY <3>1, <3>2, <4>2 DEF AtEntry, EntersProgram
    <3>3. CASE cnt_inst # 0
      BY <3>1, <3>3 DEF AtEntry, EntersProgram
    <3> QED BY <3>2, <3>3
  <2>2. CASE Unknown
    BY <2>2 DEF Unknown, AtEntry, EntersProgram, Fetch, Read2, Read1, Read4
  <2>3. CASE UNCHANGED vars
    BY <2>3 DEF vars, AtEntry, EntersProgram, Fetch, Read2, Read1, Read4
  <2> QED BY <2>1, <2>2, <2>3 DEF Next
<1> QED BY <1>1, <1>2, TypeCorrect, PTL DEF Spec

--------------------------------------------------------------------------------
(* The other way round: the whole of an encoded instruction is decoded.     *)
(* The formats of the instructions.                                         *)
LEMMA Ids ==
  DOMAIN Opcodes =
    {"lui", "auipc", "jal", "jalr", "beq", "bne", "blt", "bge", "bltu", "bgeu",
     "lb", "lh", "lw", "lbu", "lhu", "sb", "sh", "sw", "addi", "slli", "slti", "sltiu",
     "xori", "srli", "srai", "ori", "andi", "add", "sub", "sll", "slt", "sltu", "xor",
     "srl", "sra", "or", "and", "fence", "ecall"}
  BY DEF Opcodes

(* A number of five bits and one of three, digit by digit.                  *)
LEMMA Digits ==
  ASSUME NEW n \in 0 .. 31
  PROVE  Number(Num(n, 5, 0)) = n
<1>1. 2^0 = 1 /\ 2^1 = 2 /\ 2^2 = 4 /\ 2^3 = 8 /\ 2^4 = 16
  OBVIOUS
<1>2. \A j \in 0 .. 4 : j \in Num(n, 5, 0) <=> (n \div 2^j) % 2 = 1
  BY DEF Num
<1>3. /\ 0 \in Num(n, 5, 0) <=> (n \div 1) % 2 = 1
      /\ 1 \in Num(n, 5, 0) <=> (n \div 2) % 2 = 1
      /\ 2 \in Num(n, 5, 0) <=> (n \div 4) % 2 = 1
      /\ 3 \in Num(n, 5, 0) <=> (n \div 8) % 2 = 1
      /\ 4 \in Num(n, 5, 0) <=> (n \div 16) % 2 = 1
  BY <1>1, <1>2
<1> QED BY <1>3 DEF Number, Bit

LEMMA ShortDigits ==
  ASSUME NEW n \in 0 .. 7
  PROVE  Number(Num(n, 3, 0)) = n
<1>1. 2^0 = 1 /\ 2^1 = 2 /\ 2^2 = 4
  OBVIOUS
<1>2. \A j \in 0 .. 2 : j \in Num(n, 3, 0) <=> (n \div 2^j) % 2 = 1
  BY DEF Num
<1>4. 3 \notin Num(n, 3, 0) /\ 4 \notin Num(n, 3, 0)
  BY NumBits
<1>3. /\ 0 \in Num(n, 3, 0) <=> (n \div 1) % 2 = 1
      /\ 1 \in Num(n, 3, 0) <=> (n \div 2) % 2 = 1
      /\ 2 \in Num(n, 3, 0) <=> (n \div 4) % 2 = 1
  BY <1>1, <1>2
<1> QED BY <1>3, <1>4 DEF Number, Bit

(* A field that holds a number, wherever it stands.                         *)
LEMMA FieldHolds ==
  ASSUME NEW ir, NEW n, NEW width \in Nat, NEW at \in Nat,
         \A j \in at .. at + width - 1 : j \in ir <=> j \in Num(n, width, at)
  PROVE  Field(ir, at, width) = Num(n, width, 0)
<1> DEFINE Digit(j) == (n \div 2^j) % 2 = 1
<1>1. Num(n, width, 0) = {j \in 0 .. width - 1 : Digit(j)}
  BY DEF Num
<1>2. Num(n, width, at) = {i + at : i \in {j \in 0 .. width - 1 : Digit(j)}}
  BY DEF Num
<1> HIDE DEF Digit
<1>3. \A i \in 0 .. width - 1 : i + at \in Num(n, width, at) <=> Digit(i)
  BY <1>2
<1>4. \A i \in 0 .. width - 1 : i + at \in ir <=> Digit(i)
  BY <1>3
<1> QED BY <1>1, <1>4 DEF Field

LEMMA PlaceBits ==
  ASSUME NEW w, NEW lo \in Nat, NEW hi \in Nat, NEW at \in Nat
  PROVE  \A j \in Place(w, lo, hi, at) : j \in Int /\ j >= at /\ j <= at + (hi - lo)
  BY DEF Place

(* Where the immediates of the formats lie.                                 *)
LEMMA PlacedBits ==
  ASSUME NEW imm, NEW j \in Bits
  PROVE  /\ j < 20 => j \notin Place(imm, 0, 11, 20)
         /\ j < 7 \/ j > 11 => j \notin Place(imm, 0, 4, 7)
         /\ j < 25 => j \notin Place(imm, 5, 11, 25)
         /\ j < 8 \/ j > 11 => j \notin Place(imm, 1, 4, 8)
         /\ j # 7 => j \notin Place(imm, 11, 11, 7)
         /\ j < 25 => j \notin Place(imm, 5, 10, 25)
         /\ j < 31 => j \notin Place(imm, 12, 12, 31)
         /\ j < 12 => j \notin Place(imm, 12, 31, 12)
         /\ j < 12 => j \notin Place(imm, 12, 19, 12)
         /\ j < 20 => j \notin Place(imm, 11, 11, 20)
         /\ j < 21 => j \notin Place(imm, 1, 10, 21)
         /\ j < 31 => j \notin Place(imm, 20, 20, 31)
<1>1. /\ \A i \in Place(imm, 0, 11, 20) : i >= 20
      /\ \A i \in Place(imm, 0, 4, 7) : i >= 7 /\ i <= 11
      /\ \A i \in Place(imm, 5, 11, 25) : i >= 25
  BY PlaceBits
<1>2. /\ \A i \in Place(imm, 1, 4, 8) : i >= 8 /\ i <= 11
      /\ \A i \in Place(imm, 11, 11, 7) : i = 7
      /\ \A i \in Place(imm, 5, 10, 25) : i >= 25
      /\ \A i \in Place(imm, 12, 12, 31) : i >= 31
  BY PlaceBits
<1>3. /\ \A i \in Place(imm, 12, 31, 12) : i >= 12
      /\ \A i \in Place(imm, 12, 19, 12) : i >= 12
      /\ \A i \in Place(imm, 11, 11, 20) : i >= 20
      /\ \A i \in Place(imm, 1, 10, 21) : i >= 21
      /\ \A i \in Place(imm, 20, 20, 31) : i >= 31
  BY PlaceBits
<1> QED BY <1>1, <1>2, <1>3 DEF Bits

(* The fields of an instruction, in every format that has them, hold what   *)
(* was put there; bit 30 is in none of them.                                *)
LEMMA FieldsHold ==
  ASSUME NEW f \in {"R", "I", "S", "B", "U", "J"}, NEW opcode, NEW funct3, NEW a,
         NEW alt \in SUBSET {30}, NEW ir, ir = Layout(f, opcode, funct3, a) \cup alt
  PROVE  /\ {0, 1} \subseteq ir
         /\ Field(ir, 2, 5) = Num(opcode, 5, 0)
         /\ f \notin {"U", "J"} => Field(ir, 12, 3) = Num(funct3, 3, 0)
         /\ f \notin {"S", "B"} => Field(ir, 7, 5) = Num(a.rd, 5, 0)
         /\ f \notin {"U", "J"} => Field(ir, 15, 5) = Num(a.rs1, 5, 0)
         /\ f \in {"R", "S", "B"} => Field(ir, 20, 5) = Num(a.rs2, 5, 0)
<1> DEFINE Both(j) ==
      /\ 2 <= j /\ j < 7 => (j \in ir <=> j \in Num(opcode, 5, 2))
      /\ 7 <= j /\ j < 12 /\ f \notin {"S", "B"} => (j \in ir <=> j \in Num(a.rd, 5, 7))
      /\ 12 <= j /\ j < 15 /\ f \notin {"U", "J"} => (j \in ir <=> j \in Num(funct3, 3, 12))
      /\ 15 <= j /\ j < 20 /\ f \notin {"U", "J"} => (j \in ir <=> j \in Num(a.rs1, 5, 15))
      /\ 20 <= j /\ j < 25 /\ f \in {"R", "S", "B"} => (j \in ir <=> j \in Num(a.rs2, 5, 20))
<1>1. ASSUME NEW j \in Bits PROVE Both(j)
  <2>1. /\ j >= 7 => j \notin {0, 1} /\ j \notin Num(opcode, 5, 2)
        /\ j >= 12 \/ j < 7 => j \notin Num(a.rd, 5, 7)
        /\ j >= 15 \/ j < 12 => j \notin Num(funct3, 3, 12)
        /\ j >= 20 \/ j < 15 => j \notin Num(a.rs1, 5, 15)
        /\ j >= 25 \/ j < 20 => j \notin Num(a.rs2, 5, 20)
    BY LowBits
  <2>2. j < 25 => (j \in ir <=> j \in Layout(f, opcode, funct3, a))
    <3>1. j \in alt => j = 30
      OBVIOUS
    <3> QED BY <3>1 DEF Bits
  <2> DEFINE L == Layout(f, opcode, funct3, a)
  <2>3. CASE f = "R"
    <3>1. j \in L <=> \/ j \in {0, 1} \/ j \in Num(opcode, 5, 2) \/ j \in Num(a.rd, 5, 7)
                      \/ j \in Num(funct3, 3, 12) \/ j \in Num(a.rs1, 5, 15)
                      \/ j \in Num(a.rs2, 5, 20)
      BY <2>3 DEF Layout
    <3> QED BY <3>1, <2>1, <2>2, <2>3 DEF Bits
  <2>4. CASE f = "I"
    <3>1. j \in L <=> \/ j \in {0, 1} \/ j \in Num(opcode, 5, 2) \/ j \in Num(a.rd, 5, 7)
                      \/ j \in Num(funct3, 3, 12) \/ j \in Num(a.rs1, 5, 15)
                      \/ j \in Place(a.imm, 0, 11, 20)
      BY <2>4 DEF Layout
    <3>2. j < 20 => j \notin Place(a.imm, 0, 11, 20)
      BY PlacedBits
    <3> QED BY <3>1, <3>2, <2>1, <2>2, <2>4 DEF Bits
  <2>5. CASE f = "S"
    <3>1. j \in L <=> \/ j \in {0, 1} \/ j \in Num(opcode, 5, 2) \/ j \in Place(a.imm, 0, 4, 7)
                      \/ j \in Num(funct3, 3, 12) \/ j \in Num(a.rs1, 5, 15)
                      \/ j \in Num(a.rs2, 5, 20) \/ j \in Place(a.imm, 5, 11, 25)
      BY <2>5 DEF Layout
    <3>2. /\ j < 7 \/ j > 11 => j \notin Place(a.imm, 0, 4, 7)
          /\ j < 25 => j \notin Place(a.imm, 5, 11, 25)
      BY PlacedBits
    <3> QED BY <3>1, <3>2, <2>1, <2>2, <2>5 DEF Bits
  <2>6. CASE f = "B"
    <3>1. j \in L <=> \/ j \in {0, 1} \/ j \in Num(opcode, 5, 2) \/ j \in Place(a.imm, 1, 4, 8)
                      \/ j \in Place(a.imm, 11, 11, 7)
                      \/ j \in Num(funct3, 3, 12) \/ j \in Num(a.rs1, 5, 15)
                      \/ j \in Num(a.rs2, 5, 20) \/ j \in Place(a.imm, 5, 10, 25)
                      \/ j \in Place(a.imm, 12, 12, 31)
      BY <2>6 DEF Layout
    <3>2. /\ j < 8 \/ j > 11 => j \notin Place(a.imm, 1, 4, 8)
          /\ j # 7 => j \notin Place(a.imm, 11, 11, 7)
          /\ j < 25 => j \notin Place(a.imm, 5, 10, 25)
          /\ j < 31 => j \notin Place(a.imm, 12, 12, 31)
      BY PlacedBits
    <3> QED BY <3>1, <3>2, <2>1, <2>2, <2>6 DEF Bits
  <2>7. CASE f = "U"
    <3>1. j \in L <=> \/ j \in {0, 1} \/ j \in Num(opcode, 5, 2) \/ j \in Num(a.rd, 5, 7)
                      \/ j \in Place(a.imm, 12, 31, 12)
      BY <2>7 DEF Layout
    <3>2. j < 12 => j \notin Place(a.imm, 12, 31, 12)
      BY PlacedBits
    <3> QED BY <3>1, <3>2, <2>1, <2>2, <2>7 DEF Bits
  <2>8. CASE f = "J"
    <3>1. j \in L <=> \/ j \in {0, 1} \/ j \in Num(opcode, 5, 2) \/ j \in Num(a.rd, 5, 7)
                      \/ j \in Place(a.imm, 12, 19, 12) \/ j \in Place(a.imm, 11, 11, 20)
                      \/ j \in Place(a.imm, 1, 10, 21) \/ j \in Place(a.imm, 20, 20, 31)
      BY <2>8 DEF Layout
    <3>2. /\ j < 12 => j \notin Place(a.imm, 12, 19, 12)
          /\ j < 20 => j \notin Place(a.imm, 11, 11, 20)
          /\ j < 21 => j \notin Place(a.imm, 1, 10, 21)
          /\ j < 31 => j \notin Place(a.imm, 20, 20, 31)
      BY PlacedBits
    <3> QED BY <3>1, <3>2, <2>1, <2>2, <2>8 DEF Bits
  <2> QED BY <2>3, <2>4, <2>5, <2>6, <2>7, <2>8
<1>2. {0, 1} \subseteq ir
  BY DEF Layout
<1>3. /\ \A j \in 2 .. 2 + 5 - 1 : j \in ir <=> j \in Num(opcode, 5, 2)
      /\ f \notin {"U", "J"} =>
           /\ \A j \in 12 .. 12 + 3 - 1 : j \in ir <=> j \in Num(funct3, 3, 12)
           /\ \A j \in 15 .. 15 + 5 - 1 : j \in ir <=> j \in Num(a.rs1, 5, 15)
      /\ f \notin {"S", "B"} => \A j \in 7 .. 7 + 5 - 1 : j \in ir <=> j \in Num(a.rd, 5, 7)
      /\ f \in {"R", "S", "B"} => \A j \in 20 .. 20 + 5 - 1 : j \in ir <=> j \in Num(a.rs2, 5, 20)
  BY <1>1 DEF Bits
<1> QED BY <1>2, <1>3, FieldHolds

(* Every opcode belongs to a format and fits its field.                     *)
LEMMA OpcodeShape ==
  ASSUME NEW id \in DOMAIN Opcodes
  PROVE  /\ Op(id)[1] \in {"R", "I", "S", "B", "U", "J"}
         /\ Op(id)[2] \in 0 .. 31 /\ Op(id)[3] \in 0 .. 7
         /\ Format(Op(id)[2]) = Op(id)[1]
  BY Ids DEF Op, Opcodes, Format

(* The alternative of an addition or a shift shows in bit 30, which no      *)
(* operand of these instructions reaches.                                   *)
LEMMA AlternateBit ==
  ASSUME NEW a, Legal(a)
  PROVE  /\ Op(a.id)[1] = "R" => (30 \in Encode(a) <=> a.id \in {"sub", "sra"})
         /\ a.id \in {"slli", "srli"} => 30 \notin Encode(a)
         /\ a.id = "srai" => 30 \in Encode(a)
<1>1. /\ Op(a.id)[1] \in {"R", "I"} =>
           30 \notin {0, 1} \cup Num(Op(a.id)[2], 5, 2) \cup Num(a.rd, 5, 7)
                       \cup Num(Op(a.id)[3], 3, 12) \cup Num(a.rs1, 5, 15)
      /\ 30 \notin Num(a.rs2, 5, 20)
  BY LowBits DEF Bits
<1>2. a.id \in Shifts => 30 \notin Place(a.imm, 0, 11, 20)
  BY DEF Legal, Place
<1>3. /\ Op("slli")[1] = "I" /\ Op("srli")[1] = "I" /\ Op("srai")[1] = "I"
  BY DEF Op, Opcodes
<1>4. Op(a.id)[1] = "R" => (30 \in Encode(a) <=> a.id \in {"sub", "sra"})
  <2>1. Op(a.id)[1] = "R" => 30 \notin Layout(Op(a.id)[1], Op(a.id)[2], Op(a.id)[3], a)
    BY <1>1 DEF Layout
  <2> QED BY <2>1, <1>3 DEF Encode
<1>5. a.id \in {"slli", "srli"} => 30 \notin Encode(a)
  <2>1. a.id \in {"slli", "srli"} => 30 \notin Layout(Op(a.id)[1], Op(a.id)[2], Op(a.id)[3], a)
    BY <1>1, <1>2, <1>3 DEF Layout, Shifts
  <2> QED BY <2>1 DEF Encode
<1> QED BY <1>4, <1>5 DEF Encode

(* Opcode, funct3 and registers of an encoded instruction.                  *)
LEMMA OperandsDecoded ==
  ASSUME NEW a, Legal(a)
  PROVE  LET f == Op(a.id)[1]
             ir == Encode(a)
         IN  /\ {0, 1} \subseteq ir
             /\ OP(ir) = Op(a.id)[2]
             /\ f \notin {"U", "J"} => Funct3(ir) = Op(a.id)[3]
             /\ f \notin {"S", "B"} => Number(Field(ir, 7, 5)) = a.rd
             /\ f \notin {"U", "J"} => Number(Field(ir, 15, 5)) = a.rs1
             /\ f \in {"R", "S", "B"} => Number(Field(ir, 20, 5)) = a.rs2
<1> DEFINE f == Op(a.id)[1]
           ir == Encode(a)
           alt == IF a.id \in {"sub", "sra", "srai"} THEN {30} ELSE {}
<1>1. /\ f \in {"R", "I", "S", "B", "U", "J"}
      /\ Op(a.id)[2] \in 0 .. 31 /\ Op(a.id)[3] \in 0 .. 7
  BY OpcodeShape DEF Legal
<1>2. ir = Layout(f, Op(a.id)[2], Op(a.id)[3], a) \cup alt /\ alt \in SUBSET {30}
  BY DEF Encode
<1>3. a.rd \in 0 .. 31 /\ a.rs1 \in 0 .. 31 /\ a.rs2 \in 0 .. 31
  BY DEF Legal
<1> HIDE DEF f, ir, alt
<1>4. /\ {0, 1} \subseteq ir
      /\ Field(ir, 2, 5) = Num(Op(a.id)[2], 5, 0)
      /\ f \notin {"U", "J"} => Field(ir, 12, 3) = Num(Op(a.id)[3], 3, 0)
      /\ f \notin {"S", "B"} => Field(ir, 7, 5) = Num(a.rd, 5, 0)
      /\ f \notin {"U", "J"} => Field(ir, 15, 5) = Num(a.rs1, 5, 0)
      /\ f \in {"R", "S", "B"} => Field(ir, 20, 5) = Num(a.rs2, 5, 0)
  <2>1. PICK opcode, funct3 : opcode = Op(a.id)[2] /\ funct3 = Op(a.id)[3]
    OBVIOUS
  <2> HIDE DEF ir
  <2>2. ir = Layout(f, opcode, funct3, a) \cup alt
    BY <1>2, <2>1
  <2>3. /\ {0, 1} \subseteq ir
        /\ Field(ir, 2, 5) = Num(opcode, 5, 0)
        /\ f \notin {"U", "J"} => Field(ir, 12, 3) = Num(funct3, 3, 0)
        /\ f \notin {"S", "B"} => Field(ir, 7, 5) = Num(a.rd, 5, 0)
        /\ f \notin {"U", "J"} => Field(ir, 15, 5) = Num(a.rs1, 5, 0)
        /\ f \in {"R", "S", "B"} => Field(ir, 20, 5) = Num(a.rs2, 5, 0)
    BY <1>1, <1>2, <2>2, FieldsHold
  <2> QED BY <2>1, <2>3
<1>5. /\ Number(Num(Op(a.id)[2], 5, 0)) = Op(a.id)[2]
      /\ Number(Num(Op(a.id)[3], 3, 0)) = Op(a.id)[3]
      /\ Number(Num(a.rd, 5, 0)) = a.rd /\ Number(Num(a.rs1, 5, 0)) = a.rs1
      /\ Number(Num(a.rs2, 5, 0)) = a.rs2
  BY <1>1, <1>3, Digits, ShortDigits
<1> QED BY <1>4, <1>5 DEF f, ir, OP, Funct3

(* The instruction that is found is the one that was encoded.               *)
LEMMA InstructionDecoded ==
  ASSUME NEW a, Legal(a)
  PROVE  InstrId(Encode(a)) = a.id
<1> DEFINE ir == Encode(a)
<1>1. /\ {0, 1} \subseteq ir
      /\ OP(ir) = Op(a.id)[2]
      /\ Op(a.id)[1] \notin {"U", "J"} => Funct3(ir) = Op(a.id)[3]
  BY OperandsDecoded
<1>2. /\ Op(a.id)[1] = "R" => (30 \in ir <=> a.id \in {"sub", "sra"})
      /\ a.id \in {"slli", "srli"} => 30 \notin ir
      /\ a.id = "srai" => 30 \in ir
  BY AlternateBit
<1>3. a.id = "ecall" => Field(ir, 20, 12) = {}
  <2> SUFFICES ASSUME a.id = "ecall" PROVE \A j \in 20 .. 31 : j \notin ir
    BY DEF Field
  <2>1. Op(a.id)[1] = "I" /\ a.imm = {}
    BY DEF Op, Opcodes, Legal
  <2>2. ir = Layout("I", Op(a.id)[2], Op(a.id)[3], a)
    BY <2>1 DEF Encode
  <2>3. \A j \in 20 .. 31 : /\ j \notin {0, 1} \cup Num(Op(a.id)[2], 5, 2) \cup Num(a.rd, 5, 7)
                            /\ j \notin Num(Op(a.id)[3], 3, 12) \cup Num(a.rs1, 5, 15)
    BY LowBits DEF Bits
  <2>4. Place(a.imm, 0, 11, 20) = {}
    BY <2>1 DEF Place
  <2> QED BY <2>2, <2>3, <2>4 DEF Layout
<1> HIDE DEF ir
<1>4. CASE a.id \in {"lui", "auipc", "jal", "jalr"}
  BY <1>1, <1>4 DEF Op, Opcodes, InstrId, ir
<1>5. CASE a.id \in {"beq", "bne", "blt", "bge", "bltu", "bgeu"}
  BY <1>1, <1>5 DEF Op, Opcodes, InstrId, Branches, ir
<1>6. CASE a.id \in {"lb", "lh", "lw", "lbu", "lhu"}
  BY <1>1, <1>6 DEF Op, Opcodes, InstrId, Loads, ir
<1>7. CASE a.id \in {"sb", "sh", "sw"}
  BY <1>1, <1>7 DEF Op, Opcodes, InstrId, Stores, ir
<1>8. CASE a.id \in {"addi", "slti", "sltiu", "xori", "ori", "andi"}
  BY <1>1, <1>8 DEF Op, Opcodes, InstrId, Immediate, Alternate, ir
<1>9. CASE a.id \in {"slli", "srli", "srai"}
  BY <1>1, <1>2, <1>9 DEF Op, Opcodes, InstrId, Immediate, Alternate, ir
<1>10. CASE a.id \in {"add", "sub", "sll", "slt", "sltu"}
  BY <1>1, <1>2, <1>10 DEF Op, Opcodes, InstrId, Registers, Alternate, ir
<1>11. CASE a.id \in {"xor", "srl", "sra", "or", "and"}
  BY <1>1, <1>2, <1>11 DEF Op, Opcodes, InstrId, Registers, Alternate, ir
<1>12. CASE a.id = "fence"
  BY <1>1, <1>12 DEF Op, Opcodes, InstrId, Misc, ir
<1>13. CASE a.id = "ecall"
  BY <1>1, <1>3, <1>13 DEF Op, Opcodes, InstrId, Privileged, ir
<1> QED BY <1>4, <1>5, <1>6, <1>7, <1>8, <1>9, <1>10, <1>11, <1>12, <1>13, Ids DEF Legal

LEMMA SameNumber ==
  ASSUME NEW v, NEW w, \A i \in 0 .. 4 : i \in v <=> i \in w
  PROVE  Number(v) = Number(w)
<1>1. /\ 0 \in v <=> 0 \in w
      /\ 1 \in v <=> 1 \in w
      /\ 2 \in v <=> 2 \in w
      /\ 3 \in v <=> 3 \in w
      /\ 4 \in v <=> 4 \in w
  OBVIOUS
<1> QED BY <1>1 DEF Number, Bit

(* The immediate of an encoded instruction; that of srai has bit 30 in it,  *)
(* which its shift does not look at.                                        *)
LEMMA ImmediateDecoded ==
  ASSUME NEW a, Legal(a), NEW imm, imm = GetImm(Format(OP(Encode(a))), Encode(a))
  PROVE  /\ Op(a.id)[1] # "R" /\ a.id # "srai" => imm = a.imm
         /\ a.id = "srai" => Number(imm) = Number(a.imm)
<1> DEFINE f == Op(a.id)[1]
<1>1. PICK opcode, funct3 : opcode = Op(a.id)[2] /\ funct3 = Op(a.id)[3]
  OBVIOUS
<1>2. PICK plain : plain = Layout(f, opcode, funct3, a)
  OBVIOUS
<1>3. /\ f \in {"R", "I", "S", "B", "U", "J"}
      /\ f \in {"I", "S"} => IsImm(a.imm, 0, 11)
      /\ f = "B" => IsImm(a.imm, 1, 12)
      /\ f = "U" => IsImm(a.imm, 12, 31)
      /\ f = "J" => IsImm(a.imm, 1, 20)
  BY OpcodeShape DEF Legal
<1>4. f # "R" => GetImm(f, plain) = a.imm
  BY <1>2, <1>3, ImmediatesDecoded
<1>5. imm = GetImm(f, Encode(a))
  BY OperandsDecoded, OpcodeShape DEF Legal
<1>6. ASSUME f # "R", a.id # "srai" PROVE imm = a.imm
  <2>1. Op("sub")[1] = "R" /\ Op("sra")[1] = "R"
    BY DEF Op, Opcodes
  <2>2. Encode(a) = plain
    BY <1>1, <1>2, <1>6, <2>1 DEF Encode
  <2> QED BY <1>4, <1>5, <1>6, <2>2
<1>7. ASSUME a.id = "srai" PROVE Number(imm) = Number(a.imm)
  <2>1. f = "I"
    BY <1>7 DEF Op, Opcodes
  <2>2. Encode(a) = plain \cup {30}
    BY <1>1, <1>2, <1>7 DEF Encode
  <2>3. plain \in Word
    BY <1>2, <1>3, <2>1, LayoutWord DEF IsImm
  <2>4. plain \cup {30} \in Word
    BY <2>3 DEF Word, Bits
  <2>5. ShortImm(plain) = a.imm /\ imm = ShortImm(plain \cup {30})
    BY <1>4, <1>5, <2>1, <2>2 DEF GetImm
  <2>6. ASSUME NEW i \in 0 .. 4 PROVE i \in imm <=> i \in a.imm
    <3>1. i \in Bits /\ i + 20 # 30
      BY DEF Bits
    <3>2. (i \in Shr(plain, 20) <=> i + 20 \in plain)
          /\ (i \in Shr(plain \cup {30}, 20) <=> i + 20 \in plain \cup {30})
      BY <2>3, <2>4, <3>1, ShrBit
    <3> QED BY <2>5, <3>1, <3>2 DEF ShortImm
  <2> QED BY <2>6, SameNumber
<1> QED BY <1>6, <1>7

(* What the core decodes from an encoded instruction: its operands.         *)
THEOREM InstructionsDecoded ==
  ASSUME NEW a, Legal(a), NEW at, NEW inst, inst = Decode(at, Encode(a))
  PROVE  LET f == Op(a.id)[1]
         IN  /\ inst.id = a.id
             /\ f \notin {"S", "B"} => inst.rd = a.rd
             /\ f \notin {"U", "J"} => inst.rs1 = a.rs1
             /\ f \in {"R", "S", "B"} => inst.rs2 = a.rs2
             /\ f # "R" /\ a.id # "srai" => inst.imm = a.imm /\ inst.npc = Plus(at, a.imm)
             /\ a.id = "srai" => Number(inst.imm) = Number(a.imm)
<1>1. /\ inst.id = InstrId(Encode(a))
      /\ inst.rd = Number(Field(Encode(a), 7, 5))
      /\ inst.rs1 = Number(Field(Encode(a), 15, 5))
      /\ inst.rs2 = Number(Field(Encode(a), 20, 5))
      /\ inst.imm = GetImm(Format(OP(Encode(a))), Encode(a))
      /\ inst.npc = Plus(at, GetImm(Format(OP(Encode(a))), Encode(a)))
  BY DEF Decode
<1>2. /\ Op(a.id)[1] # "R" /\ a.id # "srai" => inst.imm = a.imm
      /\ a.id = "srai" => Number(inst.imm) = Number(a.imm)
  BY <1>1, ImmediateDecoded
<1> QED BY <1>1, <1>2, OperandsDecoded, InstructionDecoded

--------------------------------------------------------------------------------
(* The memory as bytes: addresses and loads.                                *)
(* The manual's words are the core's.                                       *)
LEMMA SameOperators ==
  /\ \A a, b : ISA!Plus(a, b) = Plus(a, b)
  /\ \A a, b : ISA!Minus(a, b) = Minus(a, b)
  /\ \A a, b : ISA!Below(a, b) = Below(a, b)
  /\ \A w : ISA!Number(w) = Number(w)
  /\ \A n, width, at : ISA!Num(n, width, at) = Num(n, width, at)
  /\ \A w, lo, hi, at : ISA!Place(w, lo, hi, at) = Place(w, lo, hi, at)
  /\ ISA!Opcodes = Opcodes
  /\ \A id : ISA!Op(id) = Op(id)
<1>1. \A a, b : ISA!Plus(a, b) = Plus(a, b)
  BY DEF ISA!Plus, ISA!Carry, ISA!Bits, Plus, Carry, Bits
<1>2. \A a, b : ISA!Minus(a, b) = Minus(a, b)
  BY <1>1 DEF ISA!Minus, ISA!Not, ISA!Bits, Minus, Not, Bits
<1>3. \A a, b : ISA!Below(a, b) = Below(a, b)
  BY DEF ISA!Below, Below
<1>4. \A w : ISA!Number(w) = Number(w)
  BY DEF ISA!Number, ISA!Bit, Number, Bit
<1>5. \A n, width, at : ISA!Num(n, width, at) = Num(n, width, at)
  BY DEF ISA!Num, Num
<1>6. \A w, lo, hi, at : ISA!Place(w, lo, hi, at) = Place(w, lo, hi, at)
  BY DEF ISA!Place, Place
<1>7. ISA!Opcodes = Opcodes
  BY DEF ISA!Opcodes, Opcodes
<1>8. \A id : ISA!Op(id) = Op(id)
  BY <1>7 DEF ISA!Op, Op
<1> QED BY <1>1, <1>2, <1>3, <1>4, <1>5, <1>6, <1>7, <1>8

LEMMA SameLegal == ASSUME NEW a PROVE ISA!Legal(a) <=> Legal(a)
  BY SameOperators DEF ISA!Legal, ISA!IsImm, ISA!Shifts, ISA!Word, ISA!Bits,
     Legal, IsImm, Shifts, Word, Bits

LEMMA SameLayout ==
  ASSUME NEW f, NEW opcode, NEW funct3, NEW a
  PROVE  ISA!Layout(f, opcode, funct3, a) = Layout(f, opcode, funct3, a)
  BY SameOperators DEF ISA!Layout, Layout

LEMMA SameEncoding == ASSUME NEW a PROVE ISA!Encode(a) = Encode(a)
  BY SameOperators, SameLayout DEF ISA!Encode, Encode

(* Adding to zeros needs no carry.                                          *)
LEMMA PlusApart ==
  ASSUME NEW a \in Word, NEW b \in Word, a \cap b = {}
  PROVE  Plus(a, b) = a \cup b
<1>1. \A i \in Bits : ~ Carry(a, b, i)
  BY DEF Carry
<1>2. ASSUME NEW i \in Bits PROVE i \in Plus(a, b) <=> i \in a \cup b
  <2>1. i \in Plus(a, b) <=> ((i \in a) # ((i \in b) # Carry(a, b, i)))
    BY DEF Plus
  <2>2. Carry(a, b, i) \in BOOLEAN
    BY DEF Carry
  <2>3. ~ (i \in a /\ i \in b)
    OBVIOUS
  <2> QED BY <1>1, <2>1, <2>2, <2>3
<1> QED BY <1>2 DEF Plus, Word

LEMMA SmallNums ==
  Num(0, 2, 0) = {} /\ Num(1, 2, 0) = {0} /\ Num(2, 2, 0) = {1} /\ Num(3, 2, 0) = {0, 1}
<1> DEFINE N(n) == {j \in 0 .. 2 - 1 : (n \div 2^j) % 2 = 1}
<1>1. 2^0 = 1 /\ 2^1 = 2
  OBVIOUS
<1>2. \A n : 0 \in N(n) <=> (n \div 2^0) % 2 = 1
  OBVIOUS
<1>3. \A n : 1 \in N(n) <=> (n \div 2^1) % 2 = 1
  OBVIOUS
<1>4. \A n : N(n) \subseteq {0, 1} /\ N(n) \subseteq Int
  OBVIOUS
<1>5. N(0) = {} /\ N(1) = {0} /\ N(2) = {1} /\ N(3) = {0, 1}
  <2> HIDE DEF N
  <2>1. \A n \in Int : (0 \in N(n) <=> (n \div 1) % 2 = 1) /\ (1 \in N(n) <=> (n \div 2) % 2 = 1)
    BY <1>1, <1>2, <1>3
  <2>2. /\ 0 \notin N(0) /\ 1 \notin N(0)
        /\ 0 \in N(1) /\ 1 \notin N(1)
        /\ 0 \notin N(2) /\ 1 \in N(2)
        /\ 0 \in N(3) /\ 1 \in N(3)
    BY <2>1
  <2> QED BY <2>2, <1>4
<1>6. \A n : Num(n, 2, 0) = {i + 0 : i \in N(n)}
  BY DEF Num
<1> HIDE DEF N
<1> QED BY <1>5, <1>6

LEMMA LaneNumber ==
  ASSUME NEW addr
  PROVE  /\ Number(Lane(addr)) = Bit(addr, 0) + 2 * Bit(addr, 1)
         /\ Number(addr \cap {0, 1}) = Number(Lane(addr))
<1>1. /\ 0 \in Lane(addr) <=> 0 \in addr
      /\ 1 \in Lane(addr) <=> 1 \in addr
      /\ 2 \notin Lane(addr) /\ 3 \notin Lane(addr) /\ 4 \notin Lane(addr)
  BY DEF Lane
<1> QED BY <1>1 DEF Number, Bit, Lane

LEMMA LaneRange == ASSUME NEW addr PROVE Number(Lane(addr)) \in 0 .. 3
<1>1. Number(Lane(addr)) = (IF 0 \in addr THEN 1 ELSE 0) + 2 * (IF 1 \in addr THEN 1 ELSE 0)
  BY LaneNumber DEF Bit
<1> QED BY <1>1

(* Byte k of an aligned access of n bytes: in the same word, k lanes on.    *)
LEMMA AlignedLanes ==
  ASSUME NEW addr \in Word, NEW n \in {1, 2, 4}, Number(Lane(addr)) % n = 0,
         NEW k \in 0 .. n - 1
  PROVE  /\ addr \cap Num(k, 2, 0) = {}
         /\ Num(k, 2, 0) \in SUBSET {0, 1}
<1> DEFINE L == Number(Lane(addr))
<1>0. L = (IF 0 \in addr THEN 1 ELSE 0) + 2 * (IF 1 \in addr THEN 1 ELSE 0)
  BY LaneNumber DEF Bit
<1>a. (n = 2 => L % 2 = 0) /\ (n = 4 => L % 4 = 0)
  OBVIOUS
<1> HIDE DEF L
<1>1. n # 1 => 0 \notin addr
  BY <1>0, <1>a
<1>2. n = 4 => 1 \notin addr
  BY <1>0, <1>a
<1>3. \/ k = 0
      \/ k = 1 /\ n # 1
      \/ k \in {2, 3} /\ n = 4
  OBVIOUS
<1> QED BY <1>1, <1>2, <1>3, SmallNums

LEMMA ByteAddress ==
  ASSUME NEW addr \in Word, NEW n \in {1, 2, 4}, Number(Lane(addr)) % n = 0,
         NEW k \in 0 .. n - 1, NEW at, at = ISA!At(addr, k)
  PROVE  /\ at \in SUBSET (CellBits \cup {0, 1})
         /\ at \cap CellBits = addr \cap CellBits
         /\ Number(Lane(at)) = Number(Lane(addr)) + k
<1> DEFINE d == Num(k, 2, 0)
<1>1. addr \cap d = {} /\ d \in SUBSET {0, 1}
  BY AlignedLanes
<1>2. d \in Word
  BY <1>1 DEF Word, Bits
<1>3. ISA!Plus(addr, ISA!Num(k, 2, 0)) = addr \cup d
  BY <1>1, <1>2, SameOperators, PlusApart
<1>4. at = (addr \cup d) \cap (CellBits \cup {0, 1})
  BY <1>3 DEF ISA!At
<1>5. CellBits \cap {0, 1} = {}
  BY CoreAssumption
<1>6. k \in {0, 1, 2, 3}
  OBVIOUS
<1>7. Bit(d, 0) + 2 * Bit(d, 1) = k
  BY <1>6, SmallNums DEF Bit
<1> HIDE DEF d
<1>8. /\ 0 \in at <=> 0 \in addr \/ 0 \in d
      /\ 1 \in at <=> 1 \in addr \/ 1 \in d
      /\ ~ (0 \in addr /\ 0 \in d) /\ ~ (1 \in addr /\ 1 \in d)
  BY <1>1, <1>4
<1>9. Number(Lane(at)) = Number(Lane(addr)) + k
  <2>1. /\ Number(Lane(at)) = Bit(at, 0) + 2 * Bit(at, 1)
        /\ Number(Lane(addr)) = Bit(addr, 0) + 2 * Bit(addr, 1)
    BY LaneNumber
  <2>2. Bit(at, 0) = Bit(addr, 0) + Bit(d, 0) /\ Bit(at, 1) = Bit(addr, 1) + Bit(d, 1)
    BY <1>8 DEF Bit
  <2> QED BY <1>7, <2>1, <2>2 DEF Bit
<1> QED BY <1>1, <1>4, <1>5, <1>9

(* The bytes of an aligned access are a field of the word they are in.      *)
LEMMA GatherIsField ==
  ASSUME mem \in Image, NEW addr \in Word, NEW n \in {1, 2, 4}, Number(Lane(addr)) % n = 0
  PROVE  ISA!Gather(addr, n) = Field(Read4(mem, addr), 8 * Number(Lane(addr)), 8 * n)
<1> DEFINE L == Number(Lane(addr))
           cell == Read4(mem, addr)
<1>1. L \in 0 .. 3
  BY LaneRange
<1>2. cell \in Word
  BY ReadType
<1> DEFINE Byte(k) == Field(cell, 8 * (L + k), 8)
           by == [b \in SUBSET (CellBits \cup {0, 1}) |->
                     Field(mem[b \cap CellBits], 8 * Number(Lane(b)), 8)]
<1>3. ASSUME NEW k \in 0 .. n - 1 PROVE by[ISA!At(addr, k)] = Byte(k)
  <2>1. PICK at : at = ISA!At(addr, k)
    OBVIOUS
  <2>2. /\ at \in SUBSET (CellBits \cup {0, 1})
        /\ at \cap CellBits = addr \cap CellBits
        /\ Number(Lane(at)) = Number(Lane(addr)) + k
    BY <2>1, ByteAddress
  <2>3. by[at] = Field(mem[at \cap CellBits], 8 * Number(Lane(at)), 8)
    BY <2>2
  <2> QED BY <2>1, <2>2, <2>3 DEF Read4
<1>4. ISA!Gather(addr, n) = UNION {{i + 8 * k : i \in by[ISA!At(addr, k)]} : k \in 0 .. n - 1}
  BY DEF ISA!Gather
<1> HIDE DEF by
<1>5. ISA!Gather(addr, n) = UNION {{i + 8 * k : i \in Byte(k)} : k \in 0 .. n - 1}
  BY <1>3, <1>4
<1> HIDE DEF L, cell
<1>6. \A j : j \in ISA!Gather(addr, n)
               <=> \E k \in 0 .. n - 1 : \E i \in Byte(k) : j = i + 8 * k
  <2> HIDE DEF Byte
  <2> QED BY <1>5
<1>7. \A k \in 0 .. n - 1 : Byte(k) = {i - 8 * (L + k) : i \in cell \cap (8 * (L + k) .. 8 * (L + k) + 8 - 1)}
  BY DEF Field
<1>8. \A j \in ISA!Gather(addr, n) : j \in Field(cell, 8 * L, 8 * n)
  <2> SUFFICES ASSUME NEW k \in 0 .. n - 1, NEW i \in Byte(k)
               PROVE  i + 8 * k \in Field(cell, 8 * L, 8 * n)
    BY <1>6
  <2>1. PICK m \in cell : m \in 8 * (L + k) .. 8 * (L + k) + 8 - 1 /\ i = m - 8 * (L + k)
    BY <1>7
  <2>2. m \in 8 * L .. 8 * L + 8 * n - 1 /\ i + 8 * k = m - 8 * L
    BY <2>1, <1>1
  <2> QED BY <2>2 DEF Field
<1>9. \A j \in Field(cell, 8 * L, 8 * n) : j \in ISA!Gather(addr, n)
  <2> SUFFICES ASSUME NEW m \in cell, m \in 8 * L .. 8 * L + 8 * n - 1
               PROVE  m - 8 * L \in ISA!Gather(addr, n)
    BY DEF Field
  <2>1. PICK k \in 0 .. n - 1 : m \in 8 * (L + k) .. 8 * (L + k) + 8 - 1
    <3>1. \/ m \in 8 * L .. 8 * L + 7
          \/ n # 1 /\ m \in 8 * (L + 1) .. 8 * (L + 1) + 7
          \/ n = 4 /\ m \in 8 * (L + 2) .. 8 * (L + 2) + 7
          \/ n = 4 /\ m \in 8 * (L + 3) .. 8 * (L + 3) + 7
      BY <1>1
    <3> QED BY <3>1, <1>1
  <2>2. m - 8 * (L + k) \in Byte(k)
    BY <2>1, <1>7
  <2>3. m - 8 * L = (m - 8 * (L + k)) + 8 * k
    BY <2>1, <1>1
  <2> HIDE DEF Byte
  <2> QED BY <2>2, <2>3, <1>6
<1> QED BY <1>8, <1>9 DEF L, cell

LEMMA WholeField == ASSUME NEW w \in Word PROVE Field(w, 0, 32) = w
<1>1. \A i \in w : i \in 0 .. 0 + 32 - 1 /\ i - 0 = i
  BY DEF Word, Bits
<1> QED BY <1>1 DEF Field

LEMMA AlignedLane ==
  ASSUME NEW addr, Number(Lane(addr)) % 4 = 0
  PROVE  Lane(addr) = {} /\ Number(Lane(addr)) = 0 /\ Aligned(addr) = addr
<1>1. Number(Lane(addr)) = (IF 0 \in addr THEN 1 ELSE 0) + 2 * (IF 1 \in addr THEN 1 ELSE 0)
  BY LaneNumber DEF Bit
<1>2. Number(Lane(addr)) = 0
  BY <1>1
<1>3. 0 \notin addr /\ 1 \notin addr
  BY <1>1, <1>2
<1> QED BY <1>2, <1>3 DEF Lane, Aligned

LEMMA EvenAddress ==
  ASSUME NEW addr, Number(Lane(addr)) % 2 = 0
  PROVE  0 \notin addr
<1>1. Number(Lane(addr)) = (IF 0 \in addr THEN 1 ELSE 0) + 2 * (IF 1 \in addr THEN 1 ELSE 0)
  BY LaneNumber DEF Bit
<1> QED BY <1>1

(* The word fetched is the four bytes at pc.                                *)
LEMMA WordFetched ==
  ASSUME TypeOK, ~ ISA!MisalignedAt(pc, 4)
  PROVE  ISA!Fetched = Fetch(mem, pc)
<1>1. Number(Lane(pc)) % 4 = 0
  BY SameOperators DEF ISA!MisalignedAt, Lane
<1>2. Lane(pc) = {} /\ Number(Lane(pc)) = 0
  BY <1>1, AlignedLane
<1>3. ISA!Gather(pc, 4) = Field(Read4(mem, pc), 8 * Number(Lane(pc)), 8 * 4)
  BY <1>1, GatherIsField DEF TypeOK
<1>4. Read4(mem, pc) \in Word
  BY ReadType DEF TypeOK
<1>5. ISA!Gather(pc, 4) = Field(Read4(mem, pc), 0, 32)
  BY <1>2, <1>3
<1> QED BY <1>2, <1>4, <1>5, WholeField DEF ISA!Fetched, Fetch

(* Two bytes read one after the other are a field of sixteen bits.          *)
LEMMA HalfwordRead ==
  ASSUME mem \in Image, NEW addr \in Word, Number(Lane(addr)) % 2 = 0
  PROVE  Read2(mem, addr) = Field(Read4(mem, addr), 8 * Number(Lane(addr)), 16)
<1> DEFINE L == Number(Lane(addr))
           cell == Read4(mem, addr)
           next == Plus(addr, {0})
<1>1. 0 \notin addr
  BY EvenAddress
<1>2. {0} \in Word
  BY DEF Word, Bits
<1>3. next = addr \cup {0}
  BY <1>1, <1>2, PlusApart
<1>4. Read4(mem, next) = cell
  <2>1. 0 \notin CellBits
    BY CoreAssumption
  <2>2. next \cap CellBits = addr \cap CellBits
    BY <1>3, <2>1
  <2> QED BY <2>2 DEF Read4
<1>5. Number(Lane(next)) = L + 1
  <2>1. L = (IF 0 \in addr THEN 1 ELSE 0) + 2 * (IF 1 \in addr THEN 1 ELSE 0)
    BY LaneNumber DEF Bit
  <2>2. Number(Lane(next)) = (IF 0 \in next THEN 1 ELSE 0) + 2 * (IF 1 \in next THEN 1 ELSE 0)
    BY LaneNumber DEF Bit
  <2> HIDE DEF L, next
  <2> QED BY <1>1, <1>3, <2>1, <2>2
<1>6. L \in 0 .. 3
  BY LaneRange
<1>7. cell \in Word
  BY ReadType
<1>8. Read2(mem, addr) = Field(cell, 8 * L, 8) \cup Shl(Field(cell, 8 * (L + 1), 8), 8)
  BY <1>4, <1>5 DEF Read2, Read1
<1> HIDE DEF L, cell, next
<1>9. Field(cell, 8 * (L + 1), 8) \in SUBSET (0 .. 7)
  BY <1>6 DEF Field
<1>10. \A i : i \in Shl(Field(cell, 8 * (L + 1), 8), 8)
                <=> i \in 8 .. 15 /\ i + 8 * L \in cell
  <2>1. \A i : i \in Field(cell, 8 * (L + 1), 8) <=> i \in 0 .. 7 /\ i + 8 * (L + 1) \in cell
    BY <1>6, <1>7 DEF Field, Word, Bits
  <2> DEFINE high == Field(cell, 8 * (L + 1), 8)
  <2> HIDE DEF high
  <2>2. \A i : i \in Shl(high, 8) <=> i - 8 \in high /\ i \in Bits
    BY <1>9 DEF Shl, Bits, high
  <2>3. \A i \in Int : (i - 8) + 8 * (L + 1) = i + 8 * L
    BY <1>6
  <2> QED BY <1>6, <2>1, <2>2, <2>3 DEF high, Bits
<1>11. \A i : i \in Field(cell, 8 * L, 8) <=> i \in 0 .. 7 /\ i + 8 * L \in cell
  BY <1>6, <1>7 DEF Field, Word, Bits
<1>12. \A i : i \in Field(cell, 8 * L, 16) <=> i \in 0 .. 15 /\ i + 8 * L \in cell
  BY <1>6, <1>7 DEF Field, Word, Bits
<1>13. \A i : i \in Read2(mem, addr) <=> i \in Field(cell, 8 * L, 16)
  BY <1>8, <1>10, <1>11, <1>12
<1> QED BY <1>13 DEF cell, L

(* Loads give the bytes at their address, with their sign or with zeros.    *)
LEMMA LoadsAgree ==
  ASSUME mem \in Image, NEW id \in {"lb", "lh", "lw", "lbu", "lhu"}, NEW addr \in Word,
         ~ ISA!MisalignedAt(addr, ISA!Width(id)), NEW bs, bs = ISA!Gather(addr, ISA!Width(id))
  PROVE  Load(id, mem, addr) = IF id \in {"lb", "lh", "lw"}
                                 THEN ISA!Extend(bs, 8 * ISA!Width(id)) ELSE bs
<1> DEFINE n == ISA!Width(id)
           L == Number(Lane(addr))
           cell == Read4(mem, addr)
<1>1. /\ n \in {1, 2, 4}
      /\ id \in {"lb", "lbu"} => n = 1
      /\ id \in {"lh", "lhu"} => n = 2
      /\ id = "lw" => n = 4
  BY DEF ISA!Width
<1>2. L % n = 0
  BY SameOperators DEF ISA!MisalignedAt, Lane
<1>3. bs = Field(cell, 8 * L, 8 * n)
  BY <1>1, <1>2, GatherIsField
<1>4. cell \in Word /\ L \in 0 .. 3
  BY ReadType, LaneRange
<1>5. bs \in SUBSET (0 .. 8 * n - 1)
  BY <1>1, <1>3, <1>4 DEF Field
<1>6. Sext(bs, 8) = ISA!Extend(bs, 8) /\ Sext(bs, 16) = ISA!Extend(bs, 16)
  BY DEF Sext, ISA!Extend, Bits
<1>7. ISA!Extend(bs, 32) = bs
  <2>1. 32 .. 31 = {}
    OBVIOUS
  <2> QED BY <2>1 DEF ISA!Extend
<1>8. CASE id \in {"lb", "lbu"}
  <2>1. Read1(mem, addr) = bs
    BY <1>1, <1>3, <1>8 DEF Read1
  <2> QED BY <1>1, <1>6, <1>8, <2>1 DEF Load
<1>9. CASE id \in {"lh", "lhu"}
  <2>1. Read2(mem, addr) = bs
    BY <1>1, <1>2, <1>3, <1>9, HalfwordRead
  <2> QED BY <1>1, <1>6, <1>9, <2>1 DEF Load
<1>10. CASE id = "lw"
  <2>1. Aligned(addr) = addr /\ L = 0
    BY <1>1, <1>2, <1>10, AlignedLane
  <2>2. bs = cell
    BY <1>1, <1>3, <1>4, <1>10, <2>1, WholeField
  <2> QED BY <1>1, <1>7, <1>10, <2>1, <2>2 DEF Load
<1> QED BY <1>8, <1>9, <1>10

--------------------------------------------------------------------------------
(* Comparisons, shifts and results.                                         *)
(* The sign of signed words decides, then the rest.                         *)
LEMMA SignDecides ==
  ASSUME NEW x \in Word, NEW y \in Word
  PROVE  SignedBelow(x, y) <=> \/ 31 \in x /\ 31 \notin y
                               \/ (31 \in x <=> 31 \in y) /\ Below(x, y)
<1> DEFINE X == Xor(x, {31})
           Y == Xor(y, {31})
<1>1. /\ 31 \in X <=> 31 \notin x
      /\ 31 \in Y <=> 31 \notin y
      /\ \A i \in 0 .. 30 : (i \in X <=> i \in x) /\ (i \in Y <=> i \in y)
      /\ X \subseteq 0 .. 31 /\ Y \subseteq 0 .. 31
  BY DEF Xor, Word, Bits
<1>2. SignedBelow(x, y) <=> Below(X, Y)
  BY DEF SignedBelow
<1> HIDE DEF X, Y
<1>3. CASE 31 \in x <=> 31 \in y
  <2>1. ASSUME Below(X, Y) PROVE Below(x, y)
    <3>1. PICK i \in Y \ X : \A j \in i + 1 .. 31 : j \in X <=> j \in Y
      BY <2>1 DEF Below
    <3>2. i \in 0 .. 30
      BY <1>1, <1>3
    <3>3. i \in y \ x
      BY <3>2, <1>1
    <3>4. \A j \in i + 1 .. 31 : j \in x <=> j \in y
      <4> SUFFICES ASSUME NEW j \in i + 1 .. 31 PROVE j \in x <=> j \in y
        OBVIOUS
      <4>1. j = 31 \/ j \in 0 .. 30
        BY <3>2
      <4> QED BY <4>1, <3>1, <1>1, <1>3
    <3> QED BY <3>3, <3>4 DEF Below
  <2>2. ASSUME Below(x, y) PROVE Below(X, Y)
    <3>1. PICK i \in y \ x : \A j \in i + 1 .. 31 : j \in x <=> j \in y
      BY <2>2 DEF Below
    <3>2. i \in 0 .. 30
      BY <1>3 DEF Word, Bits
    <3>3. i \in Y \ X
      BY <3>2, <3>1, <1>1
    <3>4. \A j \in i + 1 .. 31 : j \in X <=> j \in Y
      <4> SUFFICES ASSUME NEW j \in i + 1 .. 31 PROVE j \in X <=> j \in Y
        OBVIOUS
      <4>1. j = 31 \/ j \in 0 .. 30
        BY <3>2
      <4> QED BY <4>1, <3>1, <1>1, <1>3
    <3> QED BY <3>3, <3>4 DEF Below
  <2> QED BY <1>2, <1>3, <2>1, <2>2
<1>4. CASE 31 \in x /\ 31 \notin y
  <2>1. 31 \in Y \ X /\ 31 + 1 .. 31 = {}
    BY <1>1, <1>4
  <2> QED BY <1>2, <1>4, <2>1 DEF Below
<1>5. CASE 31 \notin x /\ 31 \in y
  <2>1. ~ Below(X, Y)
    <3> SUFFICES ASSUME NEW i \in Y \ X, \A j \in i + 1 .. 31 : j \in X <=> j \in Y
                 PROVE  FALSE
      BY DEF Below
    <3>1. i # 31 /\ i \in 0 .. 31
      BY <1>1, <1>5
    <3>2. 31 \in i + 1 .. 31
      BY <3>1
    <3> QED BY <3>2, <1>1, <1>5
  <2> QED BY <1>2, <1>5, <2>1
<1> QED BY <1>3, <1>4, <1>5

(* Unsigned words are totally ordered.                                      *)
LEMMA OneBelow ==
  ASSUME NEW x \in Word, NEW y \in Word
  PROVE  ~ Below(x, y) <=> x = y \/ Below(y, x)
<1> DEFINE Agree(i) == \A j \in 31 - i .. 31 : j \in x <=> j \in y
           S == {i \in 0 .. 32 : Agree(i) \/ Below(x, y) \/ Below(y, x)}
<1>1. 0 \in S
  <2>1. CASE 31 \in x <=> 31 \in y
    BY <2>1
  <2>2. CASE ~ (31 \in x <=> 31 \in y)
    <3>1. 31 + 1 .. 31 = {}
      OBVIOUS
    <3> QED BY <2>2, <3>1 DEF Below
  <2> QED BY <2>1, <2>2
<1>2. \A i \in Bits : i \in S => i + 1 \in S
  <2> SUFFICES ASSUME NEW i \in Bits, Agree(i) PROVE i + 1 \in S
    BY DEF Bits
  <2>1. i + 1 \in 0 .. 32
    BY DEF Bits
  <2> DEFINE k == 31 - (i + 1)
  <2>2. k \in Int /\ 31 - i = k + 1
    BY DEF Bits
  <2>3. CASE k \in x <=> k \in y
    <3>1. \A j \in k .. 31 : j = k \/ j \in k + 1 .. 31
      BY <2>2
    <3> QED BY <2>1, <2>2, <2>3, <3>1
  <2>4. CASE ~ (k \in x <=> k \in y)
    <3>1. \A j \in k + 1 .. 31 : j \in x <=> j \in y
      BY <2>2
    <3>2. Below(x, y) \/ Below(y, x)
      BY <2>4, <3>1 DEF Below
    <3> QED BY <2>1, <3>2
  <2> QED BY <2>3, <2>4
<1>3. \A i \in Bits : i \in S
  <2> HIDE DEF S
  <2> QED BY <1>1, <1>2, AllBits
<1>4. x = y \/ Below(x, y) \/ Below(y, x)
  <2>1. 31 \in S
    BY <1>3 DEF Bits
  <2>2. ASSUME Agree(31) PROVE x = y
    <3>1. \A j \in 0 .. 31 : j \in x <=> j \in y
      BY <2>2
    <3> QED BY <3>1 DEF Word, Bits
  <2> QED BY <2>1, <2>2
<1>5. ASSUME Below(x, y), Below(y, x) PROVE FALSE
  <2>1. PICK i \in y \ x : \A j \in i + 1 .. 31 : j \in x <=> j \in y
    BY <1>5 DEF Below
  <2>2. PICK k \in x \ y : \A j \in k + 1 .. 31 : j \in y <=> j \in x
    BY <1>5 DEF Below
  <2>3. i \in 0 .. 31 /\ k \in 0 .. 31
    BY DEF Word, Bits
  <2>4. i # k
    BY <2>1, <2>2
  <2>5. i \in k + 1 .. 31 \/ k \in i + 1 .. 31
    BY <2>3, <2>4
  <2> QED BY <2>1, <2>2, <2>5
<1>6. x = y => ~ Below(x, y)
  BY DEF Below
<1> QED BY <1>4, <1>5, <1>6

(* Shifts move the bits, and the arithmetic one repeats the sign.           *)
LEMMA ShiftsAgree ==
  ASSUME NEW x \in Word, NEW n \in 0 .. 31
  PROVE  /\ Shl(x, n) = {i \in Bits : i - n \in x}
         /\ Shr(x, n) = {i \in Bits : i + n \in x}
         /\ Sar(x, n) = {i \in Bits : IF i + n > 31 THEN 31 \in x ELSE i + n \in x}
<1>1. \A i \in Bits : (i \in Shl(x, n) <=> i - n \in x) /\ (i \in Shr(x, n) <=> i + n \in x)
  BY ShlBit, ShrBit
<1>2. Shl(x, n) \subseteq Bits /\ Shr(x, n) \subseteq Bits
  BY DEF Shl, Shr, Word, Bits
<1>3. \A i \in Bits : i + n > 31 => i + n \notin x
  BY DEF Word, Bits
<1>4. \A i \in Bits : i + n > 31 <=> i > 31 - n
  BY DEF Bits
<1>5. \A i \in Bits : i \in Sar(x, n) <=> IF i + n > 31 THEN 31 \in x ELSE i + n \in x
  BY <1>1, <1>3, <1>4 DEF Sar
<1>6. Sar(x, n) \subseteq Bits
  BY <1>2 DEF Sar
<1> QED BY <1>1, <1>2, <1>5, <1>6

BranchIds == {"beq", "bne", "blt", "bge", "bltu", "bgeu"}

LEMMA Formats ==
  ASSUME NEW id \in DOMAIN Opcodes
  PROVE  /\ Op(id)[1] = "R" <=> id \in {"add", "sub", "sll", "slt", "sltu", "xor", "srl", "sra",
                                        "or", "and"}
         /\ Op(id)[1] = "B" <=> id \in BranchIds
         /\ Op(id)[1] = "S" <=> id \in {"sb", "sh", "sw"}
         /\ Op(id)[1] = "U" <=> id \in {"lui", "auipc"}
         /\ Op(id)[1] = "J" <=> id = "jal"
  BY Ids DEF Op, Opcodes, BranchIds

(* The arithmetic of the core on operands x and y is the manual's; shifts   *)
(* and only they may be given another word v with the same number.          *)
LEMMA AluAgrees ==
  ASSUME NEW x \in Word, NEW y \in Word, NEW v \in Word, Number(v) = Number(y), NEW id,
         id \notin Shifts => v = y,
         NEW a, a.id = id, x = reg[a.rs1],
         y = IF Op(id)[1] = "R" THEN reg[a.rs2] ELSE a.imm,
         id \in WithImmediate \cup WithRegisters
  PROVE  Alu(id, x, v) = ISA!Value(a)
<1> DEFINE n == Number(y)
<1>0. n \in 0 .. 31
  BY NumberRange
<1>1. /\ ISA!Number(y) = n /\ ISA!Op(id) = Op(id)
      /\ ISA!Plus(x, y) = Plus(x, y) /\ ISA!Minus(x, y) = Minus(x, y)
      /\ ISA!Below(x, y) = Below(x, y)
      /\ ISA!Bits = Bits
  BY SameOperators DEF ISA!Bits, Bits
<1>2. y = IF ISA!Op(a.id)[1] = "R" THEN reg[a.rs2] ELSE a.imm
  BY <1>1
<1>3. /\ Shl(x, n) = {i \in Bits : i - n \in x}
      /\ Shr(x, n) = {i \in Bits : i + n \in x}
      /\ Sar(x, n) = {i \in Bits : IF i + n > 31 THEN 31 \in x ELSE i + n \in x}
  BY <1>0, ShiftsAgree
<1>4. SignedBelow(x, y) <=> \/ 31 \in x /\ 31 \notin y
                            \/ (31 \in x <=> 31 \in y) /\ Below(x, y)
  BY SignDecides
<1>5. Xor(x, y) = {i \in Bits : (i \in x) # (i \in y)}
  BY DEF Xor, Word
<1> HIDE DEF n
<1>6. CASE id \in {"add", "addi", "sub"}
  BY <1>1, <1>2, <1>6 DEF Alu, ISA!Value, Shifts
<1>7. CASE id \in {"and", "andi", "or", "ori"}
  BY <1>1, <1>2, <1>7 DEF Alu, ISA!Value, Shifts
<1>8. CASE id \in {"xor", "xori"}
  BY <1>1, <1>2, <1>5, <1>8 DEF Alu, ISA!Value, Shifts
<1>9. CASE id \in {"slt", "slti"}
  BY <1>1, <1>2, <1>4, <1>9 DEF Alu, ISA!Value, Shifts, Flag, SignedLess
<1>10. CASE id \in {"sltu", "sltiu"}
  BY <1>1, <1>2, <1>10 DEF Alu, ISA!Value, Shifts, Flag, UnsignedLess
<1>11. CASE id \in {"sll", "slli"}
  BY <1>1, <1>2, <1>3, <1>11 DEF Alu, ISA!Value, ShiftBy, n
<1>12. CASE id \in {"srl", "srli"}
  BY <1>1, <1>2, <1>3, <1>12 DEF Alu, ISA!Value, ShiftBy, n
<1>13. CASE id \in {"sra", "srai"}
  BY <1>1, <1>2, <1>3, <1>13 DEF Alu, ISA!Value, ShiftBy, n
<1>14. id \in {"add", "addi", "sub", "and", "andi", "or", "ori", "xor", "xori", "slt", "slti",
               "sltu", "sltiu", "sll", "slli", "srl", "srli", "sra", "srai"}
  BY DEF WithImmediate, WithRegisters, Immediate, Registers
<1> QED BY <1>6, <1>7, <1>8, <1>9, <1>10, <1>11, <1>12, <1>13, <1>14

(* An instruction of the manual and what the core has decoded for it.       *)
Decoded(a, inst) ==
  /\ Legal(a)
  /\ inst = Decode(pc, Fetch(mem, pc))
  /\ Fetch(mem, pc) = Encode(a)

LEMMA DecodedOperands ==
  ASSUME TypeOK, NEW a, NEW inst, Decoded(a, inst)
  PROVE  LET f == Op(a.id)[1]
         IN  /\ inst.id = a.id /\ a.id \in DOMAIN Opcodes
             /\ f \notin {"S", "B"} => inst.rd = a.rd
             /\ f \notin {"U", "J"} => inst.rs1 = a.rs1
             /\ f \in {"R", "S", "B"} => inst.rs2 = a.rs2
             /\ f # "R" /\ a.id # "srai" => inst.imm = a.imm /\ inst.npc = Plus(pc, a.imm)
             /\ a.id = "srai" => Number(inst.imm) = Number(a.imm)
             /\ inst.imm \in Word
             /\ a.rd \in 0 .. 31
             /\ reg[a.rs1] \in Word /\ reg[a.rs2] \in Word
  BY InstructionsDecoded, OperandTypes DEF Decoded, Legal, TypeOK

Misaligned(a) == /\ a.id \in ISA!LoadIds \cup ISA!StoreIds
                 /\ ISA!MisalignedAt(ISA!Address(a), ISA!Width(a.id))

(* The address of loads, stores and jalr.                                   *)
LEMMA AddressAgrees ==
  ASSUME TypeOK, NEW a, NEW inst, Decoded(a, inst),
         a.id \in {"jalr", "lb", "lh", "lw", "lbu", "lhu", "sb", "sh", "sw"}
  PROVE  ISA!Address(a) = Plus(reg[inst.rs1], inst.imm)
<1>1. Op(a.id)[1] \notin {"U", "J", "R"} /\ a.id # "srai"
  BY DecodedOperands, Formats
<1> QED BY <1>1, DecodedOperands, SameOperators DEF ISA!Address

(* What each class of instructions puts into rd.                            *)
LEMMA WrittenBack ==
  ASSUME NEW inst, NEW addr
  PROVE  /\ inst.id = "lui" => Executed(inst, addr) = [reg EXCEPT ![inst.rd] = inst.imm]
         /\ inst.id = "auipc" => Executed(inst, addr) = [reg EXCEPT ![inst.rd] = inst.npc]
         /\ inst.id \in {"jal", "jalr"} =>
              Executed(inst, addr) = [reg EXCEPT ![inst.rd] = Plus(pc, {2})]
         /\ IsLoad(inst.id) =>
              Executed(inst, addr) = [reg EXCEPT ![inst.rd] = Load(inst.id, mem, addr)]
         /\ inst.id \in WithImmediate =>
              Executed(inst, addr) = [reg EXCEPT ![inst.rd] = Alu(inst.id, reg[inst.rs1], inst.imm)]
         /\ inst.id \in WithRegisters =>
              Executed(inst, addr)
                = [reg EXCEPT ![inst.rd] = Alu(inst.id, reg[inst.rs1], reg[inst.rs2])]
<1>1. inst.id \in {"lui", "auipc", "jal", "jalr"} =>
        ~ IsLoad(inst.id) /\ inst.id \notin WithImmediate \cup WithRegisters
  BY DEF IsLoad, WithImmediate, WithRegisters, Immediate, Registers
<1>2. IsLoad(inst.id) => /\ inst.id \notin {"lui", "auipc", "jal", "jalr"}
                         /\ inst.id \notin WithImmediate \cup WithRegisters
  BY DEF IsLoad, WithImmediate, WithRegisters, Immediate, Registers
<1>3. inst.id \in WithImmediate => /\ inst.id \notin {"lui", "auipc", "jal", "jalr"}
                                   /\ ~ IsLoad(inst.id) /\ inst.id \notin WithRegisters
  BY DEF IsLoad, WithImmediate, WithRegisters, Immediate, Registers
<1>4. inst.id \in WithRegisters => /\ inst.id \notin {"lui", "auipc", "jal", "jalr"}
                                   /\ ~ IsLoad(inst.id) /\ inst.id \notin WithImmediate
  BY DEF IsLoad, WithImmediate, WithRegisters, Immediate, Registers
<1>5. CASE inst.id \in {"lui", "auipc", "jal", "jalr"}
  BY <1>1, <1>5 DEF Executed
<1>6. CASE IsLoad(inst.id)
  BY <1>2, <1>6 DEF Executed
<1>7. CASE inst.id \in WithImmediate
  BY <1>3, <1>7 DEF Executed
<1>8. CASE inst.id \in WithRegisters
  BY <1>4, <1>8 DEF Executed
<1> QED BY <1>5, <1>6, <1>7, <1>8

(* The result that the core writes is the manual's value.                   *)
LEMMA ResultAgrees ==
  ASSUME TypeOK, NEW a, NEW inst, Decoded(a, inst), ~ Misaligned(a), ISA!HasRd(a),
         NEW addr, addr = Plus(reg[inst.rs1], inst.imm)
  PROVE  Executed(inst, addr) = [reg EXCEPT ![a.rd] = ISA!Value(a)]
<1> DEFINE f == Op(a.id)[1]
<1>1. /\ inst.id = a.id /\ a.id \in DOMAIN Opcodes
      /\ f \notin {"S", "B"} => inst.rd = a.rd
      /\ f \notin {"U", "J"} => inst.rs1 = a.rs1
      /\ f \in {"R", "S", "B"} => inst.rs2 = a.rs2
      /\ f # "R" /\ a.id # "srai" => inst.imm = a.imm /\ inst.npc = Plus(pc, a.imm)
      /\ a.id = "srai" => Number(inst.imm) = Number(a.imm)
      /\ inst.imm \in Word
      /\ reg[a.rs1] \in Word /\ reg[a.rs2] \in Word
  BY DecodedOperands
<1>2. /\ f = "R" <=> a.id \in {"add", "sub", "sll", "slt", "sltu", "xor", "srl", "sra",
                               "or", "and"}
      /\ f = "B" <=> a.id \in BranchIds
      /\ f = "S" <=> a.id \in {"sb", "sh", "sw"}
      /\ f = "U" <=> a.id \in {"lui", "auipc"}
      /\ f = "J" <=> a.id = "jal"
  BY <1>1, Formats
<1>3. /\ a.id \notin {"sb", "sh", "sw", "fence", "ecall"} /\ a.id \notin BranchIds
      /\ f \notin {"S", "B"}
  BY <1>1, <1>2, SameOperators DEF ISA!HasRd, ISA!StoreIds
<1>4. inst.rd = a.rd
  BY <1>1, <1>3
<1> HIDE DEF f
<1>5. CASE a.id \in {"lui", "auipc", "jal", "jalr"}
  <2>1. ISA!Plus(pc, {2}) = Plus(pc, {2}) /\ ISA!Plus(pc, a.imm) = Plus(pc, a.imm)
    BY SameOperators
  <2>2. a.id \in {"lui", "auipc"} => inst.imm = a.imm /\ inst.npc = Plus(pc, a.imm)
    BY <1>1, <1>2
  <2>3. CASE a.id = "lui"
    <3>1. ISA!Value(a) = inst.imm
      BY <2>2, <2>3 DEF ISA!Value
    <3> QED BY <1>1, <1>4, <2>3, <3>1, WrittenBack
  <2>4. CASE a.id = "auipc"
    <3>1. ISA!Value(a) = inst.npc
      BY <2>1, <2>2, <2>4 DEF ISA!Value
    <3> QED BY <1>1, <1>4, <2>4, <3>1, WrittenBack
  <2>5. CASE a.id \in {"jal", "jalr"}
    <3>1. ISA!Value(a) = Plus(pc, {2})
      BY <2>1, <2>5 DEF ISA!Value
    <3> QED BY <1>1, <1>4, <2>5, <3>1, WrittenBack
  <2> QED BY <1>5, <2>3, <2>4, <2>5
<1>6. CASE a.id \in {"lb", "lh", "lw", "lbu", "lhu"}
  <2>1. ISA!Address(a) = addr /\ addr \in Word
    BY <1>6, AddressAgrees, WordOperators
  <2>2. ~ ISA!MisalignedAt(addr, ISA!Width(a.id))
    BY <1>6, <2>1 DEF Misaligned, ISA!LoadIds
  <2>3. PICK bs : bs = ISA!Gather(addr, ISA!Width(a.id))
    OBVIOUS
  <2>4. Load(a.id, mem, addr) = IF a.id \in {"lb", "lh", "lw"}
                                  THEN ISA!Extend(bs, 8 * ISA!Width(a.id)) ELSE bs
    BY <1>6, <2>1, <2>2, <2>3, LoadsAgree DEF TypeOK
  <2>5. ISA!Value(a) = Load(a.id, mem, addr)
    BY <1>6, <2>1, <2>3, <2>4 DEF ISA!Value
  <2>6. IsLoad(inst.id)
    BY <1>1, <1>6 DEF IsLoad
  <2> QED BY <1>1, <1>4, <2>5, <2>6, WrittenBack
<1>7. CASE a.id \in WithImmediate
  <2>1. a.id \in {"addi", "slli", "slti", "sltiu", "xori", "srli", "ori", "andi", "srai"}
    BY <1>7 DEF WithImmediate, Immediate
  <2>2. f \notin {"R", "U", "J", "B", "S"}
    BY <1>2, <2>1 DEF BranchIds
  <2>3. a.imm \in Word
    BY <1>1, <2>1, <2>2, OpcodeShape DEF Decoded, Legal, IsImm, f
  <2>4. Number(inst.imm) = Number(a.imm) /\ (a.id \notin Shifts => inst.imm = a.imm)
    BY <1>1, <2>2 DEF Shifts
  <2>5. Alu(a.id, reg[a.rs1], inst.imm) = ISA!Value(a)
    BY <1>1, <1>7, <2>2, <2>3, <2>4, AluAgrees DEF f
  <2> QED BY <1>1, <1>4, <1>7, <2>2, <2>5, WrittenBack
<1>8. CASE a.id \in WithRegisters
  <2>1. a.id \in {"add", "sub", "sll", "slt", "sltu", "xor", "srl", "sra", "or", "and"}
    BY <1>8 DEF WithRegisters, Registers
  <2>2. f = "R"
    BY <1>2, <2>1
  <2>3. Alu(a.id, reg[a.rs1], reg[a.rs2]) = ISA!Value(a)
    BY <1>1, <1>8, <2>2, AluAgrees DEF f
  <2> QED BY <1>1, <1>4, <1>8, <2>2, <2>3, WrittenBack
<1>9. \/ a.id \in {"lui", "auipc", "jal", "jalr"}
      \/ a.id \in {"lb", "lh", "lw", "lbu", "lhu"}
      \/ a.id \in WithImmediate \/ a.id \in WithRegisters
  BY <1>1, <1>3, Ids DEF WithImmediate, WithRegisters, Immediate, Registers, BranchIds
<1> QED BY <1>5, <1>6, <1>7, <1>8, <1>9

LEMMA NoResult ==
  ASSUME TypeOK, NEW a, NEW inst, Decoded(a, inst), ~ ISA!HasRd(a), NEW addr
  PROVE  Executed(inst, addr) = reg
<1>1. inst.id = a.id /\ a.id \in DOMAIN Opcodes
  BY DecodedOperands
<1>2. a.id \in {"sb", "sh", "sw", "fence", "ecall"} \cup BranchIds
  BY <1>1, Formats, SameOperators DEF ISA!HasRd, ISA!StoreIds
<1>3. ~ IsLoad(inst.id) /\ inst.id \notin WithImmediate \cup WithRegisters
  BY <1>1, <1>2 DEF IsLoad, BranchIds, WithImmediate, WithRegisters, Immediate, Registers
<1> QED BY <1>1, <1>2, <1>3 DEF Executed, BranchIds

(* The program counter goes on as the manual says.                          *)
LEMMA TargetAgrees ==
  ASSUME TypeOK, RegularJalr, NEW a, NEW inst, Decoded(a, inst), ~ Misaligned(a),
         NEW addr, addr = Plus(reg[inst.rs1], inst.imm)
  PROVE  NextPC(inst, Executed(inst, addr)) = ISA!Target(a)
<1> DEFINE f == Op(a.id)[1]
<1>1. /\ inst.id = a.id /\ a.id \in DOMAIN Opcodes
      /\ f \notin {"S", "B"} => inst.rd = a.rd
      /\ f \notin {"U", "J"} => inst.rs1 = a.rs1
      /\ f \in {"R", "S", "B"} => inst.rs2 = a.rs2
      /\ f # "R" /\ a.id # "srai" => inst.imm = a.imm /\ inst.npc = Plus(pc, a.imm)
      /\ reg[a.rs1] \in Word /\ reg[a.rs2] \in Word
  BY DecodedOperands
<1>2. /\ f = "R" <=> a.id \in {"add", "sub", "sll", "slt", "sltu", "xor", "srl", "sra",
                               "or", "and"}
      /\ f = "B" <=> a.id \in BranchIds
      /\ f = "U" <=> a.id \in {"lui", "auipc"}
      /\ f = "J" <=> a.id = "jal"
  BY <1>1, Formats
<1>3. /\ ISA!Plus(pc, {2}) = Plus(pc, {2}) /\ ISA!Plus(pc, a.imm) = Plus(pc, a.imm)
      /\ ISA!Op(a.id)[1] = f
      /\ \A x, y : ISA!Below(x, y) = Below(x, y)
  BY SameOperators
<1> HIDE DEF f
<1>4. CASE a.id = "jal"
  BY <1>1, <1>2, <1>3, <1>4 DEF NextPC, ISA!Target
<1>5. CASE a.id = "jalr"
  <2>1. f \notin {"R", "B", "U", "J"}
    BY <1>2, <1>5 DEF BranchIds
  <2>2. ISA!Address(a) = addr
    BY <1>5, AddressAgrees
  <2>3. inst.rd # inst.rs1 /\ 0 \notin addr
    BY <1>1, <1>5 DEF RegularJalr, Decoded
  <2>4. Executed(inst, addr)[inst.rs1] = reg[inst.rs1]
    <3>1. Executed(inst, addr) = [reg EXCEPT ![inst.rd] = Plus(pc, {2})]
      BY <1>1, <1>5, WrittenBack
    <3>2. inst.rs1 \in 0 .. 31 /\ reg \in [0 .. 31 -> Word]
      BY <1>1, <2>1 DEF Decoded, Legal, TypeOK
    <3> QED BY <2>3, <3>1, <3>2
  <2>5. NextPC(inst, Executed(inst, addr)) = addr
    <3>1. ~ IsBranch(inst.id)
      BY <1>1, <1>5 DEF IsBranch
    <3>2. PICK regs : regs = Executed(inst, addr)
      OBVIOUS
    <3>3. NextPC(inst, regs) = Plus(regs[inst.rs1], inst.imm)
      BY <1>1, <1>5, <3>1 DEF NextPC
    <3> QED BY <2>4, <3>2, <3>3
  <2>6. ISA!Target(a) = addr
    BY <1>3, <1>5, <2>1, <2>2, <2>3 DEF ISA!Target
  <2> QED BY <2>5, <2>6
<1>6. CASE a.id \in BranchIds
  <2>1. f = "B"
    BY <1>2, <1>6
  <2>2. PICK x, y : x = reg[a.rs1] /\ y = reg[a.rs2]
    OBVIOUS
  <2>3. SignedBelow(x, y) <=> \/ 31 \in x /\ 31 \notin y
                              \/ (31 \in x <=> 31 \in y) /\ Below(x, y)
    BY <1>1, <2>2, SignDecides
  <2>4. ~ Below(x, y) <=> x = y \/ Below(y, x)
    BY <1>1, <2>2, OneBelow
  <2>5. Taken(a.id, x, y) <=> ISA!Branches(a)
    BY <1>3, <1>6, <2>2, <2>3, <2>4
       DEF BranchIds, Taken, ISA!Branches, SignedLess, UnsignedLess
  <2>6. IsBranch(inst.id) /\ inst.rs1 = a.rs1 /\ inst.rs2 = a.rs2
        /\ inst.npc = Plus(pc, a.imm)
    BY <1>1, <1>6, <2>1 DEF IsBranch, BranchIds
  <2> QED BY <1>1, <1>3, <1>6, <2>1, <2>2, <2>5, <2>6 DEF NextPC, ISA!Target, BranchIds
<1>7. CASE a.id \notin {"jal", "jalr"} \cup BranchIds
  <2>1. ~ IsBranch(inst.id) /\ f # "B"
    BY <1>1, <1>2, <1>7 DEF IsBranch, BranchIds
  <2> QED BY <1>1, <1>3, <1>7, <2>1 DEF NextPC, ISA!Target
<1> QED BY <1>4, <1>5, <1>6, <1>7

--------------------------------------------------------------------------------
(* Stores.                                                                  *)
(* A byte of the word a store leaves: one of the data's where the mask has  *)
(* its lane, else what was there.                                           *)
MaskedStore(new, cell, w, L, n, mask) ==
  /\ cell \in Word /\ w \in Word
  /\ L \in 0 .. 3 /\ n \in {1, 2, 4} /\ L + n <= 4
  /\ mask = L .. L + n - 1
  /\ new = (cell \ Expand(mask)) \cup (Shl(w, 8 * L) \cap Expand(mask))

LEMMA StoredByte ==
  ASSUME NEW cell, NEW w, NEW L, NEW n, NEW mask, NEW new,
         MaskedStore(new, cell, w, L, n, mask), NEW lane \in 0 .. 3
  PROVE  /\ lane \in mask =>
              Field(new, 8 * lane, 8) = Place(w, 8 * (lane - L), 8 * (lane - L) + 7, 0)
         /\ lane \notin mask => Field(new, 8 * lane, 8) = Field(cell, 8 * lane, 8)
<1>0. /\ cell \in Word /\ w \in Word
      /\ L \in 0 .. 3 /\ n \in {1, 2, 4} /\ L + n <= 4
      /\ mask = L .. L + n - 1
      /\ new = (cell \ Expand(mask)) \cup (Shl(w, 8 * L) \cap Expand(mask))
  BY DEF MaskedStore
<1>1. \A i \in 8 * lane .. 8 * lane + 8 - 1 : i \in Bits /\ i \div 8 = lane
  BY DEF Bits
<1>2. \A i \in 8 * lane .. 8 * lane + 8 - 1 : i \in Expand(mask) <=> lane \in mask
  BY <1>1 DEF Expand
<1>3. \A i \in 8 * lane .. 8 * lane + 8 - 1 : i \in Shl(w, 8 * L) <=> i - 8 * L \in w
  <2>1. 8 * L \in Nat
    BY <1>0
  <2> QED BY <1>0, <1>1, <2>1, ShlBit
<1>4. ASSUME lane \notin mask PROVE Field(new, 8 * lane, 8) = Field(cell, 8 * lane, 8)
  <2>1. \A i \in 8 * lane .. 8 * lane + 8 - 1 : i \in new <=> i \in cell
    BY <1>0, <1>2, <1>4
  <2>2. new \cap (8 * lane .. 8 * lane + 8 - 1) = cell \cap (8 * lane .. 8 * lane + 8 - 1)
    BY <2>1
  <2> QED BY <2>2 DEF Field
<1>5. ASSUME lane \in mask
      PROVE  Field(new, 8 * lane, 8) = Place(w, 8 * (lane - L), 8 * (lane - L) + 7, 0)
  <2> DEFINE k == lane - L
  <2>1. k \in 0 .. 3 /\ 8 * lane = 8 * k + 8 * L
    BY <1>0, <1>5
  <2>2. \A i \in 8 * lane .. 8 * lane + 8 - 1 : i \in new <=> i - 8 * L \in w
    BY <1>0, <1>2, <1>3, <1>5
  <2>3. ASSUME NEW i PROVE i \in Field(new, 8 * lane, 8) <=> i \in 0 .. 7 /\ i + 8 * lane \in new
    <3>1. \A m \in new \cap (8 * lane .. 8 * lane + 8 - 1) : m - 8 * lane \in 0 .. 7 /\ (m - 8 * lane) + 8 * lane = m
      OBVIOUS
    <3>2. i \in 0 .. 7 => i + 8 * lane \in 8 * lane .. 8 * lane + 8 - 1 /\ (i + 8 * lane) - 8 * lane = i
      OBVIOUS
    <3> QED BY <3>1, <3>2 DEF Field
  <2>4. ASSUME NEW i PROVE i \in Place(w, 8 * k, 8 * k + 7, 0) <=> i \in 0 .. 7 /\ i + 8 * k \in w
    <3> HIDE DEF k
    <3>1. \A m \in w \cap (8 * k .. 8 * k + 7) : m - 8 * k + 0 \in 0 .. 7 /\ (m - 8 * k + 0) + 8 * k = m
      BY <2>1
    <3>2. i \in 0 .. 7 => i + 8 * k \in 8 * k .. 8 * k + 7 /\ (i + 8 * k) - 8 * k + 0 = i
      BY <2>1
    <3> QED BY <3>1, <3>2 DEF Place
  <2>5. \A i \in 0 .. 7 : /\ i + 8 * lane \in 8 * lane .. 8 * lane + 8 - 1
                          /\ (i + 8 * lane) - 8 * L = i + 8 * k
    BY <1>0, <2>1
  <2> QED BY <2>2, <2>3, <2>4, <2>5
<1> QED BY <1>4, <1>5

(* What the core asks the memory for, for an aligned store.                 *)
LEMMA StoreDriven ==
  ASSUME TypeOK, NEW inst, NEW addr, NEW n, NEW L, L = Number(Lane(addr)),
         inst.id \in {"sb", "sh", "sw"}, n = Size(inst.id), L % n = 0
  PROVE  /\ Request(inst, addr).d_we
         /\ Request(inst, addr).d_addr = Aligned(addr)
         /\ Request(inst, addr).d_wdata = Shl(reg[inst.rs2], 8 * L)
         /\ Request(inst, addr).d_wmask = L .. L + n - 1
<1>1. /\ inst.id = "sb" => n = 1
      /\ inst.id = "sh" => n = 2
      /\ inst.id = "sw" => n = 4
  BY DEF Size
<1>2. L = (IF 0 \in addr THEN 1 ELSE 0) + 2 * (IF 1 \in addr THEN 1 ELSE 0)
  BY LaneNumber DEF Bit
<1>3. inst.id = "sh" => Number(addr \cap {1}) = L
  <2>1. inst.id = "sh" => 0 \notin addr
    BY <1>1, <1>2
  <2>2. Number(addr \cap {1}) = 2 * (IF 1 \in addr THEN 1 ELSE 0)
    BY DEF Number, Bit
  <2> QED BY <1>2, <2>1, <2>2
<1>4. inst.id = "sw" => L = 0
  BY <1>1, <1>2
<1>5. PICK lane : lane = CASE inst.id = "sb" -> Number(Lane(addr))
                           [] inst.id = "sh" -> Number(addr \cap {1})
                           [] inst.id = "sw" -> 0
  OBVIOUS
<1>6. lane = L
  BY <1>3, <1>4, <1>5
<1>7. StoreRequest(inst, addr)
        = [d_we |-> TRUE, d_addr |-> Aligned(addr), d_wdata |-> Shl(reg[inst.rs2], 8 * lane),
           d_wmask |-> lane .. lane + Size(inst.id) - 1]
  BY <1>5 DEF StoreRequest
<1>8. Request(inst, addr) = StoreRequest(inst, addr)
  <2>1. IsStore(inst.id) /\ ~ IsLoad(inst.id)
    BY DEF IsStore, IsLoad
  <2> QED BY <2>1 DEF Request
<1> QED BY <1>6, <1>7, <1>8

(* A byte's address is its word and its lane.                               *)
LEMMA SameLane ==
  ASSUME NEW x \in SUBSET (CellBits \cup {0, 1}), NEW y \in SUBSET (CellBits \cup {0, 1}),
         x \cap CellBits = y \cap CellBits, Number(Lane(x)) = Number(Lane(y))
  PROVE  x = y
<1>1. /\ Number(Lane(x)) = (IF 0 \in x THEN 1 ELSE 0) + 2 * (IF 1 \in x THEN 1 ELSE 0)
      /\ Number(Lane(y)) = (IF 0 \in y THEN 1 ELSE 0) + 2 * (IF 1 \in y THEN 1 ELSE 0)
  BY LaneNumber DEF Bit
<1>2. (0 \in x <=> 0 \in y) /\ (1 \in x <=> 1 \in y)
  <2>1. (IF 0 \in x THEN 1 ELSE 0) + 2 * (IF 1 \in x THEN 1 ELSE 0)
          = (IF 0 \in y THEN 1 ELSE 0) + 2 * (IF 1 \in y THEN 1 ELSE 0)
    BY <1>1
  <2> QED BY <2>1
<1> QED BY <1>2

(* A store changes just the bytes addressed.                                *)
BytesOf(m) ==
  [b \in SUBSET (CellBits \cup {0, 1}) |-> Field(m[b \cap CellBits], 8 * Number(Lane(b)), 8)]

LEMMA StoresAgree ==
  ASSUME TypeOK, NEW a, NEW inst, Decoded(a, inst), ~ Misaligned(a),
         a.id \in {"sb", "sh", "sw"},
         NEW addr, addr = Plus(reg[inst.rs1], inst.imm),
         NEW req, req = Request(inst, addr)
  PROVE  BytesOf(Write(mem, req.d_addr, req.d_wdata, req.d_wmask)) = ISA!Stored(a)
<1> DEFINE n == ISA!Width(a.id)
           L == Number(Lane(addr))
           cell == mem[addr \cap CellBits]
           mask == L .. L + n - 1
           w == reg[a.rs2]
           at(j) == ISA!At(addr, j)
           Address == SUBSET (CellBits \cup {0, 1})
<1>1. /\ inst.id = a.id /\ inst.rs2 = a.rs2 /\ w \in Word
  BY DecodedOperands, Formats
<1>2. /\ n \in {1, 2, 4} /\ n = Size(a.id)
  BY DEF ISA!Width, Size
<1>3. ISA!Address(a) = addr /\ addr \in Word
  BY AddressAgrees, WordOperators
<1>4. L % n = 0
  BY <1>3, SameOperators DEF Misaligned, ISA!StoreIds, ISA!MisalignedAt, Lane
<1>5. L \in 0 .. 3 /\ L + n <= 4
  <2>1. L \in 0 .. 3
    BY LaneRange
  <2> HIDE DEF n, L
  <2>2. (n = 2 => L % 2 = 0) /\ (n = 4 => L % 4 = 0)
    BY <1>4
  <2> QED BY <1>2, <2>1, <2>2
<1>6. /\ req.d_addr = Aligned(addr) /\ req.d_wdata = Shl(w, 8 * L) /\ req.d_wmask = mask
  BY <1>1, <1>2, <1>4, StoreDriven
<1>7. cell \in Word /\ addr \cap CellBits \in Cells
  BY DEF TypeOK, Image, Cells
<1>8. Aligned(addr) \cap CellBits = addr \cap CellBits
  BY CoreAssumption DEF Aligned
<1>9. PICK new : new = (cell \ Expand(mask)) \cup (Shl(w, 8 * L) \cap Expand(mask))
  OBVIOUS
<1>10. PICK m : m = Write(mem, req.d_addr, req.d_wdata, req.d_wmask)
  OBVIOUS
<1>11. m = [mem EXCEPT ![addr \cap CellBits] = new]
  BY <1>6, <1>8, <1>9, <1>10 DEF Write
<1>12. \A j \in 0 .. n - 1 : /\ at(j) \in Address
                             /\ at(j) \cap CellBits = addr \cap CellBits
                             /\ Number(Lane(at(j))) = L + j
  BY <1>2, <1>3, <1>4, ByteAddress
<1>13. ISA!Stored(a) = [b \in Address |->
         IF \E j \in 0 .. n - 1 : at(j) = b
           THEN Place(w, 8 * (CHOOSE j \in 0 .. n - 1 : at(j) = b),
                      8 * (CHOOSE j \in 0 .. n - 1 : at(j) = b) + 7, 0)
           ELSE BytesOf(mem)[b]]
  BY <1>3, SameOperators DEF ISA!Stored, BytesOf
<1> HIDE DEF at, Address
<1>14. ASSUME NEW b \in Address
       PROVE  BytesOf(m)[b] = ISA!Stored(a)[b]
  <2>1. PICK lane : lane = Number(Lane(b))
    OBVIOUS
  <2>2. lane \in 0 .. 3
    BY <2>1, LaneRange
  <2>3. BytesOf(m)[b] = Field(m[b \cap CellBits], 8 * lane, 8)
        /\ BytesOf(mem)[b] = Field(mem[b \cap CellBits], 8 * lane, 8)
    BY <2>1 DEF BytesOf, Address
  <2>4. CASE b \cap CellBits # addr \cap CellBits
    <3>1. m[b \cap CellBits] = mem[b \cap CellBits]
      BY <1>7, <1>11, <2>4 DEF TypeOK, Image, Cells
    <3>2. ~ \E j \in 0 .. n - 1 : at(j) = b
      BY <1>12, <2>4
    <3>3. ISA!Stored(a)[b] = BytesOf(mem)[b]
      BY <1>13, <3>2
    <3> QED BY <2>3, <3>1, <3>3
  <2>5. CASE b \cap CellBits = addr \cap CellBits
    <3>1. m[b \cap CellBits] = new /\ mem[b \cap CellBits] = cell
      BY <1>7, <1>11, <2>5 DEF TypeOK, Image
    <3>2. /\ lane \in mask =>
               Field(new, 8 * lane, 8) = Place(w, 8 * (lane - L), 8 * (lane - L) + 7, 0)
          /\ lane \notin mask => Field(new, 8 * lane, 8) = Field(cell, 8 * lane, 8)
      <4>1. MaskedStore(new, cell, w, L, n, mask)
        BY <1>1, <1>2, <1>5, <1>7, <1>9 DEF MaskedStore
      <4> HIDE DEF n, L, cell, w, mask
      <4> QED BY <2>2, <4>1, StoredByte
    <3>3. ASSUME NEW j \in 0 .. n - 1 PROVE at(j) = b <=> j = lane - L
      <4>1. at(j) = b => L + j = lane
        BY <1>12, <2>1
      <4>2. L + j = lane => Number(Lane(at(j))) = Number(Lane(b))
        BY <1>12, <2>1
      <4>3. Number(Lane(at(j))) = Number(Lane(b)) => at(j) = b
        BY <1>12, <2>5, SameLane DEF Address
      <4> HIDE DEF n, L
      <4> QED BY <1>2, <1>5, <2>2, <4>1, <4>2, <4>3
    <3>4. CASE lane \in mask
      <4> HIDE DEF n, L, w, cell
      <4>1. lane - L \in 0 .. n - 1
        BY <1>2, <1>5, <2>2, <3>4
      <4>2. at(lane - L) = b
        BY <3>3, <4>1
      <4>3. (CHOOSE j \in 0 .. n - 1 : at(j) = b) = lane - L
        BY <3>3, <4>1
      <4>4. ISA!Stored(a)[b] = Place(w, 8 * (lane - L), 8 * (lane - L) + 7, 0)
        BY <1>13, <4>1, <4>2, <4>3
      <4> QED BY <2>3, <3>1, <3>2, <3>4, <4>4
    <3>5. CASE lane \notin mask
      <4> HIDE DEF n, L, w, cell
      <4>1. ~ \E j \in 0 .. n - 1 : at(j) = b
        BY <1>2, <1>5, <2>2, <3>3, <3>5
      <4>2. ISA!Stored(a)[b] = BytesOf(mem)[b]
        BY <1>13, <4>1
      <4> QED BY <2>3, <3>1, <3>2, <3>5, <4>2
    <3> QED BY <3>4, <3>5
  <2> QED BY <2>4, <2>5
<1>15. BytesOf(m) = [b \in Address |-> BytesOf(m)[b]]
  BY DEF BytesOf, Address
<1>16. ISA!Stored(a) = [b \in Address |-> ISA!Stored(a)[b]]
  BY <1>13
<1> QED BY <1>10, <1>14, <1>15, <1>16

--------------------------------------------------------------------------------
(* The core implements the manual.                                          *)
(* An instruction that is listed and fetched from an aligned address.       *)
LEMMA ExecuteImplements ==
  ASSUME TypeOK, RegularJalr, Execute, NEW a \in ISA!Current,
         ~ ISA!MisalignedAt(pc, 4), ~ Misaligned(a)
  PROVE  ISA!Instruction(a)
<1> DEFINE inst == Decode(pc, Fetch(mem, pc))
           addr == Plus(reg[inst.rs1], inst.imm)
           regs == Executed(inst, addr)
           req == Request(inst, addr)
<1>1. Decoded(a, inst)
  <2>1. ISA!Fetched = Fetch(mem, pc)
    BY WordFetched
  <2>2. ISA!Encode(a) = ISA!Fetched /\ \E w \in DOMAIN Listing : a = Listing[w]
    BY DEF ISA!Current
  <2>3. Legal(a)
    BY <2>2, ListingAssumption, SameLegal
  <2> QED BY <2>1, <2>2, <2>3, SameEncoding DEF Decoded
<1>2. /\ pc' = NextPC(inst, regs)
      /\ reg' = Cleared(regs)
      /\ memif' = req
      /\ mem' = IF memif'.d_we THEN Write(mem, memif'.d_addr, memif'.d_wdata, memif'.d_wmask)
                ELSE mem
  BY DEF Execute
<1>3. /\ reg \in [0 .. 31 -> Word] /\ reg[0] = {} /\ a.rd \in 0 .. 31
  BY <1>1, DecodedOperands DEF TypeOK
<1> HIDE DEF inst, addr, regs, req
<1>4. pc' = ISA!Target(a)
  BY <1>1, <1>2, TargetAgrees DEF addr, regs
<1>5. reg' = IF ISA!HasRd(a) /\ a.rd # 0 THEN [reg EXCEPT ![a.rd] = ISA!Value(a)] ELSE reg
  <2>1. reg' = [regs EXCEPT ![0] = {}]
    BY <1>2 DEF Cleared
  <2>2. ISA!HasRd(a) \in BOOLEAN
    BY DEF ISA!HasRd
  <2>3. CASE ISA!HasRd(a)
    <3>1. regs = [reg EXCEPT ![a.rd] = ISA!Value(a)]
      BY <1>1, <2>3, ResultAgrees DEF addr, regs
    <3>2. CASE a.rd = 0
      BY <1>3, <2>1, <3>1, <3>2
    <3>3. CASE a.rd # 0
      BY <1>3, <2>1, <2>3, <3>1, <3>3
    <3> QED BY <3>2, <3>3
  <2>4. CASE ~ ISA!HasRd(a)
    <3>1. regs = reg
      BY <1>1, <2>4, NoResult DEF regs
    <3> QED BY <1>3, <2>1, <2>4, <3>1
  <2> QED BY <2>2, <2>3, <2>4
<1>6. BytesOf(mem') = IF a.id \in ISA!StoreIds THEN ISA!Stored(a) ELSE BytesOf(mem)
  <2>1. inst.id = a.id
    BY <1>1, DecodedOperands
  <2>2. CASE a.id \in ISA!StoreIds
    <3>1. req.d_we
      <4>1. IsStore(inst.id) /\ ~ IsLoad(inst.id)
        BY <2>1, <2>2 DEF IsStore, IsLoad, ISA!StoreIds
      <4>2. req = StoreRequest(inst, addr)
        BY <4>1 DEF req, Request
      <4> QED BY <4>2 DEF StoreRequest
    <3>2. mem' = Write(mem, req.d_addr, req.d_wdata, req.d_wmask)
      BY <1>2, <3>1
    <3>3. BytesOf(Write(mem, req.d_addr, req.d_wdata, req.d_wmask)) = ISA!Stored(a)
      BY <1>1, <2>2, StoresAgree DEF addr, req, ISA!StoreIds
    <3> QED BY <2>2, <3>2, <3>3
  <2>3. CASE a.id \notin ISA!StoreIds
    <3>1. ~ IsStore(inst.id)
      BY <2>1, <2>3 DEF IsStore, ISA!StoreIds
    <3>2. req.d_we = FALSE
      <4>1. memif \in MemIF
        BY DEF TypeOK
      <4> QED BY <3>1, <4>1 DEF req, Request, MemIF
    <3> QED BY <1>2, <2>3, <3>2
  <2> QED BY <2>2, <2>3
<1> QED BY <1>4, <1>5, <1>6 DEF ISA!Instruction, BytesOf

(* Words that RV32I has are known to the core.                              *)
LEMMA ListedIsKnown ==
  ASSUME TypeOK, NEW a \in ISA!Current, ~ ISA!MisalignedAt(pc, 4)
  PROVE  InstrId(Fetch(mem, pc)) # "???"
<1>1. ISA!Fetched = Fetch(mem, pc)
  BY WordFetched
<1>2. ISA!Encode(a) = ISA!Fetched /\ \E w \in DOMAIN Listing : a = Listing[w]
  BY DEF ISA!Current
<1>3. Legal(a)
  BY <1>2, ListingAssumption, SameLegal
<1>4. InstrId(Fetch(mem, pc)) = a.id
  BY <1>1, <1>2, <1>3, SameEncoding, InstructionDecoded
<1> QED BY <1>3, <1>4, Ids DEF Legal

LEMMA StepImplements ==
  TypeOK /\ RegularJalr /\ [Next]_vars => [ISA!Next]_(ISA!vars)
<1> SUFFICES ASSUME TypeOK, RegularJalr, [Next]_vars PROVE [ISA!Next]_(ISA!vars)
  OBVIOUS
<1>1. CASE ISA!Unspecified
  BY <1>1 DEF ISA!Next
<1>2. CASE ~ ISA!Unspecified /\ Execute
  <2>1. PICK a \in ISA!Current : TRUE
    BY <1>2 DEF ISA!Unspecified
  <2>2. ~ ISA!MisalignedAt(pc, 4) /\ ~ Misaligned(a)
    BY <1>2 DEF ISA!Unspecified, Misaligned
  <2>3. ISA!Instruction(a)
    BY <1>2, <2>2, ExecuteImplements
  <2> QED BY <2>3 DEF ISA!Next
<1>3. CASE ~ ISA!Unspecified /\ Unknown
  <2>1. PICK a \in ISA!Current : TRUE
    BY <1>3 DEF ISA!Unspecified
  <2>2. ~ ISA!MisalignedAt(pc, 4)
    BY <1>3 DEF ISA!Unspecified
  <2> QED BY <1>3, <2>2, ListedIsKnown DEF Unknown
<1>4. CASE UNCHANGED vars
  BY <1>4 DEF vars, ISA!vars
<1>5. ISA!Unspecified \in BOOLEAN
  BY DEF ISA!Unspecified
<1> QED BY <1>1, <1>2, <1>3, <1>4, <1>5 DEF Next

(* For every program, memory size and entry, and whichever instructions are *)
(* considered: the functional core, which works on registers in place and   *)
(* on words under masks, is the manual's machine of registers and bytes, as *)
(* long as a jalr does not link into its own base register.                 *)
THEOREM CoreIsRV32I == Spec /\ []RegularJalr => ImplementsISA
<1>1. Init => ISA!Init
  BY DEF Init, ISA!Init
<1>2. Spec => []TypeOK
  BY TypeCorrect
<1> QED BY <1>1, <1>2, StepImplements, PTL DEF Spec, ImplementsISA, ISA!Spec

--------------------------------------------------------------------------------
(* The log line.                                                            *)
(* Overlaying the same lanes again changes nothing.                         *)
LEMMA StoreLogged ==
  ASSUME TypeOK, NEW req, NEW m, m = Write(mem, req.d_addr, req.d_wdata, req.d_wmask)
  PROVE  (Read4(m, req.d_addr) \ Expand(req.d_wmask)) \cup (req.d_wdata \cap Expand(req.d_wmask))
           = Read4(m, req.d_addr)
<1>1. req.d_addr \cap CellBits \in Cells /\ mem \in [Cells -> Word]
  BY DEF Cells, TypeOK, Image
<1>2. Read4(m, req.d_addr) = (mem[req.d_addr \cap CellBits] \ Expand(req.d_wmask))
                               \cup (req.d_wdata \cap Expand(req.d_wmask))
  BY <1>1 DEF Write, Read4
<1> QED BY <1>2

(* The lane reported selects the bytes that were loaded.                    *)
LEMMA LoadLogged ==
  ASSUME TypeOK, NEW inst, NEW addr \in Word, IsLoad(inst.id),
         inst.id \in {"lh", "lhu"} => 0 \notin addr,
         NEW data, data = Field(Read4(mem, Aligned(addr)), 8 * Number(ByteLane(inst, addr)),
                                8 * Size(inst.id))
  PROVE  Load(inst.id, mem, addr)
           = IF inst.id \in {"lb", "lh"} THEN Sext(data, 8 * Size(inst.id)) ELSE data
<1>1. Read4(mem, Aligned(addr)) = Read4(mem, addr)
  <2>1. 0 \notin CellBits /\ 1 \notin CellBits
    BY CoreAssumption
  <2>2. Aligned(addr) \cap CellBits = addr \cap CellBits
    BY <2>1 DEF Aligned
  <2> QED BY <2>2 DEF Read4
<1>2. PICK cell : cell = Read4(mem, addr)
  OBVIOUS
<1>3. cell \in Word
  BY <1>2, ReadType DEF TypeOK
<1>4. CASE inst.id \in {"lb", "lbu"}
  <2>1. ByteLane(inst, addr) = Lane(addr) /\ Size(inst.id) = 1
    BY <1>4 DEF ByteLane, Size
  <2>2. data = Read1(mem, addr)
    BY <1>1, <2>1 DEF Read1
  <2> QED BY <1>4, <2>1, <2>2 DEF Load
<1>5. CASE inst.id \in {"lh", "lhu"}
  <2>1. ByteLane(inst, addr) = addr \cap {1} /\ Size(inst.id) = 2
    BY <1>5 DEF ByteLane, Size
  <2>2. addr \cap {1} = Lane(addr)
    BY <1>5 DEF Lane
  <2>3. Number(Lane(addr)) % 2 = 0
    <3>1. Number(Lane(addr)) = (IF 0 \in addr THEN 1 ELSE 0) + 2 * (IF 1 \in addr THEN 1 ELSE 0)
      BY LaneNumber DEF Bit
    <3> QED BY <1>5, <3>1
  <2>4. data = Read2(mem, addr)
    <3>1. Read2(mem, addr) = Field(Read4(mem, addr), 8 * Number(Lane(addr)), 16)
      BY <2>3, HalfwordRead DEF TypeOK
    <3> QED BY <1>1, <2>1, <2>2, <3>1
  <2> QED BY <1>5, <2>1, <2>4 DEF Load
<1>6. CASE inst.id = "lw"
  <2>1. ByteLane(inst, addr) = {} /\ Size(inst.id) = 4
    BY <1>6 DEF ByteLane, Size
  <2>2. Number({}) = 0
    BY DEF Number, Bit
  <2>3. data = cell
    BY <1>1, <1>2, <1>3, <2>1, <2>2, WholeField
  <2> QED BY <1>1, <1>2, <1>6, <2>1, <2>3 DEF Load
<1> QED BY <1>4, <1>5, <1>6 DEF IsLoad

(* A store at a multiple of its size leaves its data there.                 *)
LEMMA StoredField ==
  ASSUME NEW cell, NEW w, NEW L, NEW n, NEW mask, NEW new,
         MaskedStore(new, cell, w, L, n, mask)
  PROVE  Field(new, 8 * L, 8 * n) = Field(w, 0, 8 * n)
<1>1. /\ cell \in Word /\ w \in Word
      /\ L \in 0 .. 3 /\ n \in {1, 2, 4} /\ L + n <= 4
      /\ mask = L .. L + n - 1
      /\ new = (cell \ Expand(mask)) \cup (Shl(w, 8 * L) \cap Expand(mask))
  BY DEF MaskedStore
<1>2. \A i \in 8 * L .. 8 * L + 8 * n - 1 : i \in Bits /\ i \div 8 \in L .. L + n - 1
  BY <1>1 DEF Bits
<1>3. \A i \in 8 * L .. 8 * L + 8 * n - 1 : i \in Expand(mask)
  BY <1>1, <1>2 DEF Expand
<1>4. 8 * L \in Nat
  BY <1>1
<1>5. \A i \in 8 * L .. 8 * L + 8 * n - 1 : i \in new <=> i - 8 * L \in w
  BY <1>1, <1>2, <1>3, <1>4, ShlBit
<1>6. ASSUME NEW i
      PROVE  i \in Field(new, 8 * L, 8 * n) <=> i \in 0 .. 8 * n - 1 /\ i + 8 * L \in new
  <2>1. \A m \in new \cap (8 * L .. 8 * L + 8 * n - 1) :
          m - 8 * L \in 0 .. 8 * n - 1 /\ (m - 8 * L) + 8 * L = m
    BY <1>1
  <2>2. i \in 0 .. 8 * n - 1 => /\ i + 8 * L \in 8 * L .. 8 * L + 8 * n - 1
                                /\ (i + 8 * L) - 8 * L = i
    BY <1>1
  <2> QED BY <2>1, <2>2 DEF Field
<1>7. ASSUME NEW i
      PROVE  i \in Field(w, 0, 8 * n) <=> i \in 0 .. 8 * n - 1 /\ i \in w
  <2>1. \A m \in w \cap (0 .. 0 + 8 * n - 1) : m - 0 = m /\ m \in 0 .. 8 * n - 1
    BY <1>1
  <2>2. i \in 0 .. 8 * n - 1 => i \in 0 .. 0 + 8 * n - 1 /\ i - 0 = i
    BY <1>1
  <2> QED BY <2>1, <2>2 DEF Field
<1>8. \A i \in 0 .. 8 * n - 1 : /\ i + 8 * L \in 8 * L .. 8 * L + 8 * n - 1
                                /\ (i + 8 * L) - 8 * L = i
  BY <1>1
<1> QED BY <1>5, <1>6, <1>7, <1>8

LEMMA ExecuteShown == TypeOK /\ Execute => AccessShown
<1> SUFFICES ASSUME TypeOK, Execute PROVE AccessShown
  OBVIOUS
<1> DEFINE inst == Decode(pc, Fetch(mem, pc))
           addr == Plus(reg[inst.rs1], inst.imm)
           regs == Executed(inst, addr)
           req == Request(inst, addr)
<1>1. /\ memif' = req
      /\ instif' = [valid |-> TRUE, pc |-> pc, ir |-> Fetch(mem, pc), result |-> regs[inst.rd],
                    d_addr |-> memif'.d_addr, d_baddr |-> ByteLane(inst, addr),
                    d_wdata |-> memif'.d_wdata, d_wmask |-> memif'.d_wmask]
      /\ mem' = IF memif'.d_we THEN Write(mem, memif'.d_addr, memif'.d_wdata, memif'.d_wmask)
                ELSE mem
  BY DEF Execute
<1>2. inst.id = InstrId(Fetch(mem, pc))
  BY DEF Decode
<1>3. inst.rd \in 0 .. 31 /\ reg \in [0 .. 31 -> Word] /\ addr \in Word /\ memif \in MemIF
  BY OperandTypes, WordOperators DEF TypeOK
<1>4. SUFFICES /\ IsLoad(inst.id) => LoadShown(inst, addr)
               /\ IsStore(inst.id) => StoreShown(inst, addr)
  BY <1>1 DEF AccessShown
<1> HIDE DEF inst, addr, regs, req
<1>5. ASSUME IsLoad(inst.id) PROVE LoadShown(inst, addr)
  <2>0. SUFFICES ASSUME inst.id \in {"lh", "lhu"} => 0 \notin addr
                 PROVE  LoggedLoad(instif)' = instif'.result
    BY DEF LoadShown
  <2>1. ~ IsStore(inst.id)
    BY <1>5 DEF IsLoad, IsStore
  <2>2. req = [[memif EXCEPT !.d_we = FALSE] EXCEPT !.d_addr = Aligned(addr)]
    BY <1>5, <2>1 DEF req, Request
  <2>3. req.d_we = FALSE /\ req.d_addr = Aligned(addr)
    BY <1>3, <2>2 DEF MemIF
  <2>4. mem' = mem /\ instif'.d_addr = Aligned(addr) /\ instif'.d_baddr = ByteLane(inst, addr)
        /\ instif'.ir = Fetch(mem, pc) /\ instif'.result = regs[inst.rd]
    BY <1>1, <2>3
  <2>5. regs[inst.rd] = Load(inst.id, mem, addr)
    <3>1. regs = [reg EXCEPT ![inst.rd] = Load(inst.id, mem, addr)]
      BY <1>5, WrittenBack DEF regs
    <3> QED BY <1>3, <3>1
  <2>6. PICK data : data = Field(Read4(mem, Aligned(addr)), 8 * Number(ByteLane(inst, addr)),
                                 8 * Size(inst.id))
    OBVIOUS
  <2>7. LoggedLoad(instif)' = IF inst.id \in {"lb", "lh"} THEN Sext(data, 8 * Size(inst.id))
                              ELSE data
    BY <1>2, <2>4, <2>6 DEF LoggedLoad, Read4
  <2>8. Load(inst.id, mem, addr) = IF inst.id \in {"lb", "lh"}
                                     THEN Sext(data, 8 * Size(inst.id)) ELSE data
    BY <1>3, <1>5, <2>0, <2>6, LoadLogged
  <2> QED BY <2>4, <2>5, <2>7, <2>8
<1>6. ASSUME IsStore(inst.id) PROVE StoreShown(inst, addr)
  <2>1. req = StoreRequest(inst, addr)
    <3>1. ~ IsLoad(inst.id)
      BY <1>6 DEF IsStore, IsLoad
    <3> QED BY <1>6, <3>1 DEF req, Request
  <2>2. req.d_we /\ req.d_addr = Aligned(addr)
    BY <2>1 DEF StoreRequest
  <2>3. mem' = Write(mem, req.d_addr, req.d_wdata, req.d_wmask)
    BY <1>1, <2>2
  <2>4. /\ instif'.d_addr = req.d_addr /\ instif'.d_wdata = req.d_wdata
        /\ instif'.d_wmask = req.d_wmask
    BY <1>1
  <2>5. LoggedStore(instif)' = (Read4(mem', req.d_addr) \ Expand(req.d_wmask))
                                 \cup (req.d_wdata \cap Expand(req.d_wmask))
    BY <2>4 DEF LoggedStore, Read4
  <2>6. LoggedStore(instif)' = Read4(mem', Aligned(addr))
    BY <2>2, <2>3, <2>5, StoreLogged
  <2>7. ASSUME Number(Lane(addr)) % Size(inst.id) = 0
        PROVE  Field(Read4(mem', Aligned(addr)), 8 * Number(Lane(addr)), 8 * Size(inst.id))
                 = Field(reg[inst.rs2], 0, 8 * Size(inst.id))
    <3>1. PICK L, n : L = Number(Lane(addr)) /\ n = Size(inst.id)
      OBVIOUS
    <3>2. inst.id \in {"sb", "sh", "sw"}
      BY <1>6 DEF IsStore
    <3>3. /\ req.d_wdata = Shl(reg[inst.rs2], 8 * L)
          /\ req.d_wmask = L .. L + n - 1
      BY <2>7, <3>1, <3>2, StoreDriven DEF req
    <3>4. PICK cell : cell = mem[Aligned(addr) \cap CellBits]
      OBVIOUS
    <3>5. cell \in Word /\ reg[inst.rs2] \in Word
      <4>1. reg[inst.rs2] \in Word
        BY OperandTypes DEF inst
      <4>2. Aligned(addr) \cap CellBits \in Cells /\ mem \in [Cells -> Word]
        BY DEF Cells, TypeOK, Image
      <4> QED BY <3>4, <4>1, <4>2
    <3>6. Read4(mem', Aligned(addr)) = (cell \ Expand(req.d_wmask))
                                        \cup (req.d_wdata \cap Expand(req.d_wmask))
      <4>1. Aligned(addr) \cap CellBits \in Cells /\ mem \in [Cells -> Word]
        BY DEF Cells, TypeOK, Image
      <4> QED BY <2>2, <2>3, <3>4, <4>1 DEF Write, Read4
    <3>7. L \in 0 .. 3 /\ n \in {1, 2, 4} /\ L + n <= 4
      <4>1. L \in 0 .. 3
        BY <3>1, LaneRange
      <4>2. n \in {1, 2, 4}
        BY <3>1, <3>2 DEF Size
      <4>3. L % n = 0
        BY <2>7, <3>1
      <4> QED BY <4>1, <4>2, <4>3
    <3>8. MaskedStore(Read4(mem', Aligned(addr)), cell, reg[inst.rs2], L, n, req.d_wmask)
      BY <3>3, <3>5, <3>6, <3>7 DEF MaskedStore
    <3> QED BY <3>1, <3>8, StoredField
  <2> QED BY <2>6, <2>7 DEF StoreShown
<1> QED BY <1>5, <1>6

LEMMA UnknownShowsNothing == TypeOK /\ Unknown => AccessShown
  BY DEF TypeOK, InstIF, Unknown, AccessShown

(* Every step of the core.                                                  *)
THEOREM LogLinesAreTrue == Spec => LogShowsAccess
<1>1. TypeOK /\ [Next]_vars => [AccessShown]_vars
  BY ExecuteShown, UnknownShowsNothing DEF Next
<1>2. Spec => []TypeOK
  BY TypeCorrect
<1> QED BY <1>1, <1>2, PTL DEF Spec, LogShowsAccess, AccessShown

--------------------------------------------------------------------------------
(* Words as numbers.  Digit by digit a sum is the two digits and the carry;  *)
(* eight digits make an octet, four octets a word.                           *)
TwoTo32 == 65536 * 65536

LEMMA Positive == TwoTo32 \in Nat /\ TwoTo32 = 256 * 16777216
  BY DEF TwoTo32

LEMMA BitRange == ASSUME NEW w, NEW i PROVE Bit(w, i) \in {0, 1} /\ (Bit(w, i) = 1 <=> i \in w)
  BY DEF Bit

LEMMA OctetRange == ASSUME NEW w, NEW k \in Nat PROVE Octet(w, k) \in Nat /\ Octet(w, k) < 256
<1> DEFINE b(n) == Bit(w, k + n)
<1>1. /\ Bit(w, k) \in 0 .. 1 /\ b(1) \in 0 .. 1 /\ b(2) \in 0 .. 1 /\ b(3) \in 0 .. 1
      /\ b(4) \in 0 .. 1 /\ b(5) \in 0 .. 1 /\ b(6) \in 0 .. 1 /\ b(7) \in 0 .. 1
  BY DEF Bit
<1>2. Octet(w, k) = Bit(w, k) + 2 * b(1) + 4 * b(2) + 8 * b(3)
                      + 16 * b(4) + 32 * b(5) + 64 * b(6) + 128 * b(7)
  BY DEF Octet
<1> HIDE DEF b
<1> QED BY <1>1, <1>2

LEMMA NumberOfWord == ASSUME NEW w PROVE Uint32(w) \in Nat /\ Uint32(w) < TwoTo32
<1> DEFINE o(k) == Octet(w, k)
<1>1. /\ o(0) \in Nat /\ o(8) \in Nat /\ o(16) \in Nat /\ o(24) \in Nat
      /\ o(0) < 256 /\ o(8) < 256 /\ o(16) < 256 /\ o(24) < 256
  BY OctetRange
<1>2. Uint32(w) = o(0) + 256 * o(8) + 65536 * o(16) + 16777216 * o(24)
  BY DEF Uint32
<1> HIDE DEF o
<1>3. Uint32(w) \in Nat /\ Uint32(w) < 256 * 16777216
  BY <1>1, <1>2
<1> QED BY <1>3, Positive

(* The digits of a, b and a result s, with what is carried from each to the next. *)
Sums(a, b, s, c) ==
  /\ \A i \in 0 .. 32 : c[i] \in {0, 1}
  /\ \A i \in 0 .. 31 : Bit(a, i) + Bit(b, i) + c[i] = Bit(s, i) + 2 * c[i + 1]

LEMMA OctetSum ==
  ASSUME NEW a, NEW b, NEW s, NEW c, Sums(a, b, s, c), NEW k \in {0, 8, 16, 24}
  PROVE  Octet(a, k) + Octet(b, k) + c[k] = Octet(s, k) + 256 * c[k + 8]
<1>1. \A n \in 0 .. 7 : k + n \in 0 .. 31 /\ (k + n) + 1 = k + (n + 1)
  OBVIOUS
<1>2. \A n \in 0 .. 7 : Bit(a, k + n) + Bit(b, k + n) + c[k + n] = Bit(s, k + n) + 2 * c[k + (n + 1)]
  BY <1>1 DEF Sums
<1>3. \A n \in 0 .. 8 : c[k + n] \in Int
  <2>1. \A n \in 0 .. 8 : k + n \in 0 .. 32
    OBVIOUS
  <2> QED BY <2>1 DEF Sums
<1> DEFINE A(n) == Bit(a, k + n)
           B(n) == Bit(b, k + n)
           S(n) == Bit(s, k + n)
           C(n) == c[k + n]
<1>4. \A n \in 0 .. 7 : A(n) \in Int /\ B(n) \in Int /\ S(n) \in Int
  BY DEF Bit
<1>5. \A n \in 0 .. 7 : A(n) + B(n) + C(n) = S(n) + 2 * C(n + 1)
  BY <1>2
<1>6. \A n \in 0 .. 8 : C(n) \in Int
  BY <1>3
<1>7. \A w : Octet(w, k) = Bit(w, k + 0) + 2 * Bit(w, k + 1) + 4 * Bit(w, k + 2) + 8 * Bit(w, k + 3)
        + 16 * Bit(w, k + 4) + 32 * Bit(w, k + 5) + 64 * Bit(w, k + 6) + 128 * Bit(w, k + 7)
  BY DEF Octet
<1>8. /\ Octet(a, k) = A(0) + 2 * A(1) + 4 * A(2) + 8 * A(3) + 16 * A(4) + 32 * A(5) + 64 * A(6) + 128 * A(7)
      /\ Octet(b, k) = B(0) + 2 * B(1) + 4 * B(2) + 8 * B(3) + 16 * B(4) + 32 * B(5) + 64 * B(6) + 128 * B(7)
      /\ Octet(s, k) = S(0) + 2 * S(1) + 4 * S(2) + 8 * S(3) + 16 * S(4) + 32 * S(5) + 64 * S(6) + 128 * S(7)
  BY <1>7
<1>9. C(0) = c[k] /\ C(8) = c[k + 8]
  OBVIOUS
<1> HIDE DEF A, B, S, C
<1>10. /\ A(0) + B(0) + C(0) = S(0) + 2 * C(1) /\ A(1) + B(1) + C(1) = S(1) + 2 * C(2)
       /\ A(2) + B(2) + C(2) = S(2) + 2 * C(3) /\ A(3) + B(3) + C(3) = S(3) + 2 * C(4)
       /\ A(4) + B(4) + C(4) = S(4) + 2 * C(5) /\ A(5) + B(5) + C(5) = S(5) + 2 * C(6)
       /\ A(6) + B(6) + C(6) = S(6) + 2 * C(7) /\ A(7) + B(7) + C(7) = S(7) + 2 * C(8)
  BY <1>5
<1>11. /\ A(0) \in Int /\ A(1) \in Int /\ A(2) \in Int /\ A(3) \in Int
       /\ A(4) \in Int /\ A(5) \in Int /\ A(6) \in Int /\ A(7) \in Int
       /\ B(0) \in Int /\ B(1) \in Int /\ B(2) \in Int /\ B(3) \in Int
       /\ B(4) \in Int /\ B(5) \in Int /\ B(6) \in Int /\ B(7) \in Int
       /\ S(0) \in Int /\ S(1) \in Int /\ S(2) \in Int /\ S(3) \in Int
       /\ S(4) \in Int /\ S(5) \in Int /\ S(6) \in Int /\ S(7) \in Int
  BY <1>4
<1>12. /\ C(0) \in Int /\ C(1) \in Int /\ C(2) \in Int /\ C(3) \in Int /\ C(4) \in Int
       /\ C(5) \in Int /\ C(6) \in Int /\ C(7) \in Int /\ C(8) \in Int
  BY <1>6
<1> QED BY <1>8, <1>9, <1>10, <1>11, <1>12

LEMMA WordSum ==
  ASSUME NEW a, NEW b, NEW s, NEW c, Sums(a, b, s, c), c[0] = 0
  PROVE  Uint32(a) + Uint32(b) = Uint32(s) + TwoTo32 * c[32]
<1>1. /\ Octet(a, 0) + Octet(b, 0) = Octet(s, 0) + 256 * c[8]
      /\ Octet(a, 8) + Octet(b, 8) + c[8] = Octet(s, 8) + 256 * c[16]
      /\ Octet(a, 16) + Octet(b, 16) + c[16] = Octet(s, 16) + 256 * c[24]
      /\ Octet(a, 24) + Octet(b, 24) + c[24] = Octet(s, 24) + 256 * c[32]
  <2>1. \A k \in {0, 8, 16, 24} : Octet(a, k) + Octet(b, k) + c[k] = Octet(s, k) + 256 * c[k + 8]
    BY OctetSum
  <2>2. \A w : Octet(w, 0) \in Int
    BY OctetRange
  <2> QED BY <2>1, <2>2
<1>2. /\ c[8] \in Int /\ c[16] \in Int /\ c[24] \in Int /\ c[32] \in Int
  BY DEF Sums
<1>3. \A w : Octet(w, 0) \in Int /\ Octet(w, 8) \in Int /\ Octet(w, 16) \in Int /\ Octet(w, 24) \in Int
  BY OctetRange
<1>4. Uint32(a) + Uint32(b) = Uint32(s) + (256 * 16777216) * c[32]
  BY <1>1, <1>2, <1>3 DEF Uint32
<1> QED BY <1>4, Positive

LEMMA SumOfWords ==
  ASSUME NEW a \in Word, NEW b \in Word
  PROVE  \E c \in {0, 1} : Uint32(a) + Uint32(b) = Uint32(Plus(a, b)) + TwoTo32 * c
<1> DEFINE c == [i \in 0 .. 32 |-> IF Carry(a, b, i) THEN 1 ELSE 0]
<1>1. \A i \in 0 .. 32 : c[i] \in {0, 1} /\ (c[i] = 1 <=> Carry(a, b, i))
  OBVIOUS
<1>2. ASSUME NEW i \in 0 .. 31
      PROVE  Bit(a, i) + Bit(b, i) + c[i] = Bit(Plus(a, b), i) + 2 * c[i + 1]
  <2>1. Carry(a, b, i + 1) <=> \/ i \in a /\ i \in b
                               \/ (i \in a \/ i \in b) /\ Carry(a, b, i)
    BY CarryStep DEF Bits
  <2>2. i \in Plus(a, b) <=> ((i \in a) # ((i \in b) # Carry(a, b, i)))
    BY DEF Plus, Bits
  <2>3. Carry(a, b, i) \in BOOLEAN /\ (i \in a) \in BOOLEAN /\ (i \in b) \in BOOLEAN
    BY DEF Carry
  <2>4. i \in 0 .. 32 /\ i + 1 \in 0 .. 32
    OBVIOUS
  <2>5. /\ c[i] = IF Carry(a, b, i) THEN 1 ELSE 0
        /\ c[i + 1] = IF Carry(a, b, i + 1) THEN 1 ELSE 0
    BY <2>4
  <2> HIDE DEF c
  <2>6. CASE Carry(a, b, i)
    <3>1. i \in Plus(a, b) <=> ~ ((i \in a) # (i \in b))
      BY <2>2, <2>3, <2>6
    <3> QED BY <2>1, <2>5, <2>6, <3>1 DEF Bit
  <2>7. CASE ~ Carry(a, b, i)
    <3>1. i \in Plus(a, b) <=> ((i \in a) # (i \in b))
      BY <2>2, <2>3, <2>7
    <3> QED BY <2>1, <2>5, <2>7, <3>1 DEF Bit
  <2> QED BY <2>6, <2>7
<1>3. c[0] = 0
  BY CarryNone
<1>4. Sums(a, b, Plus(a, b), c)
  BY <1>1, <1>2 DEF Sums
<1>5. c[32] \in {0, 1}
  BY <1>1
<1> HIDE DEF c
<1> QED BY <1>3, <1>4, <1>5, WordSum

(* Below as far as the bits under i decide. *)
BelowUnder(a, b, i) ==
  \E j \in b \ a : j < i /\ \A k \in j + 1 .. i - 1 : k \in a <=> k \in b

LEMMA BelowStep ==
  ASSUME NEW a \in Word, NEW b \in Word, NEW i \in Bits
  PROVE  BelowUnder(a, b, i + 1) <=> \/ i \in b /\ i \notin a
                                     \/ (i \in a <=> i \in b) /\ BelowUnder(a, b, i)
<1>0. i \in Int /\ (i + 1) - 1 = i
  BY DEF Bits
<1>1. ASSUME BelowUnder(a, b, i + 1)
      PROVE  (i \in b /\ i \notin a) \/ ((i \in a <=> i \in b) /\ BelowUnder(a, b, i))
  <2>1. PICK j \in b \ a : j < i + 1 /\ \A k \in j + 1 .. i : k \in a <=> k \in b
    BY <1>0, <1>1 DEF BelowUnder
  <2>2. j \in Int
    BY DEF Word, Bits
  <2>3. CASE j = i
    BY <2>3
  <2>4. CASE j < i
    <3>1. i \in j + 1 .. i /\ \A k \in j + 1 .. i - 1 : k \in j + 1 .. i
      BY <1>0, <2>2, <2>4
    <3> QED BY <2>1, <2>4, <3>1 DEF BelowUnder
  <2> QED BY <1>0, <2>1, <2>2, <2>3, <2>4
<1>2. ASSUME i \in b, i \notin a PROVE BelowUnder(a, b, i + 1)
  <2>1. i < i + 1 /\ (i + 1 .. (i + 1) - 1) = {}
    BY <1>0
  <2> QED BY <1>2, <2>1 DEF BelowUnder
<1>3. ASSUME i \in a <=> i \in b, BelowUnder(a, b, i) PROVE BelowUnder(a, b, i + 1)
  <2>1. PICK j \in b \ a : j < i /\ \A k \in j + 1 .. i - 1 : k \in a <=> k \in b
    BY <1>3 DEF BelowUnder
  <2>2. j \in Int
    BY DEF Word, Bits
  <2>3. j < i + 1 /\ \A k \in j + 1 .. (i + 1) - 1 : k \in j + 1 .. i - 1 \/ k = i
    BY <1>0, <2>1, <2>2
  <2> QED BY <1>3, <2>1, <2>3 DEF BelowUnder
<1> QED BY <1>1, <1>2, <1>3

LEMMA BelowIsLess ==
  ASSUME NEW a \in Word, NEW b \in Word
  PROVE  Below(a, b) <=> Uint32(a) < Uint32(b)
<1> DEFINE d == [i \in 0 .. 32 |-> IF BelowUnder(a, b, i) THEN 1 ELSE 0]
           e == {i \in Bits : (i \in a) # ((i \in b) # BelowUnder(a, b, i))}
<1>1. \A i \in 0 .. 32 : d[i] \in {0, 1} /\ (d[i] = 1 <=> BelowUnder(a, b, i))
  OBVIOUS
<1>2. ASSUME NEW i \in 0 .. 31
      PROVE  Bit(e, i) + Bit(b, i) + d[i] = Bit(a, i) + 2 * d[i + 1]
  <2>1. BelowUnder(a, b, i + 1) <=> \/ i \in b /\ i \notin a
                                    \/ (i \in a <=> i \in b) /\ BelowUnder(a, b, i)
    BY BelowStep DEF Bits
  <2>2. i \in e <=> ((i \in a) # ((i \in b) # BelowUnder(a, b, i)))
    BY DEF Bits
  <2>3. BelowUnder(a, b, i) \in BOOLEAN /\ (i \in a) \in BOOLEAN /\ (i \in b) \in BOOLEAN
    BY DEF BelowUnder
  <2>4. i \in 0 .. 32 /\ i + 1 \in 0 .. 32
    OBVIOUS
  <2>5. /\ d[i] = IF BelowUnder(a, b, i) THEN 1 ELSE 0
        /\ d[i + 1] = IF BelowUnder(a, b, i + 1) THEN 1 ELSE 0
    BY <2>4
  <2> HIDE DEF d, e
  <2>6. CASE BelowUnder(a, b, i)
    <3>1. i \in e <=> ~ ((i \in a) # (i \in b))
      BY <2>2, <2>3, <2>6
    <3> QED BY <2>1, <2>5, <2>6, <3>1 DEF Bit
  <2>7. CASE ~ BelowUnder(a, b, i)
    <3>1. i \in e <=> ((i \in a) # (i \in b))
      BY <2>2, <2>3, <2>7
    <3> QED BY <2>1, <2>5, <2>7, <3>1 DEF Bit
  <2> QED BY <2>6, <2>7
<1>3. d[0] = 0
  <2>1. ~ BelowUnder(a, b, 0)
    BY DEF BelowUnder, Word, Bits
  <2> QED BY <2>1
<1>4. d[32] \in {0, 1} /\ (d[32] = 1 <=> Below(a, b))
  <2>1. BelowUnder(a, b, 32) <=> Below(a, b)
    BY DEF BelowUnder, Below, Word, Bits
  <2> QED BY <1>1, <2>1
<1>5. Sums(e, b, a, d)
  BY <1>1, <1>2 DEF Sums
<1> HIDE DEF d, e
<1>6. Uint32(e) + Uint32(b) = Uint32(a) + TwoTo32 * d[32]
  BY <1>3, <1>5, WordSum
<1>7. /\ Uint32(e) \in Nat /\ Uint32(a) \in Nat /\ Uint32(b) \in Nat
      /\ Uint32(e) < TwoTo32 /\ Uint32(a) < TwoTo32 /\ Uint32(b) < TwoTo32
  BY NumberOfWord
<1>8. CASE d[32] = 0
  BY <1>4, <1>6, <1>7, <1>8, Positive
<1>9. CASE d[32] = 1
  BY <1>4, <1>6, <1>7, <1>9, Positive
<1> QED BY <1>4, <1>8, <1>9

(* With the sign bits turned over, int32_t compares as uint32_t does. *)
LEMMA SignTurned ==
  ASSUME NEW w \in Word
  PROVE  Uint32(Xor(w, {31})) = Int32(w) + 65536 * 32768
<1> DEFINE x == Xor(w, {31})
           l == w \ {31}
<1>1. \A i : i # 31 => (i \in x <=> i \in w) /\ (i \in l <=> i \in w)
  BY DEF Xor
<1>2. (31 \in x <=> 31 \notin w) /\ 31 \notin l
  BY DEF Xor
<1> HIDE DEF x, l
<1>3. \A i : i # 31 => Bit(x, i) = Bit(l, i)
  BY <1>1 DEF Bit
<1>4. Octet(x, 0) = Octet(l, 0) /\ Octet(x, 8) = Octet(l, 8) /\ Octet(x, 16) = Octet(l, 16)
  BY <1>3 DEF Octet
<1>5. Bit(l, 31) = 0 /\ Bit(x, 31) = 1 - Bit(w, 31) /\ Bit(w, 31) \in {0, 1}
  BY <1>2 DEF Bit
<1>6. Octet(x, 24) = Octet(l, 24) + 128 * (1 - Bit(w, 31))
  BY <1>3, <1>5 DEF Octet, Bit
<1>7. \A v : Octet(v, 0) \in Int /\ Octet(v, 8) \in Int /\ Octet(v, 16) \in Int /\ Octet(v, 24) \in Int
  BY OctetRange
<1>8. Uint32(x) = Uint32(l) + 16777216 * 128 * (1 - Bit(w, 31))
  BY <1>4, <1>5, <1>6, <1>7 DEF Uint32
<1>9. Int32(w) = Uint32(l) + (-65536) * (32768 * Bit(w, 31))
  BY DEF Int32, l
<1>10. Uint32(l) \in Int
  BY NumberOfWord, Positive
<1>11. Uint32(x) = Int32(w) + 65536 * 32768
  BY <1>5, <1>8, <1>9, <1>10
<1> QED BY <1>11 DEF x

(* A number with some multiple of 2^32 taken away. *)
LEMMA Reduced ==
  ASSUME NEW x \in Int, NEW r \in Nat, r < TwoTo32, NEW k \in {-1, 0, 1},
         x = r + TwoTo32 * k
  PROVE  r = x % TwoTo32
<1>1. TwoTo32 = 256 * 16777216
  BY Positive
<1>2. r \in Int /\ 0 <= r /\ r < 256 * 16777216
  BY Positive
<1>3. x = r + (256 * 16777216) * k
  BY <1>1
<1>4. r = x % (256 * 16777216)
  BY <1>2, <1>3
<1> QED BY <1>1, <1>4

(* The operators of the model on words are the arithmetic of uint32_t and    *)
(* int32_t: addition and subtraction wrap around, a word stands for one      *)
(* number, and < compares the numbers, without and with a sign.              *)
THEOREM WordsCompute ==
  ASSUME NEW a \in Word, NEW b \in Word
  PROVE  /\ Uint32(Plus(a, b)) = (Uint32(a) + Uint32(b)) % TwoTo32
         /\ Uint32(Minus(a, b)) = (Uint32(a) - Uint32(b)) % TwoTo32
         /\ Uint32(a) = Uint32(b) <=> a = b
         /\ Below(a, b) <=> Uint32(a) < Uint32(b)
         /\ SignedBelow(a, b) <=> Int32(a) < Int32(b)
<1> DEFINE A == Uint32(a)
           B == Uint32(b)
<1>1. A \in Nat /\ B \in Nat /\ A < TwoTo32 /\ B < TwoTo32
  BY NumberOfWord
<1>2. Uint32(Plus(a, b)) = (A + B) % TwoTo32
  <2> DEFINE s == Uint32(Plus(a, b))
  <2>1. s \in Nat /\ s < TwoTo32
    BY NumberOfWord
  <2>2. PICK c \in {0, 1} : A + B = s + TwoTo32 * c
    BY SumOfWords
  <2> HIDE DEF s, A, B
  <2>3. s = (A + B) % TwoTo32
    BY <1>1, <2>1, <2>2, Reduced, Positive
  <2> QED BY <2>3 DEF s
<1>3. Uint32(Minus(a, b)) = (A - B) % TwoTo32
  <2> DEFINE m == Uint32(Minus(a, b))
  <2>1. m \in Nat /\ m < TwoTo32
    BY NumberOfWord
  <2>2. Minus(a, b) \in Word /\ Plus(b, Minus(a, b)) = a
    BY PlusMinus DEF Minus, Not, Word
  <2>3. PICK c \in {0, 1} : B + m = A + TwoTo32 * c
    BY <2>2, SumOfWords
  <2> HIDE DEF m, A, B
  <2>4. m = (A - B) % TwoTo32
    BY <1>1, <2>1, <2>3, Reduced, Positive
  <2> QED BY <2>4 DEF m
<1>4. Below(a, b) <=> A < B
  BY BelowIsLess
<1>5. A = B <=> a = b
  <2>1. ASSUME A = B PROVE a = b
    <3>1. ~ Below(a, b) /\ ~ Below(b, a)
      BY <1>1, <2>1, BelowIsLess, Positive
    <3> QED BY <3>1, OneBelow
  <2> QED BY <2>1
<1>6. SignedBelow(a, b) <=> Int32(a) < Int32(b)
  <2>1. Xor(a, {31}) \in Word /\ Xor(b, {31}) \in Word
    BY DEF Xor, Word, Bits
  <2>2. Int32(a) \in Int /\ Int32(b) \in Int
    <3>1. Uint32(a \ {31}) \in Int /\ Uint32(b \ {31}) \in Int
      BY NumberOfWord, Positive
    <3> QED BY <3>1 DEF Int32, Bit
  <2>3. Below(Xor(a, {31}), Xor(b, {31})) <=> Int32(a) + 65536 * 32768 < Int32(b) + 65536 * 32768
    BY <2>1, BelowIsLess, SignTurned
  <2> QED BY <2>2, <2>3 DEF SignedBelow
<1> QED BY <1>2, <1>3, <1>4, <1>5, <1>6
================================================================================
