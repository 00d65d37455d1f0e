---------------------------------- MODULE RV32I ----------------------------------
(***************************************************************************)
(* What the functional core promises: the RV32I instruction set as its     *)
(* manual has it, not as the code does.  Instructions are given by their   *)
(* operands and laid out in words by format; register x0 is not written;   *)
(* the memory is bytes, and an access touches just the bytes addressed.    *)
(* Words without an encoding listed here and misaligned accesses may do    *)
(* anything, as the manual leaves them to the platform.                    *)
(***************************************************************************)
EXTENDS Encoding

CONSTANTS
  ByteBits,      \* bits of an address that select a byte; the rest wrap around
  Listing        \* instructions considered: words and their [id, rd, rs1, rs2, imm]

VARIABLES regs, pc, bytes

vars == <<regs, pc, bytes>>

--------------------------------------------------------------------------------
At(addr, n) == Plus(addr, Num(n, 2, 0)) \cap ByteBits
Gather(addr, n) == UNION {{i + 8 * k : i \in bytes[At(addr, k)]} : k \in 0 .. n - 1}

Width(id) == CASE id \in {"lb", "lbu", "sb"} -> 1 [] id \in {"lh", "lhu", "sh"} -> 2
               [] id \in {"lw", "sw"} -> 4
Extend(w, n) == IF n - 1 \in w THEN w \cup (n .. 31) ELSE w

Address(a) == Plus(regs[a.rs1], a.imm)
MisalignedAt(addr, n) == Number(addr \cap {0, 1}) % n # 0

LoadIds == {"lb", "lh", "lw", "lbu", "lhu"}
StoreIds == {"sb", "sh", "sw"}

(* The value of instruction a for its register rd. *)
Value(a) ==
  LET x == regs[a.rs1]
      y == IF Op(a.id)[1] = "R" THEN regs[a.rs2] ELSE a.imm
      n == Number(y)
  IN  CASE a.id \in {"add", "addi"} -> Plus(x, y)
        [] a.id = "sub" -> Minus(x, y)
        [] a.id \in {"and", "andi"} -> x \cap y
        [] a.id \in {"or", "ori"} -> x \cup y
        [] a.id \in {"xor", "xori"} -> {i \in Bits : (i \in x) # (i \in y)}
        [] a.id \in {"slt", "slti"} ->
             IF (31 \in x /\ 31 \notin y) \/ ((31 \in x <=> 31 \in y) /\ Below(x, y))
             THEN {0} ELSE {}
        [] a.id \in {"sltu", "sltiu"} -> IF Below(x, y) THEN {0} ELSE {}
        [] a.id \in {"sll", "slli"} -> {i \in Bits : i - n \in x}
        [] a.id \in {"srl", "srli"} -> {i \in Bits : i + n \in x}
        [] a.id \in {"sra", "srai"} -> {i \in Bits : IF i + n > 31 THEN 31 \in x ELSE i + n \in x}
        [] a.id = "lui" -> a.imm
        [] a.id = "auipc" -> Plus(pc, a.imm)
        [] a.id \in {"jal", "jalr"} -> Plus(pc, {2})
        [] a.id \in {"lb", "lh", "lw"} -> Extend(Gather(Address(a), Width(a.id)), 8 * Width(a.id))
        [] a.id \in {"lbu", "lhu"} -> Gather(Address(a), Width(a.id))

Branches(a) ==
  LET x == regs[a.rs1]
      y == regs[a.rs2]
      less == (31 \in x /\ 31 \notin y) \/ ((31 \in x <=> 31 \in y) /\ Below(x, y))
  IN  CASE a.id = "beq" -> x = y [] a.id = "bne" -> x # y
        [] a.id = "blt" -> less [] a.id = "bge" -> ~ less
        [] a.id = "bltu" -> Below(x, y) [] a.id = "bgeu" -> x = y \/ Below(y, x)

Target(a) ==
  CASE a.id = "jal" \/ (Op(a.id)[1] = "B" /\ Branches(a)) -> Plus(pc, a.imm)
    [] a.id = "jalr" -> Address(a) \ {0}
    [] OTHER -> Plus(pc, {2})

HasRd(a) == a.id \notin StoreIds \cup {"fence", "ecall"} /\ Op(a.id)[1] # "B"

--------------------------------------------------------------------------------
Fetched == Gather(pc, 4)

(* The instruction with the encoding fetched, if one is listed.             *)
Current == {a \in {Listing[w] : w \in {Fetched} \cap DOMAIN Listing} : Encode(a) = Fetched}

Stored(a) ==
  LET at == [j \in 0 .. Width(a.id) - 1 |-> At(Address(a), j)]
  IN  [b \in DOMAIN bytes |->
        IF \E j \in DOMAIN at : at[j] = b
          THEN LET j == CHOOSE j \in DOMAIN at : at[j] = b
               IN  Place(regs[a.rs2], 8 * j, 8 * j + 7, 0)
          ELSE bytes[b]]

Instruction(a) ==
  /\ pc' = Target(a)
  /\ regs' = IF HasRd(a) /\ a.rd # 0 THEN [regs EXCEPT ![a.rd] = Value(a)] ELSE regs
  /\ bytes' = IF a.id \in StoreIds THEN Stored(a) ELSE bytes

(* The manual leaves these to the platform. *)
Unspecified ==
  \/ Current = {}
  \/ MisalignedAt(pc, 4)
  \/ \E a \in Current : /\ a.id \in LoadIds \cup StoreIds
                        /\ MisalignedAt(Address(a), Width(a.id))

Init == regs[0] = {}
Next == (\E a \in Current : Instruction(a)) \/ Unspecified
Spec == Init /\ [][Next]_vars
================================================================================
