---------------------------- MODULE CoreTypes_proofs ----------------------------
(***************************************************************************)
(* Lemmas about the cores of CoreTypes and FaultInjection: the types of    *)
(* what their operators return, and what the operators leave alone.        *)
(***************************************************************************)
EXTENDS FaultInjection, TLAPS

(* A transfer of a system call leaves an image of the memory. *)
LEMMA TransferredType ==
  ASSUME NEW t, IsTransfer(t), NEW prim \in Image, NEW own \in Image
  PROVE  Transferred(t, prim, own) \in Image
<1>1. ASSUME NEW w \in Words, NEW l \in Lanes, BytesAt(t, w, l) # {}
      PROVE  t[2][CHOOSE i \in BytesAt(t, w, l) : TRUE] \in Byte
  <2>1. PICK i : i = (CHOOSE j \in BytesAt(t, w, l) : TRUE) /\ i \in BytesAt(t, w, l)
    BY <1>1
  <2>2. i \in DOMAIN t[2] /\ t[2] \in Seq(Byte)
    BY <2>1 DEF BytesAt, IsTransfer
  <2> QED BY <2>1, <2>2
<1>2. \A w \in Words : \A old \in Word : Overlay(t, w, old) \in Word
  BY <1>1 DEF Overlay, Word
<1> QED BY <1>2 DEF Transferred, Image

LEMMA AfterInstType ==
  ASSUME NEW m \in Image, NEW inst \in InstIF
  PROVE  AfterInst(m, inst) \in Image
<1>1. inst.d_addr \in Addr /\ inst.d_wdata \in Word
  BY DEF InstIF
<1>2. WordOf(inst.d_addr) \in Words
  BY <1>1, SizeAssumption, Z3 DEF Addr, WordOf, Words
<1>3. Merge(m[WordOf(inst.d_addr)], inst.d_wdata, inst.d_wmask) \in Word
  BY <1>1, <1>2 DEF Image, Merge, Word
<1> QED BY <1>2, <1>3 DEF AfterInst, Image

LEMMA ArchOfType == ASSUME NEW core \in Core PROVE ArchOf(core) \in Arch
  BY DEF ArchOf, Arch, Core

LEMMA RetireType ==
  ASSUME NEW core \in Core, NEW x, x.arch \in Arch, x.instif \in InstIF
  PROVE  /\ Retire(core, x) \in Core
         /\ Retire(core, x).cnt_inst = core.cnt_inst + 1
         /\ Retire(core, x).instif.valid
         /\ ArchOf(Retire(core, x)) = x.arch
<1>1. [x.instif EXCEPT !.valid = TRUE] \in InstIF /\ [x.instif EXCEPT !.valid = TRUE].valid
  BY DEF InstIF
<1>2. x.arch = [pc |-> x.arch.pc, reg |-> x.arch.reg] /\ x.arch.pc \in PC
      /\ x.arch.reg \in [Reg -> Val]
  BY DEF Arch
<1>3. core.cnt_inst \in Nat
  BY DEF Core
<1> DEFINE inst == [x.instif EXCEPT !.valid = TRUE]
<1>4. Retire(core, x) = [pc |-> x.arch.pc, reg |-> x.arch.reg,
                         cnt_inst |-> core.cnt_inst + 1, instif |-> inst]
  BY DEF Retire
<1> HIDE DEF inst
<1>5. inst \in InstIF /\ inst.valid
  BY <1>1 DEF inst
<1> QED BY <1>2, <1>3, <1>4, <1>5 DEF Core, ArchOf

LEMMA ReturnedType ==
  ASSUME NEW core \in Core, NEW a0 \in Val \cup {Keep}
  PROVE  /\ Returned(core, a0) \in Core
         /\ Returned(core, a0).cnt_inst = core.cnt_inst
         /\ Returned(core, a0).instif = core.instif
<1>1. CASE a0 = Keep
  BY <1>1 DEF Returned
<1>2. CASE a0 # Keep
  <2>1. a0 \in Val /\ Returned(core, a0) = [core EXCEPT !.reg = [core.reg EXCEPT ![A0] = a0]]
    BY <1>2 DEF Returned
  <2>2. [core.reg EXCEPT ![A0] = a0] \in [Reg -> Val]
    BY <2>1 DEF Core
  <2> QED BY <2>1, <2>2 DEF Core
<1> QED BY <1>1, <1>2

(* Fault injection leaves the report and the counters of a core alone. *)
LEMMA UpsetType ==
  ASSUME NEW core \in Core, NEW c \in Upset(core)
  PROVE  /\ c \in Core /\ c.cnt_inst = core.cnt_inst /\ c.instif = core.instif
         /\ FAULT_INTERVAL = 0 => c = core
<1>1. CASE c = core
  BY <1>1
<1>2. CASE c \in inject_fault(core) /\ FAULT_INTERVAL > 0
  <2>1. PICK r \in Reg : c \in {[core EXCEPT !.reg[r] = v] : v \in OneBitOff(core.reg[r])}
    BY <1>2 DEF inject_fault
  <2>2. PICK v \in OneBitOff(core.reg[r]) :
          c = [core EXCEPT !.reg = [core.reg EXCEPT ![r] = v]]
    BY <2>1
  <2>3. [core.reg EXCEPT ![r] = v] \in [Reg -> Val]
    BY FaultAssumption DEF Core
  <2> QED BY <1>2, <2>2, <2>3 DEF Core
<1> QED BY <1>1, <1>2 DEF Upset

LEMMA InitCoreType == ASSUME NEW inst \in InitInsts PROVE InitCore(inst) \in Core
  BY ProgramAssumption DEF InitCore, Core, Arch

(* A store is in the report or it is not: valid plays no part in it. *)
LEMMA AfterInstValid ==
  ASSUME NEW m, NEW inst \in InstIF, NEW b \in BOOLEAN
  PROVE  AfterInst(m, [inst EXCEPT !.valid = b]) = AfterInst(m, inst)
BY DEF AfterInst, InstIF
================================================================================
