------------------------- MODULE ConcurrentSystem_proofs -------------------------
(***************************************************************************)
(* Theorems of ConcurrentSystem: the shared memory with its write buffers  *)
(* does not show in the main loop, for every program, memory, host,        *)
(* verilated core and limit, so what is proved of Lockstep holds of it,    *)
(* and the primary's buffer is emptied.                                    *)
(***************************************************************************)
EXTENDS ConcurrentSystem, Memory_proofs, CoreTypes_proofs

(* The operators the loop brings along are the ones used here. *)
LEMMA SameLoop ==
  /\ \A core : Loop!ArchOf(core) = ArchOf(core)
  /\ \A inst : Loop!InitCore(inst) = InitCore(inst)
  /\ \A core, x : Loop!Retire(core, x) = Retire(core, x)
  /\ \A core, inst : Loop!Unreported(core, inst) = Unreported(core, inst)
  /\ \A core, a0 : Loop!Returned(core, a0) = Returned(core, a0)
  /\ \A core : Loop!Upset(core) = Upset(core)
<1>1. \A core : Loop!ArchOf(core) = ArchOf(core)
  BY DEF Loop!ArchOf, ArchOf
<1>2. \A inst : Loop!InitCore(inst) = InitCore(inst)
  BY DEF Loop!InitCore, InitCore
<1>3. \A core, x : Loop!Retire(core, x) = Retire(core, x)
  BY DEF Loop!Retire, Retire
<1>4. \A core, inst : Loop!Unreported(core, inst) = Unreported(core, inst)
  BY DEF Loop!Unreported, Unreported
<1>5. \A core, a0 : Loop!Returned(core, a0) = Returned(core, a0)
  BY DEF Loop!Returned, Returned
<1>6. \A core : Loop!inject_fault(core) = inject_fault(core)
  BY DEF Loop!inject_fault, inject_fault
<1>7. \A core : Loop!Upset(core) = Upset(core)
  BY <1>6 DEF Loop!Upset, Upset
<1> QED BY <1>1, <1>2, <1>3, <1>4, <1>5, <1>7

LEMMA SameImages ==
  /\ \A a : Loop!WordOf(a) = WordOf(a)
  /\ \A m, inst : Loop!AfterInst(m, inst) = AfterInst(m, inst)
  /\ \A t, prim, own : Loop!Transferred(t, prim, own) = Transferred(t, prim, own)
<1>1. \A a : Loop!WordOf(a) = WordOf(a)
  BY DEF Loop!WordOf, WordOf
<1>2. Loop!Lanes = Lanes /\ Loop!Words = Words
  BY DEF Loop!Lanes, Lanes, Loop!Words, Words
<1>3. \A old, data, mask : Loop!Merge(old, data, mask) = Merge(old, data, mask)
  BY <1>2 DEF Loop!Merge, Merge
<1>4. \A m, inst : Loop!AfterInst(m, inst) = AfterInst(m, inst)
  BY <1>1, <1>3 DEF Loop!AfterInst, AfterInst
<1>5. \A t, w, l : Loop!BytesAt(t, w, l) = BytesAt(t, w, l)
  BY DEF Loop!BytesAt, BytesAt, Loop!WordOf, WordOf, Loop!LaneOf, LaneOf
<1>6. \A t, w : Loop!Touches(t, w) <=> Touches(t, w)
  BY <1>2, <1>5 DEF Loop!Touches, Touches
<1>7. \A t, w, old : Loop!Overlay(t, w, old) = Overlay(t, w, old)
  BY DEF Loop!Overlay, Overlay, Loop!BytesAt, BytesAt, Loop!Lanes, Lanes,
         Loop!WordOf, WordOf, Loop!LaneOf, LaneOf
<1>8. \A t, prim, own : Loop!Transferred(t, prim, own) = Transferred(t, prim, own)
  BY <1>2, <1>6, <1>7 DEF Loop!Transferred, Transferred
<1> QED BY <1>1, <1>4, <1>8

LEMMA TwoCores == Cores = {Prim, Rep} /\ Prim # Rep /\ Rep \in Reps /\ ~ Single
  BY RepAssumption, CoresAssumption DEF Cores, Single

--------------------------------------------------------------------------------
(* What each of the loop's accesses to the memory makes of both images.     *)
LEMMA AccessType ==
  ASSUME NEW inst \in InstIF, NEW fetch \in Addr
  PROVE  Access(inst, fetch) \in Request /\ NoAccess(inst, fetch) \in Request
<1>1. Access(inst, fetch) \in Request
  BY DEF Access, InstIF, Request
<1> QED BY <1>1 DEF NoAccess, Request

LEMMA FetchImages ==
  ASSUME TypeOK, NEW inst \in InstIF, NEW fetch \in Addr, PrimaryCycle(Access(inst, fetch))
  PROVE  TypeOK' /\ Seen(Prim)' = AfterInst(Seen(Prim), inst) /\ Seen(Rep)' = Seen(Rep)
<1> DEFINE req == Access(inst, fetch)
<1>1. req \in Request
  BY AccessType
<1>2. /\ Stores(req) <=> Attr[inst.ir] = "store"
      /\ req.d_addr = inst.d_addr /\ req.d_wdata = inst.d_wdata /\ req.d_wmask = inst.d_wmask
  BY DEF Access, Stores
<1>3. PrimaryCycle(req)
  OBVIOUS
<1> HIDE DEF req
<1>4. AfterInst(Seen(Prim), inst) = Private!AfterStore(Seen(Prim), req)
  BY <1>2, AfterStoreIs DEF AfterInst
<1> QED BY <1>1, <1>3, <1>4, PrimaryType, PrimaryImages, TwoCores

LEMMA NoFetchImages ==
  ASSUME TypeOK, NEW inst \in InstIF, NEW fetch \in Addr, PrimaryCycle(NoAccess(inst, fetch))
  PROVE  TypeOK' /\ Seen(Prim)' = Seen(Prim) /\ Seen(Rep)' = Seen(Rep)
<1> DEFINE req == NoAccess(inst, fetch)
<1>1. req \in Request
  BY AccessType
<1>2. ~ Stores(req)
  BY DEF Access, NoAccess, Stores
<1>3. PrimaryCycle(req)
  OBVIOUS
<1> HIDE DEF req
<1> QED BY <1>1, <1>2, <1>3, PrimaryType, PrimaryImages, AfterStoreIs, TwoCores

(* What the replica's memory holds after the store of a report, or none.    *)
AfterReport(m, inst) == IF inst = None THEN m ELSE AfterInst(m, inst)

LEMMA VBusType ==
  ASSUME NEW inst \in InstIF \cup {None}, NEW req \in VBus(inst)
  PROVE  /\ req \in Request
         /\ AfterReport(Seen(Rep), inst) = Private!AfterStore(Seen(Rep), req)
         /\ inst # None /\ Attr[inst.ir] = "store" => Stores(req) /\ req.d_addr = inst.d_addr
<1>1. CASE inst # None /\ Attr[inst.ir] = "store"
  <2>1. PICK fetch \in Addr : req = Access(inst, fetch)
    BY <1>1 DEF VBus
  <2>2. /\ Stores(req) /\ req.d_addr = inst.d_addr /\ req.d_wdata = inst.d_wdata
        /\ req.d_wmask = inst.d_wmask
    BY <1>1, <2>1 DEF Access, Stores
  <2>3. req \in Request
    BY <1>1, <2>1, AccessType
  <2> QED BY <1>1, <2>2, <2>3, AfterStoreIs DEF AfterReport, AfterInst
<1>2. CASE ~ (inst # None /\ Attr[inst.ir] = "store")
  <2>1. req \in Request /\ ~ Stores(req)
    BY <1>2, RequestsAssumption DEF VBus
  <2> QED BY <1>2, <2>1, AfterStoreIs DEF AfterReport, AfterInst
<1> QED BY <1>1, <1>2

LEMMA VCycleImages ==
  ASSUME TypeOK, NEW inst \in InstIF \cup {None}, VCycle(inst)
  PROVE  TypeOK' /\ Seen(Prim)' = Seen(Prim) /\ Seen(Rep)' = AfterReport(Seen(Rep), inst)
<1>1. PICK req \in VBus(inst) : ReplicaCycle([r \in Reps |-> req])
  BY DEF VCycle
<1>2. req \in Request /\ AfterReport(Seen(Rep), inst) = Private!AfterStore(Seen(Rep), req)
  BY VBusType
<1> DEFINE reqs == [r \in Reps |-> req]
<1>3. reqs \in [Reps -> Request] /\ reqs[Rep] = req
  BY <1>2, TwoCores
<1>4. ReplicaCycle(reqs)
  BY <1>1
<1> HIDE DEF reqs
<1> QED BY <1>2, <1>3, <1>4, ReplicaType, ReplicaImages, TwoCores

LEMMA CallImages ==
  ASSUME TypeOK, NEW t, IsTransfer(t), Transfer(t)
  PROVE  /\ TypeOK'
         /\ Seen(Prim)' = Transferred(t, Seen(Prim), Seen(Prim))
         /\ Seen(Rep)' = Transferred(t, Seen(Prim), Seen(Rep))
<1>1. ASSUME NEW c \in Cores PROVE Seen(c)' = Transferred(t, Seen(Prim), Seen(c))
  <2>1. \A w \in Words :
          Read(c, w)' = IF Touches(t, w) THEN Overlay(t, w, Read(Prim, w)) ELSE Read(c, w)
    BY TransferImages
  <2> QED BY <2>1 DEF Seen, Transferred
<1> QED BY <1>1, TransferType, TwoCores

--------------------------------------------------------------------------------
(* What the proofs need to know of the loop's own state. *)
SysTypeOK ==
  /\ TypeOK
  /\ fcore \in Core /\ vcore \in Core
  /\ late \in InstIF \cup {None}

LEMMA SettledIs == ASSUME SysTypeOK PROVE Loop!Settled = AfterReport(Seen(Rep), late)
  BY SameImages DEF Loop!Settled, AfterReport

LEMMA ImagesType ==
  ASSUME SysTypeOK
  PROVE  /\ ArchOf(fcore) \in Arch /\ ArchOf(vcore) \in Arch
         /\ Seen(Prim) \in Image /\ Seen(Rep) \in Image /\ Loop!Settled \in Image
<1>1. Seen(Prim) \in Image /\ Seen(Rep) \in Image
  BY SeenType, TwoCores DEF SysTypeOK, Image
<1>2. ArchOf(fcore) \in Arch /\ ArchOf(vcore) \in Arch
  BY ArchOfType DEF SysTypeOK
<1> QED BY <1>1, <1>2, SettledIs, AfterInstType DEF AfterReport, SysTypeOK

LEMMA OutcomeType ==
  ASSUME SysTypeOK, NEW x \in Outcomes
  PROVE  x.arch \in Arch /\ x.instif \in InstIF
<1>1. x \in [arch : Arch, instif : InstIF]
  BY ImagesType, OutcomesAssumption DEF Outcomes
<1> QED BY <1>1

LEMMA ExecType ==
  ASSUME SysTypeOK
  PROVE  /\ Exec(ArchOf(fcore), Seen(Prim)).arch \in Arch
         /\ Exec(ArchOf(fcore), Seen(Prim)).instif \in InstIF
BY ImagesType, ExecAssumption

LEMMA AnswerType ==
  ASSUME SysTypeOK, NEW r \in Replies(Loop!Caller.reg, Seen(Prim))
  PROVE  r.a0 \in Val \cup {Keep} /\ IsTransfer(r.xfer)
BY ImagesType, RepliesAssumption DEF Loop!Caller, SysTypeOK, Core, Reply

(* A step of the loop, step by step: what becomes of both memories. *)
LEMMA SystemSteps ==
  ASSUME SysTypeOK
  PROVE  /\ FCycle => SysTypeOK' /\ (Loop!FExecute \/ Loop!FUnknown)
         /\ VSilent => SysTypeOK' /\ Loop!VIdle
         /\ VCommit => SysTypeOK' /\ Loop!VRetire
         /\ Checked => SysTypeOK' /\ (Loop!Mismatch \/ Loop!Pass)
         /\ Called => SysTypeOK' /\ Loop!PassCall
<1> DEFINE x == Exec(ArchOf(fcore), Seen(Prim))
<1>0. TypeOK /\ fcore \in Core /\ vcore \in Core /\ late \in InstIF \cup {None}
      /\ fcore.instif \in InstIF /\ vcore.instif \in InstIF
  BY DEF SysTypeOK, Core
<1>1. ASSUME NEW fetch \in Addr, Loop!FRetires(x), PrimaryCycle(Access(x.instif, fetch))
      PROVE  SysTypeOK' /\ Loop!FExecute
  <2>1. x.arch \in Arch /\ x.instif \in InstIF
    BY ExecType
  <2>2. TypeOK' /\ Seen(Prim)' = AfterInst(Seen(Prim), x.instif) /\ Seen(Rep)' = Seen(Rep)
    BY <1>0, <1>1, <2>1, FetchImages
  <2>3. fcore' = Retire(fcore, x) /\ vcore' = vcore /\ late' = late
    BY <1>1, SameLoop DEF Loop!FRetires
  <2>4. fcore' \in Core
    BY <1>0, <2>1, <2>3, RetireType
  <2>5. Loop!FExecute
    BY <1>1, <2>2, SameLoop, SameImages DEF Loop!FExecute
  <2> QED BY <1>0, <2>2, <2>3, <2>4, <2>5 DEF SysTypeOK
<1>2. ASSUME NEW fetch \in Addr, Loop!FFails(x), PrimaryCycle(NoAccess(fcore.instif, fetch))
      PROVE  SysTypeOK' /\ Loop!FUnknown
  <2>1. TypeOK' /\ Seen(Prim)' = Seen(Prim) /\ Seen(Rep)' = Seen(Rep)
    BY <1>0, <1>2, NoFetchImages
  <2>2. fcore' = Unreported(fcore, fcore.instif) /\ vcore' = vcore /\ late' = late
    BY <1>2, SameLoop DEF Loop!FFails
  <2>3. fcore' \in Core
    BY <1>0, <2>2 DEF Unreported, Core, InstIF
  <2>4. Loop!FUnknown
    BY <1>2, <2>1, SameLoop DEF Loop!FUnknown
  <2> QED BY <1>0, <2>1, <2>2, <2>3, <2>4 DEF SysTypeOK
<1>3. FCycle => SysTypeOK' /\ (Loop!FExecute \/ Loop!FUnknown)
  BY <1>1, <1>2 DEF FCycle
<1>4. ASSUME VSilent PROVE SysTypeOK' /\ Loop!VIdle
  <2>1. TypeOK' /\ Seen(Prim)' = Seen(Prim) /\ Seen(Rep)' = Loop!Settled
    BY <1>0, <1>4, VCycleImages, SettledIs DEF VSilent
  <2>2. Loop!VIdle
    BY <1>4, <2>1, SameLoop DEF VSilent, Outcomes, Loop!VIdle
  <2>3. PICK inst \in {vcore.instif} \cup {y.instif : y \in Outcomes} :
          vcore' \in Upset(Unreported(vcore, inst))
    BY <1>4, SameLoop DEF VSilent, Loop!VStalls
  <2>4. inst \in InstIF
    BY <1>0, <2>3, OutcomeType
  <2>5. Unreported(vcore, inst) \in Core
    BY <1>0, <2>4 DEF Unreported, Core, InstIF
  <2>6. vcore' \in Core
    BY <2>3, <2>5, UpsetType
  <2>7. fcore' = fcore /\ late' = None
    BY <1>4 DEF VSilent, Loop!VStalls
  <2> QED BY <1>0, <2>1, <2>2, <2>6, <2>7 DEF SysTypeOK
<1>5. ASSUME NEW y \in Outcomes, NEW d \in Deferred, Loop!VReports(y, d),
             \/ d /\ VCycle(late)
             \/ ~ d /\ late = None /\ VCycle(y.instif)
      PROVE  SysTypeOK' /\ Loop!VRetire
  <2>1. y.arch \in Arch /\ y.instif \in InstIF /\ y.instif # None
    BY OutcomeType, LoopAssumption
  <2>2. TypeOK' /\ Seen(Prim)' = Seen(Prim)
        /\ Seen(Rep)' = IF d THEN Loop!Settled ELSE AfterInst(Loop!Settled, y.instif)
    <3>1. CASE d /\ VCycle(late)
      BY <1>0, <3>1, VCycleImages, SettledIs
    <3>2. CASE ~ d /\ late = None /\ VCycle(y.instif)
      BY <1>0, <2>1, <3>2, VCycleImages, SettledIs DEF AfterReport
    <3> QED BY <1>5, <3>1, <3>2
  <2>3. Loop!VRetire
    BY <1>5, <2>2, SameLoop, SameImages DEF Loop!VRetire, Outcomes
  <2>4. vcore' \in Upset(Retire(vcore, y)) /\ fcore' = fcore
        /\ late' = IF d THEN y.instif ELSE None
    BY <1>5, SameLoop DEF Loop!VReports
  <2>5. vcore' \in Core
    BY <1>0, <2>1, <2>4, RetireType, UpsetType
  <2> QED BY <1>0, <2>1, <2>2, <2>3, <2>4, <2>5 DEF SysTypeOK
<1>6. VCommit => SysTypeOK' /\ Loop!VRetire
  BY <1>5 DEF VCommit
<1>7. ASSUME Checked PROVE SysTypeOK' /\ (Loop!Mismatch \/ Loop!Pass)
  <2>1. UNCHANGED vars /\ (Loop!Disagree \/ Loop!Agree)
    BY <1>7 DEF Checked
  <2>2. Seen(Prim)' = Seen(Prim) /\ Seen(Rep)' = Seen(Rep) /\ TypeOK'
    BY <1>0, <2>1 DEF vars, Seen, Read, Buffered, TypeOK
  <2>3. fcore' = fcore /\ vcore' = vcore /\ late' = late
    BY <2>1 DEF Loop!Disagree, Loop!Agree
  <2> QED BY <1>0, <2>1, <2>2, <2>3 DEF SysTypeOK, Loop!Mismatch, Loop!Pass
<1>8. ASSUME NEW r \in Replies(Loop!Caller.reg, Seen(Prim)), Loop!Emulates(r), Transfer(r.xfer)
      PROVE  SysTypeOK' /\ Loop!PassCall
  <2>1. r.a0 \in Val \cup {Keep} /\ IsTransfer(r.xfer)
    BY AnswerType
  <2>2. /\ TypeOK' /\ Seen(Prim)' = Transferred(r.xfer, Seen(Prim), Seen(Prim))
        /\ Seen(Rep)' = Transferred(r.xfer, Seen(Prim), Seen(Rep))
    BY <1>0, <1>8, <2>1, CallImages
  <2>3. Loop!PassCall
    BY <1>8, <2>2, SameImages DEF Loop!PassCall
  <2>4. fcore' = Returned(fcore, r.a0) /\ vcore' = Returned(vcore, r.a0) /\ late' = late
    BY <1>8, SameLoop DEF Loop!Emulates
  <2>5. fcore' \in Core /\ vcore' \in Core
    BY <1>0, <2>1, <2>4, ReturnedType
  <2> QED BY <1>0, <2>2, <2>3, <2>4, <2>5 DEF SysTypeOK
<1>9. Called => SysTypeOK' /\ Loop!PassCall
  BY <1>8 DEF Called
<1> QED BY <1>3, <1>4, <1>6, <1>7, <1>9

LEMMA StutterKeeps ==
  ASSUME UNCHANGED sysVars
  PROVE  (SysTypeOK => SysTypeOK') /\ UNCHANGED Loop!vars
BY DEF sysVars, vars, SysTypeOK, TypeOK, Loop!vars, Seen, Read, Buffered

LEMMA SysTypeInit == SysInit => SysTypeOK
<1> SUFFICES ASSUME SysInit PROVE SysTypeOK
  OBVIOUS
<1>1. fcore \in Core /\ vcore \in Core
  BY InitCoreType DEF SysInit
<1>2. TypeOK
  BY ZeroType, ProgramAssumption DEF SysInit, TypeOK, ReadRegs
<1> QED BY <1>1, <1>2 DEF SysInit, SysTypeOK

LEMMA SysTypeCorrect == SysSpec => []SysTypeOK
<1>1. SysTypeOK /\ [SysNext]_sysVars => SysTypeOK'
  BY SystemSteps, StutterKeeps DEF SysNext
<1> QED BY <1>1, SysTypeInit, PTL DEF SysSpec

(* The main loop on the shared memory of memory.cpp is the main loop on     *)
(* private memories: what is proved of Lockstep holds of the composition.   *)
THEOREM LoopOnSharedMemory == SysSpec => LoopSpec
<1>1. SysInit => Loop!Init
  <2> SUFFICES ASSUME SysInit PROVE Loop!Init
    OBVIOUS
  <2>1. Seen(Prim) = InitMem /\ Seen(Rep) = InitMem
    BY TwoCores, ProgramAssumption DEF SysInit, Seen, Read, Buffered, Image
  <2> QED BY <2>1, SameLoop DEF SysInit, Loop!Init
<1>2. SysTypeOK /\ [SysNext]_sysVars => [Loop!Next]_(Loop!vars)
  BY SystemSteps, StutterKeeps DEF SysNext, Loop!Next
<1> QED BY <1>1, <1>2, SysTypeCorrect, PTL DEF SysSpec, LoopSpec, Loop!Spec

--------------------------------------------------------------------------------
(* What Lockstep_proofs proves of the loop on private memories holds of the *)
(* composition.  Proved is the loop once more, with its theorems: it meets  *)
(* the assumptions they are proved from (LoopMeets), and a run of the       *)
(* composition is one of it (LoopIsProved).                                 *)
Proved == INSTANCE Lockstep_proofs WITH fmem <- Seen(Prim), vmem <- Seen(Rep)

LEMMA SameLoopTypes ==
  /\ Proved!Arch = Arch /\ Proved!Image = Image /\ Proved!InstIF = InstIF
  /\ \A r : Proved!Reply(r) <=> Reply(r)
<1>1. Proved!Word = Word /\ Proved!Words = Words /\ Proved!Addr = Addr /\ Proved!Lanes = Lanes
  BY DEF Proved!Word, Word, Proved!Words, Words, Proved!Addr, Addr, Proved!Lanes, Lanes
<1>2. \A t : Proved!IsTransfer(t) <=> IsTransfer(t)
  BY <1>1 DEF Proved!IsTransfer, IsTransfer
<1>3. Proved!Arch = Arch
  BY DEF Proved!Arch, Arch
<1>4. Proved!Image = Image
  BY <1>1 DEF Proved!Image, Image
<1>5. Proved!InstIF = InstIF
  BY <1>1 DEF Proved!InstIF, InstIF
<1>6. \A r : Proved!Reply(r) <=> Reply(r)
  BY <1>2 DEF Proved!Reply, Reply
<1> QED BY <1>3, <1>4, <1>5, <1>6

(* The assumptions of Lockstep and of the modules it extends are met. *)
LEMMA LoopMeets ==
  /\ Proved!SizeAssumption /\ Proved!ProgramAssumption /\ Proved!ExecAssumption
  /\ Proved!RepliesAssumption /\ Proved!FaultAssumption
  /\ Proved!LockstepAssumption /\ Proved!VExecAssumption
<1> USE SameLoopTypes
<1>1. Proved!SizeAssumption
  BY SizeAssumption DEF Proved!SizeAssumption
<1>2. Proved!ProgramAssumption
  BY ProgramAssumption DEF Proved!ProgramAssumption
<1>3. Proved!ExecAssumption
  BY ExecAssumption, Zenon DEF Proved!ExecAssumption
<1>4. Proved!RepliesAssumption
  BY RepliesAssumption DEF Proved!RepliesAssumption
<1>5. Proved!FaultAssumption
  BY FaultAssumption DEF Proved!FaultAssumption
<1>6. Proved!LockstepAssumption
  BY LoopAssumption DEF Proved!LockstepAssumption, LoopAssumption
<1>7. Proved!VExecAssumption
  BY OutcomesAssumption DEF Proved!VExecAssumption
<1> QED BY <1>1, <1>2, <1>3, <1>4, <1>5, <1>6, <1>7

LEMMA SameActions ==
  /\ Loop!Init => Proved!Init
  /\ Loop!Next => Proved!Next
  /\ Proved!vars = Loop!vars
<1>1. \A m, inst : Proved!AfterInst(m, inst) = Loop!AfterInst(m, inst)
  BY DEF Proved!AfterInst, Loop!AfterInst, Proved!WordOf, Loop!WordOf, Proved!Merge, Loop!Merge,
         Proved!Lanes, Loop!Lanes
<1>2. Proved!Settled = Loop!Settled
  BY <1>1 DEF Proved!Settled, Loop!Settled
<1>3. /\ \A core : Proved!ArchOf(core) = Loop!ArchOf(core)
      /\ \A core, x : Proved!Retire(core, x) = Loop!Retire(core, x)
      /\ \A core, inst : Proved!Unreported(core, inst) = Loop!Unreported(core, inst)
      /\ \A core, a0 : Proved!Returned(core, a0) = Loop!Returned(core, a0)
  BY DEF Proved!ArchOf, Loop!ArchOf, Proved!Retire, Loop!Retire, Proved!Unreported,
         Loop!Unreported, Proved!Returned, Loop!Returned
<1>4. \A core : Proved!Upset(core) = Loop!Upset(core)
  BY DEF Proved!Upset, Loop!Upset, Proved!inject_fault, Loop!inject_fault
<1>5. \A f, v : Proved!Validate(f, v) <=> Loop!Validate(f, v)
  BY DEF Proved!Validate, Loop!Validate, Proved!Masked, Loop!Masked, Proved!Lanes, Loop!Lanes
<1>6. Proved!hostVars = Loop!hostVars /\ Proved!vars = Loop!vars
  BY DEF Proved!hostVars, Loop!hostVars, Proved!vars, Loop!vars
<1>7. Loop!FExecute => Proved!FExecute
  BY <1>1, <1>3, <1>6 DEF Proved!FExecute, Loop!FExecute, Proved!FRetires, Loop!FRetires,
         Proved!LimitReached,
     Loop!LimitReached, Proved!hostVars, Loop!hostVars
<1>8. Loop!FUnknown => Proved!FUnknown
  BY <1>3 DEF Proved!FUnknown, Loop!FUnknown, Proved!FFails, Loop!FFails, Proved!hostVars,
         Loop!hostVars
<1>9. Loop!VIdle => Proved!VIdle
  BY <1>2, <1>3, <1>4 DEF Proved!VIdle, Loop!VIdle, Proved!VStalls, Loop!VStalls, Proved!Loops,
         Loop!Loops,
     Proved!hostVars, Loop!hostVars
<1>10. Loop!VRetire => Proved!VRetire
  BY <1>1, <1>2, <1>3, <1>4 DEF Proved!VRetire, Loop!VRetire, Proved!VReports, Loop!VReports,
         Proved!Loops, Loop!Loops,
     Proved!hostVars, Loop!hostVars
<1>11. Loop!Mismatch => Proved!Mismatch
  BY <1>5 DEF Proved!Mismatch, Loop!Mismatch, Proved!Disagree, Loop!Disagree, Proved!ShownLogs,
         Loop!ShownLogs,
     Proved!Oldest, Loop!Oldest
<1>12. /\ Proved!SaveLog <=> Loop!SaveLog
       /\ Proved!IsCall <=> Loop!IsCall
       /\ \A fh, vh : Proved!LoopOrStop(fh, vh) <=> Loop!LoopOrStop(fh, vh)
       /\ Proved!VStops <=> Loop!VStops
       /\ Proved!Caller = Loop!Caller
  BY DEF Proved!SaveLog, Loop!SaveLog, Proved!IsCall, Loop!IsCall, Proved!LoopOrStop,
         Loop!LoopOrStop,
     Proved!VStops, Loop!VStops, Proved!LimitReached, Loop!LimitReached, Proved!Caller,
            Loop!Caller
<1>13. Loop!Pass => Proved!Pass
  BY <1>5 DEF Proved!Pass, Loop!Pass, Proved!Agree, Loop!Agree, Proved!LoopOrStop,
         Loop!LoopOrStop,
     Proved!SaveLog, Loop!SaveLog, Proved!IsCall, Loop!IsCall, Proved!VStops, Loop!VStops,
            Proved!LimitReached, Loop!LimitReached
<1>14. \A t, prim, own : Proved!Transferred(t, prim, own) = Loop!Transferred(t, prim, own)
  <2>1. Proved!Lanes = Loop!Lanes /\ Proved!Words = Loop!Words
    BY DEF Proved!Lanes, Loop!Lanes, Proved!Words, Loop!Words
  <2>2. \A t, w, l : Proved!BytesAt(t, w, l) = Loop!BytesAt(t, w, l)
    BY DEF Proved!BytesAt, Loop!BytesAt, Proved!WordOf, Loop!WordOf, Proved!LaneOf, Loop!LaneOf
  <2>3. \A t, w : Proved!Touches(t, w) <=> Loop!Touches(t, w)
    BY <2>1, <2>2 DEF Proved!Touches, Loop!Touches
  <2>4. \A t, w, old : Proved!Overlay(t, w, old) = Loop!Overlay(t, w, old)
    BY DEF Proved!Overlay, Loop!Overlay, Proved!BytesAt, Loop!BytesAt, Proved!Lanes, Loop!Lanes,
           Proved!WordOf, Loop!WordOf, Proved!LaneOf, Loop!LaneOf
  <2> QED BY <2>1, <2>3, <2>4 DEF Proved!Transferred, Loop!Transferred
<1>15. Loop!PassCall => Proved!PassCall
  BY <1>3, <1>5, <1>12, <1>14 DEF Proved!PassCall, Loop!PassCall, Proved!Emulates, Loop!Emulates
<1>16. Loop!Init => Proved!Init
  BY DEF Proved!Init, Loop!Init, Proved!InitCore, Loop!InitCore, Proved!Slots, Loop!Slots
<1> QED
  BY <1>6, <1>7, <1>8, <1>9, <1>10, <1>11, <1>13, <1>15, <1>16 DEF Proved!Next, Loop!Next

LEMMA LoopIsProved == SysSpec => Proved!Spec
<1>1. Loop!Init => Proved!Init
  BY SameActions
<1>2. [Loop!Next]_(Loop!vars) => [Proved!Next]_(Proved!vars)
  BY SameActions DEF Loop!vars, Proved!vars
<1> QED BY <1>1, <1>2, LoopOnSharedMemory, PTL DEF LoopSpec, Loop!Spec, Proved!Spec

LEMMA SameSettled == Proved!Settled = Loop!Settled
BY DEF Proved!Settled, Loop!Settled, Proved!AfterInst, Loop!AfterInst, Proved!WordOf, Loop!WordOf,
       Proved!Merge, Loop!Merge, Proved!Lanes, Loop!Lanes

(* A verilated core that computes what the functional core computes, and    *)
(* reports before the timeout, retires the same instructions and is never   *)
(* accused, also when both cores work on the one memory of memory.cpp and   *)
(* early and late stores of theirs to a word meet in its write buffers.     *)
THEOREM CorrectCoreOnSharedMemory ==
  ASSUME Proved!AllKnown, Proved!CorrectVcore
  PROVE  SysSpec => [](Loop!InStep /\ Loop!NoFalseAlarm)
<1>1. Proved!InStep /\ Proved!NoFalseAlarm => Loop!InStep /\ Loop!NoFalseAlarm
  BY SameSettled DEF Proved!InStep, Loop!InStep, Proved!NoFalseAlarm, Loop!NoFalseAlarm,
              Proved!ArchOf, Loop!ArchOf
<1> QED
  BY <1>1, LoopIsProved, LoopMeets, Proved!CorrectVcoreInStep, Proved!CorrectVcoreNotAccused, PTL

(* At the head of an iteration both cores read the same from the one memory *)
(* they share, with the store on its way to vcore's bus, whatever each of   *)
(* them has buffered and whatever else vcore got wrong on the way, if a     *)
(* store that passes the Validator writes the lanes fcore's store writes.   *)
THEOREM CoresReadTheSame ==
  ASSUME Proved!MasksSound
  PROVE  SysSpec => []Loop!MemoriesAgree
<1>1. Proved!MemoriesAgree => Loop!MemoriesAgree
  BY SameSettled DEF Proved!MemoriesAgree, Loop!MemoriesAgree
<1> QED BY <1>1, LoopIsProved, LoopMeets, Proved!PassedStoresAgree, PTL

(* With any verilated core, right or wrong, on the shared memory: the two   *)
(* counts agree where the loop says so, the loop goes on only after both    *)
(* cores took part, and a mismatch shows the last instructions, the oldest  *)
(* first.                                                                   *)
THEOREM AnyCoreOnSharedMemory ==
  SysSpec => []Loop!CountsAgree /\ Loop!GoesOnOnlyAfterBoth /\ []Loop!LastInstructions
<1>1. Proved!CountsAgree => Loop!CountsAgree
  BY DEF Proved!CountsAgree, Loop!CountsAgree
<1>2. Proved!GoesOnOnlyAfterBoth => Loop!GoesOnOnlyAfterBoth
  <2>1. [stage = "check" /\ stage' = "fetch"
           => /\ fcore.instif.valid /\ vcore.instif.valid
              /\ fcore.cnt_inst < MaxInsts]_(Proved!vars)
        => [stage = "check" /\ stage' = "fetch"
              => /\ fcore.instif.valid /\ vcore.instif.valid
                 /\ fcore.cnt_inst < MaxInsts]_(Loop!vars)
    BY DEF Proved!vars, Loop!vars
  <2> QED BY <2>1, PTL DEF Proved!GoesOnOnlyAfterBoth, Loop!GoesOnOnlyAfterBoth
<1>3. Proved!LastInstructions => Loop!LastInstructions
  BY DEF Proved!LastInstructions, Loop!LastInstructions, Proved!Numbered, Loop!Numbered
<1> QED
  BY <1>1, <1>2, <1>3, LoopIsProved, LoopMeets, Proved!CountersAgree, Proved!BothTookPart,
     Proved!LastShown, PTL

(* No step of the loop is for nothing on the shared memory either: each one *)
(* takes from what is left of the body or of the limit (option -l), so no   *)
(* run of the composition goes on for ever.                                 *)
THEOREM StepsUsedUpOnSharedMemory == SysSpec => Loop!EveryStepCounts
<1>1. Proved!Remaining = Loop!Remaining /\ Proved!Remaining' = Loop!Remaining'
  BY DEF Proved!Remaining, Loop!Remaining, Proved!Left, Loop!Left, Proved!Place, Loop!Place
<1>2. [Proved!Remaining' \in Nat /\ Proved!Remaining' < Proved!Remaining]_(Proved!vars)
        => [Loop!Remaining' \in Nat /\ Loop!Remaining' < Loop!Remaining]_(Loop!vars)
  BY <1>1 DEF Proved!vars, Loop!vars
<1>3. Proved!EveryStepCounts => Loop!EveryStepCounts
  BY <1>2, PTL DEF Proved!EveryStepCounts, Loop!EveryStepCounts
<1> QED BY <1>3, LoopIsProved, LoopMeets, Proved!StepsUsedUp, PTL

(* One run of the functional core seen from either instance of the loop. *)
LEMMA SameReference ==
  /\ Proved!Reference!Init => Loop!Reference!Init
  /\ Proved!ReferenceStep => Loop!ReferenceStep
<1>1. \A m, inst : Proved!Reference!AfterInst(m, inst) = Loop!Reference!AfterInst(m, inst)
  BY DEF Proved!Reference!AfterInst, Loop!Reference!AfterInst, Proved!Reference!WordOf,
         Loop!Reference!WordOf, Proved!Reference!Merge, Loop!Reference!Merge,
         Proved!Reference!Lanes, Loop!Reference!Lanes
<1>2. /\ \A core : Proved!Reference!ArchOf(core) = Loop!Reference!ArchOf(core)
      /\ \A core, x : Proved!Reference!Retire(core, x) = Loop!Reference!Retire(core, x)
      /\ \A core, inst :
           Proved!Reference!Unreported(core, inst) = Loop!Reference!Unreported(core, inst)
      /\ \A core, a0 : Proved!Reference!Returned(core, a0) = Loop!Reference!Returned(core, a0)
  BY DEF Proved!Reference!ArchOf, Loop!Reference!ArchOf, Proved!Reference!Retire,
         Loop!Reference!Retire, Proved!Reference!Unreported, Loop!Reference!Unreported,
         Proved!Reference!Returned, Loop!Reference!Returned
<1>3. \A t, prim, own :
        Proved!Reference!Transferred(t, prim, own) = Loop!Reference!Transferred(t, prim, own)
  <2>1. Proved!Reference!Words = Loop!Reference!Words
    BY DEF Proved!Reference!Words, Loop!Reference!Words
  <2>2. \A t, w : Proved!Reference!Touches(t, w) <=> Loop!Reference!Touches(t, w)
    BY DEF Proved!Reference!Touches, Loop!Reference!Touches, Proved!Reference!Lanes,
           Loop!Reference!Lanes, Proved!Reference!BytesAt, Loop!Reference!BytesAt,
           Proved!Reference!WordOf, Loop!Reference!WordOf, Proved!Reference!LaneOf,
           Loop!Reference!LaneOf
  <2>3. \A t, w, old : Proved!Reference!Overlay(t, w, old) = Loop!Reference!Overlay(t, w, old)
    BY DEF Proved!Reference!Overlay, Loop!Reference!Overlay, Proved!Reference!Lanes,
           Loop!Reference!Lanes, Proved!Reference!BytesAt, Loop!Reference!BytesAt,
           Proved!Reference!WordOf, Loop!Reference!WordOf, Proved!Reference!LaneOf,
           Loop!Reference!LaneOf
  <2> QED BY <2>1, <2>2, <2>3 DEF Proved!Reference!Transferred, Loop!Reference!Transferred
<1>4. Proved!Reference!Execute => Loop!Reference!Execute
  BY <1>1, <1>2 DEF Proved!Reference!Execute, Loop!Reference!Execute
<1>5. Proved!Reference!Unknown => Loop!Reference!Unknown
  BY <1>2 DEF Proved!Reference!Unknown, Loop!Reference!Unknown
<1>6. \A r : Proved!Reference!Emulate(r) => Loop!Reference!Emulate(r)
  BY <1>2, <1>3 DEF Proved!Reference!Emulate, Loop!Reference!Emulate
<1>7. ASSUME NEW stopped \in BOOLEAN, Proved!Reference!Finish(stopped)
      PROVE  Loop!Reference!Finish(stopped)
  BY <1>6, <1>7 DEF Proved!Reference!Finish, Loop!Reference!Finish, Proved!Reference!IsCall,
         Loop!Reference!IsCall, Proved!Reference!Stops, Loop!Reference!Stops
<1>8. Proved!CutShort => Loop!CutShort
  BY DEF Proved!CutShort, Loop!CutShort
<1>9. Proved!Reference!Init => Loop!Reference!Init
  BY DEF Proved!Reference!Init, Loop!Reference!Init, Proved!Reference!InitCore,
         Loop!Reference!InitCore
<1> QED
  BY <1>4, <1>5, <1>7, <1>8, <1>9 DEF Proved!ReferenceStep, Loop!ReferenceStep

(* On the shared memory, too, what the program and the host see is a run of *)
(* the functional core that the verilated core can only cut short, as long  *)
(* as no system call is emulated for a report that is none.  What the other *)
(* core's stores leave in the write buffers and the array never shows.      *)
THEOREM ProgramOnSharedMemory == SysSpec /\ []Loop!CallsReported => HostSeesProgram
<1>1. Loop!CallsReported => Proved!CallsReported
  BY DEF Loop!CallsReported, Proved!CallsReported, Loop!IsCall, Proved!IsCall
<1>2. Proved!Reference!Init => Loop!Reference!Init
  BY SameReference
<1>3. [Proved!ReferenceStep]_(Proved!Reference!vars)
        => [Loop!ReferenceStep]_(Loop!Reference!vars)
  BY SameReference DEF Proved!Reference!vars, Loop!Reference!vars
<1>4. Proved!Spec /\ []Proved!CallsReported => Proved!HostSeesReference
  BY LoopMeets, Proved!HostSeesOneRun
<1> QED
  BY <1>1, <1>2, <1>3, <1>4, LoopIsProved, PTL
  DEF HostSeesProgram, Loop!HostSeesReference, Proved!HostSeesReference

(* A program of instructions the functional core knows needs no proviso.    *)
COROLLARY KnownProgramOnSharedMemory == ASSUME Proved!AllKnown PROVE SysSpec => HostSeesProgram
<1>1. Proved!Reference!Init => Loop!Reference!Init
  BY SameReference
<1>2. [Proved!ReferenceStep]_(Proved!Reference!vars)
        => [Loop!ReferenceStep]_(Loop!Reference!vars)
  BY SameReference DEF Proved!Reference!vars, Loop!Reference!vars
<1> QED
  BY <1>1, <1>2, LoopIsProved, LoopMeets, Proved!HostSeesKnownProgram, PTL
  DEF HostSeesProgram, Loop!HostSeesReference, Proved!HostSeesReference

--------------------------------------------------------------------------------
(* The primary's write buffer.  A word gets into it by a store of fcore and *)
(* leaves it when the store vcore reports for the instruction lands.        *)
StoresTo(inst, w) == Attr[inst.ir] = "store" /\ w = WordOf(inst.d_addr)
Pending(w) == late # None /\ StoresTo(late, w)

DrainInv ==
  \A w \in Words : Buffered(Prim, w) =>
    /\ stage = "fetch" => Pending(w)
    /\ stage = "wait" => Pending(w) \/ StoresTo(fcore.instif, w)
    /\ stage = "check" => /\ StoresTo(fcore.instif, w)
                          /\ vcore.instif.valid /\ StoresTo(vcore.instif, w) => Pending(w)

LEMMA BufferedByStore ==
  ASSUME TypeOK, NEW req \in Request, PrimaryCycle(req), NEW w \in Words, Buffered(Prim, w)'
  PROVE  Buffered(Prim, w) \/ (Stores(req) /\ w = WordOf(req.d_addr))
<1>1. wb'[Prim] = BufferAfter(Prim, req) /\ wb[Prim] \in [Words -> Word \cup {Absent}]
  BY TwoCores DEF PrimaryCycle, TypeOK
<1> QED BY <1>1 DEF BufferAfter, Buffered

LEMMA FreedByReplica ==
  ASSUME TypeOK, NEW inst \in InstIF \cup {None}, VCycle(inst), NEW w \in Words,
         Buffered(Prim, w)'
  PROVE  Buffered(Prim, w) /\ ~ (inst # None /\ StoresTo(inst, w))
<1>1. PICK req \in VBus(inst) : ReplicaCycle([r \in Reps |-> req])
  BY DEF VCycle
<1> DEFINE reqs == [r \in Reps |-> req]
           b == [c \in Cores |-> IF c \in Reps THEN BufferAfter(c, reqs[c]) ELSE wb[c]]
<1>2. wb' = CleanedBuffers(b)
  BY <1>1, TwoCores DEF ReplicaCycle
<1>3. b[Prim] = wb[Prim] /\ b[Rep] = BufferAfter(Rep, req)
  BY TwoCores, CoresAssumption
<1> HIDE DEF b
<1>4. wb'[Prim][w] = IF AllBuffered(b, w) /\ b[Prim][w] = b[Prim][w] THEN Absent ELSE b[Prim][w]
  BY <1>2, TwoCores DEF CleanedBuffers
<1>5. ~ AllBuffered(b, w) /\ b[Prim][w] # Absent
  BY <1>4 DEF Buffered
<1>6. Buffered(Prim, w)
  BY <1>3, <1>5 DEF Buffered
<1>7. b[Rep][w] = Absent
  BY <1>5, TwoCores DEF AllBuffered
<1>8. ASSUME inst # None, StoresTo(inst, w) PROVE FALSE
  <2>1. req \in Request /\ Stores(req) /\ WordOf(req.d_addr) = w
    BY <1>8, VBusType DEF StoresTo
  <2>2. Merge(Read(Rep, w), req.d_wdata, req.d_wmask) \in Word
    BY <2>1, SeenType, MergeType, TwoCores DEF Request
  <2>3. b[Rep][w] = Merge(Read(Rep, w), req.d_wdata, req.d_wmask)
    BY <1>3, <2>1, TwoCores DEF BufferAfter, TypeOK
  <2> QED BY <1>7, <2>2, <2>3, AbsentAssumption
<1> QED BY <1>6, <1>8

(* fcore's cycle. *)
LEMMA DrainFetch == ASSUME SysTypeOK, DrainInv, FCycle PROVE DrainInv'
<1> DEFINE x == Exec(ArchOf(fcore), Seen(Prim))
<1>0. TypeOK /\ fcore.instif \in InstIF
  BY DEF SysTypeOK, Core
<1>1. ASSUME NEW fetch \in Addr, Loop!FRetires(x), PrimaryCycle(Access(x.instif, fetch))
      PROVE  DrainInv'
  <2>1. stage = "fetch" /\ stage' = "wait" /\ late' = late /\ fcore' = Retire(fcore, x)
    BY <1>1, SameLoop DEF Loop!FRetires
  <2>2. x.instif \in InstIF
    BY ExecType
  <2>3. \A w : StoresTo(fcore'.instif, w) <=> StoresTo(x.instif, w)
    BY <2>1, <2>2 DEF Retire, InstIF, StoresTo
  <2>4. ASSUME NEW w \in Words, Buffered(Prim, w)' PROVE Pending(w) \/ StoresTo(x.instif, w)
    <3>1. Access(x.instif, fetch) \in Request
      BY <2>2, AccessType
    <3>2. Buffered(Prim, w) \/ (Stores(Access(x.instif, fetch)) /\ w = WordOf(x.instif.d_addr))
      BY <1>0, <1>1, <2>4, <3>1, BufferedByStore DEF Access
    <3>3. Stores(Access(x.instif, fetch)) => Attr[x.instif.ir] = "store"
      BY DEF Stores, Access
    <3> QED BY <2>1, <3>2, <3>3 DEF DrainInv, StoresTo
  <2> HIDE DEF x
  <2>5. \A w : Pending(w)' <=> Pending(w)
    BY <2>1 DEF Pending
  <2> QED BY <2>1, <2>3, <2>4, <2>5 DEF DrainInv
<1>2. ASSUME NEW fetch \in Addr, Loop!FFails(x), PrimaryCycle(NoAccess(fcore.instif, fetch))
      PROVE  DrainInv'
  <2>1. stage = "fetch" /\ stage' = "wait" /\ late' = late
    BY <1>2 DEF Loop!FFails
  <2>2. NoAccess(fcore.instif, fetch) \in Request /\ ~ Stores(NoAccess(fcore.instif, fetch))
    BY <1>0, AccessType DEF NoAccess, Access, Stores
  <2>3. \A w \in Words : Buffered(Prim, w)' => Pending(w)
    BY <1>0, <1>2, <2>1, <2>2, BufferedByStore DEF DrainInv
  <2>4. \A w : Pending(w)' <=> Pending(w)
    BY <2>1 DEF Pending
  <2> QED BY <2>1, <2>3, <2>4 DEF DrainInv
<1> QED BY <1>1, <1>2 DEF FCycle

(* vcore's cycles: after one the late store is not pending any more. *)
LEMMA DrainSilent == ASSUME SysTypeOK, DrainInv, VSilent PROVE DrainInv'
<1>1. stage = "wait" /\ stage' \in {"wait", "check"} /\ fcore' = fcore
  BY DEF VSilent, Loop!VStalls
<1>2. ~ vcore'.instif.valid
  <2>1. PICK inst \in {vcore.instif} \cup {y.instif : y \in Outcomes} :
          vcore' \in Upset(Unreported(vcore, inst))
    BY SameLoop DEF VSilent, Loop!VStalls
  <2>2. inst \in InstIF
    BY <2>1, OutcomeType DEF SysTypeOK, Core
  <2>3. Unreported(vcore, inst) \in Core /\ ~ Unreported(vcore, inst).instif.valid
    BY <2>2 DEF Unreported, SysTypeOK, Core, InstIF
  <2> QED BY <2>1, <2>3, UpsetType
<1>3. ASSUME NEW w \in Words, Buffered(Prim, w)' PROVE StoresTo(fcore.instif, w)
  <2>1. Buffered(Prim, w) /\ ~ Pending(w)
    BY <1>3, FreedByReplica DEF VSilent, SysTypeOK, Pending
  <2> QED BY <1>1, <2>1 DEF DrainInv
<1> QED BY <1>1, <1>2, <1>3 DEF DrainInv

LEMMA DrainCommit == ASSUME SysTypeOK, DrainInv, VCommit PROVE DrainInv'
<1>1. PICK x \in Outcomes, d \in Deferred :
        /\ Loop!VReports(x, d)
        /\ \/ d /\ VCycle(late)
           \/ ~ d /\ late = None /\ VCycle(x.instif)
  BY DEF VCommit
<1>2. stage = "wait" /\ stage' = "check" /\ fcore' = fcore
      /\ late' = (IF d THEN x.instif ELSE None) /\ vcore' \in Upset(Retire(vcore, x))
  BY <1>1, SameLoop DEF Loop!VReports
<1>3. x.arch \in Arch /\ x.instif \in InstIF /\ x.instif # None
  BY OutcomeType, LoopAssumption
<1>4. vcore'.instif = [x.instif EXCEPT !.valid = TRUE]
  <2>1. Retire(vcore, x) \in Core
    BY <1>3, RetireType DEF SysTypeOK
  <2> QED BY <1>2, <2>1, UpsetType DEF Retire
<1>5. \A w : StoresTo(vcore'.instif, w) <=> StoresTo(x.instif, w)
  BY <1>3, <1>4 DEF InstIF, StoresTo
<1>6. ASSUME NEW w \in Words, Buffered(Prim, w)'
      PROVE  StoresTo(fcore.instif, w) /\ (StoresTo(x.instif, w) => d)
  <2>1. CASE d /\ VCycle(late)
    BY <1>2, <1>6, <2>1, FreedByReplica DEF SysTypeOK, DrainInv, Pending
  <2>2. CASE ~ d /\ late = None /\ VCycle(x.instif)
    BY <1>2, <1>3, <1>6, <2>2, FreedByReplica DEF SysTypeOK, DrainInv, Pending
  <2> QED BY <1>1, <2>1, <2>2
<1>7. \A w : d => (Pending(w)' <=> StoresTo(x.instif, w))
  BY <1>2, <1>3 DEF Pending, StoresTo
<1> QED BY <1>2, <1>5, <1>6, <1>7 DEF DrainInv

(* The end of an iteration: both cores reported the same store, or none. *)
LEMMA DrainAgreed ==
  ASSUME DrainInv, stage = "check", stage' \in {"fetch", "done"},
         stage' = "fetch" => vcore.instif.valid,
         Loop!Validate(fcore.instif, vcore.instif), late' = late,
         \A w \in Words : Buffered(Prim, w)' => Buffered(Prim, w)
  PROVE  DrainInv'
<1>1. ASSUME NEW w \in Words, Buffered(Prim, w), stage' = "fetch" PROVE Pending(w)
  <2>1. StoresTo(fcore.instif, w) /\ (StoresTo(vcore.instif, w) => Pending(w))
    BY <1>1 DEF DrainInv
  <2>2. fcore.instif.ir = vcore.instif.ir /\ fcore.instif.d_addr = vcore.instif.d_addr
    BY <2>1 DEF Loop!Validate, StoresTo
  <2> QED BY <2>1, <2>2 DEF StoresTo
<1>2. \A w : Pending(w)' <=> Pending(w)
  BY DEF Pending
<1> QED BY <1>1, <1>2 DEF DrainInv

LEMMA DrainInvariant == SysSpec => []DrainInv
<1>1. SysInit => DrainInv
  BY TwoCores DEF SysInit, DrainInv, Buffered
<1>2. SysTypeOK /\ DrainInv /\ [SysNext]_sysVars => DrainInv'
  <2> SUFFICES ASSUME SysTypeOK, DrainInv, [SysNext]_sysVars PROVE DrainInv'
    OBVIOUS
  <2>1. CASE Checked
    <3>1. \A w \in Words : Buffered(Prim, w)' => Buffered(Prim, w)
      BY <2>1 DEF Checked, vars, Buffered
    <3>2. CASE Loop!Disagree
      BY <3>2 DEF Loop!Disagree, DrainInv
    <3>3. CASE Loop!Agree
      <4>1. stage = "check" /\ late' = late /\ Loop!LoopOrStop(fhalt, Loop!VStops)
            /\ Loop!Validate(fcore.instif, vcore.instif)
        BY <3>3 DEF Loop!Agree
      <4>2. stage' \in {"fetch", "done"} /\ (stage' = "fetch" => vcore.instif.valid)
        BY <4>1 DEF Loop!LoopOrStop, Loop!VStops
      <4> QED BY <3>1, <4>1, <4>2, DrainAgreed
    <3> QED BY <2>1, <3>2, <3>3 DEF Checked
  <2>2. CASE Called
    <3>1. PICK r \in Replies(Loop!Caller.reg, Seen(Prim)) : Loop!Emulates(r) /\ Transfer(r.xfer)
      BY <2>2 DEF Called
    <3>2. \A w \in Words : Buffered(Prim, w)' => Buffered(Prim, w)
      BY <3>1, TwoCores DEF Transfer, Buffered
    <3>3. stage = "check" /\ late' = late
          /\ Loop!LoopOrStop(fhalt \/ r.exit, Loop!VStops \/ r.exit)
          /\ Loop!Validate(fcore.instif, vcore.instif)
      BY <3>1 DEF Loop!Emulates
    <3>4. stage' \in {"fetch", "done"} /\ (stage' = "fetch" => vcore.instif.valid)
      BY <3>3 DEF Loop!LoopOrStop, Loop!VStops
    <3> QED BY <3>2, <3>3, <3>4, DrainAgreed
  <2>3. CASE UNCHANGED sysVars
    BY <2>3 DEF sysVars, vars, DrainInv, Buffered, Pending
  <2> QED BY <2>1, <2>2, <2>3, DrainFetch, DrainSilent, DrainCommit DEF SysNext
<1> QED BY <1>1, <1>2, SysTypeCorrect, PTL DEF SysSpec

(* The primary's write buffer never holds more than the one store that is   *)
(* reported and not made yet when an iteration starts.                      *)
THEOREM PrimaryBufferDrained == SysSpec => []PrimaryDrained
<1>1. DrainInv => PrimaryDrained
  BY DEF DrainInv, PrimaryDrained, Pending, StoresTo
<1> QED BY <1>1, DrainInvariant, PTL
================================================================================
