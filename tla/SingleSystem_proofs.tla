-------------------------- MODULE SingleSystem_proofs --------------------------
(***************************************************************************)
(* Theorems of SingleSystem, for every program, host, memory and limit and *)
(* every RTL behind the wrappers of the verilated cores.                   *)
(***************************************************************************)
EXTENDS SingleSystem, Memory_proofs

LEMMA AccessType ==
  ASSUME NEW inst \in InstIF, NEW fetch \in Addr
  PROVE  Access(inst, fetch) \in Request /\ NoAccess(inst, fetch) \in Request
<1>1. Access(inst, fetch) \in Request
  BY DEF Access, InstIF, Request
<1> QED BY <1>1 DEF NoAccess, Request

LEMMA ExecType ==
  ASSUME NEW a \in Arch, NEW m \in Image
  PROVE  Exec(a, m).arch \in Arch /\ Exec(a, m).instif \in InstIF
BY ExecAssumption

LEMMA ValidType ==
  ASSUME NEW inst \in InstIF, NEW b \in BOOLEAN
  PROVE  [inst EXCEPT !.valid = b] \in InstIF /\ [inst EXCEPT !.valid = b].valid = b
BY DEF InstIF

LEMMA CoreReturnedType ==
  ASSUME SysTypeOK, NEW a0 \in Val \cup {Keep}
  PROVE  CoreReturned(a0) \in IF Functional THEN Arch ELSE Rtl
<1>1. CASE a0 = Keep
  BY <1>1 DEF CoreReturned, SysTypeOK
<1>2. CASE a0 # Keep /\ Functional
  <2>1. core \in Arch /\ a0 \in Val /\ A0 \in Reg
    BY <1>2, ProgramAssumption DEF SysTypeOK
  <2>2. CoreReturned(a0) = [core EXCEPT !.reg = [core.reg EXCEPT ![A0] = a0]]
    BY <1>2, <2>1 DEF CoreReturned
  <2>3. [core.reg EXCEPT ![A0] = a0] \in [Reg -> Val]
    BY <2>1 DEF Arch
  <2> QED BY <1>2, <2>1, <2>2, <2>3 DEF Arch
<1>3. CASE a0 # Keep /\ ~ Functional
  <2>1. core \in Rtl /\ a0 \in Val /\ model \in Models \ {"functional"}
    BY <1>3 DEF SysTypeOK, Functional
  <2> QED BY <1>3, <2>1, RtlAssumption DEF CoreReturned
<1> QED BY <1>1, <1>2, <1>3

Typed == TypeOK /\ SysTypeOK

LEMMA SysTypeInit == SysInit => Typed
<1> SUFFICES ASSUME SysInit PROVE Typed
  OBVIOUS
<1>1. TypeOK
  BY ZeroType, ProgramAssumption DEF SysInit, TypeOK, ReadRegs
<1>2. core \in IF Functional THEN Arch ELSE Rtl
  BY ProgramAssumption, RtlAssumption DEF SysInit, Functional
<1>3. inputs \in ReadRegs
  BY ZeroType DEF SysInit, ReadRegs, Cores
<1> QED
  BY <1>1, <1>2, <1>3, ProgramAssumption, RequestsAssumption DEF SysInit, Typed, SysTypeOK, TypeOK

LEMMA LatchTyped == ASSUME Typed, Latch PROVE Typed'
<1>1. TypeOK'
  BY DEF Typed, TypeOK, Latch, vars
<1>2. core' \in IF Functional' THEN Arch ELSE Rtl
  BY DEF Typed, SysTypeOK, Latch, Functional
<1> QED BY <1>1, <1>2 DEF Typed, SysTypeOK, Latch, Latched, vars

LEMMA FunctionalDriveTyped == ASSUME Typed, FunctionalDrive PROVE Typed'
<1> DEFINE x == Exec(core, Seen(Prim))
<1>1. core \in Arch /\ Seen(Prim) \in Image
  BY SeenType DEF Typed, SysTypeOK, FunctionalDrive, Cores, Image
<1>2. x.arch \in Arch /\ x.instif \in InstIF
  BY <1>1, ExecType
<1>3. TypeOK'
  BY DEF Typed, TypeOK, FunctionalDrive, vars
<1>4. memif.i_addr \in Addr /\ instif \in InstIF /\ cnt_inst \in Nat
  BY DEF Typed, SysTypeOK, Request
<1>5. /\ core' \in Arch /\ instif' \in InstIF /\ memif' \in Request
      /\ cnt_inst' \in Nat /\ fail' \in BOOLEAN
  <2>1. CASE x.known
    <3>1. /\ core' = x.arch /\ instif' = [x.instif EXCEPT !.valid = TRUE]
          /\ memif' = Access(x.instif, memif.i_addr) /\ cnt_inst' = cnt_inst + 1
          /\ fail' = fail
      BY <2>1 DEF FunctionalDrive
    <3>2. fail \in BOOLEAN
      BY DEF Typed, SysTypeOK
    <3> HIDE DEF x
    <3>3. instif' \in InstIF
      BY <1>2, <3>1, ValidType
    <3>4. memif' \in Request
      BY <1>2, <1>4, <3>1, AccessType
    <3> QED BY <1>2, <1>4, <3>1, <3>2, <3>3, <3>4
  <2>2. CASE ~ x.known
    BY <1>1, <1>4, <2>2, AccessType, ValidType DEF FunctionalDrive
  <2> QED BY <2>1, <2>2
<1>6. Functional' /\ step' = "relatch"
  BY DEF FunctionalDrive, Functional
<1> QED BY <1>3, <1>5, <1>6 DEF Typed, SysTypeOK, FunctionalDrive, vars

LEMMA VerilatedDriveTyped == ASSUME Typed, VerilatedDrive PROVE Typed'
<1>1. model \in Models \ {"functional"} /\ core \in Rtl
  BY DEF Typed, SysTypeOK, VerilatedDrive, Functional
<1>2. rdata[Prim] \in ReadRegs
  BY DEF Typed, SysTypeOK, Cores
<1>3. memif' \in Request /\ inputs' \in ReadRegs
  BY <1>1, <1>2, RtlAssumption DEF VerilatedDrive
<1>4. TypeOK'
  BY DEF Typed, TypeOK, VerilatedDrive, vars
<1>5. core' \in IF Functional' THEN Arch ELSE Rtl
  BY <1>1 DEF VerilatedDrive, Functional
<1> QED BY <1>3, <1>4, <1>5 DEF Typed, SysTypeOK, VerilatedDrive, vars

LEMMA UpdateTyped == ASSUME Typed, Update PROVE Typed'
<1>1. TypeOK'
  BY PrimaryType DEF Typed, SysTypeOK, Update
<1>2. CASE Functional
  <2>1. UNCHANGED <<instif, memif, core, cnt_inst>> /\ Functional'
    BY <1>2 DEF Update, Functional
  <2> QED BY <1>1, <1>2, <2>1 DEF Typed, SysTypeOK, TypeOK, Update
<1>3. CASE ~ Functional
  <2>1. model \in Models \ {"functional"} /\ core \in Rtl /\ inputs \in ReadRegs
    BY <1>3 DEF Typed, SysTypeOK, Functional
  <2> DEFINE s == Edge(model, core, inputs)
  <2>2. s \in Rtl /\ Report(model, s, inputs) \in InstIF /\ Bus(model, s, inputs) \in Request
    BY <2>1, RtlAssumption
  <2>3. /\ instif' = Report(model, s, inputs) /\ memif' = Bus(model, s, inputs)
        /\ core' = MtvecOverride(s, instif') /\ cnt_inst' \in {cnt_inst, cnt_inst + 1}
        /\ ~ Functional'
    BY <1>3 DEF Update, VerilatedUpdate, Functional
  <2>4. instif'.pc \in PC
    BY <2>2, <2>3 DEF InstIF
  <2> HIDE DEF s
  <2>5. core' \in Rtl
    BY <2>1, <2>2, <2>3, <2>4, RtlAssumption DEF MtvecOverride
  <2>6. cnt_inst' \in Nat
    BY <2>3 DEF Typed, SysTypeOK
  <2> QED BY <1>1, <2>2, <2>3, <2>5, <2>6 DEF Typed, SysTypeOK, TypeOK, Update
<1> QED BY <1>2, <1>3

LEMMA BodyTyped == ASSUME Typed, Body PROVE Typed'
<1>1. TypeOK' /\ core' \in IF Functional THEN Arch ELSE Rtl
  <2>1. CASE IsCall
    <3>1. PICK r \in Replies(RegFile, Seen(Prim)) :
            core' = CoreReturned(r.a0) /\ Transfer(r.xfer)
      BY <2>1 DEF Body
    <3>2. RegFile \in [Reg -> Val]
      BY RtlAssumption DEF RegFile, Typed, SysTypeOK, Functional, Arch
    <3>3. Seen(Prim) \in Image
      BY SeenType DEF Typed, Cores, Image
    <3>4. Reply(r)
      BY <3>1, <3>2, <3>3, RepliesAssumption
    <3>5. r.a0 \in Val \cup {Keep} /\ IsTransfer(r.xfer)
      BY <3>4 DEF Reply
    <3> QED BY <3>1, <3>5, TransferType, CoreReturnedType DEF Typed
  <2>2. CASE ~ IsCall
    <3>1. core' = core /\ vars' = vars
      BY <2>2 DEF Body
    <3> QED BY <3>1 DEF Typed, TypeOK, SysTypeOK, vars
  <2> QED BY <2>1, <2>2
<1>2. halt' \in BOOLEAN
  <2>1. Stops \in BOOLEAN
    BY DEF Stops, Typed, SysTypeOK
  <2>2. CASE IsCall
    BY <2>2 DEF Body
  <2>3. CASE ~ IsCall
    BY <2>1, <2>3 DEF Body
  <2> QED BY <2>2, <2>3
<1>3. Functional' <=> Functional
  BY DEF Functional, Body
<1> QED BY <1>1, <1>2, <1>3 DEF Typed, SysTypeOK, TypeOK, Body

LEMMA TypedStep == Typed /\ [SysNext]_sysVars => Typed'
<1>1. ASSUME Typed, UNCHANGED sysVars PROVE Typed'
  BY <1>1 DEF Typed, TypeOK, SysTypeOK, sysVars, vars, Functional
<1> QED BY <1>1, LatchTyped, FunctionalDriveTyped, VerilatedDriveTyped, UpdateTyped, BodyTyped
           DEF SysNext

(* The loop, the wrappers and the memory keep their types, whatever RTL is  *)
(* behind the wrapper (sim_single.cpp, kronos_core.cpp, rvcorep_core.cpp).  *)
THEOREM SysTypeCorrect == SysSpec => []SysTypeOK
<1>1. Typed => SysTypeOK
  BY DEF Typed
<1> QED BY <1>1, TypedStep, SysTypeInit, PTL DEF SysSpec

--------------------------------------------------------------------------------
(* The outputs a verilated core shows before the edge follow the read data  *)
(* it has, and Memory's copy was taken after they did.                      *)
Settles ==
  ~ Functional =>
    /\ step \in {"relatch", "update"} => /\ inputs = rdata[Prim]
                                         /\ memif = Bus(model, core, inputs)
    /\ step = "update" => if_prim = memif

LEMMA SettlesInvariant == SysSpec => []Settles
<1>1. SysInit => Settles
  BY DEF SysInit, Settles
<1>2. Settles /\ [SysNext]_sysVars => Settles'
  <2> SUFFICES ASSUME Settles, [SysNext]_sysVars PROVE Settles'
    OBVIOUS
  <2>1. CASE Latch
    BY <2>1 DEF Latch, Latched, Settles, Functional, vars
  <2>2. CASE FunctionalDrive
    BY <2>2 DEF FunctionalDrive, Settles, Functional
  <2>3. CASE VerilatedDrive
    BY <2>3 DEF VerilatedDrive, Settles, Functional, vars
  <2>4. CASE Update
    BY <2>4 DEF Update, Settles, Functional
  <2>5. CASE Body
    BY <2>5 DEF Body, Settles, Functional
  <2>6. CASE UNCHANGED sysVars
    BY <2>6 DEF sysVars, vars, Settles, Functional
  <2> QED BY <2>1, <2>2, <2>3, <2>4, <2>5, <2>6 DEF SysNext
<1> QED BY <1>1, <1>2, PTL DEF SysSpec

(* A verilated core and the memory are clocked together: what the memory    *)
(* serves at an edge is the request the core's outputs show once they have  *)
(* followed the data of the edge before, for every RTL (core_wrapper/).     *)
THEOREM ClockedTogether == SysSpec => OneClock
<1>1. Typed /\ Settles /\ [SysNext]_sysVars =>
        [step = "update" /\ step' = "body" /\ ~ Functional =>
           LET r == rdata[Prim]
               req == Bus(model, core, r)
           IN  /\ core' \in {Edge(model, core, r)} \cup
                            {TrapTo(Edge(model, core, r), Behind(pc)) : pc \in PC}
               /\ rdata'[Prim] = ReadData(r, req, mem)
               /\ \A w \in Words : mem'[w] = IF Stores(req) /\ w = WordOf(req.d_addr)
                    THEN Merge(mem[w], req.d_wdata, req.d_wmask) ELSE mem[w]]_sysVars
  <2> DEFINE r == rdata[Prim]
             req == Bus(model, core, r)
             s == Edge(model, core, r)
  <2> SUFFICES ASSUME Typed, Settles, SysNext, step = "update", step' = "body", ~ Functional
               PROVE  /\ core' \in {s} \cup {TrapTo(s, Behind(pc)) : pc \in PC}
                      /\ rdata'[Prim] = ReadData(r, req, mem)
                      /\ \A w \in Words : mem'[w] = IF Stores(req) /\ w = WordOf(req.d_addr)
                           THEN Merge(mem[w], req.d_wdata, req.d_wmask) ELSE mem[w]
    OBVIOUS
  <2>1. Update
    BY DEF SysNext, Latch, FunctionalDrive, VerilatedDrive, Body
  <2>2. inputs = r /\ if_prim = req
    BY DEF Settles
  <2>3. PrimaryCycle(req) /\ VerilatedUpdate
    BY <2>1, <2>2 DEF Update
  <2>4. model \in Models \ {"functional"} /\ core \in Rtl /\ r \in ReadRegs
    BY DEF Typed, SysTypeOK, Functional, Cores
  <2>5. req \in Request /\ instif'.pc \in PC
    <3>1. s \in Rtl /\ instif' = Report(model, s, r)
      BY <2>2, <2>3, <2>4, RtlAssumption DEF VerilatedUpdate
    <3>2. instif' \in InstIF
      BY <2>4, <3>1, RtlAssumption
    <3> QED BY <2>4, <3>2, RtlAssumption DEF InstIF
  <2>6. core' \in {s} \cup {TrapTo(s, Behind(pc)) : pc \in PC}
    <3>1. core' = MtvecOverride(s, instif')
      BY <2>2, <2>3 DEF VerilatedUpdate
    <3> HIDE DEF s
    <3> QED BY <2>5, <3>1 DEF MtvecOverride
  <2> HIDE DEF req, s
  <2>7. WordOf(req.i_addr) \in Words /\ WordOf(req.d_addr) \in Words
    BY <2>5, WordOfType DEF Request
  <2>8. Single /\ \A w \in Words : Seen(Prim)[w] = mem[w]
    BY SingleAssumption DEF Single, Seen, Read
  <2>9. rdata'[Prim] = ReadData(r, req, mem)
    <3>1. rdata'[Prim] = ReadData(r, req, Seen(Prim))
      BY <2>3 DEF PrimaryCycle, Typed, SysTypeOK, Cores
    <3> QED BY <2>7, <2>8, <3>1 DEF ReadData
  <2>10. ASSUME NEW w \in Words
         PROVE  mem'[w] = IF Stores(req) /\ w = WordOf(req.d_addr)
                  THEN Merge(mem[w], req.d_wdata, req.d_wmask) ELSE mem[w]
    BY <2>3, <2>7, <2>8 DEF PrimaryCycle, Typed, SysTypeOK, Image
  <2> QED BY <2>6, <2>9, <2>10
<1>2. Typed /\ [SysNext]_sysVars => Typed'
  BY TypedStep
<1> QED BY <1>1, <1>2, SysTypeInit, SettlesInvariant, PTL DEF SysSpec, OneClock

--------------------------------------------------------------------------------
(* The calls emulated are behind the instruction counter, which the report  *)
(* of the next one has moved on.                                            *)
Fresh ==
  instif.valid /\ (step = "body" \/ (Functional /\ step \in {"relatch", "update"}))

Call == [cnt : Nat, reg : [Reg -> Val]]

CallsInv ==
  /\ calls \in Seq(Call)
  /\ \A k \in 1 .. Len(calls) : /\ calls[k].cnt \in Nat /\ calls[k].cnt <= cnt_inst
                                /\ Fresh => calls[k].cnt < cnt_inst
  /\ \A j, k \in 1 .. Len(calls) : j < k => calls[j].cnt < calls[k].cnt

LEMMA CallsKept ==
  ASSUME Typed, CallsInv, calls' = calls, cnt_inst' \in Nat, cnt_inst' >= cnt_inst,
         Fresh' => Fresh \/ cnt_inst' > cnt_inst
  PROVE  CallsInv'
<1>1. cnt_inst \in Nat
  BY DEF Typed, SysTypeOK
<1> QED BY <1>1 DEF CallsInv

LEMMA CallAppended ==
  ASSUME Typed, CallsInv, Fresh, ~ Fresh', cnt_inst' = cnt_inst,
         NEW reg \in [Reg -> Val],
         calls' = Append(calls, [cnt |-> cnt_inst, reg |-> reg])
  PROVE  CallsInv'
<1> DEFINE c == [cnt |-> cnt_inst, reg |-> reg]
           n == Len(calls)
<1>1. cnt_inst \in Nat /\ n \in Nat
  BY DEF Typed, SysTypeOK, CallsInv
<1>2. c \in Call /\ c.cnt = cnt_inst
  BY <1>1 DEF Call
<1>3. calls' = Append(calls, c) /\ calls \in Seq(Call)
  BY DEF CallsInv
<1> HIDE DEF c
<1>4. /\ calls' \in Seq(Call) /\ Len(calls') = n + 1 /\ calls'[n + 1] = c
      /\ \A k \in 1 .. n : calls'[k] = calls[k]
  BY <1>2, <1>3
<1>5. \A k \in 1 .. n : calls[k].cnt \in Nat /\ calls[k].cnt < cnt_inst
  BY DEF CallsInv
<1>6. \A k \in 1 .. n + 1 : calls'[k].cnt \in Nat /\ calls'[k].cnt <= cnt_inst
  BY <1>1, <1>2, <1>4, <1>5
<1>7. ASSUME NEW j \in 1 .. n + 1, NEW k \in 1 .. n + 1, j < k
      PROVE  calls'[j].cnt < calls'[k].cnt
  <2>1. j \in 1 .. n
    BY <1>1, <1>7
  <2>2. CASE k = n + 1
    BY <1>2, <1>4, <1>5, <2>1, <2>2
  <2>3. CASE k \in 1 .. n
    BY <1>4, <1>7, <2>1, <2>3 DEF CallsInv
  <2> QED BY <1>1, <2>2, <2>3
<1> HIDE DEF n
<1> QED BY <1>4, <1>6, <1>7 DEF CallsInv

(* No ecall is emulated twice, whatever the core shows in the cycles and    *)
(* failed iterations behind it (sim_single.cpp:30).                         *)
THEOREM EachCallOnce == SysSpec => []CallsOnce
<1>1. SysInit => CallsInv
  BY DEF SysInit, CallsInv
<1>2. Typed /\ CallsInv /\ [SysNext]_sysVars => CallsInv'
  <2> SUFFICES ASSUME Typed, CallsInv, [SysNext]_sysVars PROVE CallsInv'
    OBVIOUS
  <2>1. cnt_inst \in Nat
    BY DEF Typed, SysTypeOK
  <2>2. CASE Latch
    <3>1. calls' = calls /\ cnt_inst' = cnt_inst /\ (Fresh' => Fresh)
      BY <2>2 DEF Latch, Fresh, Functional
    <3> QED BY <2>1, <3>1, CallsKept
  <2>3. CASE FunctionalDrive
    <3>1. calls' = calls /\ (cnt_inst' = cnt_inst + 1 \/ (cnt_inst' = cnt_inst /\ ~ instif'.valid))
      BY <2>3 DEF FunctionalDrive, Typed, SysTypeOK, InstIF
    <3> QED BY <2>1, <3>1, CallsKept DEF Fresh
  <2>4. CASE VerilatedDrive
    <3>1. calls' = calls /\ cnt_inst' = cnt_inst /\ ~ Fresh'
      BY <2>4 DEF VerilatedDrive, Fresh, Functional
    <3> QED BY <2>1, <3>1, CallsKept
  <2>5. CASE Update
    <3>1. CASE Functional
      <4>1. calls' = calls /\ cnt_inst' = cnt_inst /\ (Fresh' => Fresh)
        BY <2>5, <3>1 DEF Update, Fresh, Functional
      <4> QED BY <2>1, <4>1, CallsKept
    <3>2. CASE ~ Functional
      <4>1. calls' = calls /\ cnt_inst' = IF instif'.valid THEN cnt_inst + 1 ELSE cnt_inst
        BY <2>5, <3>2 DEF Update, VerilatedUpdate
      <4> QED BY <2>1, <4>1, CallsKept DEF Fresh
    <3> QED BY <3>1, <3>2
  <2>6. CASE Body
    <3>1. ~ Fresh' /\ cnt_inst' = cnt_inst
      BY <2>6 DEF Body, Fresh
    <3>2. CASE IsCall
      <4>1. calls' = Append(calls, [cnt |-> cnt_inst, reg |-> RegFile])
        BY <2>6, <3>2 DEF Body
      <4>2. RegFile \in [Reg -> Val]
        BY RtlAssumption DEF RegFile, Typed, SysTypeOK, Functional, Arch
      <4>3. Fresh
        BY <2>6, <3>2 DEF Fresh, IsCall, Body
      <4> QED BY <3>1, <4>1, <4>2, <4>3, CallAppended
    <3>3. CASE ~ IsCall
      <4>1. calls' = calls
        BY <2>6, <3>3 DEF Body
      <4> QED BY <2>1, <3>1, <4>1, CallsKept
    <3> QED BY <3>2, <3>3
  <2>7. CASE UNCHANGED sysVars
    <3>1. calls' = calls /\ cnt_inst' = cnt_inst /\ (Fresh' => Fresh)
      BY <2>7 DEF sysVars, Fresh, Functional
    <3> QED BY <2>1, <3>1, CallsKept
  <2> QED BY <2>2, <2>3, <2>4, <2>5, <2>6, <2>7 DEF SysNext
<1>3. CallsInv => CallsOnce
  <2>1. calls \in Seq(Call) => DOMAIN calls = 1 .. Len(calls)
    OBVIOUS
  <2> QED BY <2>1 DEF CallsInv, CallsOnce
<1> QED BY <1>1, <1>2, <1>3, TypedStep, SysTypeInit, PTL DEF SysSpec

--------------------------------------------------------------------------------
(* SingleSystem implements SingleRun: for the functional core outright, for *)
(* a verilated one if its design conforms.  The rest, from the order of the *)
(* calls to the trap vector, is the code's doing.                           *)

(* The operators SingleRun brings along are SingleSystem's own. *)
LEMMA SameRun ==
  /\ \A c : Run!ArchOf(c) = ArchOf(c)
  /\ \A inst : Run!InitCore(inst) = InitCore(inst)
  /\ \A c, x : Run!Retire(c, x) = Retire(c, x)
  /\ \A c, inst : Run!Unreported(c, inst) = Unreported(c, inst)
  /\ \A c, a0 : Run!Returned(c, a0) = Returned(c, a0)
  /\ \A m, inst : Run!AfterInst(m, inst) = AfterInst(m, inst)
  /\ \A t, prim, own : Run!Transferred(t, prim, own) = Transferred(t, prim, own)
  /\ Run!InstIF = InstIF
<1>1. /\ \A c : Run!ArchOf(c) = ArchOf(c)
      /\ \A inst : Run!InitCore(inst) = InitCore(inst)
      /\ \A c, x : Run!Retire(c, x) = Retire(c, x)
      /\ \A c, inst : Run!Unreported(c, inst) = Unreported(c, inst)
      /\ \A c, a0 : Run!Returned(c, a0) = Returned(c, a0)
  BY DEF Run!ArchOf, ArchOf, Run!InitCore, InitCore, Run!Retire, Retire, Run!Unreported,
         Unreported, Run!Returned, Returned
<1>2. \A a : Run!WordOf(a) = WordOf(a)
  BY DEF Run!WordOf, WordOf
<1>3. Run!Lanes = Lanes /\ Run!Words = Words
  BY DEF Run!Lanes, Lanes, Run!Words, Words
<1>4. \A old, data, mask : Run!Merge(old, data, mask) = Merge(old, data, mask)
  BY <1>3 DEF Run!Merge, Merge
<1>5. \A m, inst : Run!AfterInst(m, inst) = AfterInst(m, inst)
  BY <1>2, <1>4 DEF Run!AfterInst, AfterInst
<1>6. \A t, w, l : Run!BytesAt(t, w, l) = BytesAt(t, w, l)
  BY DEF Run!BytesAt, BytesAt, Run!WordOf, WordOf, Run!LaneOf, LaneOf
<1>7. \A t, w : Run!Touches(t, w) <=> Touches(t, w)
  BY <1>3, <1>6 DEF Run!Touches, Touches
<1>8. \A t, w, old : Run!Overlay(t, w, old) = Overlay(t, w, old)
  BY DEF Run!Overlay, Overlay, Run!BytesAt, BytesAt, Run!Lanes, Lanes, Run!WordOf, WordOf,
         Run!LaneOf, LaneOf
<1>9. \A t, prim, own : Run!Transferred(t, prim, own) = Transferred(t, prim, own)
  BY <1>3, <1>7, <1>8 DEF Run!Transferred, Transferred
<1>10. Run!InstIF = InstIF
  BY DEF Run!InstIF, InstIF, Run!Addr, Addr, Run!Lanes, Lanes, Run!Word, Word
<1> QED BY <1>1, <1>5, <1>9, <1>10

(* Without replicas the core reads the array itself. *)
LEMMA SeenIsMem == ASSUME mem \in Image PROVE Seen(Prim) = mem /\ Single
  BY SingleAssumption DEF Seen, Read, Single, Image

LEMMA AfterInstType ==
  ASSUME NEW m \in Image, NEW inst \in InstIF
  PROVE  AfterInst(m, inst) \in Image
<1>1. WordOf(inst.d_addr) \in Words /\ inst.d_wdata \in Word
  BY WordOfType DEF InstIF
<1>2. Merge(m[WordOf(inst.d_addr)], inst.d_wdata, inst.d_wmask) \in Word
  BY <1>1, MergeType DEF Image
<1> QED BY <1>1, <1>2 DEF AfterInst, Image

(* A store is in the report or it is not: valid plays no part in it. *)
LEMMA AfterInstValid ==
  ASSUME NEW m, NEW inst \in InstIF, NEW b \in BOOLEAN
  PROVE  AfterInst(m, [inst EXCEPT !.valid = b]) = AfterInst(m, inst)
BY DEF AfterInst, InstIF

(* A store that is made twice is made. *)
LEMMA StoredTwice ==
  ASSUME NEW m \in Image, NEW inst \in InstIF
  PROVE  AfterInst(AfterInst(m, inst), inst) = AfterInst(m, inst)
<1> DEFINE w == WordOf(inst.d_addr)
           v == Merge(m[w], inst.d_wdata, inst.d_wmask)
<1>1. CASE Attr[inst.ir] = "store"
  <2>1. w \in Words
    BY WordOfType DEF InstIF
  <2>2. Merge(v, inst.d_wdata, inst.d_wmask) = v
    BY DEF Merge
  <2>3. AfterInst(m, inst) = [m EXCEPT ![w] = v]
    BY <1>1 DEF AfterInst
  <2> DEFINE n == [m EXCEPT ![w] = v]
  <2>4. n[w] = v
    BY <2>1 DEF Image
  <2>5. AfterInst(n, inst) = [n EXCEPT ![w] = Merge(n[w], inst.d_wdata, inst.d_wmask)]
    BY <1>1 DEF AfterInst
  <2> HIDE DEF v, w
  <2>6. [n EXCEPT ![w] = v] = n
    BY <2>1 DEF Image
  <2> HIDE DEF n
  <2>7. AfterInst(n, inst) = n
    BY <2>2, <2>4, <2>5, <2>6
  <2> QED BY <2>3, <2>7 DEF n
<1>2. CASE Attr[inst.ir] # "store"
  BY <1>2 DEF AfterInst
<1> QED BY <1>1, <1>2

(* What Memory::update() leaves is the request served. *)
LEMMA MemoryServes ==
  ASSUME mem \in Image, rdata \in [Cores -> ReadRegs], NEW req, PrimaryCycle(req)
  PROVE  mem' = Served(req) /\ rdata'[Prim] = ReadData(rdata[Prim], req, mem)
<1>1. Seen(Prim) = mem /\ Single
  BY SeenIsMem
<1>2. mem' = Served(req)
  BY <1>1 DEF PrimaryCycle, Served
<1>3. rdata'[Prim] = ReadData(rdata[Prim], req, mem)
  BY <1>1 DEF PrimaryCycle, Cores
<1> QED BY <1>2, <1>3

(* The functional core's requests make the stores it reports. *)
LEMMA AccessServed ==
  ASSUME NEW inst \in InstIF, NEW fetch
  PROVE  Served(Access(inst, fetch)) = AfterInst(mem, inst) /\ Served(NoAccess(inst, fetch)) = mem
<1>1. Stores(Access(inst, fetch)) <=> Attr[inst.ir] = "store"
  BY ProgramAssumption DEF Stores, Access, InstIF
<1>2. /\ Access(inst, fetch).d_addr = inst.d_addr /\ Access(inst, fetch).d_wdata = inst.d_wdata
      /\ Access(inst, fetch).d_wmask = inst.d_wmask
  BY DEF Access
<1>3. ~ Stores(NoAccess(inst, fetch))
  BY DEF Stores, NoAccess, Access
<1> QED BY <1>1, <1>2, <1>3 DEF Served, AfterInst

LEMMA SettledType == ASSUME Typed PROVE Settled \in Image
  BY AfterInstType DEF Typed, SysTypeOK, Settled

(* Where the loop is: halted at its head only, and with the functional core *)
(* failed, its report invalid and its store on the bus go together.         *)
RunInv ==
  /\ step # "latch" => ~ halt
  /\ ~ Functional => ~ fail
  /\ Functional /\ step = "drive" => ~ fail
  /\ Functional /\ step \in {"relatch", "update", "body"} => (fail <=> ~ instif.valid)
  /\ Functional /\ step \in {"relatch", "update"} => Served(memif) = Settled
  /\ Functional /\ step = "update" => if_prim = memif
  /\ Executed \in Arch

(* An edge of a design that conforms retires what it reports.               *)
LEMMA EdgeRetires ==
  ASSUME Typed, Settles, Executed \in Arch, DesignConforms, Update, ~ Functional
  PROVE  LET x == Exec(Executed, Settled)
         IN  /\ instif' \in InstIF
             /\ instif'.valid => /\ x.known /\ x.arch \in Arch /\ x.instif \in InstIF
                                 /\ instif' = [x.instif EXCEPT !.valid = TRUE]
                                 /\ Executed' = x.arch
                                 /\ Settled' = AfterInst(Settled, x.instif)
                                 /\ cnt_inst' = cnt_inst + 1
             /\ ~ instif'.valid => /\ Executed' = Executed /\ Settled' = Settled
                                   /\ cnt_inst' = cnt_inst
<1> DEFINE r    == rdata[Prim]
           s    == Edge(model, core, r)
           inst == Report(model, s, r)
           req  == Bus(model, core, r)
           seen == ReadData(r, req, mem)
           x    == Exec(Executed, Settled)
           arch == IF inst.valid THEN x.arch ELSE Executed
           store == IF inst.valid THEN AfterInst(Settled, inst) ELSE Settled
<1>1. InOrder(inst) /\ KeepsPace(inst, req) /\ GoesOn(inst, s, seen)
  BY DEF DesignConforms, AtEdge, Update
<1>2. inputs = r /\ if_prim = req /\ step = "update"
  BY DEF Settles, Update
<1>3. /\ instif' = inst /\ core' = MtvecOverride(s, inst)
      /\ cnt_inst' = IF inst.valid THEN cnt_inst + 1 ELSE cnt_inst
      /\ PrimaryCycle(req) /\ model' = model /\ ~ Functional'
  BY <1>2 DEF Update, VerilatedUpdate, Functional
<1>4. model \in Models \ {"functional"} /\ core \in Rtl /\ r \in ReadRegs /\ cnt_inst \in Nat
  BY DEF Typed, SysTypeOK, Functional, Cores
<1>5. s \in Rtl /\ inst \in InstIF
  BY <1>4, RtlAssumption
<1>6. mem' = Served(req) /\ rdata'[Prim] = seen
  BY <1>3, MemoryServes DEF Typed, TypeOK
<1>7. Settled \in Image /\ x \in [known : BOOLEAN, arch : Arch, instif : InstIF]
  BY SettledType, ExecAssumption
<1>8. Owed' <=> inst.valid
  <2>1. inst.valid \in BOOLEAN
    BY <1>5 DEF InstIF
  <2> HIDE DEF inst
  <2>2. inst.valid => cnt_inst' > 0
    BY <1>3, <1>4
  <2> QED BY <1>3, <2>1, <2>2 DEF Owed
<1>9. inst.valid => /\ x.known /\ inst = [x.instif EXCEPT !.valid = TRUE]
                    /\ AfterInst(Settled, inst) = AfterInst(Settled, x.instif)
  BY <1>1, <1>7, AfterInstValid DEF InOrder
<1>10. Settled' = store
  <2>1. Settled' = IF inst.valid THEN AfterInst(mem', inst) ELSE mem'
    BY <1>3, <1>8 DEF Settled
  <2> HIDE DEF inst, req
  <2>2. CASE mem' = Settled
    BY <2>1, <2>2
  <2>3. CASE inst.valid /\ mem' = AfterInst(Settled, inst)
    BY <1>5, <1>7, <2>1, <2>3, StoredTwice
  <2> QED BY <1>1, <1>6, <2>2, <2>3 DEF KeepsPace
<1>11. Executed' = RtlArch(model, core', seen, store)
  BY <1>3, <1>6, <1>10 DEF Executed
<1>12. Executed' = arch
  <2>1. CASE model = "kronos" /\ inst.valid /\ inst.ir = Ecall
    <3>1. x.instif.ir = Ecall /\ inst.pc = x.instif.pc /\ x.known /\ x.arch \in Arch
      BY <1>7, <1>9, <2>1 DEF InstIF
    <3>2. x.arch.pc = Behind(inst.pc)
      BY <1>7, <3>1, CallAssumption
    <3>3. Behind(inst.pc) \in PC
      BY <3>1, <3>2 DEF Arch
    <3>4. core' = TrapTo(s, Behind(inst.pc))
      BY <1>3, <2>1 DEF MtvecOverride
    <3>5. RtlArch(model, TrapTo(s, Behind(inst.pc)), seen, store)
            = [arch EXCEPT !.pc = Behind(inst.pc)]
      BY <1>1, <2>1, <3>3 DEF GoesOn
    <3>6. arch = x.arch
      BY <2>1
    <3> HIDE DEF x, inst, s, seen, store, arch
    <3>7. [x.arch EXCEPT !.pc = x.arch.pc] = x.arch
      BY <3>1 DEF Arch
    <3> QED BY <1>11, <3>2, <3>4, <3>5, <3>6, <3>7
  <2>2. CASE ~ (model = "kronos" /\ inst.valid /\ inst.ir = Ecall)
    <3>1. core' = s
      BY <1>3, <2>2 DEF MtvecOverride
    <3>2. RtlArch(model, s, seen, store) = arch
      BY <1>1, <2>2 DEF GoesOn
    <3> QED BY <1>11, <3>1, <3>2
  <2> QED BY <2>1, <2>2
<1>13. inst.valid => arch = x.arch /\ store = AfterInst(Settled, x.instif)
  BY <1>9
<1>14. ~ inst.valid => arch = Executed /\ store = Settled
  OBVIOUS
<1>15. x.arch \in Arch /\ x.instif \in InstIF
  BY <1>7
<1> HIDE DEF inst, x, arch, store
<1> QED BY <1>3, <1>5, <1>9, <1>10, <1>12, <1>13, <1>14, <1>15 DEF x

(* A system call on a design that conforms, as on the functional core.      *)
LEMMA CallReturns ==
  ASSUME Typed, RunInv, DesignConforms, Body, IsCall
  PROVE  /\ RegFile = Executed.reg /\ Settled = mem /\ Settled' = mem'
         /\ \E r \in Replies(Executed.reg, mem) :
              /\ Executed' = IF r.a0 = Keep THEN Executed ELSE [Executed EXCEPT !.reg[A0] = r.a0]
              /\ mem' = Transferred(r.xfer, mem, mem)
              /\ calls' = Append(calls, [cnt |-> cnt_inst, reg |-> Executed.reg])
              /\ halt' = (r.exit \/ Stops)
<1>1. AfterInst(mem, instif) = mem /\ AfterInst(mem', instif') = mem'
  BY ProgramAssumption DEF IsCall, AfterInst, Body
<1>2. Settled = mem /\ Settled' = mem'
  BY <1>1 DEF Settled
<1>3. mem \in Image
  BY DEF Typed, SysTypeOK
<1>4. Seen(Prim) = mem /\ Single
  BY <1>3, SeenIsMem
<1>5. RegFile = Executed.reg
  BY DEF RegFile, Executed, DesignConforms, AtCall, Body
<1>6. PICK r \in Replies(RegFile, Seen(Prim)) :
         /\ core' = CoreReturned(r.a0) /\ Transfer(r.xfer)
         /\ calls' = Append(calls, [cnt |-> cnt_inst, reg |-> RegFile])
         /\ halt' = (r.exit \/ Stops)
  BY DEF Body
<1>7. RegFile \in [Reg -> Val]
  BY <1>5 DEF RunInv, Arch
<1>8. r.a0 \in Val \cup {Keep}
  BY <1>3, <1>4, <1>6, <1>7, RepliesAssumption DEF Reply
<1>9. mem' = Transferred(r.xfer, mem, mem)
  BY <1>4, <1>6 DEF Transfer, Transferred, Read, Single
<1>10. mem' \in Image /\ rdata' = rdata /\ model' = model /\ (Functional' <=> Functional)
  <2>1. Typed'
    BY BodyTyped
  <2> QED BY <1>6, <2>1 DEF Typed, SysTypeOK, Transfer, Body, Functional
<1>11. Executed' = IF r.a0 = Keep THEN Executed ELSE [Executed EXCEPT !.reg[A0] = r.a0]
  <2>1. CASE Functional
    BY <1>6, <1>10, <2>1 DEF Executed, CoreReturned
  <2>2. CASE ~ Functional
    <3>1. Executed' = RtlArch(model, core', rdata[Prim], mem')
      BY <1>2, <1>10, <2>2 DEF Executed
    <3>2. AtCall
      BY <2>2 DEF DesignConforms, Body
    <3>3. CASE r.a0 = Keep
      BY <1>6, <1>10, <3>1, <3>2, <3>3 DEF CoreReturned, AtCall
    <3>4. CASE r.a0 # Keep
      BY <1>6, <1>8, <1>10, <2>2, <3>1, <3>2, <3>4 DEF CoreReturned, AtCall
    <3> QED BY <3>3, <3>4
  <2> QED BY <2>1, <2>2
<1> QED BY <1>2, <1>4, <1>5, <1>6, <1>9, <1>11

(* The core of SingleRun, as SingleSystem's state stands for it.            *)
RunCore == [pc |-> Executed.pc, reg |-> Executed.reg, cnt_inst |-> cnt_inst, instif |-> instif]

(* A step that leaves alone what the program has come to, at the same place.*)
LEMMA Stutters ==
  ASSUME Executed' = Executed, Settled' = Settled, UNCHANGED <<cnt_inst, instif, halt, calls>>,
         Pending' <=> Pending
  PROVE  UNCHANGED Run!vars
  BY DEF Run!vars

(* An instruction is executed, by drive() or at an edge.                    *)
LEMMA Retires ==
  ASSUME Typed, Executed \in Arch, ~ halt, ~ Pending, Pending', UNCHANGED <<halt, calls>>,
         NEW x, x = Exec(Executed, Settled), x.known,
         instif' = [x.instif EXCEPT !.valid = TRUE], Executed' = x.arch,
         Settled' = AfterInst(Settled, x.instif), cnt_inst' = cnt_inst + 1
  PROVE  Run!Execute
<1>1. ArchOf(RunCore) = Executed
  BY DEF ArchOf, RunCore, Arch
<1>2. RunCore' = Retire(RunCore, x)
  BY DEF RunCore, Retire
<1> QED BY <1>1, <1>2, SameRun DEF Run!Execute, RunCore

(* The rest of an iteration behind an instruction, or behind none.          *)
LEMMA Finishes ==
  ASSUME Typed, RunInv, DesignConforms, Body, Pending
  PROVE  Run!Finish(FALSE)
<1>1. cnt_inst' = cnt_inst /\ instif' = instif /\ ~ Pending'
  BY DEF Body, Pending
<1>2. Stops <=> cnt_inst >= MaxInsts \/ ~ instif.valid
  BY DEF Stops, RunInv, Body, Pending
<1>3. CASE IsCall
  <2>1. PICK r \in Replies(Executed.reg, mem) :
          /\ Executed' = IF r.a0 = Keep THEN Executed ELSE [Executed EXCEPT !.reg[A0] = r.a0]
          /\ mem' = Transferred(r.xfer, mem, mem)
          /\ calls' = Append(calls, [cnt |-> cnt_inst, reg |-> Executed.reg])
          /\ halt' = (r.exit \/ Stops)
    BY <1>3, CallReturns
  <2>2. Settled = mem /\ Settled' = mem'
    BY <1>3, CallReturns
  <2>3. RunCore' = Returned(RunCore, r.a0)
    <3>1. Executed = [pc |-> Executed.pc, reg |-> Executed.reg]
      BY DEF RunInv, Arch
    <3> QED BY <1>1, <2>1, <3>1 DEF Returned, RunCore
  <2>4. Run!IsCall /\ Run!Emulate(r)
    BY <1>3, <2>1, <2>2, <2>3, SameRun DEF Run!IsCall, Run!Emulate, IsCall, RunCore
  <2>5. halt' = (FALSE \/ r.exit \/ Run!Stops)
    BY <1>2, <2>1 DEF Run!Stops
  <2> QED BY <1>1, <2>1, <2>2, <2>4, <2>5 DEF Run!Finish
<1>4. CASE ~ IsCall
  <2>1. halt' = Stops /\ UNCHANGED <<core, vars, calls, model>>
    BY <1>4 DEF Body
  <2>2. Settled' = Settled /\ Executed' = Executed
    <3>1. CASE Functional
      <4>1. ~ Owed /\ ~ Owed' /\ Functional'
        BY <2>1, <3>1 DEF Owed, Body, Functional
      <4> QED BY <2>1, <3>1, <4>1 DEF Settled, Executed, vars
    <3>2. CASE ~ Functional
      BY <1>1, <2>1, <3>2 DEF Owed, Settled, Executed, Functional, vars
    <3> QED BY <3>1, <3>2
  <2>3. ~ Run!IsCall
    BY <1>4 DEF Run!IsCall, IsCall
  <2>4. halt' = (FALSE \/ Run!Stops)
    BY <1>2, <2>1 DEF Run!Stops
  <2> QED BY <1>1, <2>1, <2>2, <2>3, <2>4 DEF Run!Finish
<1> QED BY <1>3, <1>4

LEMMA OtherReport ==
  ASSUME Executed' = Executed, cnt_inst' = cnt_inst, NEW i, instif' = i
  PROVE  RunCore' = [RunCore EXCEPT !.instif = i]
  BY DEF RunCore

LEMMA Silenced ==
  ASSUME Executed' = Executed, cnt_inst' = cnt_inst,
         NEW inst, instif' = [inst EXCEPT !.valid = FALSE]
  PROVE  RunCore' = Unreported(RunCore, inst)
  BY OtherReport DEF Unreported

(* A cycle of a design without a report.                                    *)
LEMMA Idles ==
  ASSUME Typed, ~ halt, ~ Pending, ~ Pending', Executed' = Executed, Settled' = Settled,
         instif' \in InstIF, ~ instif'.valid, UNCHANGED <<cnt_inst, calls>>,
         halt' \in {FALSE, cnt_inst >= MaxInsts}
  PROVE  Run!Idle
<1>1. instif' = [instif' EXCEPT !.valid = FALSE]
  BY DEF InstIF
<1>2. RunCore' = Unreported(RunCore, instif')
  BY <1>1, Silenced
<1> QED BY <1>2, SameRun DEF Run!Idle, RunCore

LEMMA LatchStep == ASSUME Typed, RunInv, Latch PROVE RunInv' /\ UNCHANGED Run!vars
<1>1. UNCHANGED <<mem, rdata, model, core, instif, cnt_inst, memif, halt, calls>>
      /\ (Functional' <=> Functional)
  BY DEF Latch, vars, Functional
<1>2. Owed' <=> Owed
  BY <1>1 DEF Latch, Owed
<1>3. Settled' = Settled /\ (Pending' <=> Pending)
  BY <1>1, <1>2 DEF Latch, Settled, Pending
<1>4. Executed' = Executed
  BY <1>1, <1>3 DEF Executed
<1>5. Served(memif)' = Served(memif)
  BY <1>1 DEF Served, Stores
<1>6. RunInv'
  BY <1>1, <1>3, <1>4, <1>5 DEF Latch, Latched, RunInv
<1> QED BY <1>1, <1>3, <1>4, <1>6, Stutters

LEMMA VerilatedDriveStep ==
  ASSUME Typed, RunInv, VerilatedDrive
  PROVE  RunInv' /\ UNCHANGED Run!vars
<1>1. UNCHANGED <<mem, rdata, model, core, instif, cnt_inst, halt, fail, calls>>
      /\ ~ Functional' /\ ~ Functional
  BY DEF VerilatedDrive, vars, Functional
<1>2. Owed' <=> Owed
  BY <1>1 DEF Owed
<1>3. Settled' = Settled /\ (Pending' <=> Pending)
  BY <1>1, <1>2 DEF VerilatedDrive, Settled, Pending
<1>4. Executed' = Executed
  BY <1>1, <1>3 DEF Executed
<1>5. RunInv'
  BY <1>1, <1>4 DEF VerilatedDrive, RunInv
<1> QED BY <1>1, <1>3, <1>4, <1>5, Stutters

LEMMA FunctionalDriveStep ==
  ASSUME Typed, RunInv, FunctionalDrive
  PROVE  RunInv' /\ (Run!Execute \/ Run!Unknown)
<1> DEFINE x == Exec(core, mem)
<1>1. mem \in Image /\ core \in Arch /\ instif \in InstIF /\ cnt_inst \in Nat
  BY DEF Typed, SysTypeOK, FunctionalDrive
<1>2. Seen(Prim) = mem
  BY <1>1, SeenIsMem
<1>3. /\ UNCHANGED <<mem, rdata, model, halt, calls>> /\ Functional /\ Functional'
      /\ ~ Pending /\ Pending' /\ ~ halt /\ ~ fail /\ step' = "relatch"
  BY DEF FunctionalDrive, vars, Functional, Pending, RunInv
<1>4. Settled = mem /\ Executed = core /\ Executed' = core'
  BY <1>3 DEF Settled, Owed, Executed, FunctionalDrive
<1>5. x.arch \in Arch /\ x.instif \in InstIF
  BY <1>1, ExecType
<1>6. CASE x.known
  <2>1. /\ core' = x.arch /\ instif' = [x.instif EXCEPT !.valid = TRUE]
        /\ memif' = Access(x.instif, memif.i_addr) /\ cnt_inst' = cnt_inst + 1 /\ fail' = fail
    BY <1>2, <1>6 DEF FunctionalDrive
  <2> HIDE DEF x
  <2>2. instif'.valid /\ Owed'
    BY <1>3, <1>5, <2>1, ValidType DEF Owed
  <2>3. Settled' = AfterInst(mem, x.instif)
    BY <1>3, <1>5, <2>1, <2>2, AfterInstValid DEF Settled
  <2>4. Served(memif') = AfterInst(mem, x.instif)
    BY <1>5, <2>1, AccessServed
  <2>5. Served(memif)' = Served(memif')
    BY <1>3 DEF Served
  <2>6. RunInv'
    BY <1>3, <1>4, <1>5, <2>1, <2>2, <2>3, <2>4, <2>5 DEF RunInv
  <2>7. Run!Execute
    BY <1>3, <1>4, <1>5, <1>6, <2>1, <2>3, Retires DEF RunInv, x
  <2> QED BY <2>6, <2>7
<1>7. CASE ~ x.known
  <2>1. /\ core' = core /\ instif' = [instif EXCEPT !.valid = FALSE]
        /\ memif' = NoAccess(instif, memif.i_addr) /\ cnt_inst' = cnt_inst /\ fail'
    BY <1>2, <1>7 DEF FunctionalDrive
  <2>2. ~ instif'.valid /\ ~ Owed'
    BY <1>1, <2>1, ValidType DEF Owed
  <2>3. Settled' = mem
    BY <1>3, <2>2 DEF Settled
  <2>4. Served(memif)' = mem
    BY <1>1, <1>3, <2>1, AccessServed DEF Served
  <2>5. RunInv'
    BY <1>1, <1>3, <1>4, <2>1, <2>2, <2>3, <2>4 DEF RunInv
  <2>6. ArchOf(RunCore) = core /\ RunCore' = Unreported(RunCore, instif)
    <3>1. ArchOf(RunCore) = core
      BY <1>1, <1>4 DEF ArchOf, RunCore, Arch
    <3>2. Executed' = Executed
      BY <1>4, <2>1
    <3> QED BY <2>1, <3>1, <3>2, Silenced
  <2>7. Run!Unknown
    BY <1>3, <1>4, <1>7, <2>3, <2>6, SameRun DEF Run!Unknown, RunCore
  <2> QED BY <2>5, <2>7
<1> QED BY <1>6, <1>7

LEMMA UpdateStep ==
  ASSUME Typed, Settles, RunInv, DesignConforms, Update
  PROVE  RunInv' /\ (Run!Next \/ UNCHANGED Run!vars)
<1>1. CASE Functional
  <2>1. /\ UNCHANGED <<instif, core, cnt_inst, halt, fail, calls, model>> /\ Functional'
        /\ Pending /\ Pending' /\ step = "update" /\ step' = "body"
    BY <1>1 DEF Update, Functional, Pending
  <2>2. PrimaryCycle(memif) /\ Served(memif) = Settled
    BY <1>1, <2>1 DEF Update, RunInv
  <2>3. mem' = Settled
    BY <2>2, MemoryServes DEF Typed, TypeOK
  <2>4. Settled' = Settled /\ Executed' = Executed
    BY <1>1, <2>1, <2>3 DEF Settled, Owed, Executed
  <2>5. RunInv'
    BY <1>1, <2>1, <2>4 DEF RunInv
  <2> QED BY <2>1, <2>4, <2>5, Stutters
<1>2. CASE ~ Functional
  <2> DEFINE x == Exec(Executed, Settled)
  <2>1. /\ UNCHANGED <<halt, fail, calls, model>> /\ ~ Functional' /\ ~ halt /\ ~ Pending
        /\ (Pending' <=> instif'.valid) /\ step' = "body" /\ Executed \in Arch
    BY <1>2 DEF Update, Functional, Pending, RunInv
  <2>2. CASE instif'.valid
    <3>1. /\ x.known /\ x.arch \in Arch /\ instif' = [x.instif EXCEPT !.valid = TRUE]
          /\ Executed' = x.arch /\ Settled' = AfterInst(Settled, x.instif)
          /\ cnt_inst' = cnt_inst + 1
      BY <1>2, <2>1, <2>2, EdgeRetires
    <3>2. RunInv'
      BY <1>2, <2>1, <3>1 DEF RunInv
    <3>3. Run!Execute
      BY <2>1, <2>2, <3>1, Retires
    <3> QED BY <3>2, <3>3 DEF Run!Next
  <2>3. CASE ~ instif'.valid
    <3>1. Executed' = Executed /\ Settled' = Settled /\ cnt_inst' = cnt_inst /\ instif' \in InstIF
      BY <1>2, <2>1, <2>3, EdgeRetires
    <3>2. RunInv'
      BY <1>2, <2>1, <3>1 DEF RunInv
    <3>3. halt' = FALSE
      BY <2>1 DEF Typed, SysTypeOK
    <3>4. Run!Idle
      BY <2>1, <2>3, <3>1, <3>3, Idles
    <3> QED BY <3>2, <3>4 DEF Run!Next
  <2> QED BY <2>2, <2>3
<1> QED BY <1>1, <1>2

LEMMA BodyStep ==
  ASSUME Typed, RunInv, DesignConforms, Body
  PROVE  RunInv' /\ Run!Next
<1>1. /\ UNCHANGED <<model, instif, cnt_inst, fail>> /\ step = "body" /\ step' = "latch"
      /\ (Functional' <=> Functional) /\ ~ halt /\ ~ Pending'
  BY DEF Body, Functional, Pending, RunInv
<1>2. Executed' \in Arch
  <2>1. CASE IsCall
    <3>1. PICK r \in Replies(Executed.reg, mem) :
            Executed' = IF r.a0 = Keep THEN Executed ELSE [Executed EXCEPT !.reg[A0] = r.a0]
      BY <2>1, CallReturns
    <3>2. Executed \in Arch /\ mem \in Image
      BY DEF RunInv, Typed, SysTypeOK
    <3>3. r.a0 \in Val \cup {Keep} /\ A0 \in Reg
      BY <3>1, <3>2, RepliesAssumption, ProgramAssumption DEF Reply, Arch
    <3> QED BY <3>1, <3>2, <3>3 DEF Arch
  <2>2. CASE ~ IsCall
    <3>1. UNCHANGED <<core, mem, rdata>>
      BY <2>2 DEF Body, vars
    <3>2. Executed' = Executed
      <4>1. CASE Functional
        BY <1>1, <3>1, <4>1 DEF Executed
      <4>2. CASE ~ Functional
        BY <1>1, <3>1, <4>2 DEF Executed, Settled, Owed
      <4> QED BY <4>1, <4>2
    <3> QED BY <3>2 DEF RunInv
  <2> QED BY <2>1, <2>2
<1>3. RunInv'
  BY <1>1, <1>2 DEF RunInv
<1>4. CASE Pending
  BY <1>3, <1>4, Finishes DEF Run!Next
<1>5. CASE ~ Pending
  <2>1. ~ Functional /\ ~ instif.valid /\ ~ IsCall /\ instif \in InstIF
    BY <1>1, <1>5 DEF Pending, IsCall, Typed, SysTypeOK
  <2>2. UNCHANGED <<core, mem, rdata, calls>> /\ halt' = Stops
    BY <2>1 DEF Body, vars
  <2>3. Settled' = Settled /\ Executed' = Executed
    BY <1>1, <2>1, <2>2 DEF Settled, Owed, Executed
  <2>4. halt' = (cnt_inst >= MaxInsts)
    BY <2>1, <2>2 DEF Stops, RunInv
  <2>5. Run!Idle
    BY <1>1, <1>5, <2>1, <2>2, <2>3, <2>4, Idles
  <2> QED BY <1>3, <2>5 DEF Run!Next
<1> QED BY <1>4, <1>5

LEMMA RunInit == ASSUME SysInit, DesignConforms PROVE Run!Init /\ RunInv
<1>1. mem = InitMem /\ step = "latch" /\ cnt_inst = 0 /\ instif \in InitInsts /\ calls = <<>>
      /\ halt = FALSE /\ fail = FALSE
  BY DEF SysInit
<1>2. Settled = InitMem /\ ~ Pending
  BY <1>1 DEF Settled, Owed, Pending
<1>3. Executed = InitArch
  BY <1>1 DEF SysInit, Executed, DesignConforms
<1>4. RunCore = InitCore(instif)
  BY <1>1, <1>3 DEF RunCore, InitCore
<1>5. Run!Init
  BY <1>1, <1>2, <1>4, SameRun DEF Run!Init, RunCore
<1>6. RunInv
  BY <1>1, <1>3, ProgramAssumption DEF RunInv
<1> QED BY <1>5, <1>6

(* Every iteration is an instruction and its system call, or nothing: for   *)
(* the functional core without further ado, for a verilated one if its      *)
(* design does its part (sim_single.cpp, core_wrapper/).                    *)
THEOREM OneRunWhateverTheCore == SysSpec /\ []DesignConforms => RunSpec
<1>1. SysInit /\ DesignConforms => Run!Init /\ RunInv
  BY RunInit
<1>2. Typed /\ Settles /\ RunInv /\ DesignConforms /\ [SysNext]_sysVars =>
        RunInv' /\ [Run!Next]_(Run!vars)
  <2> SUFFICES ASSUME Typed, Settles, RunInv, DesignConforms, [SysNext]_sysVars
               PROVE  RunInv' /\ (Run!Next \/ UNCHANGED Run!vars)
    OBVIOUS
  <2>1. CASE Latch
    BY <2>1, LatchStep
  <2>2. CASE FunctionalDrive
    BY <2>2, FunctionalDriveStep DEF Run!Next
  <2>3. CASE VerilatedDrive
    BY <2>3, VerilatedDriveStep
  <2>4. CASE Update
    BY <2>4, UpdateStep
  <2>5. CASE Body
    BY <2>5, BodyStep
  <2>6. CASE UNCHANGED sysVars
    <3>1. UNCHANGED <<mem, rdata, model, core, instif, cnt_inst, memif, if_prim, halt, fail,
                      step, calls>>
      BY <2>6 DEF sysVars, vars
    <3>2. Settled' = Settled /\ (Pending' <=> Pending) /\ Executed' = Executed
          /\ Served(memif)' = Served(memif) /\ (Functional' <=> Functional)
      BY <3>1 DEF Settled, Owed, Pending, Executed, Served, Stores, Functional
    <3>3. RunInv'
      BY <3>1, <3>2 DEF RunInv
    <3> QED BY <3>1, <3>2, <3>3, Stutters
  <2> QED BY <2>1, <2>2, <2>3, <2>4, <2>5, <2>6 DEF SysNext
<1> QED BY <1>1, <1>2, TypedStep, SysTypeInit, SettlesInvariant, PTL DEF SysSpec, RunSpec, Run!Spec
--------------------------------------------------------------------------------
(* The instruction of this iteration is reported, and counted already. *)
Reported == Pending /\ instif.valid

StepInv ==
  /\ halt => step = "latch"
  /\ cnt_inst <= MaxInsts \/ (Reported /\ cnt_inst <= MaxInsts + 1) \/ halt
  /\ Functional /\ step \in {"relatch", "update", "body"} /\ ~ instif.valid => fail

LEMMA StepInvInit == SysInit => StepInv
<1>1. MaxInsts \in Nat
  BY SingleAssumption
<1> QED BY <1>1 DEF SysInit, StepInv

(* What is left in a step that counts an instruction, in one that does not, *)
(* and in the last one.                                                     *)
LEMMA Fewer ==
  ASSUME Typed, StepInv, ~ halt,
         \/ halt'
         \/ /\ ~ halt' /\ cnt_inst' \in Nat /\ instif'.valid \in BOOLEAN
            /\ cnt_inst' <= MaxInsts + IF Reported' THEN 1 ELSE 0
            /\ \/ /\ cnt_inst' = cnt_inst + 1 /\ Reported' /\ ~ Reported
                  /\ CallsLeft' < CallsLeft
               \/ /\ cnt_inst' = cnt_inst /\ (Reported' <=> Reported)
                  /\ CallsLeft' < CallsLeft
               \/ cnt_inst' = cnt_inst /\ Reported /\ ~ Reported'
  PROVE  Remaining' \in Nat /\ Remaining' < Remaining
<1>1. cnt_inst \in Nat /\ MaxInsts \in Nat
  BY SingleAssumption DEF Typed, SysTypeOK
<1>2. CallsLeft \in 1 .. 5 /\ CallsLeft' \in 1 .. 5
  BY DEF CallsLeft
<1> DEFINE more == IF Reported THEN 1 ELSE 0
           less == MaxInsts + 1 - cnt_inst + more
<1>3. less \in Nat /\ Remaining = 5 * less + CallsLeft
  <2>1. less \in Nat
    BY <1>1 DEF StepInv
  <2>2. Left = less
    BY DEF Left, Reported
  <2> QED BY <2>1, <2>2 DEF Remaining
<1>4. CASE halt'
  <2>1. Remaining' = 0
    BY <1>4 DEF Remaining
  <2> QED BY <1>2, <1>3, <2>1
<1>5. CASE ~ halt'
  <2> DEFINE more1 == IF Reported' THEN 1 ELSE 0
             less1 == MaxInsts + 1 - cnt_inst' + more1
  <2>1. Remaining' = 5 * less1 + CallsLeft'
    BY <1>5 DEF Remaining, Left, Reported
  <2>2. less1 \in Nat
    BY <1>1, <1>5
  <2>3. (less1 = less /\ CallsLeft' < CallsLeft) \/ less1 = less - 1
    BY <1>1, <1>5
  <2> HIDE DEF less, less1
  <2>4. ASSUME NEW l \in Nat, NEW l1 \in Nat, NEW p \in 1 .. 5, NEW p1 \in 1 .. 5,
               (l1 = l /\ p1 < p) \/ l1 = l - 1
        PROVE  5 * l1 + p1 \in Nat /\ 5 * l1 + p1 < 5 * l + p
    BY <2>4
  <2> QED BY <1>2, <1>3, <2>1, <2>2, <2>3, <2>4
<1> QED BY <1>4, <1>5

LEMMA LatchCounts ==
  ASSUME Typed, StepInv, Latch
  PROVE  StepInv' /\ Remaining' \in Nat /\ Remaining' < Remaining
<1>1. UNCHANGED <<cnt_inst, instif, halt, model>>
  BY DEF Latch
<1>2. cnt_inst' \in Nat /\ instif'.valid \in BOOLEAN /\ MaxInsts \in Nat
  BY <1>1, SingleAssumption DEF Typed, SysTypeOK, InstIF
<1>3. CASE step = "latch"
  <2>1. ~ halt /\ step' = "drive" /\ ~ Reported /\ ~ Reported'
    BY <1>3 DEF Latch, Reported, Pending
  <2>2. CallsLeft = 5 /\ CallsLeft' = 4
    BY <1>3, <2>1 DEF CallsLeft
  <2>3. StepInv'
    BY <1>1, <2>1 DEF StepInv
  <2>4. cnt_inst' <= MaxInsts + IF Reported' THEN 1 ELSE 0
    BY <1>2, <1>1, <2>1 DEF StepInv
  <2> QED BY <1>2, <1>1, <2>1, <2>2, <2>3, <2>4, Fewer
<1>4. CASE step = "relatch"
  <2>1. ~ halt /\ step' = "update" /\ (Reported' <=> Reported) /\ UNCHANGED fail
    BY <1>1, <1>4 DEF Latch, Reported, Pending, StepInv, Functional
  <2>2. CallsLeft = 3 /\ CallsLeft' = 2
    BY <1>4, <2>1 DEF CallsLeft
  <2>3. StepInv'
    BY <1>1, <1>4, <2>1 DEF StepInv, Functional
  <2>4. cnt_inst' <= MaxInsts + IF Reported' THEN 1 ELSE 0
    BY <1>2, <1>1, <2>1 DEF StepInv
  <2> QED BY <1>2, <1>1, <2>1, <2>2, <2>3, <2>4, Fewer
<1> QED BY <1>3, <1>4 DEF Latch

LEMMA DriveCounts ==
  ASSUME Typed, StepInv, FunctionalDrive \/ VerilatedDrive
  PROVE  StepInv' /\ Remaining' \in Nat /\ Remaining' < Remaining
<1>0. cnt_inst \in Nat /\ MaxInsts \in Nat /\ instif \in InstIF
  BY SingleAssumption DEF Typed, SysTypeOK
<1>1. /\ step = "drive" /\ step' = "relatch" /\ UNCHANGED <<halt, model>>
      /\ ~ halt /\ ~ Reported /\ CallsLeft = 4 /\ CallsLeft' = 3
  BY DEF FunctionalDrive, VerilatedDrive, StepInv, Reported, Pending, CallsLeft
<1>2. cnt_inst <= MaxInsts
  BY <1>1 DEF StepInv
<1>3. CASE FunctionalDrive
  <2>1. Functional /\ Functional'
    BY <1>3 DEF FunctionalDrive, Functional
  <2> DEFINE x == Exec(core, Seen(Prim))
  <2>2. CASE x.known
    <3>0. core \in Arch /\ Seen(Prim) \in Image
      BY <2>1, SeenType DEF Typed, SysTypeOK, Cores, Image
    <3>1. x.instif \in InstIF
      BY <3>0, ExecType
    <3>2. cnt_inst' = cnt_inst + 1 /\ instif' = [x.instif EXCEPT !.valid = TRUE]
      BY <1>3, <2>2 DEF FunctionalDrive
    <3> HIDE DEF x
    <3>3. instif'.valid = TRUE
      BY <3>1, <3>2, ValidType
    <3>4. Reported'
      BY <1>1, <2>1, <3>3 DEF Reported, Pending
    <3>5. StepInv'
      BY <1>0, <1>1, <1>2, <3>2, <3>3, <3>4 DEF StepInv
    <3> QED BY <1>0, <1>1, <1>2, <3>2, <3>3, <3>4, <3>5, Fewer
  <2>3. CASE ~ x.known
    <3>1. cnt_inst' = cnt_inst /\ instif' = [instif EXCEPT !.valid = FALSE] /\ fail' = TRUE
      BY <1>3, <2>3 DEF FunctionalDrive
    <3>2. instif'.valid = FALSE
      BY <1>0, <3>1, ValidType
    <3>3. ~ Reported'
      BY <3>2 DEF Reported
    <3>4. StepInv'
      BY <1>0, <1>1, <1>2, <3>1 DEF StepInv
    <3> QED BY <1>0, <1>1, <1>2, <3>1, <3>2, <3>3, <3>4, Fewer
  <2> QED BY <2>2, <2>3
<1>4. CASE VerilatedDrive
  <2>1. UNCHANGED <<cnt_inst, instif>> /\ ~ Functional /\ ~ Functional'
    BY <1>4 DEF VerilatedDrive, Functional
  <2>2. ~ Reported'
    BY <1>1, <2>1 DEF Reported, Pending
  <2>3. StepInv'
    BY <1>0, <1>1, <1>2, <2>1 DEF StepInv
  <2>4. instif'.valid \in BOOLEAN
    BY <1>0, <2>1 DEF InstIF
  <2> QED BY <1>0, <1>1, <1>2, <2>1, <2>2, <2>3, <2>4, Fewer
<1> QED BY <1>3, <1>4

LEMMA UpdateCounts ==
  ASSUME Typed, Typed', StepInv, Update
  PROVE  StepInv' /\ Remaining' \in Nat /\ Remaining' < Remaining
<1>0. cnt_inst \in Nat /\ cnt_inst' \in Nat /\ MaxInsts \in Nat /\ instif'.valid \in BOOLEAN
  BY SingleAssumption DEF Typed, SysTypeOK, InstIF
<1>1. /\ step = "update" /\ step' = "body" /\ UNCHANGED <<halt, model, fail>>
      /\ ~ halt /\ CallsLeft = 2 /\ CallsLeft' = 1
  BY DEF Update, StepInv, CallsLeft
<1>2. CASE Functional
  <2>1. Functional' /\ UNCHANGED <<cnt_inst, instif>>
    BY <1>2 DEF Update, Functional
  <2>2. Reported' <=> Reported
    BY <1>1, <1>2, <2>1 DEF Reported, Pending
  <2>3. StepInv'
    BY <1>1, <1>2, <2>1, <2>2 DEF StepInv
  <2> QED BY <1>0, <1>1, <2>1, <2>2, <2>3, Fewer DEF StepInv
<1>3. CASE ~ Functional
  <2>1. ~ Functional' /\ cnt_inst' = IF instif'.valid THEN cnt_inst + 1 ELSE cnt_inst
    BY <1>3 DEF Update, VerilatedUpdate, Functional
  <2>2. ~ Reported /\ (Reported' <=> instif'.valid)
    BY <1>1, <1>3, <2>1 DEF Reported, Pending
  <2>3. cnt_inst <= MaxInsts
    BY <1>1, <2>2 DEF StepInv
  <2>4. StepInv'
    BY <1>0, <1>1, <2>1, <2>2, <2>3 DEF StepInv
  <2> QED BY <1>0, <1>1, <2>1, <2>2, <2>3, <2>4, Fewer
<1> QED BY <1>2, <1>3

LEMMA BodyCounts ==
  ASSUME Typed, Typed', StepInv, Body
  PROVE  StepInv' /\ Remaining' \in Nat /\ (Waits \/ Remaining' < Remaining)
<1>0. cnt_inst \in Nat /\ MaxInsts \in Nat /\ instif.valid \in BOOLEAN /\ halt' \in BOOLEAN
  BY SingleAssumption DEF Typed, SysTypeOK, InstIF
<1>1. /\ step = "body" /\ step' = "latch" /\ UNCHANGED <<cnt_inst, instif, model>>
      /\ ~ halt /\ ~ Reported' /\ CallsLeft' = 5
  BY DEF Body, StepInv, Reported, Pending, CallsLeft
<1>2. ~ halt' => ~ Stops
  BY DEF Body
<1>3. StepInv'
  BY <1>0, <1>1, <1>2 DEF StepInv, Stops
<1>4. Reported \/ Waits \/ halt'
  BY <1>0, <1>1, <1>2 DEF Reported, Pending, Waits, StepInv, Stops
<1>5. Remaining' \in Nat
  <2>1. CASE halt'
    BY <2>1 DEF Remaining
  <2>2. CASE ~ halt'
    <3>1. cnt_inst' \in Nat /\ cnt_inst' <= MaxInsts
      BY <1>0, <1>1, <1>2, <2>2 DEF Stops
    <3>2. Left' = MaxInsts + 1 - cnt_inst'
      BY <1>0, <1>1, <3>1 DEF Left, Reported
    <3> QED BY <1>0, <1>1, <2>2, <3>1, <3>2 DEF Remaining
  <2> QED BY <2>1, <2>2
<1>6. Reported \/ halt' => Remaining' < Remaining
  <2>1. ~ halt' => cnt_inst' <= MaxInsts
    BY <1>0, <1>1, <1>2 DEF Stops
  <2>2. instif'.valid \in BOOLEAN
    BY <1>0, <1>1
  <2> QED BY <1>0, <1>1, <2>1, <2>2, Fewer
<1> QED BY <1>3, <1>4, <1>5, <1>6

(* Only the cycles in which a verilated core reports nothing do not bring a  *)
(* run nearer to its end, whatever the core, the program, the host and the   *)
(* limit (sim_single.cpp).                                                   *)
THEOREM StepsUsedUp == SysSpec => EveryStepCounts
<1>1. Typed /\ Typed' /\ StepInv /\ [SysNext]_sysVars =>
        StepInv' /\ [Remaining' \in Nat /\ (Waits \/ Remaining' < Remaining)]_sysVars
  <2>1. ASSUME StepInv, UNCHANGED sysVars PROVE StepInv'
    <3>1. UNCHANGED <<halt, step, cnt_inst, instif, fail, model>>
      BY <2>1 DEF sysVars
    <3> QED BY <2>1, <3>1 DEF StepInv, Reported, Pending, Functional
  <2> QED BY <2>1, LatchCounts, DriveCounts, UpdateCounts, BodyCounts DEF SysNext
<1> QED BY <1>1, StepInvInit, TypedStep, SysTypeInit, PTL DEF SysSpec, EveryStepCounts
================================================================================
