----------------------------- MODULE Lockstep_proofs -----------------------------
(***************************************************************************)
(* Theorems of Lockstep, for every program, memory size, limit, timeout,   *)
(* verilated core and host.                                                *)
(***************************************************************************)
EXTENDS Lockstep, CoreTypes_proofs, TLAPS

LEMMA SettledType == ASSUME TypeOK PROVE Settled \in Image
  BY AfterInstType DEF Settled, TypeOK

LEMMA VExecType ==
  ASSUME TypeOK, NEW x \in VExec(ArchOf(vcore), Settled)
  PROVE  x.arch \in Arch /\ x.instif \in InstIF
<1>1. ArchOf(vcore) \in Arch /\ Settled \in Image
  BY ArchOfType, SettledType DEF TypeOK
<1>2. x \in [arch : Arch, instif : InstIF]
  BY <1>1, VExecAssumption
<1> QED BY <1>2

(* What a cycle of vcore without a report leaves alone. *)
LEMMA Stalled ==
  ASSUME TypeOK, VIdle
  PROVE  /\ vcore' \in Core /\ vcore'.cnt_inst = vcore.cnt_inst /\ ~ vcore'.instif.valid
         /\ FAULT_INTERVAL = 0 => ArchOf(vcore') = ArchOf(vcore)
<1>1. PICK inst \in {vcore.instif} \cup {x.instif : x \in VExec(ArchOf(vcore), Settled)} :
        vcore' \in Upset(Unreported(vcore, inst))
  BY DEF VIdle, VStalls
<1>2. inst \in InstIF
  BY <1>1, VExecType DEF TypeOK, Core
<1> DEFINE silent == [inst EXCEPT !.valid = FALSE]
           u == Unreported(vcore, inst)
<1>3. silent \in InstIF /\ ~ silent.valid
  BY <1>2 DEF InstIF
<1>4. u = [vcore EXCEPT !.instif = silent]
  BY DEF Unreported
<1> HIDE DEF silent
<1>5. u \in Core /\ u.cnt_inst = vcore.cnt_inst /\ ~ u.instif.valid /\ ArchOf(u) = ArchOf(vcore)
  BY <1>3, <1>4 DEF TypeOK, Core, ArchOf
<1> HIDE DEF u
<1> QED BY <1>1, <1>5, UpsetType DEF u

(* What a report changes. *)
LEMMA Reported ==
  ASSUME TypeOK, NEW x, x.arch \in Arch, x.instif \in InstIF, vcore' \in Upset(Retire(vcore, x))
  PROVE  /\ vcore' \in Core /\ vcore'.cnt_inst = vcore.cnt_inst + 1
         /\ vcore'.instif = [x.instif EXCEPT !.valid = TRUE]
         /\ vcore'.instif.valid /\ vcore'.instif.ir = x.instif.ir
         /\ FAULT_INTERVAL = 0 => ArchOf(vcore') = x.arch
<1>1. /\ Retire(vcore, x) \in Core /\ Retire(vcore, x).cnt_inst = vcore.cnt_inst + 1
      /\ ArchOf(Retire(vcore, x)) = x.arch /\ Retire(vcore, x).instif.valid
  BY RetireType DEF TypeOK
<1>2. Retire(vcore, x).instif = [x.instif EXCEPT !.valid = TRUE]
  BY DEF Retire
<1>3. [x.instif EXCEPT !.valid = TRUE].ir = x.instif.ir
  BY DEF InstIF
<1> QED BY <1>1, <1>2, <1>3, UpsetType

LEMMA ReplyType ==
  ASSUME TypeOK, NEW r \in Replies(fcore.reg, fmem)
  PROVE  r.exit \in BOOLEAN /\ r.a0 \in Val \cup {Keep} /\ IsTransfer(r.xfer)
BY RepliesAssumption DEF TypeOK, Core, Reply

(* The state of the two cores, their memories and the loop is what the code *)
(* declares: counters in their bounds, at most one store not yet made.      *)
THEOREM TypeCorrect == Spec => []TypeOK
<1>1. Init => TypeOK
  <2> SUFFICES ASSUME Init PROVE TypeOK
    OBVIOUS
  <2>1. fcore \in Core /\ vcore \in Core
    BY InitCoreType DEF Init
  <2>2. log_buffer \in [Slots -> Nat] /\ i \in 0 .. VCORE_TIMEOUT
    BY LockstepAssumption DEF Init
  <2> QED BY <2>1, <2>2, ProgramAssumption DEF Init, TypeOK
<1>2. TypeOK /\ [Next]_vars => TypeOK'
  <2> SUFFICES ASSUME TypeOK, [Next]_vars PROVE TypeOK'
    OBVIOUS
  <2>1. CASE FExecute
    <3> DEFINE x == Exec(ArchOf(fcore), fmem)
    <3>1. x.arch \in Arch /\ x.instif \in InstIF
      BY ExecAssumption, ArchOfType DEF TypeOK
    <3>2. fcore' = Retire(fcore, x) /\ fmem' = AfterInst(fmem, x.instif)
      BY <2>1 DEF FExecute, FRetires
    <3> HIDE DEF x
    <3>3. fcore' \in Core /\ fmem' \in Image
      BY <3>1, <3>2, RetireType, AfterInstType DEF TypeOK
    <3>4. fhalt' \in BOOLEAN /\ i' \in 0 .. VCORE_TIMEOUT
      BY <2>1, LockstepAssumption DEF FExecute, FRetires, LimitReached
    <3> QED BY <2>1, <3>3, <3>4 DEF FExecute, FRetires, TypeOK, hostVars
  <2>2. CASE FUnknown
    <3>1. fcore' \in Core
      BY <2>2 DEF FUnknown, FFails, Unreported, TypeOK, Core, InstIF
    <3>2. i' \in 0 .. VCORE_TIMEOUT
      BY <2>2, LockstepAssumption DEF FUnknown, FFails
    <3> QED BY <2>2, <3>1, <3>2 DEF FUnknown, FFails, TypeOK, hostVars
  <2>3. CASE VIdle
    <3>4. vcore' \in Core
      BY <2>3, Stalled
    <3>5. i' \in 0 .. VCORE_TIMEOUT /\ stage' \in {"check", "wait"}
      <4>1. i \in 0 .. VCORE_TIMEOUT /\ VCORE_TIMEOUT \in Nat /\ i < VCORE_TIMEOUT /\ i' = i + 1
        BY <2>3, LockstepAssumption DEF VIdle, VStalls, Loops, TypeOK
      <4>2. stage' = IF i' < VCORE_TIMEOUT THEN "wait" ELSE "check"
        BY <2>3 DEF VIdle, VStalls, Loops
      <4> QED BY <4>1, <4>2
    <3>6. vmem' \in Image /\ late' = None
      BY <2>3, SettledType DEF VIdle, VStalls
    <3> QED BY <2>3, <3>4, <3>5, <3>6 DEF VIdle, VStalls, TypeOK, hostVars
  <2>4. CASE VRetire
    <3>1. PICK x \in VExec(ArchOf(vcore), Settled), d \in Deferred :
            /\ vcore' \in Upset(Retire(vcore, x))
            /\ vmem' = IF d THEN Settled ELSE AfterInst(Settled, x.instif)
            /\ late' = IF d THEN x.instif ELSE None
      BY <2>4 DEF VRetire, VReports
    <3>2. x.arch \in Arch /\ x.instif \in InstIF
      BY VExecType
    <3>3. vcore' \in Core
      BY <3>1, <3>2, Reported
    <3>4. vmem' \in Image
      BY <3>1, <3>2, SettledType, AfterInstType
    <3>5. late' \in InstIF \cup {None}
      BY <3>1, <3>2
    <3> QED BY <2>4, <3>3, <3>4, <3>5 DEF VRetire, VReports, TypeOK, hostVars
  <2>5. CASE Mismatch
    BY <2>5 DEF Mismatch, Disagree, TypeOK
  <2>7. ASSUME SaveLog PROVE log_buffer' \in [Slots -> Nat]
    BY <2>7 DEF SaveLog, TypeOK, Core
  <2>8. ASSUME NEW fh \in BOOLEAN, NEW vh \in BOOLEAN, LoopOrStop(fh, vh)
        PROVE  /\ fhalt' \in BOOLEAN /\ vhalt' \in BOOLEAN
               /\ stage' \in {"fetch", "done"}
               /\ outcome' \in {"none", "mismatch", "one stopped"}
    BY <2>8 DEF LoopOrStop, TypeOK
  <2>9. VStops \in BOOLEAN
    BY DEF VStops
  <2>10. CASE Pass
    BY <2>10, <2>7, <2>8, <2>9 DEF Pass, Agree, TypeOK
  <2>11. CASE PassCall
    <3>1. PICK r \in Replies(fcore.reg, fmem) :
            /\ fcore' = Returned(fcore, r.a0)
            /\ vcore' = Returned(vcore, r.a0)
            /\ fmem' = Transferred(r.xfer, fmem, fmem)
            /\ vmem' = Transferred(r.xfer, fmem, vmem)
            /\ LoopOrStop(fhalt \/ r.exit, VStops \/ r.exit)
      BY <2>11 DEF PassCall, Emulates, Caller
    <3>2. r.exit \in BOOLEAN /\ r.a0 \in Val \cup {Keep} /\ IsTransfer(r.xfer)
      BY ReplyType
    <3>3. fcore' \in Core /\ vcore' \in Core
      BY <3>1, <3>2, ReturnedType DEF TypeOK
    <3>4. fmem' \in Image /\ vmem' \in Image
      BY <3>1, <3>2, TransferredType DEF TypeOK
    <3>5. /\ fhalt' \in BOOLEAN /\ vhalt' \in BOOLEAN
          /\ stage' \in {"fetch", "done"}
          /\ outcome' \in {"none", "mismatch", "one stopped"}
      BY <2>8, <2>9, <3>1, <3>2 DEF TypeOK
    <3>6. log_buffer' \in [Slots -> Nat]
      BY <2>7, <2>11 DEF PassCall, Emulates
    <3> QED BY <2>11, <3>3, <3>4, <3>5, <3>6 DEF PassCall, Emulates, TypeOK
  <2>12. CASE UNCHANGED vars
    BY <2>12 DEF vars, TypeOK
  <2> QED BY <2>1, <2>2, <2>3, <2>4, <2>5, <2>10, <2>11, <2>12 DEF Next
<1> QED BY <1>1, <1>2, PTL DEF Spec

--------------------------------------------------------------------------------
(* The loop's own bookkeeping, for any verilated core: the halt flags and    *)
(* the counters at each place of the loop.  It is inductive with TypeOK.     *)
LoopInv ==
  /\ stage = "fetch" => /\ ~ fhalt /\ ~ vhalt
                        /\ fcore.cnt_inst = vcore.cnt_inst
                        /\ fcore.cnt_inst <= MaxInsts
                        /\ MaxInsts > 0 => fcore.cnt_inst < MaxInsts
  /\ stage \in {"wait", "check"}
       => ~ vhalt /\ (fhalt <=> fcore.cnt_inst >= MaxInsts \/ ~ fcore.instif.valid)
  /\ stage = "wait" /\ fcore.instif.valid => fcore.cnt_inst = vcore.cnt_inst + 1
  /\ stage = "check" /\ fcore.instif.valid /\ vcore.instif.valid
       => fcore.cnt_inst = vcore.cnt_inst
  /\ MaxInsts > 0 => fcore.cnt_inst <= MaxInsts
  /\ late # None => late.ir = vcore.instif.ir

LEMMA LoopInvariant == Spec => []LoopInv
<1>1. Init => LoopInv
  BY LockstepAssumption DEF Init, InitCore, LoopInv
<1>2. TypeOK /\ LoopInv /\ [Next]_vars => LoopInv'
  <2> SUFFICES ASSUME TypeOK, LoopInv, [Next]_vars PROVE LoopInv'
    OBVIOUS
  <2> USE LockstepAssumption
  <2>0. fcore.cnt_inst \in Nat /\ vcore.cnt_inst \in Nat
    BY DEF TypeOK, Core
  <2>1. CASE FExecute
    <3> DEFINE x == Exec(ArchOf(fcore), fmem)
    <3>1. fcore' = Retire(fcore, x) /\ (fhalt' <=> fcore.cnt_inst + 1 >= MaxInsts)
          /\ stage = "fetch" /\ stage' = "wait" /\ vcore' = vcore /\ vhalt' = vhalt /\ late' = late
      BY <2>1 DEF FExecute, FRetires, LimitReached
    <3>2. fcore'.cnt_inst = fcore.cnt_inst + 1 /\ fcore'.instif.valid
      <4>1. x.arch \in Arch /\ x.instif \in InstIF
        BY ExecAssumption, ArchOfType DEF TypeOK
      <4> QED BY <3>1, <4>1, RetireType DEF TypeOK
    <3> HIDE DEF x
    <3> QED BY <2>0, <3>1, <3>2 DEF LoopInv
  <2>2. CASE FUnknown
    <3>1. fcore'.cnt_inst = fcore.cnt_inst /\ ~ fcore'.instif.valid
      BY <2>2 DEF FUnknown, FFails, Unreported, TypeOK, Core, InstIF
    <3>2. fhalt' /\ stage = "fetch" /\ stage' = "wait" /\ vcore' = vcore /\ vhalt' = vhalt
          /\ late' = late
      BY <2>2 DEF FUnknown, FFails
    <3> QED BY <2>0, <3>1, <3>2 DEF LoopInv
  <2>3. CASE VIdle
    <3>3. vcore'.cnt_inst = vcore.cnt_inst /\ ~ vcore'.instif.valid
      BY <2>3, Stalled
    <3>4. stage = "wait" /\ stage' \in {"wait", "check"} /\ fcore' = fcore /\ fhalt' = fhalt
          /\ vhalt' = vhalt /\ late' = None
      BY <2>3 DEF VIdle, VStalls
    <3> QED BY <2>0, <3>3, <3>4 DEF LoopInv
  <2>4. CASE VRetire
    <3>1. PICK x \in VExec(ArchOf(vcore), Settled), d \in Deferred :
            /\ vcore' \in Upset(Retire(vcore, x))
            /\ late' = IF d THEN x.instif ELSE None
      BY <2>4 DEF VRetire, VReports
    <3>2. vcore'.cnt_inst = vcore.cnt_inst + 1 /\ vcore'.instif.ir = x.instif.ir
      <4>1. x.arch \in Arch /\ x.instif \in InstIF
        BY VExecType
      <4> QED BY <3>1, <4>1, Reported
    <3>3. stage = "wait" /\ stage' = "check" /\ fcore' = fcore /\ fhalt' = fhalt
          /\ vhalt' = vhalt
      BY <2>4 DEF VRetire, VReports
    <3> QED BY <2>0, <3>1, <3>2, <3>3 DEF LoopInv
  <2>5. CASE Mismatch
    BY <2>5 DEF Mismatch, Disagree, LoopInv
  <2>6. ASSUME NEW fh \in BOOLEAN, NEW vh \in BOOLEAN, LoopOrStop(fh, vh),
               stage = "check", fhalt => fh, VStops => vh,
               fcore'.cnt_inst = fcore.cnt_inst, vcore'.cnt_inst = vcore.cnt_inst,
               vcore'.instif = vcore.instif, late' = late
        PROVE  LoopInv'
    <3>1. fhalt' = fh /\ vhalt' = vh /\ stage' = IF fh \/ vh THEN "done" ELSE "fetch"
      BY <2>6 DEF LoopOrStop
    <3>2. CASE stage' = "fetch"
      <4>1. ~ fhalt /\ vcore.instif.valid
        BY <2>6, <3>1, <3>2 DEF VStops
      <4> QED BY <2>0, <2>6, <3>1, <3>2, <4>1 DEF LoopInv
    <3>3. CASE stage' # "fetch"
      BY <2>6, <3>1, <3>3 DEF LoopInv
    <3> QED BY <3>2, <3>3
  <2>7. CASE Pass
    BY <2>6, <2>7 DEF Pass, Agree, VStops, TypeOK
  <2>8. CASE PassCall
    <3>1. PICK r \in Replies(fcore.reg, fmem) :
            /\ fcore' = Returned(fcore, r.a0)
            /\ vcore' = Returned(vcore, r.a0)
            /\ LoopOrStop(fhalt \/ r.exit, VStops \/ r.exit)
      BY <2>8 DEF PassCall, Emulates, Caller
    <3>2. r.exit \in BOOLEAN /\ r.a0 \in Val \cup {Keep}
      BY ReplyType
    <3>3. fcore'.cnt_inst = fcore.cnt_inst /\ vcore'.cnt_inst = vcore.cnt_inst
          /\ vcore'.instif = vcore.instif
      BY <3>1, <3>2, ReturnedType DEF TypeOK
    <3>4. stage = "check" /\ late' = late
      BY <2>8 DEF PassCall, Emulates
    <3> QED BY <2>6, <3>1, <3>2, <3>3, <3>4 DEF VStops, TypeOK
  <2>9. CASE UNCHANGED vars
    BY <2>9 DEF vars, LoopInv
  <2> QED BY <2>1, <2>2, <2>3, <2>4, <2>5, <2>7, <2>8, <2>9 DEF Next
<1> QED BY <1>1, <1>2, TypeCorrect, PTL DEF Spec

(* The counters of the two cores are equal whenever an iteration starts. *)
THEOREM CountersAgree == Spec => []CountsAgree
<1>1. LoopInv => CountsAgree
  BY DEF LoopInv, CountsAgree
<1> QED BY <1>1, LoopInvariant, PTL

(* With a positive limit, -i bounds the instructions of the program. *)
THEOREM LimitKept == ASSUME MaxInsts > 0 PROVE Spec => []AtMostMaxInsts
<1>1. LoopInv => AtMostMaxInsts
  BY DEF LoopInv, AtMostMaxInsts
<1> QED BY <1>1, LoopInvariant, PTL

(* The loop goes on only from an iteration both cores took part in. *)
THEOREM BothTookPart == Spec => GoesOnOnlyAfterBoth
<1> DEFINE GoesOn == stage = "check" /\ stage' = "fetch"
           Both == fcore.instif.valid /\ vcore.instif.valid /\ fcore.cnt_inst < MaxInsts
<1>1. TypeOK /\ LoopInv /\ [Next]_vars => [GoesOn => Both]_vars
  <2> SUFFICES ASSUME TypeOK, LoopInv, Next, stage = "check", stage' = "fetch" PROVE Both
    OBVIOUS
  <2>1. Pass \/ PassCall
    BY DEF Next, FExecute, FRetires, FUnknown, FFails, VIdle, VStalls, VRetire, VReports, Mismatch, Disagree
  <2>2. ~ fhalt /\ ~ VStops
    <3>1. CASE Pass
      BY <3>1 DEF Pass, Agree, LoopOrStop
    <3>2. CASE PassCall
      BY <3>2 DEF PassCall, Emulates, LoopOrStop
    <3> QED BY <2>1, <3>1, <3>2
  <2>3. vcore.instif.valid /\ fcore.instif.valid /\ ~ fcore.cnt_inst >= MaxInsts
    BY <2>2 DEF LoopInv, VStops
  <2>4. fcore.cnt_inst \in Nat
    BY DEF TypeOK, Core
  <2> QED BY <2>3, <2>4, LockstepAssumption
<1> QED BY <1>1, TypeCorrect, LoopInvariant, PTL DEF Spec, GoesOnOnlyAfterBoth

--------------------------------------------------------------------------------
(* What is left of a run, as its two factors: fewer instructions and any     *)
(* place in the iteration, or as many and a place nearer to its end.         *)
LEMMA FewerLeft ==
  ASSUME NEW a \in Nat, NEW b \in Nat, NEW p \in 0 .. VCORE_TIMEOUT + 2,
         NEW q \in 0 .. VCORE_TIMEOUT + 2,
         b < a \/ (b = a /\ q < p)
  PROVE  /\ b * (VCORE_TIMEOUT + 3) + q \in Nat
         /\ b * (VCORE_TIMEOUT + 3) + q < a * (VCORE_TIMEOUT + 3) + p
<1> DEFINE T == VCORE_TIMEOUT + 3
<1>1. T \in Nat /\ p < T /\ q < T
  BY LockstepAssumption
<1> HIDE DEF T
<1>2. b * T \in Nat /\ a * T \in Nat
  BY <1>1
<1>3. CASE b < a
  <2>1. PICK d \in Nat : a = b + 1 + d
    <3>1. a - b - 1 \in Nat /\ a = b + 1 + (a - b - 1)
      BY <1>3
    <3> QED BY <3>1
  <2>2. a * T = b * T + T + d * T /\ d * T \in Nat
    BY <2>1, <1>1
  <2>3. b * T + q \in Nat /\ b * T + q < a * T + p
    BY <1>1, <1>2, <2>2
  <2> QED BY <2>3 DEF T
<1>4. CASE b = a /\ q < p
  <2>1. b * T + q \in Nat /\ b * T + q < a * T + p
    BY <1>1, <1>2, <1>4
  <2> QED BY <2>1 DEF T
<1> QED BY <1>3, <1>4

(* A run ends: each step, of whatever verilated core, uses up some of a      *)
(* number fixed by the limit and the timeout.                                *)
THEOREM StepsUsedUp == Spec => EveryStepCounts
<1> USE LockstepAssumption
<1>1. ASSUME TypeOK, LoopInv, Next
      PROVE  /\ Left \in Nat /\ Left' \in Nat
             /\ Place \in 0 .. VCORE_TIMEOUT + 2 /\ Place' \in 0 .. VCORE_TIMEOUT + 2
             /\ Left' < Left \/ (Left' = Left /\ Place' < Place)
  <2>0. fcore.cnt_inst \in Nat /\ i \in 0 .. VCORE_TIMEOUT /\ fhalt \in BOOLEAN
    BY <1>1 DEF TypeOK, Core
  <2>1. CASE FExecute
    <3> DEFINE x == Exec(ArchOf(fcore), fmem)
    <3>1. fcore' = Retire(fcore, x) /\ (fhalt' <=> fcore.cnt_inst + 1 >= MaxInsts)
          /\ stage = "fetch" /\ stage' = "wait" /\ i' = 0
      BY <2>1 DEF FExecute, FRetires, LimitReached
    <3>2. fcore'.cnt_inst = fcore.cnt_inst + 1
      <4>1. x.arch \in Arch /\ x.instif \in InstIF
        BY <1>1, ExecAssumption, ArchOfType DEF TypeOK
      <4> QED BY <1>1, <3>1, <4>1, RetireType DEF TypeOK
    <3> HIDE DEF x
    <3>3. ~ fhalt /\ fcore.cnt_inst <= MaxInsts
      BY <1>1, <3>1 DEF LoopInv
    <3>4. Place = 1 /\ Place' = VCORE_TIMEOUT + 2
      BY <3>1 DEF Place
    <3>5. Left = MaxInsts + 1 - fcore.cnt_inst
          /\ Left' = IF fhalt' THEN 0 ELSE MaxInsts - fcore.cnt_inst
      BY <2>0, <3>2, <3>3 DEF Left
    <3> QED BY <2>0, <3>1, <3>3, <3>4, <3>5
  <2>2. CASE FUnknown
    <3>1. fhalt' /\ stage = "fetch" /\ stage' = "wait" /\ i' = 0
      BY <2>2 DEF FUnknown, FFails
    <3>2. ~ fhalt /\ fcore.cnt_inst <= MaxInsts
      BY <1>1, <3>1 DEF LoopInv
    <3>3. Place = 1 /\ Place' = VCORE_TIMEOUT + 2
      BY <3>1 DEF Place
    <3>4. Left = MaxInsts + 1 - fcore.cnt_inst /\ Left' = 0
      BY <3>1, <3>2 DEF Left
    <3> QED BY <2>0, <3>2, <3>3, <3>4
  <2>3. ASSUME stage \in {"wait", "check"}
        PROVE  Left \in Nat
    BY <2>0, <2>3, <1>1 DEF LoopInv, Left
  <2>4. CASE VIdle
    <3>1. stage = "wait" /\ i < VCORE_TIMEOUT /\ i' = i + 1 /\ UNCHANGED <<fcore, fhalt>>
          /\ stage' = IF i' < VCORE_TIMEOUT THEN "wait" ELSE "check"
      BY <2>4 DEF VIdle, VStalls, Loops
    <3>2. Left' = Left
      BY <3>1 DEF Left
    <3>3. Place = VCORE_TIMEOUT + 2 - i
          /\ Place' = IF i' < VCORE_TIMEOUT THEN VCORE_TIMEOUT + 2 - i' ELSE 2
      BY <3>1 DEF Place
    <3> QED BY <2>0, <2>3, <3>1, <3>2, <3>3
  <2>5. CASE VRetire
    <3>1. stage = "wait" /\ i < VCORE_TIMEOUT /\ stage' = "check" /\ UNCHANGED <<fcore, fhalt>>
      BY <2>5 DEF VRetire, VReports, Loops
    <3>2. Left' = Left
      BY <3>1 DEF Left
    <3>3. Place = VCORE_TIMEOUT + 2 - i /\ Place' = 2
      BY <3>1 DEF Place
    <3> QED BY <2>0, <2>3, <3>1, <3>2, <3>3
  <2>6. ASSUME stage = "check", stage' \in {"fetch", "done"}, fhalt => fhalt',
               fcore'.cnt_inst = fcore.cnt_inst
        PROVE  /\ Left \in Nat /\ Left' \in Nat
               /\ Place \in 0 .. VCORE_TIMEOUT + 2 /\ Place' \in 0 .. VCORE_TIMEOUT + 2
               /\ Left' < Left \/ (Left' = Left /\ Place' < Place)
    <3>1. Place = 2 /\ Place' \in {0, 1}
      BY <2>6 DEF Place
    <3>2. Left \in Nat
      BY <2>3, <2>6
    <3>3. Left' \in {0, Left}
      BY <2>6 DEF Left
    <3> QED BY <3>1, <3>2, <3>3
  <2>7. CASE Mismatch
    BY <2>6, <2>7 DEF Mismatch, Disagree
  <2>8. CASE Pass
    BY <2>6, <2>8 DEF Pass, Agree, LoopOrStop
  <2>9. CASE PassCall
    <3>1. PICK r \in Replies(fcore.reg, fmem) :
            fcore' = Returned(fcore, r.a0) /\ LoopOrStop(fhalt \/ r.exit, VStops \/ r.exit)
      BY <2>9 DEF PassCall, Emulates, Caller
    <3>2. fcore'.cnt_inst = fcore.cnt_inst
      BY <1>1, <3>1, ReplyType, ReturnedType DEF TypeOK
    <3>3. stage = "check" /\ stage' \in {"fetch", "done"} /\ (fhalt => fhalt')
      BY <2>9, <3>1 DEF PassCall, Emulates, LoopOrStop
    <3> QED BY <2>6, <3>2, <3>3
  <2> QED BY <1>1, <2>1, <2>2, <2>4, <2>5, <2>7, <2>8, <2>9 DEF Next
<1>2. TypeOK /\ LoopInv /\ [Next]_vars => [Remaining' \in Nat /\ Remaining' < Remaining]_vars
  <2> SUFFICES ASSUME TypeOK, LoopInv, Next PROVE Remaining' \in Nat /\ Remaining' < Remaining
    OBVIOUS
  <2>1. /\ Left \in Nat /\ Left' \in Nat
        /\ Place \in 0 .. VCORE_TIMEOUT + 2 /\ Place' \in 0 .. VCORE_TIMEOUT + 2
        /\ Left' < Left \/ (Left' = Left /\ Place' < Place)
    BY <1>1
  <2> QED BY <2>1, FewerLeft DEF Remaining
<1> QED BY <1>2, TypeCorrect, LoopInvariant, PTL DEF Spec, EveryStepCounts

--------------------------------------------------------------------------------
(* The store of a report reaches vcore's memory now or a cycle later: the   *)
(* same once it is settled.                                                 *)
LEMMA RetireSettles ==
  ASSUME TypeOK, NEW x \in VExec(ArchOf(vcore), Settled), NEW d \in Deferred,
         vmem' = IF d THEN Settled ELSE AfterInst(Settled, x.instif),
         late' = IF d THEN x.instif ELSE None
  PROVE  Settled' = AfterInst(Settled, x.instif)
<1>1. x.instif # None
  BY VExecType, LockstepAssumption
<1>2. Settled' = IF late' = None THEN vmem' ELSE AfterInst(vmem', late')
  BY DEF Settled
<1> QED BY <1>1, <1>2, LockstepAssumption

(* An iteration that ends with a system call has no store on its way.  *)
LEMMA CallSettles ==
  ASSUME TypeOK, LoopInv, IsCall, Validate(fcore.instif, vcore.instif), late' = late
  PROVE  Settled = vmem /\ Settled' = vmem'
<1>1. late = None \/ late.ir = Ecall
  BY DEF LoopInv, IsCall, Validate
<1>2. \A m : late # None => AfterInst(m, late) = m
  BY <1>1, ProgramAssumption DEF AfterInst
<1> QED BY <1>2 DEF Settled

--------------------------------------------------------------------------------
(* A verilated core that computes what the functional core computes and     *)
(* reports every instruction before the timeout; the program consists of    *)
(* instructions the functional core knows.                                  *)
AllKnown == \A a \in Arch, m \in Image : Exec(a, m).known

CorrectVcore ==
  /\ FAULT_INTERVAL = 0
  /\ MaxStall < VCORE_TIMEOUT
  /\ \A a \in Arch, m \in Image : \A x \in VExec(a, m) :
       x.arch = Exec(a, m).arch /\ x.instif = Exec(a, m).instif

(* What is in step, at each place of the loop. *)
StepInv ==
  /\ outcome = "none"
  /\ stage = "fetch" => ArchOf(fcore) = ArchOf(vcore) /\ fmem = Settled
  /\ stage = "wait" =>
       LET x == Exec(ArchOf(vcore), Settled)
       IN  /\ ArchOf(fcore) = x.arch
           /\ fcore.instif = [x.instif EXCEPT !.valid = TRUE]
           /\ fmem = AfterInst(Settled, x.instif)
           /\ i <= MaxStall
  /\ stage = "check" =>
       /\ ArchOf(fcore) = ArchOf(vcore) /\ fmem = Settled
       /\ fcore.instif = vcore.instif /\ fcore.instif.valid

LEMMA SameReportPasses == ASSUME NEW inst PROVE Validate(inst, inst)
  BY DEF Validate

LEMMA StepInvariant == ASSUME AllKnown, CorrectVcore PROVE Spec => []StepInv
<1>1. Init => StepInv
  BY DEF Init, InitCore, ArchOf, Settled, StepInv
<1>2. TypeOK /\ LoopInv /\ StepInv /\ [Next]_vars => StepInv'
  <2> SUFFICES ASSUME TypeOK, LoopInv, StepInv, [Next]_vars PROVE StepInv'
    OBVIOUS
  <2>0. ArchOf(fcore) \in Arch /\ ArchOf(vcore) \in Arch /\ fmem \in Image /\ Settled \in Image
    BY ArchOfType, SettledType DEF TypeOK
  <2>1. CASE FExecute
    <3> DEFINE x == Exec(ArchOf(fcore), fmem)
    <3>1. fcore' = Retire(fcore, x) /\ fmem' = AfterInst(fmem, x.instif) /\ i' = 0
          /\ stage = "fetch" /\ stage' = "wait" /\ outcome' = outcome
      BY <2>1 DEF FExecute, FRetires, hostVars
    <3>2. ArchOf(vcore)' = ArchOf(vcore) /\ Settled' = Settled
      BY <2>1 DEF FExecute, FRetires, ArchOf, Settled
    <3>3. ArchOf(vcore) = ArchOf(fcore) /\ Settled = fmem /\ outcome = "none"
      BY <3>1 DEF StepInv
    <3>4. x.arch \in Arch /\ x.instif \in InstIF
      BY <2>0, ExecAssumption
    <3>5. ArchOf(fcore)' = x.arch /\ fcore'.instif = [x.instif EXCEPT !.valid = TRUE]
      BY <3>1, <3>4, RetireType DEF TypeOK, Retire, ArchOf
    <3>6. x = Exec(ArchOf(vcore)', Settled')
      BY <3>2, <3>3
    <3> HIDE DEF x
    <3> QED BY <3>1, <3>2, <3>3, <3>5, <3>6, LockstepAssumption DEF StepInv
  <2>2. CASE FUnknown
    BY <2>0, <2>2 DEF FUnknown, FFails, AllKnown
  <2>3. CASE VIdle
    <3>2. ArchOf(vcore)' = ArchOf(vcore)
      <4>1. ArchOf(vcore') = ArchOf(vcore)
        BY <2>3, Stalled DEF CorrectVcore
      <4> QED BY <4>1 DEF ArchOf
    <3>3. Settled' = Settled
      <4>1. vmem' = Settled /\ late' = None
        BY <2>3 DEF VIdle, VStalls
      <4>2. Settled' = vmem'
        BY <4>1 DEF Settled
      <4> QED BY <4>1, <4>2
    <3>4. /\ i < MaxStall /\ i' = i + 1
          /\ stage' = (IF i' < VCORE_TIMEOUT THEN "wait" ELSE "check") /\ stage = "wait"
          /\ fcore' = fcore /\ fmem' = fmem /\ outcome' = outcome
      BY <2>3 DEF VIdle, VStalls, Loops, hostVars
    <3>5. stage' = "wait" /\ i' <= MaxStall
      <4>1. MaxStall \in Nat /\ VCORE_TIMEOUT \in Nat
        BY LockstepAssumption
      <4>2. MaxStall < VCORE_TIMEOUT
        BY <2>0 DEF CorrectVcore
      <4>3. i \in 0 .. VCORE_TIMEOUT
        BY DEF TypeOK
      <4> QED BY <3>4, <4>1, <4>2, <4>3
    <3>6. ArchOf(fcore)' = ArchOf(fcore)
      BY <3>4 DEF ArchOf
    <3> QED BY <3>2, <3>3, <3>4, <3>5, <3>6 DEF StepInv
  <2>4. CASE VRetire
    <3>1. PICK x \in VExec(ArchOf(vcore), Settled), d \in Deferred :
            /\ vcore' \in Upset(Retire(vcore, x))
            /\ vmem' = IF d THEN Settled ELSE AfterInst(Settled, x.instif)
            /\ late' = IF d THEN x.instif ELSE None
      BY <2>4 DEF VRetire, VReports
    <3>2. stage = "wait" /\ stage' = "check" /\ fcore' = fcore /\ fmem' = fmem
          /\ outcome' = outcome
      BY <2>4 DEF VRetire, VReports, hostVars
    <3>3. x.arch = Exec(ArchOf(vcore), Settled).arch
          /\ x.instif = Exec(ArchOf(vcore), Settled).instif
      BY <2>0, <3>1 DEF CorrectVcore
    <3>5. ArchOf(vcore)' = x.arch /\ vcore'.instif = [x.instif EXCEPT !.valid = TRUE]
          /\ vcore'.instif.valid
      <4>1. x.arch \in Arch /\ x.instif \in InstIF
        BY VExecType
      <4>2. ArchOf(vcore') = x.arch /\ vcore'.instif = [x.instif EXCEPT !.valid = TRUE]
            /\ vcore'.instif.valid
        BY <3>1, <4>1, Reported DEF CorrectVcore
      <4> QED BY <4>2 DEF ArchOf
    <3>6. Settled' = AfterInst(Settled, x.instif)
      BY <3>1, RetireSettles
    <3>7. ArchOf(fcore)' = x.arch /\ fcore'.instif = [x.instif EXCEPT !.valid = TRUE]
          /\ fmem' = AfterInst(Settled, x.instif) /\ outcome' = "none"
      BY <3>2, <3>3 DEF StepInv, ArchOf
    <3> QED BY <3>2, <3>5, <3>6, <3>7 DEF StepInv
  <2>5. ASSUME stage = "check" PROVE Validate(fcore.instif, vcore.instif) /\ (VStops <=> fhalt)
    <3>1. fcore.instif = vcore.instif /\ fcore.instif.valid
      BY <2>5 DEF StepInv
    <3>2. fcore.cnt_inst = vcore.cnt_inst /\ ~ vhalt /\ (fhalt <=> fcore.cnt_inst >= MaxInsts)
      BY <2>5, <3>1 DEF LoopInv
    <3> QED BY <3>1, <3>2, SameReportPasses DEF VStops, LimitReached
  <2>6. CASE Mismatch
    BY <2>5, <2>6 DEF Mismatch, Disagree
  <2>7. CASE Pass
    <3>1. stage = "check" /\ LoopOrStop(fhalt, VStops)
          /\ fcore' = fcore /\ vcore' = vcore /\ fmem' = fmem /\ vmem' = vmem /\ late' = late
      BY <2>7 DEF Pass, Agree
    <3>2. outcome' = "none" /\ stage' \in {"done", "fetch"}
      BY <2>5, <3>1 DEF LoopOrStop, StepInv, TypeOK, VStops
    <3>3. ArchOf(fcore)' = ArchOf(vcore)' /\ fmem' = Settled'
      BY <3>1 DEF StepInv, ArchOf, Settled
    <3> QED BY <3>2, <3>3 DEF StepInv
  <2>8. CASE PassCall
    <3>1. PICK r \in Replies(fcore.reg, fmem) :
            /\ fcore' = Returned(fcore, r.a0)
            /\ vcore' = Returned(vcore, r.a0)
            /\ fmem' = Transferred(r.xfer, fmem, fmem)
            /\ vmem' = Transferred(r.xfer, fmem, vmem)
            /\ LoopOrStop(fhalt \/ r.exit, VStops \/ r.exit)
      BY <2>8 DEF PassCall, Emulates, Caller
    <3>2. stage = "check" /\ IsCall /\ late' = late
      BY <2>8 DEF PassCall, Emulates
    <3>3. Settled = vmem /\ Settled' = vmem'
      BY <2>5, <3>2, CallSettles
    <3>4. ArchOf(fcore) = ArchOf(vcore) /\ fmem = Settled /\ outcome = "none"
      BY <3>2 DEF StepInv
    <3>5. ArchOf(fcore)' = ArchOf(vcore)'
      <4>1. fcore.pc = vcore.pc /\ fcore.reg = vcore.reg
        BY <3>4 DEF ArchOf
      <4> QED BY <3>1, <4>1 DEF Returned, ArchOf, TypeOK, Core
    <3>6. outcome' = "none" /\ stage' \in {"done", "fetch"}
      BY <2>5, <3>1, <3>2, <3>4, ReplyType DEF LoopOrStop, TypeOK, VStops
    <3> QED BY <3>1, <3>3, <3>4, <3>5, <3>6 DEF StepInv
  <2>9. CASE UNCHANGED vars
    BY <2>9 DEF vars, StepInv, ArchOf, Settled
  <2> QED BY <2>1, <2>2, <2>3, <2>4, <2>6, <2>7, <2>8, <2>9 DEF Next
<1> QED BY <1>1, <1>2, TypeCorrect, LoopInvariant, PTL DEF Spec

(* A correct verilated core, whichever cycle its stores are made in, stays   *)
(* in step with the functional core through any program and its system calls. *)
THEOREM CorrectVcoreInStep == ASSUME AllKnown, CorrectVcore PROVE Spec => []InStep
<1>1. LoopInv /\ StepInv => InStep
  BY DEF LoopInv, StepInv, InStep
<1> QED BY <1>1, LoopInvariant, StepInvariant, PTL

(* ... and is never reported as faulty. *)
THEOREM CorrectVcoreNotAccused == ASSUME AllKnown, CorrectVcore PROVE Spec => []NoFalseAlarm
<1>1. StepInv => NoFalseAlarm
  BY DEF StepInv, NoFalseAlarm
<1> QED BY <1>1, StepInvariant, PTL

--------------------------------------------------------------------------------
(* Remainders, which number the slots of the ring buffer. *)
LEMMA DivMod ==
  ASSUME NEW a \in Int, NEW m \in Nat \ {0}
  PROVE  a = m * (a \div m) + (a % m) /\ a % m \in 0 .. m - 1 /\ a \div m \in Int
OBVIOUS

LEMMA Apart ==
  ASSUME NEW m \in Nat \ {0}, NEW p \in Int, NEW q \in Int, p < q
  PROVE  m * q >= m * p + m
<1>1. PICK d \in Nat : q = p + 1 + d
  <2>1. q - p - 1 \in Nat /\ q = p + 1 + (q - p - 1)
    OBVIOUS
  <2> QED BY <2>1
<1>2. m * q = m * p + m + m * d
  BY <1>1
<1>3. m * d >= 0
  OBVIOUS
<1> QED BY <1>2, <1>3

LEMMA ModUnique ==
  ASSUME NEW m \in Nat \ {0}, NEW q \in Int, NEW r \in 0 .. m - 1, NEW a \in Int,
         a = m * q + r
  PROVE  a % m = r
<1> DEFINE p == a \div m
           s == a % m
<1>1. a = m * p + s /\ s \in 0 .. m - 1 /\ p \in Int
  BY DivMod
<1> HIDE DEF p, s
<1> DEFINE x == m * p
           y == m * q
<1>2. x \in Int /\ y \in Int /\ x + s = y + r
  BY <1>1
<1>3. p < q => y >= x + m
  BY <1>1, Apart
<1>4. q < p => x >= y + m
  BY <1>1, Apart
<1>5. p = q => x = y
  OBVIOUS
<1> HIDE DEF x, y
<1>6. s = r
  BY <1>1, <1>2, <1>3, <1>4, <1>5
<1> QED BY <1>6 DEF s

LEMMA ModAdd ==
  ASSUME NEW m \in Nat \ {0}, NEW c \in Nat, NEW j \in Nat
  PROVE  ((c % m) + j) % m = (c + j) % m
<1> DEFINE p == c \div m
           s == c % m
<1>1. c = m * p + s /\ s \in 0 .. m - 1 /\ p \in Int
  BY DivMod
<1> HIDE DEF p, s
<1> DEFINE q == (s + j) \div m
           r == (s + j) % m
<1>2. s + j = m * q + r /\ r \in 0 .. m - 1 /\ q \in Int
  <2>1. s + j \in Int
    BY <1>1
  <2> HIDE <1>1
  <2> QED BY <2>1, DivMod
<1> HIDE DEF q, r
<1>3. m * (p + q) = m * p + m * q
  BY <1>1, <1>2
<1>4. c + j = m * (p + q) + r
  BY <1>1, <1>2, <1>3
<1>5. p + q \in Int /\ c + j \in Int
  BY <1>1, <1>2
<1>6. (c + j) % m = r
  <2> DEFINE a == c + j
             o == p + q
  <2>1. a = m * o + r /\ a \in Int /\ o \in Int
    BY <1>4, <1>5
  <2> HIDE DEF a, o
  <2>2. a % m = r
    BY <1>2, <2>1, ModUnique
  <2> QED BY <2>2 DEF a
<1> QED BY <1>6 DEF r, s

LEMMA ModRound ==
  ASSUME NEW m \in Nat \ {0}, NEW c \in Nat
  PROVE  (c + m) % m = c % m
<1> DEFINE p == c \div m
           s == c % m
<1>1. c = m * p + s /\ s \in 0 .. m - 1 /\ p \in Int
  BY DivMod
<1> HIDE DEF p, s
<1>2. m * (p + 1) = m * p + m
  BY <1>1
<1>3. c + m = m * (p + 1) + s
  BY <1>1, <1>2
<1>4. (c + m) % m = s
  BY <1>1, <1>3, ModUnique
<1> QED BY <1>4 DEF s

LEMMA ModApart ==
  ASSUME NEW m \in Nat \ {0}, NEW c \in Nat, NEW k \in 1 .. m - 1
  PROVE  (c + k) % m # c % m
<1> DEFINE p == c \div m
           s == c % m
<1>1. c = m * p + s /\ s \in 0 .. m - 1 /\ p \in Int
  BY DivMod
<1> HIDE DEF p, s
<1>2. CASE s + k < m
  <2>1. (c + k) % m = s + k
    BY <1>1, <1>2, ModUnique
  <2> QED BY <2>1, <1>1 DEF s
<1>3. CASE s + k >= m
  <2>1. m * (p + 1) = m * p + m
    BY <1>1
  <2>2. c + k = m * (p + 1) + (s + k - m) /\ s + k - m \in 0 .. m - 1
    BY <1>1, <1>3, <2>1
  <2>3. p + 1 \in Int /\ c + k \in Int
    BY <1>1
  <2>4. (c + k) % m = s + k - m
    <3> DEFINE a == c + k
               o == p + 1
               r == s + k - m
    <3>1. a = m * o + r /\ a \in Int /\ o \in Int /\ r \in 0 .. m - 1
      BY <2>2, <2>3
    <3> HIDE DEF a, o, r
    <3>2. a % m = r
      BY <3>1, ModUnique
    <3> QED BY <3>2 DEF a, r
  <2> QED BY <2>4, <1>1 DEF s
<1> QED BY <1>1, <1>2, <1>3

(* In mid-iteration the functional core's instruction is not logged yet. *)
Pending == stage # "fetch" /\ fcore.instif.valid
Logged == IF Pending THEN fcore.cnt_inst - 1 ELSE fcore.cnt_inst

(* From the slot that is written next on, the ring buffer holds the last     *)
(* instructions that were logged, oldest first.                              *)
Ring(last) ==
  \A k \in 1 .. MismatchInsts :
    log_buffer[(last + k) % MismatchInsts] = Numbered(last - MismatchInsts + k)

RingInv ==
  /\ stage # "done" => /\ Pending => fcore.cnt_inst > 0
                       /\ MismatchInsts > 0 => Ring(Logged)
  /\ outcome = "mismatch" => stage = "done"
  /\ LastInstructions

LEMMA SlotOf == ASSUME MismatchInsts > 0, NEW c \in Nat PROVE c % MismatchInsts \in Slots
<1>1. MismatchInsts \in Nat \ {0}
  BY LockstepAssumption
<1> QED BY <1>1, DivMod DEF Slots

(* Logging instruction n moves the ring on by one. *)
LEMMA RingMoves ==
  ASSUME MismatchInsts > 0, NEW n \in Nat \ {0}, log_buffer \in [Slots -> Nat], Ring(n - 1),
         log_buffer' = [log_buffer EXCEPT ![n % MismatchInsts] = n]
  PROVE  \A k \in 1 .. MismatchInsts :
           log_buffer'[(n + k) % MismatchInsts] = Numbered(n - MismatchInsts + k)
<1> DEFINE m == MismatchInsts
<1>1. m \in Nat \ {0} /\ n % m \in Slots
  BY LockstepAssumption, SlotOf
<1> SUFFICES ASSUME NEW k \in 1 .. m
             PROVE  log_buffer'[(n + k) % m] = Numbered(n - m + k)
  OBVIOUS
<1>2. CASE k = m
  <2>1. (n + k) % m = n % m
    BY <1>1, <1>2, ModRound
  <2>2. Numbered(n - m + k) = n
    BY <1>1, <1>2 DEF Numbered
  <2> HIDE DEF m
  <2>3. log_buffer'[n % m] = n
    BY <1>1 DEF m
  <2> QED BY <2>1, <2>2, <2>3
<1>3. CASE k # m
  <2>1. k \in 1 .. m - 1 /\ k + 1 \in 1 .. m
    BY <1>1, <1>3
  <2>2. (n + k) % m # n % m
    BY <1>1, <2>1, ModApart
  <2>3. n + k \in Nat
    BY <1>1
  <2>4. (n + k) % m \in Slots
    BY <2>3, SlotOf
  <2>5. log_buffer'[(n + k) % m] = log_buffer[(n + k) % m]
    <3> HIDE DEF m
    <3> QED BY <2>2, <2>4 DEF m
  <2>6. log_buffer[(n - 1 + (k + 1)) % m] = Numbered(n - 1 - m + (k + 1))
    BY <2>1 DEF Ring
  <2>7. n - 1 + (k + 1) = n + k /\ n - 1 - m + (k + 1) = n - m + k
    BY <1>1
  <2> QED BY <2>5, <2>6, <2>7
<1> QED BY <1>2, <1>3

(* What is shown when an instruction is not logged yet. *)
LEMMA RingShown ==
  ASSUME TypeOK, fcore.cnt_inst > 0, MismatchInsts > 0 => Ring(fcore.cnt_inst - 1)
  PROVE  ShownLogs = [k \in 1 .. MismatchInsts |->
                        Numbered(fcore.cnt_inst - 1 - MismatchInsts + k)]
<1> DEFINE m == MismatchInsts
           c == fcore.cnt_inst
<1>1. SUFFICES ASSUME NEW k \in 1 .. m
               PROVE  log_buffer[(Oldest + k - 1) % m] = Numbered(c - 1 - m + k)
  BY DEF ShownLogs
<1>2. m \in Nat \ {0} /\ c \in Nat \ {0}
  <2>1. fcore.cnt_inst \in Nat
    BY DEF TypeOK, Core
  <2>2. MismatchInsts \in Nat
    BY LockstepAssumption
  <2> QED BY <2>1, <2>2
<1>3. Oldest = c % m /\ c % m \in Nat
  BY <1>2, DivMod DEF Oldest
<1>4. log_buffer[(c - 1 + k) % m] = Numbered(c - 1 - m + k)
  BY <1>2 DEF Ring
<1> HIDE DEF m, c
<1>5. k - 1 \in Nat /\ Oldest + k - 1 = (c % m) + (k - 1) /\ c - 1 + k = c + (k - 1)
  BY <1>2, <1>3
<1>6. ((c % m) + (k - 1)) % m = (c + (k - 1)) % m
  BY <1>2, <1>5, ModAdd
<1> QED BY <1>4, <1>5, <1>6

LEMMA RingInvariant == Spec => []RingInv
<1>1. Init => RingInv
  <2> SUFFICES ASSUME Init PROVE RingInv
    OBVIOUS
  <2>1. stage = "fetch" /\ outcome = "none" /\ log_buffer = [s \in Slots |-> 0]
    BY DEF Init
  <2>2. fcore.cnt_inst = 0
    BY DEF Init, InitCore
  <2>3. ASSUME MismatchInsts > 0 PROVE Ring(0)
    <3>1. SUFFICES ASSUME NEW k \in 1 .. MismatchInsts
                   PROVE  log_buffer[(0 + k) % MismatchInsts] = Numbered(0 - MismatchInsts + k)
      BY DEF Ring
    <3>2. (0 + k) % MismatchInsts \in Slots
      BY <2>3, SlotOf
    <3>3. Numbered(0 - MismatchInsts + k) = 0
      BY LockstepAssumption DEF Numbered
    <3> QED BY <2>1, <3>2, <3>3
  <2> QED BY <2>1, <2>2, <2>3 DEF RingInv, Pending, Logged, LastInstructions
<1>2. TypeOK /\ LoopInv /\ RingInv /\ [Next]_vars => RingInv'
  <2> SUFFICES ASSUME TypeOK, LoopInv, RingInv, [Next]_vars PROVE RingInv'
    OBVIOUS
  <2>0. fcore.cnt_inst \in Nat /\ log_buffer \in [Slots -> Nat]
    BY DEF TypeOK, Core
  (* Steps that log nothing and show nothing. *)
  <2>A. ASSUME stage # "done", stage' # "done", log_buffer' = log_buffer, outcome' = outcome,
               Logged' = Logged, Pending' => fcore'.cnt_inst > 0
        PROVE  RingInv'
    <3>1. outcome' # "mismatch"
      BY <2>A DEF RingInv
    <3>2. MismatchInsts > 0 => Ring(Logged)'
      BY <2>A DEF RingInv, Ring
    <3> QED BY <2>A, <3>1, <3>2 DEF RingInv, LastInstructions
  <2>1. CASE FExecute
    <3> DEFINE x == Exec(ArchOf(fcore), fmem)
    <3>1. x.arch \in Arch /\ x.instif \in InstIF
      BY ExecAssumption, ArchOfType DEF TypeOK
    <3>2. stage = "fetch" /\ stage' = "wait" /\ fcore' = Retire(fcore, x)
          /\ log_buffer' = log_buffer /\ outcome' = outcome
      BY <2>1 DEF FExecute, FRetires, hostVars
    <3>3. fcore'.cnt_inst = fcore.cnt_inst + 1 /\ fcore'.instif.valid
      BY <3>1, <3>2, RetireType DEF TypeOK
    <3> HIDE DEF x
    <3>4. Logged' = Logged
      BY <2>0, <3>2, <3>3 DEF Logged, Pending
    <3> QED BY <2>0, <2>A, <3>2, <3>3, <3>4
  <2>2. CASE FUnknown
    <3>1. fcore'.cnt_inst = fcore.cnt_inst /\ ~ fcore'.instif.valid
      BY <2>2 DEF FUnknown, FFails, Unreported, TypeOK, Core, InstIF
    <3>2. stage = "fetch" /\ stage' = "wait" /\ log_buffer' = log_buffer /\ outcome' = outcome
      BY <2>2 DEF FUnknown, FFails, hostVars
    <3> QED BY <2>A, <3>1, <3>2 DEF Logged, Pending
  <2>3. ASSUME stage = "wait", stage' \in {"wait", "check"}, UNCHANGED <<fcore, hostVars>>
        PROVE  RingInv'
    <3>1. log_buffer' = log_buffer /\ outcome' = outcome /\ fcore' = fcore
      BY <2>3 DEF hostVars
    <3>2. (Pending' <=> Pending) /\ (Pending => fcore.cnt_inst > 0)
      BY <2>3, <3>1 DEF Pending, RingInv
    <3>3. Logged' = Logged
      BY <3>1, <3>2 DEF Logged
    <3> QED BY <2>3, <2>A, <3>1, <3>2, <3>3
  <2>4. CASE VIdle
    BY <2>3, <2>4 DEF VIdle, VStalls
  <2>5. CASE VRetire
    BY <2>3, <2>5 DEF VRetire, VReports
  <2>6. CASE Mismatch
    <3>1. stage = "check" /\ stage' = "done" /\ fcore' = fcore /\ shown' = ShownLogs
      BY <2>6 DEF Mismatch, Disagree
    <3>2. ASSUME fcore.instif.valid
          PROVE  shown' = [k \in 1 .. MismatchInsts |->
                             Numbered(fcore.cnt_inst - 1 - MismatchInsts + k)]
      <4>1. Pending /\ Logged = fcore.cnt_inst - 1
        BY <3>1, <3>2 DEF Pending, Logged
      <4>2. fcore.cnt_inst > 0 /\ (MismatchInsts > 0 => Ring(fcore.cnt_inst - 1))
        BY <3>1, <4>1 DEF RingInv
      <4> QED BY <3>1, <4>2, RingShown
    <3> QED BY <3>1, <3>2 DEF RingInv, LastInstructions
  (* Logging, and going on only if the functional core executed. *)
  <2>7. ASSUME NEW fh, NEW vh, stage = "check", SaveLog, LoopOrStop(fh, vh), fhalt => fh,
               fcore'.cnt_inst = fcore.cnt_inst
        PROVE  RingInv'
    <3>1. stage' = IF fh \/ vh THEN "done" ELSE "fetch"
      BY <2>7 DEF LoopOrStop
    <3>2. outcome' # "mismatch"
      BY <2>7 DEF LoopOrStop, RingInv
    <3>3. CASE stage' = "fetch"
      <4>1. fcore.instif.valid
        BY <2>7, <3>1, <3>3 DEF LoopInv
      <4>2. Pending /\ Logged = fcore.cnt_inst - 1 /\ ~ Pending' /\ Logged' = fcore.cnt_inst
        BY <2>7, <3>3, <4>1 DEF Pending, Logged
      <4>3. fcore.cnt_inst \in Nat \ {0}
        BY <2>0, <2>7, <4>2 DEF RingInv
      <4>4. ASSUME MismatchInsts > 0 PROVE Ring(Logged)'
        <5>1. Ring(fcore.cnt_inst - 1)
          BY <2>7, <4>2, <4>4 DEF RingInv
        <5>2. log_buffer' = [log_buffer EXCEPT ![fcore.cnt_inst % MismatchInsts] = fcore.cnt_inst]
          BY <2>7, <4>4, LockstepAssumption DEF SaveLog
        <5>3. \A k \in 1 .. MismatchInsts :
                log_buffer'[(fcore.cnt_inst + k) % MismatchInsts]
                  = Numbered(fcore.cnt_inst - MismatchInsts + k)
          BY <2>0, <4>3, <4>4, <5>1, <5>2, RingMoves
        <5> QED BY <4>2, <5>3 DEF Ring
      <4> QED BY <3>2, <3>3, <4>2, <4>4 DEF RingInv, LastInstructions
    <3>4. CASE stage' # "fetch"
      BY <3>1, <3>2, <3>4 DEF RingInv, LastInstructions
    <3> QED BY <3>3, <3>4
  <2>8. CASE Pass
    BY <2>7, <2>8 DEF Pass, Agree
  <2>9. CASE PassCall
    <3>1. PICK r \in Replies(fcore.reg, fmem) :
            /\ fcore' = Returned(fcore, r.a0)
            /\ LoopOrStop(fhalt \/ r.exit, VStops \/ r.exit)
      BY <2>9 DEF PassCall, Emulates, Caller
    <3>2. fcore'.cnt_inst = fcore.cnt_inst
      BY <3>1 DEF Returned, TypeOK, Core
    <3>3. stage = "check" /\ SaveLog
      BY <2>9 DEF PassCall, Emulates
    <3> QED BY <2>7, <3>1, <3>2, <3>3
  <2>10. CASE UNCHANGED vars
    BY <2>10 DEF vars, RingInv, LastInstructions, Pending, Logged, Ring
  <2> QED BY <2>1, <2>2, <2>4, <2>5, <2>6, <2>8, <2>9, <2>10 DEF Next
<1> QED BY <1>1, <1>2, TypeCorrect, LoopInvariant, PTL DEF Spec

(* A mismatch shows the last instructions, each under its number, although  *)
(* the ring buffer wraps and is not full at first, for every option -m.     *)
THEOREM LastShown == Spec => []LastInstructions
<1>1. RingInv => LastInstructions
  BY DEF RingInv
<1> QED BY <1>1, RingInvariant, PTL

--------------------------------------------------------------------------------
(* A verilated core that is wrong in any way, except that a store which      *)
(* passes the Validator writes the lanes the functional core's store writes: *)
(* the Validator compares the masked data and not the masks.                 *)
MasksSound ==
  \A a, b \in Arch, m, n \in Image : \A x \in VExec(b, n) :
    Attr[x.instif.ir] = "store" /\ Validate(Exec(a, m).instif, x.instif)
      => Exec(a, m).instif.d_wmask = x.instif.d_wmask

Executed(inst) == \E a \in Arch, m \in Image : inst = [Exec(a, m).instif EXCEPT !.valid = TRUE]

MemInv ==
  /\ stage = "fetch" => fmem = Settled
  /\ stage = "wait" /\ fcore.instif.valid
       => Executed(fcore.instif) /\ fmem = AfterInst(Settled, fcore.instif)
  /\ stage = "check" /\ fcore.instif.valid /\ vcore.instif.valid
       => (Validate(fcore.instif, vcore.instif) => fmem = Settled)

(* The Validator does not look at valid. *)
LEMMA ValidateValid ==
  ASSUME NEW f \in InstIF, NEW v \in InstIF, NEW b \in BOOLEAN, NEW c \in BOOLEAN
  PROVE  Validate([f EXCEPT !.valid = b], [v EXCEPT !.valid = c]) <=> Validate(f, v)
<1> DEFINE F == [f EXCEPT !.valid = b]
           V == [v EXCEPT !.valid = c]
<1>1. /\ F.pc = f.pc /\ F.ir = f.ir /\ F.d_addr = f.d_addr /\ F.d_baddr = f.d_baddr
      /\ F.result = f.result /\ F.d_wdata = f.d_wdata /\ F.d_wmask = f.d_wmask
  BY DEF InstIF
<1>2. /\ V.pc = v.pc /\ V.ir = v.ir /\ V.d_addr = v.d_addr /\ V.d_baddr = v.d_baddr
      /\ V.result = v.result /\ V.d_wdata = v.d_wdata /\ V.d_wmask = v.d_wmask
  BY DEF InstIF
<1> HIDE DEF F, V
<1>3. Masked(F) = Masked(f) /\ Masked(V) = Masked(v)
  BY <1>1, <1>2 DEF Masked
<1>4. Validate(F, V) <=> Validate(f, v)
  BY <1>1, <1>2, <1>3 DEF Validate
<1> QED BY <1>4 DEF F, V

(* Two stores that pass the Validator and have the same mask are one store. *)
LEMMA SameStore ==
  ASSUME NEW f \in InstIF, NEW v \in InstIF, NEW m,
         Validate(f, v), Attr[v.ir] = "store" => f.d_wmask = v.d_wmask
  PROVE  AfterInst(m, f) = AfterInst(m, v)
<1>1. CASE Attr[v.ir] = "store"
  <2>1. f.ir = v.ir /\ f.d_addr = v.d_addr /\ Masked(f) = Masked(v) /\ f.d_wmask = v.d_wmask
    BY <1>1 DEF Validate
  <2>2. ASSUME NEW l \in Lanes, l \in f.d_wmask PROVE f.d_wdata[l] = v.d_wdata[l]
    <3>1. Masked(f)[l] = f.d_wdata[l] /\ Masked(v)[l] = v.d_wdata[l]
      BY <2>1, <2>2 DEF Masked
    <3> QED BY <2>1, <3>1
  <2>3. \A old : Merge(old, f.d_wdata, f.d_wmask) = Merge(old, v.d_wdata, v.d_wmask)
    BY <2>1, <2>2 DEF Merge
  <2> QED BY <2>1, <2>3 DEF AfterInst
<1>2. CASE Attr[v.ir] # "store"
  BY <1>2 DEF AfterInst, Validate
<1> QED BY <1>1, <1>2

LEMMA MemInvariant == ASSUME MasksSound PROVE Spec => []MemInv
<1>1. Init => MemInv
  BY DEF Init, Settled, MemInv
<1>2. TypeOK /\ LoopInv /\ MemInv /\ [Next]_vars => MemInv'
  <2> SUFFICES ASSUME TypeOK, LoopInv, MemInv, [Next]_vars PROVE MemInv'
    OBVIOUS
  <2>0. ArchOf(fcore) \in Arch /\ ArchOf(vcore) \in Arch /\ fmem \in Image /\ Settled \in Image
    BY ArchOfType, SettledType DEF TypeOK
  <2>1. CASE FExecute
    <3> DEFINE x == Exec(ArchOf(fcore), fmem)
    <3>1. fcore' = Retire(fcore, x) /\ fmem' = AfterInst(fmem, x.instif)
          /\ stage = "fetch" /\ stage' = "wait"
      BY <2>1 DEF FExecute, FRetires
    <3>2. Settled' = Settled /\ Settled = fmem
      BY <2>1, <3>1 DEF FExecute, FRetires, Settled, MemInv
    <3>3. x.instif \in InstIF
      BY <2>0, ExecAssumption
    <3>4. fcore'.instif = [x.instif EXCEPT !.valid = TRUE]
      BY <3>1 DEF Retire
    <3>5. Executed(fcore'.instif)
      BY <2>0, <3>4 DEF Executed
    <3> HIDE DEF x
    <3>6. AfterInst(fmem, x.instif) = AfterInst(fmem, fcore'.instif)
      BY <3>3, <3>4, AfterInstValid
    <3> QED BY <3>1, <3>2, <3>5, <3>6 DEF MemInv
  <2>2. CASE FUnknown
    <3>1. ~ fcore'.instif.valid
      BY <2>2 DEF FUnknown, FFails, Unreported, TypeOK, Core, InstIF
    <3> QED BY <2>2, <3>1 DEF FUnknown, FFails, MemInv
  <2>3. CASE VIdle
    <3>3. ~ vcore'.instif.valid
      BY <2>3, Stalled
    <3>4. stage = "wait" /\ stage' \in {"wait", "check"} /\ fcore' = fcore /\ fmem' = fmem
          /\ vmem' = Settled /\ late' = None
      BY <2>3 DEF VIdle, VStalls
    <3>5. Settled' = Settled
      BY <3>4 DEF Settled
    <3> QED BY <3>3, <3>4, <3>5 DEF MemInv
  <2>4. CASE VRetire
    <3>1. PICK x \in VExec(ArchOf(vcore), Settled), d \in Deferred :
            /\ vcore' \in Upset(Retire(vcore, x))
            /\ vmem' = IF d THEN Settled ELSE AfterInst(Settled, x.instif)
            /\ late' = IF d THEN x.instif ELSE None
      BY <2>4 DEF VRetire, VReports
    <3>2. stage = "wait" /\ stage' = "check" /\ fcore' = fcore /\ fmem' = fmem
      BY <2>4 DEF VRetire, VReports
    <3>3. Settled' = AfterInst(Settled, x.instif)
      BY <3>1, RetireSettles
    <3>4. SUFFICES ASSUME fcore.instif.valid, Validate(fcore.instif, vcore'.instif)
                   PROVE  fmem = Settled'
      BY <3>2 DEF MemInv
    <3>5. PICK a \in Arch, m \in Image : fcore.instif = [Exec(a, m).instif EXCEPT !.valid = TRUE]
      BY <3>2, <3>4 DEF MemInv, Executed
    <3> DEFINE f == Exec(a, m).instif
               v == x.instif
    <3>6. f \in InstIF /\ v \in InstIF
      BY ExecAssumption, VExecType
    <3>7. vcore'.instif = [v EXCEPT !.valid = TRUE]
      BY <3>1, <3>6, VExecType, Reported DEF v
    <3>8. fcore.instif = [f EXCEPT !.valid = TRUE]
      BY <3>5
    <3>9. Attr[v.ir] = "store" /\ Validate(f, v) => f.d_wmask = v.d_wmask
      BY <2>0 DEF MasksSound
    <3>10. fmem = AfterInst(Settled, fcore.instif)
      BY <3>2, <3>4 DEF MemInv
    <3> HIDE DEF f, v
    <3>11. Validate(f, v)
      <4>1. Validate([f EXCEPT !.valid = TRUE], [v EXCEPT !.valid = TRUE])
        BY <3>4, <3>7, <3>8
      <4>2. TRUE \in BOOLEAN
        OBVIOUS
      <4> QED BY <3>6, <4>1, <4>2, ValidateValid
    <3>12. AfterInst(Settled, f) = AfterInst(Settled, v)
      BY <3>6, <3>9, <3>11, SameStore
    <3>13. AfterInst(Settled, fcore.instif) = AfterInst(Settled, f)
      BY <3>6, <3>8, AfterInstValid
    <3> QED BY <3>3, <3>10, <3>12, <3>13 DEF v
  <2>5. CASE Mismatch
    BY <2>5 DEF Mismatch, Disagree, MemInv
  <2>6. CASE Pass
    <3>1. stage = "check" /\ Validate(fcore.instif, vcore.instif) /\ LoopOrStop(fhalt, VStops)
          /\ fcore' = fcore /\ vcore' = vcore /\ fmem' = fmem /\ Settled' = Settled
      BY <2>6 DEF Pass, Agree, Settled
    <3>2. stage' = "fetch" => fcore.instif.valid /\ vcore.instif.valid
      BY <3>1 DEF LoopOrStop, VStops, LoopInv
    <3>3. stage' \in {"fetch", "done"}
      BY <3>1 DEF LoopOrStop
    <3> QED BY <3>1, <3>2, <3>3 DEF MemInv
  <2>7. CASE PassCall
    <3>1. PICK r \in Replies(fcore.reg, fmem) :
            /\ fmem' = Transferred(r.xfer, fmem, fmem)
            /\ vmem' = Transferred(r.xfer, fmem, vmem)
            /\ LoopOrStop(fhalt \/ r.exit, VStops \/ r.exit)
      BY <2>7 DEF PassCall, Emulates, Caller
    <3>2. stage = "check" /\ Validate(fcore.instif, vcore.instif) /\ IsCall /\ late' = late
      BY <2>7 DEF PassCall, Emulates
    <3>3. Settled = vmem /\ Settled' = vmem'
      BY <3>2, CallSettles
    <3>4. stage' \in {"fetch", "done"} /\ (stage' = "fetch" => fcore.instif.valid /\ vcore.instif.valid)
      BY <3>1, <3>2 DEF LoopOrStop, VStops, LoopInv
    <3>5. fcore.instif.valid /\ vcore.instif.valid => fmem = vmem
      BY <3>2, <3>3 DEF MemInv
    <3> QED BY <3>1, <3>3, <3>4, <3>5 DEF MemInv
  <2>8. CASE UNCHANGED vars
    BY <2>8 DEF vars, MemInv, Settled
  <2> QED BY <2>1, <2>2, <2>3, <2>4, <2>5, <2>6, <2>7, <2>8 DEF Next
<1> QED BY <1>1, <1>2, TypeCorrect, LoopInvariant, PTL DEF Spec

(* While the run goes on the two cores' memories are equal, whatever goes    *)
(* wrong in the verilated core's registers, branches, loads and reports.     *)
THEOREM PassedStoresAgree == ASSUME MasksSound PROVE Spec => []MemoriesAgree
<1>1. MemInv => MemoriesAgree
  BY DEF MemInv, MemoriesAgree
<1> QED BY <1>1, MemInvariant, PTL

--------------------------------------------------------------------------------
(* What the program and the host see of a concurrent execution is a single *)
(* run of the functional core: Lockstep implements SingleRun, for every      *)
(* program, host, limit and timeout and whatever the verilated core does.    *)

(* The operators SingleRun brings along are Lockstep's own. *)
LEMMA SameReference ==
  /\ \A core : Reference!ArchOf(core) = ArchOf(core)
  /\ \A inst : Reference!InitCore(inst) = InitCore(inst)
  /\ \A core, x : Reference!Retire(core, x) = Retire(core, x)
  /\ \A core, inst : Reference!Unreported(core, inst) = Unreported(core, inst)
  /\ \A core, a0 : Reference!Returned(core, a0) = Returned(core, a0)
  /\ \A m, inst : Reference!AfterInst(m, inst) = AfterInst(m, inst)
  /\ \A t, prim, own : Reference!Transferred(t, prim, own) = Transferred(t, prim, own)
<1>1. \A core : Reference!ArchOf(core) = ArchOf(core)
  BY DEF Reference!ArchOf, ArchOf
<1>2. \A inst : Reference!InitCore(inst) = InitCore(inst)
  BY DEF Reference!InitCore, InitCore
<1>3. \A core, x : Reference!Retire(core, x) = Retire(core, x)
  BY DEF Reference!Retire, Retire
<1>4. \A core, inst : Reference!Unreported(core, inst) = Unreported(core, inst)
  BY DEF Reference!Unreported, Unreported
<1>5. \A core, a0 : Reference!Returned(core, a0) = Returned(core, a0)
  BY DEF Reference!Returned, Returned
<1>6. \A a : Reference!WordOf(a) = WordOf(a)
  BY DEF Reference!WordOf, WordOf
<1>7. Reference!Lanes = Lanes /\ Reference!Words = Words
  BY DEF Reference!Lanes, Lanes, Reference!Words, Words
<1>8. \A old, data, mask : Reference!Merge(old, data, mask) = Merge(old, data, mask)
  BY <1>7 DEF Reference!Merge, Merge
<1>9. \A m, inst : Reference!AfterInst(m, inst) = AfterInst(m, inst)
  BY <1>6, <1>8 DEF Reference!AfterInst, AfterInst
<1>10. \A t, w, l : Reference!BytesAt(t, w, l) = BytesAt(t, w, l)
  BY DEF Reference!BytesAt, BytesAt, Reference!WordOf, WordOf, Reference!LaneOf, LaneOf
<1>11. \A t, w : Reference!Touches(t, w) <=> Touches(t, w)
  BY <1>7, <1>10 DEF Reference!Touches, Touches
<1>12. \A t, w, old : Reference!Overlay(t, w, old) = Overlay(t, w, old)
  BY DEF Reference!Overlay, Overlay, Reference!BytesAt, BytesAt, Reference!Lanes, Lanes,
         Reference!WordOf, WordOf, Reference!LaneOf, LaneOf
<1>13. \A t, prim, own : Reference!Transferred(t, prim, own) = Transferred(t, prim, own)
  BY <1>7, <1>11, <1>12 DEF Reference!Transferred, Transferred
<1> QED BY <1>1, <1>2, <1>3, <1>4, <1>5, <1>9, <1>13

(* The verilated core's cycles do not show: to the program and the host a    *)
(* concurrent run is a single run of the functional core, cut short at most, *)
(* as long as no system call is emulated for a report that is none.          *)
THEOREM HostSeesOneRun == Spec /\ []CallsReported => HostSeesReference
<1>1. Init => Reference!Init
  BY SameReference DEF Init, Reference!Init
<1>2. TypeOK /\ LoopInv /\ CallsReported /\ [Next]_vars => [ReferenceStep]_(Reference!vars)
  <2> SUFFICES ASSUME TypeOK, LoopInv, CallsReported, [Next]_vars PROVE [ReferenceStep]_(Reference!vars)
    OBVIOUS
  <2>1. CASE FExecute
    <3>1. Reference!Execute
      BY <2>1, SameReference DEF FExecute, FRetires, hostVars, Reference!Execute
    <3> QED BY <3>1 DEF ReferenceStep
  <2>2. CASE FUnknown
    <3>1. Reference!Unknown
      BY <2>2, SameReference DEF FUnknown, FFails, hostVars, Reference!Unknown
    <3> QED BY <3>1 DEF ReferenceStep
  <2>3. CASE VIdle
    BY <2>3 DEF VIdle, VStalls, hostVars, Reference!vars
  <2>4. CASE VRetire
    BY <2>4 DEF VRetire, VReports, hostVars, Reference!vars
  <2>5. CASE Mismatch
    BY <2>5 DEF Mismatch, Disagree, CutShort, ReferenceStep
  <2>6. ASSUME stage = "check" PROVE Reference!Stops => fhalt
    BY <2>6 DEF LoopInv, Reference!Stops
  <2>7. CASE Pass
    <3>1. stage = "check" /\ ~ IsCall /\ LoopOrStop(fhalt, VStops)
          /\ UNCHANGED <<fcore, fmem, calls>>
      BY <2>7 DEF Pass, Agree
    <3>2. ~ Reference!IsCall
      BY <3>1 DEF IsCall, Reference!IsCall
    <3>3. stage' \in {"done", "fetch"} /\ (Reference!Stops => stage' = "done")
      BY <2>6, <3>1 DEF LoopOrStop
    <3>4. Reference!Finish(stage' = "done")
      BY <3>1, <3>2, <3>3 DEF Reference!Finish
    <3> QED BY <3>4, <3>3 DEF ReferenceStep
  <2>8. CASE PassCall
    <3>1. PICK r \in Replies(fcore.reg, fmem) :
            /\ fcore' = Returned(fcore, r.a0)
            /\ fmem' = Transferred(r.xfer, fmem, fmem)
            /\ LoopOrStop(fhalt \/ r.exit, VStops \/ r.exit)
      BY <2>8 DEF PassCall, Emulates, Caller
    <3>2. stage = "check" /\ IsCall
          /\ calls' = Append(calls, [cnt |-> fcore.cnt_inst, reg |-> fcore.reg])
      BY <2>8 DEF PassCall, Emulates, Caller
    <3>3. Reference!IsCall
      BY <3>2 DEF CallsReported, IsCall, Reference!IsCall
    <3>4. stage' \in {"done", "fetch"} /\ (Reference!Stops \/ r.exit => stage' = "done")
      BY <2>6, <3>1, <3>2 DEF LoopOrStop
    <3>5. Reference!Emulate(r)
      BY <3>1, <3>2, SameReference DEF Reference!Emulate
    <3>6. Reference!Finish(stage' = "done")
      BY <3>1, <3>2, <3>3, <3>4, <3>5 DEF Reference!Finish
    <3> QED BY <3>4, <3>6 DEF ReferenceStep
  <2>9. CASE UNCHANGED vars
    BY <2>9 DEF vars, Reference!vars
  <2> QED BY <2>1, <2>2, <2>3, <2>4, <2>5, <2>7, <2>8, <2>9 DEF Next
<1> QED BY <1>1, <1>2, TypeCorrect, LoopInvariant, PTL DEF Spec, HostSeesReference

(* With a program of known instructions the functional core's report is      *)
(* valid whenever the loop looks at it, so the missing test of valid at the  *)
(* emulation of system calls does no harm.                                   *)
ReportedInv == stage \in {"wait", "check"} => fcore.instif.valid

LEMMA AllReported == ASSUME AllKnown PROVE Spec => []ReportedInv
<1>1. Init => ReportedInv
  BY DEF Init, ReportedInv
<1>2. TypeOK /\ ReportedInv /\ [Next]_vars => ReportedInv'
  <2> SUFFICES ASSUME TypeOK, ReportedInv, [Next]_vars PROVE ReportedInv'
    OBVIOUS
  <2>0. ArchOf(fcore) \in Arch /\ fmem \in Image
    BY ArchOfType DEF TypeOK
  <2>1. CASE FExecute
    <3>1. Exec(ArchOf(fcore), fmem).arch \in Arch /\ Exec(ArchOf(fcore), fmem).instif \in InstIF
      BY <2>0, ExecAssumption
    <3>2. fcore' = Retire(fcore, Exec(ArchOf(fcore), fmem))
      BY <2>1 DEF FExecute, FRetires
    <3>3. fcore'.instif.valid
      BY <3>1, <3>2, RetireType DEF TypeOK
    <3> QED BY <3>3 DEF ReportedInv
  <2>2. CASE FUnknown
    BY <2>0, <2>2 DEF FUnknown, FFails, AllKnown
  <2>3. CASE VIdle
    BY <2>3 DEF VIdle, VStalls, ReportedInv
  <2>4. CASE VRetire
    BY <2>4 DEF VRetire, VReports, ReportedInv
  <2>5. CASE Mismatch
    BY <2>5 DEF Mismatch, Disagree, ReportedInv
  <2>6. CASE Pass
    BY <2>6 DEF Pass, Agree, LoopOrStop, ReportedInv
  <2>7. CASE PassCall
    BY <2>7 DEF PassCall, Emulates, LoopOrStop, ReportedInv
  <2>8. CASE UNCHANGED vars
    BY <2>8 DEF vars, ReportedInv
  <2> QED BY <2>1, <2>2, <2>3, <2>4, <2>5, <2>6, <2>7, <2>8 DEF Next
<1> QED BY <1>1, <1>2, TypeCorrect, PTL DEF Spec

(* A program whose instructions are all known is seen to run as it is.       *)
COROLLARY HostSeesKnownProgram == ASSUME AllKnown PROVE Spec => HostSeesReference
<1>1. ReportedInv => CallsReported
  BY DEF ReportedInv, CallsReported
<1> QED BY <1>1, AllReported, HostSeesOneRun, PTL
================================================================================
