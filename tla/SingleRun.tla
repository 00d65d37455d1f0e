------------------------------- MODULE SingleRun -------------------------------
(***************************************************************************)
(* What a run of one core promises (sim/sim_single.cpp): instructions are  *)
(* executed one after the other on one memory, and the system calls among  *)
(* them are emulated for the program.  SingleSystem implements it, and     *)
(* Lockstep's functional core does, cut short by the other one.            *)
(***************************************************************************)
EXTENDS CoreTypes

CONSTANT MaxInsts   \* the option -i

VARIABLES
  core,    \* cores[0]
  mem,     \* the memory, as cores[0] reads it
  halt,    \* core->halt
  stage,   \* "cycle" at the head of the loop, "finish" after an instruction
  calls    \* the system calls emulated so far: instruction count and registers

vars == <<core, mem, halt, stage, calls>>

Init ==
  /\ \E inst \in InitInsts : core = InitCore(inst)
  /\ mem = InitMem
  /\ halt = FALSE
  /\ stage = "cycle"
  /\ calls = <<>>

Execute ==
  /\ stage = "cycle" /\ ~ halt
  /\ LET x == Exec(ArchOf(core), mem)
     IN  /\ x.known
         /\ core' = Retire(core, x)
         /\ mem' = AfterInst(mem, x.instif)
  /\ stage' = "finish"
  /\ UNCHANGED <<halt, calls>>

(* drive() returns false: nothing is executed and the report is invalid. *)
Unknown ==
  /\ stage = "cycle" /\ ~ halt
  /\ ~ Exec(ArchOf(core), mem).known
  /\ core' = Unreported(core, core.instif)
  /\ stage' = "finish"
  /\ UNCHANGED <<mem, halt, calls>>

(* A cycle in which a verilated core reports no instruction, whatever its  *)
(* outputs show meanwhile, may still end the run.                          *)
Idle ==
  /\ stage = "cycle" /\ ~ halt
  /\ core' = Unreported(core, core'.instif) /\ core'.instif \in InstIF
  /\ halt' \in {FALSE, core.cnt_inst >= MaxInsts}
  /\ UNCHANGED <<mem, stage, calls>>

IsCall == core.instif.valid /\ core.instif.ir = Ecall

(* sys->emulate(); the registers and the memory are those before the call. *)
Emulate(r) ==
  /\ core' = Returned(core, r.a0)
  /\ mem' = Transferred(r.xfer, mem, mem)
  /\ calls' = Append(calls, [cnt |-> core.cnt_inst, reg |-> core.reg])

(* The loop ends at the limit and when drive() failed. *)
Stops == core.cnt_inst >= MaxInsts \/ ~ core.instif.valid

(* The rest of the iteration; the loop may also be left for a reason of the *)
(* caller (stopped), which sim_single itself never does.                    *)
Finish(stopped) ==
  /\ stage = "finish"
  /\ \/ /\ IsCall
        /\ \E r \in Replies(core.reg, mem) :
             /\ Emulate(r)
             /\ halt' = (stopped \/ r.exit \/ Stops)
     \/ /\ ~ IsCall
        /\ halt' = (stopped \/ Stops)
        /\ UNCHANGED <<core, mem, calls>>
  /\ stage' = "cycle"

Next == Execute \/ Unknown \/ Idle \/ Finish(FALSE)

Spec == Init /\ [][Next]_vars
================================================================================
