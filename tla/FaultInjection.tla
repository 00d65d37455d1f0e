----------------------------- MODULE FaultInjection -----------------------------
(***************************************************************************)
(* Fault injection (core_wrapper/kronos_core_faulty.cpp): at the end of a  *)
(* cycle KronosCoreFaulty flips one bit of a register of its core.  It has *)
(* no state: the random numbers are choices of the cycle.                  *)
(***************************************************************************)
EXTENDS CoreTypes

CONSTANTS
  FAULT_INTERVAL,  \* instructions between two faults (1,000,000); 0: never
  X0,              \* the register that is always zero
  OneBitOff(_)     \* the values that differ from a value in one bit

ASSUME FaultAssumption ==
  /\ FAULT_INTERVAL \in Nat
  /\ Reg \ {X0} # {}
  /\ \A v \in Val : OneBitOff(v) # {} /\ OneBitOff(v) \subseteq Val

(* Any bit of any register but x0. *)
inject_fault(core) ==
  UNION {{[core EXCEPT !.reg[r] = v] : v \in OneBitOff(core.reg[r])} : r \in Reg \ {X0}}

(* The core after update(): cnt_inst counts instructions, so every cycle up *)
(* to the next report injects another fault.                                *)
Upset(core) ==
  IF FAULT_INTERVAL > 0 /\ core.cnt_inst > 0 /\ core.cnt_inst % FAULT_INTERVAL = 0
    THEN inject_fault(core)
    ELSE {core}
================================================================================
