-------------------------------- MODULE CoreBus --------------------------------
(***************************************************************************)
(* The functional core's side of CoreMemoryIF: what an instruction leaves  *)
(* on the bus (sim/functional_core.cpp).  It has no state.                 *)
(***************************************************************************)
EXTENDS MemoryBus, CoreTypes

(* The memory access of an instruction on memif; its report repeats it. *)
Access(inst, fetch) ==
  [en |-> TRUE, i_addr |-> fetch,
   d_re |-> Attr[inst.ir] = "load", d_we |-> Attr[inst.ir] = "store",
   d_addr |-> inst.d_addr, d_wdata |-> inst.d_wdata, d_wmask |-> inst.d_wmask]

(* drive() of fcore clears d_re and d_we before it looks at the opcode. *)
NoAccess(inst, fetch) == [Access(inst, fetch) EXCEPT !.d_re = FALSE, !.d_we = FALSE]
================================================================================
