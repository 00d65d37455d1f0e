------------------------------- MODULE MemoryBus -------------------------------
(***************************************************************************)
(* The cores that share the memory and what passes over their buses: the   *)
(* requests on a CoreMemoryIF and the read data that come back.            *)
(***************************************************************************)
EXTENDS MemoryTypes

CONSTANTS
  Prim,       \* the primary core, cores[0]
  Reps,       \* the replica cores, cores[1] and on; {} in single execution
  Requests,   \* the bus requests a core may present
  Transfers   \* the transfers the simulator may make

Cores == {Prim} \cup Reps

Request == [en : BOOLEAN, i_addr : Addr, d_re : BOOLEAN, d_we : BOOLEAN,
            d_addr : Addr, d_wdata : Word, d_wmask : SUBSET Lanes]

ASSUME CoresAssumption == Prim \notin Reps
ASSUME RequestsAssumption == Requests \subseteq Request
ASSUME TransfersAssumption == \A t \in Transfers : IsTransfer(t)

(* A request that reaches write_mask; a read in the same request wins. *)
Stores(req) == req.en /\ ~ req.d_re /\ req.d_we

(* What the two read-data registers of a bus hold after request req, when  *)
(* the core that presents it reads memory m: the instruction word always,  *)
(* the data word only on a data read.                                      *)
ReadData(old, req, m) ==
  IF req.en
    THEN [i_rdata |-> m[WordOf(req.i_addr)],
          d_rdata |-> IF req.d_re THEN m[WordOf(req.d_addr)] ELSE old.d_rdata]
    ELSE old

ReadRegs == [i_rdata : Word, d_rdata : Word]
================================================================================
