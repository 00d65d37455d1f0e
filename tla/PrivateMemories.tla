---------------------------- MODULE PrivateMemories ----------------------------
(***************************************************************************)
(* What VeriCross's Memory promises the cores bound to it: every core runs *)
(* as if it owned a memory of its own.  A core's stores change its own     *)
(* memory and nobody else's, at once and in full; a transfer by the        *)
(* simulator (read(), stat(), ... emulated for the program) reads the      *)
(* primary's memory and leaves the same words in the memory of all cores.  *)
(* Nothing here says how a single copy is shared: Memory implements it.    *)
(***************************************************************************)
EXTENDS MemoryBus

VARIABLES
  view,    \* view[c][w]: the word core c reads at w
  rdata    \* rdata[c]: the read-data registers of c's bus

vars == <<view, rdata>>

TypeOK ==
  /\ view \in [Cores -> Image]
  /\ rdata \in [Cores -> ReadRegs]

(* Memory is cleared; the read-data registers hold anything. *)
Init ==
  /\ view = [c \in Cores |-> [w \in Words |-> Zero]]
  /\ rdata \in [Cores -> ReadRegs]

(* A core's own memory after its request. *)
AfterStore(m, req) ==
  IF Stores(req)
    THEN [m EXCEPT ![WordOf(req.d_addr)] = Merge(@, req.d_wdata, req.d_wmask)]
    ELSE m

PrimaryCycle(req) ==
  /\ rdata' = [rdata EXCEPT ![Prim] = ReadData(@, req, view[Prim])]
  /\ view' = [view EXCEPT ![Prim] = AfterStore(@, req)]

ReplicaCycle(reqs) ==
  /\ rdata' = [c \in Cores |-> IF c \in Reps THEN ReadData(rdata[c], reqs[c], view[c])
                               ELSE rdata[c]]
  /\ view' = [c \in Cores |-> IF c \in Reps THEN AfterStore(view[c], reqs[c])
                              ELSE view[c]]

Transfer(t) ==
  /\ view' = [c \in Cores |-> Transferred(t, view[Prim], view[c])]
  /\ UNCHANGED rdata

Next ==
  \/ \E req \in Requests : PrimaryCycle(req)
  \/ \E reqs \in [Reps -> Requests] : ReplicaCycle(reqs)
  \/ \E t \in Transfers : Transfer(t)

Spec == Init /\ [][Next]_vars
================================================================================
