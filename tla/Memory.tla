--------------------------------- MODULE Memory ---------------------------------
(***************************************************************************)
(* VeriCross's main memory (sim/memory.cpp).  One array of words is shared *)
(* by a primary core and its replicas; a store is kept in the write buffer *)
(* of the core that made it until the same word is in the buffers of all   *)
(* cores, when the primary's value is committed to the array.  With a      *)
(* single core there are no buffers.                                       *)
(*                                                                         *)
(* The main loops call drive() and update() of one side in a row, with     *)
(* only the core's own update between them, so one action stands for the   *)
(* pair; its parameter is the request memif held when drive() latched it.  *)
(***************************************************************************)
EXTENDS MemoryBus

CONSTANT Absent          \* no entry for the word in a write buffer
ASSUME AbsentAssumption == Absent \notin Word

VARIABLES
  mem,     \* mem[w]: the shared array
  wb,      \* wb[c][w]: core c's buffered value of word w, or Absent
  rdata    \* rdata[c]: i_rdata and d_rdata of if_prim or if_reps[c]

vars == <<mem, wb, rdata>>

Single == Reps = {}

TypeOK ==
  /\ mem \in Image
  /\ wb \in [Cores -> [Words -> Word \cup {Absent}]]
  /\ rdata \in [Cores -> ReadRegs]

Init ==
  /\ mem = [w \in Words |-> Zero]
  /\ wb = [c \in Cores |-> [w \in Words |-> Absent]]
  /\ rdata \in [Cores -> ReadRegs]

--------------------------------------------------------------------------------
Buffered(c, w) == wb[c][w] # Absent

(* read_4b: a core's own buffered value, else the committed one. *)
Read(c, w) == IF ~ Single /\ Buffered(c, w) THEN wb[c][w] ELSE mem[w]

Seen(c) == [w \in Words |-> Read(c, w)]

(* write_4b for one core, fed by write_mask: the buffer of core c after its *)
(* request.  A store whose mask is empty still makes an entry.              *)
BufferOverArray(c, req) ==      \* mutant: merges into the array's word
  IF Stores(req)
    THEN LET w == WordOf(req.d_addr)
         IN  [wb[c] EXCEPT ![w] = Merge(mem[w], req.d_wdata, req.d_wmask)]
    ELSE wb[c]

BufferAfter(c, req) ==
  IF Stores(req)
    THEN LET w == WordOf(req.d_addr)
         IN  [wb[c] EXCEPT ![w] = Merge(Read(c, w), req.d_wdata, req.d_wmask)]
    ELSE wb[c]

(* drive() and update().  In single execution write_4b goes to the array. *)
PrimaryCycle(req) ==
  /\ rdata' = [rdata EXCEPT ![Prim] = ReadData(@, req, Seen(Prim))]
  /\ \/ /\ Single
        /\ LET w == WordOf(req.d_addr)
           IN  mem' = IF Stores(req)
                        THEN [mem EXCEPT ![w] = Merge(@, req.d_wdata, req.d_wmask)]
                        ELSE mem
        /\ UNCHANGED wb
     \/ /\ ~ Single
        /\ wb' = [wb EXCEPT ![Prim] = BufferAfter(Prim, req)]
        /\ UNCHANGED mem

(* cleanup_wb: every word buffered by all cores is committed with the     *)
(* primary's value and leaves the primary's buffer; it leaves a replica's *)
(* buffer only if the replica holds the same value.                       *)
AllBuffered(b, w) == \A c \in Cores : b[c][w] # Absent

CommittedUnchecked(b) ==        \* mutant: written_all is not tested
  [w \in Words |-> b[Prim][w]]

CommittedByReplica(b) ==        \* mutant: a replica's value is committed
  [w \in Words |-> IF AllBuffered(b, w) THEN b[CHOOSE r \in Reps : TRUE][w] ELSE mem[w]]

CommittedMem(b) == [w \in Words |-> IF AllBuffered(b, w) THEN b[Prim][w] ELSE mem[w]]

CleanedWithoutCompare(b) ==     \* mutant: a differing replica entry is erased
  [c \in Cores |-> [w \in Words |-> IF AllBuffered(b, w) THEN Absent ELSE b[c][w]]]
CleanedReplicasOnly(b) ==       \* mutant: the primary's entry is kept
  [c \in Cores |-> [w \in Words |->
     IF c # Prim /\ AllBuffered(b, w) /\ b[c][w] = b[Prim][w] THEN Absent ELSE b[c][w]]]

CleanedBuffers(b) ==
  [c \in Cores |-> [w \in Words |->
     IF AllBuffered(b, w) /\ b[c][w] = b[Prim][w] THEN Absent ELSE b[c][w]]]

(* drive_replica() and update_replica(): every replica's request in turn,  *)
(* then the clean-up.  Without replicas the loops and cleanup_wb are empty. *)
ReplicaCycle(reqs) ==
  /\ rdata' = [c \in Cores |-> IF c \in Reps THEN ReadData(rdata[c], reqs[c], Seen(c))
                               ELSE rdata[c]]
  /\ LET b == [c \in Cores |-> IF c \in Reps THEN BufferAfter(c, reqs[c]) ELSE wb[c]]
     IN  /\ mem' = IF Single THEN mem ELSE CommittedMem(b)
         /\ wb' = IF Single THEN wb ELSE CleanedBuffers(b)

(* The public write(): whole words or single bytes, each through write_4b   *)
(* with ID_ALL.  A byte is merged into the primary's word (write_1b); the   *)
(* word goes to the array and leaves every buffer.                          *)
Transfer(t) ==
  /\ mem' = [w \in Words |-> IF Touches(t, w) THEN Overlay(t, w, Read(Prim, w)) ELSE mem[w]]
  /\ wb' = [c \in Cores |-> [w \in Words |-> IF Touches(t, w) THEN Absent ELSE wb[c][w]]]
  /\ UNCHANGED rdata

Next ==
  \/ \E req \in Requests : PrimaryCycle(req)
  \/ \E reqs \in [Reps -> Requests] : ReplicaCycle(reqs)
  \/ \E t \in Transfers : Transfer(t)

Spec == Init /\ [][Next]_vars

--------------------------------------------------------------------------------
(* Refinement: what a core reads is a memory of its own. *)
Private == INSTANCE PrivateMemories WITH view <- [c \in Cores |-> Seen(c)]

(* The write buffers are invisible (memory.cpp, read_4b, write_4b and      *)
(* cleanup_wb): whatever the order of primary and replica stores to a word *)
(* and of clean-ups and transfers, each core keeps reading exactly what    *)
(* its own stores and the simulator's transfers left there.                *)
PrivateSpec == Private!Spec

(* ... and each call has the effect of the same call on private memories:  *)
(* a store of one lane is never what another store would have been, which  *)
(* PrivateSpec alone, where requests do not show, would let pass.          *)
PrivateSteps ==
  [][/\ \A req \in Requests : PrimaryCycle(req) => Private!PrimaryCycle(req)
     /\ \A reqs \in [Reps -> Requests] : ReplicaCycle(reqs) => Private!ReplicaCycle(reqs)
     /\ \A t \in Transfers : Transfer(t) => Private!Transfer(t)]_vars

(* cleanup_wb commits the primary's value only: when a word of the shared  *)
(* array changes, the primary reads the new value and has no buffered      *)
(* entry above it, so public reads, which take the primary's side, and the *)
(* array agree from then on until the primary's next store.                *)
CommittedByPrimary ==
  [][\A w \in Words : mem'[w] # mem[w] => Read(Prim, w)' = mem'[w] /\ wb'[Prim][w] = Absent]_vars

(* cleanup_wb misses no word: when a replica's store lands, no word is left *)
(* in the buffers of all cores at once, so a program both cores agree on    *)
(* does not fill the write buffers with words that could have been freed.   *)
NothingLeftToCommit ==
  [][(\E r \in Reps, w \in Words : wb'[r][w] \notin {wb[r][w], Absent})
       => \A w \in Words : ~ AllBuffered(wb', w)]_vars
================================================================================
