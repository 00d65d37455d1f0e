----------------------------- MODULE Memory_proofs -----------------------------
(***************************************************************************)
(* Theorems of Memory, for every number of replicas, words, lanes and      *)
(* every set of requests and transfers.                                    *)
(***************************************************************************)
EXTENDS Memory, TLAPS

(* What the operators of MemoryTypes return. *)
LEMMA WordOfType == ASSUME NEW a \in Addr PROVE WordOf(a) \in Words
  BY SizeAssumption, Z3 DEF Addr, WordOf, Words

LEMMA ZeroType == Zero \in Word
  BY SizeAssumption DEF Zero, Word

LEMMA MergeType ==
  ASSUME NEW old \in Word, NEW data \in Word, NEW mask
  PROVE  Merge(old, data, mask) \in Word
  BY DEF Merge, Word

LEMMA OverlayType ==
  ASSUME NEW t, IsTransfer(t), NEW w \in Words, NEW old \in Word
  PROVE  Overlay(t, w, old) \in Word
<1>1. t[2] \in Seq(Byte)
  BY DEF IsTransfer
<1>2. ASSUME NEW l \in Lanes, BytesAt(t, w, l) # {}
      PROVE  t[2][CHOOSE i \in BytesAt(t, w, l) : TRUE] \in Byte
  <2>1. PICK i : i = (CHOOSE j \in BytesAt(t, w, l) : TRUE) /\ i \in BytesAt(t, w, l)
    BY <1>2
  <2>2. i \in DOMAIN t[2]
    BY <2>1 DEF BytesAt
  <2> QED BY <1>1, <2>1, <2>2
<1> QED BY <1>2 DEF Overlay, Word

LEMMA ReadDataType ==
  ASSUME NEW old \in ReadRegs, NEW req \in Request, NEW m \in [Words -> Word]
  PROVE  ReadData(old, req, m) \in ReadRegs
<1>1. WordOf(req.i_addr) \in Words /\ WordOf(req.d_addr) \in Words
  BY WordOfType DEF Request
<1> QED BY <1>1 DEF ReadData, ReadRegs

LEMMA SeenType ==
  ASSUME TypeOK, NEW c \in Cores
  PROVE  Seen(c) \in [Words -> Word] /\ \A w \in Words : Read(c, w) \in Word
BY DEF TypeOK, Seen, Read, Buffered, Image

LEMMA BufferAfterType ==
  ASSUME TypeOK, NEW c \in Cores, NEW req \in Request
  PROVE  BufferAfter(c, req) \in [Words -> Word \cup {Absent}]
<1>1. WordOf(req.d_addr) \in Words /\ req.d_wdata \in Word
  BY WordOfType DEF Request
<1>2. Merge(Read(c, WordOf(req.d_addr)), req.d_wdata, req.d_wmask) \in Word
  BY <1>1, SeenType, MergeType
<1> QED BY <1>1, <1>2 DEF BufferAfter, TypeOK, Image

(* Each call keeps the types, whatever request or transfer it is given. *)
LEMMA PrimaryType ==
  ASSUME TypeOK, NEW req \in Request, PrimaryCycle(req)
  PROVE  TypeOK'
<1>1. WordOf(req.d_addr) \in Words /\ req.d_wdata \in Word
  BY WordOfType DEF Request
<1>2. Prim \in Cores
  BY DEF Cores
<1>3. rdata' \in [Cores -> ReadRegs]
  BY <1>1, <1>2, ReadDataType, SeenType DEF PrimaryCycle, TypeOK, Image
<1>4. CASE Single
  <2>1. mem' \in [Words -> Word] /\ wb' = wb
    BY <1>1, <1>4, MergeType DEF PrimaryCycle, TypeOK, Image
  <2> QED BY <1>3, <2>1 DEF TypeOK, Image
<1>5. CASE ~ Single
  <2>1. mem' = mem /\ wb' = [wb EXCEPT ![Prim] = BufferAfter(Prim, req)]
    BY <1>5 DEF PrimaryCycle
  <2>2. wb' \in [Cores -> [Words -> Word \cup {Absent}]]
    BY <1>1, <1>2, <2>1, BufferAfterType DEF TypeOK, Image
  <2> QED BY <1>3, <2>1, <2>2 DEF TypeOK, Image
<1> QED BY <1>4, <1>5

LEMMA ReplicaType ==
  ASSUME TypeOK, NEW reqs \in [Reps -> Request], ReplicaCycle(reqs)
  PROVE  TypeOK'
<1>1. ASSUME NEW r \in Reps PROVE r \in Cores /\ reqs[r] \in Request
  BY DEF Cores
<1>2. rdata' \in [Cores -> ReadRegs]
  BY <1>1, ReadDataType, SeenType DEF ReplicaCycle, TypeOK, Image
<1> DEFINE b == [c \in Cores |-> IF c \in Reps THEN BufferAfter(c, reqs[c]) ELSE wb[c]]
<1>3. b \in [Cores -> [Words -> Word \cup {Absent}]]
  BY <1>1, BufferAfterType DEF TypeOK, Image
<1>4. /\ mem' = IF Single THEN mem ELSE CommittedMem(b)
      /\ wb' = IF Single THEN wb ELSE CleanedBuffers(b)
  BY DEF ReplicaCycle
<1> HIDE DEF b
<1>5. Prim \in Cores
  BY DEF Cores
<1>6. CommittedMem(b) \in [Words -> Word]
  BY <1>3, <1>5 DEF CommittedMem, AllBuffered, TypeOK, Image
<1>7. CleanedBuffers(b) \in [Cores -> [Words -> Word \cup {Absent}]]
  BY <1>3 DEF CleanedBuffers
<1> QED BY <1>2, <1>4, <1>6, <1>7 DEF TypeOK, Image

LEMMA TransferType == ASSUME TypeOK, NEW t, IsTransfer(t), Transfer(t) PROVE TypeOK'
<1>1. mem' \in [Words -> Word]
  BY SeenType, OverlayType DEF Transfer, TypeOK, Cores, Image
<1>2. wb' \in [Cores -> [Words -> Word \cup {Absent}]]
  BY DEF Transfer, TypeOK, Image
<1> QED BY <1>1, <1>2 DEF Transfer, TypeOK, Image

(* Every value the shared array and the write buffers ever hold is a word,  *)
(* and an entry that is absent is never committed (memory.cpp).             *)
THEOREM TypeCorrect == Spec => []TypeOK
<1>1. Init => TypeOK
  BY ZeroType DEF Init, TypeOK, Image
<1>2. TypeOK /\ [Next]_vars => TypeOK'
  BY RequestsAssumption, TransfersAssumption, PrimaryType, ReplicaType, TransferType
     DEF Next, vars, TypeOK
<1> QED BY <1>1, <1>2, PTL DEF Spec

--------------------------------------------------------------------------------
(* The write buffers are invisible: a step of Memory is, on what the cores  *)
(* read, the same step of PrivateMemories.  For each action the image of    *)
(* every core has to change as the abstract action says.                    *)

(* The instance has copies of the operators of MemoryTypes: the same ones. *)
LEMMA SameTypes ==
  /\ Private!Cores = Cores /\ Private!Words = Words /\ Private!Lanes = Lanes
  /\ Private!Zero = Zero /\ Private!ReadRegs = ReadRegs
BY DEF Private!Cores, Private!Words, Private!Lanes, Private!Zero, Private!ReadRegs,
       Private!Word, Cores, Words, Lanes, Zero, ReadRegs, Word

LEMMA SameOperators ==
  /\ \A a : Private!WordOf(a) = WordOf(a)
  /\ \A req : Private!Stores(req) = Stores(req)
  /\ \A old, data, mask : Private!Merge(old, data, mask) = Merge(old, data, mask)
  /\ \A old, req, m : Private!ReadData(old, req, m) = ReadData(old, req, m)
  /\ \A t, w : Private!Touches(t, w) = Touches(t, w)
  /\ \A t, w, old : Private!Overlay(t, w, old) = Overlay(t, w, old)
<1>1. \A a : Private!WordOf(a) = WordOf(a)
  BY DEF Private!WordOf, WordOf
<1>2. \A req : Private!Stores(req) = Stores(req)
  BY DEF Private!Stores, Stores
<1>3. \A old, data, mask : Private!Merge(old, data, mask) = Merge(old, data, mask)
  BY SameTypes DEF Private!Merge, Merge
<1>4. \A old, req, m : Private!ReadData(old, req, m) = ReadData(old, req, m)
  BY <1>1 DEF Private!ReadData, ReadData
<1>5. \A t, w, l : Private!BytesAt(t, w, l) = BytesAt(t, w, l)
  BY DEF Private!BytesAt, BytesAt, Private!WordOf, WordOf, Private!LaneOf, LaneOf
<1>6. \A t, w : Private!Touches(t, w) = Touches(t, w)
  BY <1>5, SameTypes DEF Private!Touches, Touches
<1>7. \A t, w, old : Private!Overlay(t, w, old) = Overlay(t, w, old)
  BY DEF Private!Overlay, Overlay, Private!BytesAt, BytesAt, Private!Lanes, Lanes,
         Private!WordOf, WordOf, Private!LaneOf, LaneOf
<1> QED BY <1>1, <1>2, <1>3, <1>4, <1>6, <1>7

LEMMA AfterStoreIs ==
  ASSUME NEW m, NEW req
  PROVE  Private!AfterStore(m, req) =
           IF Stores(req)
             THEN [m EXCEPT ![WordOf(req.d_addr)] = Merge(@, req.d_wdata, req.d_wmask)]
             ELSE m
BY SameOperators DEF Private!AfterStore

LEMMA PrimaryImages ==
  ASSUME TypeOK, NEW req \in Request, PrimaryCycle(req)
  PROVE  /\ Seen(Prim)' = Private!AfterStore(Seen(Prim), req)
         /\ \A c \in Reps : Seen(c)' = Seen(c)
<1>1. req \in Request /\ WordOf(req.d_addr) \in Words /\ Prim \in Cores
  BY WordOfType DEF Request, Cores
<1>2. CASE Single
  <2>1. \A w \in Words : Read(Prim, w) = mem[w] /\ Read(Prim, w)' = mem'[w]
    BY <1>2 DEF Read, Single
  <2>2. mem' = Private!AfterStore(mem, req)
    BY <1>2, AfterStoreIs DEF PrimaryCycle
  <2>3. mem' \in [Words -> Word]
    BY <1>1, <2>2, AfterStoreIs, MergeType DEF TypeOK, Request, Image
  <2>4. Seen(Prim) = mem /\ Seen(Prim)' = mem'
    BY <2>1, <2>3 DEF Seen, TypeOK, Image
  <2> QED BY <1>2, <2>2, <2>4 DEF Single
<1>3. CASE ~ Single
  <2>1. mem' = mem /\ wb' = [wb EXCEPT ![Prim] = BufferAfter(Prim, req)]
    BY <1>3 DEF PrimaryCycle
  <2>2. \A c \in Reps : wb'[c] = wb[c]
    BY <2>1, CoresAssumption DEF TypeOK, Cores, Image
  <2>3. wb'[Prim] = BufferAfter(Prim, req)
    BY <1>1, <2>1 DEF TypeOK, Image
  <2>4. CASE Stores(req)
    <3> DEFINE v == WordOf(req.d_addr)
               x == Merge(Read(Prim, v), req.d_wdata, req.d_wmask)
    <3>1. x \in Word /\ x # Absent
      BY <1>1, SeenType, MergeType, AbsentAssumption DEF Request
    <3>2. wb'[Prim] = [wb[Prim] EXCEPT ![v] = x] /\ wb[Prim] \in [Words -> Word \cup {Absent}]
      BY <1>1, <2>3, <2>4 DEF BufferAfter, TypeOK, Image
    <3> HIDE DEF x
    <3>3. \A w \in Words : Read(Prim, w)' = IF w = v THEN x ELSE Read(Prim, w)
      BY <1>1, <1>3, <2>1, <3>1, <3>2 DEF Read, Buffered, Single
    <3>4. Seen(Prim)' = [Seen(Prim) EXCEPT ![v] = x]
      BY <1>1, <3>3 DEF Seen
    <3>5. Seen(Prim)[v] = Read(Prim, v)
      BY <1>1 DEF Seen
    <3>6. \A c \in Reps : Seen(c)' = Seen(c)
      BY <2>1, <2>2 DEF Seen, Read, Buffered, Single
    <3> QED BY <2>4, <3>4, <3>5, <3>6, AfterStoreIs DEF x
  <2>5. CASE ~ Stores(req)
    BY <2>1, <2>2, <2>3, <2>5, AfterStoreIs DEF BufferAfter, Seen, Read, Buffered, Single
  <2> QED BY <2>4, <2>5
<1> QED BY <1>2, <1>3

(* Cleaning up the buffers b changes what no core reads. *)
LEMMA CleanUpInvisible ==
  ASSUME TypeOK, NEW b \in [Cores -> [Words -> Word \cup {Absent}]],
         mem' = CommittedMem(b), wb' = CleanedBuffers(b), ~ Single,
         NEW c \in Cores, NEW w \in Words
  PROVE  Read(c, w)' = IF b[c][w] # Absent THEN b[c][w] ELSE mem[w]
<1>1. Read(c, w)' = IF wb'[c][w] # Absent THEN wb'[c][w] ELSE mem'[w]
  BY DEF Read, Buffered, Single
<1>2. wb'[c][w] = IF AllBuffered(b, w) /\ b[c][w] = b[Prim][w] THEN Absent ELSE b[c][w]
  BY DEF CleanedBuffers
<1>3. mem'[w] = IF AllBuffered(b, w) THEN b[Prim][w] ELSE mem[w]
  BY DEF CommittedMem
<1>4. AllBuffered(b, w) => b[c][w] # Absent
  BY DEF AllBuffered
<1> QED BY <1>1, <1>2, <1>3, <1>4

LEMMA ReplicaImages ==
  ASSUME TypeOK, NEW reqs \in [Reps -> Request], ReplicaCycle(reqs)
  PROVE  /\ Seen(Prim)' = Seen(Prim)
         /\ \A c \in Reps : Seen(c)' = Private!AfterStore(Seen(c), reqs[c])
<1>1. CASE Single
  BY <1>1, CoresAssumption DEF ReplicaCycle, Seen, Read, Buffered, Single
<1>2. CASE ~ Single
  <2> DEFINE b == [c \in Cores |-> IF c \in Reps THEN BufferAfter(c, reqs[c]) ELSE wb[c]]
  <2>1. ASSUME NEW r \in Reps
        PROVE  /\ r \in Cores /\ reqs[r] \in Request /\ WordOf(reqs[r].d_addr) \in Words
               /\ b[r] = BufferAfter(r, reqs[r])
    BY WordOfType DEF Cores, Request
  <2>2. Prim \in Cores /\ b[Prim] = wb[Prim]
    BY CoresAssumption DEF Cores
  <2>3. b \in [Cores -> [Words -> Word \cup {Absent}]]
    BY <2>1, BufferAfterType DEF TypeOK, Image
  <2>4. mem' = CommittedMem(b) /\ wb' = CleanedBuffers(b)
    BY <1>2 DEF ReplicaCycle
  <2> HIDE DEF b
  <2>5. \A c \in Cores, w \in Words :
          Read(c, w)' = IF b[c][w] # Absent THEN b[c][w] ELSE mem[w]
    BY <1>2, <2>3, <2>4, CleanUpInvisible
  <2>6. Seen(Prim)' = Seen(Prim)
    BY <1>2, <2>2, <2>5 DEF Seen, Read, Buffered
  <2>7. ASSUME NEW r \in Reps
        PROVE  Seen(r)' = Private!AfterStore(Seen(r), reqs[r])
    <3> DEFINE v == WordOf(reqs[r].d_addr)
               x == Merge(Read(r, v), reqs[r].d_wdata, reqs[r].d_wmask)
    <3>1. CASE Stores(reqs[r])
      <4>1. x \in Word /\ x # Absent
        BY <2>1, SeenType, MergeType, AbsentAssumption DEF Request
      <4>2. b[r] = [wb[r] EXCEPT ![v] = x] /\ wb[r] \in [Words -> Word \cup {Absent}]
        BY <2>1, <3>1 DEF BufferAfter, TypeOK, Image
      <4>3. Seen(r)[v] = Read(r, v)
        BY <2>1 DEF Seen
      <4>4. Private!AfterStore(Seen(r), reqs[r]) = [Seen(r) EXCEPT ![v] = x]
        BY <3>1, <4>3, AfterStoreIs
      <4> HIDE DEF x
      <4>5. \A w \in Words : Read(r, w)' = IF w = v THEN x ELSE Read(r, w)
        BY <1>2, <2>1, <2>5, <4>1, <4>2 DEF Read, Buffered
      <4> QED BY <4>4, <4>5 DEF Seen
    <3>2. CASE ~ Stores(reqs[r])
      <4>1. Private!AfterStore(Seen(r), reqs[r]) = Seen(r)
        BY <3>2, AfterStoreIs
      <4>2. b[r] = wb[r] /\ r \in Cores
        BY <2>1, <3>2 DEF BufferAfter
      <4>3. \A w \in Words : Read(r, w)' = Read(r, w)
        BY <1>2, <2>5, <4>2 DEF Read, Buffered
      <4> QED BY <4>1, <4>3 DEF Seen
    <3> QED BY <3>1, <3>2
  <2> QED BY <2>6, <2>7
<1> QED BY <1>1, <1>2

LEMMA TransferImages ==
  ASSUME TypeOK, NEW t, Transfer(t), NEW c \in Cores, NEW w \in Words
  PROVE  Read(c, w)' = IF Touches(t, w) THEN Overlay(t, w, Read(Prim, w)) ELSE Read(c, w)
BY DEF Transfer, Read, Buffered, Single, TypeOK, Image

(* Each call on Memory is the same call on private memories. *)
LEMMA SameCall ==
  ASSUME TypeOK
  PROVE  /\ \A req \in Requests : PrimaryCycle(req) => Private!PrimaryCycle(req)
         /\ \A reqs \in [Reps -> Requests] : ReplicaCycle(reqs) => Private!ReplicaCycle(reqs)
         /\ \A t \in Transfers : Transfer(t) => Private!Transfer(t)
<1> DEFINE view == [c \in Cores |-> Seen(c)]
<1>0. Prim \in Cores /\ Reps \subseteq Cores /\ \A c \in Cores : c = Prim \/ c \in Reps
  BY DEF Cores
<1>1. ASSUME NEW req \in Requests, PrimaryCycle(req) PROVE Private!PrimaryCycle(req)
  <2>1. view' = [view EXCEPT ![Prim] = Private!AfterStore(@, req)]
    BY <1>0, <1>1, PrimaryImages, CoresAssumption, RequestsAssumption
  <2>2. rdata' = [rdata EXCEPT ![Prim] = ReadData(@, req, view[Prim])]
    BY <1>0, <1>1 DEF PrimaryCycle
  <2> QED BY <2>1, <2>2, SameOperators DEF Private!PrimaryCycle
<1>2. ASSUME NEW reqs \in [Reps -> Requests], ReplicaCycle(reqs)
      PROVE  Private!ReplicaCycle(reqs)
  <2>1. view' = [c \in Cores |-> IF c \in Reps THEN Private!AfterStore(view[c], reqs[c])
                                ELSE view[c]]
    BY <1>0, <1>2, ReplicaImages, CoresAssumption, RequestsAssumption
  <2>2. rdata' = [c \in Cores |-> IF c \in Reps THEN ReadData(rdata[c], reqs[c], view[c])
                                 ELSE rdata[c]]
    BY <1>0, <1>2 DEF ReplicaCycle
  <2> QED BY <2>1, <2>2, SameTypes, SameOperators DEF Private!ReplicaCycle
<1>3. ASSUME NEW t \in Transfers, Transfer(t) PROVE Private!Transfer(t)
  <2>1. \A c \in Cores, w \in Words : view[c][w] = Read(c, w)
    BY DEF Seen
  <2>2. view' = [c \in Cores |-> [w \in Words |->
                   IF Touches(t, w) THEN Overlay(t, w, view[Prim][w]) ELSE view[c][w]]]
    BY <1>0, <1>3, <2>1, TransferImages DEF Seen
  <2> HIDE DEF view
  <2>3. view' = [c \in Private!Cores |-> Private!Transferred(t, view[Prim], view[c])]
    BY <2>2, SameTypes, SameOperators, Zenon DEF Private!Transferred
  <2>4. UNCHANGED rdata
    BY <1>3 DEF Transfer
  <2> QED BY <2>3, <2>4 DEF Private!Transfer, view
<1> HIDE DEF view
<1> QED BY <1>1, <1>2, <1>3

(* What cores read out of the memory of memory.cpp is, for every interleaving *)
(* of stores, clean-ups and transfers, a memory each core has to itself.      *)
THEOREM Refinement == Spec => PrivateSpec
<1>1. Init => Private!Init
  BY SameTypes DEF Init, Private!Init, Seen, Read, Buffered
<1>2. TypeOK /\ [Next]_vars => [Private!Next]_(Private!vars)
  <2> SUFFICES ASSUME TypeOK, [Next]_vars PROVE [Private!Next]_(Private!vars)
    OBVIOUS
  <2>4. CASE UNCHANGED vars
    BY <2>4 DEF vars, Private!vars, Seen, Read, Buffered
  <2>5. CASE Next
    BY <2>5, SameCall DEF Next, Private!Next
  <2> QED BY <2>4, <2>5
<1> QED BY <1>1, <1>2, TypeCorrect, PTL DEF Spec, PrivateSpec, Private!Spec

(* Call by call, too: every bus cycle and every transfer does to the cores'  *)
(* private memories what that cycle or transfer promises.                    *)
THEOREM CallsArePrivate == Spec => PrivateSteps
<1> DEFINE Same ==
      /\ \A req \in Requests : PrimaryCycle(req) => Private!PrimaryCycle(req)
      /\ \A reqs \in [Reps -> Requests] : ReplicaCycle(reqs) => Private!ReplicaCycle(reqs)
      /\ \A t \in Transfers : Transfer(t) => Private!Transfer(t)
<1>1. TypeOK => Same
  BY SameCall
<1> QED BY <1>1, TypeCorrect, PTL DEF Spec, PrivateSteps

--------------------------------------------------------------------------------
(* A single core buffers nothing; inductive together with TypeOK. *)
NoBuffersInSingle == Single => \A c \in Cores, w \in Words : wb[c][w] = Absent

LEMMA SingleUnbuffered == Spec => []NoBuffersInSingle
<1>1. Init => NoBuffersInSingle
  BY DEF Init, NoBuffersInSingle
<1>2. NoBuffersInSingle /\ [Next]_vars => NoBuffersInSingle'
  <2> SUFFICES ASSUME NoBuffersInSingle, [Next]_vars PROVE NoBuffersInSingle'
    OBVIOUS
  <2>1. ASSUME NEW req \in Requests, PrimaryCycle(req) PROVE NoBuffersInSingle'
    BY <2>1 DEF NoBuffersInSingle, PrimaryCycle, Single
  <2>2. ASSUME NEW reqs \in [Reps -> Requests], ReplicaCycle(reqs) PROVE NoBuffersInSingle'
    BY <2>2 DEF NoBuffersInSingle, ReplicaCycle, Single
  <2>3. ASSUME NEW t \in Transfers, Transfer(t) PROVE NoBuffersInSingle'
    BY <2>3 DEF NoBuffersInSingle, Transfer, Single
  <2>4. CASE UNCHANGED vars
    BY <2>4 DEF vars, NoBuffersInSingle, Single
  <2> QED BY <2>1, <2>2, <2>3, <2>4 DEF Next
<1> QED BY <1>1, <1>2, PTL DEF Spec

(* cleanup_wb and write_4b change a word of the array only to what the       *)
(* primary reads there, and leave the primary no buffered entry for it.      *)
THEOREM CommittedValueIsPrimary == Spec => CommittedByPrimary
<1> DEFINE Shown(w) == mem'[w] # mem[w] => Read(Prim, w)' = mem'[w] /\ wb'[Prim][w] = Absent
<1>1. TypeOK /\ NoBuffersInSingle /\ NoBuffersInSingle' /\ [Next]_vars
        => [\A w \in Words : Shown(w)]_vars
  <2> SUFFICES ASSUME TypeOK, NoBuffersInSingle, NoBuffersInSingle', Next, NEW w \in Words,
                      mem'[w] # mem[w]
               PROVE  Read(Prim, w)' = mem'[w] /\ wb'[Prim][w] = Absent
    OBVIOUS
  <2>0. Prim \in Cores
    BY DEF Cores
  <2>1. SUFFICES wb'[Prim][w] = Absent
    BY DEF Read, Buffered
  <2>2. ASSUME NEW req \in Requests, PrimaryCycle(req) PROVE wb'[Prim][w] = Absent
    BY <2>0, <2>2 DEF PrimaryCycle, NoBuffersInSingle, Single
  <2>3. ASSUME NEW reqs \in [Reps -> Requests], ReplicaCycle(reqs)
        PROVE  wb'[Prim][w] = Absent
    <3> DEFINE b == [c \in Cores |-> IF c \in Reps THEN BufferAfter(c, reqs[c]) ELSE wb[c]]
    <3>1. mem' = CommittedMem(b) /\ wb' = CleanedBuffers(b)
      BY <2>3 DEF ReplicaCycle
    <3> HIDE DEF b
    <3>2. AllBuffered(b, w)
      BY <3>1 DEF CommittedMem
    <3> QED BY <2>0, <3>1, <3>2 DEF CleanedBuffers
  <2>4. ASSUME NEW t \in Transfers, Transfer(t) PROVE wb'[Prim][w] = Absent
    BY <2>0, <2>4 DEF Transfer
  <2> QED BY <2>2, <2>3, <2>4 DEF Next
<1> QED BY <1>1, TypeCorrect, SingleUnbuffered, PTL DEF Spec, CommittedByPrimary

(* update_replica leaves nothing that could have been committed. *)
THEOREM NothingLeft == Spec => NothingLeftToCommit
<1> DEFINE Landed == \E r \in Reps, w \in Words : wb'[r][w] \notin {wb[r][w], Absent}
<1>1. TypeOK /\ NoBuffersInSingle' /\ [Next]_vars
        => [Landed => \A w \in Words : ~ AllBuffered(wb', w)]_vars
  <2> SUFFICES ASSUME TypeOK, NoBuffersInSingle', Next,
                      NEW r \in Reps, NEW v \in Words, wb'[r][v] \notin {wb[r][v], Absent},
                      NEW w \in Words
               PROVE  ~ AllBuffered(wb', w)
    OBVIOUS
  <2>0. Prim \in Cores /\ r \in Cores /\ r # Prim /\ ~ Single
    BY CoresAssumption DEF Cores, Single
  <2>1. ASSUME NEW req \in Requests, PrimaryCycle(req) PROVE FALSE
    BY <2>0, <2>1 DEF PrimaryCycle, TypeOK, Image
  <2>2. ASSUME NEW reqs \in [Reps -> Requests], ReplicaCycle(reqs)
        PROVE  ~ AllBuffered(wb', w)
    <3> DEFINE b == [c \in Cores |-> IF c \in Reps THEN BufferAfter(c, reqs[c]) ELSE wb[c]]
    <3>1. wb' = CleanedBuffers(b)
      BY <2>0, <2>2 DEF ReplicaCycle
    <3> HIDE DEF b
    <3>2. CASE AllBuffered(b, w)
      BY <2>0, <3>1, <3>2 DEF CleanedBuffers, AllBuffered
    <3>3. CASE ~ AllBuffered(b, w)
      <4>1. PICK c \in Cores : b[c][w] = Absent
        BY <3>3 DEF AllBuffered
      <4>2. wb'[c][w] = Absent
        BY <3>1, <4>1 DEF CleanedBuffers
      <4> QED BY <4>1, <4>2 DEF AllBuffered
    <3> QED BY <3>2, <3>3
  <2>3. ASSUME NEW t \in Transfers, Transfer(t) PROVE FALSE
    BY <2>0, <2>3 DEF Transfer
  <2> QED BY <2>1, <2>2, <2>3 DEF Next
<1> QED BY <1>1, TypeCorrect, SingleUnbuffered, PTL DEF Spec, NothingLeftToCommit
================================================================================
