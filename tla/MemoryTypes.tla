------------------------------ MODULE MemoryTypes ------------------------------
(***************************************************************************)
(* The data VeriCross's main memory is made of: byte addresses, words as   *)
(* functions from byte lanes to bytes, the effect of a core's store and of *)
(* a transfer (program loading, system call emulation) on an image of the  *)
(* memory.  It has no state.                                               *)
(***************************************************************************)
EXTENDS Integers, Sequences

CONSTANTS
  NWORDS,     \* number of words of the memory
  LANES,      \* bytes in a word (4 in the code)
  NADDRS,     \* number of byte addresses (2^32 in the code); they alias
  Byte        \* values of a byte

ASSUME SizeAssumption ==
  /\ NWORDS \in Nat \ {0}
  /\ LANES \in Nat \ {0}
  /\ NADDRS \in Nat \ {0}
  /\ 0 \in Byte

Words == 0 .. NWORDS - 1
Lanes == 0 .. LANES - 1
Addr  == 0 .. NADDRS - 1
Word  == [Lanes -> Byte]
Zero  == [l \in Lanes |-> 0]
Image == [Words -> Word]

(* (addr >> 2) & (NWORDS - 1), with NWORDS a power of two, and addr % 4. *)
WordOf(a) == (a \div LANES) % NWORDS
LaneOf(a) == a % LANES

(* expand_wmask and write_mask: the lanes of the mask take the new data. *)
Merge(old, data, mask) == [l \in Lanes |-> IF l \in mask THEN data[l] ELSE old[l]]

(* A transfer is a start address and bytes; it never covers a byte twice. *)
IsTransfer(t) == t \in Addr \X Seq(Byte) /\ Len(t[2]) <= NWORDS * LANES

(* The bytes of transfer t that land in lane l of word w. *)
BytesAt(t, w, l) ==
  {i \in DOMAIN t[2] : LET a == (t[1] + i - 1) % NADDRS
                       IN  WordOf(a) = w /\ LaneOf(a) = l}

Touches(t, w) == \E l \in Lanes : BytesAt(t, w, l) # {}

(* Word w after transfer t, when it held old before. *)
Overlay(t, w, old) ==
  [l \in Lanes |-> IF BytesAt(t, w, l) = {} THEN old[l]
                   ELSE t[2][CHOOSE i \in BytesAt(t, w, l) : TRUE]]

(* A core's image own after transfer t: bytes are merged into the words the *)
(* primary reads, prim, and every core gets the whole words.                *)
Transferred(t, prim, own) ==
  [w \in Words |-> IF Touches(t, w) THEN Overlay(t, w, prim[w]) ELSE own[w]]
================================================================================
