---------------------------------- MODULE Words ----------------------------------
(***************************************************************************)
(* The 32-bit words of the simulated machine and the operators of C++ on   *)
(* uint32_t and int32_t that VeriCross computes with.  A word is the set   *)
(* of the positions of its 1 bits, so a mask is an intersection and a      *)
(* shift moves positions.  It has no state.                                *)
(***************************************************************************)
EXTENDS Integers

Bits  == 0 .. 31
Word  == SUBSET Bits
Field(w, lo, n) == {i - lo : i \in w \cap (lo .. lo + n - 1)}   \* (w >> lo) & (2^n - 1)

Shl(w, n) == {i + n : i \in w} \cap Bits
Shr(w, n) == {i - n : i \in w} \cap Bits
(* >> of an int32_t, and a field of n bits with its sign: bit n - 1. *)
Sar(w, n) == Shr(w, n) \cup {i \in Bits : 31 \in w /\ i > 31 - n}
Sext(w, n) == w \cup {i \in Bits : n - 1 \in w /\ i >= n}

Not(w)    == Bits \ w
Xor(a, b) == (a \ b) \cup (b \ a)

(* A carry into bit i comes from a lower pair of ones over pairs with a one. *)
Carry(a, b, i) == \E j \in a \cap b : j < i /\ (j + 1 .. i - 1) \subseteq a \cup b
Plus(a, b)  == {i \in Bits : (i \in a) # ((i \in b) # Carry(a, b, i))}
Minus(a, b) == Not(Plus(Not(a), b))

(* < of unsigned and of signed words: the highest bit that differs decides. *)
Below(a, b) == \E i \in b \ a : \A j \in i + 1 .. 31 : j \in a <=> j \in b
SignedBelow(a, b) == Below(Xor(a, {31}), Xor(b, {31}))

(* The number in the lowest five bits. *)
Bit(w, i)  == IF i \in w THEN 1 ELSE 0
Number(w)  == Bit(w, 0) + 2 * Bit(w, 1) + 4 * Bit(w, 2) + 8 * Bit(w, 3) + 16 * Bit(w, 4)
Flag(b)    == IF b THEN {0} ELSE {}

(* The numbers words stand for as uint32_t and as int32_t; TLC's own        *)
(* integers have 32 bits, so that it computes Uint32 below 2^31 only.       *)
Octet(w, k) ==
  Bit(w, k) + 2 * Bit(w, k + 1) + 4 * Bit(w, k + 2) + 8 * Bit(w, k + 3)
    + 16 * Bit(w, k + 4) + 32 * Bit(w, k + 5) + 64 * Bit(w, k + 6) + 128 * Bit(w, k + 7)
Uint32(w) == Octet(w, 0) + 256 * Octet(w, 8) + 65536 * Octet(w, 16) + 16777216 * Octet(w, 24)
Int32(w)  == Uint32(w \ {31}) + (-65536) * (32768 * Bit(w, 31))
================================================================================
