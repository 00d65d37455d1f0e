-------------------------------- MODULE MCMemory --------------------------------
(***************************************************************************)
(* Instances of Memory for TLC.  The requests are cut down to one shape    *)
(* per effect on the memory: disabled, fetch and read, fetch and store,    *)
(* and a store asserted together with a read.                              *)
(***************************************************************************)
EXTENDS Memory

Bits == {0, 1}
Ones == [l \in Lanes |-> 1]

Blank == [en |-> TRUE, i_addr |-> 0, d_re |-> FALSE, d_we |-> FALSE,
          d_addr |-> 0, d_wdata |-> Zero, d_wmask |-> {}]

Disabled  == {[Blank EXCEPT !.en = FALSE, !.d_we = TRUE, !.d_wmask = Lanes]}
DataReads == {[Blank EXCEPT !.d_re = TRUE, !.d_addr = NADDRS - 1]}
Both      == {[Blank EXCEPT !.d_re = TRUE, !.d_we = TRUE, !.d_wdata = Ones, !.d_wmask = Lanes]}

Stored(data, mask) ==
  {[Blank EXCEPT !.d_we = TRUE, !.d_wdata = d, !.d_wmask = mask] : d \in data}

(* Stores of the whole word or of none of it, transfers of one lane. *)
WordRequests  == Disabled \cup DataReads \cup Both
                 \cup Stored(Word, Lanes) \cup Stored({Ones}, {})
WordTransfers == {<<a, <<b>>>> : a \in Addr, b \in Byte}
================================================================================
