-------------------------------- MODULE MCStartup --------------------------------
(***************************************************************************)
(* An instance of Startup for TLC: directories that hold one another,      *)
(* programs of a few words that fit or overlap, and short command lines.   *)
(***************************************************************************)
EXTENDS Startup

MCJal(d) == 1000 + d
MCDirs == {<<>>, <<"a">>, <<"a", "a">>, <<"b">>}
MCBases == {<<"a">>, <<"b">>, <<"none">>}

Options == {<<"core", "kronos">>, <<"core", "rvcorep">>, <<"core", "other">>, <<"p", "">>,
            <<"l", "">>, <<"logfile", "f">>, <<"logfile", "">>,
            <<"version", "">>, <<"mismatch", 0>>,
            <<"mismatch", 2>>, <<"instruction", [digits |-> 300, suffix |-> "m"]>>,
            <<"instruction", [digits |-> 99999999, suffix |-> "none"]>>,
            <<"instruction", [digits |-> 3, suffix |-> "x"]>>, <<"?", "">>}
MCLines == BoundedSeq(Options, 2)

Fun(name, addr) == [name |-> name, addr |-> addr]
File(dump, bin) == [bin |-> bin, objdump |-> dump, sp |-> <<91, 92>>]

\* What fits, a text at 0, one over the entry, one over everything and longer
\* than the memory; then what the loader refuses.
Linked == File(<<Fun("f", 3), Fun("_start", 4), Fun("_start", 9)>>, <<11, 12>>)
Overlapping == File(<<Fun("_start", 1)>>, <<11, 12, 13>>)
AtZero == File(<<Fun("f", 0), Fun("_start", 4)>>, <<11>>)
Round == File(<<Fun("_start", 3)>>, [i \in 1 .. 10 |-> 20 + i])
NoStart == File(<<Fun("f", 3)>>, <<11>>)
MCPrograms == {Linked, Overlapping, AtZero, Round, NoStart,
               [Linked EXCEPT !.bin = Missing], [Linked EXCEPT !.sp = <<91>>]}

\* <<"a">> holds any of them, the other directories one program.
MCDisks == {[d \in MCDirs |-> IF d = <<"a">> THEN p ELSE Overlapping] : p \in MCPrograms}
================================================================================
