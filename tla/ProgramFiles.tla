------------------------------- MODULE ProgramFiles -------------------------------
(***************************************************************************)
(* What the calls on descriptors promise the program and the simulator, in *)
(* terms of what each has open: no tables, no numbers of the host.         *)
(***************************************************************************)
EXTENDS Integers

CONSTANTS File, Standard, Private, EBADF

VARIABLES
  files,     \* the files at the descriptors the program has open
  given,     \* the numbers it has been given
  proper,    \* it has used no descriptor that it has not open
  reached,   \* what the last call with a descriptor acted on
  ret        \* what the last call returned

vars == <<files, given, proper, reached, ret>>

Init ==
  /\ files = Standard /\ given = DOMAIN Standard
  /\ proper = TRUE
  /\ reached # Private

(* open gives a number that was never given before. *)
Opens(file) ==
  /\ ret' \in Nat \ given
  /\ given' = given \cup {ret'}
  /\ files' = [v \in DOMAIN files \cup {ret'} |-> IF v = ret' THEN file ELSE files[v]]
  /\ UNCHANGED <<proper, reached>>

(* close, of an open descriptor. *)
Closes(v) ==
  /\ proper
  /\ reached' = files[v]
  /\ ret' # -EBADF
  /\ files' = [w \in DOMAIN files \ {v} |-> files[w]]
  /\ UNCHANGED <<given, proper>>

(* lseek, read, write and fstat, of an open descriptor. *)
Acts(v) ==
  /\ proper
  /\ reached' = files[v]
  /\ UNCHANGED <<files, given, proper>>

(* A call with any number by a program that has used one that is not open:  *)
(* what it reaches is open, but may be another of its files or a stream.    *)
Misuses ==
  /\ ~ proper'
  /\ reached' # Private
  /\ \/ files' = files
     \/ \E v \in DOMAIN files : files' = [w \in DOMAIN files \ {v} |-> files[w]]
  /\ UNCHANGED given

(* The calls that are not about descriptors, or fail before they are. *)
Others == UNCHANGED <<files, given, proper, reached>>

Next ==
  \/ \E file \in File : Opens(file)
  \/ \E v \in DOMAIN files : Closes(v) \/ Acts(v)
  \/ Misuses
  \/ Others

Spec == Init /\ [][Next]_vars
================================================================================
