-------------------------------- MODULE MCSysCall --------------------------------
(***************************************************************************)
(* Two files, room for two host descriptors besides the standard ones, and *)
(* a program that passes descriptors opened, closed and never opened.      *)
(***************************************************************************)
EXTENDS SysCall

MCVirtualFds == {0, 1, 3, 4, 5, 9}
MCBreak      == {0, 8}
================================================================================
