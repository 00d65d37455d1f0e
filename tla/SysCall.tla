--------------------------------- MODULE SysCall ---------------------------------
(***************************************************************************)
(* The emulation of system calls: the virtual file descriptors of the      *)
(* program and the host's behind them, the break address, and the clock    *)
(* made of the instruction count.  The host is what POSIX lets it be: it   *)
(* opens files at its lowest free descriptor or fails.  ProgramFiles says  *)
(* what the program is promised.                                           *)
(*                                                                         *)
(* The arguments come from cores[0] and the results go to all the cores    *)
(* and memories, as Lockstep has it (Caller, Returned, Transferred); the   *)
(* contents of files, paths and buffers are left out.                      *)
(***************************************************************************)
EXTENDS Integers

CONSTANTS
  File,          \* files of the host a program may name
  TooLong,       \* a path of SIM_PATH_MAX bytes and more
  HostFds,       \* descriptors the host gives a process, from 0
  VirtualFds,    \* numbers the program passes as descriptors
  Break,         \* values of the break address, 0 among them
  SECOND,        \* instructions, of a microsecond, in a second of the virtual clock: 1000000
  NSEC,          \* nanoseconds of an instruction, and of a microsecond: 1000
  MaxInsts       \* bound on the instructions executed

Standard == [fd \in 0 .. 2 |-> <<"stdin", "stdout", "stderr">>[fd + 1]]
Free == "free"                     \* a descriptor of the host that is not open
Private == "private"               \* the log of the option -l, what else was open
EIO == 5
EBADF == 9
ENOENT == 2
EMFILE == 24
ESPIPE == 29
ENAMETOOLONG == 36

ASSUME SysCallAssumption ==
  /\ HostFds \in Nat \ 0 .. 2
  /\ VirtualFds \subseteq Nat
  /\ Break \subseteq Nat
  /\ SECOND \in Nat \ {0} /\ NSEC \in Nat \ {0}
  /\ MaxInsts \in Nat
  /\ Free \notin File /\ Private \notin File /\ TooLong \notin File

VARIABLES
  fd_map, fd_next, brk_addr, halt, cnt_inst,
  host,          \* what is open at each descriptor of the host
  ret,           \* what the last call wrote to a0
  told,          \* the times last told: of files by stat and fstat, of day by gettimeofday
  owned,         \* the program's view: the files at the descriptors it has open
  proper,        \* it has used no descriptor that it has not open
  reached        \* what the host acted on in the last call with a descriptor

hidden == <<owned, proper, reached>>
vars == <<fd_map, fd_next, brk_addr, halt, cnt_inst, host, ret, told, hidden>>

Opened == File \cup {Standard[fd] : fd \in 0 .. 2}

(* Seconds, and nanoseconds below a second. *)
Times == [sec : Nat, nsec : 0 .. SECOND * NSEC - 1]

TypeOK ==
  /\ DOMAIN fd_map \subseteq Nat /\ 0 .. 2 \subseteq DOMAIN fd_map
  /\ \A v \in DOMAIN fd_map : fd_map[v] \in 0 .. HostFds - 1
  /\ fd_next \in Nat
  /\ brk_addr \in Nat
  /\ halt \in BOOLEAN
  /\ cnt_inst \in Nat
  /\ host \in [0 .. HostFds - 1 -> Opened \cup {Free, Private}]
  /\ ret \in Int
  /\ told \in [file : Times, day : Times]
  /\ DOMAIN owned \subseteq DOMAIN fd_map
  /\ proper \in BOOLEAN
  /\ reached \in Opened \cup {Free, Private}

TimeAll(cnt) ==                            \* mutant: does not start over every second
  [sec |-> cnt \div SECOND, nsec |-> cnt * NSEC]

(* vtime, from its base, and vtime_nsec. *)
Time(cnt) == [sec |-> cnt \div SECOND, nsec |-> (cnt % SECOND) * NSEC]

Init ==
  /\ fd_map = [fd \in 0 .. 2 |-> fd]
  /\ fd_next = 3
  /\ brk_addr \in Break
  /\ halt = FALSE
  /\ cnt_inst = 0
  /\ \E own \in SUBSET (3 .. HostFds - 1) :
       host = [fd \in 0 .. HostFds - 1 |->
                 IF fd \in 0 .. 2 THEN Standard[fd] ELSE IF fd \in own THEN Private ELSE Free]
  /\ ret = 0
  /\ told = [file |-> Time(0), day |-> Time(0)]
  /\ owned = Standard
  /\ proper = TRUE
  /\ reached = Free

--------------------------------------------------------------------------------
(* Up to a second goes by between two calls. *)
Called ==
  /\ ~ halt
  /\ \E n \in 1 .. SECOND : cnt_inst' = cnt_inst + n /\ cnt_inst' <= MaxInsts

(* map[k] = e of a C++ map. *)
With(map, k, e) == [x \in DOMAIN map \cup {k} |-> IF x = k THEN e ELSE map[x]]

LookupUnmapped(v) ==                       \* mutant: passes v on to the host
  IF v \in DOMAIN host THEN v ELSE 0

(* fd_map[v]: an unknown v gets an entry, the host's descriptor 0. *)
Lookup(v)  == IF v \in DOMAIN fd_map THEN fd_map[v] ELSE 0
Entered(v) == IF v \in DOMAIN fd_map THEN fd_map ELSE With(fd_map, v, 0)

(* The host acts on what v leads to. *)
Uses(v) ==
  /\ fd_map' = Entered(v)
  /\ proper' = (proper /\ v \in DOMAIN owned)
  /\ reached' = host[Lookup(v)]

ClosesAll(fd) == TRUE                      \* mutant: closes the simulator's own as well
IsClosed(fd)  == fd >= 3

Close(v) ==
  LET fd == Lookup(v)
  IN  /\ Uses(v)
      /\ IF IsClosed(fd)
           THEN /\ host' = [host EXCEPT ![fd] = Free]
                /\ ret' \in IF host[fd] = Free THEN {-EBADF} ELSE {0, -EIO}
           ELSE /\ UNCHANGED host
                /\ ret' = 0
      /\ owned' = [w \in DOMAIN owned \ {v} |-> owned[w]]
      /\ UNCHANGED <<fd_next, brk_addr, halt, told>>

(* lseek, read and write: a count or position, or what errno says: a pipe   *)
(* has no positions, and a file may be open for the other direction only.   *)
Transfer(v) ==
  /\ Uses(v)
  /\ ret' \in IF reached' = Free THEN {-EBADF} ELSE {0, 1, -EBADF, -ESPIPE}
  /\ UNCHANGED <<fd_next, brk_addr, halt, host, told, owned>>

Fstat(v) ==
  /\ Uses(v)
  /\ ret' = IF reached' = Free THEN -EBADF ELSE 0
  /\ told' = IF ret' = 0 THEN [told EXCEPT !.file = Time(cnt_inst')] ELSE told
  /\ UNCHANGED <<fd_next, brk_addr, halt, host, owned>>

--------------------------------------------------------------------------------
Reused == fd_next                          \* mutant: the next open gets the same number
NextFd == fd_next + 1

(* open at the host's lowest free descriptor. *)
OpenFile(file) ==
  /\ \E fd \in DOMAIN host :
       /\ host[fd] = Free /\ \A lower \in DOMAIN host : lower < fd => host[lower] # Free
       /\ host' = [host EXCEPT ![fd] = file]
       /\ fd_map' = With(fd_map, fd_next, fd)
  /\ ret' = fd_next
  /\ fd_next' = NextFd
  /\ owned' = With(owned, fd_next, file)
  /\ UNCHANGED <<brk_addr, halt, told, proper, reached>>

FailsWith(errno) ==
  /\ ret' = -errno
  /\ UNCHANGED <<fd_map, fd_next, brk_addr, halt, host, told, hidden>>

Open(path) ==
  IF path = TooLong THEN FailsWith(ENAMETOOLONG)
  ELSE \/ OpenFile(path)
       \/ FailsWith(ENOENT)
       \/ (\A fd \in DOMAIN host : host[fd] # Free) /\ FailsWith(EMFILE)

Stat(path) ==
  IF path = TooLong THEN FailsWith(ENAMETOOLONG)
  ELSE \/ FailsWith(ENOENT)
       \/ /\ ret' = 0
          /\ told' = [told EXCEPT !.file = Time(cnt_inst')]
          /\ UNCHANGED <<fd_map, fd_next, brk_addr, halt, host, hidden>>

(* Writes vtime and, where newlib has microseconds, vtime_nsec; never fails. *)
GetTimeOfDay ==
  /\ ret' = 0
  /\ told' = [told EXCEPT !.day = Time(cnt_inst')]
  /\ UNCHANGED <<fd_map, fd_next, brk_addr, halt, host, hidden>>

(* sbrk(0) returns the break address; another b becomes it and stays in a0. *)
Sbrk(b) ==
  /\ IF b = 0 THEN ret' = brk_addr /\ UNCHANGED brk_addr
     ELSE ret' = b /\ brk_addr' = b
  /\ UNCHANGED <<fd_map, fd_next, halt, host, told, hidden>>

(* a0 keeps its argument, as with the numbers that no case is for. *)
Exit ==
  /\ halt' = TRUE
  /\ UNCHANGED <<fd_map, fd_next, brk_addr, host, ret, told, hidden>>

Emulate ==
  \/ \E v \in VirtualFds : Close(v) \/ Transfer(v) \/ Fstat(v)
  \/ \E path \in File \cup {TooLong} : Open(path) \/ Stat(path)
  \/ GetTimeOfDay
  \/ \E b \in Break : Sbrk(b)
  \/ Exit

Next == Called /\ Emulate

Spec == Init /\ [][Next]_vars

--------------------------------------------------------------------------------
(* Whatever descriptors the program closes, used before or not, known or    *)
(* not, the simulator keeps its own standard streams.                       *)
StandardStaysOpen == \A fd \in 0 .. 2 : host[fd] = Standard[fd]

(* The descriptors of a program that uses only those it has open lead to    *)
(* the files it has opened, although the entries of closed ones stay in     *)
(* fd_map and the host gives their numbers to other files.                  *)
OwnFiles == proper => \A v \in DOMAIN owned : host[fd_map[v]] = owned[v]

(* No number, one the program has open, has closed or never had, leads to   *)
(* what the simulator has open for itself: its log can neither be read nor  *)
(* written nor closed by the program it runs.                               *)
PrivateOutOfReach == \A v \in VirtualFds : host[Lookup(v)] # Private

Promise == INSTANCE ProgramFiles WITH files <- owned, given <- 0 .. fd_next - 1

(* The calls on descriptors are those of ProgramFiles: numbers are not      *)
(* given twice, and a program that uses those it has open reaches what it   *)
(* opened, although neither close nor a misuse cleans fd_map up.            *)
ProgramsFiles == Promise!Spec

Nanoseconds(time)  == time.sec * (SECOND * NSEC) + time.nsec
Microseconds(time) == time.sec * SECOND + time.nsec      \* as newlib reads gettimeofday's

ToldOfFile ==
  /\ Nanoseconds(told'.file) = NSEC * cnt_inst'
  /\ Nanoseconds(told.file) < Nanoseconds(told'.file)
  /\ told.day.sec <= told'.file.sec

ToldOfDay ==
  /\ told.day.sec <= told'.day.sec /\ told.file.sec <= told'.day.sec
  /\ cnt_inst' <= Microseconds(told'.day)
  /\ Microseconds(told'.day) <= cnt_inst' + (NSEC - 1) * (SECOND - 1)

(* The timestamps that stat and fstat tell are the instructions executed,   *)
(* to the nanosecond, so they advance from each call to the next; and the   *)
(* seconds told, also those of gettimeofday, never go back.  The time of    *)
(* day itself does, at each turn of a second: gettimeofday has nanoseconds  *)
(* in the field that newlib reads as microseconds.  It is never behind the  *)
(* instructions executed, and ahead by NSEC - 1 times those of the current  *)
(* second, at most.                                                         *)
TimeTold ==
  [][/\ (\E v \in VirtualFds : Fstat(v)) /\ ret' = 0 => ToldOfFile
     /\ (\E path \in File \cup {TooLong} : Stat(path)) /\ ret' = 0 => ToldOfFile
     /\ GetTimeOfDay => ToldOfDay]_vars
================================================================================
