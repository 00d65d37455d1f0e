--------------------------------- MODULE Startup ---------------------------------
(***************************************************************************)
(* From the command line to the main loop (sim/main.cpp) with the loader   *)
(* of the program's files (sim/loader.cpp): the options, the working       *)
(* directory, which changes three times, the sections of the program in    *)
(* the memory, the log file.  Addresses count words and are not wrapped to *)
(* the memory's size before a write; lines and names are what is found in  *)
(* them, paths are sequences of directory names.                           *)
(***************************************************************************)
EXTENDS Integers, Sequences, FiniteSetsExt, SequencesExt

CONSTANTS
  CommandLines,   \* options and their arguments, in order
  Operands,       \* how many arguments follow the options
  BaseDirs,       \* paths given as base_dir
  Dirs,           \* the directories that exist, seen from the first one
  Disks,          \* the files of each directory: bin, objdump and sp
  Missing,        \* a file that cannot be opened
  Empty,          \* the empty string
  NWORDS, INITIAL_PC, INITIAL_SP,
  MIN_STACK,      \* words a stack image has at least: 4
  LIMITS,         \* values of a 64-bit count
  Jal(_)          \* make_jal of a distance (RiscV!MakeJal)

known_cores == {"kronos", "kronos_faulty", "rvcorep"}
Words == 0 .. NWORDS - 1

ASSUME StartupAssumption ==
  /\ NWORDS \in Nat \ {0} /\ INITIAL_PC \in Nat /\ INITIAL_SP \in Nat
  /\ MIN_STACK \in Nat /\ LIMITS \in Nat \ {0}
  /\ Empty \notin known_cores
  /\ <<>> \in Dirs /\ Dirs \cup BaseDirs \subseteq Seq(STRING)
  /\ \A disk \in Disks : DOMAIN disk = Dirs

(* An option as getopt_long hands it over, with its argument if it has one. *)
Given == ({"core", "logfile"} \X STRING)
           \cup ({"instruction"} \X [digits : Int, suffix : STRING])
           \cup ({"mismatch"} \X Int)
           \cup ({"p", "l", "list-core", "version", "?"} \X {Empty})

ASSUME OptionsAssumption == CommandLines \subseteq Seq(Given)

(* A file that can be opened is words, an objdump file function headers.    *)
ASSUME FilesAssumption ==
  \A disk \in Disks : \A d \in Dirs :
    /\ disk[d].bin # Missing => disk[d].bin \in Seq(Nat)
    /\ disk[d].sp # Missing => disk[d].sp \in Seq(Nat)
    /\ disk[d].objdump # Missing => disk[d].objdump \in Seq([name : STRING, addr : Nat])

(* make_jal returns a word, whatever the distance.                          *)
ASSUME JalAssumption ==
  \A disk \in Disks : \A d \in Dirs :
    disk[d].objdump # Missing =>
      \A i \in DOMAIN disk[d].objdump : Jal(disk[d].objdump[i].addr - INITIAL_PC) \in Nat

VARIABLES
  line, argn,     \* the options still to read, the number of operands
  base,           \* args.base_dir
  args,           \* the options read so far
  files,          \* files[d]: what directory d holds
  cwd,            \* the working directory
  last_wd,        \* local to the Loader
  cores,          \* the cores instantiated, in order
  source,         \* the directory the program was read from
  sections, brk_addr,
  mem, log,       \* log: none, stdout, or a file in a directory
  step            \* where the program is; "failed" and "done" are its exits

vars == <<line, argn, base, args, files, cwd, last_wd, cores, source, sections,
          brk_addr, mem, log, step>>

TypeOK ==
  /\ line \in Seq(Given)
  /\ cwd \in Dirs /\ last_wd \in Dirs /\ source \in Dirs
  /\ args \in [dump_log : BOOLEAN, log_file : BOOLEAN, proc_only : BOOLEAN,
               core_type : known_cores \cup {Empty}, max_insts : 0 .. LIMITS - 1,
               mismatch_insts : Nat]
  /\ cores \in BoundedSeq(known_cores \cup {"functional"}, 2)
  /\ sections \in Seq([addr : Nat, data : Seq(Nat)]) /\ Len(sections) \in {0, 3}
  /\ brk_addr \in Nat
  /\ mem \in [Words -> Nat]
  /\ log \in [to : {"none", "stdout", "file"}, dir : Dirs]
  /\ step \in {"options", "enter", "open", "scan", "write", "log", "chdir",
               "run", "failed", "done"}

Init ==
  /\ line \in CommandLines /\ argn \in Operands /\ base \in BaseDirs
  /\ args = [dump_log |-> FALSE, log_file |-> FALSE, proc_only |-> FALSE, core_type |-> Empty,
             max_insts |-> 10000000 % LIMITS, mismatch_insts |-> 0]
  /\ files \in Disks
  /\ cwd = <<>> /\ last_wd = <<>>
  /\ cores = <<>> /\ source = <<>> /\ sections = <<>> /\ brk_addr = 0
  /\ mem = [w \in Words |-> 0]
  /\ log = [to |-> "none", dir |-> <<>>]
  /\ step = "options"

Stops(how) == step' = how /\ UNCHANGED <<line, args, cores>>

--------------------------------------------------------------------------------
(* parse_scaled_number: strtoll stops at the largest long long; an optional *)
(* suffix scales that, in 64 bits.                                          *)
Scale == [none |-> 1, k |-> 1000, m |-> 1000000, g |-> 1000000000]
LLONG_MAX == LIMITS \div 2 - 1
Digits(arg) == IF arg.digits > LLONG_MAX THEN LLONG_MAX ELSE arg.digits
Parsed(arg) == (Digits(arg) * Scale[arg.suffix]) % LIMITS

RefusedUnchecked(opt, arg) ==      \* mutant: -c takes any name
  \/ opt = "instruction" /\ (arg.digits < 0 \/ arg.suffix \notin DOMAIN Scale)
  \/ opt = "mismatch" /\ arg < 1
  \/ opt = "?"

(* checkarg: one option, with its argument arg. *)
Refused(opt, arg) ==
  \/ opt = "core" /\ arg \notin known_cores
  \/ opt = "instruction" /\ (arg.digits < 0 \/ arg.suffix \notin DOMAIN Scale)
  \/ opt = "mismatch" /\ arg < 1
  \/ opt = "?"

Accepted(opt, arg) ==
  CASE opt = "core"        -> [args EXCEPT !.core_type = arg]
    [] opt = "logfile"     -> [args EXCEPT !.dump_log = TRUE, !.log_file = arg # Empty]
    [] opt = "l"           -> [args EXCEPT !.dump_log = TRUE]
    [] opt = "p"           -> [args EXCEPT !.proc_only = TRUE]
    [] opt = "instruction" -> [args EXCEPT !.max_insts = Parsed(arg)]
    [] opt = "mismatch"    -> [args EXCEPT !.mismatch_insts = arg]

Option ==
  /\ step = "options" /\ line # <<>>
  /\ LET opt == Head(line)[1]
         arg == Head(line)[2]
     IN  \/ opt \in {"list-core", "version"} /\ Stops("done")
         \/ Refused(opt, arg) /\ Stops("failed")
         \/ /\ ~ Refused(opt, arg) /\ opt \notin {"list-core", "version"}
            /\ args' = Accepted(opt, arg)
            /\ line' = Tail(line)
            /\ UNCHANGED <<cores, step>>
  /\ UNCHANGED <<argn, base, files, cwd, last_wd, source, sections, brk_addr, mem, log>>

IncompleteByCount == argn # 3      \* mutant: -p is accepted without a core

Incomplete == argn # 3 \/ (args.proc_only /\ args.core_type = Empty)

(* The cores that are asked for, the functional one first. *)
Instantiated ==
  (IF args.proc_only THEN <<>> ELSE <<"functional">>)
    \o (IF args.core_type = Empty THEN <<>> ELSE <<args.core_type>>)

EndOfOptions ==
  /\ step = "options" /\ line = <<>>
  /\ \/ Incomplete /\ Stops("failed")
     \/ /\ ~ Incomplete
        /\ cores' = Instantiated
        /\ step' = "enter"
        /\ UNCHANGED <<line, args>>
  /\ UNCHANGED <<argn, base, files, cwd, last_wd, source, sections, brk_addr, mem, log>>

--------------------------------------------------------------------------------
(* current_path(base_dir): relative to where the process is. *)
Enters(next) ==
  /\ \/ (cwd \o base) \in Dirs /\ cwd' = cwd \o base /\ step' = next
     \/ (cwd \o base) \notin Dirs /\ cwd' = cwd /\ step' = "failed"
  /\ UNCHANGED <<line, argn, base, args, files, cores, sections, brk_addr, mem, log>>

LoaderEnter == step = "enter" /\ Enters("open") /\ last_wd' = cwd /\ UNCHANGED source

LeftWhereItIs == cwd               \* mutant: the working directory is not restored

(* current_path(last_wd), on every way out of the constructor. *)
Left == last_wd

(* One of the three files cannot be opened. *)
LoaderOpen ==
  /\ step = "open"
  /\ \/ /\ Missing \in {files[cwd].bin, files[cwd].objdump, files[cwd].sp}
        /\ cwd' = Left /\ step' = "failed" /\ UNCHANGED source
     \/ /\ Missing \notin {files[cwd].bin, files[cwd].objdump, files[cwd].sp}
        /\ source' = cwd /\ step' = "scan" /\ UNCHANGED cwd
  /\ UNCHANGED <<line, argn, base, args, files, last_wd, cores, sections, brk_addr, mem, log>>

(* The function headers that are read: those of the objdump file up to     *)
(* _start.                                                                  *)
Headers(dump) ==
  {i \in DOMAIN dump : \A j \in 1 .. i - 1 : dump[j].name # "_start"}

LastHeader(dump) == dump[Max(Headers(dump))].addr   \* mutant: text_addr is set every time

(* text_addr: the first header's address; 0 means that none was seen yet. *)
TextAddr(dump) ==
  LET seen == {i \in Headers(dump) : dump[i].addr # 0}
  IN  IF seen = {} THEN 0 ELSE dump[Min(seen)].addr

StartAddr(dump) ==
  LET found == {i \in Headers(dump) : dump[i].name = "_start"}
  IN  IF found = {} THEN 0 ELSE dump[CHOOSE i \in found : TRUE].addr

(* The sections, in the order they are written: whole words of the binary,  *)
(* the stack, the jump to _start.                                           *)
JumpFirst(text, start, f) ==       \* mutant: the program may overwrite the jump
  << [addr |-> INITIAL_PC, data |-> <<Jal(start - INITIAL_PC)>>],
     [addr |-> text, data |-> f.bin],
     [addr |-> INITIAL_SP, data |-> f.sp] >>

Sections(text, start, f) ==
  << [addr |-> text, data |-> f.bin],
     [addr |-> INITIAL_SP, data |-> f.sp],
     [addr |-> INITIAL_PC, data |-> <<Jal(start - INITIAL_PC)>>] >>

LoaderScan ==
  /\ step = "scan"
  /\ LET f == files[source]
         text == TextAddr(f.objdump)
         start == StartAddr(f.objdump)
     IN  \/ /\ start = 0 \/ Len(f.sp) < MIN_STACK
            /\ step' = "failed"
            /\ UNCHANGED <<sections, brk_addr>>
         \/ /\ start # 0 /\ Len(f.sp) >= MIN_STACK
            /\ sections' = Sections(text, start, f)
            /\ brk_addr' = text + Len(f.bin)
            /\ step' = "write"
  /\ cwd' = Left
  /\ UNCHANGED <<line, argn, base, args, files, last_wd, cores, source, mem, log>>

--------------------------------------------------------------------------------
(* mem->write() of every word of section s: the last one at a word stays. *)
Place(addr, i) == (addr + i - 1) % NWORDS

Written(m, s) ==
  [w \in Words |->
     LET hits == {i \in DOMAIN s.data : Place(s.addr, i) = w}
     IN  IF hits = {} THEN m[w] ELSE s.data[Max(hits)]]

WriteSections ==
  /\ step = "write"
  /\ mem' = Written(Written(Written(mem, sections[1]), sections[2]), sections[3])
  /\ step' = "log"
  /\ UNCHANGED <<line, argn, base, args, files, cwd, last_wd, cores, source, sections,
                 brk_addr, log>>

(* The log file, which may not be writable, goes where the program began. *)
OpenLog ==
  /\ step = "log"
  /\ \/ args.log_file /\ log' = [to |-> "file", dir |-> cwd] /\ step' = "chdir"
     \/ args.log_file /\ UNCHANGED log /\ step' = "failed"
     \/ /\ ~ args.log_file /\ step' = "chdir"
        /\ log' = [log EXCEPT !.to = IF args.dump_log THEN "stdout" ELSE "none"]
  /\ UNCHANGED <<line, argn, base, args, files, cwd, last_wd, cores, source, sections,
                 brk_addr, mem>>

ChangeDir == step = "chdir" /\ Enters("run") /\ UNCHANGED <<last_wd, source>>

Next ==
  \/ Option \/ EndOfOptions
  \/ LoaderEnter \/ LoaderOpen \/ LoaderScan
  \/ WriteSections \/ OpenLog \/ ChangeDir

Spec == Init /\ [][Next]_vars

--------------------------------------------------------------------------------
(* The program's files are read from base_dir and it runs there, while its  *)
(* log file goes where VeriCross was started, though base_dir is relative   *)
(* and entered twice (loader.cpp:35, main.cpp:244).                         *)
RunsInBaseDir ==
  step = "run" => cwd = base /\ source = base /\ log.dir = <<>>

(* A run has a core, cores[0] is the functional one unless only the         *)
(* processor core is wanted, and the other, if one is asked for, is the     *)
(* last option's choice: the two are never mixed up.                        *)
CoresToRun ==
  step = "run" => /\ cores # <<>>
                  /\ (cores[1] = "functional") <=> ~ args.proc_only
                  /\ Len(cores) = 2 <=> (~ args.proc_only /\ args.core_type # Empty)
                  /\ args.core_type # Empty => cores[Len(cores)] = args.core_type

Program == files[source]

(* Whatever the sections overlap, execution enters the program by a jump to *)
(* the _start of the objdump file.                                          *)
EntryIntact ==
  step \in {"log", "chdir", "run"} =>
    \E f \in Range(Program.objdump) :
      f.name = "_start" /\ mem[INITIAL_PC % NWORDS] = Jal(f.addr - INITIAL_PC)

(* The words an image covers, of n words from addr on. *)
Covered(addr, n) == {(addr + i) % NWORDS : i \in 0 .. n - 1}

(* What is in the memory, word by word, of a program whose first function   *)
(* is not at 0, also if its parts overlap or go round the memory: at the    *)
(* entry the jump, the stack's last word for a place elsewhere, the         *)
(* program's last word for a place where neither is, and zeros in the rest. *)
(* The heap begins behind the program.                                      *)
ProgramLoaded ==
  step \in {"log", "chdir", "run"} /\ Program.objdump[1].addr # 0 =>
    LET text  == Program.objdump[1].addr
        bin   == Program.bin
        sp    == Program.sp
        entry == {INITIAL_PC % NWORDS}
        stack == Covered(INITIAL_SP, Len(sp))
    IN  /\ \A i \in DOMAIN bin :
             Place(text, i) \notin stack \cup entry /\ i + NWORDS > Len(bin) =>
               mem[Place(text, i)] = bin[i]
        /\ \A i \in DOMAIN sp :
             Place(INITIAL_SP, i) \notin entry /\ i + NWORDS > Len(sp) =>
               mem[Place(INITIAL_SP, i)] = sp[i]
        /\ \A w \in Words \ (Covered(text, Len(bin)) \cup stack \cup entry) : mem[w] = 0
        /\ brk_addr = text + Len(bin)
================================================================================
