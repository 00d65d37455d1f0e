----------------------------- MODULE Startup_proofs -----------------------------
(***************************************************************************)
(* Proofs about Startup, for all command lines, directories and files: the *)
(* types, where the program ends up running, the cores it runs on, and     *)
(* what the memory holds when it starts.                                   *)
(***************************************************************************)
EXTENDS Startup, SequenceTheorems, WellFoundedInduction, TLAPS

--------------------------------------------------------------------------------
(* Lemmas about the loader's operators.                                     *)

Zeros == [w \in Words |-> 0]

(* Two words of an image closer than the memory's size have different       *)
(* places: p and q are the quotients of the two addresses by that size.     *)
LEMMA Apart ==
  ASSUME NEW n \in Nat, NEW p \in Int, NEW q \in Int, p < q
  PROVE  n * q >= n * p + n
<1>1. q - p - 1 \in Nat
  OBVIOUS
<1>2. n * (q - p - 1) >= 0
  BY <1>1
<1>3. n * (q - p - 1) = n * q - n * p - n
  OBVIOUS
<1> QED BY <1>2, <1>3

LEMMA DistinctPlaces ==
  ASSUME NEW a \in Nat, NEW i \in Int, NEW j \in Int, 0 <= i, i < j, j < i + NWORDS
  PROVE  (a + i) % NWORDS # (a + j) % NWORDS
<1> DEFINE p == (a + i) \div NWORDS
           q == (a + j) \div NWORDS
           r == (a + i) % NWORDS
<1>1. NWORDS \in Nat /\ NWORDS > 0
  BY StartupAssumption
<1>2. SUFFICES ASSUME (a + j) % NWORDS = r PROVE FALSE
  OBVIOUS
<1>3. p \in Int /\ q \in Int /\ r \in Int
  BY <1>1
<1>4. a + i = NWORDS * p + r
  BY <1>1
<1>5. a + j = NWORDS * q + r
  BY <1>1, <1>2
<1> HIDE DEF p, q, r
<1> DEFINE np == NWORDS * p
           nq == NWORDS * q
<1>6. np \in Int /\ nq \in Int /\ nq - np = j - i
  BY <1>1, <1>3, <1>4, <1>5
<1>7. p < q => nq >= np + NWORDS
  BY <1>1, <1>3, Apart
<1>8. q < p => np >= nq + NWORDS
  BY <1>1, <1>3, Apart
<1>9. p = q => np = nq
  OBVIOUS
<1> HIDE DEF np, nq
<1> QED BY <1>1, <1>3, <1>6, <1>7, <1>8, <1>9

LEMMA CoveredIn == ASSUME NEW a \in Nat, NEW i \in Int PROVE (a + i) % NWORDS \in Words
  BY StartupAssumption DEF Words

(* A section at a. *)
IsSection(s, a, data) == s.addr = a /\ s.data = data /\ a \in Nat /\ data \in Seq(Nat)

(* A word of a section is where it is read, if there is no later one a      *)
(* whole memory on.                                                         *)
LEMMA WrittenAt ==
  ASSUME NEW m, NEW s, NEW a, NEW data, IsSection(s, a, data),
         NEW i \in DOMAIN data, i + NWORDS > Len(data)
  PROVE  Written(m, s)[Place(a, i)] = data[i]
<1>a. s.addr = a /\ s.data = data /\ a \in Nat /\ data \in Seq(Nat)
  BY DEF IsSection
<1> DEFINE w == (a + i - 1) % NWORDS
           hits == {j \in DOMAIN data : (a + j - 1) % NWORDS = w}
<1>1. i \in 1 .. Len(data) /\ DOMAIN data = 1 .. Len(data) /\ Len(data) \in Nat
  BY <1>a
<1>b. NWORDS \in Nat /\ a \in Nat /\ i - 1 \in Int /\ a + i - 1 = a + (i - 1)
  BY <1>a, <1>1, StartupAssumption
<1>2. w \in Words
  BY <1>b, CoveredIn
<1>3. i \in hits
  OBVIOUS
<1>4. ASSUME NEW j \in hits PROVE j \in Int /\ j <= i
  <2>1. j \in 1 .. Len(data) /\ (a + j - 1) % NWORDS = w
    BY <1>1
  <2>2. ASSUME i < j PROVE FALSE
    <3> DEFINE x == i - 1
               y == j - 1
    <3>1. x \in Int /\ y \in Int /\ 0 <= x /\ x < y /\ y < x + NWORDS
      BY <1>1, <1>b, <2>1, <2>2
    <3>2. a + j - 1 = a + y
      BY <1>b, <2>1
    <3>3. (a + y) % NWORDS = (a + x) % NWORDS
      BY <1>b, <2>1, <3>2
    <3> HIDE DEF x, y
    <3> QED BY <1>b, <3>1, <3>3, DistinctPlaces
  <2> QED BY <1>1, <2>1, <2>2
<1> HIDE DEF hits
<1>5. Max(hits) = i
  BY <1>1, <1>3, <1>4 DEF Max
<1>6. Written(m, s)[w] = data[Max(hits)]
  BY <1>a, <1>2, <1>3 DEF Written, Place, hits
<1> QED BY <1>5, <1>6 DEF Place

(* Nothing else changes. *)
LEMMA WrittenElse ==
  ASSUME NEW m, NEW s, NEW a, NEW data, IsSection(s, a, data),
         NEW w \in Words,
         w \notin Covered(a, Len(data))
  PROVE  Written(m, s)[w] = m[w]
<1>a. s.addr = a /\ s.data = data /\ a \in Nat /\ data \in Seq(Nat)
  BY DEF IsSection
<1>1. ASSUME NEW i \in DOMAIN data, (a + i - 1) % NWORDS = w
      PROVE  FALSE
  <2>1. i - 1 \in 0 .. Len(data) - 1 /\ a + i - 1 = a + (i - 1)
    BY <1>a
  <2> QED BY <1>1, <2>1 DEF Covered
<1>2. {i \in DOMAIN data : (a + i - 1) % NWORDS = w} = {}
  BY <1>1
<1> QED BY <1>a, <1>2 DEF Written, Place

(* The least and the greatest of some numbers are among them. *)
Less == {ss \in Nat \X Nat : ss[1] < ss[2]}

LEMMA Least ==
  ASSUME NEW T \in SUBSET Nat, T # {}
  PROVE  Min(T) \in T /\ \A y \in T : Min(T) <= y
<1>1. IsWellFoundedOn(Less, Nat)
  BY NatLessThanWellFounded DEF OpToRel, Less
<1>2. ASSUME NEW x \in Nat, NEW y \in Nat, y < x PROVE <<y, x>> \in Less
  BY <1>2 DEF Less
<1>3. PICK x \in T : \A y \in T : ~ (<<y, x>> \in Less)
  BY <1>1, WFMin
<1>4. ASSUME NEW y \in T PROVE x <= y
  <2>1. x \in Nat /\ y \in Nat /\ ~ (<<y, x>> \in Less)
    BY <1>3
  <2>2. ~ (y < x)
    BY <1>2, <2>1
  <2> QED BY <2>1, <2>2
<1> QED BY <1>4 DEF Min

LEMMA Greatest ==
  ASSUME NEW n \in Nat, NEW T \in SUBSET (0 .. n), T # {}
  PROVE  Max(T) \in T
<1> DEFINE U == {n - x : x \in T}
<1>1. U \subseteq Nat
  <2>1. ASSUME NEW x \in T PROVE n - x \in Nat
    <3>1. x \in 0 .. n
      OBVIOUS
    <3> QED BY <3>1
  <2> QED BY <2>1
<1>2. U # {}
  OBVIOUS
<1>3. \A x \in T : n - x \in U
  OBVIOUS
<1>4. \A u \in U : \E x \in T : u = n - x
  OBVIOUS
<1> HIDE DEF U
<1>5. Min(U) \in U /\ \A y \in U : Min(U) <= y
  BY <1>1, <1>2, Least
<1>6. PICK x \in T : Min(U) = n - x
  BY <1>4, <1>5
<1>7. ASSUME NEW y \in T PROVE x >= y
  <2>1. n - x <= n - y
    BY <1>3, <1>5, <1>6
  <2>2. x \in 0 .. n /\ y \in 0 .. n
    OBVIOUS
  <2> QED BY <2>1, <2>2
<1> QED BY <1>7 DEF Max

(* Memory and section hold numbers, so does the memory with the section. *)
LEMMA WrittenType ==
  ASSUME NEW m \in [Words -> Nat], NEW s, NEW a, NEW data, IsSection(s, a, data)
  PROVE  Written(m, s) \in [Words -> Nat]
<1>1. s.data = data /\ data \in Seq(Nat) /\ Len(data) \in Nat /\ DOMAIN data = 1 .. Len(data)
  BY DEF IsSection
<1>2. \A i \in DOMAIN data : data[i] \in Nat
  BY <1>1
<1>3. ASSUME NEW w \in Words PROVE Written(m, s)[w] \in Nat
  <2> DEFINE hits == {i \in DOMAIN data : Place(s.addr, i) = w}
  <2>1. hits \in SUBSET (0 .. Len(data)) /\ hits \subseteq DOMAIN data
    BY <1>1
  <2>2. Written(m, s)[w] = IF hits = {} THEN m[w] ELSE data[Max(hits)]
    BY <1>1 DEF Written
  <2> HIDE DEF hits
  <2>3. hits # {} => Max(hits) \in hits
    BY <1>1, <2>1, Greatest
  <2> QED BY <1>2, <2>1, <2>2, <2>3
<1>4. Written(m, s) = [w \in Words |-> Written(m, s)[w]]
  BY DEF Written
<1> QED BY <1>3, <1>4

(* text_addr is the first header's address, if that is not 0. *)
LEMMA TextAddrFirst ==
  ASSUME NEW dump, 1 \in DOMAIN dump, DOMAIN dump \subseteq Nat \ {0}, dump[1].addr # 0
  PROVE  TextAddr(dump) = dump[1].addr
<1> DEFINE seen == {i \in Headers(dump) : dump[i].addr # 0}
<1>1. 1 \in seen /\ \A i \in seen : i \in Nat /\ 1 <= i
  BY DEF Headers
<1>2. Min(seen) = 1
  BY <1>1 DEF Min
<1> QED BY <1>1, <1>2 DEF TextAddr

LEMMA TextAddrType ==
  ASSUME NEW dump \in Seq([name : STRING, addr : Nat])
  PROVE  TextAddr(dump) \in Nat
<1> DEFINE seen == {i \in Headers(dump) : dump[i].addr # 0}
           H == [name : STRING, addr : Nat]
<1>1. DOMAIN dump \subseteq Nat
  OBVIOUS
<1>2. \A i \in DOMAIN dump : dump[i] \in H
  <2> HIDE DEF H
  <2>1. dump \in Seq(H)
    BY DEF H
  <2> QED BY <2>1
<1>3. seen \in SUBSET Nat /\ seen \subseteq DOMAIN dump
  BY <1>1 DEF Headers
<1>4. TextAddr(dump) = IF seen = {} THEN 0 ELSE dump[Min(seen)].addr
  BY DEF TextAddr
<1> HIDE DEF seen
<1>5. seen # {} => Min(seen) \in DOMAIN dump
  BY <1>3, Least
<1> QED BY <1>2, <1>4, <1>5

(* The address the loader jumps to is that of a header named _start. *)
LEMMA StartAddrHeader ==
  ASSUME NEW dump, StartAddr(dump) # 0
  PROVE  \E i \in DOMAIN dump : dump[i].name = "_start" /\ StartAddr(dump) = dump[i].addr
<1> DEFINE found == {i \in Headers(dump) : dump[i].name = "_start"}
<1>1. found # {} /\ StartAddr(dump) = dump[CHOOSE i \in found : TRUE].addr
  BY DEF StartAddr
<1>2. (CHOOSE i \in found : TRUE) \in found
  BY <1>1
<1> QED BY <1>1, <1>2 DEF Headers

--------------------------------------------------------------------------------
(* The inductive invariant.  What is read is of its type; after checkarg    *)
(* the cores are those asked for; the working directory goes to base_dir    *)
(* and back, in the Loader, and there again; the memory is empty until the  *)
(* sections, which the scan computes from the program's files, are written. *)
Read ==
  /\ line \in Seq(Given) /\ base \in BaseDirs /\ files \in Disks
  /\ log \in [to : {"none", "stdout", "file"}, dir : {<<>>}]

Chosen ==
  step \notin {"options", "failed", "done"} => ~ Incomplete /\ cores = Instantiated

Places ==
  /\ last_wd = <<>>
  /\ step \in {"options", "enter", "write", "log", "chdir"} => cwd = <<>>
  /\ step \in {"open", "scan", "run"} => cwd = base
  /\ step \in {"scan", "write", "log", "chdir", "run"} =>
       source = base /\ base \in Dirs /\ Missing \notin {Program.bin, Program.objdump, Program.sp}

Text  == TextAddr(Program.objdump)
Start == StartAddr(Program.objdump)

Image ==
  Written(Written(Written(Zeros, Sections(Text, Start, Program)[1]),
                  Sections(Text, Start, Program)[2]),
          Sections(Text, Start, Program)[3])

Loaded ==
  /\ step \in {"options", "enter", "open", "scan", "write"} => mem = Zeros
  /\ step \in {"write", "log", "chdir", "run"} =>
       /\ Start # 0
       /\ sections = Sections(Text, Start, Program)
       /\ brk_addr = Text + Len(Program.bin)
  /\ step \in {"log", "chdir", "run"} => mem = Image

IInv == TypeOK /\ Read /\ Chosen /\ Places /\ Loaded

Section == [addr : Nat, data : Seq(Nat)]

(* What the program is read from, once its files have been found.           *)
LEMMA FilesType ==
  ASSUME Read, Places, step \in {"scan", "write", "log", "chdir", "run"}
  PROVE  /\ Program.bin \in Seq(Nat) /\ Program.sp \in Seq(Nat)
         /\ Program.objdump \in Seq([name : STRING, addr : Nat])
         /\ Text \in Nat
         /\ Start # 0 => Jal(Start - INITIAL_PC) \in Nat
<1>1. files \in Disks /\ source \in Dirs /\ Missing \notin {Program.bin, Program.objdump, Program.sp}
  BY DEF Read, Places
<1>2. /\ Program.bin \in Seq(Nat) /\ Program.sp \in Seq(Nat)
      /\ Program.objdump \in Seq([name : STRING, addr : Nat])
  BY <1>1, FilesAssumption DEF Program
<1>3. Text \in Nat
  BY <1>2, TextAddrType DEF Text
<1>4. ASSUME Start # 0 PROVE Jal(Start - INITIAL_PC) \in Nat
  <2>1. PICK i \in DOMAIN Program.objdump : Start = Program.objdump[i].addr
    BY <1>4, StartAddrHeader DEF Start
  <2>2. Jal(Program.objdump[i].addr - INITIAL_PC) \in Nat
    BY <1>1, JalAssumption DEF Program
  <2> QED BY <2>1, <2>2
<1> QED BY <1>2, <1>3, <1>4

(* The three sections are of their type, and so is the memory with them.    *)
LEMMA SectionsType ==
  ASSUME Read, Places, step \in {"scan", "write", "log", "chdir", "run"}, Start # 0
  PROVE  /\ IsSection(Sections(Text, Start, Program)[1], Text, Program.bin)
         /\ IsSection(Sections(Text, Start, Program)[2], INITIAL_SP, Program.sp)
         /\ IsSection(Sections(Text, Start, Program)[3], INITIAL_PC, <<Jal(Start - INITIAL_PC)>>)
         /\ Sections(Text, Start, Program) \in Seq(Section)
         /\ Len(Sections(Text, Start, Program)) = 3
         /\ Text + Len(Program.bin) \in Nat
<1> DEFINE J == <<Jal(Start - INITIAL_PC)>>
           s1 == [addr |-> Text, data |-> Program.bin]
           s2 == [addr |-> INITIAL_SP, data |-> Program.sp]
           s3 == [addr |-> INITIAL_PC, data |-> J]
<1>1. /\ Program.bin \in Seq(Nat) /\ Program.sp \in Seq(Nat) /\ Text \in Nat
      /\ Jal(Start - INITIAL_PC) \in Nat
  BY FilesType
<1>2. INITIAL_SP \in Nat /\ INITIAL_PC \in Nat
  BY StartupAssumption
<1>3. J \in Seq(Nat) /\ Len(Program.bin) \in Nat
  BY <1>1
<1>4. Sections(Text, Start, Program) = <<s1, s2, s3>>
  BY DEF Sections
<1> HIDE DEF J
<1>5. s1 \in Section /\ s2 \in Section /\ s3 \in Section
  BY <1>1, <1>2, <1>3 DEF Section
<1>6. IsSection(s1, Text, Program.bin) /\ IsSection(s2, INITIAL_SP, Program.sp)
        /\ IsSection(s3, INITIAL_PC, J)
  BY <1>1, <1>2, <1>3 DEF IsSection
<1> HIDE DEF s1, s2, s3
<1>7. <<s1, s2, s3>> \in Seq(Section) /\ Len(<<s1, s2, s3>>) = 3
  BY <1>5
<1> QED BY <1>1, <1>3, <1>4, <1>6, <1>7 DEF J

LEMMA ImageType ==
  ASSUME Read, Places, step \in {"scan", "write", "log", "chdir", "run"}, Start # 0
  PROVE  Image \in [Words -> Nat]
<1> DEFINE s1 == Sections(Text, Start, Program)[1]
           s2 == Sections(Text, Start, Program)[2]
           s3 == Sections(Text, Start, Program)[3]
<1>1. /\ IsSection(s1, Text, Program.bin) /\ IsSection(s2, INITIAL_SP, Program.sp)
      /\ IsSection(s3, INITIAL_PC, <<Jal(Start - INITIAL_PC)>>)
  BY SectionsType
<1>2. Zeros \in [Words -> Nat]
  BY DEF Zeros
<1> HIDE DEF s1, s2, s3
<1>3. Written(Zeros, s1) \in [Words -> Nat]
  BY <1>1, <1>2, WrittenType
<1>4. Written(Written(Zeros, s1), s2) \in [Words -> Nat]
  BY <1>1, <1>3, WrittenType
<1>5. Written(Written(Written(Zeros, s1), s2), s3) \in [Words -> Nat]
  BY <1>1, <1>4, WrittenType
<1> QED BY <1>5 DEF Image, s1, s2, s3

LEMMA InitIInv == Init => IInv
<1> SUFFICES ASSUME Init PROVE IInv
  OBVIOUS
<1>1. <<>> \in Dirs /\ LIMITS \in Nat /\ LIMITS > 0 /\ line \in Seq(Given)
  BY StartupAssumption, OptionsAssumption DEF Init
<1>2. args.max_insts \in 0 .. LIMITS - 1
  BY <1>1 DEF Init
<1>3. cores \in BoundedSeq(known_cores \cup {"functional"}, 2)
  BY DEF Init, BoundedSeq, SeqOf
<1>4. /\ sections \in Seq([addr : Nat, data : Seq(Nat)]) /\ Len(sections) = 0
      /\ mem \in [Words -> Nat]
  BY DEF Init
<1>5. TypeOK
  BY <1>1, <1>2, <1>3, <1>4 DEF Init, TypeOK
<1>6. Read /\ Chosen /\ Places /\ Loaded
  BY <1>1 DEF Init, Read, Chosen, Places, Loaded, Zeros
<1> QED BY <1>5, <1>6 DEF IInv

(* The last option's argument is in order. *)
LEMMA OptionAccepted ==
  ASSUME TypeOK, NEW g \in Given, ~ Refused(g[1], g[2]), g[1] \notin {"list-core", "version"}
  PROVE  Accepted(g[1], g[2]) \in
           [dump_log : BOOLEAN, log_file : BOOLEAN, proc_only : BOOLEAN,
            core_type : known_cores \cup {Empty}, max_insts : 0 .. LIMITS - 1,
            mismatch_insts : Nat]
<1>1. CASE g \in {"core", "logfile"} \X STRING
  BY <1>1 DEF Refused, Accepted, TypeOK
<1>2. CASE g \in {"instruction"} \X [digits : Int, suffix : STRING]
  <2>1. g[1] = "instruction" /\ g[2].digits \in Nat /\ g[2].suffix \in DOMAIN Scale
    BY <1>2 DEF Refused
  <2>2. Scale[g[2].suffix] \in Nat
    BY <2>1 DEF Scale
  <2>3. Parsed(g[2]) \in 0 .. LIMITS - 1
    <3>1. LIMITS \in Nat /\ LIMITS > 0 /\ LLONG_MAX \in Int
      BY StartupAssumption DEF LLONG_MAX
    <3>2. Digits(g[2]) \in Int
      BY <2>1, <3>1 DEF Digits
    <3>3. Digits(g[2]) * Scale[g[2].suffix] \in Int
      BY <2>2, <3>2
    <3> QED BY <3>1, <3>3 DEF Parsed
  <2>4. Accepted(g[1], g[2]) = [args EXCEPT !.max_insts = Parsed(g[2])]
    BY <2>1 DEF Accepted
  <2> QED BY <2>3, <2>4 DEF TypeOK
<1>3. CASE g \in {"mismatch"} \X Int
  <2>1. g[1] = "mismatch" /\ g[2] \in Nat
    BY <1>3 DEF Refused
  <2>2. Accepted(g[1], g[2]) = [args EXCEPT !.mismatch_insts = g[2]]
    BY <2>1 DEF Accepted
  <2> QED BY <2>1, <2>2 DEF TypeOK
<1>4. CASE g \in {"p", "l", "list-core", "version", "?"} \X {Empty}
  BY <1>4 DEF Refused, Accepted, TypeOK
<1> QED BY <1>1, <1>2, <1>3, <1>4 DEF Given

LEMMA PairIs == ASSUME NEW c, NEW d PROVE <<c>> \o <<d>> = <<c, d>>
<1> DEFINE s == <<c>>
           t == <<d>>
           u == s \o t
           S == {c, d}
<1>1. s \in Seq(S) /\ t \in Seq(S) /\ Len(s) = 1 /\ Len(t) = 1 /\ s[1] = c /\ t[1] = d
  OBVIOUS
<1> HIDE DEF s, t
<1>2. /\ u \in Seq(S) /\ Len(u) = Len(s) + Len(t)
      /\ \A i \in 1 .. Len(s) + Len(t) : u[i] = IF i <= Len(s) THEN s[i] ELSE t[i - Len(s)]
  BY <1>1, ConcatProperties
<1> HIDE DEF u
<1>3. u \in Seq(S) /\ Len(u) = 2 /\ u[1] = c /\ u[2] = d
  BY <1>1, <1>2
<1>4. u = <<c, d>>
  BY <1>3
<1> QED BY <1>4 DEF s, t, u

(* The cores that can be asked for. *)
LEMMA InstantiatedIs ==
  ASSUME TypeOK
  PROVE  /\ args.proc_only /\ args.core_type = Empty => Instantiated = <<>>
         /\ args.proc_only /\ args.core_type # Empty => Instantiated = <<args.core_type>>
         /\ ~ args.proc_only /\ args.core_type = Empty => Instantiated = <<"functional">>
         /\ ~ args.proc_only /\ args.core_type # Empty =>
              Instantiated = <<"functional", args.core_type>>
<1>1. \A c : <<>> \o <<c>> = <<c>> /\ <<c>> \o <<>> = <<c>>
  OBVIOUS
<1>2. <<>> \o <<>> = <<>> /\ \A c, d : <<c>> \o <<d>> = <<c, d>>
  BY PairIs
<1>3. args.proc_only \in BOOLEAN
  BY DEF TypeOK
<1> QED BY <1>1, <1>2, <1>3, Zenon DEF Instantiated

LEMMA InstantiatedType ==
  ASSUME TypeOK
  PROVE  Instantiated \in BoundedSeq(known_cores \cup {"functional"}, 2)
<1> DEFINE S == known_cores \cup {"functional"}
<1>1. args.core_type # Empty => args.core_type \in S
  BY DEF TypeOK
<1>2. <<>> \in [1 .. 0 -> S] /\ <<"functional">> \in [1 .. 1 -> S]
  OBVIOUS
<1>3. args.core_type # Empty =>
        <<args.core_type>> \in [1 .. 1 -> S] /\ <<"functional", args.core_type>> \in [1 .. 2 -> S]
  BY <1>1
<1> HIDE DEF S
<1>4. [1 .. 0 -> S] \cup [1 .. 1 -> S] \cup [1 .. 2 -> S] \subseteq BoundedSeq(S, 2)
  BY DEF BoundedSeq, SeqOf
<1>5. args.proc_only \in BOOLEAN
  BY DEF TypeOK
<1>6. Instantiated \in [1 .. 0 -> S] \cup [1 .. 1 -> S] \cup [1 .. 2 -> S]
  BY <1>2, <1>3, <1>5, InstantiatedIs, Zenon
<1>7. Instantiated \in BoundedSeq(S, 2)
  BY <1>4, <1>6
<1> QED BY <1>7 DEF S

LEMMA StepIInv == IInv /\ [Next]_vars => IInv'
<1> SUFFICES ASSUME IInv, [Next]_vars PROVE IInv'
  OBVIOUS
<1> USE DEF IInv
<1>1. CASE Option
  <2>1. line' \in Seq(Given) /\ UNCHANGED <<argn, base, files, cwd, last_wd, cores, source, sections, brk_addr, mem, log>>
    <3>1. UNCHANGED <<argn, base, files, cwd, last_wd, cores, source, sections, brk_addr, mem, log>>
      BY <1>1 DEF Option, Stops
    <3>2. line # <<>> /\ (line' = line \/ line' = Tail(line))
      BY <1>1 DEF Option, Stops
    <3>3. line \in Seq(Given)
      BY DEF Read
    <3> HIDE DEF IInv
    <3>4. line # <<>> => Tail(line) \in Seq(Given)
      BY <3>3
    <3> QED BY <3>1, <3>2, <3>3, <3>4
  <2>2. step = "options" /\ step' \in {"options", "failed", "done"}
    BY <1>1 DEF Option, Stops
  <2>3. args' \in [dump_log : BOOLEAN, log_file : BOOLEAN, proc_only : BOOLEAN,
                   core_type : known_cores \cup {Empty}, max_insts : 0 .. LIMITS - 1,
                   mismatch_insts : Nat]
    <3>1. CASE args' = args
      BY <3>1 DEF TypeOK
    <3>2. CASE args' # args
      <4> DEFINE g == Head(line)
      <4>1. g \in Given
        BY <1>1 DEF Option, Read
      <4>2. ~ Refused(g[1], g[2]) /\ g[1] \notin {"list-core", "version"}
              /\ args' = Accepted(g[1], g[2])
        BY <1>1, <3>2 DEF Option, Stops
      <4> QED BY <4>1, <4>2, OptionAccepted
    <3> QED BY <3>1, <3>2
  <2>4. TypeOK'
    BY <2>1, <2>2, <2>3 DEF TypeOK
  <2> QED BY <2>1, <2>2, <2>4 DEF Read, Chosen, Places, Loaded, Zeros
<1>2. CASE EndOfOptions
  <2>1. /\ step = "options" /\ step' \in {"failed", "enter"}
        /\ step' = "failed" => cores' = cores
        /\ step' = "enter" => ~ Incomplete /\ cores' = Instantiated
        /\ UNCHANGED <<line, args, argn, base, files, cwd, last_wd, source, sections, brk_addr, mem, log>>
    BY <1>2 DEF EndOfOptions, Stops
  <2>2. TypeOK'
    BY <2>1, InstantiatedType DEF TypeOK
  <2>3. Chosen'
    BY <2>1 DEF Chosen, Incomplete, Instantiated
  <2> QED BY <2>1, <2>2, <2>3 DEF Read, Places, Loaded, Zeros
<1>3. CASE LoaderEnter
  <2>1. /\ step = "enter" /\ step' \in {"open", "failed"} /\ last_wd' = cwd
        /\ step' = "open" => cwd' = cwd \o base /\ cwd' \in Dirs
        /\ step' = "failed" => cwd' = cwd
        /\ UNCHANGED <<line, argn, base, args, files, cores, source, sections, brk_addr, mem, log>>
    BY <1>3 DEF LoaderEnter, Enters
  <2>2. cwd = <<>> /\ cwd \o base = base
    BY <2>1, StartupAssumption DEF Places, Read
  <2>3. TypeOK'
    BY <2>1 DEF TypeOK
  <2> QED BY <2>1, <2>2, <2>3 DEF Read, Chosen, Incomplete, Instantiated, Places, Loaded, Zeros
<1>4. CASE LoaderOpen
  <2>1. /\ step = "open" /\ step' \in {"scan", "failed"}
        /\ step' = "scan" =>
             /\ Missing \notin {files[cwd].bin, files[cwd].objdump, files[cwd].sp}
             /\ source' = cwd /\ cwd' = cwd
        /\ step' = "failed" => cwd' = last_wd /\ source' = source
        /\ UNCHANGED <<line, argn, base, args, files, last_wd, cores, sections, brk_addr, mem, log>>
    BY <1>4 DEF LoaderOpen, Left
  <2>2. TypeOK'
    BY <2>1 DEF TypeOK
  <2>3. cwd = base /\ base \in Dirs
    BY <2>1 DEF Places, TypeOK
  <2> QED BY <2>1, <2>2, <2>3 DEF Read, Chosen, Incomplete, Instantiated, Places, Program, Loaded, Zeros
<1>5. CASE LoaderScan
  <2>1. /\ step = "scan" /\ step' \in {"write", "failed"} /\ cwd' = last_wd
        /\ step' = "write" =>
             /\ Start # 0
             /\ sections' = Sections(Text, Start, Program)
             /\ brk_addr' = Text + Len(Program.bin)
        /\ UNCHANGED <<line, argn, base, args, files, last_wd, cores, source, mem, log>>
    BY <1>5 DEF LoaderScan, Left, Text, Start, Program
  <2>2. TypeOK'
    <3>1. CASE step' = "write"
      <4>1. Start # 0 /\ sections' = Sections(Text, Start, Program)
            /\ brk_addr' = Text + Len(Program.bin)
        BY <2>1, <3>1
      <4>2. /\ sections' \in Seq([addr : Nat, data : Seq(Nat)]) /\ Len(sections') = 3
            /\ brk_addr' \in Nat
        BY <2>1, <4>1, SectionsType DEF Section
      <4> QED BY <2>1, <3>1, <4>2 DEF TypeOK
    <3>2. CASE step' = "failed"
      <4>1. UNCHANGED <<sections, brk_addr>>
        BY <1>5, <3>2 DEF LoaderScan
      <4> QED BY <2>1, <3>2, <4>1 DEF TypeOK
    <3> QED BY <2>1, <3>1, <3>2
  <2>3. Text' = Text /\ Start' = Start /\ Program' = Program
    BY <2>1 DEF Text, Start, Program
  <2>4. Places'
    BY <2>1, <2>3 DEF Places
  <2>5. Loaded'
    BY <2>1, <2>3 DEF Loaded, Zeros
  <2> QED BY <2>1, <2>2, <2>4, <2>5 DEF Read, Chosen, Incomplete, Instantiated
<1>6. CASE WriteSections
  <2>1. /\ step = "write" /\ step' = "log"
        /\ UNCHANGED <<line, argn, base, args, files, cwd, last_wd, cores, source, sections, brk_addr, log>>
    BY <1>6 DEF WriteSections
  <2>2. Text' = Text /\ Start' = Start /\ Program' = Program
    BY <2>1 DEF Text, Start, Program
  <2>3. mem' = Image
    BY <1>6, <2>1 DEF WriteSections, Loaded, Image
  <2>4. Image' = Image
    BY <2>2 DEF Image, Zeros
  <2>5. Loaded'
    BY <2>1, <2>2, <2>3, <2>4 DEF Loaded
  <2>6. mem' \in [Words -> Nat]
    <3>1. Start # 0
      BY <2>1 DEF Loaded
    <3> QED BY <2>1, <2>3, <3>1, ImageType
  <2>7. TypeOK'
    BY <2>1, <2>6 DEF TypeOK
  <2> QED BY <2>1, <2>2, <2>5, <2>7 DEF Read, Chosen, Incomplete, Instantiated, Places
<1>7. CASE OpenLog
  <2>1. /\ step = "log" /\ step' \in {"chdir", "failed"}
        /\ UNCHANGED <<line, argn, base, args, files, cwd, last_wd, cores, source, sections, brk_addr, mem>>
    BY <1>7 DEF OpenLog
  <2>2. log' \in [to : {"none", "stdout", "file"}, dir : {<<>>}]
    BY <1>7, <2>1 DEF OpenLog, Read, Places
  <2>3. Text' = Text /\ Start' = Start /\ Program' = Program
    BY <2>1 DEF Text, Start, Program
  <2>4. Image' = Image
    BY <2>3 DEF Image, Zeros
  <2>5. Loaded'
    BY <2>1, <2>3, <2>4 DEF Loaded
  <2>6. log' \in [to : {"none", "stdout", "file"}, dir : Dirs]
    BY <2>2, StartupAssumption
  <2>7. TypeOK'
    BY <2>1, <2>6 DEF TypeOK
  <2> QED BY <2>1, <2>2, <2>3, <2>5, <2>7 DEF Read, Chosen, Incomplete, Instantiated, Places
<1>8. CASE ChangeDir
  <2>1. /\ step = "chdir" /\ step' \in {"run", "failed"}
        /\ step' = "run" => cwd' = cwd \o base /\ cwd' \in Dirs
        /\ step' = "failed" => cwd' = cwd
        /\ UNCHANGED <<line, argn, base, args, files, last_wd, cores, source, sections, brk_addr, mem, log>>
    BY <1>8 DEF ChangeDir, Enters
  <2>2. cwd = <<>> /\ cwd \o base = base
    BY <2>1, StartupAssumption DEF Places, Read
  <2>3. Text' = Text /\ Start' = Start /\ Program' = Program
    BY <2>1 DEF Text, Start, Program
  <2>4. Image' = Image
    BY <2>3 DEF Image, Zeros
  <2>5. Loaded'
    BY <2>1, <2>3, <2>4 DEF Loaded
  <2> QED BY <2>1, <2>2, <2>3, <2>5 DEF TypeOK, Read, Chosen, Incomplete, Instantiated, Places
<1>9. CASE UNCHANGED vars
  <2>1. UNCHANGED <<line, argn, base, args, files, cwd, last_wd, cores, source, sections, brk_addr, mem, log, step>>
    BY <1>9 DEF vars
  <2>2. Text' = Text /\ Start' = Start /\ Program' = Program
    BY <2>1 DEF Text, Start, Program
  <2>3. Image' = Image
    BY <2>2 DEF Image, Zeros
  <2>4. Loaded'
    BY <2>1, <2>2, <2>3 DEF Loaded
  <2> QED BY <2>1, <2>2, <2>4 DEF TypeOK, Read, Chosen, Incomplete, Instantiated, Places
<1> QED BY <1>1, <1>2, <1>3, <1>4, <1>5, <1>6, <1>7, <1>8, <1>9 DEF Next

LEMMA Invariance == Spec => []IInv
<1> QED BY InitIInv, StepIInv, PTL DEF Spec

(* The limit is cut to its 64 bits, a core that is not known is never       *)
(* chosen, there are at most two cores; the sections are none or three, and *)
(* the memory holds a number at each of its words, whatever they overlap.   *)
THEOREM TypeCorrect == Spec => []TypeOK
<1>1. IInv => TypeOK
  BY DEF IInv
<1> QED BY <1>1, Invariance, PTL

(* The working directory is base_dir when the program starts, the files     *)
(* were read from there, and the log file is opened where VeriCross was     *)
(* started, for every directory tree and every base_dir.                    *)
THEOREM RunsWhereItWasRead == Spec => []RunsInBaseDir
<1>1. IInv => RunsInBaseDir
  BY DEF IInv, Read, Places, RunsInBaseDir
<1> QED BY <1>1, Invariance, PTL

(* A run has the cores that the command line asks for, in that order.       *)
THEOREM CoresAsAsked == Spec => []CoresToRun
<1>1. ASSUME IInv PROVE CoresToRun
  <2>1. SUFFICES ASSUME step = "run"
                 PROVE  /\ cores # <<>>
                        /\ (cores[1] = "functional") <=> ~ args.proc_only
                        /\ Len(cores) = 2 <=> (~ args.proc_only /\ args.core_type # Empty)
                        /\ args.core_type # Empty => cores[Len(cores)] = args.core_type
    BY DEF CoresToRun
  <2>2. TypeOK /\ ~ Incomplete /\ cores = Instantiated
    BY <1>1, <2>1 DEF IInv, Chosen
  <2>3. args.proc_only \in BOOLEAN /\ args.core_type \in known_cores \cup {Empty}
    BY <2>2 DEF TypeOK
  <2>4. CASE args.proc_only
    <3>1. args.core_type # Empty /\ cores = <<args.core_type>>
      BY <2>2, <2>4, InstantiatedIs DEF Incomplete
    <3>2. args.core_type # "functional"
      BY <2>3, <3>1 DEF known_cores
    <3> QED BY <2>4, <3>1, <3>2
  <2>5. CASE ~ args.proc_only /\ args.core_type = Empty
    <3>1. cores = <<"functional">>
      BY <2>2, <2>5, InstantiatedIs
    <3> QED BY <2>5, <3>1
  <2>6. CASE ~ args.proc_only /\ args.core_type # Empty
    <3>1. cores = <<"functional", args.core_type>>
      BY <2>2, <2>6, InstantiatedIs
    <3> QED BY <2>6, <3>1
  <2> QED BY <2>3, <2>4, <2>5, <2>6
<1> QED BY <1>1, Invariance, PTL

--------------------------------------------------------------------------------
(* What is in the memory.                                                   *)

(* The memory is that of the files the program was read from.               *)
LEMMA ProgramType ==
  ASSUME IInv, step \in {"log", "chdir", "run"}
  PROVE  /\ Program.bin \in Seq(Nat) /\ Program.sp \in Seq(Nat)
         /\ Program.objdump \in Seq([name : STRING, addr : Nat])
         /\ mem = Image /\ Start # 0 /\ brk_addr = Text + Len(Program.bin)
         /\ Jal(Start - INITIAL_PC) \in Nat
<1>1. mem = Image /\ Start # 0 /\ brk_addr = Text + Len(Program.bin)
  BY DEF IInv, Loaded
<1> QED BY <1>1, FilesType DEF IInv

(* The jump is written last: nothing the sections hold can replace it.      *)
THEOREM EntryJumpsToStart == Spec => []EntryIntact
<1>1. ASSUME IInv PROVE EntryIntact
  <2>1. SUFFICES ASSUME step \in {"log", "chdir", "run"}
                 PROVE  \E f \in Range(Program.objdump) :
                          f.name = "_start" /\ mem[INITIAL_PC % NWORDS] = Jal(f.addr - INITIAL_PC)
    BY DEF EntryIntact
  <2>2. PICK i \in DOMAIN Program.objdump :
          Program.objdump[i].name = "_start" /\ Start = Program.objdump[i].addr
    BY <1>1, <2>1, ProgramType, StartAddrHeader DEF Start
  <2> DEFINE m == Written(Written(Zeros, Sections(Text, Start, Program)[1]),
                          Sections(Text, Start, Program)[2])
             d == Jal(Start - INITIAL_PC)
             J == <<d>>
             s == [addr |-> INITIAL_PC, data |-> J]
  <2>3. mem = Written(m, s)
    BY <1>1, <2>1, ProgramType DEF Image, Sections
  <2>4. J \in Seq(Nat) /\ Len(J) = 1 /\ 1 \in DOMAIN J /\ J[1] = d
    BY <1>1, <2>1, ProgramType
  <2>5. NWORDS \in Nat /\ NWORDS > 0 /\ INITIAL_PC \in Nat
    BY StartupAssumption
  <2>6. IsSection(s, INITIAL_PC, J)
    BY <2>4, <2>5 DEF IsSection
  <2> HIDE DEF m, d, J, s
  <2>7. 1 \in DOMAIN J /\ 1 + NWORDS > Len(J)
    BY <2>4, <2>5
  <2>8. Written(m, s)[Place(INITIAL_PC, 1)] = J[1]
    BY <2>6, <2>7, WrittenAt
  <2>9. Place(INITIAL_PC, 1) = INITIAL_PC % NWORDS
    BY <2>5 DEF Place
  <2>10. mem[INITIAL_PC % NWORDS] = Jal(Start - INITIAL_PC)
    BY <2>3, <2>4, <2>8, <2>9 DEF d
  <2> QED BY <2>2, <2>10 DEF Range
<1> QED BY <1>1, Invariance, PTL

(* Of every program whose first function is not at 0 each word of the memory *)
(* is known: the last one that the sections, in their order, put there.      *)
THEOREM LoadedAsLinked == Spec => []ProgramLoaded
<1>1. ASSUME IInv PROVE ProgramLoaded
  <2> DEFINE text == Program.objdump[1].addr
             bin == Program.bin
             sp == Program.sp
             J == <<Jal(Start - INITIAL_PC)>>
             s1 == [addr |-> text, data |-> bin]
             s2 == [addr |-> INITIAL_SP, data |-> sp]
             s3 == [addr |-> INITIAL_PC, data |-> J]
             m1 == Written(Zeros, s1)
             m2 == Written(m1, s2)
             T == Covered(text, Len(bin))
             S == Covered(INITIAL_SP, Len(sp))
             e == INITIAL_PC % NWORDS
  <2>1. SUFFICES ASSUME step \in {"log", "chdir", "run"}, text # 0
                 PROVE  /\ \A i \in DOMAIN bin :
                             Place(text, i) \notin S \cup {e} /\ i + NWORDS > Len(bin) =>
                               mem[Place(text, i)] = bin[i]
                        /\ \A i \in DOMAIN sp :
                             Place(INITIAL_SP, i) \notin {e} /\ i + NWORDS > Len(sp) =>
                               mem[Place(INITIAL_SP, i)] = sp[i]
                        /\ \A w \in Words \ (T \cup S \cup {e}) : mem[w] = 0
                        /\ brk_addr = text + Len(bin)
    BY DEF ProgramLoaded
  <2>2. /\ bin \in Seq(Nat) /\ sp \in Seq(Nat)
        /\ Program.objdump \in Seq([name : STRING, addr : Nat])
        /\ mem = Image /\ Start # 0 /\ brk_addr = Text + Len(bin)
        /\ Jal(Start - INITIAL_PC) \in Nat
    BY <1>1, <2>1, ProgramType
  <2>3. 1 \in DOMAIN Program.objdump /\ DOMAIN Program.objdump \subseteq Nat \ {0}
    <3>1. \E i \in DOMAIN Program.objdump : TRUE
      BY <2>2, StartAddrHeader DEF Start
    <3> QED BY <2>2, <3>1
  <2>4. text \in Nat
    <3> DEFINE H == [name : STRING, addr : Nat]
    <3>1. Program.objdump \in Seq(H) /\ 1 \in DOMAIN Program.objdump
      BY <2>2, <2>3
    <3> HIDE DEF H
    <3>2. Program.objdump[1] \in H
      BY <3>1
    <3> QED BY <3>2 DEF H
  <2>5. Text = text
    BY <2>1, <2>3, <2>4, TextAddrFirst DEF Text
  <2>6. mem = Written(m2, s3)
    BY <2>2, <2>5 DEF Image, Sections
  <2>7. NWORDS \in Nat /\ NWORDS > 0 /\ INITIAL_PC \in Nat /\ INITIAL_SP \in Nat
    BY StartupAssumption
  <2>8. J \in Seq(Nat) /\ Len(J) = 1
    BY <2>2
  <2>9. /\ IsSection(s1, text, bin) /\ IsSection(s2, INITIAL_SP, sp)
        /\ IsSection(s3, INITIAL_PC, J)
    BY <2>2, <2>4, <2>7, <2>8 DEF IsSection
  <2>10. Covered(INITIAL_PC, 1) = {e}
    BY <2>7 DEF Covered
  <2> HIDE DEF text, bin, sp, s1, s2, s3, J, m1, m2, T, S, e
  <2>11. ASSUME NEW w \in Words, w # e PROVE mem[w] = m2[w]
    <3>1. w \notin Covered(INITIAL_PC, Len(J))
      BY <2>8, <2>10, <2>11
    <3> QED BY <2>6, <2>9, <3>1, WrittenElse
  <2>12. ASSUME NEW w \in Words, w \notin S PROVE m2[w] = m1[w]
    BY <2>9, <2>12, WrittenElse DEF m2, S
  <2>13. ASSUME NEW w \in Words, w \notin T PROVE m1[w] = 0
    BY <2>9, <2>13, WrittenElse DEF m1, T, Zeros
  <2>14. ASSUME NEW a \in Nat, NEW i \in Nat PROVE Place(a, i) \in Words
    <3>1. a + i - 1 = a + (i - 1) /\ i - 1 \in Int
      OBVIOUS
    <3> QED BY <3>1, CoveredIn DEF Place
  <2>15. ASSUME NEW i \in DOMAIN bin, Place(text, i) \notin S \cup {e}, i + NWORDS > Len(bin)
         PROVE  mem[Place(text, i)] = bin[i]
    <3>1. Place(text, i) \in Words
      BY <2>2, <2>4, <2>14
    <3>2. m1[Place(text, i)] = bin[i]
      BY <2>9, <2>15, WrittenAt DEF m1
    <3> QED BY <2>11, <2>12, <2>15, <3>1, <3>2
  <2>16. ASSUME NEW i \in DOMAIN sp, Place(INITIAL_SP, i) \notin {e}, i + NWORDS > Len(sp)
         PROVE  mem[Place(INITIAL_SP, i)] = sp[i]
    <3>1. Place(INITIAL_SP, i) \in Words
      BY <2>2, <2>7, <2>14
    <3>2. m2[Place(INITIAL_SP, i)] = sp[i]
      BY <2>9, <2>16, WrittenAt DEF m2
    <3> QED BY <2>11, <2>16, <3>1, <3>2
  <2>17. ASSUME NEW w \in Words \ (T \cup S \cup {e}) PROVE mem[w] = 0
    BY <2>11, <2>12, <2>13, <2>17
  <2>18. brk_addr = text + Len(bin)
    BY <2>2, <2>5
  <2> QED BY <2>15, <2>16, <2>17, <2>18
<1> QED BY <1>1, Invariance, PTL
================================================================================
