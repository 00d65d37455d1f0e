----------------------------- MODULE SysCall_proofs -----------------------------
(***************************************************************************)
(* The descriptors and the virtual clock, for every number of files, of    *)
(* host descriptors and of instructions.                                   *)
(*                                                                         *)
(* OwnInv is why entries of closed descriptors do no harm to a program     *)
(* that does not use them: no two descriptors it has open share one of the *)
(* host's, and a number never used before is given to the next file.       *)
(***************************************************************************)
EXTENDS SysCall, TLAPS

USE SysCallAssumption

OwnInv ==
  /\ owned = [v \in DOMAIN owned |-> owned[v]]
  /\ \A v \in DOMAIN owned : v < fd_next /\ owned[v] \in Opened
  /\ proper => \A v, w \in DOMAIN owned : fd_map[v] = fd_map[w] => v = w
  /\ OwnFiles

(* The entries of all numbers, also those of closed files: what is private  *)
(* is never closed, so the host never gives its descriptor to a file.       *)
PrivateInv == \A v \in DOMAIN fd_map : host[fd_map[v]] # Private

IInv == TypeOK /\ StandardStaysOpen /\ OwnInv /\ PrivateInv

--------------------------------------------------------------------------------
(* The nanoseconds stay below a second. *)
LEMMA TimeInRange ==
  ASSUME NEW cnt \in Nat
  PROVE  Time(cnt) \in Times
<1> DEFINE r == cnt % SECOND
<1>1. r \in Nat /\ r + 1 <= SECOND
  OBVIOUS
<1>2. cnt \div SECOND \in Nat
  OBVIOUS
<1> HIDE DEF r
<1>3. \E k \in Nat : SECOND = r + 1 + k
  <2>1. SECOND - r - 1 \in Nat /\ SECOND = r + 1 + (SECOND - r - 1)
    BY <1>1
  <2> QED
    BY <2>1
<1>4. PICK k \in Nat : SECOND = r + 1 + k
  BY <1>3
<1>5. SECOND * NSEC = r * NSEC + NSEC + k * NSEC
  BY <1>1, <1>4
<1>6. r * NSEC \in Nat /\ k * NSEC \in Nat
  BY <1>1
<1>7. r * NSEC \in 0 .. SECOND * NSEC - 1
  BY <1>5, <1>6
<1> QED
  BY <1>2, <1>7 DEF Time, Times, r

(* The times told after a call: as before, or one of them anew. *)
TellsNow ==
  {told, [told EXCEPT !.file = Time(cnt_inst')], [told EXCEPT !.day = Time(cnt_inst')]}

LEMMA TimesKept ==
  ASSUME TypeOK, cnt_inst' \in Nat, told' \in TellsNow
  PROVE  told' \in [file : Times, day : Times]
<1>1. told \in [file : Times, day : Times] /\ Time(cnt_inst') \in Times
  BY TimeInRange DEF TypeOK
<1> QED
  BY <1>1 DEF TellsNow

LEMMA Initially == Init => IInv
<1> SUFFICES ASSUME Init PROVE IInv
  OBVIOUS
<1>1. TypeOK
  <2>1. told \in [file : Times, day : Times]
    <3>1. told = [file |-> Time(0), day |-> Time(0)]
      BY DEF Init
    <3> QED
      BY <3>1, TimeInRange
  <2>2. host \in [0 .. HostFds - 1 -> Opened \cup {Free, Private}]
    BY DEF Init, Opened
  <2> QED
    <3>1. DOMAIN fd_map = 0 .. 2 /\ \A v \in 0 .. 2 : fd_map[v] = v
      BY DEF Init
    <3>2. DOMAIN owned = 0 .. 2 /\ fd_next = 3 /\ cnt_inst = 0 /\ ret = 0 /\ halt = FALSE
          /\ brk_addr \in Break /\ proper = TRUE
      BY DEF Init, Standard
    <3>3. \A v \in DOMAIN fd_map : fd_map[v] \in 0 .. HostFds - 1
      BY <3>1
    <3>4. DOMAIN fd_map \subseteq Nat /\ 0 .. 2 \subseteq DOMAIN fd_map
          /\ DOMAIN owned \subseteq DOMAIN fd_map
      BY <3>1, <3>2
    <3>5. brk_addr \in Nat
      BY <3>2
    <3>7. fd_next \in Nat /\ cnt_inst \in Nat /\ ret \in Int
      BY <3>2
    <3>8. halt \in BOOLEAN
      BY <3>2, Zenon
    <3>9. proper \in BOOLEAN
      BY <3>2, Zenon
    <3>10. reached \in Opened \cup {Free, Private}
      BY DEF Init
    <3> QED
      BY <2>1, <2>2, <3>3, <3>4, <3>5, <3>7, <3>8, <3>9, <3>10 DEF TypeOK
<1>2. StandardStaysOpen
  BY DEF Init, StandardStaysOpen
<1>3. OwnInv
  BY DEF Init, OwnInv, OwnFiles, Opened, Standard
<1>4. PrivateInv
  BY DEF Init, PrivateInv, Standard, Private
<1> QED
  BY <1>1, <1>2, <1>3, <1>4 DEF IInv

--------------------------------------------------------------------------------
(* What a descriptor of the program leads to, and the entry it gets. *)
LEMMA Entry ==
  ASSUME TypeOK, NEW v \in VirtualFds
  PROVE  /\ Lookup(v) \in 0 .. HostFds - 1
         /\ DOMAIN Entered(v) = DOMAIN fd_map \cup {v}
         /\ \A w \in DOMAIN Entered(v) : Entered(v)[w] \in 0 .. HostFds - 1
         /\ v \in DOMAIN owned => Entered(v) = fd_map /\ Lookup(v) = fd_map[v]
<1>1. HostFds \in Nat /\ 0 \in 0 .. HostFds - 1
  OBVIOUS
<1>2. CASE v \in DOMAIN fd_map
  BY <1>2 DEF TypeOK, Lookup, Entered
<1>3. CASE v \notin DOMAIN fd_map
  <2>1. v \notin DOMAIN owned
    BY <1>3 DEF TypeOK
  <2>2. Lookup(v) = 0 /\ Entered(v) = With(fd_map, v, 0)
    BY <1>3 DEF Lookup, Entered
  <2>3. /\ DOMAIN With(fd_map, v, 0) = DOMAIN fd_map \cup {v}
        /\ \A w \in DOMAIN fd_map \cup {v} :
             With(fd_map, v, 0)[w] = IF w = v THEN 0 ELSE fd_map[w]
    BY DEF With
  <2>4. \A w \in DOMAIN With(fd_map, v, 0) : With(fd_map, v, 0)[w] \in 0 .. HostFds - 1
    BY <1>1, <2>3 DEF TypeOK
  <2> QED
    BY <1>1, <2>1, <2>2, <2>3, <2>4
<1> QED
  BY <1>2, <1>3

(* An entry is an old one or leads to the host's descriptor 0. *)
LEMMA Entries ==
  ASSUME NEW v, NEW w \in DOMAIN Entered(v)
  PROVE  \/ Entered(v)[w] = 0
         \/ w \in DOMAIN fd_map /\ Entered(v)[w] = fd_map[w]
<1>1. CASE v \in DOMAIN fd_map
  BY <1>1 DEF Entered
<1>2. CASE v \notin DOMAIN fd_map
  <2>1. Entered(v) = With(fd_map, v, 0)
    BY <1>2 DEF Entered
  <2>2. w \in DOMAIN fd_map \cup {v}
        /\ With(fd_map, v, 0)[w] = IF w = v THEN 0 ELSE fd_map[w]
    BY <2>1 DEF With
  <2> QED
    BY <2>1, <2>2
<1> QED
  BY <1>1, <1>2

(* Whatever the number, it leads to nothing private. *)
LEMMA Reaches ==
  ASSUME IInv, NEW v \in VirtualFds
  PROVE  /\ host[Lookup(v)] \in Opened \cup {Free} /\ host[Lookup(v)] # Private
         /\ \A w \in DOMAIN Entered(v) : host[Entered(v)[w]] # Private
<1>1. TypeOK /\ StandardStaysOpen /\ PrivateInv
  BY DEF IInv
<1>2. host[0] # Private
  BY <1>1 DEF StandardStaysOpen, Standard, Private
<1>3. host[Lookup(v)] # Private
  BY <1>1, <1>2 DEF PrivateInv, Lookup
<1>4. \A w \in DOMAIN Entered(v) : host[Entered(v)[w]] # Private
  BY <1>1, <1>2, Entries DEF PrivateInv
<1>5. host[Lookup(v)] \in Opened \cup {Free, Private}
  BY <1>1, Entry DEF TypeOK
<1> QED
  BY <1>3, <1>4, <1>5

(* A call that only uses v. *)
LEMMA UsePreserves ==
  ASSUME IInv, NEW v \in VirtualFds, Uses(v), UNCHANGED <<fd_next, host, owned>>
  PROVE  /\ DOMAIN fd_map' \subseteq Nat /\ 0 .. 2 \subseteq DOMAIN fd_map'
         /\ \A w \in DOMAIN fd_map' : fd_map'[w] \in 0 .. HostFds - 1
         /\ DOMAIN owned' \subseteq DOMAIN fd_map'
         /\ proper' \in BOOLEAN /\ reached' \in Opened \cup {Free, Private}
         /\ StandardStaysOpen' /\ OwnInv' /\ PrivateInv'
<1>1. TypeOK /\ StandardStaysOpen /\ OwnInv /\ PrivateInv
  BY DEF IInv
<1>0. fd_map' = Entered(v) /\ reached' = host[Lookup(v)]
  BY DEF Uses
<1>2. DOMAIN fd_map' = DOMAIN fd_map \cup {v}
  BY <1>0, <1>1, Entry
<1>3. \A w \in DOMAIN fd_map' : fd_map'[w] \in 0 .. HostFds - 1
  BY <1>0, <1>1, Entry
<1>4. proper' => proper /\ fd_map' = fd_map
  BY <1>1, Entry DEF Uses
<1>5. proper' \in BOOLEAN
  BY <1>1 DEF Uses, TypeOK
<1>6. StandardStaysOpen'
  BY <1>1 DEF StandardStaysOpen
<1>7. OwnInv'
  BY <1>1, <1>4 DEF OwnInv, OwnFiles
<1>8. PrivateInv'
  BY <1>0, Reaches DEF PrivateInv
<1>9. reached' \in Opened \cup {Free, Private}
  BY <1>0, Reaches
<1> QED
  BY <1>1, <1>2, <1>3, <1>5, <1>6, <1>7, <1>8, <1>9 DEF TypeOK

LEMMA ClosePreserves ==
  ASSUME IInv, NEW v \in VirtualFds, Close(v), cnt_inst' \in Nat
  PROVE  IInv'
<1> DEFINE fd == Lookup(v)
<1>1. TypeOK /\ StandardStaysOpen /\ OwnInv /\ PrivateInv
  BY DEF IInv
<1>2. /\ fd \in 0 .. HostFds - 1
      /\ DOMAIN Entered(v) = DOMAIN fd_map \cup {v}
      /\ \A w \in DOMAIN Entered(v) : Entered(v)[w] \in 0 .. HostFds - 1
      /\ v \in DOMAIN owned => Entered(v) = fd_map /\ fd = fd_map[v]
  BY <1>1, Entry
<1>3. /\ fd_map' = Entered(v)
      /\ host' = IF fd >= 3 THEN [host EXCEPT ![fd] = Free] ELSE host
      /\ ret' \in {-EBADF, 0, -EIO}
      /\ owned' = [w \in DOMAIN owned \ {v} |-> owned[w]]
      /\ proper' = (proper /\ v \in DOMAIN owned)
      /\ reached' = host[fd]
      /\ UNCHANGED <<fd_next, brk_addr, halt, told>>
  BY DEF Close, Uses, IsClosed
<1>0. reached' \in Opened \cup {Free, Private}
      /\ \A w \in DOMAIN Entered(v) : host[Entered(v)[w]] # Private
  BY <1>3, Reaches
<1> HIDE DEF fd
<1>4. TypeOK'
  <2>1. host' \in [0 .. HostFds - 1 -> Opened \cup {Free, Private}]
    BY <1>1, <1>2, <1>3 DEF TypeOK
  <2>2. ret' \in Int
    BY <1>3 DEF EBADF, EIO
  <2>3. DOMAIN fd_map' \subseteq Nat /\ 0 .. 2 \subseteq DOMAIN fd_map'
    BY <1>1, <1>2, <1>3 DEF TypeOK
  <2>4. \A w \in DOMAIN fd_map' : fd_map'[w] \in 0 .. HostFds - 1
    BY <1>2, <1>3
  <2>5. DOMAIN owned' \subseteq DOMAIN fd_map'
    BY <1>1, <1>2, <1>3 DEF TypeOK
  <2> QED
    BY <1>0, <1>1, <1>3, <2>1, <2>2, <2>3, <2>4, <2>5 DEF TypeOK, Opened
<1>5. StandardStaysOpen'
  BY <1>1, <1>2, <1>3 DEF StandardStaysOpen, TypeOK
<1>6. OwnInv'
  <2>1. \A w \in DOMAIN owned' : w \in DOMAIN owned /\ w # v /\ owned'[w] = owned[w]
    BY <1>3
  <2>2. ASSUME proper', NEW w \in DOMAIN owned'
        PROVE  /\ fd_map' = fd_map /\ w \in DOMAIN fd_map
               /\ host'[fd_map'[w]] = owned'[w]
    <3>1. fd_map' = fd_map /\ fd = fd_map[v] /\ v \in DOMAIN owned /\ proper
      BY <2>2, <1>2, <1>3
    <3>2. fd_map[w] # fd
      BY <3>1, <2>1, <2>2, <1>1 DEF OwnInv
    <3>3. w \in DOMAIN fd_map /\ fd_map[w] \in 0 .. HostFds - 1
      BY <2>1, <2>2, <1>1 DEF TypeOK
    <3>4. host'[fd_map[w]] = host[fd_map[w]]
      BY <3>2, <3>3, <1>1, <1>3 DEF TypeOK
    <3> QED
      BY <3>1, <3>3, <3>4, <2>1, <2>2, <1>1 DEF OwnInv, OwnFiles
  <2>3. OwnFiles'
    BY <2>2 DEF OwnFiles
  <2>4. ASSUME proper', NEW u \in DOMAIN owned', NEW w \in DOMAIN owned',
               fd_map'[u] = fd_map'[w]
        PROVE  u = w
    <3>1. proper /\ u \in DOMAIN owned /\ w \in DOMAIN owned
      BY <2>1, <2>4, <1>3
    <3>2. fd_map' = fd_map
      BY <2>2, <2>4
    <3> QED
      BY <3>1, <3>2, <2>4, <1>1 DEF OwnInv
  <2> QED
    BY <2>1, <2>3, <2>4, <1>1, <1>3 DEF OwnInv, Opened
<1>7. PrivateInv'
  <2> SUFFICES ASSUME NEW w \in DOMAIN fd_map'
               PROVE  host'[fd_map'[w]] # Private
    BY DEF PrivateInv
  <2>1. host[fd_map'[w]] # Private /\ fd_map'[w] \in 0 .. HostFds - 1
    BY <1>0, <1>2, <1>3
  <2>2. host'[fd_map'[w]] \in {host[fd_map'[w]], Free}
    BY <2>1, <1>1, <1>2, <1>3 DEF TypeOK
  <2> QED
    BY <2>1, <2>2 DEF Free, Private
<1> QED
  BY <1>4, <1>5, <1>6, <1>7 DEF IInv

LEMMA TransferPreserves ==
  ASSUME IInv, NEW v \in VirtualFds, Transfer(v) \/ Fstat(v), cnt_inst' \in Nat
  PROVE  IInv'
<1>1. TypeOK /\ StandardStaysOpen /\ OwnInv
  BY DEF IInv
<1>2. /\ Uses(v)
      /\ UNCHANGED <<fd_next, brk_addr, halt, host, owned>>
  BY DEF Transfer, Fstat
<1>3. ret' \in Int
  BY DEF Transfer, Fstat, EBADF, ESPIPE
<1>4. told' \in [file : Times, day : Times]
  <2>1. told' \in TellsNow
    BY DEF Transfer, Fstat, TellsNow
  <2> QED
    BY <2>1, <1>1, TimesKept DEF TypeOK
<1>5. /\ DOMAIN fd_map' \subseteq Nat /\ 0 .. 2 \subseteq DOMAIN fd_map'
      /\ \A w \in DOMAIN fd_map' : fd_map'[w] \in 0 .. HostFds - 1
      /\ DOMAIN owned' \subseteq DOMAIN fd_map'
      /\ proper' \in BOOLEAN /\ reached' \in Opened \cup {Free, Private}
      /\ StandardStaysOpen' /\ OwnInv' /\ PrivateInv'
  BY <1>2, UsePreserves
<1>6. TypeOK'
  BY <1>1, <1>2, <1>3, <1>4, <1>5 DEF TypeOK, Opened
<1> QED
  BY <1>5, <1>6 DEF IInv

LEMMA OpenPreserves ==
  ASSUME IInv, NEW file \in File, OpenFile(file), cnt_inst' \in Nat
  PROVE  IInv'
<1>1. TypeOK /\ StandardStaysOpen /\ OwnInv /\ PrivateInv
  BY DEF IInv
<1>2. PICK fd \in DOMAIN host :
        /\ host[fd] = Free
        /\ host' = [host EXCEPT ![fd] = file]
        /\ fd_map' = With(fd_map, fd_next, fd)
  BY DEF OpenFile
<1>3. /\ ret' = fd_next /\ fd_next' = fd_next + 1
      /\ owned' = With(owned, fd_next, file)
      /\ UNCHANGED <<brk_addr, halt, told, proper, reached>>
  BY DEF OpenFile, NextFd
<1>4. /\ DOMAIN fd_map' = DOMAIN fd_map \cup {fd_next}
      /\ fd_map'[fd_next] = fd
      /\ \A w \in DOMAIN fd_map \ {fd_next} : fd_map'[w] = fd_map[w]
  BY <1>2 DEF With
<1>5. /\ DOMAIN owned' = DOMAIN owned \cup {fd_next}
      /\ owned'[fd_next] = file
      /\ \A w \in DOMAIN owned \ {fd_next} : owned'[w] = owned[w]
  BY <1>3 DEF With
<1>6. fd_next \in Nat /\ fd_next \notin DOMAIN owned
  BY <1>1 DEF TypeOK, OwnInv
<1>7. fd \in 0 .. HostFds - 1
  BY <1>1, <1>2 DEF TypeOK
<1>8. TypeOK'
  <2>1. host' \in [0 .. HostFds - 1 -> Opened \cup {Free, Private}]
    BY <1>1, <1>2 DEF TypeOK, Opened
  <2>2. \A w \in DOMAIN fd_map' : fd_map'[w] \in 0 .. HostFds - 1
    BY <1>1, <1>4, <1>7 DEF TypeOK
  <2>3. DOMAIN fd_map' \subseteq Nat /\ 0 .. 2 \subseteq DOMAIN fd_map'
    BY <1>1, <1>4 DEF TypeOK
  <2>4. DOMAIN owned' \subseteq DOMAIN fd_map'
    BY <1>1, <1>4, <1>5 DEF TypeOK
  <2>5. fd_next' \in Nat /\ ret' \in Int
    BY <1>3, <1>6
  <2> QED
    BY <1>1, <1>3, <2>1, <2>2, <2>3, <2>4, <2>5 DEF TypeOK, Opened
<1>9. StandardStaysOpen'
  <2>1. fd \notin 0 .. 2
    BY <1>1, <1>2 DEF StandardStaysOpen, Standard, Free
  <2> QED
    BY <2>1, <1>1, <1>2, <1>7 DEF StandardStaysOpen, TypeOK
<1>10. OwnInv'
  <2>1. \A w \in DOMAIN owned' : w < fd_next' /\ owned'[w] \in Opened'
    <3>1. \A w \in DOMAIN owned : w \in Nat /\ w < fd_next /\ owned[w] \in Opened
      BY <1>1 DEF OwnInv, TypeOK
    <3>2. Opened' = Opened /\ file \in Opened
      BY DEF Opened
    <3> QED
      BY <3>1, <3>2, <1>3, <1>5, <1>6
  <2>2. ASSUME proper', NEW w \in DOMAIN owned
        PROVE  /\ w \in DOMAIN fd_map /\ w # fd_next /\ fd_map'[w] = fd_map[w]
               /\ fd_map[w] # fd
               /\ fd_map[w] \in 0 .. HostFds - 1
               /\ host[fd_map[w]] = owned[w]
    <3>1. host[fd_map[w]] = owned[w]
      BY <2>2, <1>1, <1>3 DEF OwnInv, OwnFiles
    <3>2. owned[w] # Free
      BY <2>2, <1>1 DEF OwnInv, Opened, Free, Standard
    <3>3. w \in DOMAIN fd_map /\ w # fd_next
      BY <2>2, <1>1, <1>6 DEF TypeOK
    <3> QED
      BY <3>1, <3>2, <3>3, <1>1, <1>2, <1>4 DEF TypeOK
  <2>3. OwnFiles'
    <3>1. ASSUME proper', NEW w \in DOMAIN owned
          PROVE  host'[fd_map'[w]] = owned'[w]
      BY <3>1, <2>2, <1>1, <1>2, <1>5 DEF TypeOK
    <3>2. host'[fd_map'[fd_next]] = owned'[fd_next]
      BY <1>2, <1>4, <1>5
    <3> QED
      BY <3>1, <3>2, <1>5 DEF OwnFiles
  <2>4. proper' => \A u, w \in DOMAIN owned' : fd_map'[u] = fd_map'[w] => u = w
    <3> SUFFICES ASSUME proper', NEW u \in DOMAIN owned', NEW w \in DOMAIN owned',
                        fd_map'[u] = fd_map'[w]
                 PROVE  u = w
      OBVIOUS
    <3>1. CASE u \in DOMAIN owned /\ w \in DOMAIN owned
      BY <3>1, <2>2, <1>1, <1>3 DEF OwnInv
    <3>2. CASE u = fd_next \/ w = fd_next
      BY <3>2, <2>2, <1>4, <1>5
    <3> QED
      BY <3>1, <3>2, <1>5
  <2>5. owned' = [w \in DOMAIN owned' |-> owned'[w]]
    BY <1>3 DEF With
  <2> QED
    BY <2>1, <2>3, <2>4, <2>5 DEF OwnInv
<1>11. PrivateInv'
  <2> SUFFICES ASSUME NEW w \in DOMAIN fd_map'
               PROVE  host'[fd_map'[w]] # Private
    BY DEF PrivateInv
  <2>1. file # Private
    OBVIOUS
  <2>2. CASE w = fd_next
    BY <2>1, <2>2, <1>2, <1>4
  <2>3. CASE w # fd_next
    <3>1. fd_map'[w] = fd_map[w] /\ host[fd_map[w]] # Private
      BY <2>3, <1>1, <1>4 DEF PrivateInv
    <3>2. host'[fd_map[w]] \in {host[fd_map[w]], file}
      BY <2>3, <1>1, <1>2, <1>4, <1>7 DEF TypeOK
    <3> QED
      BY <2>1, <3>1, <3>2
  <2> QED
    BY <2>2, <2>3
<1> QED
  BY <1>8, <1>9, <1>10, <1>11 DEF IInv

(* The calls that leave the descriptors alone. *)
LEMMA RestPreserves ==
  ASSUME IInv, cnt_inst' \in Nat,
         UNCHANGED <<fd_map, fd_next, host, hidden>>,
         brk_addr' \in Nat, halt' \in BOOLEAN, ret' \in Int,
         told' \in TellsNow
  PROVE  IInv'
<1>1. TypeOK /\ StandardStaysOpen /\ OwnInv /\ PrivateInv
  BY DEF IInv
<1>2. told' \in [file : Times, day : Times]
  BY <1>1, TimesKept
<1>3. TypeOK'
  BY <1>1, <1>2 DEF TypeOK, Opened, hidden
<1>4. StandardStaysOpen'
  BY <1>1 DEF StandardStaysOpen
<1>5. OwnInv'
  BY <1>1 DEF OwnInv, OwnFiles, Opened, hidden
<1>6. PrivateInv'
  BY <1>1 DEF PrivateInv
<1> QED
  BY <1>3, <1>4, <1>5, <1>6 DEF IInv

--------------------------------------------------------------------------------
LEMMA Step == IInv /\ [Next]_vars => IInv'
<1> SUFFICES ASSUME IInv, [Next]_vars PROVE IInv'
  OBVIOUS
<1>1. CASE UNCHANGED vars
  BY <1>1 DEF vars, hidden, IInv, TypeOK, StandardStaysOpen, OwnInv, OwnFiles, Opened, PrivateInv
<1>2. CASE Next
  <2>1. TypeOK
    BY DEF IInv
  <2>2. cnt_inst' \in Nat
    BY <1>2, <2>1 DEF Next, Called, TypeOK
  <2>3. ASSUME NEW v \in VirtualFds, Close(v) \/ Transfer(v) \/ Fstat(v)
        PROVE  IInv'
    BY <2>2, <2>3, ClosePreserves, TransferPreserves
  <2>4. ASSUME NEW errno \in Nat, FailsWith(errno)
        PROVE  IInv'
    <3>1. ret' \in Int /\ UNCHANGED <<fd_map, fd_next, brk_addr, halt, host, told, hidden>>
      BY <2>4 DEF FailsWith
    <3> QED
      BY <3>1, <2>1, <2>2, RestPreserves DEF TypeOK, TellsNow
  <2>5. ASSUME NEW path \in File \cup {TooLong}, Open(path)
        PROVE  IInv'
    <3>1. (path # TooLong /\ OpenFile(path)) \/ (\E errno \in Nat : FailsWith(errno))
      BY <2>5 DEF Open, ENAMETOOLONG, ENOENT, EMFILE
    <3> QED
      BY <3>1, <2>2, <2>4, OpenPreserves
  <2>6. ASSUME NEW path \in File \cup {TooLong}, Stat(path)
        PROVE  IInv'
    <3>1. \/ \E errno \in Nat : FailsWith(errno)
          \/ /\ ret' = 0 /\ told' = [told EXCEPT !.file = Time(cnt_inst')]
             /\ UNCHANGED <<fd_map, fd_next, brk_addr, halt, host, hidden>>
      BY <2>6 DEF Stat, ENAMETOOLONG, ENOENT
    <3>2. CASE \E errno \in Nat : FailsWith(errno)
      BY <3>2, <2>4
    <3>3. CASE /\ ret' = 0 /\ told' = [told EXCEPT !.file = Time(cnt_inst')]
               /\ UNCHANGED <<fd_map, fd_next, brk_addr, halt, host, hidden>>
      BY <3>3, <2>1, <2>2, RestPreserves DEF TypeOK, TellsNow
    <3> QED
      BY <3>1, <3>2, <3>3
  <2>7. ASSUME GetTimeOfDay PROVE IInv'
    BY <2>7, <2>1, <2>2, RestPreserves DEF GetTimeOfDay, TypeOK, TellsNow
  <2>8. ASSUME NEW b \in Break, Sbrk(b) PROVE IInv'
    BY <2>8, <2>1, <2>2, RestPreserves DEF Sbrk, TypeOK, TellsNow
  <2>9. ASSUME Exit PROVE IInv'
    BY <2>9, <2>1, <2>2, RestPreserves DEF Exit, TypeOK, TellsNow
  <2> QED
    BY <1>2, <2>3, <2>5, <2>6, <2>7, <2>8, <2>9 DEF Next, Emulate
<1> QED
  BY <1>1, <1>2

LEMMA Invariant == Spec => []IInv
BY Initially, Step, PTL DEF Spec

(* The tables keep their shape: every descriptor leads to one of the host's, *)
(* and the nanoseconds of a timestamp stay below a second.                   *)
THEOREM TypeCorrect == Spec => []TypeOK
<1>1. IInv => TypeOK
  BY DEF IInv
<1> QED
  BY <1>1, Invariant, PTL

(* No call the program can make closes or replaces the simulator's standard *)
(* streams, whatever descriptors it passes.                                 *)
THEOREM StandardKept == Spec => []StandardStaysOpen
<1>1. IInv => StandardStaysOpen
  BY DEF IInv
<1> QED
  BY <1>1, Invariant, PTL

(* A program that uses only the descriptors it has open reaches its files. *)
THEOREM FilesKept == Spec => []OwnFiles
<1>1. IInv => OwnFiles
  BY DEF IInv, OwnInv
<1> QED
  BY <1>1, Invariant, PTL

(* No number the program may pass leads to the simulator's log, or to what   *)
(* else was open before the program ran.                                     *)
THEOREM PrivateKept == Spec => []PrivateOutOfReach
<1>1. IInv => PrivateOutOfReach
  BY Reaches DEF PrivateOutOfReach
<1> QED
  BY <1>1, Invariant, PTL

--------------------------------------------------------------------------------
(* ProgramFiles: the numbers below fd_next are those that were given.        *)
LEMMA ClosesOrMisuses ==
  ASSUME IInv, NEW v \in VirtualFds, Close(v)
  PROVE  Promise!Next
<1>1. TypeOK /\ StandardStaysOpen /\ OwnInv
  BY DEF IInv
<1>2. /\ Uses(v) /\ fd_next' = fd_next
      /\ owned' = [w \in DOMAIN owned \ {v} |-> owned[w]]
  BY DEF Close
<1>3. proper' = (proper /\ v \in DOMAIN owned) /\ reached' = host[Lookup(v)]
  BY <1>2 DEF Uses
<1>4. CASE proper /\ v \in DOMAIN owned
  <2>1. Lookup(v) = fd_map[v] /\ host[Lookup(v)] = owned[v]
    BY <1>1, <1>4, Entry DEF OwnInv, OwnFiles
  <2>2. owned[v] # Free
    BY <1>1, <1>4 DEF OwnInv, Opened, Free, Standard
  <2>3. ret' # -EBADF
    BY <2>1, <2>2 DEF Close, EBADF, EIO
  <2>4. proper' = proper
    BY <1>3, <1>4, <1>1 DEF TypeOK
  <2>5. Promise!Closes(v)
    BY <1>2, <1>3, <1>4, <2>1, <2>3, <2>4 DEF Promise!Closes
  <2> QED
    BY <1>4, <2>5 DEF Promise!Next
<1>5. CASE ~ (proper /\ v \in DOMAIN owned)
  <2>0. ~ proper'
    BY <1>3, <1>5, Zenon
  <2>1. ~ proper' /\ reached' # Private
    BY <2>0, <1>3, Reaches
  <2>2. owned' = owned \/ \E w \in DOMAIN owned : owned' = [u \in DOMAIN owned \ {w} |-> owned[u]]
    <3>1. CASE v \in DOMAIN owned
      BY <3>1, <1>2
    <3>2. CASE v \notin DOMAIN owned
      <4>1. owned = [w \in DOMAIN owned |-> owned[w]]
        BY <1>1 DEF OwnInv
      <4>2. DOMAIN owned \ {v} = DOMAIN owned
        BY <3>2
      <4> QED
        BY <4>1, <4>2, <1>2
    <3> QED
      BY <3>1, <3>2
  <2>3. Promise!Misuses
    BY <1>2, <2>1, <2>2 DEF Promise!Misuses
  <2> QED
    BY <2>3 DEF Promise!Next
<1> QED
  BY <1>4, <1>5

LEMMA ActsOrMisuses ==
  ASSUME IInv, NEW v \in VirtualFds, Transfer(v) \/ Fstat(v)
  PROVE  Promise!Next
<1>1. TypeOK /\ OwnInv
  BY DEF IInv
<1>2. Uses(v) /\ fd_next' = fd_next /\ owned' = owned
  BY DEF Transfer, Fstat
<1>3. proper' = (proper /\ v \in DOMAIN owned) /\ reached' = host[Lookup(v)]
  BY <1>2 DEF Uses
<1>4. CASE proper /\ v \in DOMAIN owned
  <2>1. Lookup(v) = fd_map[v] /\ host[Lookup(v)] = owned[v]
    BY <1>1, <1>4, Entry DEF OwnInv, OwnFiles
  <2>2. proper' = proper
    BY <1>3, <1>4, <1>1 DEF TypeOK
  <2>3. Promise!Acts(v)
    BY <1>2, <1>3, <1>4, <2>1, <2>2 DEF Promise!Acts
  <2> QED
    BY <1>4, <2>3 DEF Promise!Next
<1>5. CASE ~ (proper /\ v \in DOMAIN owned)
  <2>0. ~ proper'
    BY <1>3, <1>5, Zenon
  <2>1. ~ proper' /\ reached' # Private
    BY <2>0, <1>3, Reaches
  <2>2. Promise!Misuses
    BY <1>2, <2>1 DEF Promise!Misuses
  <2> QED
    BY <2>2 DEF Promise!Next
<1> QED
  BY <1>4, <1>5

LEMMA OpensNewNumber ==
  ASSUME IInv, NEW file \in File, OpenFile(file)
  PROVE  Promise!Next
<1>1. fd_next \in Nat
  BY DEF IInv, TypeOK
<1>2. /\ ret' = fd_next /\ fd_next' = fd_next + 1
      /\ owned' = With(owned, fd_next, file)
      /\ UNCHANGED <<proper, reached>>
  BY DEF OpenFile, NextFd
<1>3. ret' \in Nat \ 0 .. fd_next - 1
  BY <1>1, <1>2
<1>4. 0 .. fd_next' - 1 = (0 .. fd_next - 1) \cup {ret'}
  BY <1>1, <1>2
<1>5. owned' = [w \in DOMAIN owned \cup {ret'} |-> IF w = ret' THEN file ELSE owned[w]]
  BY <1>2 DEF With
<1>6. Promise!Opens(file)
  BY <1>2, <1>3, <1>4, <1>5 DEF Promise!Opens
<1> QED
  BY <1>6 DEF Promise!Next

(* The calls on descriptors keep the promise of ProgramFiles, for any        *)
(* program, host and number of descriptors: numbers are given once, a        *)
(* program that keeps to its own descriptors reaches its files and can close *)
(* them, and no program reaches what is private.                             *)
THEOREM PromiseKept == Spec => ProgramsFiles
<1>1. Init => Promise!Init
  <2> SUFFICES ASSUME Init PROVE Promise!Init
    OBVIOUS
  <2>1. 0 .. fd_next - 1 = DOMAIN Standard
    BY DEF Init, Standard
  <2>2. owned = Standard /\ proper = TRUE /\ reached # Private
    BY DEF Init, Free, Private
  <2> QED
    BY <2>1, <2>2 DEF Promise!Init
<1>2. IInv /\ [Next]_vars => [Promise!Next]_(Promise!vars)
  <2> SUFFICES ASSUME IInv, [Next]_vars
               PROVE  Promise!Next \/ UNCHANGED Promise!vars
    OBVIOUS
  <2>1. CASE UNCHANGED vars
    BY <2>1 DEF vars, hidden, Promise!vars
  <2>2. ASSUME UNCHANGED <<fd_next, hidden>> PROVE Promise!Next
    BY <2>2 DEF hidden, Promise!Next, Promise!Others
  <2>3. ASSUME NEW path \in File \cup {TooLong}, Open(path) \/ Stat(path)
        PROVE  Promise!Next
    <3>1. (path # TooLong /\ OpenFile(path)) \/ UNCHANGED <<fd_next, hidden>>
      BY <2>3 DEF Open, Stat, FailsWith
    <3> QED
      BY <3>1, <2>2, OpensNewNumber
  <2>4. ASSUME NEW b \in Break, Sbrk(b) PROVE Promise!Next
    BY <2>2, <2>4 DEF Sbrk
  <2>5. ASSUME GetTimeOfDay \/ Exit PROVE Promise!Next
    BY <2>2, <2>5 DEF GetTimeOfDay, Exit
  <2>6. CASE Next
    BY <2>3, <2>4, <2>5, <2>6, ClosesOrMisuses, ActsOrMisuses DEF Next, Emulate
  <2> QED
    BY <2>1, <2>6
<1> QED
  BY <1>1, <1>2, Invariant, PTL DEF Spec, ProgramsFiles, Promise!Spec

--------------------------------------------------------------------------------
LEMMA Quotient ==
  ASSUME NEW a \in Nat
  PROVE  a = SECOND * (a \div SECOND) + (a % SECOND)
         /\ a % SECOND \in 0 .. SECOND - 1 /\ a \div SECOND \in Nat
OBVIOUS

LEMMA Apart ==
  ASSUME NEW m \in Nat \ {0}, NEW p \in Nat, NEW q \in Nat, p < q
  PROVE  m * q >= m * p + m
<1>1. PICK d \in Nat : q = p + 1 + d
  <2>1. q - p - 1 \in Nat /\ q = p + 1 + (q - p - 1)
    OBVIOUS
  <2> QED
    BY <2>1
<1>2. m * q = m * p + m + m * d
  BY <1>1
<1>3. m * d >= 0
  OBVIOUS
<1> QED
  BY <1>2, <1>3

(* The seconds told do not go back. *)
LEMMA SecondsGoOn ==
  ASSUME NEW a \in Nat, NEW b \in Nat, a <= b
  PROVE  Time(a).sec <= Time(b).sec
<1> DEFINE p == a \div SECOND
           q == b \div SECOND
           r == a % SECOND
           s == b % SECOND
           x == SECOND * p
           y == SECOND * q
<1>1. p \in Nat /\ q \in Nat /\ r \in 0 .. SECOND - 1 /\ s \in 0 .. SECOND - 1
  BY Quotient
<1>2. a = x + r /\ b = y + s
  BY Quotient
<1>3. Time(a).sec = p /\ Time(b).sec = q
  BY DEF Time
<1> HIDE DEF p, q, r, s
<1>4. x \in Nat /\ y \in Nat
  BY <1>1
<1>5. q < p => x >= y + SECOND
  BY <1>1, Apart
<1> HIDE DEF x, y
<1>6. p <= q
  BY <1>1, <1>2, <1>4, <1>5
<1> QED
  BY <1>3, <1>6

(* The quotient and the remainder together are the count, to the nanosecond. *)
LEMMA Exact ==
  ASSUME NEW a \in Nat
  PROVE  Nanoseconds(Time(a)) = NSEC * a
<1> DEFINE p == a \div SECOND
           r == a % SECOND
<1>1. p \in Nat /\ r \in Nat /\ a = SECOND * p + r
  BY Quotient
<1>2. Nanoseconds(Time(a)) = p * (SECOND * NSEC) + r * NSEC
  BY DEF Time, Nanoseconds
<1> HIDE DEF p, r
<1>3. p * (SECOND * NSEC) + r * NSEC = NSEC * (SECOND * p + r)
  BY <1>1
<1> QED
  BY <1>1, <1>2, <1>3

(* Nanoseconds read as microseconds are NSEC times as many. *)
LEMMA Ahead ==
  ASSUME NEW a \in Nat
  PROVE  /\ a <= Microseconds(Time(a))
         /\ Microseconds(Time(a)) <= a + (NSEC - 1) * (SECOND - 1)
<1> DEFINE p == a \div SECOND
           r == a % SECOND
           n == NSEC - 1
<1>1. p \in Nat /\ r \in 0 .. SECOND - 1 /\ a = SECOND * p + r
  BY Quotient
<1>2. Microseconds(Time(a)) = p * SECOND + r * NSEC
  BY DEF Time, Microseconds
<1>3. n \in Nat /\ NSEC = n + 1
  OBVIOUS
<1> HIDE DEF p, r, n
<1>4. r * NSEC = r + n * r /\ n * r \in Nat
  BY <1>1, <1>3
<1>5. n * r <= n * (SECOND - 1)
  <2>1. PICK k \in Nat : SECOND - 1 = r + k
    <3>1. SECOND - 1 - r \in Nat /\ SECOND - 1 = r + (SECOND - 1 - r)
      BY <1>1
    <3> QED
      BY <3>1
  <2>2. n * (SECOND - 1) = n * r + n * k /\ n * k \in Nat /\ n * r \in Nat
    BY <1>1, <1>3, <2>1
  <2> QED
    BY <2>2
<1>6. p * SECOND = SECOND * p /\ SECOND * p \in Nat
  BY <1>1
<1>7. n * (SECOND - 1) \in Nat /\ n = NSEC - 1
  BY <1>3
<1> QED
  BY <1>1, <1>2, <1>4, <1>5, <1>6, <1>7

(* The times last told are those of instructions executed by then. *)
Told ==
  /\ cnt_inst \in Nat
  /\ \E k, l \in 0 .. cnt_inst : told = [file |-> Time(k), day |-> Time(l)]

LEMMA Tells ==
  ASSUME Next, cnt_inst \in Nat
  PROVE  cnt_inst' \in Nat /\ cnt_inst < cnt_inst' /\ told' \in TellsNow
<1>1. cnt_inst' \in Nat /\ cnt_inst < cnt_inst'
  BY DEF Next, Called
<1>2. Emulate
  BY DEF Next
<1>3. ASSUME NEW v \in VirtualFds, Close(v) \/ Transfer(v) \/ Fstat(v)
      PROVE  told' \in TellsNow
  BY <1>3 DEF Close, Transfer, Fstat, TellsNow
<1>4. ASSUME NEW path \in File \cup {TooLong}, Open(path) \/ Stat(path)
      PROVE  told' \in TellsNow
  BY <1>4 DEF Open, OpenFile, FailsWith, Stat, TellsNow
<1>5. ASSUME NEW b \in Break, Sbrk(b) PROVE told' = told
  BY <1>5 DEF Sbrk
<1> QED
  BY <1>1, <1>2, <1>3, <1>4, <1>5 DEF Emulate, GetTimeOfDay, Exit, TellsNow

LEMMA AlwaysTold == Spec => []Told
<1>1. Init => Told
  BY DEF Init, Told
<1>2. Told /\ [Next]_vars => Told'
  <2> SUFFICES ASSUME Told, [Next]_vars PROVE Told'
    OBVIOUS
  <2>1. CASE Next
    <3>1. PICK k, l \in 0 .. cnt_inst : told = [file |-> Time(k), day |-> Time(l)]
      BY DEF Told
    <3>2. cnt_inst' \in Nat /\ cnt_inst < cnt_inst' /\ told' \in TellsNow
      BY <2>1, Tells DEF Told
    <3>3. k \in 0 .. cnt_inst' /\ l \in 0 .. cnt_inst' /\ cnt_inst' \in 0 .. cnt_inst'
      BY <3>2 DEF Told
    <3>4. told' \in {[file |-> Time(k), day |-> Time(l)],
                     [file |-> Time(cnt_inst'), day |-> Time(l)],
                     [file |-> Time(k), day |-> Time(cnt_inst')]}
      BY <3>1, <3>2 DEF TellsNow
    <3> QED
      BY <3>2, <3>3, <3>4 DEF Told
  <2>2. CASE UNCHANGED vars
    BY <2>2 DEF vars, Told
  <2> QED
    BY <2>1, <2>2
<1> QED
  BY <1>1, <1>2, PTL DEF Spec

(* The timestamps told are exactly the instructions executed and advance, the *)
(* seconds told never go back, and the time of day, whose microseconds are    *)
(* nanoseconds, is ahead by no more than it can be within a second: for any   *)
(* length of a second and of an instruction.                                  *)
THEOREM TimeOfInstructions == Spec => TimeTold
<1>1. Told /\ [Next]_vars =>
        [/\ (\E v \in VirtualFds : Fstat(v)) /\ ret' = 0 => ToldOfFile
         /\ (\E path \in File \cup {TooLong} : Stat(path)) /\ ret' = 0 => ToldOfFile
         /\ GetTimeOfDay => ToldOfDay]_vars
  <2> SUFFICES ASSUME Told, Next
               PROVE  /\ (\E v \in VirtualFds : Fstat(v)) /\ ret' = 0 => ToldOfFile
                      /\ (\E path \in File \cup {TooLong} : Stat(path)) /\ ret' = 0
                           => ToldOfFile
                      /\ GetTimeOfDay => ToldOfDay
    OBVIOUS
  <2> DEFINE now == cnt_inst'
  <2>1. PICK k, l \in 0 .. cnt_inst : told = [file |-> Time(k), day |-> Time(l)]
    BY DEF Told
  <2>2. now \in Nat /\ cnt_inst \in Nat /\ cnt_inst < now
    BY Tells DEF Told
  <2>3. k \in Nat /\ k < now /\ l \in Nat /\ l < now
    BY <2>2
  <2>4. told.file = Time(k) /\ told.day = Time(l)
    BY <2>1
  <2>5. Time(k).sec <= Time(now).sec /\ Time(l).sec <= Time(now).sec
    <3> HIDE DEF now
    <3> QED
      BY <2>2, <2>3, SecondsGoOn
  <2>6. Nanoseconds(Time(k)) < Nanoseconds(Time(now))
    <3> HIDE DEF now
    <3>1. NSEC * now >= NSEC * k + NSEC /\ NSEC * k \in Nat /\ NSEC * now \in Nat
      BY <2>2, <2>3, Apart
    <3> QED
      BY <2>2, <2>3, <3>1, Exact
  <2>7. ASSUME told' = [told EXCEPT !.file = Time(now)] PROVE ToldOfFile
    <3>1. told'.file = Time(now)
      BY <2>7, <2>1
    <3>2. Nanoseconds(Time(now)) = NSEC * now
      <4> HIDE DEF now
      <4> QED
        BY <2>2, Exact
    <3> QED
      BY <3>1, <3>2, <2>4, <2>5, <2>6 DEF ToldOfFile
  <2>8. ASSUME told' = [told EXCEPT !.day = Time(now)] PROVE ToldOfDay
    <3>1. told'.day = Time(now)
      BY <2>8, <2>1
    <3>2. /\ now <= Microseconds(Time(now))
          /\ Microseconds(Time(now)) <= now + (NSEC - 1) * (SECOND - 1)
      <4> HIDE DEF now
      <4> QED
        BY <2>2, Ahead
    <3> QED
      BY <3>1, <3>2, <2>4, <2>5 DEF ToldOfDay
  <2>9. ASSUME NEW v \in VirtualFds, Fstat(v), ret' = 0 PROVE ToldOfFile
    BY <2>7, <2>9 DEF Fstat
  <2>10. ASSUME NEW path \in File \cup {TooLong}, Stat(path), ret' = 0 PROVE ToldOfFile
    BY <2>7, <2>10 DEF Stat, FailsWith, ENAMETOOLONG, ENOENT
  <2>11. ASSUME GetTimeOfDay PROVE ToldOfDay
    BY <2>8, <2>11 DEF GetTimeOfDay
  <2> QED
    BY <2>9, <2>10, <2>11
<1> QED
  BY <1>1, AlwaysTold, PTL DEF Spec, TimeTold
================================================================================
