---------------------------- MODULE MonitorsProofs ----------------------------
(***************************************************************************)
(* What the programs that count promise, for every number of CPUs,         *)
(* threads, buckets, entries and events, although main reads an entry in   *)
(* one statement and stores it in another, and other CPUs use the same     *)
(* maps in between.  Of disk_monitor, network_monitor, memory_monitor and  *)
(* cpu_monitor: that a thread's counts are exact (CountsAreExact), its     *)
(* alert is due (AlertIsDue) and its time is right modulo 2^32             *)
(* (TimeIsExact).  Of maps and count_syscalls, whose entries all threads   *)
(* share: that no call is counted twice, and none is lost while one thread *)
(* makes all of them (UnlockedCounts).                                     *)
(*                                                                         *)
(* MonitorInv says of each CPU where in main it is and what its variables  *)
(* then are (Place), of each thread that its count is that of its calls    *)
(* that are over and of the one under way whose count was stored (Called), *)
(* and that no int overflows, for all calls together are too few.          *)
(* SwitchInv says the same of cpu_monitor's switches, where ints do        *)
(* overflow: what its variables are modulo 2^32, and that nobody is in two *)
(* switches at once.                                                       *)
(* SyscallsInv and EntriesInv compare what an entry is, and what a CPU     *)
(* read of it, with the calls that have passed its store (Passed).         *)
(***************************************************************************)
EXTENDS ExamplesProofs

-----------------------------------------------------------------------------
(***************************************************************************)
(* Their code                                                              *)
(***************************************************************************)

(***************************************************************************)
(* The calls that the monitors count: which, in which map, and beside      *)
(* which other map for the alert.                                          *)
(***************************************************************************)
Monitors == {"DiskMonitor", "NetworkMonitor", "MemoryMonitor"}

Both(id, own, other, text) ==
  [id |-> id, own |-> own, other |-> other, text |-> text, alerts |-> TRUE]
Alone(id, own, text) ==
  [id |-> id, own |-> own, other |-> own, text |-> text, alerts |-> FALSE]

KindsOf(p) ==
  IF p = "DiskMonitor"
    THEN {Both(0, "read_count", "write_count", "read"),
          Both(1, "write_count", "read_count", "write"),
          Both(17, "read_count", "write_count", "pread64"),
          Both(18, "write_count", "read_count", "pwrite64"),
          Both(19, "read_count", "write_count", "readv"),
          Both(20, "write_count", "read_count", "writev")}
  ELSE IF p = "NetworkMonitor"
    THEN {Both(44, "send_count", "recv_count", "sendto"),
          Both(46, "send_count", "recv_count", "sendmsg"),
          Both(307, "send_count", "recv_count", "sendmmsg"),
          Both(45, "recv_count", "send_count", "recvfrom"),
          Both(47, "recv_count", "send_count", "recvmsg"),
          Both(299, "recv_count", "send_count", "recvmmsg")}
  ELSE {Alone(9, "mmap_count", "MMap"), Alone(11, "munmap_count", "Munmap"),
        Alone(12, "brk_count", "Brk")}

Body(k) ==
  IF k.alerts THEN CountAndAlert(k.own, k.other, k.text) ELSE CountOnly(k.own, k.text)
ClauseOf(k) == OnSyscall(k.id, Body(k))
PidIs0 == Clause(V("pid"), "==", I(0), <<>>)

ClausesOf(p) ==
  IF p = "DiskMonitor"
    THEN <<PidIs0, OnRead, OnWrite, OnPread64, OnPwrite64, OnReadv, OnWritev>>
  ELSE IF p = "NetworkMonitor"
    THEN <<PidIs0, OnSendto, OnSendmsg, OnSendmmsg, OnRecvfrom, OnRecvmsg, OnRecvmmsg>>
  ELSE <<OnMmap, OnMunmap, OnBrk>>

(* the clauses from the i-th on *)
AskFrom(p, i) ==
  (CHOOSE ifs : IfsOf(ifs, ClausesOf(p), <<>>) /\ Cond(ClausesOf(p), <<>>) = ifs[1])[i]

LEMMA AskIs ==
  ASSUME NEW p \in Monitors
  PROVE  LET n == Len(ClausesOf(p))
         IN /\ n \in Nat /\ n > 0 /\ Cond(ClausesOf(p), <<>>) = AskFrom(p, 1)
            /\ AskFrom(p, n + 1) = <<>>
            /\ \A i \in 1 .. n :
                 LET cl == ClausesOf(p)[i]
                 IN AskFrom(p, i) = <<If(cl.a, cl.rel, cl.b, cl.body, AskFrom(p, i + 1))>>
<1> DEFINE all == ClausesOf(p)
           none == <<>>
           it == CHOOSE ifs : IfsOf(ifs, all, none) /\ Cond(all, none) = ifs[1]
<1>1. Len(all) \in Nat /\ Len(all) > 0
  BY DEF ClausesOf
<1>2. \A i : AskFrom(p, i) = it[i]
  BY DEF AskFrom
<1> HIDE DEF all, none
<1>3. \E ifs : IfsOf(ifs, all, none) /\ Cond(all, none) = ifs[1]
  BY <1>1, CondIsIfs
<1>4. IfsOf(it, all, none) /\ Cond(all, none) = it[1]
  BY <1>3
<1> HIDE DEF it
<1> QED
  BY <1>1, <1>2, <1>4 DEF IfsOf, all, none

(* Every clause but the test of the pid is of a kind of call, and every    *)
(* kind has one.                                                           *)
LEMMA ClausesAre ==
  ASSUME NEW p \in Monitors
  PROVE  /\ \A i \in 1 .. Len(ClausesOf(p)) :
              ClausesOf(p)[i] = PidIs0 \/ \E k \in KindsOf(p) : ClausesOf(p)[i] = ClauseOf(k)
         /\ \A k \in KindsOf(p) : \E i \in 1 .. Len(ClausesOf(p)) : ClausesOf(p)[i] = ClauseOf(k)
<1> USE DEF Both, Alone, ClauseOf, Body
<1>1. /\ OnRead = ClauseOf(Both(0, "read_count", "write_count", "read"))
      /\ OnWrite = ClauseOf(Both(1, "write_count", "read_count", "write"))
      /\ OnPread64 = ClauseOf(Both(17, "read_count", "write_count", "pread64"))
      /\ OnPwrite64 = ClauseOf(Both(18, "write_count", "read_count", "pwrite64"))
      /\ OnReadv = ClauseOf(Both(19, "read_count", "write_count", "readv"))
      /\ OnWritev = ClauseOf(Both(20, "write_count", "read_count", "writev"))
  BY DEF OnRead, OnWrite, OnPread64, OnPwrite64, OnReadv, OnWritev
<1>2. /\ OnSendto = ClauseOf(Both(44, "send_count", "recv_count", "sendto"))
      /\ OnSendmsg = ClauseOf(Both(46, "send_count", "recv_count", "sendmsg"))
      /\ OnSendmmsg = ClauseOf(Both(307, "send_count", "recv_count", "sendmmsg"))
      /\ OnRecvfrom = ClauseOf(Both(45, "recv_count", "send_count", "recvfrom"))
      /\ OnRecvmsg = ClauseOf(Both(47, "recv_count", "send_count", "recvmsg"))
      /\ OnRecvmmsg = ClauseOf(Both(299, "recv_count", "send_count", "recvmmsg"))
  BY DEF OnSendto, OnSendmsg, OnSendmmsg, OnRecvfrom, OnRecvmsg, OnRecvmmsg
<1>3. /\ OnMmap = ClauseOf(Alone(9, "mmap_count", "MMap"))
      /\ OnMunmap = ClauseOf(Alone(11, "munmap_count", "Munmap"))
      /\ OnBrk = ClauseOf(Alone(12, "brk_count", "Brk"))
  BY DEF OnMmap, OnMunmap, OnBrk
<1>4. \A a, b, c, d, e, f, g :
        LET all == <<a, b, c, d, e, f, g>>
        IN /\ Len(all) = 7 /\ all[1] = a /\ all[2] = b /\ all[3] = c /\ all[4] = d
           /\ all[5] = e /\ all[6] = f /\ all[7] = g
  OBVIOUS
<1>5. \A a, b, c :
        LET all == <<a, b, c>> IN Len(all) = 3 /\ all[1] = a /\ all[2] = b /\ all[3] = c
  OBVIOUS
<1> HIDE DEF Both, Alone, ClauseOf, Body
<1>6. CASE p = "DiskMonitor"
  <2>1. ClausesOf(p) = <<PidIs0, OnRead, OnWrite, OnPread64, OnPwrite64, OnReadv, OnWritev>>
    BY <1>6 DEF ClausesOf
  <2> DEFINE all == ClausesOf(p)
  <2>2. /\ Len(all) = 7 /\ all[1] = PidIs0 /\ all[2] = OnRead /\ all[3] = OnWrite
        /\ all[4] = OnPread64 /\ all[5] = OnPwrite64 /\ all[6] = OnReadv /\ all[7] = OnWritev
    BY <2>1, <1>4
  <2> HIDE DEF all
  <2>3. 1 .. 7 = {1, 2, 3, 4, 5, 6, 7}
    OBVIOUS
  <2> QED
    BY <1>1, <1>6, <2>2, <2>3 DEF KindsOf, all
<1>7. CASE p = "NetworkMonitor"
  <2>1. ClausesOf(p) = <<PidIs0, OnSendto, OnSendmsg, OnSendmmsg, OnRecvfrom, OnRecvmsg, OnRecvmmsg>>
    BY <1>7 DEF ClausesOf
  <2> DEFINE all == ClausesOf(p)
  <2>2. /\ Len(all) = 7 /\ all[1] = PidIs0 /\ all[2] = OnSendto /\ all[3] = OnSendmsg
        /\ all[4] = OnSendmmsg /\ all[5] = OnRecvfrom /\ all[6] = OnRecvmsg
        /\ all[7] = OnRecvmmsg
    BY <2>1, <1>4
  <2> HIDE DEF all
  <2>3. 1 .. 7 = {1, 2, 3, 4, 5, 6, 7}
    OBVIOUS
  <2>4. KindsOf(p) = {Both(44, "send_count", "recv_count", "sendto"),
                      Both(46, "send_count", "recv_count", "sendmsg"),
                      Both(307, "send_count", "recv_count", "sendmmsg"),
                      Both(45, "recv_count", "send_count", "recvfrom"),
                      Both(47, "recv_count", "send_count", "recvmsg"),
                      Both(299, "recv_count", "send_count", "recvmmsg")}
    BY <1>7 DEF KindsOf
  <2> QED
    BY <1>2, <2>2, <2>3, <2>4 DEF all
<1>8. CASE p = "MemoryMonitor"
  <2>1. ClausesOf(p) = <<OnMmap, OnMunmap, OnBrk>>
    BY <1>8 DEF ClausesOf
  <2> DEFINE all == ClausesOf(p)
  <2>2. Len(all) = 3 /\ all[1] = OnMmap /\ all[2] = OnMunmap /\ all[3] = OnBrk
    BY <2>1, <1>5
  <2> HIDE DEF all
  <2>3. 1 .. 3 = {1, 2, 3}
    OBVIOUS
  <2> QED
    BY <1>3, <1>8, <2>2, <2>3 DEF KindsOf, all
<1> QED
  BY <1>6, <1>7, <1>8 DEF Monitors

SetPid == Set("pid", V("pid_tgid"))
SetId == Set("syscall_id", V("ctx.id"))
FirstSet(p) == IF p = "MemoryMonitor" THEN SetId ELSE SetPid
SecondSet(p) == IF p = "MemoryMonitor" THEN SetPid ELSE SetId

LEMMA MainIs ==
  ASSUME NEW p \in Monitors
  PROVE  LET main == Examples[p].main
         IN /\ main # <<>> /\ Head(main) = FirstSet(p)
            /\ Tail(main) # <<>> /\ Head(Tail(main)) = SecondSet(p)
            /\ Tail(Tail(main)) = AskFrom(p, 1) \o <<Return(0)>>
            /\ Examples[p].hook = "sys_enter"
<1> DEFINE main == Examples[p].main
           all == ClausesOf(p)
           none == <<>>
           a == FirstSet(p)
           b == SecondSet(p)
           d == Return(0)
<1>1. \A hook, it, ms : Example(hook, it, ms).main = it /\ Example(hook, it, ms).hook = hook
  BY DEF Example
<1>2. /\ <<PidIs0>> \o <<OnRead, OnWrite, OnPread64, OnPwrite64, OnReadv, OnWritev>>
           = <<PidIs0, OnRead, OnWrite, OnPread64, OnPwrite64, OnReadv, OnWritev>>
      /\ <<PidIs0>> \o <<OnSendto, OnSendmsg, OnSendmmsg, OnRecvfrom, OnRecvmsg, OnRecvmmsg>>
           = <<PidIs0, OnSendto, OnSendmsg, OnSendmmsg, OnRecvfrom, OnRecvmsg, OnRecvmmsg>>
  <2> SUFFICES ASSUME NEW u, NEW v, NEW w, NEW x, NEW y, NEW z, NEW e
               PROVE  <<e>> \o <<u, v, w, x, y, z>> = <<e, u, v, w, x, y, z>>
    OBVIOUS
  <2> DEFINE S == {u, v, w, x, y, z, e}
             s == <<e>>
             t == <<u, v, w, x, y, z>>
             j == <<e, u, v, w, x, y, z>>
  <2>1. s \in Seq(S) /\ t \in Seq(S) /\ j \in Seq(S)
    OBVIOUS
  <2>2. Len(s) = 1 /\ Len(t) = 6 /\ Len(j) = 7
    OBVIOUS
  <2>3. \A i \in 1 .. 1 : j[i] = s[i]
    OBVIOUS
  <2>4. \A i \in 1 .. 6 : j[1 + i] = t[i]
    <3>1. 1 .. 6 = {1, 2, 3, 4, 5, 6}
      OBVIOUS
    <3>2. /\ j[1 + 1] = t[1] /\ j[1 + 2] = t[2] /\ j[1 + 3] = t[3] /\ j[1 + 4] = t[4]
          /\ j[1 + 5] = t[5] /\ j[1 + 6] = t[6]
      OBVIOUS
    <3> HIDE DEF j, t
    <3> QED
      BY <3>1, <3>2
  <2>5. Len(j) = Len(s) + Len(t)
    BY <2>2
  <2> HIDE DEF S, s, t, j
  <2>6. /\ \A i \in 1 .. Len(s) : j[i] = s[i]
        /\ \A i \in 1 .. Len(t) : j[Len(s) + i] = t[i]
    BY <2>2, <2>3, <2>4
  <2>7. s \o t = j
    BY <2>1, <2>5, <2>6, JoinedIs
  <2> QED
    BY <2>7 DEF s, t, j
<1>3. main = (<<a, b>> \o Cond(all, none)) \o <<d>> /\ Examples[p].hook = "sys_enter"
  <2>1. CASE p = "DiskMonitor"
    <3>1. Examples[p].main = DiskMonitor /\ Examples[p].hook = "sys_enter"
      BY <1>1, <2>1 DEF Examples
    <3> QED
      BY <2>1, <3>1, <1>2 DEF DiskMonitor, OfThread, ClausesOf, FirstSet, SecondSet, SetPid,
         SetId, PidIs0
  <2>2. CASE p = "NetworkMonitor"
    <3>1. Examples[p].main = NetworkMonitor /\ Examples[p].hook = "sys_enter"
      BY <1>1, <2>2 DEF Examples
    <3> QED
      BY <2>2, <3>1, <1>2 DEF NetworkMonitor, OfThread, ClausesOf, FirstSet, SecondSet, SetPid,
         SetId, PidIs0
  <2>3. CASE p = "MemoryMonitor"
    <3>1. Examples[p].main = MemoryMonitor /\ Examples[p].hook = "sys_enter"
      BY <1>1, <2>3 DEF Examples
    <3> QED
      BY <2>3, <3>1 DEF MemoryMonitor, ClausesOf, FirstSet, SecondSet, SetPid, SetId
  <2> QED
    BY <2>1, <2>2, <2>3 DEF Monitors
<1>4. \E f : Cond(all, none) = <<f>> /\ AskFrom(p, 1) = <<f>>
  <2>1. 1 \in 1 .. Len(all)
    BY AskIs
  <2> QED
    BY <2>1, AskIs
<1> HIDE DEF main, all, none, a, b, d
<1>5. PICK f : Cond(all, none) = <<f>> /\ AskFrom(p, 1) = <<f>>
  BY <1>4
<1>6. main = <<a, b, f, d>>
  <2>1. main = (<<a, b>> \o <<f>>) \o <<d>>
    BY <1>3, <1>5
  <2>2. <<a, b>> \o <<f>> = <<a, b, f>>
    BY Join21
  <2>3. <<a, b, f>> \o <<d>> = <<a, b, f, d>>
    BY Join31
  <2> QED
    BY <2>1, <2>2, <2>3
<1>7. AskFrom(p, 1) \o <<d>> = <<f, d>>
  BY <1>5, Join11
<1>8. /\ main # <<>> /\ Head(main) = a /\ Tail(main) = <<b, f, d>>
      /\ <<b, f, d>> # <<>> /\ Head(<<b, f, d>>) = b /\ Tail(<<b, f, d>>) = <<f, d>>
  BY <1>6, Firsts, NotEmpty
<1> QED
  BY <1>3, <1>7, <1>8, Zenon DEF main, a, b, d

CountMapsOf(p) == DOMAIN Examples[p].maps \cap DOMAIN CountedIn

LEMMA MonitorMaps ==
  ASSUME NEW p \in Monitors
  PROVE  /\ CountMapsOf(p) = IF p = "DiskMonitor" THEN {"read_count", "write_count"}
                             ELSE IF p = "NetworkMonitor" THEN {"send_count", "recv_count"}
                             ELSE {"mmap_count", "munmap_count", "brk_count"}
         /\ "alert_flag" \in DOMAIN Examples[p].maps <=> p # "MemoryMonitor"
         /\ \A m \in DOMAIN Examples[p].maps : Examples[p].maps[m] = Hash
<1>1. \A hook, it, ms : Example(hook, it, ms).maps = ms
  BY DEF Example
<1>2. DOMAIN CountedIn = {"read_count", "write_count", "send_count", "recv_count",
                          "mmap_count", "munmap_count", "brk_count"}
  BY DEF CountedIn
<1>3. CASE p = "DiskMonitor"
  <2>1. Examples[p].maps = [read_count |-> Hash, write_count |-> Hash, alert_flag |-> Hash]
    BY <1>1, <1>3 DEF Examples
  <2> QED
    BY <1>2, <1>3, <2>1 DEF CountMapsOf
<1>4. CASE p = "NetworkMonitor"
  <2>1. Examples[p].maps = [send_count |-> Hash, recv_count |-> Hash, alert_flag |-> Hash]
    BY <1>1, <1>4 DEF Examples
  <2> QED
    BY <1>2, <1>4, <2>1 DEF CountMapsOf
<1>5. CASE p = "MemoryMonitor"
  <2>1. Examples[p].maps = [mmap_count |-> Hash, munmap_count |-> Hash, brk_count |-> Hash]
    BY <1>1, <1>5 DEF Examples
  <2> QED
    BY <1>2, <1>5, <2>1 DEF CountMapsOf
<1> QED
  BY <1>3, <1>4, <1>5 DEF Monitors

(* Which map a call is counted in, for the program as for CountedIn. *)
LEMMA KindFacts ==
  ASSUME NEW p \in Monitors, NEW k \in KindsOf(p)
  PROVE  /\ k.id \in Int /\ k.own \in CountMapsOf(p) /\ k.own # "alert_flag"
         /\ \A map \in CountMapsOf(p) : k.id \in CountedIn[map] <=> map = k.own
         /\ \E map \in CountMapsOf(p) : map # k.own
         /\ k.alerts = TRUE \/ k.alerts = FALSE
         /\ k.alerts = TRUE <=> p # "MemoryMonitor"
         /\ k.alerts = TRUE => /\ k.other # k.own /\ CountMapsOf(p) = {k.own, k.other}
                               /\ k.other # "alert_flag"
<1> USE MonitorMaps
<1>1. /\ CountedIn["read_count"] = {0, 17, 19} /\ CountedIn["write_count"] = {1, 18, 20}
      /\ CountedIn["send_count"] = {44, 46, 307} /\ CountedIn["recv_count"] = {45, 47, 299}
      /\ CountedIn["mmap_count"] = {9} /\ CountedIn["munmap_count"] = {11}
      /\ CountedIn["brk_count"] = {12}
  BY DEF CountedIn
<1>a. \A n, own, other, text :
        LET b == Both(n, own, other, text)
        IN b.id = n /\ b.own = own /\ b.other = other /\ b.alerts = TRUE
  BY DEF Both
<1>b. \A n, own, text :
        LET b == Alone(n, own, text) IN b.id = n /\ b.own = own /\ b.alerts = FALSE
  BY DEF Alone
<1>2. CASE p = "DiskMonitor"
  <2>1. \/ k.id \in {0, 17, 19} /\ k.own = "read_count" /\ k.other = "write_count"
        \/ k.id \in {1, 18, 20} /\ k.own = "write_count" /\ k.other = "read_count"
    BY <1>2, <1>a DEF KindsOf
  <2>2. k.alerts = TRUE
    BY <1>2, <1>a DEF KindsOf
  <2>3. CountMapsOf(p) = {"read_count", "write_count"}
    BY <1>2
  <2> QED
    BY <1>1, <1>2, <2>1, <2>2, <2>3
<1>3. CASE p = "NetworkMonitor"
  <2>1. KindsOf(p) = {Both(44, "send_count", "recv_count", "sendto"),
                      Both(46, "send_count", "recv_count", "sendmsg"),
                      Both(307, "send_count", "recv_count", "sendmmsg"),
                      Both(45, "recv_count", "send_count", "recvfrom"),
                      Both(47, "recv_count", "send_count", "recvmsg"),
                      Both(299, "recv_count", "send_count", "recvmmsg")}
    BY <1>3 DEF KindsOf
  <2>2. \/ k.id \in {44, 46, 307} /\ k.own = "send_count" /\ k.other = "recv_count"
        \/ k.id \in {45, 47, 299} /\ k.own = "recv_count" /\ k.other = "send_count"
    BY <2>1, <1>a
  <2>3. k.alerts = TRUE
    BY <2>1, <1>a
  <2>4. CountMapsOf(p) = {"send_count", "recv_count"}
    BY <1>3
  <2> QED
    BY <1>1, <1>3, <2>2, <2>3, <2>4
<1>4. CASE p = "MemoryMonitor"
  <2>1. KindsOf(p) = {Alone(9, "mmap_count", "MMap"), Alone(11, "munmap_count", "Munmap"),
                      Alone(12, "brk_count", "Brk")}
    BY <1>4 DEF KindsOf
  <2>2. \/ k.id = 9 /\ k.own = "mmap_count"
        \/ k.id = 11 /\ k.own = "munmap_count"
        \/ k.id = 12 /\ k.own = "brk_count"
    BY <2>1, <1>b
  <2>3. k.alerts = FALSE
    BY <2>1, <1>b
  <2>4. CountMapsOf(p) = {"mmap_count", "munmap_count", "brk_count"}
    BY <1>4
  <2> QED
    BY <1>1, <1>4, <2>2, <2>3, <2>4
<1> QED
  BY <1>2, <1>3, <1>4 DEF Monitors

(* Every call that the promise counts is of a kind that the program does. *)
LEMMA AllAreCounted ==
  ASSUME NEW p \in Monitors, NEW map \in CountMapsOf(p), NEW id \in CountedIn[map]
  PROVE  \E k \in KindsOf(p) : k.id = id
<1> USE MonitorMaps
<1>1. /\ CountedIn["read_count"] = {0, 17, 19} /\ CountedIn["write_count"] = {1, 18, 20}
      /\ CountedIn["send_count"] = {44, 46, 307} /\ CountedIn["recv_count"] = {45, 47, 299}
      /\ CountedIn["mmap_count"] = {9} /\ CountedIn["munmap_count"] = {11}
      /\ CountedIn["brk_count"] = {12}
  BY DEF CountedIn
<1>2. /\ \A n, own, other, text : Both(n, own, other, text).id = n
      /\ \A n, own, text : Alone(n, own, text).id = n
  BY DEF Both, Alone
<1>3. CASE p = "DiskMonitor"
  <2>1. id \in {0, 17, 19, 1, 18, 20}
    BY <1>1, <1>3
  <2> QED
    BY <1>2, <1>3, <2>1 DEF KindsOf
<1>4. CASE p = "NetworkMonitor"
  <2>1. id \in {44, 46, 307, 45, 47, 299}
    BY <1>1, <1>4
  <2>2. KindsOf(p) = {Both(44, "send_count", "recv_count", "sendto"),
                      Both(46, "send_count", "recv_count", "sendmsg"),
                      Both(307, "send_count", "recv_count", "sendmmsg"),
                      Both(45, "recv_count", "send_count", "recvfrom"),
                      Both(47, "recv_count", "send_count", "recvmsg"),
                      Both(299, "recv_count", "send_count", "recvmmsg")}
    BY <1>4 DEF KindsOf
  <2> QED
    BY <1>2, <2>1, <2>2
<1>5. CASE p = "MemoryMonitor"
  <2>1. id \in {9, 11, 12}
    BY <1>1, <1>5
  <2>2. KindsOf(p) = {Alone(9, "mmap_count", "MMap"), Alone(11, "munmap_count", "Munmap"),
                      Alone(12, "brk_count", "Brk")}
    BY <1>5 DEF KindsOf
  <2> QED
    BY <1>2, <2>1, <2>2
<1> QED
  BY <1>3, <1>4, <1>5 DEF Monitors

-----------------------------------------------------------------------------
(* what is left of main at each of the places where a call of kind k may be *)
AtLookup(k) == Body(k) \o <<Return(0)>>
AtCompute(k) == Tail(AtLookup(k))
AtStore(k) == Tail(AtCompute(k))
AfterStore(k) == Tail(AtStore(k))
AtTotal(k) == Tail(AfterStore(k))
AtTest(k) == Tail(AtTotal(k))
AtLine(k) == Tail(AtTest(k))

AlertLine == Printk("alert", <<"pid", "total_calls">>)
LineOf(text) == Printk(text, <<"pid", "new_count">>)
SetAlert(n) == Store("alert_flag", V("pid"), I(n), "BPF_ANY")
GetOwn(k) == LookupOr0("count", k.own, V("pid"))
GetOther(k) == LookupOr0("total", k.other, V("pid"))
AddCall == Compute("new_count", V("count"), "+", I(1))
PutCount2(k) == Store(k.own, V("pid"), V("new_count"), "BPF_ANY")
TestTotal ==
  If(V("total_calls"), ">", I(ALERT_THRESHOLD), <<SetAlert(1), AlertLine>>, <<SetAlert(0)>>)

LEMMA Join71 ==
  ASSUME NEW a, NEW b, NEW c, NEW d, NEW e, NEW f, NEW g, NEW h
  PROVE  <<a, b, c, d, e, f, g>> \o <<h>> = <<a, b, c, d, e, f, g, h>>
<1> DEFINE S == {a, b, c, d, e, f, g, h}
           s == <<a, b, c, d, e, f, g>>
           t == <<h>>
           u == <<a, b, c, d, e, f, g, h>>
<1>1. s \in Seq(S) /\ t \in Seq(S) /\ u \in Seq(S)
  OBVIOUS
<1>2. Len(s) = 7 /\ Len(t) = 1 /\ Len(u) = 8
  OBVIOUS
<1>3. 1 .. 7 = {1, 2, 3, 4, 5, 6, 7} /\ 1 .. 1 = {1}
  OBVIOUS
<1>4. /\ u[1] = s[1] /\ u[2] = s[2] /\ u[3] = s[3] /\ u[4] = s[4] /\ u[5] = s[5] /\ u[6] = s[6]
      /\ u[7] = s[7] /\ u[7 + 1] = t[1]
  OBVIOUS
<1> HIDE DEF S, s, t, u
<1>5. Len(u) = Len(s) + Len(t)
  BY <1>2
<1>6. /\ \A i \in 1 .. Len(s) : u[i] = s[i]
      /\ \A i \in 1 .. Len(t) : u[Len(s) + i] = t[i]
  BY <1>2, <1>3, <1>4
<1>7. s \o t = u
  BY <1>1, <1>5, <1>6, JoinedIs
<1> QED
  BY <1>7 DEF s, t, u

LEMMA Join41 ==
  ASSUME NEW a, NEW b, NEW c, NEW d, NEW h
  PROVE  <<a, b, c, d>> \o <<h>> = <<a, b, c, d, h>>
<1> DEFINE S == {a, b, c, d, h}
           s == <<a, b, c, d>>
           t == <<h>>
           u == <<a, b, c, d, h>>
<1>1. s \in Seq(S) /\ t \in Seq(S) /\ u \in Seq(S)
  OBVIOUS
<1>2. Len(s) = 4 /\ Len(t) = 1 /\ Len(u) = 5
  OBVIOUS
<1>3. 1 .. 4 = {1, 2, 3, 4} /\ 1 .. 1 = {1}
  OBVIOUS
<1>4. u[1] = s[1] /\ u[2] = s[2] /\ u[3] = s[3] /\ u[4] = s[4] /\ u[4 + 1] = t[1]
  OBVIOUS
<1> HIDE DEF S, s, t, u
<1>5. Len(u) = Len(s) + Len(t)
  BY <1>2
<1>6. /\ \A i \in 1 .. Len(s) : u[i] = s[i]
      /\ \A i \in 1 .. Len(t) : u[Len(s) + i] = t[i]
  BY <1>2, <1>3, <1>4
<1>7. s \o t = u
  BY <1>1, <1>5, <1>6, JoinedIs
<1> QED
  BY <1>7 DEF s, t, u

(* q can be put after any statement *)
Follows(q) == \E S : q \in Seq(S)

LEMMA FirstOf ==
  ASSUME NEW q, Follows(q), NEW s
  PROVE  <<s>> \o q # <<>> /\ Head(<<s>> \o q) = s /\ Tail(<<s>> \o q) = q /\ <<>> \o q = q
<1>1. PICK S : q \in Seq(S)
  BY DEF Follows
<1> QED
  BY <1>1

LEMMA CodeOfCounts ==
  ASSUME NEW k, k.alerts = FALSE
  PROVE  /\ AtLookup(k) # <<>> /\ Head(AtLookup(k)) = GetOwn(k)
         /\ AtCompute(k) # <<>> /\ Head(AtCompute(k)) = AddCall /\ Follows(AtCompute(k))
         /\ AtStore(k) # <<>> /\ Head(AtStore(k)) = PutCount2(k)
         /\ AfterStore(k) = <<LineOf(k.text), Return(0)>> /\ Follows(AtLookup(k))
<1> DEFINE a == GetOwn(k)
           c == PutCount2(k)
           d == LineOf(k.text)
           e == Return(0)
<1>1. AtLookup(k) = <<a, AddCall, c, d>> \o <<e>>
  BY DEF AtLookup, Body, CountOnly, GetOwn, AddCall, PutCount2, LineOf
<1> HIDE DEF a, c, d, e
<1>2. AtLookup(k) = <<a, AddCall, c, d, e>>
  BY <1>1, Join41
<1>3. AtCompute(k) = <<AddCall, c, d, e>>
  BY <1>2 DEF AtCompute
<1>4. AtStore(k) = <<c, d, e>>
  BY <1>3 DEF AtStore
<1>5. AfterStore(k) = <<d, e>>
  BY <1>4 DEF AfterStore
<1>6. AtLookup(k) # <<>> /\ Head(AtLookup(k)) = a
  BY <1>2
<1>7. Follows(AtCompute(k)) /\ Follows(AtLookup(k))
  <2> DEFINE S == {a, AddCall, c, d, e}
             q == <<AddCall, c, d, e>>
             r == <<a, AddCall, c, d, e>>
  <2>1. q \in Seq(S) /\ r \in Seq(S)
    OBVIOUS
  <2> HIDE DEF q, r, S
  <2>2. Follows(q) /\ Follows(r)
    BY <2>1 DEF Follows
  <2> QED
    BY <1>2, <1>3, <2>2 DEF q, r
<1> QED
  BY <1>3, <1>4, <1>5, <1>6, <1>7, Firsts, NotEmpty DEF a, c, d, e

LEMMA CodeOfAlerts ==
  ASSUME NEW k, k.alerts = TRUE
  PROVE  /\ AtLookup(k) # <<>> /\ Head(AtLookup(k)) = GetOwn(k) /\ Follows(AtLookup(k))
         /\ AtCompute(k) # <<>> /\ Head(AtCompute(k)) = AddCall /\ Follows(AtCompute(k))
         /\ AtStore(k) # <<>> /\ Head(AtStore(k)) = PutCount2(k)
         /\ AfterStore(k) # <<>> /\ Head(AfterStore(k)) = GetOther(k)
         /\ AtTotal(k) # <<>> /\ Head(AtTotal(k)) = Total /\ Follows(AtTotal(k))
         /\ AtTest(k) # <<>> /\ Head(AtTest(k)) = TestTotal
         /\ AtLine(k) = <<LineOf(k.text), Return(0)>>
<1> DEFINE a == GetOwn(k)
           c == PutCount2(k)
           d == GetOther(k)
           e == Total
           f == TestTotal
           g == LineOf(k.text)
           h == Return(0)
<1>1. AtLookup(k) = <<a, AddCall, c, d, e, f, g>> \o <<h>>
  BY DEF AtLookup, Body, CountAndAlert, GetOwn, AddCall, PutCount2, LineOf, GetOther, TestTotal,
         SetAlert, AlertLine
<1> HIDE DEF a, c, d, e, f, g, h
<1>2. AtLookup(k) = <<a, AddCall, c, d, e, f, g, h>>
  BY <1>1, Join71
<1>3. AtCompute(k) = <<AddCall, c, d, e, f, g, h>>
  BY <1>2 DEF AtCompute
<1>4. AtStore(k) = <<c, d, e, f, g, h>>
  BY <1>3 DEF AtStore
<1>5. AfterStore(k) = <<d, e, f, g, h>>
  BY <1>4 DEF AfterStore
<1>6. AtTotal(k) = <<e, f, g, h>>
  BY <1>5 DEF AtTotal
<1>7. AtTest(k) = <<f, g, h>>
  BY <1>6 DEF AtTest
<1>8. AtLine(k) = <<g, h>>
  BY <1>7 DEF AtLine
<1>9. /\ AtLookup(k) # <<>> /\ Head(AtLookup(k)) = a
      /\ AtCompute(k) # <<>> /\ Head(AtCompute(k)) = AddCall
  BY <1>2, <1>3
<1>10. /\ AtStore(k) # <<>> /\ Head(AtStore(k)) = c
       /\ AfterStore(k) # <<>> /\ Head(AfterStore(k)) = d
  BY <1>4, <1>5
<1>11. Follows(AtCompute(k)) /\ Follows(AtLookup(k)) /\ Follows(AtTotal(k))
  <2> DEFINE S == {a, AddCall, c, d, e, f, g, h}
             q == <<AddCall, c, d, e, f, g, h>>
             r == <<a, AddCall, c, d, e, f, g, h>>
             s == <<e, f, g, h>>
  <2>1. q \in Seq(S) /\ r \in Seq(S) /\ s \in Seq(S)
    OBVIOUS
  <2> HIDE DEF q, r, s, S
  <2>2. Follows(q) /\ Follows(r) /\ Follows(s)
    BY <2>1 DEF Follows
  <2> QED
    BY <1>2, <1>3, <1>6, <2>2 DEF q, r, s
<1> QED
  BY <1>6, <1>7, <1>8, <1>9, <1>10, <1>11, Firsts, NotEmpty DEF a, c, d, e, f, g, h

-----------------------------------------------------------------------------
(***************************************************************************)
(* Statements of theirs, by their kind                                     *)
(***************************************************************************)

FollowOf(x, map, element) == [op |-> "follow", x |-> x, map |-> map, element |-> element]

LEMMA OfLookupOr0 ==
  ASSUME OneEach, NEW c \in Cpus, Statement(c), NEW x, NEW map, NEW k,
         Head(todo[c]) = LookupOr0(x, map, k)
  PROVE  /\ IF Has(maps[map], Value(c, k))
            THEN Becomes(c, <<FollowOf(x, map, maps[map].element[Value(c, k)])>> \o Tail(todo[c]),
                         env[c], result[c])
            ELSE Becomes(c, Tail(todo[c]), With(env[c], x, 0), result[c])
         /\ maps' = maps
<1>1. LookupElem(c)
  BY Dispatch DEF Is, LookupOr0
<1> DEFINE s == Head(todo[c])
<1>2. s.x = x /\ s.map = map /\ s.k = k /\ s.raises = FALSE
  BY DEF LookupOr0
<1> HIDE DEF s
<1>3. maps' = maps
  BY <1>1 DEF LookupElem
<1>4. CASE Has(maps[map], Value(c, k))
  <2> DEFINE q == <<FollowOf(x, map, maps[map].element[Value(c, k)])>> \o Tail(todo[c])
  <2>1. todo' = [todo EXCEPT ![c] = q] /\ UNCHANGED <<env, result>>
    BY <1>1, <1>2, <1>4, Zenon DEF LookupElem, s, FollowOf
  <2> HIDE DEF q
  <2>2. Becomes(c, q, env[c], result[c])
    BY <2>1 DEF OneEach, Becomes
  <2> QED
    BY <1>3, <1>4, <2>2 DEF q
<1>5. CASE ~Has(maps[map], Value(c, k))
  <2>1. /\ todo' = [todo EXCEPT ![c] = Tail(todo[c])]
        /\ env' = [env EXCEPT ![c] = With(env[c], x, 0)] /\ result' = result
    BY <1>1, <1>2, <1>5, Zenon DEF LookupElem, Assign, GoOn, s
  <2> QED
    BY <1>3, <1>5, <2>1 DEF OneEach, Becomes
<1> QED
  BY <1>4, <1>5

LEMMA OfFollow ==
  ASSUME OneEach, NEW c \in Cpus, Statement(c), NEW x, NEW map, NEW element,
         Head(todo[c]) = FollowOf(x, map, element)
  PROVE  /\ Becomes(c, Tail(todo[c]), With(env[c], x, Wrap(maps[map].content[element])), result[c])
         /\ maps' = maps
<1>1. Follow(c)
  BY Dispatch DEF Is, FollowOf
<1>2. /\ Head(todo[c]).x = x /\ Head(todo[c]).map = map /\ Head(todo[c]).element = element
  BY DEF FollowOf
<1>3. /\ env' = [env EXCEPT ![c] = With(env[c], x, Wrap(maps[map].content[element]))]
      /\ todo' = [todo EXCEPT ![c] = Tail(todo[c])]
      /\ UNCHANGED <<maps, result>>
  BY <1>1, <1>2 DEF Follow, Assign, GoOn
<1> QED
  BY <1>3 DEF OneEach, Becomes

(* Who runs where changes with an event or at its end only. *)
LEMMA OnlyReturnsLeave ==
  ASSUME NEW c \in Cpus, Statement(c)
  PROVE  /\ events' = events
         /\ Head(todo[c]).op # "return" => thread' = thread
         /\ Head(todo[c]).op = "return" /\ Hook # "sched_switch" =>
              thread' = [thread EXCEPT ![c] = Idle]
<1> USE DEF Elsewhere
<1>1. CASE SetInt(c) \/ ComputeInt(c) \/ CheckedOperation(c) \/ ReadClock(c)
  BY <1>1 DEF SetInt, ComputeInt, CheckedOperation, ReadClock, Is
<1>2. CASE LookupElem(c) \/ Follow(c) \/ StoreElem(c) \/ Branch(c)
  BY <1>2 DEF LookupElem, Follow, StoreElem, Branch, Is
<1>3. CASE LoadField(c) \/ StoreField(c) \/ PrintLine(c) \/ RaiseException(c)
  BY <1>3 DEF LoadField, StoreField, PrintLine, RaiseException, Is
<1>4. CASE ReturnFromMain(c)
  BY <1>4 DEF ReturnFromMain, Is
<1> QED
  BY <1>1, <1>2, <1>3, <1>4 DEF Statement

(***************************************************************************)
(* bpf_get_current_pid_tgid() in an int is the thread.                     *)
(***************************************************************************)
LEMMA ThreadOfPair ==
  ASSUME NEW t \in Threads, NEW n \in Int
  PROVE  Wrap(n * WORD + t) = t /\ t \in Int /\ t # 0
<1>1. INT_MAX \in Nat /\ t \in Nat /\ 1 <= t /\ t <= INT_MAX
  BY GeneratedCAssumption
<1>2. WORD \in Nat /\ WORD > 0 /\ t + INT_MAX + 1 \in 0 .. WORD - 1
  BY <1>1 DEF WORD
<1>3. (n * WORD + (t + INT_MAX + 1)) % WORD = t + INT_MAX + 1
  BY <1>2, ModOfMultiple
<1>4. n * WORD + (t + INT_MAX + 1) = (n * WORD + t) + INT_MAX + 1
  <2>1. n * WORD \in Int
    BY <1>2
  <2> QED
    BY <1>1, <2>1
<1> HIDE DEF WORD
<1>5. ((n * WORD + t) + INT_MAX + 1) % WORD = t + INT_MAX + 1
  BY <1>3, <1>4
<1> QED
  BY <1>1, <1>5 DEF Wrap

-----------------------------------------------------------------------------
(***************************************************************************)
(* Where a CPU may be in main, and the statements that take it on          *)
(***************************************************************************)

(* a thread's count, which is 0 where there is none *)
Current(m, t) == IF Has(m, t) THEN At(m, t) ELSE 0

(* what the event says, and what main takes from it *)
Says(e, t) ==
  /\ t \in Threads /\ {"pid_tgid", "ctx.id"} \subseteq DOMAIN e
  /\ Wrap(e["pid_tgid"]) = t /\ Wrap(e["ctx.id"]) = e["ctx.id"]
Knows(e, t) ==
  Says(e, t) /\ {"pid", "syscall_id"} \subseteq DOMAIN e
             /\ e["pid"] = t /\ e["syscall_id"] = e["ctx.id"]

(***************************************************************************)
(* Where a monitor is on a CPU that has q still to run for thread t: it    *)
(* takes the call's numbers, looks for its kind, counts it, and, where     *)
(* there is an alert, raises or clears it.                                 *)
(***************************************************************************)
Begun(q, e, t) ==
  /\ Says(e, t)
  /\ \/ q = Examples[program].main
     \/ /\ q = Tail(Examples[program].main)
        /\ IF program = "MemoryMonitor"
             THEN "syscall_id" \in DOMAIN e /\ e["syscall_id"] = e["ctx.id"]
             ELSE "pid" \in DOMAIN e /\ e["pid"] = t

StillListed(i, id) ==
  \A k \in KindsOf(program) :
    k.id = id => \E j \in i .. Len(ClausesOf(program)) : ClausesOf(program)[j] = ClauseOf(k)

Asking(q, e, t) ==
  /\ Knows(e, t)
  /\ \E i \in 1 .. Len(ClausesOf(program)) :
       q = AskFrom(program, i) \o <<Return(0)>> /\ StillListed(i, e["ctx.id"])

Counting(k, q, e, t, ms) ==
  LET m == ms[k.own] IN
    \/ q = AtLookup(k)
    \/ Has(m, t) /\ q = <<FollowOf("count", k.own, m.element[t])>> \o AtCompute(k)
    \/ q = AtCompute(k) /\ e["count"] = Current(m, t)
    \/ /\ q = AtStore(k) /\ "new_count" \in DOMAIN e
       /\ e["new_count"] = Current(m, t) + 1

HasNew(k, e, t, ms) ==
  /\ "new_count" \in DOMAIN e
  /\ Has(ms[k.own], t) => e["new_count"] = At(ms[k.own], t)
SumOf(k, t, ms) == At(ms[k.own], t) + Current(ms[k.other], t)

Alerting(k, q, e, t, ms) ==
  LET m == ms[k.own]
      other == ms[k.other]
  IN \/ q = AfterStore(k) /\ HasNew(k, e, t, ms)
     \/ /\ Has(other, t) /\ q = <<FollowOf("total", k.other, other.element[t])>> \o AtTotal(k)
        /\ HasNew(k, e, t, ms)
     \/ q = AtTotal(k) /\ HasNew(k, e, t, ms) /\ e["total"] = Current(other, t)
     \/ q = AtTest(k) /\ (Has(m, t) => e["total_calls"] = SumOf(k, t, ms))
     \/ /\ q = <<SetAlert(1), AlertLine>> \o AtLine(k)
        /\ Has(m, t) => SumOf(k, t, ms) > ALERT_THRESHOLD
     \/ /\ q = <<SetAlert(0)>> \o AtLine(k)
        /\ Has(m, t) => ~(SumOf(k, t, ms) > ALERT_THRESHOLD)

Ends(q) ==
  \E text : q \in {<<AlertLine, LineOf(text), Return(0)>>, <<LineOf(text), Return(0)>>,
                   <<Return(0)>>}

OfKind(k, q, e, t, ms) ==
  /\ Knows(e, t) /\ e["ctx.id"] = k.id
  /\ Counting(k, q, e, t, ms) \/ (k.alerts = TRUE /\ Alerting(k, q, e, t, ms))

Place(q, e, t, ms) ==
  \/ q = <<>>
  \/ Begun(q, e, t)
  \/ Asking(q, e, t)
  \/ \E k \in KindsOf(program) : OfKind(k, q, e, t, ms)
  \/ Ends(q) /\ Says(e, t)

(* s comes after the call is counted; before its alert is set *)
Past(s) ==
  \/ s.op \in {"printk", "return"} \/ (s.op = "if" /\ s.rel = ">")
  \/ s.op = "store" /\ s.map = "alert_flag"
  \/ s.op \in {"lookup", "follow"} /\ s.x = "total"
  \/ s.op = "compute" /\ s.x = "total_calls"
Counts(q, e, map) == q # <<>> /\ Past(Head(q)) /\ e["ctx.id"] \in CountedIn[map]
WillCount(q) == q # <<>> /\ ~Past(Head(q))
Decides(q) == q # <<>> /\ Past(Head(q)) /\ Head(q).op \notin {"printk", "return"}

LEMMA PastIs ==
  ASSUME NEW k, k.own # "alert_flag"
  PROVE  /\ ~Past(GetOwn(k)) /\ ~Past(AddCall) /\ ~Past(PutCount2(k))
         /\ \A element : ~Past(FollowOf("count", k.own, element))
         /\ Past(GetOther(k)) /\ Past(Total) /\ Past(TestTotal)
         /\ \A element : Past(FollowOf("total", k.other, element))
         /\ \A n : Past(SetAlert(n))
         /\ Past(AlertLine) /\ \A text : Past(LineOf(text)) /\ \A n : Past(Return(n))
<1> USE DEF Past
<1>1. ~Past(GetOwn(k)) /\ ~Past(AddCall) /\ ~Past(PutCount2(k))
  BY DEF GetOwn, LookupOr0, AddCall, Compute, PutCount2, Store
<1>2. /\ \A element : ~Past(FollowOf("count", k.own, element))
      /\ \A element : Past(FollowOf("total", k.other, element))
  BY DEF FollowOf
<1>3. Past(GetOther(k)) /\ Past(Total) /\ Past(TestTotal) /\ \A n : Past(SetAlert(n))
  BY DEF GetOther, LookupOr0, Total, Compute, TestTotal, If, SetAlert, Store
<1>4. Past(AlertLine) /\ \A text : Past(LineOf(text)) /\ \A n : Past(Return(n))
  BY DEF AlertLine, LineOf, Printk, Return
<1> QED
  BY <1>1, <1>2, <1>3, <1>4

LEMMA OpsAre ==
  ASSUME NEW k
  PROVE  /\ GetOwn(k).op = "lookup" /\ AddCall.op = "compute" /\ PutCount2(k).op = "store"
         /\ GetOther(k).op = "lookup" /\ Total.op = "compute" /\ TestTotal.op = "if"
         /\ \A n : SetAlert(n).op = "store" /\ Return(n).op = "return"
         /\ \A x, map, element : FollowOf(x, map, element).op = "follow"
         /\ AlertLine.op = "printk" /\ \A text : LineOf(text).op = "printk"
         /\ \A x, a : Set(x, a).op = "set" /\ ~Past(Set(x, a))
         /\ \A a, b, then, else : If(a, "==", b, then, else).op = "if"
                                  /\ ~Past(If(a, "==", b, then, else))
<1>1. GetOwn(k).op = "lookup" /\ AddCall.op = "compute" /\ PutCount2(k).op = "store"
  BY DEF GetOwn, LookupOr0, AddCall, Compute, PutCount2, Store
<1>2. GetOther(k).op = "lookup" /\ Total.op = "compute" /\ TestTotal.op = "if"
  BY DEF GetOther, LookupOr0, Total, Compute, TestTotal, If
<1>3. /\ \A n : SetAlert(n).op = "store" /\ Return(n).op = "return"
      /\ \A x, map, element : FollowOf(x, map, element).op = "follow"
      /\ AlertLine.op = "printk" /\ \A text : LineOf(text).op = "printk"
  BY DEF SetAlert, Store, Return, FollowOf, AlertLine, LineOf, Printk
<1>4. \A x, a : Set(x, a).op = "set" /\ ~Past(Set(x, a))
  BY DEF Set, Past
<1>5. \A a, b, then, else : If(a, "==", b, then, else).op = "if"
                            /\ ~Past(If(a, "==", b, then, else))
  BY DEF If, Past
<1> QED
  BY <1>1, <1>2, <1>3, <1>4, <1>5

(***************************************************************************)
(* What a statement of a monitor's does: it goes on, counts the call, sets *)
(* the alert, or is over.                                                  *)
(***************************************************************************)
Stays(c) ==
  /\ UNCHANGED <<happened, thread, events>> /\ todo'[c] # <<>>
  /\ env'[c]["ctx.id"] = env[c]["ctx.id"]

CallGoesOn(c) ==
  /\ Stays(c) /\ maps' = maps /\ Place(todo'[c], env'[c], thread[c], maps)
  /\ \A map \in CountMapsOf(program) :
       Counts(todo'[c], env'[c], map) <=> Counts(todo[c], env[c], map)
  /\ WillCount(todo'[c]) => WillCount(todo[c])
  /\ Decides(todo'[c]) <=> Decides(todo[c])

CountsCall(c, k) ==
  LET m == maps[k.own]
      t == thread[c]
  IN /\ Stays(c) /\ WillCount(todo[c]) /\ OfKind(k, todo[c], env[c], t, maps)
     /\ todo'[c] = AfterStore(k) /\ env'[c] = env[c]
     /\ "new_count" \in DOMAIN env[c] /\ env[c]["new_count"] = Current(m, t) + 1
     /\ maps' = [maps EXCEPT ![k.own] = Update(m, c, t, Current(m, t) + 1, "BPF_ANY")]

SetsAlert(c, k) ==
  LET t == thread[c]
  IN /\ Stays(c) /\ Decides(todo[c]) /\ OfKind(k, todo[c], env[c], t, maps) /\ k.alerts = TRUE
     /\ Ends(todo'[c]) /\ env'[c] = env[c]
     /\ \E v \in {0, 1} :
          /\ Has(maps[k.own], t) => (v = 1 <=> SumOf(k, t, maps) > ALERT_THRESHOLD)
          /\ maps' = [maps EXCEPT !["alert_flag"] =
                         Update(maps["alert_flag"], c, t, v, "BPF_ANY")]

CallIsOver(c) ==
  /\ maps' = maps /\ events' = events /\ todo'[c] = <<>>
  /\ thread' = [thread EXCEPT ![c] = Idle]
  /\ happened' = With(happened, Subject(c), Times(Subject(c)) + 1)
  /\ todo[c] = <<Return(0)>> /\ Says(env[c], thread[c])

(* The counts of t fit an int, and another one does if a call is under way. *)
Small(t, w) ==
  \A a, b \in CountMapsOf(program) :
    a # b => /\ Current(maps[a], t) \in Nat /\ Current(maps[b], t) \in Nat
             /\ Current(maps[a], t) + Current(maps[b], t) + (IF w THEN 1 ELSE 0) <= INT_MAX

(* All clauses compare for equality. *)
LEMMA RelIs ==
  ASSUME program \in Monitors, NEW i \in 1 .. Len(ClausesOf(program))
  PROVE  ClausesOf(program)[i].rel = "=="
<1>1. PidIs0.rel = "==" /\ \A k : ClauseOf(k).rel = "=="
  BY DEF PidIs0, ClauseOf, OnSyscall, Clause
<1> QED
  BY <1>1, ClausesAre

LEMMA BegunSteps ==
  ASSUME OneEach, program \in Monitors, NEW c \in Cpus, Statement(c),
         Begun(todo[c], env[c], thread[c])
  PROVE  CallGoesOn(c)
<1> DEFINE t == thread[c]
           main == Examples[program].main
           e1 == With(env[c], "pid", t)
           e2 == With(env[c], "syscall_id", env[c]["ctx.id"])
<1>1. /\ main # <<>> /\ Head(main) = FirstSet(program)
      /\ Tail(main) # <<>> /\ Head(Tail(main)) = SecondSet(program)
      /\ Tail(Tail(main)) = AskFrom(program, 1) \o <<Return(0)>>
  BY MainIs
<1>2. Says(env[c], t)
  BY DEF Begun
<1>3. /\ Says(e1, t) /\ e1["pid"] = t /\ "pid" \in DOMAIN e1
      /\ e1["ctx.id"] = env[c]["ctx.id"] /\ DOMAIN env[c] \subseteq DOMAIN e1
      /\ "syscall_id" \in DOMAIN env[c] => e1["syscall_id"] = env[c]["syscall_id"]
  BY <1>2 DEF Says, With
<1>4. /\ Says(e2, t) /\ e2["syscall_id"] = env[c]["ctx.id"] /\ "syscall_id" \in DOMAIN e2
      /\ e2["ctx.id"] = env[c]["ctx.id"] /\ DOMAIN env[c] \subseteq DOMAIN e2
      /\ "pid" \in DOMAIN env[c] => e2["pid"] = env[c]["pid"]
  BY <1>2 DEF Says, With
<1>5. ASSUME Head(todo[c]) = SetPid
      PROVE  todo'[c] = Tail(todo[c]) /\ env'[c] = e1 /\ maps' = maps
  <2>1. Becomes(c, Tail(todo[c]), With(env[c], "pid", Wrap(Value(c, V("pid_tgid")))), result[c])
        /\ maps' = maps
    BY <1>5, OfSet DEF SetPid
  <2> QED
    BY <1>2, <2>1, ValueOf DEF Becomes, Says
<1>6. ASSUME Head(todo[c]) = SetId
      PROVE  todo'[c] = Tail(todo[c]) /\ env'[c] = e2 /\ maps' = maps
  <2>1. Becomes(c, Tail(todo[c]), With(env[c], "syscall_id", Wrap(Value(c, V("ctx.id")))), result[c])
        /\ maps' = maps
    BY <1>6, OfSet DEF SetId
  <2> QED
    BY <1>2, <2>1, ValueOf DEF Becomes, Says
<1> HIDE DEF e1, e2
<1>7. Head(todo[c]) \in {SetPid, SetId}
  BY <1>1 DEF Begun, FirstSet, SecondSet
<1>8. ~Past(Head(todo[c])) /\ Head(todo[c]).op = "set" /\ Head(todo[c]).op # "return"
  BY <1>7, OpsAre DEF SetPid, SetId
<1>9. UNCHANGED <<happened, thread, events>> /\ maps' = maps
      /\ env'[c]["ctx.id"] = env[c]["ctx.id"]
  BY <1>3, <1>4, <1>5, <1>6, <1>7, <1>8, OnlyReturnsHappen, OnlyReturnsLeave
<1>10. CASE todo[c] = main
  <2>1. todo'[c] = Tail(main) /\ Begun(todo'[c], env'[c], t)
    BY <1>1, <1>3, <1>4, <1>5, <1>6, <1>10 DEF FirstSet, Begun
  <2>2. Head(todo'[c]) \in {SetPid, SetId} /\ todo'[c] # <<>>
    BY <1>1, <2>1 DEF SecondSet
  <2>3. ~Past(Head(todo'[c]))
    BY <2>2, OpsAre DEF SetPid, SetId
  <2> QED
    BY <1>1, <1>8, <1>9, <1>10, <2>1, <2>2, <2>3
       DEF CallGoesOn, Stays, Place, Counts, WillCount, Decides
<1>11. CASE todo[c] = Tail(main) /\ todo[c] # main
  <2>1. todo'[c] = AskFrom(program, 1) \o <<Return(0)>>
    BY <1>1, <1>5, <1>6, <1>7, <1>11
  <2>2. Knows(env'[c], t)
    <3>1. CASE program = "MemoryMonitor"
      <4>1. Head(todo[c]) = SetPid
        BY <1>1, <1>11, <3>1 DEF SecondSet
      <4>2. "syscall_id" \in DOMAIN env[c] /\ env[c]["syscall_id"] = env[c]["ctx.id"]
        BY <1>11, <3>1 DEF Begun
      <4> QED
        BY <1>3, <1>5, <4>1, <4>2 DEF Knows
    <3>2. CASE program # "MemoryMonitor"
      <4>1. Head(todo[c]) = SetId
        BY <1>1, <1>11, <3>2 DEF SecondSet
      <4>2. "pid" \in DOMAIN env[c] /\ env[c]["pid"] = t
        BY <1>11, <3>2 DEF Begun
      <4> QED
        BY <1>4, <1>6, <4>1, <4>2 DEF Knows
    <3> QED
      BY <3>1, <3>2
  <2>3. Asking(todo'[c], env'[c], t)
    <3>1. 1 \in 1 .. Len(ClausesOf(program))
      BY AskIs
    <3>2. \A id : StillListed(1, id)
      BY ClausesAre DEF StillListed
    <3> QED
      BY <2>1, <2>2, <3>1, <3>2 DEF Asking
  <2>4. todo'[c] # <<>> /\ ~Past(Head(todo'[c]))
    <3>1. 1 \in 1 .. Len(ClausesOf(program))
      BY AskIs
    <3> DEFINE cl == ClausesOf(program)[1]
               s == If(cl.a, cl.rel, cl.b, cl.body, AskFrom(program, 2))
    <3>2. AskFrom(program, 1) = <<s>>
      BY <3>1, AskIs
    <3>3. cl.rel = "=="
      BY <3>1, RelIs
    <3>4. ~Past(s)
      BY <3>3, OpsAre
    <3> HIDE DEF s, cl
    <3>5. todo'[c] = <<s, Return(0)>>
      BY <2>1, <3>2, Join11
    <3> QED
      BY <3>4, <3>5
  <2> QED
    BY <1>1, <1>8, <1>9, <1>11, <2>3, <2>4
       DEF CallGoesOn, Stays, Place, Counts, WillCount, Decides
<1> QED
  BY <1>10, <1>11 DEF Begun

ClauseFacts(cl, k) ==
  cl.a = V("syscall_id") /\ cl.rel = "==" /\ cl.b = I(k.id) /\ cl.body = Body(k)

LEMMA ClauseIs ==
  /\ \A k : ClauseFacts(ClauseOf(k), k)
  /\ PidIs0.a = V("pid") /\ PidIs0.rel = "==" /\ PidIs0.b = I(0) /\ PidIs0.body = <<>>
  /\ V("pid") # V("syscall_id") /\ \A m, n : I(m) = I(n) => m = n
<1>1. /\ V("pid").name = "pid" /\ V("syscall_id").name = "syscall_id" /\ \A m : I(m).n = m
  BY DEF V, I
<1> QED
  BY <1>1 DEF ClauseFacts, ClauseOf, OnSyscall, PidIs0, Clause

LEMMA AskHead ==
  ASSUME program \in Monitors, NEW i \in 1 .. Len(ClausesOf(program))
  PROVE  LET cl == ClausesOf(program)[i]
             q == AskFrom(program, i) \o <<Return(0)>>
             s == If(cl.a, cl.rel, cl.b, cl.body, AskFrom(program, i + 1))
         IN q # <<>> /\ Head(q) = s /\ Tail(q) = <<Return(0)>> /\ ~Past(s) /\ s.op # "return"
<1> DEFINE cl == ClausesOf(program)[i]
           s == If(cl.a, cl.rel, cl.b, cl.body, AskFrom(program, i + 1))
           q == AskFrom(program, i) \o <<Return(0)>>
<1>1. AskFrom(program, i) = <<s>>
  BY AskIs
<1>2. ~Past(s) /\ s.op # "return"
  BY RelIs, OpsAre
<1> HIDE DEF s, cl
<1>3. q = <<s, Return(0)>>
  BY <1>1, Join11
<1> HIDE DEF q
<1>4. q # <<>> /\ Head(q) = s /\ Tail(q) = <<Return(0)>>
  BY <1>3
<1> QED
  BY <1>2, <1>4 DEF q, s, cl

(* The end of main, for a call that nobody counts. *)
LEMMA ReturnEnds ==
  LET q == <<Return(0)>>
  IN q # <<>> /\ Head(q) = Return(0) /\ Ends(q) /\ Past(Head(q)) /\ Head(q).op = "return"
<1>1. Return(0).op = "return" /\ Past(Return(0))
  BY OpsAre DEF Past
<1> QED
  BY <1>1 DEF Ends

LEMMA AskingSteps ==
  ASSUME OneEach, program \in Monitors, NEW c \in Cpus, Statement(c),
         Asking(todo[c], env[c], thread[c])
  PROVE  CallGoesOn(c)
<1> DEFINE t == thread[c]
           id == env[c]["ctx.id"]
           n == Len(ClausesOf(program))
<1>1. PICK i \in 1 .. n : todo[c] = AskFrom(program, i) \o <<Return(0)>> /\ StillListed(i, id)
  BY DEF Asking
<1>2. Knows(env[c], t) /\ n \in Nat
  BY AskIs DEF Asking
<1> DEFINE cl == ClausesOf(program)[i]
           s == If(cl.a, cl.rel, cl.b, cl.body, AskFrom(program, i + 1))
<1>3. /\ todo[c] # <<>> /\ Head(todo[c]) = s /\ Tail(todo[c]) = <<Return(0)>>
      /\ ~Past(Head(todo[c])) /\ Head(todo[c]).op # "return"
  BY <1>1, AskHead
<1>4. cl.rel = "=="
  BY RelIs
<1> DEFINE else == AskFrom(program, i + 1)
<1> HIDE DEF cl, else
<1>a. Head(todo[c]) = If(cl.a, "==", cl.b, cl.body, else)
  BY <1>3, <1>4 DEF else
<1>b. \A a, b : Holds(a, "==", b) <=> a = b
  BY DEF Holds
<1>c. /\ env'[c] = env[c]
      /\ Value(c, cl.a) = Value(c, cl.b) => todo'[c] = cl.body \o Tail(todo[c])
      /\ Value(c, cl.a) # Value(c, cl.b) => todo'[c] = else \o Tail(todo[c])
  <2>1. /\ env'[c] = env[c]
        /\ Holds(Value(c, cl.a), "==", Value(c, cl.b)) => todo'[c] = cl.body \o Tail(todo[c])
        /\ ~Holds(Value(c, cl.a), "==", Value(c, cl.b)) => todo'[c] = else \o Tail(todo[c])
    <3> DEFINE a == cl.a
               b == cl.b
               then == cl.body
               rel == "=="
    <3>1. Head(todo[c]) = If(a, rel, b, then, else)
      BY <1>a
    <3> HIDE DEF a, b, then, rel
    <3>2. /\ env'[c] = env[c]
          /\ Holds(Value(c, a), rel, Value(c, b)) => todo'[c] = then \o Tail(todo[c])
          /\ ~Holds(Value(c, a), rel, Value(c, b)) => todo'[c] = else \o Tail(todo[c])
      BY <3>1, IfGoes
    <3> QED
      BY <3>2 DEF a, b, then, rel
  <2> QED
    BY <1>b, <2>1
<1>5. /\ env'[c] = env[c]
      /\ Value(c, cl.a) = Value(c, cl.b) => todo'[c] = cl.body \o <<Return(0)>>
      /\ Value(c, cl.a) # Value(c, cl.b) => todo'[c] = AskFrom(program, i + 1) \o <<Return(0)>>
  BY <1>3, <1>c DEF else
<1>6. maps' = maps /\ UNCHANGED <<happened, thread, events>>
  <2>1. maps' = maps
    BY <1>3, OfIf
  <2> QED
    BY <1>3, <2>1, OnlyReturnsHappen, OnlyReturnsLeave
<1> HIDE DEF s
<1>7. ASSUME ~Past(Head(todo'[c])), todo'[c] # <<>>, Place(todo'[c], env'[c], t, maps)
      PROVE  CallGoesOn(c)
  BY <1>3, <1>5, <1>6, <1>7 DEF CallGoesOn, Stays, Counts, WillCount, Decides
<1>8. ASSUME \A k \in KindsOf(program) : k.id # id, todo'[c] = <<Return(0)>>
      PROVE  CallGoesOn(c)
  <2>1. \A map \in CountMapsOf(program) : id \notin CountedIn[map]
    BY <1>8, AllAreCounted
  <2>2. Place(todo'[c], env'[c], t, maps)
    BY <1>2, <1>5, <1>8, ReturnEnds DEF Place, Knows
  <2> QED
    BY <1>3, <1>5, <1>6, <1>8, <2>1, <2>2, ReturnEnds
       DEF CallGoesOn, Stays, Counts, WillCount, Decides
<1>9. ASSUME todo'[c] = AskFrom(program, i + 1) \o <<Return(0)>>, StillListed(i + 1, id)
      PROVE  CallGoesOn(c)
  <2>1. CASE i + 1 \in 1 .. n
    <3>1. Asking(todo'[c], env'[c], t)
      BY <1>2, <1>5, <1>9, <2>1 DEF Asking
    <3>2. todo'[c] # <<>> /\ ~Past(Head(todo'[c]))
      BY <1>9, <2>1, AskHead
    <3> QED
      BY <1>7, <3>1, <3>2 DEF Place
  <2>2. CASE i = n
    <3>1. AskFrom(program, i + 1) = <<>>
      BY <2>2, AskIs
    <3>2. <<>> \o <<Return(0)>> = <<Return(0)>>
      BY Join01
    <3>3. \A k \in KindsOf(program) : k.id # id
      BY <1>2, <1>9, <2>2 DEF StillListed
    <3> QED
      BY <1>8, <1>9, <3>1, <3>2, <3>3
  <2> QED
    BY <1>2, <2>1, <2>2
<1>10. CASE cl = PidIs0
  <2>1. Value(c, cl.a) = t /\ Value(c, cl.b) = 0
    <3>1. cl.a = V("pid") /\ cl.b = I(0)
      BY <1>10, ClauseIs
    <3>2. Value(c, V("pid")) = env[c]["pid"] /\ Value(c, I(0)) = 0
      BY ValueOf
    <3> QED
      BY <1>2, <3>1, <3>2 DEF Knows
  <2>2. t # 0
    BY <1>2, GeneratedCAssumption DEF Knows, Says
  <2>3. StillListed(i + 1, id)
    <3> SUFFICES ASSUME NEW k \in KindsOf(program), k.id = id
                 PROVE  \E j \in i + 1 .. n : ClausesOf(program)[j] = ClauseOf(k)
      BY DEF StillListed
    <3>1. PICK j \in i .. n : ClausesOf(program)[j] = ClauseOf(k)
      BY <1>1 DEF StillListed
    <3>2. j # i
      BY <1>10, <3>1, ClauseIs DEF cl, ClauseFacts
    <3> QED
      BY <1>2, <3>1, <3>2
  <2> QED
    BY <1>5, <1>9, <2>1, <2>2, <2>3
<1>11. ASSUME NEW k \in KindsOf(program), cl = ClauseOf(k)  PROVE CallGoesOn(c)
  <2>1. ClauseFacts(cl, k)
    BY <1>11, ClauseIs
  <2>2. Value(c, cl.a) = id /\ Value(c, cl.b) = k.id
    <3>1. cl.a = V("syscall_id") /\ cl.b = I(k.id)
      BY <2>1 DEF ClauseFacts
    <3>2. Value(c, V("syscall_id")) = env[c]["syscall_id"] /\ Value(c, I(k.id)) = k.id
      BY ValueOf
    <3> QED
      BY <1>2, <3>1, <3>2 DEF Knows
  <2>3. CASE id = k.id
    <3>1. todo'[c] = AtLookup(k)
      BY <1>5, <2>1, <2>2, <2>3 DEF AtLookup, ClauseFacts
    <3>2. todo'[c] # <<>> /\ Head(todo'[c]) = GetOwn(k)
      <4>1. k.alerts = TRUE \/ k.alerts = FALSE
        BY KindFacts
      <4> QED
        BY <3>1, <4>1, CodeOfCounts, CodeOfAlerts
    <3>3. ~Past(Head(todo'[c]))
      <4>1. ~Past(GetOwn(k))
        BY PastIs, KindFacts
      <4> QED
        BY <3>2, <4>1
    <3>4. OfKind(k, todo'[c], env'[c], t, maps)
      BY <1>2, <1>5, <2>3, <3>1 DEF OfKind, Counting
    <3> QED
      BY <1>7, <3>2, <3>3, <3>4 DEF Place
  <2>4. CASE id # k.id
    <3>1. StillListed(i + 1, id)
      <4> SUFFICES ASSUME NEW l \in KindsOf(program), l.id = id
                   PROVE  \E j \in i + 1 .. n : ClausesOf(program)[j] = ClauseOf(l)
        BY DEF StillListed
      <4>1. PICK j \in i .. n : ClausesOf(program)[j] = ClauseOf(l)
        BY <1>1 DEF StillListed
      <4>2. ASSUME j = i  PROVE FALSE
        <5>1. ClauseFacts(cl, l)
          BY <4>1, <4>2, ClauseIs DEF cl
        <5> QED
          BY <2>1, <2>4, <5>1, ClauseIs DEF ClauseFacts
      <4> QED
        BY <1>2, <4>1, <4>2
    <3> QED
      BY <1>5, <1>9, <2>2, <2>4, <3>1
  <2> QED
    BY <2>3, <2>4
<1> QED
  BY <1>10, <1>11, ClausesAre DEF cl

LEMMA KnowsMore ==
  ASSUME NEW e, NEW t, Knows(e, t), NEW x \in {"count", "new_count", "total", "total_calls"}, NEW n
  PROVE  LET f == With(e, x, n)
         IN /\ Knows(f, t) /\ f["ctx.id"] = e["ctx.id"] /\ f[x] = n /\ x \in DOMAIN f
            /\ \A y \in DOMAIN e : y \in DOMAIN f /\ (y # x => f[y] = e[y])
<1> DEFINE f == With(e, x, n)
<1>1. /\ DOMAIN f = DOMAIN e \cup {x} /\ f[x] = n
      /\ \A y \in DOMAIN e : y # x => f[y] = e[y]
  BY DEF With
<1> HIDE DEF f
<1>2. x # "pid" /\ x # "syscall_id" /\ x # "pid_tgid" /\ x # "ctx.id"
  OBVIOUS
<1>3. Knows(f, t) /\ f["ctx.id"] = e["ctx.id"]
  BY <1>1, <1>2 DEF Knows, Says
<1> QED
  BY <1>1, <1>3 DEF f

(* Most statements leave it open whether the call is counted, and its alert set. *)
LEMMA GoesOnAsBefore ==
  ASSUME NEW c \in Cpus, Statement(c), maps' = maps, todo[c] # <<>>, todo'[c] # <<>>,
         env'[c]["ctx.id"] = env[c]["ctx.id"], Head(todo[c]).op # "return",
         Past(Head(todo'[c])) <=> Past(Head(todo[c])),
         Head(todo'[c]).op \in {"printk", "return"} <=> Head(todo[c]).op \in {"printk", "return"},
         Place(todo'[c], env'[c], thread[c], maps)
  PROVE  CallGoesOn(c)
<1>1. UNCHANGED <<happened, thread, events>>
  BY OnlyReturnsHappen, OnlyReturnsLeave
<1> QED
  BY <1>1 DEF CallGoesOn, Stays, Counts, WillCount, Decides

LEMMA CodeIs ==
  ASSUME program \in Monitors, NEW k \in KindsOf(program)
  PROVE  /\ AtLookup(k) # <<>> /\ Head(AtLookup(k)) = GetOwn(k)
         /\ AtCompute(k) # <<>> /\ Head(AtCompute(k)) = AddCall /\ Follows(AtCompute(k))
         /\ AtStore(k) # <<>> /\ Head(AtStore(k)) = PutCount2(k)
         /\ AfterStore(k) # <<>> /\ k.own # "alert_flag"
<1>1. (k.alerts = TRUE \/ k.alerts = FALSE) /\ k.own # "alert_flag"
  BY KindFacts
<1>2. CASE k.alerts = TRUE
  BY <1>1, <1>2, CodeOfAlerts
<1>3. CASE k.alerts = FALSE
  BY <1>1, <1>3, CodeOfCounts, NotEmpty
<1> QED
  BY <1>1, <1>2, <1>3

LEMMA SmallOwn ==
  ASSUME program \in Monitors, NEW k \in KindsOf(program), NEW t, Small(t, TRUE)
  PROVE  /\ Current(maps[k.own], t) \in Nat
         /\ Wrap(Current(maps[k.own], t)) = Current(maps[k.own], t)
         /\ Wrap(Current(maps[k.own], t) + 1) = Current(maps[k.own], t) + 1
<1> DEFINE n == Current(maps[k.own], t)
<1>1. PICK map \in CountMapsOf(program) : map # k.own
  BY KindFacts
<1> DEFINE m == Current(maps[map], t)
<1>2. n \in Nat /\ m \in Nat /\ n + m + 1 <= INT_MAX
  BY <1>1, KindFacts DEF Small
<1>3. INT_MAX \in Nat
  BY GeneratedCAssumption
<1> HIDE DEF n, m
<1>4. IsInt(n) /\ IsInt(n + 1)
  BY <1>2, <1>3 DEF IsInt
<1> QED
  BY <1>2, <1>4, WrapOfInt DEF n

LEMMA CountingSteps ==
  ASSUME OneEach, program \in Monitors, NEW c \in Cpus, Statement(c),
         NEW k \in KindsOf(program), OfKind(k, todo[c], env[c], thread[c], maps),
         Counting(k, todo[c], env[c], thread[c], maps), Small(thread[c], TRUE)
  PROVE  CallGoesOn(c) \/ CountsCall(c, k)
<1> DEFINE t == thread[c]
           m == maps[k.own]
           n == Current(m, t)
           get == FollowOf("count", k.own, m.element[t])
<1>1. Knows(env[c], t) /\ env[c]["ctx.id"] = k.id
  BY DEF OfKind
<1>2. /\ n \in Nat /\ Wrap(n) = n /\ Wrap(n + 1) = n + 1
  BY SmallOwn
<1>3. Value(c, V("pid")) = t
  BY <1>1, ValueOf DEF Knows
<1>4. Has(m, t) => n = At(m, t)
  BY DEF Current
<1>5. ~Has(m, t) => n = 0
  BY DEF Current
<1>6. /\ ~Past(GetOwn(k)) /\ GetOwn(k).op = "lookup"
      /\ ~Past(AddCall) /\ AddCall.op = "compute"
      /\ ~Past(PutCount2(k)) /\ PutCount2(k).op = "store"
      /\ ~Past(get) /\ get.op = "follow"
  <2>1. k.own # "alert_flag"
    BY CodeIs
  <2>2. ~Past(GetOwn(k)) /\ ~Past(AddCall) /\ ~Past(PutCount2(k)) /\ ~Past(get)
    BY <2>1, PastIs
  <2> QED
    BY <2>2, OpsAre
<1>7. ASSUME maps' = maps, OfKind(k, todo'[c], env'[c], t, maps), todo[c] # <<>>, todo'[c] # <<>>,
             Head(todo[c]) \in {GetOwn(k), AddCall, get},
             Head(todo'[c]) \in {get, AddCall, PutCount2(k)}
      PROVE  CallGoesOn(c)
  <2>1. /\ ~Past(Head(todo[c])) /\ Head(todo[c]).op \notin {"printk", "return"}
        /\ ~Past(Head(todo'[c])) /\ Head(todo'[c]).op \notin {"printk", "return"}
    BY <1>6, <1>7
  <2>2. env'[c]["ctx.id"] = env[c]["ctx.id"]
    BY <1>1, <1>7 DEF OfKind
  <2>3. Place(todo'[c], env'[c], thread[c], maps)
    BY <1>7 DEF Place
  <2> QED
    BY <1>7, <2>1, <2>2, <2>3, GoesOnAsBefore
<1> HIDE DEF get
<1>8. CASE todo[c] = AtLookup(k)
  <2>1. Head(todo[c]) = GetOwn(k) /\ todo[c] # <<>> /\ Tail(todo[c]) = AtCompute(k)
    BY <1>8, CodeIs DEF AtCompute
  <2>2. Head(todo[c]) = LookupOr0("count", k.own, V("pid"))
    BY <2>1 DEF GetOwn
  <2>3. /\ IF Has(m, t) THEN Becomes(c, <<get>> \o AtCompute(k), env[c], result[c])
           ELSE Becomes(c, AtCompute(k), With(env[c], "count", 0), result[c])
        /\ maps' = maps
    BY <1>3, <2>1, <2>2, OfLookupOr0 DEF get
  <2>4. CASE Has(m, t)
    <3>1. todo'[c] = <<get>> \o AtCompute(k) /\ env'[c] = env[c]
      BY <2>3, <2>4 DEF Becomes
    <3>2. todo'[c] # <<>> /\ Head(todo'[c]) = get
      BY <3>1, CodeIs, FirstOf
    <3>3. OfKind(k, todo'[c], env'[c], t, maps)
      BY <1>1, <2>4, <3>1 DEF OfKind, Counting, get
    <3> QED
      BY <1>7, <2>1, <2>3, <3>2, <3>3
  <2>5. CASE ~Has(m, t)
    <3>1. todo'[c] = AtCompute(k) /\ env'[c] = With(env[c], "count", 0)
      BY <2>3, <2>5 DEF Becomes
    <3>2. Knows(env'[c], t) /\ env'[c]["ctx.id"] = k.id /\ env'[c]["count"] = n
      BY <1>1, <1>5, <2>5, <3>1, KnowsMore
    <3>3. OfKind(k, todo'[c], env'[c], t, maps)
      BY <3>1, <3>2 DEF OfKind, Counting
    <3> QED
      BY <1>7, <2>1, <2>3, <3>1, <3>3, CodeIs
  <2> QED
    BY <2>4, <2>5
<1>9. CASE Has(m, t) /\ todo[c] = <<get>> \o AtCompute(k)
  <2>1. Head(todo[c]) = get /\ todo[c] # <<>> /\ Tail(todo[c]) = AtCompute(k)
    BY <1>9, CodeIs, FirstOf
  <2>2. Becomes(c, AtCompute(k), With(env[c], "count", Wrap(m.content[m.element[t]])), result[c])
        /\ maps' = maps
    BY <2>1, OfFollow DEF get
  <2>3. Wrap(m.content[m.element[t]]) = n
    BY <1>2, <1>4, <1>9 DEF At
  <2>4. todo'[c] = AtCompute(k) /\ env'[c] = With(env[c], "count", n)
    BY <2>2, <2>3 DEF Becomes
  <2>5. Knows(env'[c], t) /\ env'[c]["ctx.id"] = k.id /\ env'[c]["count"] = n
    BY <1>1, <2>4, KnowsMore
  <2>6. OfKind(k, todo'[c], env'[c], t, maps)
    BY <2>4, <2>5 DEF OfKind, Counting
  <2> QED
    BY <1>7, <2>1, <2>2, <2>4, <2>6, CodeIs
<1>10. CASE todo[c] = AtCompute(k) /\ env[c]["count"] = n
  <2>1. Head(todo[c]) = AddCall /\ todo[c] # <<>> /\ Tail(todo[c]) = AtStore(k)
    BY <1>10, CodeIs DEF AtStore
  <2>2. Head(todo[c]) = Compute("new_count", V("count"), "+", I(1))
    BY <2>1 DEF AddCall
  <2>3. Apply(Value(c, V("count")), "+", Value(c, I(1))) = n + 1
    BY <1>10, ValueOf DEF Apply
  <2>4. todo'[c] = AtStore(k) /\ env'[c] = With(env[c], "new_count", n + 1) /\ maps' = maps
    <3>1. \E r \in {n + 1, Wrap(n + 1)} :
             Becomes(c, Tail(todo[c]), With(env[c], "new_count", r), result[c])
      BY <2>2, <2>3, OfCompute
    <3>2. maps' = maps
      BY <2>2, OfCompute
    <3> QED
      BY <1>2, <2>1, <3>1, <3>2 DEF Becomes
  <2>5. /\ Knows(env'[c], t) /\ env'[c]["ctx.id"] = k.id
        /\ "new_count" \in DOMAIN env'[c] /\ env'[c]["new_count"] = n + 1
    BY <1>1, <2>4, KnowsMore
  <2>6. OfKind(k, todo'[c], env'[c], t, maps)
    BY <2>4, <2>5 DEF OfKind, Counting
  <2> QED
    BY <1>7, <2>1, <2>4, <2>6, CodeIs
<1>11. CASE /\ todo[c] = AtStore(k) /\ "new_count" \in DOMAIN env[c]
            /\ env[c]["new_count"] = n + 1
  <2>1. Head(todo[c]) = PutCount2(k) /\ todo[c] # <<>> /\ Tail(todo[c]) = AfterStore(k)
    BY <1>11, CodeIs DEF AfterStore
  <2>2. Head(todo[c]) = Store(k.own, V("pid"), V("new_count"), "BPF_ANY")
    BY <2>1 DEF PutCount2
  <2>3. Value(c, V("new_count")) = n + 1
    BY <1>11, ValueOf
  <2>4. /\ Becomes(c, AfterStore(k), env[c], result[c])
        /\ maps' = [maps EXCEPT ![k.own] = Update(m, c, t, n + 1, "BPF_ANY")]
    <3>1. /\ Becomes(c, Tail(todo[c]), env[c], result[c])
          /\ maps' = [maps EXCEPT ![k.own] =
                         Update(m, c, Value(c, V("pid")), Value(c, V("new_count")), "BPF_ANY")]
      BY <2>2, OfStore
    <3> HIDE DEF n, m
    <3> QED
      BY <1>3, <2>1, <2>3, <3>1
  <2>5. Stays(c)
    <3>1. Head(todo[c]).op # "return"
      BY <1>6, <2>1
    <3> QED
      BY <2>4, <3>1, CodeIs, OnlyReturnsHappen, OnlyReturnsLeave DEF Stays, Becomes
  <2>6. WillCount(todo[c])
    BY <1>6, <2>1 DEF WillCount
  <2> QED
    BY <1>11, <2>4, <2>5, <2>6 DEF CountsCall, Becomes
<1> QED
  BY <1>8, <1>9, <1>10, <1>11 DEF Counting, get

LEMMA Join22 ==
  ASSUME NEW a, NEW b, NEW c, NEW d
  PROVE  <<a, b>> \o <<c, d>> = <<a, b, c, d>>
<1> DEFINE S == {a, b, c, d}
           s == <<a, b>>
           t == <<c, d>>
           u == <<a, b, c, d>>
<1>1. s \in Seq(S) /\ t \in Seq(S) /\ u \in Seq(S)
  OBVIOUS
<1>2. Len(s) = 2 /\ Len(t) = 2 /\ Len(u) = 4
  OBVIOUS
<1>3. /\ u[1] = s[1] /\ u[2] = s[2]
      /\ u[3] = t[1] /\ u[4] = t[2]
  OBVIOUS
<1> HIDE DEF S, s, t, u
<1>4. Len(u) = Len(s) + Len(t)
  BY <1>2
<1>5. \A i \in 1 .. Len(s) : u[i] = s[i]
  BY <1>2, <1>3
<1>6. \A i \in 1 .. Len(t) : u[Len(s) + i] = t[i]
  BY <1>2, <1>3
<1>7. s \o t = u
  BY <1>1, <1>4, <1>5, <1>6, JoinedIs, Zenon
<1> QED
  BY <1>7 DEF s, t, u

(* where main is to set the alert, and then *)
LEMMA AlertCode ==
  ASSUME NEW k, k.alerts = TRUE
  PROVE  LET up == <<SetAlert(1), AlertLine>> \o AtLine(k)
             down == <<SetAlert(0)>> \o AtLine(k)
         IN /\ up # <<>> /\ Head(up) = SetAlert(1)
            /\ Tail(up) = <<AlertLine, LineOf(k.text), Return(0)>>
            /\ down # <<>> /\ Head(down) = SetAlert(0) /\ Tail(down) = <<LineOf(k.text), Return(0)>>
<1> DEFINE a == SetAlert(1)
           b == AlertLine
           d == LineOf(k.text)
           e == Return(0)
           z == SetAlert(0)
<1>1. AtLine(k) = <<d, e>>
  BY CodeOfAlerts
<1> HIDE DEF a, b, d, e, z
<1>2. <<a, b>> \o AtLine(k) = <<a, b, d, e>> /\ <<z>> \o AtLine(k) = <<z, d, e>>
  <2>1. <<a, b>> \o <<d, e>> = <<a, b, d, e>>
    BY Join22
  <2>2. <<z>> \o <<d, e>> = <<z, d, e>>
    BY Join12
  <2> QED
    BY <1>1, <2>1, <2>2
<1>3. /\ <<a, b, d, e>> # <<>> /\ Head(<<a, b, d, e>>) = a /\ Tail(<<a, b, d, e>>) = <<b, d, e>>
      /\ <<z, d, e>> # <<>> /\ Head(<<z, d, e>>) = z /\ Tail(<<z, d, e>>) = <<d, e>>
  BY Firsts, NotEmpty
<1> QED
  BY <1>2, <1>3 DEF a, b, d, e, z

LEMMA SmallBoth ==
  ASSUME program \in Monitors, NEW k \in KindsOf(program), k.alerts = TRUE, NEW t, Small(t, FALSE)
  PROVE  LET m == Current(maps[k.own], t)
             n == Current(maps[k.other], t)
         IN m \in Nat /\ n \in Nat /\ Wrap(n) = n /\ Wrap(m + n) = m + n
<1> DEFINE m == Current(maps[k.own], t)
           n == Current(maps[k.other], t)
<1>1. m \in Nat /\ n \in Nat /\ m + n <= INT_MAX
  <2>1. k.own # k.other /\ CountMapsOf(program) = {k.own, k.other}
    BY KindFacts
  <2> HIDE DEF m, n
  <2>2. m \in Nat /\ n \in Nat /\ m + n + (IF FALSE THEN 1 ELSE 0) <= INT_MAX
    BY <2>1 DEF Small, m, n
  <2> QED
    BY <2>2
<1>2. INT_MAX \in Nat
  BY GeneratedCAssumption
<1> HIDE DEF n, m
<1>3. IsInt(n) /\ IsInt(m + n)
  BY <1>1, <1>2 DEF IsInt
<1> QED
  BY <1>1, <1>3, WrapOfInt DEF n, m

LEMMA AlertingSteps ==
  ASSUME OneEach, program \in Monitors, NEW c \in Cpus, Statement(c),
         NEW k \in KindsOf(program), OfKind(k, todo[c], env[c], thread[c], maps),
         k.alerts = TRUE, Alerting(k, todo[c], env[c], thread[c], maps), Small(thread[c], FALSE)
  PROVE  CallGoesOn(c) \/ SetsAlert(c, k)
<1> DEFINE t == thread[c]
           m == maps[k.own]
           other == maps[k.other]
           n == Current(other, t)
           sum == SumOf(k, t, maps)
           get == FollowOf("total", k.other, other.element[t])
           up == <<SetAlert(1), AlertLine>> \o AtLine(k)
           down == <<SetAlert(0)>> \o AtLine(k)
<1>1. Knows(env[c], t) /\ env[c]["ctx.id"] = k.id
  BY DEF OfKind
<1>2. n \in Nat /\ Wrap(n) = n
  BY SmallBoth
<1>3. Has(m, t) => sum = At(m, t) + n /\ Wrap(sum) = sum
  BY SmallBoth DEF SumOf, Current
<1>4. Value(c, V("pid")) = t
  BY <1>1, ValueOf DEF Knows
<1>5. /\ AfterStore(k) # <<>> /\ Head(AfterStore(k)) = GetOther(k)
      /\ AtTotal(k) # <<>> /\ Head(AtTotal(k)) = Total /\ Follows(AtTotal(k))
      /\ AtTest(k) # <<>> /\ Head(AtTest(k)) = TestTotal
  BY CodeOfAlerts
<1>6. /\ Past(GetOther(k)) /\ GetOther(k).op = "lookup"
      /\ Past(Total) /\ Total.op = "compute"
      /\ Past(TestTotal) /\ TestTotal.op = "if"
      /\ Past(get) /\ get.op = "follow"
      /\ \A v : Past(SetAlert(v)) /\ SetAlert(v).op = "store"
  <2>1. k.own # "alert_flag"
    BY CodeIs
  <2>2. Past(GetOther(k)) /\ Past(Total) /\ Past(TestTotal) /\ Past(get) /\ \A v : Past(SetAlert(v))
    BY <2>1, PastIs
  <2> QED
    BY <2>2, OpsAre
<1>7. ASSUME maps' = maps, OfKind(k, todo'[c], env'[c], t, maps), todo[c] # <<>>, todo'[c] # <<>>,
             Head(todo[c]) \in {GetOther(k), get, Total, TestTotal},
             Head(todo'[c]) \in {get, Total, TestTotal, SetAlert(1), SetAlert(0)}
      PROVE  CallGoesOn(c)
  <2>1. /\ Past(Head(todo[c])) /\ Head(todo[c]).op \notin {"printk", "return"}
        /\ Past(Head(todo'[c])) /\ Head(todo'[c]).op \notin {"printk", "return"}
    BY <1>6, <1>7
  <2>2. env'[c]["ctx.id"] = env[c]["ctx.id"]
    BY <1>1, <1>7 DEF OfKind
  <2>3. Place(todo'[c], env'[c], thread[c], maps)
    BY <1>7 DEF Place
  <2> QED
    BY <1>7, <2>1, <2>2, <2>3, GoesOnAsBefore
<1>8. ASSUME Knows(env'[c], t), env'[c]["ctx.id"] = k.id, Alerting(k, todo'[c], env'[c], t, maps)
      PROVE  OfKind(k, todo'[c], env'[c], t, maps)
  BY <1>8 DEF OfKind
<1> HIDE DEF get
<1>9. CASE todo[c] = AfterStore(k) /\ HasNew(k, env[c], t, maps)
  <2>1. Head(todo[c]) = GetOther(k) /\ todo[c] # <<>> /\ Tail(todo[c]) = AtTotal(k)
    BY <1>5, <1>9 DEF AtTotal
  <2>2. Head(todo[c]) = LookupOr0("total", k.other, V("pid"))
    BY <2>1 DEF GetOther
  <2>3. /\ IF Has(other, t) THEN Becomes(c, <<get>> \o AtTotal(k), env[c], result[c])
           ELSE Becomes(c, AtTotal(k), With(env[c], "total", 0), result[c])
        /\ maps' = maps
    BY <1>4, <2>1, <2>2, OfLookupOr0 DEF get
  <2>4. CASE Has(other, t)
    <3>1. todo'[c] = <<get>> \o AtTotal(k) /\ env'[c] = env[c]
      BY <2>3, <2>4 DEF Becomes
    <3>2. todo'[c] # <<>> /\ Head(todo'[c]) = get
      BY <1>5, <3>1, FirstOf
    <3>3. OfKind(k, todo'[c], env'[c], t, maps)
      BY <1>1, <1>8, <1>9, <2>4, <3>1 DEF Alerting, get
    <3> QED
      BY <1>7, <2>1, <2>3, <3>2, <3>3
  <2>5. CASE ~Has(other, t)
    <3>1. todo'[c] = AtTotal(k) /\ env'[c] = With(env[c], "total", 0) /\ n = 0
      BY <2>3, <2>5 DEF Becomes, Current
    <3>2. /\ Knows(env'[c], t) /\ env'[c]["ctx.id"] = k.id /\ env'[c]["total"] = n
          /\ HasNew(k, env'[c], t, maps)
      BY <1>1, <1>9, <3>1, KnowsMore DEF HasNew
    <3>3. OfKind(k, todo'[c], env'[c], t, maps)
      BY <1>8, <3>1, <3>2 DEF Alerting
    <3> QED
      BY <1>5, <1>7, <2>1, <2>3, <3>1, <3>3
  <2> QED
    BY <2>4, <2>5
<1>10. CASE Has(other, t) /\ todo[c] = <<get>> \o AtTotal(k) /\ HasNew(k, env[c], t, maps)
  <2>1. Head(todo[c]) = get /\ todo[c] # <<>> /\ Tail(todo[c]) = AtTotal(k)
    BY <1>5, <1>10, FirstOf
  <2>2. /\ Becomes(c, AtTotal(k), With(env[c], "total", Wrap(other.content[other.element[t]])),
                   result[c])
        /\ maps' = maps
    BY <2>1, OfFollow DEF get
  <2>3. Wrap(other.content[other.element[t]]) = n
    BY <1>2, <1>10 DEF At, Current
  <2>4. todo'[c] = AtTotal(k) /\ env'[c] = With(env[c], "total", n)
    BY <2>2, <2>3 DEF Becomes
  <2>5. /\ Knows(env'[c], t) /\ env'[c]["ctx.id"] = k.id /\ env'[c]["total"] = n
        /\ HasNew(k, env'[c], t, maps)
    BY <1>1, <1>10, <2>4, KnowsMore DEF HasNew
  <2>6. OfKind(k, todo'[c], env'[c], t, maps)
    BY <1>8, <2>4, <2>5 DEF Alerting
  <2> QED
    BY <1>5, <1>7, <2>1, <2>2, <2>4, <2>6
<1>11. CASE todo[c] = AtTotal(k) /\ HasNew(k, env[c], t, maps) /\ env[c]["total"] = n
  <2>1. Head(todo[c]) = Total /\ todo[c] # <<>> /\ Tail(todo[c]) = AtTest(k)
    BY <1>5, <1>11 DEF AtTest
  <2>2. Head(todo[c]) = Compute("total_calls", V("new_count"), "+", V("total"))
    BY <2>1 DEF Total
  <2> DEFINE s == Apply(Value(c, V("new_count")), "+", Value(c, V("total")))
  <2>3. Has(m, t) => s = sum
    BY <1>3, <1>11, ValueOf DEF Apply, HasNew
  <2> HIDE DEF s
  <2>4. PICK r \in {s, Wrap(s)} :
               Becomes(c, Tail(todo[c]), With(env[c], "total_calls", r), result[c])
    BY <2>2, OfCompute DEF s
  <2>5. maps' = maps
    BY <2>2, OfCompute
  <2>6. todo'[c] = AtTest(k) /\ env'[c] = With(env[c], "total_calls", r)
    BY <2>1, <2>4 DEF Becomes
  <2>7. Has(m, t) => r = sum
    BY <1>3, <2>3
  <2>8. /\ Knows(env'[c], t) /\ env'[c]["ctx.id"] = k.id
        /\ Has(m, t) => env'[c]["total_calls"] = sum
    BY <1>1, <2>6, <2>7, KnowsMore
  <2>9. OfKind(k, todo'[c], env'[c], t, maps)
    BY <1>8, <2>6, <2>8 DEF Alerting
  <2> QED
    BY <1>5, <1>7, <2>1, <2>5, <2>6, <2>9
<1>12. CASE todo[c] = AtTest(k) /\ (Has(m, t) => env[c]["total_calls"] = sum)
  <2>1. Head(todo[c]) = TestTotal /\ todo[c] # <<>> /\ Tail(todo[c]) = AtLine(k)
    BY <1>5, <1>12 DEF AtLine
  <2> DEFINE over == Holds(Value(c, V("total_calls")), ">", Value(c, I(ALERT_THRESHOLD)))
             raise == <<SetAlert(1), AlertLine>>
             clear == <<SetAlert(0)>>
             test == If(V("total_calls"), ">", I(ALERT_THRESHOLD), raise, clear)
  <2>2. over <=> env[c]["total_calls"] > ALERT_THRESHOLD
    BY ValueOf DEF Holds
  <2>3. Head(todo[c]) = test
    BY <2>1 DEF TestTotal
  <2> HIDE DEF raise, clear
  <2>4. /\ env'[c] = env[c]
        /\ over => todo'[c] = raise \o AtLine(k)
        /\ ~over => todo'[c] = clear \o AtLine(k)
    BY <2>1, <2>3, IfGoes
  <2>5. maps' = maps
    BY <2>3, OfIf
  <2> HIDE DEF over
  <2>6. CASE over
    <3>1. todo'[c] = up /\ (Has(m, t) => sum > ALERT_THRESHOLD)
      BY <1>12, <2>2, <2>4, <2>6 DEF raise
    <3>2. Alerting(k, todo'[c], env'[c], t, maps)
      BY <3>1 DEF Alerting
    <3>3. todo'[c] # <<>> /\ Head(todo'[c]) = SetAlert(1)
      BY <3>1, AlertCode
    <3> QED
      BY <1>1, <1>7, <1>8, <2>1, <2>4, <2>5, <3>2, <3>3
  <2>7. CASE ~over
    <3>1. todo'[c] = down /\ (Has(m, t) => ~(sum > ALERT_THRESHOLD))
      BY <1>12, <2>2, <2>4, <2>7 DEF clear
    <3>2. Alerting(k, todo'[c], env'[c], t, maps)
      BY <3>1 DEF Alerting
    <3>3. todo'[c] # <<>> /\ Head(todo'[c]) = SetAlert(0)
      BY <3>1, AlertCode
    <3> QED
      BY <1>1, <1>7, <1>8, <2>1, <2>4, <2>5, <3>2, <3>3
  <2> QED
    BY <2>6, <2>7
<1>13. ASSUME NEW v \in {0, 1}, todo[c] # <<>>, Head(todo[c]) = SetAlert(v), Ends(Tail(todo[c])),
              Tail(todo[c]) # <<>>, Has(m, t) => (v = 1 <=> sum > ALERT_THRESHOLD)
       PROVE  SetsAlert(c, k)
  <2>1. Head(todo[c]) = Store("alert_flag", V("pid"), I(v), "BPF_ANY")
    BY <1>13 DEF SetAlert
  <2>2. /\ Becomes(c, Tail(todo[c]), env[c], result[c])
        /\ maps' = [maps EXCEPT !["alert_flag"] =
                       Update(maps["alert_flag"], c, Value(c, V("pid")), Value(c, I(v)), "BPF_ANY")]
    BY <2>1, OfStore
  <2>3. /\ todo'[c] = Tail(todo[c]) /\ env'[c] = env[c]
        /\ maps' = [maps EXCEPT !["alert_flag"] = Update(maps["alert_flag"], c, t, v, "BPF_ANY")]
    BY <1>4, <2>2, ValueOf DEF Becomes
  <2>4. Past(Head(todo[c])) /\ Head(todo[c]).op = "store"
    BY <1>6, <1>13
  <2>5. Stays(c) /\ Decides(todo[c])
    BY <1>13, <2>3, <2>4, OnlyReturnsHappen, OnlyReturnsLeave DEF Stays, Decides
  <2> QED
    BY <1>13, <2>3, <2>5 DEF SetsAlert
<1>14. CASE todo[c] = up /\ (Has(m, t) => sum > ALERT_THRESHOLD)
  <2>1. todo[c] # <<>> /\ Head(todo[c]) = SetAlert(1)
        /\ Tail(todo[c]) = <<AlertLine, LineOf(k.text), Return(0)>>
    BY <1>14, AlertCode
  <2>2. Ends(Tail(todo[c])) /\ Tail(todo[c]) # <<>>
    BY <2>1, NotEmpty DEF Ends
  <2> QED
    BY <1>13, <1>14, <2>1, <2>2
<1>15. CASE todo[c] = down /\ (Has(m, t) => ~(sum > ALERT_THRESHOLD))
  <2>1. todo[c] # <<>> /\ Head(todo[c]) = SetAlert(0)
        /\ Tail(todo[c]) = <<LineOf(k.text), Return(0)>>
    BY <1>15, AlertCode
  <2>2. Ends(Tail(todo[c])) /\ Tail(todo[c]) # <<>>
    BY <2>1, NotEmpty DEF Ends
  <2> QED
    BY <1>13, <1>15, <2>1, <2>2
<1> QED
  BY <1>9, <1>10, <1>11, <1>12, <1>14, <1>15 DEF Alerting, get

(* A call that was counted is printed and over. *)
LEMMA EndsIs ==
  ASSUME NEW q, Ends(q)
  PROVE  /\ q # <<>> /\ Past(Head(q)) /\ Head(q).op \in {"printk", "return"}
         /\ ~WillCount(q) /\ ~Decides(q)
         /\ \/ q = <<Return(0)>>
            \/ /\ \E text, args : Head(q) = Printk(text, args)
               /\ Ends(Tail(q))
<1>1. PICK text : q \in {<<AlertLine, LineOf(text), Return(0)>>, <<LineOf(text), Return(0)>>,
                         <<Return(0)>>}
  BY DEF Ends
<1>2. /\ Past(AlertLine) /\ Past(LineOf(text)) /\ Past(Return(0))
      /\ AlertLine.op = "printk" /\ LineOf(text).op = "printk" /\ Return(0).op = "return"
  BY DEF Past, AlertLine, LineOf, Printk, Return
<1> DEFINE a == AlertLine
           b == LineOf(text)
           d == Return(0)
<1>3. (\E x, args : a = Printk(x, args)) /\ (\E x, args : b = Printk(x, args))
  BY DEF AlertLine, LineOf
<1>4. \A r : r = <<b, d>> \/ r = <<d>> => Ends(r)
  BY DEF Ends
<1> HIDE DEF a, b, d
<1>5. q \in {<<a, b, d>>, <<b, d>>, <<d>>}
  BY <1>1 DEF a, b, d
<1>6. /\ Past(a) /\ Past(b) /\ Past(d) /\ a.op = "printk" /\ b.op = "printk" /\ d.op = "return"
  BY <1>2 DEF a, b, d
<1>7. q # <<>> /\ Head(q) \in {a, b, d}
  BY <1>5, Firsts, NotEmpty
<1>8. Past(Head(q)) /\ Head(q).op \in {"printk", "return"}
  BY <1>6, <1>7
<1>9. CASE q = <<a, b, d>>
  <2>1. Head(q) = a /\ Tail(q) = <<b, d>>
    BY <1>9, Firsts
  <2> QED
    BY <1>3, <1>4, <1>7, <1>8, <2>1 DEF WillCount, Decides
<1>10. CASE q = <<b, d>>
  <2>1. Head(q) = b /\ Tail(q) = <<d>>
    BY <1>10, Firsts
  <2> QED
    BY <1>3, <1>4, <1>7, <1>8, <2>1 DEF WillCount, Decides
<1>11. CASE q = <<d>>
  BY <1>7, <1>8, <1>11 DEF WillCount, Decides, d
<1> QED
  BY <1>5, <1>9, <1>10, <1>11

LEMMA EndsSteps ==
  ASSUME OneEach, program \in Monitors, NEW c \in Cpus, Statement(c),
         Ends(todo[c]), Says(env[c], thread[c])
  PROVE  CallGoesOn(c) \/ CallIsOver(c)
<1>1. CASE todo[c] = <<Return(0)>>
  <2>1. Head(todo[c]) = Return(0) /\ Return(0).op = "return"
    BY <1>1, OpsAre
  <2>2. /\ Becomes(c, <<>>, NoVariables, NoResult) /\ maps' = maps
        /\ happened' = With(happened, Subject(c), Times(Subject(c)) + 1)
    BY <2>1, OfReturn
  <2>3. Hook # "sched_switch"
    BY MainIs DEF Hook
  <2> QED
    BY <1>1, <2>1, <2>2, <2>3, OnlyReturnsLeave DEF CallIsOver, Becomes
<1>2. ASSUME NEW text, NEW args, Head(todo[c]) = Printk(text, args), Ends(Tail(todo[c]))
      PROVE  CallGoesOn(c)
  <2>1. todo'[c] = Tail(todo[c]) /\ env'[c] = env[c] /\ maps' = maps
    BY <1>2, OfPrintk
  <2>2. Head(todo[c]).op = "printk"
    BY <1>2 DEF Printk
  <2>3. Place(todo'[c], env'[c], thread[c], maps)
    BY <1>2, <2>1 DEF Place
  <2>4. /\ todo[c] # <<>> /\ todo'[c] # <<>> /\ Past(Head(todo[c])) /\ Past(Head(todo'[c]))
        /\ Head(todo[c]).op \in {"printk", "return"} /\ Head(todo'[c]).op \in {"printk", "return"}
    BY <1>2, <2>1, EndsIs
  <2>5. Head(todo[c]).op # "return"
    BY <2>2
  <2> QED
    BY <2>1, <2>3, <2>4, <2>5, GoesOnAsBefore
<1> QED
  BY <1>1, <1>2, EndsIs

(***************************************************************************)
(* All that a statement of a monitor's may be.                             *)
(***************************************************************************)
LEMMA CallStatement ==
  ASSUME OneEach, program \in Monitors, NEW c \in Cpus, Statement(c),
         Place(todo[c], env[c], thread[c], maps),
         Small(thread[c], FALSE), WillCount(todo[c]) => Small(thread[c], TRUE)
  PROVE  \/ CallGoesOn(c) \/ CallIsOver(c)
         \/ \E k \in KindsOf(program) : CountsCall(c, k) \/ SetsAlert(c, k)
<1>1. todo[c] # <<>>
  BY Dispatch DEF IsIdle
<1>2. CASE Begun(todo[c], env[c], thread[c])
  BY <1>2, BegunSteps
<1>3. CASE Asking(todo[c], env[c], thread[c])
  BY <1>3, AskingSteps
<1>4. ASSUME NEW k \in KindsOf(program), OfKind(k, todo[c], env[c], thread[c], maps),
             Counting(k, todo[c], env[c], thread[c], maps)
      PROVE  CallGoesOn(c) \/ CountsCall(c, k)
  <2>1. ~Past(Head(todo[c]))
    <3> DEFINE get == FollowOf("count", k.own, maps[k.own].element[thread[c]])
    <3>1. ~Past(GetOwn(k)) /\ ~Past(AddCall) /\ ~Past(PutCount2(k)) /\ ~Past(get)
      BY CodeIs, PastIs
    <3> HIDE DEF get
    <3>2. \/ todo[c] = AtLookup(k) \/ todo[c] = <<get>> \o AtCompute(k)
          \/ todo[c] = AtCompute(k) \/ todo[c] = AtStore(k)
      BY <1>4 DEF Counting, get
    <3>3. Head(todo[c]) \in {GetOwn(k), get, AddCall, PutCount2(k)}
      BY <3>2, CodeIs, FirstOf
    <3> QED
      BY <3>1, <3>3
  <2>2. Small(thread[c], TRUE)
    BY <1>1, <2>1 DEF WillCount
  <2> QED
    BY <1>4, <2>2, CountingSteps
<1>5. ASSUME NEW k \in KindsOf(program), OfKind(k, todo[c], env[c], thread[c], maps),
             k.alerts = TRUE, Alerting(k, todo[c], env[c], thread[c], maps)
      PROVE  CallGoesOn(c) \/ SetsAlert(c, k)
  BY <1>5, AlertingSteps
<1>6. CASE \E k \in KindsOf(program) : OfKind(k, todo[c], env[c], thread[c], maps)
  BY <1>4, <1>5, <1>6 DEF OfKind
<1>7. CASE Ends(todo[c]) /\ Says(env[c], thread[c])
  BY <1>7, EndsSteps
<1> QED
  BY <1>1, <1>2, <1>3, <1>6, <1>7 DEF Place

(***************************************************************************)
(* What others store under keys of their own leaves a CPU where it is.     *)
(***************************************************************************)
LEMMA PlaceKept ==
  ASSUME program \in Monitors, NEW q, NEW e, NEW t, NEW ms, NEW ns, Place(q, e, t, ms),
         \A map \in CountMapsOf(program) : SameKey(ms[map], ns[map], t)
  PROVE  Place(q, e, t, ns)
<1>1. ASSUME NEW m, NEW n, SameKey(m, n, t)
      PROVE  /\ n.element[t] = m.element[t] /\ (Has(n, t) <=> Has(m, t))
             /\ (Has(m, t) => At(n, t) = At(m, t)) /\ Current(n, t) = Current(m, t)
  BY <1>1 DEF SameKey, Has, Current
<1>2. ASSUME NEW k \in KindsOf(program), OfKind(k, q, e, t, ms)
      PROVE  OfKind(k, q, e, t, ns)
  <2> DEFINE m == ms[k.own]
             n == ns[k.own]
  <2>1. /\ n.element[t] = m.element[t] /\ (Has(n, t) <=> Has(m, t))
        /\ (Has(m, t) => At(n, t) = At(m, t)) /\ Current(n, t) = Current(m, t)
    BY <1>1, KindFacts
  <2>2. ASSUME Counting(k, q, e, t, ms)  PROVE Counting(k, q, e, t, ns)
    BY <2>1, <2>2 DEF Counting
  <2>3. ASSUME k.alerts = TRUE, Alerting(k, q, e, t, ms)  PROVE Alerting(k, q, e, t, ns)
    <3> DEFINE o == ms[k.other]
               p == ns[k.other]
    <3>1. /\ p.element[t] = o.element[t] /\ (Has(p, t) <=> Has(o, t))
          /\ Current(p, t) = Current(o, t)
      <4>1. k.other \in CountMapsOf(program)
        <5>1. CountMapsOf(program) = {k.own, k.other}
          BY <2>3, KindFacts
        <5> QED
          BY <5>1
      <4>2. SameKey(o, p, t)
        BY <4>1
      <4> HIDE DEF o, p
      <4> QED
        BY <1>1, <4>2
    <3>2. Has(m, t) => SumOf(k, t, ns) = SumOf(k, t, ms)
      BY <2>1, <3>1 DEF SumOf
    <3>3. HasNew(k, e, t, ms) => HasNew(k, e, t, ns)
      BY <2>1 DEF HasNew
    <3> QED
      BY <2>1, <2>3, <3>1, <3>2, <3>3 DEF Alerting
  <2> QED
    BY <1>2, <2>2, <2>3 DEF OfKind
<1> QED
  BY <1>2 DEF Place

-----------------------------------------------------------------------------
(***************************************************************************)
(* The calls of a thread                                                   *)
(***************************************************************************)

(***************************************************************************)
(* MapThenSumSet over a set of at most three elements.                     *)
(***************************************************************************)
AddsUp(it, S, g) ==
  it = [s \in SUBSET S |->
          IF s = {} THEN 0
          ELSE g[CHOOSE x \in s : TRUE] + it[s \ {CHOOSE x \in s : TRUE}]]

SumOfThree(a, b, c, g, s) ==
  (IF a \in s THEN g[a] ELSE 0) + (IF b \in s \ {a} THEN g[b] ELSE 0)
    + (IF c \in s \ {a, b} THEN g[c] ELSE 0)

LEMMA TakeOne ==
  ASSUME NEW a, NEW b, NEW c, NEW g, g[a] \in Nat, g[b] \in Nat, g[c] \in Nat,
         NEW s, NEW x \in s, x \in {a, b, c}
  PROVE  SumOfThree(a, b, c, g, s) = g[x] + SumOfThree(a, b, c, g, s \ {x})
<1>1. CASE x = a
  BY <1>1 DEF SumOfThree
<1>2. CASE x = b /\ x # a
  BY <1>2 DEF SumOfThree
<1>3. CASE x = c /\ x # a /\ x # b
  BY <1>3 DEF SumOfThree
<1> QED
  BY <1>1, <1>2, <1>3

LEMMA SumExists ==
  ASSUME NEW a, NEW b, NEW c, NEW S, S = {a, b, c}, NEW g \in [S -> Nat]
  PROVE  \E it : AddsUp(it, S, g)
<1> DEFINE Sum(s) == SumOfThree(a, b, c, g, s)
           it == [s \in SUBSET S |-> Sum(s)]
           Pick(s) == CHOOSE x \in s : TRUE
<1>1. Sum({}) = 0
  BY DEF SumOfThree
<1>t. ASSUME NEW s \in SUBSET S, NEW x \in s  PROVE Sum(s) = g[x] + Sum(s \ {x})
  <2>1. g[a] \in Nat /\ g[b] \in Nat /\ g[c] \in Nat /\ x \in {a, b, c}
    OBVIOUS
  <2> QED
    BY <2>1, TakeOne
<1>2. ASSUME NEW s \in SUBSET S, s # {}  PROVE Sum(s) = g[Pick(s)] + it[s \ {Pick(s)}]
  <2>1. Pick(s) \in s
    BY <1>2
  <2> HIDE DEF Pick
  <2>2. Sum(s) = g[Pick(s)] + Sum(s \ {Pick(s)})
    <3>1. \A x \in s : Sum(s) = g[x] + Sum(s \ {x})
      BY <1>t
    <3> HIDE DEF Sum
    <3> QED
      BY <2>1, <3>1
  <2>3. s \ {Pick(s)} \in SUBSET S
    OBVIOUS
  <2> HIDE DEF Sum
  <2> QED
    BY <2>2, <2>3
<1> HIDE DEF Sum
<1>3. it = [s \in SUBSET S |-> IF s = {} THEN 0 ELSE g[Pick(s)] + it[s \ {Pick(s)}]]
  <2> HIDE DEF Pick
  <2>1. \A s \in SUBSET S : Sum(s) = IF s = {} THEN 0 ELSE g[Pick(s)] + it[s \ {Pick(s)}]
    BY <1>1, <1>2
  <2> QED
    BY <2>1
<1> HIDE DEF it
<1> QED
  BY <1>3 DEF AddsUp

LEMMA SumIs ==
  ASSUME NEW a, NEW b, NEW c, NEW S, S = {a, b, c}, NEW g \in [S -> Nat], NEW it,
         AddsUp(it, S, g)
  PROVE  it[S] = SumOfThree(a, b, c, g, S)
<1> DEFINE Sum(s) == SumOfThree(a, b, c, g, s)
           Pick(s) == CHOOSE x \in s : TRUE
           Less(s) == s \ {Pick(s)}
<1>1. Sum({}) = 0
  BY DEF SumOfThree
<1>2. it[{}] = 0
  BY DEF AddsUp
<1>3. ASSUME NEW s \in SUBSET S, s # {}
      PROVE  Pick(s) \in s /\ it[s] = g[Pick(s)] + it[Less(s)]
  BY <1>3 DEF AddsUp
<1> HIDE DEF Pick
<1>t. ASSUME NEW s \in SUBSET S, NEW x \in s  PROVE Sum(s) = g[x] + Sum(s \ {x})
  <2>1. g[a] \in Nat /\ g[b] \in Nat /\ g[c] \in Nat /\ x \in {a, b, c}
    OBVIOUS
  <2> QED
    BY <2>1, TakeOne
<1>4. ASSUME NEW s \in SUBSET S, s = {} \/ it[Less(s)] = Sum(Less(s))  PROVE it[s] = Sum(s)
  <2>1. CASE s = {}
    BY <1>1, <1>2, <2>1
  <2>2. CASE s # {}
    <3>1. Pick(s) \in s
      BY <1>3, <2>2
    <3>2. Sum(s) = g[Pick(s)] + Sum(Less(s))
      <4>1. \A x \in s : Sum(s) = g[x] + Sum(s \ {x})
        BY <1>t
      <4> HIDE DEF Sum
      <4> QED
        BY <3>1, <4>1
    <3> QED
      BY <1>3, <1>4, <2>2, <3>2
  <2> QED
    BY <2>1, <2>2
<1>5. Less(Less(Less(S))) = {} \/ Less(Less(S)) = {} \/ Less(S) = {}
  <2>1. ASSUME NEW x \in S, NEW y \in S \ {x}, NEW z \in (S \ {x}) \ {y}
        PROVE  ((S \ {x}) \ {y}) \ {z} = {}
    OBVIOUS
  <2>2. CASE Less(S) # {} /\ Less(Less(S)) # {}
    <3>1. Pick(S) \in S
      BY <1>3
    <3>2. Pick(Less(S)) \in Less(S)
      BY <1>3, <2>2
    <3>3. Pick(Less(Less(S))) \in Less(Less(S))
      BY <1>3, <2>2
    <3> QED
      BY <2>1, <3>1, <3>2, <3>3
  <2> QED
    BY <2>2
<1> HIDE DEF Sum
<1>6. \A s \in SUBSET S : Less(s) \in SUBSET S
  OBVIOUS
<1> HIDE DEF Less
<1>7. Less(S) \in SUBSET S /\ Less(Less(S)) \in SUBSET S /\ Less(Less(Less(S))) \in SUBSET S
      /\ S \in SUBSET S
  BY <1>6
<1>8. it[Less(S)] = Sum(Less(S))
  BY <1>4, <1>5, <1>7
<1> QED
  BY <1>4, <1>7, <1>8 DEF Sum

TimesIn(h, e) == IF e \in DOMAIN h THEN h[e] ELSE 0
CallsIn(h, t, map) == MapThenSumSet(LAMBDA id : TimesIn(h, <<t, id>>), CountedIn[map])

LEMMA CallsAreIn ==
  /\ \A t, map : CallsOf(t, map) = CallsIn(happened, t, map)
  /\ \A t, map : CallsOf(t, map)' = CallsIn(happened', t, map)
<1> SUFFICES ASSUME NEW CONSTANT t, NEW CONSTANT map
             PROVE  /\ CallsOf(t, map) = CallsIn(happened, t, map)
                    /\ CallsOf(t, map)' = CallsIn(happened', t, map)
  OBVIOUS
<1> QED
  BY DEF CallsOf, CallsIn, Times, TimesIn, MapThenSumSet, MapThenFoldSet

(* what each id adds *)
LEMMA CallsAre ==
  ASSUME NEW h, NEW t, NEW map, NEW a, NEW b, NEW c, CountedIn[map] = {a, b, c},
         \A e \in DOMAIN h : h[e] \in Nat
  PROVE  CallsIn(h, t, map) =
           SumOfThree(a, b, c, [id \in {a, b, c} |-> TimesIn(h, <<t, id>>)], {a, b, c})
<1> DEFINE S == {a, b, c}
           g == [id \in S |-> TimesIn(h, <<t, id>>)]
           Step(it) == [s \in SUBSET S |->
                          IF s = {} THEN 0
                          ELSE TimesIn(h, <<t, CHOOSE x \in s : TRUE>>)
                                 + it[s \ {CHOOSE x \in s : TRUE}]]
           sum == CHOOSE it : it = Step(it)
<1>1. CallsIn(h, t, map) = sum[S]
  BY DEF CallsIn, MapThenSumSet, MapThenFoldSet
<1>2. g \in [S -> Nat]
  BY DEF TimesIn
<1>3. \A it : Step(it) = [s \in SUBSET S |->
                            IF s = {} THEN 0
                            ELSE g[CHOOSE x \in s : TRUE] + it[s \ {CHOOSE x \in s : TRUE}]]
  <2> DEFINE Pick(s) == CHOOSE x \in s : TRUE
  <2>1. \A s \in SUBSET S : s # {} => Pick(s) \in S
    OBVIOUS
  <2> HIDE DEF Pick
  <2>2. \A s \in SUBSET S : s # {} => g[Pick(s)] = TimesIn(h, <<t, Pick(s)>>)
    BY <2>1
  <2> HIDE DEF g, S
  <2>3. \A it : [s \in SUBSET S |-> IF s = {} THEN 0 ELSE TimesIn(h, <<t, Pick(s)>>)
                                                         + it[s \ {Pick(s)}]]
              = [s \in SUBSET S |-> IF s = {} THEN 0 ELSE g[Pick(s)] + it[s \ {Pick(s)}]]
    BY <2>2
  <2> QED
    BY <2>3 DEF Pick
<1> HIDE DEF g, Step
<1>4. \A it : AddsUp(it, S, g) <=> it = Step(it)
  BY <1>3 DEF AddsUp
<1>5. \E it : it = Step(it)
  BY <1>2, <1>4, SumExists
<1>6. AddsUp(sum, S, g)
  <2>1. sum = Step(sum)
    BY <1>5
  <2> HIDE DEF sum
  <2> QED
    BY <1>4, <2>1
<1> HIDE DEF sum
<1>s. S = {a, b, c}
  OBVIOUS
<1> HIDE DEF S
<1>7. sum[S] = SumOfThree(a, b, c, g, S)
  BY <1>2, <1>6, <1>s, SumIs
<1> QED
  BY <1>1, <1>7 DEF g, S

IdsBy(map, a, b, c) == CountedIn[map] = {a, b, c}

LEMMA IdsAre ==
  ASSUME NEW map \in DOMAIN CountedIn
  PROVE  \E a, b, c : IdsBy(map, a, b, c)
<1>1. /\ IdsBy("read_count", 0, 17, 19) /\ IdsBy("write_count", 1, 18, 20)
      /\ IdsBy("send_count", 44, 46, 307) /\ IdsBy("recv_count", 45, 47, 299)
      /\ IdsBy("mmap_count", 9, 9, 9) /\ IdsBy("munmap_count", 11, 11, 11)
      /\ IdsBy("brk_count", 12, 12, 12)
  BY DEF IdsBy, CountedIn
<1>2. DOMAIN CountedIn = {"read_count", "write_count", "send_count", "recv_count",
                          "mmap_count", "munmap_count", "brk_count"}
  BY DEF CountedIn
<1> QED
  BY <1>1, <1>2

(* A call that is over is one more of its thread's, in the map of its kind. *)
LEMMA OneMore ==
  ASSUME NEW h, \A e \in DOMAIN h : h[e] \in Nat, NEW t, NEW map \in DOMAIN CountedIn,
         NEW u, NEW id
  PROVE  LET i == With(h, <<u, id>>, TimesIn(h, <<u, id>>) + 1)
         IN /\ \A e \in DOMAIN i : i[e] \in Nat
            /\ CallsIn(h, t, map) \in Nat
            /\ CallsIn(i, t, map) =
                 CallsIn(h, t, map) + IF t = u /\ id \in CountedIn[map] THEN 1 ELSE 0
<1> DEFINE i == With(h, <<u, id>>, TimesIn(h, <<u, id>>) + 1)
<1>a. PICK a, b, c : IdsBy(map, a, b, c)
  BY IdsAre
<1>1. CountedIn[map] = {a, b, c}
  BY <1>a DEF IdsBy
<1> DEFINE S == {a, b, c}
           f == [x \in S |-> TimesIn(h, <<t, x>>)]
           g == [x \in S |-> TimesIn(i, <<t, x>>)]
<1>2. \A e \in DOMAIN i : i[e] \in Nat
  BY DEF With, TimesIn
<1>3. CallsIn(h, t, map) = SumOfThree(a, b, c, f, S)
  BY <1>1, CallsAre
<1>4. ASSUME NEW j, \A e \in DOMAIN j : j[e] \in Nat
      PROVE  CallsIn(j, t, map) = SumOfThree(a, b, c, [x \in S |-> TimesIn(j, <<t, x>>)], S)
  BY <1>1, <1>4, CallsAre
<1> HIDE DEF i
<1>5. CallsIn(i, t, map) = SumOfThree(a, b, c, g, S)
  BY <1>2, <1>4
<1>6. \A x \in S : /\ f[x] \in Nat
                   /\ g[x] = f[x] + IF t = u /\ x = id THEN 1 ELSE 0
  BY DEF i, With, TimesIn
<1> HIDE DEF f, g
<1>7. /\ SumOfThree(a, b, c, f, S) \in Nat
      /\ SumOfThree(a, b, c, g, S) =
           SumOfThree(a, b, c, f, S) + IF t = u /\ id \in S THEN 1 ELSE 0
  <2>1. /\ f[a] \in Nat /\ f[b] \in Nat /\ f[c] \in Nat
        /\ g[a] = f[a] + (IF t = u /\ a = id THEN 1 ELSE 0)
        /\ g[b] = f[b] + (IF t = u /\ b = id THEN 1 ELSE 0)
        /\ g[c] = f[c] + (IF t = u /\ c = id THEN 1 ELSE 0)
    BY <1>6
  <2>2. CASE b = a /\ c = a
    BY <2>1, <2>2 DEF SumOfThree
  <2>3. CASE b = a /\ c # a
    BY <2>1, <2>3 DEF SumOfThree
  <2>4. CASE b # a /\ c \in {a, b}
    BY <2>1, <2>4 DEF SumOfThree
  <2>5. CASE b # a /\ c \notin {a, b}
    BY <2>1, <2>5 DEF SumOfThree
  <2> QED
    BY <2>2, <2>3, <2>4, <2>5
<1> QED
  BY <1>1, <1>2, <1>3, <1>5, <1>7 DEF i

(* AlertIsDue's sum *)
LEMMA CallsOfBoth ==
  ASSUME NEW CONSTANT t, NEW CONSTANT a, NEW CONSTANT b, a # b,
         CallsOf(t, a) \in Nat, CallsOf(t, b) \in Nat
  PROVE  MapThenSumSet(LAMBDA map : CallsOf(t, map), {a, b}) = CallsOf(t, a) + CallsOf(t, b)
<1> DEFINE S == {a, b}
           g == [map \in S |-> CallsOf(t, map)]
           Step(it) == [s \in SUBSET S |->
                          IF s = {} THEN 0
                          ELSE CallsOf(t, CHOOSE x \in s : TRUE)
                                 + it[s \ {CHOOSE x \in s : TRUE}]]
           sum == CHOOSE it : it = Step(it)
<1>1. MapThenSumSet(LAMBDA map : CallsOf(t, map), S) = sum[S]
  BY DEF MapThenSumSet, MapThenFoldSet
<1>2. g \in [S -> Nat]
  OBVIOUS
<1>3. \A it : Step(it) = [s \in SUBSET S |->
                            IF s = {} THEN 0
                            ELSE g[CHOOSE x \in s : TRUE] + it[s \ {CHOOSE x \in s : TRUE}]]
  <2> DEFINE Pick(s) == CHOOSE x \in s : TRUE
  <2>1. \A s \in SUBSET S : s # {} => Pick(s) \in S
    OBVIOUS
  <2> HIDE DEF Pick
  <2>2. \A s \in SUBSET S : s # {} => g[Pick(s)] = CallsOf(t, Pick(s))
    BY <2>1
  <2> HIDE DEF g, S
  <2>3. \A it : [s \in SUBSET S |-> IF s = {} THEN 0 ELSE CallsOf(t, Pick(s))
                                                         + it[s \ {Pick(s)}]]
              = [s \in SUBSET S |-> IF s = {} THEN 0 ELSE g[Pick(s)] + it[s \ {Pick(s)}]]
    BY <2>2
  <2> QED
    BY <2>3 DEF Pick
<1>s. S = {a, b, b} /\ g[a] = CallsOf(t, a) /\ g[b] = CallsOf(t, b)
  OBVIOUS
<1> HIDE DEF g, Step, S
<1>4. \A it : AddsUp(it, S, g) <=> it = Step(it)
  BY <1>3 DEF AddsUp
<1>5. \E it : it = Step(it)
  BY <1>2, <1>4, <1>s, SumExists
<1>6. AddsUp(sum, S, g)
  <2>1. sum = Step(sum)
    BY <1>5
  <2> HIDE DEF sum
  <2> QED
    BY <1>4, <2>1
<1> HIDE DEF sum
<1>7. sum[S] = SumOfThree(a, b, b, g, S)
  BY <1>2, <1>6, <1>s, SumIs
<1>8. SumOfThree(a, b, b, g, S) = g[a] + g[b]
  BY <1>s DEF SumOfThree
<1> QED
  BY <1>1, <1>7, <1>8, <1>s DEF S

-----------------------------------------------------------------------------
(***************************************************************************)
(* The inductive invariant                                                 *)
(***************************************************************************)

(* the calls of t that were counted, and one that is being made *)
Counted(t, map) == \E c \in Cpus : thread[c] = t /\ Counts(todo[c], env[c], map)
ToCount(t) == \E c \in Cpus : thread[c] = t /\ WillCount(todo[c])
Deciding(t) == \E c \in Cpus : thread[c] = t /\ Decides(todo[c])
Called(t, map) == CallsOf(t, map) + IF Counted(t, map) THEN 1 ELSE 0

CountInv(t) ==
  \A map \in CountMapsOf(program) :
    /\ Called(t, map) \in Nat
    /\ IF Has(maps[map], t) THEN At(maps[map], t) = Called(t, map)
       ELSE Called(t, map) > 0 => Full(maps[map])

BoundInv(t) ==
  \A a, b \in CountMapsOf(program) :
    a # b => Called(t, a) + Called(t, b) + (IF ToCount(t) THEN 1 ELSE 0) <= events

AlertInv(t) ==
  LET alert == maps["alert_flag"] IN
    "alert_flag" \in DOMAIN maps /\ ~Deciding(t) =>
      \A a, b \in CountMapsOf(program) :
        /\ a # b /\ Called(t, a) + Called(t, b) > 0
        /\ Called(t, a) > 0 => Has(maps[a], t)
        /\ Called(t, b) > 0 => Has(maps[b], t)
        => IF Has(alert, t) THEN At(alert, t) = 1 <=> Called(t, a) + Called(t, b) > ALERT_THRESHOLD
           ELSE Full(alert)

ThreadInv(t) == CountInv(t) /\ BoundInv(t) /\ AlertInv(t)

AllPlaced == \A c \in Cpus : Place(todo[c], env[c], thread[c], maps)

MonitorInv ==
  /\ DOMAIN maps = DOMAIN Examples[program].maps /\ \A m \in DOMAIN maps : maps[m].type = "hash"
  /\ thread = [c \in Cpus |-> thread[c]] /\ NoneOnTwo
  /\ \A c \in Cpus : todo[c] = <<>> <=> thread[c] = Idle
  /\ AllPlaced
  /\ events \in Nat /\ events <= MaxEvents[program]
  /\ \A e \in DOMAIN happened : happened[e] \in Nat
  /\ \A t \in Threads : ThreadInv(t)

(***************************************************************************)
(* The ids of threads may be keys, those of processes and of calls are     *)
(* ints, and an int suffices to count the calls.                           *)
(***************************************************************************)
CallsAreInts ==
  /\ Threads \subseteq Keys /\ \A t \in Threads : Process[t] \in Int
  /\ \A p \in Monitors :
       /\ Callers[p] \subseteq Threads /\ MaxEvents[p] \in 0 .. INT_MAX
       /\ \A input \in Inputs[p] :
            "ctx.id" \in DOMAIN input /\ input["ctx.id"] \in Int /\ IsInt(input["ctx.id"])

LEMMA SmallHere ==
  ASSUME program \in Monitors, NEW t, CountInv(t), BoundInv(t), events \in Nat, events <= INT_MAX
  PROVE  Small(t, FALSE) /\ (ToCount(t) => Small(t, TRUE))
<1>1. ASSUME NEW map \in CountMapsOf(program)
      PROVE  /\ Current(maps[map], t) \in Nat /\ Called(t, map) \in Nat
             /\ Current(maps[map], t) <= Called(t, map)
  BY DEF CountInv, Current
<1>2. INT_MAX \in Nat
  BY GeneratedCAssumption
<1>3. ASSUME NEW a \in CountMapsOf(program), NEW b \in CountMapsOf(program), a # b
      PROVE  /\ Current(maps[a], t) \in Nat /\ Current(maps[b], t) \in Nat
             /\ Current(maps[a], t) + Current(maps[b], t) <= INT_MAX
             /\ ToCount(t) => Current(maps[a], t) + Current(maps[b], t) + 1 <= INT_MAX
  <2>1. /\ Called(t, a) + Called(t, b) <= events
        /\ ToCount(t) => Called(t, a) + Called(t, b) + 1 <= events
    BY <1>1, <1>3 DEF BoundInv
  <2> QED
    BY <1>1, <1>2, <2>1
<1> QED
  BY <1>2, <1>3 DEF Small

(* What does nothing to a thread keeps its part of the invariant. *)
LEMMA ThreadKept ==
  ASSUME program \in Monitors, program' = program, events \in Nat, events' \in Nat,
         events <= events', DOMAIN maps' = DOMAIN maps, CountMapsOf(program) \subseteq DOMAIN maps,
         NEW CONSTANT t, ThreadInv(t),
         \A map \in DOMAIN maps : SameKey(maps[map], maps'[map], t),
         \A map \in CountMapsOf(program) : Called(t, map)' = Called(t, map),
         ToCount(t)' => ToCount(t) \/ events' = events + 1,
         Deciding(t) => Deciding(t)'
  PROVE  ThreadInv(t)'
<1>1. \A map \in DOMAIN maps :
        /\ Has(maps'[map], t) <=> Has(maps[map], t)
        /\ Has(maps[map], t) => At(maps'[map], t) = At(maps[map], t)
        /\ Full(maps[map]) => Full(maps'[map])
  BY DEF SameKey, Has
<1>2. CountInv(t)'
  BY <1>1 DEF ThreadInv, CountInv
<1>3. BoundInv(t)'
  <2> SUFFICES ASSUME NEW CONSTANT a \in CountMapsOf(program),
                      NEW CONSTANT b \in CountMapsOf(program), a # b
               PROVE  Called(t, a)' + Called(t, b)' + (IF ToCount(t)' THEN 1 ELSE 0) <= events'
    BY DEF BoundInv
  <2>1. /\ Called(t, a) \in Nat /\ Called(t, b) \in Nat
        /\ Called(t, a) + Called(t, b) + (IF ToCount(t) THEN 1 ELSE 0) <= events
    BY DEF ThreadInv, CountInv, BoundInv
  <2> QED
    BY <2>1
<1>4. AlertInv(t)'
  <2> SUFFICES ASSUME "alert_flag" \in DOMAIN maps, ~Deciding(t),
                      NEW CONSTANT a \in CountMapsOf(program),
                      NEW CONSTANT b \in CountMapsOf(program), a # b,
                      Called(t, a) + Called(t, b) > 0,
                      Called(t, a) > 0 => Has(maps'[a], t),
                      Called(t, b) > 0 => Has(maps'[b], t)
               PROVE  IF Has(maps'["alert_flag"], t)
                        THEN At(maps'["alert_flag"], t) = 1
                               <=> Called(t, a) + Called(t, b) > ALERT_THRESHOLD
                        ELSE Full(maps'["alert_flag"])
    BY DEF AlertInv
  <2>1. IF Has(maps["alert_flag"], t)
          THEN At(maps["alert_flag"], t) = 1 <=> Called(t, a) + Called(t, b) > ALERT_THRESHOLD
          ELSE Full(maps["alert_flag"])
    BY <1>1 DEF ThreadInv, AlertInv
  <2> QED
    BY <1>1, <2>1
<1> QED
  BY <1>2, <1>3, <1>4 DEF ThreadInv

LEMMA PlacedNext ==
  ASSUME program' = program, \A c \in Cpus : Place(todo'[c], env'[c], thread'[c], maps')
  PROVE  AllPlaced'
  BY DEF AllPlaced, Place, Begun, Asking, StillListed, OfKind

LEMMA CallBegins ==
  ASSUME CallsAreInts, OneEach, program \in Monitors, MonitorInv, NEW d \in Cpus,
         SystemCall(d) \/ Receive(d) \/ Switch(d)
  PROVE  /\ UNCHANGED <<maps, happened>> /\ events' = events + 1 /\ events' <= MaxEvents[program]
         /\ todo[d] = <<>> /\ todo'[d] = Examples[program].main
         /\ \A c \in Cpus : c # d => Waits(c)
         /\ \E t \in Threads : /\ ~OnCpu(t) /\ thread' = [thread EXCEPT ![d] = t]
                               /\ Says(env'[d], t)
<1>1. Hook = "sys_enter"
  BY MainIs DEF Hook
<1>2. SystemCall(d)
  BY <1>1 DEF Receive, Switch
<1>3. PICK t \in Callers[program], input \in Inputs[program] :
        /\ ~OnCpu(t) /\ thread' = [thread EXCEPT ![d] = t]
        /\ Begin(d, With(input, "pid_tgid", Process[t] * WORD + t))
  BY <1>2 DEF SystemCall
<1> DEFINE e == With(input, "pid_tgid", Process[t] * WORD + t)
<1>4. /\ t \in Threads /\ Process[t] \in Int /\ MaxEvents[program] \in Nat
      /\ "ctx.id" \in DOMAIN input /\ input["ctx.id"] \in Int /\ IsInt(input["ctx.id"])
  BY DEF CallsAreInts
<1>5. Says(e, t)
  <2>1. Wrap(Process[t] * WORD + t) = t
    BY <1>4, ThreadOfPair
  <2>2. Wrap(input["ctx.id"]) = input["ctx.id"]
    BY <1>4, WrapOfInt
  <2>3. /\ DOMAIN e = DOMAIN input \cup {"pid_tgid"} /\ e["pid_tgid"] = Process[t] * WORD + t
        /\ e["ctx.id"] = input["ctx.id"]
    <3> DEFINE n == Process[t] * WORD + t
    <3> HIDE DEF n
    <3>1. With(input, "pid_tgid", n)["ctx.id"] = input["ctx.id"]
      BY <1>4 DEF With
    <3>2. /\ DOMAIN With(input, "pid_tgid", n) = DOMAIN input \cup {"pid_tgid"}
          /\ With(input, "pid_tgid", n)["pid_tgid"] = n
      BY DEF With
    <3> QED
      BY <3>1, <3>2 DEF n
  <2> HIDE DEF e
  <2> QED
    BY <1>4, <2>1, <2>2, <2>3 DEF Says
<1> HIDE DEF e
<1>6. Begin(d, e)
  BY <1>3 DEF e
<1>7. /\ UNCHANGED <<maps, happened>> /\ events' = events + 1 /\ events' <= MaxEvents[program]
      /\ todo[d] = <<>> /\ todo'[d] = Examples[program].main /\ env'[d] = e
  BY <1>4, <1>6 DEF Begin, history, IsIdle, OneEach, MonitorInv
<1>8. \A c \in Cpus : c # d => Waits(c)
  BY <1>2, EventsBegin
<1> QED
  BY <1>3, <1>4, <1>5, <1>7, <1>8

LEMMA NoCallsYet ==
  ASSUME NEW h, \A e \in DOMAIN h : h[e] \in Nat, \A e : TimesIn(h, e) = 0,
         NEW t, NEW map \in DOMAIN CountedIn
  PROVE  CallsIn(h, t, map) = 0
<1>1. PICK a, b, c : IdsBy(map, a, b, c)
  BY IdsAre
<1>2. CountedIn[map] = {a, b, c}
  BY <1>1 DEF IdsBy
<1> DEFINE S == {a, b, c}
           g == [id \in S |-> TimesIn(h, <<t, id>>)]
<1>3. CallsIn(h, t, map) = SumOfThree(a, b, c, g, S)
  BY <1>2, CallsAre
<1>4. g[a] = 0 /\ g[b] = 0 /\ g[c] = 0
  OBVIOUS
<1> HIDE DEF g
<1>5. SumOfThree(a, b, c, g, S) = 0
  BY <1>4 DEF SumOfThree
<1> QED
  BY <1>3, <1>5

LEMMA MonitorInit ==
  ASSUME CallsAreInts, Init, program \in Monitors
  PROVE  MonitorInv
<1>1. /\ maps = Examples[program].maps /\ thread = [c \in Cpus |-> Idle]
      /\ todo = [c \in Cpus |-> <<>>] /\ DOMAIN happened = {} /\ events = 0
  BY MainIs DEF Init, Hook
<1>2. \A m \in DOMAIN maps : maps[m].type = "hash" /\ Stored(maps[m]) = {}
  <2>1. \A n : NewHash(n).type = "hash" /\ Stored(NewHash(n)) = {}
    BY DEF NewHash, Stored, Has, None
  <2> QED
    BY <1>1, <2>1, MonitorMaps DEF Hash
<1>3. \A map \in CountMapsOf(program) : map \in DOMAIN CountedIn /\ map \in DOMAIN maps
  BY <1>1 DEF CountMapsOf
<1>4. \A t, map : ~Counted(t, map) /\ ~ToCount(t)
  BY <1>1 DEF Counted, Counts, ToCount, WillCount
<1>5. \A t : \A map \in CountMapsOf(program) : Called(t, map) = 0
  <2>1. (\A e \in DOMAIN happened : happened[e] \in Nat) /\ \A e : TimesIn(happened, e) = 0
    BY <1>1 DEF TimesIn
  <2>2. \A t : \A map \in CountMapsOf(program) : CallsOf(t, map) = 0
    BY <1>3, <2>1, NoCallsYet, CallsAreIn
  <2> QED
    BY <1>4, <2>2 DEF Called
<1>6. \A t : \A map \in CountMapsOf(program) : ~Has(maps[map], t)
  BY <1>2, <1>3 DEF Stored, Has
<1>7. ASSUME NEW t \in Threads  PROVE ThreadInv(t)
  BY <1>1, <1>4, <1>5, <1>6 DEF ThreadInv, CountInv, BoundInv, AlertInv
<1>8. MaxEvents[program] \in Nat
  BY DEF CallsAreInts
<1>9. AllPlaced
  BY <1>1 DEF AllPlaced, Place
<1>10. thread = [c \in Cpus |-> thread[c]] /\ NoneOnTwo
       /\ \A c \in Cpus : todo[c] = <<>> <=> thread[c] = Idle
  BY <1>1 DEF NoneOnTwo
<1> QED
  BY <1>1, <1>2, <1>7, <1>8, <1>9, <1>10 DEF MonitorInv

LEMMA CalledKept ==
  ASSUME NEW CONSTANT t, NEW CONSTANT map, happened' = happened,
         Counted(t, map)' <=> Counted(t, map)
  PROVE  Called(t, map)' = Called(t, map)
  BY CallsAreIn DEF Called

(* What a CPU does is nothing to the threads that are elsewhere. *)
LEMMA ElsewhereKept ==
  ASSUME NEW c \in Cpus, \A d \in Cpus : d # c => Waits(d) /\ thread'[d] = thread[d],
         NEW CONSTANT u, thread[c] # u, thread'[c] # u
  PROVE  /\ ToCount(u)' <=> ToCount(u)
         /\ Deciding(u)' <=> Deciding(u)
         /\ \A map : Counted(u, map)' <=> Counted(u, map)
<1>1. ToCount(u)' <=> ToCount(u)
  BY DEF ToCount, Waits, WillCount
<1>2. Deciding(u)' <=> Deciding(u)
  BY DEF Deciding, Waits, Decides
<1>3. ASSUME NEW CONSTANT map  PROVE Counted(u, map)' <=> Counted(u, map)
  BY DEF Counted, Waits, Counts
<1> QED
  BY <1>1, <1>2, <1>3

(* A thread is on one CPU at most. *)
LEMMA OnItsCpu ==
  ASSUME NoneOnTwo, NEW c \in Cpus, thread[c] # Idle
  PROVE  LET t == thread[c]
         IN /\ ToCount(t) <=> WillCount(todo[c])
            /\ Deciding(t) <=> Decides(todo[c])
            /\ \A map : Counted(t, map) <=> Counts(todo[c], env[c], map)
<1>1. \A d \in Cpus : thread[d] = thread[c] => d = c
  BY DEF NoneOnTwo
<1> QED
  BY <1>1 DEF ToCount, Deciding, Counted

(* and after a statement that does not end main *)
LEMMA OnItsCpuNext ==
  ASSUME NoneOnTwo, NEW c \in Cpus, thread[c] # Idle, thread' = thread,
         NEW CONSTANT t, t = thread[c]
  PROVE  /\ ToCount(t)' <=> WillCount(todo'[c])
         /\ Deciding(t)' <=> Decides(todo'[c])
         /\ \A map : Counted(t, map)' <=> Counts(todo'[c], env'[c], map)
<1>1. \A d \in Cpus : thread'[d] = t => d = c
  BY DEF NoneOnTwo
<1>2. thread'[c] = t
  OBVIOUS
<1>3. ToCount(t)' <=> WillCount(todo'[c])
  BY <1>1, <1>2 DEF ToCount, WillCount
<1>4. Deciding(t)' <=> Decides(todo'[c])
  BY <1>1, <1>2 DEF Deciding, Decides
<1>5. ASSUME NEW CONSTANT map  PROVE Counted(t, map)' <=> Counts(todo'[c], env'[c], map)
  BY <1>1, <1>2 DEF Counted, Counts
<1> QED
  BY <1>3, <1>4, <1>5

LEMMA SameKeyAsIs ==
  ASSUME NEW m, NEW k
  PROVE  SameKey(m, m, k)
  BY DEF SameKey

-----------------------------------------------------------------------------
(***************************************************************************)
(* Every step keeps it                                                     *)
(***************************************************************************)

(* what MonitorInv says of the maps and of who is where *)
LEMMA MonitorParts ==
  ASSUME program \in Monitors, MonitorInv, CallsAreInts
  PROVE  /\ CountMapsOf(program) \subseteq DOMAIN maps
         /\ \A map \in CountMapsOf(program) : map \in DOMAIN CountedIn
         /\ "alert_flag" \in DOMAIN maps <=> program # "MemoryMonitor"
         /\ events \in Nat /\ events <= INT_MAX /\ Threads \subseteq Keys
         /\ \A c \in Cpus : todo[c] # <<>> => thread[c] \in Threads
         /\ Idle \notin Threads /\ NoneOnTwo /\ thread = [c \in Cpus |-> thread[c]]
         /\ \A t \in Threads : CountInv(t) /\ BoundInv(t) /\ AlertInv(t)
<1>1. events \in Nat /\ events <= INT_MAX
  <2>1. MaxEvents[program] \in 0 .. INT_MAX /\ INT_MAX \in Nat
    BY GeneratedCAssumption DEF CallsAreInts
  <2>2. events \in Nat /\ events <= MaxEvents[program]
    BY DEF MonitorInv
  <2> QED
    BY <2>1, <2>2
<1>2. ASSUME NEW c \in Cpus, todo[c] # <<>>  PROVE thread[c] \in Threads
  <2>1. Place(todo[c], env[c], thread[c], maps)
    BY DEF MonitorInv, AllPlaced
  <2> QED
    BY <1>2, <2>1 DEF Place, Begun, Asking, OfKind, Knows, Says
<1>3. Idle \notin Threads
  BY GeneratedCAssumption DEF Idle
<1>4. /\ CountMapsOf(program) \subseteq DOMAIN maps
      /\ \A map \in CountMapsOf(program) : map \in DOMAIN CountedIn
  BY DEF MonitorInv, CountMapsOf
<1>5. "alert_flag" \in DOMAIN maps <=> program # "MemoryMonitor"
  BY MonitorMaps DEF MonitorInv
<1>6. /\ NoneOnTwo /\ thread = [c \in Cpus |-> thread[c]] /\ Threads \subseteq Keys
      /\ \A t \in Threads : CountInv(t) /\ BoundInv(t) /\ AlertInv(t)
  BY DEF MonitorInv, ThreadInv, CallsAreInts
<1> QED
  BY <1>1, <1>2, <1>3, <1>4, <1>5, <1>6

(* Storing under one's own key in one of the maps. *)
LEMMA StoreElsewhere ==
  ASSUME MapsInv, program \in Monitors, MonitorInv, CallsAreInts, NEW c \in Cpus,
         NEW t \in Threads, NEW v, NEW map \in DOMAIN maps,
         maps' = [maps EXCEPT ![map] = Update(maps[map], c, t, v, "BPF_ANY")]
  PROVE  /\ DOMAIN maps' = DOMAIN maps /\ \A m \in DOMAIN maps : maps'[m].type = "hash"
         /\ \A m \in DOMAIN maps : m # map => maps'[m] = maps[m]
         /\ \A u \in Threads : u # t => \A m \in DOMAIN maps : SameKey(maps[m], maps'[m], u)
         /\ Full(maps[map]) => Full(maps'[map])
         /\ IF Has(maps'[map], t) THEN At(maps'[map], t) = v ELSE Full(maps'[map])
         /\ Has(maps[map], t) \/ ~Full(maps[map]) <=> Has(maps'[map], t)
<1> DEFINE m == maps[map]
           n == Update(m, c, t, v, "BPF_ANY")
<1>1. MapInv(m) /\ m.type = "hash" /\ t \in Keys
  BY DEF MapsInv, MonitorInv, CallsAreInts
<1>2. /\ n.type = "hash" /\ (Full(m) => Full(n))
      /\ \A l \in Keys : l # t => SameKey(m, n, l)
      /\ IF Has(n, t) THEN At(n, t) = v ELSE Full(n)
      /\ Has(m, t) \/ ~Full(m) <=> Has(n, t)
  <2> HIDE DEF m
  <2> QED
    BY <1>1, StoreAny
<1> HIDE DEF n
<1>3. /\ DOMAIN maps' = DOMAIN maps /\ maps'[map] = n
      /\ \A l \in DOMAIN maps : l # map => maps'[l] = maps[l]
  BY DEF MapsInv, n
<1>4. \A u \in Threads : u # t => \A l \in DOMAIN maps : SameKey(maps[l], maps'[l], u)
  <2> SUFFICES ASSUME NEW u \in Threads, u # t, NEW l \in DOMAIN maps
               PROVE  SameKey(maps[l], maps'[l], u)
    OBVIOUS
  <2>1. u \in Keys
    BY DEF CallsAreInts
  <2> QED
    BY <1>2, <1>3, <2>1, SameKeyAsIs
<1>5. \A l \in DOMAIN maps : maps'[l].type = "hash"
  BY <1>2, <1>3 DEF MonitorInv
<1> QED
  BY <1>2, <1>3, <1>4, <1>5

(* Where the CPUs are after a step of one of them. *)
LEMMA PlacesNext ==
  ASSUME program \in Monitors, program' = program, MonitorInv, NEW c \in Cpus,
         \A d \in Cpus : d # c => Waits(d) /\ thread'[d] = thread[d],
         \A d \in Cpus : d # c /\ todo[d] # <<>> =>
           \A map \in CountMapsOf(program) : SameKey(maps[map], maps'[map], thread[d]),
         Place(todo'[c], env'[c], thread'[c], maps')
  PROVE  AllPlaced'
<1>1. ASSUME NEW d \in Cpus, d # c  PROVE Place(todo'[d], env'[d], thread'[d], maps')
  <2>1. todo'[d] = todo[d] /\ env'[d] = env[d] /\ thread'[d] = thread[d]
    BY <1>1 DEF Waits
  <2>2. Place(todo[d], env[d], thread[d], maps)
    BY DEF MonitorInv, AllPlaced
  <2>3. CASE todo[d] = <<>>
    BY <2>1, <2>3 DEF Place
  <2>4. CASE todo[d] # <<>>
    <3>1. Place(todo[d], env[d], thread[d], maps')
      BY <1>1, <2>2, <2>4, PlaceKept
    <3> QED
      BY <2>1, <3>1
  <2> QED
    BY <2>3, <2>4
<1> QED
  BY <1>1, PlacedNext

(* what a step that neither begins nor ends a call leaves to be shown *)
LEMMA StaysKeeps ==
  ASSUME program \in Monitors, program' = program, MonitorInv, CallsAreInts,
         NEW c \in Cpus, todo[c] # <<>>, Stays(c), \A d \in Cpus : d # c => Waits(d),
         DOMAIN maps' = DOMAIN maps, \A m \in DOMAIN maps : maps'[m].type = "hash",
         \A t \in Threads : t # thread[c] =>
           \A m \in DOMAIN maps : SameKey(maps[m], maps'[m], t),
         Place(todo'[c], env'[c], thread[c], maps'),
         NEW CONSTANT t \in Threads, t = thread[c], ThreadInv(t)'
  PROVE  MonitorInv'
<1>1. UNCHANGED <<happened, thread, events>> /\ todo'[c] # <<>>
  BY DEF Stays
<1>2. /\ CountMapsOf(program) \subseteq DOMAIN maps /\ events \in Nat
      /\ NoneOnTwo /\ thread[c] # Idle
      /\ \A d \in Cpus : todo[d] # <<>> => thread[d] \in Threads
  BY MonitorParts DEF MonitorInv
<1>3. AllPlaced'
  <2>1. ASSUME NEW d \in Cpus, d # c, todo[d] # <<>>, NEW map \in CountMapsOf(program)
        PROVE  SameKey(maps[map], maps'[map], thread[d])
    <3>1. thread[d] \in Threads /\ thread[d] # thread[c] /\ map \in DOMAIN maps
      BY <1>2, <2>1 DEF NoneOnTwo
    <3> QED
      BY <3>1
  <2> QED
    BY <1>1, <2>1, PlacesNext
<1>4. ASSUME NEW CONSTANT u \in Threads, u # t  PROVE ThreadInv(u)'
  <2>1. /\ ToCount(u)' <=> ToCount(u)
        /\ Deciding(u)' <=> Deciding(u)
        /\ \A map : Counted(u, map)' <=> Counted(u, map)
    BY <1>1, <1>4, ElsewhereKept
  <2>2. ASSUME NEW CONSTANT map \in CountMapsOf(program)  PROVE Called(u, map)' = Called(u, map)
    BY <1>1, <2>1, CalledKept
  <2>3. ThreadInv(u) /\ \A m \in DOMAIN maps : SameKey(maps[m], maps'[m], u)
    BY <1>4 DEF MonitorInv
  <2> QED
    BY <1>1, <1>2, <2>1, <2>2, <2>3, ThreadKept
<1>5. NoneOnTwo' /\ thread' = [d \in Cpus |-> thread'[d]]
  BY <1>1 DEF NoneOnTwo, MonitorInv
<1>6. \A d \in Cpus : todo'[d] = <<>> <=> thread'[d] = Idle
  BY <1>1, <1>2 DEF MonitorInv, Waits
<1>7. \A u \in Threads : ThreadInv(u)'
  BY <1>4
<1> QED
  BY <1>1, <1>3, <1>5, <1>6, <1>7 DEF MonitorInv

LEMMA GoesOnKeeps ==
  ASSUME program \in Monitors, program' = program, MonitorInv, CallsAreInts,
         NEW c \in Cpus, todo[c] # <<>>, CallGoesOn(c), \A d \in Cpus : d # c => Waits(d)
  PROVE  MonitorInv'
<1>1. /\ UNCHANGED <<maps, happened, thread, events>> /\ Stays(c)
      /\ Place(todo'[c], env'[c], thread[c], maps')
  BY DEF CallGoesOn, Stays
<1>2. /\ CountMapsOf(program) \subseteq DOMAIN maps /\ events \in Nat
      /\ NoneOnTwo /\ thread[c] \in Threads /\ thread[c] # Idle
  BY MonitorParts
<1>3. PICK t \in Threads : t = thread[c]
  BY <1>2
<1>4. /\ ToCount(t)' => ToCount(t)
      /\ Deciding(t)' <=> Deciding(t)
      /\ \A map \in CountMapsOf(program) : Counted(t, map)' <=> Counted(t, map)
  <2>1. /\ ToCount(t) <=> WillCount(todo[c])
        /\ Deciding(t) <=> Decides(todo[c])
        /\ \A map : Counted(t, map) <=> Counts(todo[c], env[c], map)
    BY <1>2, <1>3, OnItsCpu
  <2>2. /\ ToCount(t)' <=> WillCount(todo'[c])
        /\ Deciding(t)' <=> Decides(todo'[c])
        /\ \A map : Counted(t, map)' <=> Counts(todo'[c], env'[c], map)
    BY <1>1, <1>2, <1>3, OnItsCpuNext
  <2> QED
    BY <2>1, <2>2 DEF CallGoesOn
<1>5. ThreadInv(t)'
  <2>1. ASSUME NEW CONSTANT map \in CountMapsOf(program)  PROVE Called(t, map)' = Called(t, map)
    BY <1>1, <1>4, CalledKept
  <2>2. ThreadInv(t) /\ \A m \in DOMAIN maps : SameKey(maps[m], maps'[m], t)
    BY <1>1, SameKeyAsIs DEF MonitorInv
  <2> QED
    BY <1>1, <1>2, <1>4, <2>1, <2>2, ThreadKept
<1>6. /\ DOMAIN maps' = DOMAIN maps /\ \A m \in DOMAIN maps : maps'[m].type = "hash"
      /\ \A u \in Threads : \A m \in DOMAIN maps : SameKey(maps[m], maps'[m], u)
  BY <1>1, SameKeyAsIs DEF MonitorInv
<1> QED
  BY <1>1, <1>3, <1>5, <1>6, StaysKeeps

LEMMA CallsAreNat ==
  ASSUME program \in Monitors, MonitorInv, CallsAreInts, NEW t, NEW map \in CountMapsOf(program)
  PROVE  CallsOf(t, map) \in Nat
<1>1. (\A e \in DOMAIN happened : happened[e] \in Nat) /\ map \in DOMAIN CountedIn
  BY MonitorParts DEF MonitorInv
<1> QED
  BY <1>1, OneMore, CallsAreIn

LEMMA AfterIs ==
  ASSUME program \in Monitors, NEW k \in KindsOf(program)
  PROVE  LET q == AfterStore(k)
         IN /\ q # <<>> /\ Past(Head(q)) /\ ~WillCount(q)
            /\ k.alerts = TRUE => Decides(q)
            /\ k.alerts # TRUE => Ends(q)
<1>1. CASE k.alerts = TRUE
  <2>1. AfterStore(k) # <<>> /\ Head(AfterStore(k)) = GetOther(k)
    BY <1>1, CodeOfAlerts
  <2>2. Past(GetOther(k)) /\ GetOther(k).op = "lookup"
    BY CodeIs, PastIs, OpsAre
  <2> QED
    BY <1>1, <2>1, <2>2 DEF WillCount, Decides
<1>2. CASE k.alerts = FALSE
  <2>1. AfterStore(k) = <<LineOf(k.text), Return(0)>>
    BY <1>2, CodeOfCounts
  <2>2. Ends(AfterStore(k))
    BY <2>1 DEF Ends
  <2> QED
    BY <1>2, <2>2, EndsIs
<1> QED
  BY <1>1, <1>2, KindFacts

LEMMA CountsCallKeeps ==
  ASSUME MapsInv, program \in Monitors, program' = program, MonitorInv, CallsAreInts,
         NEW c \in Cpus, NEW k \in KindsOf(program), CountsCall(c, k),
         \A d \in Cpus : d # c => Waits(d)
  PROVE  MonitorInv'
<1> DEFINE n == Current(maps[k.own], thread[c]) + 1
<1>1. /\ Stays(c) /\ WillCount(todo[c]) /\ OfKind(k, todo[c], env[c], thread[c], maps)
      /\ todo'[c] = AfterStore(k) /\ env'[c] = env[c]
      /\ "new_count" \in DOMAIN env[c] /\ env[c]["new_count"] = n
      /\ maps' = [maps EXCEPT ![k.own] = Update(maps[k.own], c, thread[c], n, "BPF_ANY")]
  BY DEF CountsCall
<1>2. /\ CountMapsOf(program) \subseteq DOMAIN maps /\ events \in Nat
      /\ NoneOnTwo /\ thread[c] \in Threads /\ thread[c] # Idle
      /\ "alert_flag" \in DOMAIN maps <=> program # "MemoryMonitor"
  BY <1>1, MonitorParts DEF WillCount
<1>3. /\ k.own \in CountMapsOf(program) /\ k.own \in DOMAIN maps
      /\ \A map \in CountMapsOf(program) : k.id \in CountedIn[map] <=> map = k.own
      /\ k.alerts = TRUE <=> program # "MemoryMonitor"
  BY <1>2, KindFacts
<1>4. PICK t \in Threads : t = thread[c]
  BY <1>2
<1>5. UNCHANGED <<happened, thread, events>> /\ todo[c] # <<>>
  BY <1>1 DEF Stays, WillCount
<1>6. /\ Knows(env[c], t) /\ env[c]["ctx.id"] = k.id
  BY <1>1, <1>4 DEF OfKind
<1>7. /\ todo'[c] # <<>> /\ Past(Head(todo'[c])) /\ ~WillCount(todo'[c])
      /\ k.alerts = TRUE => Decides(todo'[c])
      /\ k.alerts # TRUE => Ends(todo'[c])
  BY <1>1, AfterIs
<1>8. ToCount(t) /\ \A map : ~Counted(t, map)
  BY <1>1, <1>2, <1>4, OnItsCpu DEF WillCount, Counts
<1>9. /\ ~ToCount(t)' /\ (k.alerts = TRUE => Deciding(t)')
      /\ \A map \in CountMapsOf(program) : Counted(t, map)' <=> map = k.own
  <2>1. /\ ToCount(t)' <=> WillCount(todo'[c])
        /\ Deciding(t)' <=> Decides(todo'[c])
        /\ \A map : Counted(t, map)' <=> Counts(todo'[c], env'[c], map)
    BY <1>2, <1>4, <1>5, OnItsCpuNext
  <2>2. \A map \in CountMapsOf(program) : Counts(todo'[c], env'[c], map) <=> map = k.own
    BY <1>1, <1>3, <1>6, <1>7 DEF Counts
  <2> QED
    BY <1>7, <2>1, <2>2
<1>10. ASSUME NEW CONSTANT map \in CountMapsOf(program)
       PROVE  /\ Called(t, map) \in Nat /\ Called(t, map) = CallsOf(t, map)
              /\ Called(t, map)' = Called(t, map) + IF map = k.own THEN 1 ELSE 0
  <2>1. CallsOf(t, map)' = CallsOf(t, map) /\ CallsOf(t, map) \in Nat
    BY <1>5, CallsAreIn, CallsAreNat
  <2> QED
    BY <1>8, <1>9, <2>1 DEF Called
<1>11. maps' = [maps EXCEPT ![k.own] = Update(maps[k.own], c, t, n, "BPF_ANY")]
  BY <1>1, <1>4
<1> HIDE DEF n
<1>12. /\ DOMAIN maps' = DOMAIN maps /\ \A m \in DOMAIN maps : maps'[m].type = "hash"
       /\ \A m \in DOMAIN maps : m # k.own => maps'[m] = maps[m]
       /\ \A u \in Threads : u # t => \A m \in DOMAIN maps : SameKey(maps[m], maps'[m], u)
       /\ Full(maps[k.own]) => Full(maps'[k.own])
       /\ IF Has(maps'[k.own], t) THEN At(maps'[k.own], t) = n ELSE Full(maps'[k.own])
       /\ Has(maps[k.own], t) \/ ~Full(maps[k.own]) <=> Has(maps'[k.own], t)
  BY <1>3, <1>11, StoreElsewhere
<1>13. ThreadInv(t)'
  <2>1. CountInv(t) /\ BoundInv(t)
    BY MonitorParts
  <2>2. CountInv(t)'
    <3>1. ASSUME NEW CONSTANT map \in CountMapsOf(program)
          PROVE  /\ Called(t, map)' \in Nat
                 /\ IF Has(maps'[map], t) THEN At(maps'[map], t) = Called(t, map)'
                    ELSE Called(t, map)' > 0 => Full(maps'[map])
      <4>1. /\ Called(t, map) \in Nat
            /\ IF Has(maps[map], t) THEN At(maps[map], t) = Called(t, map)
               ELSE Called(t, map) > 0 => Full(maps[map])
        BY <2>1 DEF CountInv
      <4>2. CASE map # k.own
        <5>1. maps'[map] = maps[map]
          BY <1>2, <1>12, <4>2
        <5> QED
          BY <1>10, <4>1, <4>2, <5>1
      <4>3. CASE map = k.own
        <5>1. n = Current(maps[map], t) + 1
          BY <1>4, <4>3 DEF n
        <5>2. Has(maps'[map], t) => Current(maps[map], t) = Called(t, map)
          BY <1>12, <4>1, <4>3 DEF Current
        <5> QED
          BY <1>10, <1>12, <4>1, <4>3, <5>1, <5>2
      <4> QED
        BY <4>2, <4>3
    <3> QED
      BY <3>1 DEF CountInv
  <2>3. BoundInv(t)'
    <3> SUFFICES ASSUME NEW CONSTANT a \in CountMapsOf(program),
                        NEW CONSTANT b \in CountMapsOf(program), a # b
                 PROVE  Called(t, a)' + Called(t, b)' + (IF ToCount(t)' THEN 1 ELSE 0) <= events'
      BY DEF BoundInv
    <3>1. /\ Called(t, a) \in Nat /\ Called(t, b) \in Nat
          /\ Called(t, a)' = Called(t, a) + IF a = k.own THEN 1 ELSE 0
          /\ Called(t, b)' = Called(t, b) + IF b = k.own THEN 1 ELSE 0
      BY <1>10
    <3>2. Called(t, a) + Called(t, b) + 1 <= events
      BY <1>8, <2>1 DEF BoundInv
    <3> QED
      BY <1>2, <1>5, <1>9, <3>1, <3>2
  <2>4. AlertInv(t)'
    BY <1>2, <1>3, <1>9, <1>12 DEF AlertInv
  <2> QED
    BY <2>2, <2>3, <2>4 DEF ThreadInv
<1>14. Place(todo'[c], env'[c], thread[c], maps')
  <2>1. CASE k.alerts = TRUE
    <3>1. HasNew(k, env'[c], t, maps')
      BY <1>1, <1>12 DEF HasNew
    <3>2. OfKind(k, todo'[c], env'[c], t, maps')
      BY <1>1, <1>6, <2>1, <3>1 DEF OfKind, Alerting
    <3> QED
      BY <1>4, <3>2 DEF Place
  <2>2. CASE k.alerts # TRUE
    BY <1>1, <1>4, <1>6, <1>7, <2>2 DEF Place, Knows
  <2> QED
    BY <2>1, <2>2
<1> QED
  BY <1>1, <1>4, <1>5, <1>12, <1>13, <1>14, StaysKeeps

(* what the calls of t were before and are after an alert is set for it *)
LEMMA CalledWhenSet ==
  ASSUME program \in Monitors, MonitorInv, CallsAreInts, NEW c \in Cpus, NEW k \in KindsOf(program),
         SetsAlert(c, k), NEW CONSTANT t \in Threads, t = thread[c], thread[c] # Idle, NoneOnTwo
  PROVE  /\ ~ToCount(t) /\ ~ToCount(t)' /\ ~Deciding(t)'
         /\ \A map \in CountMapsOf(program) :
              /\ Called(t, map)' = Called(t, map)
              /\ CallsOf(t, map) \in Nat
              /\ Called(t, map) = CallsOf(t, map) + IF map = k.own THEN 1 ELSE 0
<1>1. /\ Stays(c) /\ Decides(todo[c]) /\ Ends(todo'[c]) /\ env'[c] = env[c]
      /\ OfKind(k, todo[c], env[c], thread[c], maps)
  BY DEF SetsAlert
<1>2. UNCHANGED <<happened, thread, events>> /\ env[c]["ctx.id"] = k.id
  BY <1>1 DEF Stays, OfKind
<1>3. /\ todo'[c] # <<>> /\ Past(Head(todo'[c])) /\ ~WillCount(todo'[c]) /\ ~Decides(todo'[c])
      /\ todo[c] # <<>> /\ Past(Head(todo[c])) /\ ~WillCount(todo[c])
  BY <1>1, EndsIs DEF Decides, WillCount
<1>4. /\ ToCount(t) <=> WillCount(todo[c])
      /\ \A map : Counted(t, map) <=> Counts(todo[c], env[c], map)
  BY OnItsCpu
<1>5. /\ ToCount(t)' <=> WillCount(todo'[c])
      /\ Deciding(t)' <=> Decides(todo'[c])
      /\ \A map : Counted(t, map)' <=> Counts(todo'[c], env'[c], map)
  BY <1>2, OnItsCpuNext
<1>6. ASSUME NEW CONSTANT map \in CountMapsOf(program)
      PROVE  /\ Called(t, map)' = Called(t, map) /\ CallsOf(t, map) \in Nat
             /\ Called(t, map) = CallsOf(t, map) + IF map = k.own THEN 1 ELSE 0
  <2>1. k.id \in CountedIn[map] <=> map = k.own
    BY KindFacts
  <2>2. (Counted(t, map) <=> map = k.own) /\ (Counted(t, map)' <=> map = k.own)
    BY <1>1, <1>2, <1>3, <1>4, <1>5, <2>1 DEF Counts
  <2>3. Called(t, map)' = Called(t, map)
    BY <1>2, <2>2, CalledKept
  <2> QED
    BY <2>2, <2>3, CallsAreNat DEF Called
<1> QED
  BY <1>3, <1>4, <1>5, <1>6

LEMMA SetsAlertKeeps ==
  ASSUME MapsInv, program \in Monitors, program' = program, MonitorInv, CallsAreInts,
         NEW c \in Cpus, NEW k \in KindsOf(program), SetsAlert(c, k),
         \A d \in Cpus : d # c => Waits(d)
  PROVE  MonitorInv'
<1>1. /\ Stays(c) /\ Decides(todo[c]) /\ OfKind(k, todo[c], env[c], thread[c], maps)
      /\ k.alerts = TRUE /\ Ends(todo'[c]) /\ env'[c] = env[c]
  BY DEF SetsAlert
<1>2. /\ CountMapsOf(program) \subseteq DOMAIN maps /\ events \in Nat
      /\ NoneOnTwo /\ thread[c] \in Threads /\ thread[c] # Idle
      /\ "alert_flag" \in DOMAIN maps <=> program # "MemoryMonitor"
      /\ \A map \in CountMapsOf(program) : map \in DOMAIN CountedIn
  BY <1>1, MonitorParts DEF Decides
<1>3. /\ k.own \in CountMapsOf(program) /\ "alert_flag" \in DOMAIN maps /\ k.own # k.other
      /\ k.own # "alert_flag" /\ k.other # "alert_flag"
  BY <1>1, <1>2, KindFacts
<1>a. CountMapsOf(program) = {k.own, k.other}
  BY <1>1, KindFacts
<1>4. PICK t \in Threads : t = thread[c]
  BY <1>2
<1>5. UNCHANGED <<happened, thread, events>> /\ todo[c] # <<>> /\ Knows(env[c], t)
  BY <1>1, <1>4 DEF Stays, Decides, OfKind
<1>6. PICK v \in {0, 1} :
        /\ Has(maps[k.own], t) => (v = 1 <=> SumOf(k, t, maps) > ALERT_THRESHOLD)
        /\ maps' = [maps EXCEPT !["alert_flag"] = Update(maps["alert_flag"], c, t, v, "BPF_ANY")]
  BY <1>4 DEF SetsAlert
<1>7. /\ DOMAIN maps' = DOMAIN maps /\ \A m \in DOMAIN maps : maps'[m].type = "hash"
      /\ \A m \in DOMAIN maps : m # "alert_flag" => maps'[m] = maps[m]
      /\ \A u \in Threads : u # t => \A m \in DOMAIN maps : SameKey(maps[m], maps'[m], u)
      /\ IF Has(maps'["alert_flag"], t) THEN At(maps'["alert_flag"], t) = v
         ELSE Full(maps'["alert_flag"])
  <2> DEFINE flag == "alert_flag"
  <2>1. maps' = [maps EXCEPT ![flag] = Update(maps[flag], c, t, v, "BPF_ANY")]
    BY <1>6
  <2>2. flag \in DOMAIN maps
    BY <1>3
  <2>3. /\ DOMAIN maps' = DOMAIN maps /\ \A m \in DOMAIN maps : maps'[m].type = "hash"
        /\ \A m \in DOMAIN maps : m # flag => maps'[m] = maps[m]
        /\ \A u \in Threads : u # t => \A m \in DOMAIN maps : SameKey(maps[m], maps'[m], u)
        /\ IF Has(maps'[flag], t) THEN At(maps'[flag], t) = v ELSE Full(maps'[flag])
    <3> HIDE DEF flag
    <3> QED
      BY <2>1, <2>2, StoreElsewhere
  <2> QED
    BY <2>3 DEF flag
<1>8. /\ ~ToCount(t) /\ ~ToCount(t)' /\ ~Deciding(t)'
      /\ \A map \in CountMapsOf(program) :
           /\ Called(t, map)' = Called(t, map)
           /\ CallsOf(t, map) \in Nat
           /\ Called(t, map) = CallsOf(t, map) + IF map = k.own THEN 1 ELSE 0
  BY <1>2, <1>4, CalledWhenSet
<1>9. \A map \in CountMapsOf(program) : maps'[map] = maps[map]
  BY <1>2, <1>3, <1>7, <1>a
<1>10. ThreadInv(t)'
  <2>1. CountInv(t) /\ BoundInv(t)
    BY MonitorParts
  <2>2. CountInv(t)'
    BY <1>8, <1>9, <2>1 DEF CountInv
  <2>3. BoundInv(t)'
    BY <1>5, <1>8, <2>1 DEF BoundInv
  <2>4. AlertInv(t)'
    <3> DEFINE a == k.own
               b == k.other
    <3>1. /\ CountMapsOf(program) = {a, b} /\ a # b
          /\ Called(t, a)' = Called(t, a) /\ Called(t, b)' = Called(t, b)
      BY <1>3, <1>8, <1>a
    <3>2. /\ Called(t, a) \in Nat /\ Called(t, b) \in Nat /\ Called(t, a) > 0
      BY <1>3, <1>8, <1>a
    <3>3. /\ Has(maps[a], t) => At(maps[a], t) = Called(t, a)
          /\ Has(maps[b], t) => At(maps[b], t) = Called(t, b)
      BY <1>a, <2>1 DEF CountInv
    <3>4. ASSUME Called(t, a) > 0 => Has(maps[a], t), Called(t, b) > 0 => Has(maps[b], t)
          PROVE  IF Has(maps'["alert_flag"], t)
                   THEN At(maps'["alert_flag"], t) = 1
                          <=> Called(t, a) + Called(t, b) > ALERT_THRESHOLD
                   ELSE Full(maps'["alert_flag"])
      <4>1. Current(maps[b], t) = Called(t, b)
        BY <3>2, <3>3, <3>4 DEF Current
      <4>2. SumOf(k, t, maps) = Called(t, a) + Called(t, b)
        BY <3>2, <3>3, <3>4, <4>1 DEF SumOf
      <4>3. v = 1 <=> Called(t, a) + Called(t, b) > ALERT_THRESHOLD
        BY <1>6, <3>2, <3>4, <4>2
      <4> QED
        BY <1>7, <4>3
    <3>5. maps'[a] = maps[a] /\ maps'[b] = maps[b]
      BY <1>9, <1>a
    <3> SUFFICES ASSUME NEW CONSTANT x \in CountMapsOf(program),
                        NEW CONSTANT y \in CountMapsOf(program), x # y,
                        Called(t, x)' > 0 => Has(maps'[x], t), Called(t, y)' > 0 => Has(maps'[y], t)
                 PROVE  IF Has(maps'["alert_flag"], t)
                          THEN At(maps'["alert_flag"], t) = 1
                                 <=> Called(t, x)' + Called(t, y)' > ALERT_THRESHOLD
                          ELSE Full(maps'["alert_flag"])
      BY DEF AlertInv
    <3>6. CASE x = a /\ y = b
      BY <3>1, <3>4, <3>5, <3>6
    <3>7. CASE x = b /\ y = a
      <4>1. Called(t, x)' + Called(t, y)' = Called(t, a) + Called(t, b)
        BY <3>1, <3>2, <3>7
      <4> QED
        BY <3>1, <3>4, <3>5, <3>7, <4>1
    <3> QED
      BY <3>1, <3>6, <3>7
  <2> QED
    BY <2>2, <2>3, <2>4 DEF ThreadInv
<1>11. Place(todo'[c], env'[c], thread[c], maps')
  BY <1>1, <1>4, <1>5 DEF Place, Knows
<1> QED
  BY <1>1, <1>4, <1>5, <1>7, <1>10, <1>11, StaysKeeps

(* what a call that is over is to its own thread and to the others *)
LEMMA CalledWhenOver ==
  ASSUME program \in Monitors, MonitorInv, CallsAreInts, NEW c \in Cpus, CallIsOver(c),
         \A d \in Cpus : d # c => Waits(d), NEW CONSTANT u \in Threads
  PROVE  /\ ToCount(u)' => ToCount(u)
         /\ Deciding(u) <=> Deciding(u)'
         /\ \A map \in CountMapsOf(program) : Called(u, map)' = Called(u, map)
<1>1. /\ todo[c] = <<Return(0)>> /\ todo'[c] = <<>> /\ thread' = [thread EXCEPT ![c] = Idle]
      /\ happened' = With(happened, Subject(c), Times(Subject(c)) + 1)
  BY DEF CallIsOver
<1>2. /\ NoneOnTwo /\ thread = [d \in Cpus |-> thread[d]] /\ Idle \notin Threads
      /\ \A map \in CountMapsOf(program) : map \in DOMAIN CountedIn
      /\ thread[c] \in Threads /\ todo[c] # <<>>
      /\ \A e \in DOMAIN happened : happened[e] \in Nat
  <2>1. todo[c] # <<>>
    BY <1>1, ReturnEnds
  <2>2. /\ NoneOnTwo /\ thread = [d \in Cpus |-> thread[d]] /\ Idle \notin Threads
        /\ \A map \in CountMapsOf(program) : map \in DOMAIN CountedIn
        /\ \A d \in Cpus : todo[d] # <<>> => thread[d] \in Threads
    BY MonitorParts
  <2> QED
    BY <2>1, <2>2 DEF MonitorInv
<1>3. thread'[c] = Idle /\ \A d \in Cpus : d # c => thread'[d] = thread[d]
  BY <1>1, <1>2
<1> DEFINE one == <<thread[c], env[c]["ctx.id"]>>
<1>4. happened' = With(happened, one, TimesIn(happened, one) + 1)
  <2>1. Hook = "sys_enter"
    BY MainIs DEF Hook
  <2>2. Subject(c) = one
    BY <2>1 DEF Subject, Monitors
  <2> HIDE DEF one
  <2> QED
    BY <1>1, <2>2 DEF Times, TimesIn
<1>5. ASSUME NEW CONSTANT map \in CountMapsOf(program)
      PROVE  /\ CallsOf(u, map) \in Nat
             /\ CallsOf(u, map)' =
                  CallsOf(u, map)
                    + IF u = thread[c] /\ env[c]["ctx.id"] \in CountedIn[map] THEN 1 ELSE 0
  <2>1. /\ CallsIn(happened, u, map) \in Nat
        /\ CallsIn(happened', u, map) =
             CallsIn(happened, u, map)
               + IF u = thread[c] /\ env[c]["ctx.id"] \in CountedIn[map] THEN 1 ELSE 0
    <3>1. ASSUME NEW s, NEW id
          PROVE  LET i == With(happened, <<s, id>>, TimesIn(happened, <<s, id>>) + 1)
                 IN /\ CallsIn(happened, u, map) \in Nat
                    /\ CallsIn(i, u, map) =
                         CallsIn(happened, u, map) + IF u = s /\ id \in CountedIn[map] THEN 1 ELSE 0
      BY <1>2, OneMore
    <3> QED
      BY <1>4, <3>1
  <2> QED
    BY <2>1, CallsAreIn
<1>6. CASE u # thread[c]
  <2>1. /\ ToCount(u)' <=> ToCount(u)
        /\ Deciding(u)' <=> Deciding(u)
        /\ \A map : Counted(u, map)' <=> Counted(u, map)
    BY <1>2, <1>3, <1>6, ElsewhereKept
  <2>2. ASSUME NEW CONSTANT map \in CountMapsOf(program)  PROVE Called(u, map)' = Called(u, map)
    BY <1>5, <1>6, <2>1 DEF Called
  <2> QED
    BY <2>1, <2>2
<1>7. CASE u = thread[c]
  <2>1. \A d \in Cpus : thread'[d] # u
    BY <1>2, <1>3, <1>7 DEF NoneOnTwo
  <2>2. ~ToCount(u)' /\ ~Deciding(u)' /\ \A map : ~Counted(u, map)'
    BY <2>1 DEF ToCount, Deciding, Counted
  <2>3. Ends(todo[c])
    BY <1>1, ReturnEnds
  <2>4. Past(Head(todo[c])) /\ ~Decides(todo[c])
    BY <2>3, EndsIs
  <2>5. thread[c] # Idle
    BY <1>2
  <2>6. /\ Deciding(u) <=> Decides(todo[c])
        /\ \A map : Counted(u, map) <=> Counts(todo[c], env[c], map)
    BY <1>2, <1>7, <2>5, OnItsCpu
  <2>7. \A map : Counted(u, map) <=> env[c]["ctx.id"] \in CountedIn[map]
    BY <1>2, <2>4, <2>6 DEF Counts
  <2>8. ASSUME NEW CONSTANT map \in CountMapsOf(program)  PROVE Called(u, map)' = Called(u, map)
    BY <1>5, <1>7, <2>2, <2>7 DEF Called
  <2> QED
    BY <2>2, <2>4, <2>6, <2>8
<1> QED
  BY <1>6, <1>7

LEMMA OverKeeps ==
  ASSUME program \in Monitors, program' = program, MonitorInv, CallsAreInts,
         NEW c \in Cpus, CallIsOver(c), \A d \in Cpus : d # c => Waits(d)
  PROVE  MonitorInv'
<1>1. /\ todo[c] = <<Return(0)>> /\ todo'[c] = <<>> /\ thread' = [thread EXCEPT ![c] = Idle]
      /\ maps' = maps /\ events' = events
      /\ happened' = With(happened, Subject(c), Times(Subject(c)) + 1)
  BY DEF CallIsOver
<1>2. /\ NoneOnTwo /\ thread = [d \in Cpus |-> thread[d]]
      /\ CountMapsOf(program) \subseteq DOMAIN maps /\ events \in Nat
  BY MonitorParts
<1>3. thread'[c] = Idle /\ \A d \in Cpus : d # c => thread'[d] = thread[d]
  BY <1>1, <1>2
<1>4. ASSUME NEW CONSTANT u \in Threads  PROVE ThreadInv(u)'
  <2>1. /\ ToCount(u)' => ToCount(u)
        /\ Deciding(u) <=> Deciding(u)'
        /\ \A map \in CountMapsOf(program) : Called(u, map)' = Called(u, map)
    BY CalledWhenOver
  <2>2. ThreadInv(u) /\ \A m \in DOMAIN maps : SameKey(maps[m], maps'[m], u)
    BY <1>1, SameKeyAsIs DEF MonitorInv
  <2> QED
    BY <1>1, <1>2, <2>1, <2>2, ThreadKept
<1>5. AllPlaced'
  <2>1. Place(todo'[c], env'[c], thread'[c], maps')
    BY <1>1 DEF Place
  <2>2. ASSUME NEW d \in Cpus, d # c, todo[d] # <<>>, NEW map \in CountMapsOf(program)
        PROVE  SameKey(maps[map], maps'[map], thread[d])
    BY <1>1, SameKeyAsIs
  <2> QED
    BY <1>3, <2>1, <2>2, PlacesNext
<1>6. NoneOnTwo' /\ thread' = [d \in Cpus |-> thread'[d]]
      /\ \A d \in Cpus : todo'[d] = <<>> <=> thread'[d] = Idle
  BY <1>1, <1>2, <1>3 DEF NoneOnTwo, MonitorInv, Waits
<1>7. \A e \in DOMAIN happened' : happened'[e] \in Nat
  BY <1>1 DEF MonitorInv, With, Times
<1>8. \A u \in Threads : ThreadInv(u)'
  BY <1>4
<1> QED
  BY <1>1, <1>5, <1>6, <1>7, <1>8 DEF MonitorInv

(* A thread that is on no CPU has no call under way. *)
LEMMA OnNoCpu ==
  ASSUME NEW t, ~OnCpu(t)
  PROVE  ~ToCount(t) /\ ~Deciding(t) /\ \A map : ~Counted(t, map)
  BY DEF OnCpu, ToCount, Deciding, Counted

LEMMA CalledWhenBegun ==
  ASSUME program \in Monitors, MonitorInv, CallsAreInts, NEW d \in Cpus,
         UNCHANGED <<maps, happened>>, todo'[d] = Examples[program].main,
         todo[d] = <<>>, \A c \in Cpus : c # d => Waits(c),
         NEW CONSTANT t \in Threads, ~OnCpu(t), thread' = [thread EXCEPT ![d] = t],
         NEW CONSTANT u \in Threads
  PROVE  /\ Deciding(u) => Deciding(u)'
         /\ \A map \in CountMapsOf(program) : Called(u, map)' = Called(u, map)
<1>1. /\ thread = [c \in Cpus |-> thread[c]] /\ Idle \notin Threads /\ thread[d] = Idle
  BY MonitorParts DEF MonitorInv
<1>2. thread'[d] = t /\ \A c \in Cpus : c # d => thread'[c] = thread[c]
  BY <1>1
<1>3. CASE u # t
  <2>1. /\ ToCount(u)' <=> ToCount(u)
        /\ Deciding(u)' <=> Deciding(u)
        /\ \A map : Counted(u, map)' <=> Counted(u, map)
    BY <1>1, <1>2, <1>3, ElsewhereKept
  <2>2. ASSUME NEW CONSTANT map \in CountMapsOf(program)  PROVE Called(u, map)' = Called(u, map)
    BY <2>1, CalledKept
  <2> QED
    BY <2>1, <2>2
<1>4. CASE u = t
  <2>1. ~Deciding(u) /\ \A map : ~Counted(u, map)
    BY <1>4, OnNoCpu
  <2>2. ~Past(Head(todo'[d]))
    <3>1. Head(Examples[program].main) = FirstSet(program)
      BY MainIs
    <3>2. \A x, a : ~Past(Set(x, a))
      BY OpsAre
    <3> QED
      BY <3>1, <3>2 DEF FirstSet, SetPid, SetId
  <2>3. \A c \in Cpus : thread'[c] = t => c = d
    BY <1>2 DEF OnCpu
  <2>4. \A map : ~Counted(u, map)'
    BY <1>4, <2>2, <2>3 DEF Counted, Counts
  <2>5. ASSUME NEW CONSTANT map \in CountMapsOf(program)  PROVE Called(u, map)' = Called(u, map)
    BY <2>1, <2>4, CalledKept
  <2> QED
    BY <1>4, <2>1, <2>5
<1> QED
  BY <1>3, <1>4

LEMMA BeginsKeeps ==
  ASSUME CallsAreInts, OneEach, program \in Monitors, program' = program, MonitorInv,
         NEW d \in Cpus, SystemCall(d) \/ Receive(d) \/ Switch(d)
  PROVE  MonitorInv'
<1>1. /\ UNCHANGED <<maps, happened>> /\ events' = events + 1 /\ events' <= MaxEvents[program]
      /\ todo[d] = <<>> /\ todo'[d] = Examples[program].main
      /\ \A c \in Cpus : c # d => Waits(c)
      /\ \E t \in Threads : /\ ~OnCpu(t) /\ thread' = [thread EXCEPT ![d] = t]
                            /\ Says(env'[d], t)
  BY CallBegins
<1>2. PICK t \in Threads : /\ ~OnCpu(t) /\ thread' = [thread EXCEPT ![d] = t]
                           /\ Says(env'[d], t)
  BY <1>1
<1>3. /\ NoneOnTwo /\ thread = [c \in Cpus |-> thread[c]] /\ Idle \notin Threads
      /\ CountMapsOf(program) \subseteq DOMAIN maps /\ events \in Nat
  BY MonitorParts
<1>4. thread'[d] = t /\ \A c \in Cpus : c # d => thread'[c] = thread[c]
  BY <1>2, <1>3
<1>5. ASSUME NEW CONSTANT u \in Threads  PROVE ThreadInv(u)'
  <2>1. /\ Deciding(u) => Deciding(u)'
        /\ \A map \in CountMapsOf(program) : Called(u, map)' = Called(u, map)
    BY <1>1, <1>2, CalledWhenBegun
  <2>2. ThreadInv(u) /\ \A m \in DOMAIN maps : SameKey(maps[m], maps'[m], u)
    BY <1>1, SameKeyAsIs DEF MonitorInv
  <2> QED
    BY <1>1, <1>3, <2>1, <2>2, ThreadKept
<1>6. AllPlaced'
  <2>1. Place(todo'[d], env'[d], thread'[d], maps')
    BY <1>1, <1>2, <1>4 DEF Place, Begun
  <2>2. ASSUME NEW c \in Cpus, c # d, todo[c] # <<>>, NEW map \in CountMapsOf(program)
        PROVE  SameKey(maps[map], maps'[map], thread[c])
    BY <1>1, SameKeyAsIs
  <2> QED
    BY <1>1, <1>4, <2>1, <2>2, PlacesNext
<1>7. Examples[program].main # <<>>
  BY MainIs
<1>8. NoneOnTwo' /\ thread' = [c \in Cpus |-> thread'[c]]
      /\ \A c \in Cpus : todo'[c] = <<>> <=> thread'[c] = Idle
  BY <1>1, <1>2, <1>3, <1>4, <1>7 DEF NoneOnTwo, MonitorInv, Waits, OnCpu
<1>9. \A u \in Threads : ThreadInv(u)'
  BY <1>5
<1> QED
  BY <1>1, <1>3, <1>6, <1>8, <1>9 DEF MonitorInv

LEMMA MonitorNext ==
  ASSUME CallsAreInts, MapsInv, OneEach, program \in Monitors, MonitorInv, [NextC]_vars
  PROVE  MonitorInv'
<1>1. program' = program
  BY NextOneEach
<1>2. CASE UNCHANGED vars \/ FirstKey \/ ListingStep
  <2>1. UNCHANGED <<maps, todo, env, thread, events, happened>>
    BY <1>2 DEF vars, FirstKey, ListingStep, PrintEntry, NextEntry, Loader, cpu, history
  <2>2. CountMapsOf(program) \subseteq DOMAIN maps /\ events \in Nat
    BY MonitorParts
  <2>3. ASSUME NEW CONSTANT t \in Threads  PROVE ThreadInv(t)'
    <3>1. \A map : Counted(t, map)' <=> Counted(t, map)
      BY <2>1 DEF Counted
    <3>2. (ToCount(t)' <=> ToCount(t)) /\ (Deciding(t)' <=> Deciding(t))
      BY <2>1 DEF ToCount, Deciding
    <3>3. ASSUME NEW CONSTANT map \in CountMapsOf(program)  PROVE Called(t, map)' = Called(t, map)
      BY <2>1, <3>1, CalledKept
    <3>4. ThreadInv(t) /\ \A m \in DOMAIN maps : SameKey(maps[m], maps'[m], t)
      BY <2>1, SameKeyAsIs DEF MonitorInv
    <3> QED
      BY <1>1, <2>1, <2>2, <3>2, <3>3, <3>4, ThreadKept
  <2>4. AllPlaced'
    <3>1. \A c \in Cpus : Place(todo'[c], env'[c], thread'[c], maps')
      BY <2>1 DEF MonitorInv, AllPlaced
    <3> QED
      BY <1>1, <3>1, PlacedNext
  <2>5. NoneOnTwo'
    BY <2>1 DEF MonitorInv, NoneOnTwo
  <2>6. \A t \in Threads : ThreadInv(t)'
    BY <2>3
  <2> QED
    BY <1>1, <2>1, <2>4, <2>5, <2>6 DEF MonitorInv
<1>3. ASSUME NEW d \in Cpus, SystemCall(d) \/ Receive(d) \/ Switch(d)  PROVE MonitorInv'
  BY <1>1, <1>3, BeginsKeeps
<1>4. ASSUME NEW c \in Cpus, Statement(c)  PROVE MonitorInv'
  <2>1. \A d \in Cpus : d # c => Waits(d)
    BY <1>4, OthersWait
  <2>2. todo[c] # <<>>
    BY <1>4, Dispatch DEF IsIdle
  <2>3. /\ thread[c] \in Threads /\ thread[c] # Idle /\ NoneOnTwo
        /\ CountInv(thread[c]) /\ BoundInv(thread[c]) /\ events \in Nat /\ events <= INT_MAX
    BY <2>2, MonitorParts
  <2>4. Small(thread[c], FALSE) /\ (WillCount(todo[c]) => Small(thread[c], TRUE))
    <3>1. PICK t \in Threads : t = thread[c]
      BY <2>3
    <3>2. Small(t, FALSE) /\ (ToCount(t) => Small(t, TRUE))
      BY <2>3, <3>1, SmallHere
    <3>3. ToCount(t) <=> WillCount(todo[c])
      BY <2>3, <3>1, OnItsCpu
    <3> QED
      BY <3>1, <3>2, <3>3
  <2>5. Place(todo[c], env[c], thread[c], maps)
    BY DEF MonitorInv, AllPlaced
  <2>6. \/ CallGoesOn(c) \/ CallIsOver(c)
        \/ \E k \in KindsOf(program) : CountsCall(c, k) \/ SetsAlert(c, k)
    BY <1>4, <2>4, <2>5, CallStatement
  <2>7. CASE CallGoesOn(c)
    BY <1>1, <2>1, <2>2, <2>7, GoesOnKeeps
  <2>8. CASE CallIsOver(c)
    BY <1>1, <2>1, <2>8, OverKeeps
  <2>9. ASSUME NEW k \in KindsOf(program), CountsCall(c, k)  PROVE MonitorInv'
    BY <1>1, <2>1, <2>9, CountsCallKeeps
  <2>10. ASSUME NEW k \in KindsOf(program), SetsAlert(c, k)  PROVE MonitorInv'
    BY <1>1, <2>1, <2>10, SetsAlertKeeps
  <2> QED
    BY <2>6, <2>7, <2>8, <2>9, <2>10
<1> QED
  BY <1>2, <1>3, <1>4 DEF NextC

-----------------------------------------------------------------------------
(***************************************************************************)
(* What it shows                                                           *)
(***************************************************************************)

(* The other programs have none of these maps. *)
LEMMA OnlyMonitorsCount ==
  ASSUME NEW p \in DOMAIN Examples \ Monitors
  PROVE  CountMapsOf(p) = {} /\ "alert_flag" \notin DOMAIN Examples[p].maps
<1>1. DOMAIN CountedIn = {"read_count", "write_count", "send_count", "recv_count",
                          "mmap_count", "munmap_count", "brk_count"}
  BY DEF CountedIn
<1>2. \A hook, main, ms : Example(hook, main, ms).maps = ms
  BY DEF Example
<1>3. CASE p \in {"CpuMonitor", "CountSyscalls", "Maps"}
  BY <1>1, <1>2, <1>3 DEF Examples, CountMapsOf
<1>4. CASE p \in {"TrafficCounter", "ForceKill"}
  <2>1. \A hook, main, ms, map : Printing(map, Example(hook, main, ms)).maps = ms
    BY DEF Printing, Example
  <2> QED
    BY <1>1, <1>4, <2>1 DEF Examples, CountMapsOf
<1>5. CASE p \notin {"CpuMonitor", "CountSyscalls", "Maps", "TrafficCounter", "ForceKill"}
  <2>1. Examples[p].maps = NoMaps
    BY <1>2, <1>5 DEF Examples, Monitors
  <2>2. DOMAIN NoMaps = {}
    BY DEF NoMaps
  <2> QED
    BY <2>1, <2>2 DEF CountMapsOf
<1> QED
  BY <1>3, <1>4, <1>5

(* A program has its maps for good. *)
SameMaps == program \in DOMAIN Examples /\ DOMAIN maps = DOMAIN Examples[program].maps

LEMMA NextSameMaps ==
  ASSUME OneEach, SameMaps, [NextC]_vars
  PROVE  SameMaps'
<1>1. program' = program
  BY NextOneEach
<1>2. CASE UNCHANGED vars \/ FirstKey \/ ListingStep
  BY <1>2 DEF vars, FirstKey, ListingStep, PrintEntry, NextEntry, Loader, SameMaps
<1>3. CASE \E c \in Cpus : SystemCall(c) \/ Receive(c) \/ Switch(c)
  BY <1>3 DEF SystemCall, Receive, Switch, Begin, SameMaps
<1>4. ASSUME NEW c \in Cpus, Statement(c)  PROVE DOMAIN maps' = DOMAIN maps
  <2>1. CASE StoreElem(c)
    BY <2>1 DEF StoreElem
  <2>2. CASE SetInt(c) \/ ComputeInt(c) \/ CheckedOperation(c) \/ ReadClock(c)
    BY <2>2 DEF SetInt, ComputeInt, CheckedOperation, ReadClock
  <2>3. CASE LookupElem(c)
    BY <2>3 DEF LookupElem
  <2>4. CASE Follow(c) \/ Branch(c) \/ LoadField(c) \/ StoreField(c)
    BY <2>4 DEF Follow, Branch, LoadField, StoreField
  <2>5. CASE PrintLine(c) \/ RaiseException(c) \/ ReturnFromMain(c)
    BY <2>5 DEF PrintLine, RaiseException, ReturnFromMain
  <2> QED
    BY <1>4, <2>1, <2>2, <2>3, <2>4, <2>5 DEF Statement
<1> QED
  BY <1>1, <1>2, <1>3, <1>4 DEF NextC, SameMaps

CallsInv ==
  /\ MapsInv /\ OneEach /\ SameMaps
  /\ program \in Monitors => MonitorInv

LEMMA CallsInit ==
  ASSUME CallsAreInts, Init
  PROVE  CallsInv
<1>1. SameMaps
  BY GeneratedCAssumption DEF Init, SameMaps
<1> QED
  BY <1>1, InitMaps, InitOneEach, MonitorInit DEF CallsInv

LEMMA CallsNext ==
  ASSUME CallsAreInts, CallsInv, [NextC]_vars
  PROVE  CallsInv'
<1>1. OneEach' /\ program' = program
  BY NextOneEach DEF CallsInv
<1>2. program \in Monitors => MonitorInv'
  BY MonitorNext DEF CallsInv
<1> QED
  BY <1>1, <1>2, NextMaps, NextSameMaps DEF CallsInv

(* A thread that is not running the program has had every call counted. *)
LEMMA CalledWhenNotBusy ==
  ASSUME CallsAreInts, program \in Monitors, MonitorInv, NEW t \in Threads, ~Busy(t)
  PROVE  /\ ~Deciding(t)
         /\ \A map \in CountMapsOf(program) : /\ CallsOf(t, map) \in Nat
                                              /\ Called(t, map) = CallsOf(t, map)
<1>1. ~Deciding(t) /\ \A map : ~Counted(t, map)
  BY DEF Busy, IsIdle, Deciding, Counted, Decides, Counts
<1> QED
  BY <1>1, CallsAreNat DEF Called

LEMMA CountMapsAre ==
  ASSUME SameMaps
  PROVE  CountMaps = CountMapsOf(program)
  BY DEF SameMaps, CountMaps, CountMapsOf

(***************************************************************************)
(* Whatever the CPUs do at once, and wherever its calls are made, the      *)
(* count that disk_monitor, network_monitor and memory_monitor have of a   *)
(* thread is the number of its calls, unless the first one found the map   *)
(* full.                                                                   *)
(***************************************************************************)
THEOREM CountsStayExact ==
  ASSUME CallsAreInts
  PROVE  SpecC => []CountsAreExact
<1>1. Init => CallsInv
  BY CallsInit
<1>2. CallsInv /\ [NextC]_vars => CallsInv'
  BY CallsNext
<1>3. CallsInv => CountsAreExact
  <2> SUFFICES ASSUME CallsInv, NEW map \in CountMaps, NEW t \in Threads, ~Busy(t)
               PROVE  IF Has(maps[map], t) THEN At(maps[map], t) = CallsOf(t, map)
                      ELSE CallsOf(t, map) > 0 => Full(maps[map])
    BY DEF CountsAreExact
  <2>1. SameMaps /\ map \in CountMapsOf(program)
    BY CountMapsAre DEF CallsInv
  <2>2. program \in Monitors
    BY <2>1, OnlyMonitorsCount DEF SameMaps
  <2>3. MonitorInv
    BY <2>2 DEF CallsInv
  <2>4. Called(t, map) = CallsOf(t, map)
    BY <2>1, <2>2, <2>3, CalledWhenNotBusy
  <2>5. CountInv(t)
    BY <2>2, <2>3, MonitorParts
  <2> QED
    BY <2>1, <2>4, <2>5 DEF CountInv
<1> QED
  BY <1>1, <1>2, <1>3, PTL DEF SpecC

(***************************************************************************)
(* A thread none of whose calls were lost has its alert raised if and only *)
(* if the sum of its two counts, which other CPUs' calls do not touch      *)
(* between the reading of it and the storing of the alert, exceeds the     *)
(* threshold.                                                              *)
(***************************************************************************)
THEOREM AlertsAreDue ==
  ASSUME CallsAreInts
  PROVE  SpecC => []AlertIsDue
<1>1. Init => CallsInv
  BY CallsInit
<1>2. CallsInv /\ [NextC]_vars => CallsInv'
  BY CallsNext
<1>3. ASSUME CallsInv, "alert_flag" \in DOMAIN maps, NEW CONSTANT t \in Threads, ~Busy(t),
             NothingLost(t),
             MapThenSumSet(LAMBDA map : CallsOf(t, map), CountMaps) > 0
      PROVE  IF Has(maps["alert_flag"], t)
               THEN (At(maps["alert_flag"], t) = 1)
                      = (MapThenSumSet(LAMBDA map : CallsOf(t, map), CountMaps) > ALERT_THRESHOLD)
               ELSE Full(maps["alert_flag"])
  <2>1. SameMaps /\ CountMaps = CountMapsOf(program)
    BY <1>3, CountMapsAre DEF CallsInv
  <2>2. program \in Monitors
    BY <1>3, <2>1, OnlyMonitorsCount DEF SameMaps
  <2>3. MonitorInv
    BY <1>3, <2>2 DEF CallsInv
  <2>4. PICK a, b : a # b /\ CountMapsOf(program) = {a, b}
    <3>1. program \in {"DiskMonitor", "NetworkMonitor"}
      BY <1>3, <2>1, <2>2, MonitorMaps DEF SameMaps, Monitors
    <3>2. CountMapsOf(program) = {"read_count", "write_count"}
            \/ CountMapsOf(program) = {"send_count", "recv_count"}
      BY <2>2, <3>1, MonitorMaps
    <3> QED
      BY <3>2
  <2>5. /\ ~Deciding(t) /\ CallsOf(t, a) \in Nat /\ CallsOf(t, b) \in Nat
        /\ Called(t, a) = CallsOf(t, a) /\ Called(t, b) = CallsOf(t, b)
    BY <1>3, <2>2, <2>3, <2>4, CalledWhenNotBusy
  <2>6. ASSUME NEW CONSTANT x, NEW CONSTANT y, x # y, CountMaps = {x, y},
               CallsOf(t, x) \in Nat, CallsOf(t, y) \in Nat
        PROVE  MapThenSumSet(LAMBDA map : CallsOf(t, map), CountMaps)
                 = CallsOf(t, x) + CallsOf(t, y)
    BY <2>6, CallsOfBoth
  <2>7. AlertInv(t)
    BY <2>2, <2>3, MonitorParts
  <2>8. MapThenSumSet(LAMBDA map : CallsOf(t, map), CountMaps) = CallsOf(t, a) + CallsOf(t, b)
    BY <2>1, <2>4, <2>5, <2>6
  <2>9. /\ CallsOf(t, a) > 0 => Has(maps[a], t)
        /\ CallsOf(t, b) > 0 => Has(maps[b], t)
    BY <1>3, <2>1, <2>4 DEF NothingLost
  <2>10. CallsOf(t, a) + CallsOf(t, b) > 0
    BY <1>3, <2>8
  <2>11. IF Has(maps["alert_flag"], t)
           THEN At(maps["alert_flag"], t) = 1 <=> CallsOf(t, a) + CallsOf(t, b) > ALERT_THRESHOLD
           ELSE Full(maps["alert_flag"])
    BY <1>3, <2>4, <2>5, <2>7, <2>9, <2>10 DEF AlertInv
  <2> QED
    BY <2>8, <2>11
<1>4. CallsInv => AlertIsDue
  BY <1>3 DEF AlertIsDue
<1> QED
  BY <1>1, <1>2, <1>4, PTL DEF SpecC

-----------------------------------------------------------------------------
(***************************************************************************)
(* cpu_monitor: numbers that are the same modulo 2^32                      *)
(***************************************************************************)

(* a and b are the same modulo 2^32 *)
Same(a, b) == a \in Int /\ b \in Int /\ \E k \in Int : a = b + k * WORD

LEMMA WordIs == WORD \in Int /\ WORD > 0
  BY GeneratedCAssumption DEF WORD

LEMMA SameAs ==
  ASSUME NEW a \in Int
  PROVE  Same(a, a)
<1>1. a = a + 0 * WORD
  BY WordIs
<1> QED
  BY <1>1 DEF Same

LEMMA SameSum ==
  ASSUME NEW a, NEW b, NEW c, NEW d, Same(a, b), Same(c, d)
  PROVE  Same(a + c, b + d)
<1>1. PICK k \in Int : a = b + k * WORD
  BY DEF Same
<1>2. PICK l \in Int : c = d + l * WORD
  BY DEF Same
<1>3. (k + l) * WORD = k * WORD + l * WORD /\ k * WORD \in Int /\ l * WORD \in Int
  BY WordIs
<1>4. k + l \in Int /\ a + c = (b + d) + (k + l) * WORD
  BY <1>1, <1>2, <1>3 DEF Same
<1> QED
  BY <1>4 DEF Same

LEMMA SameDifference ==
  ASSUME NEW a, NEW b, NEW c, NEW d, Same(a, b), Same(c, d)
  PROVE  Same(a - c, b - d)
<1>1. PICK k \in Int : a = b + k * WORD
  BY DEF Same
<1>2. PICK l \in Int : c = d + l * WORD
  BY DEF Same
<1>3. (k - l) * WORD = k * WORD - l * WORD /\ k * WORD \in Int /\ l * WORD \in Int
  BY WordIs
<1>4. k - l \in Int /\ a - c = (b - d) + (k - l) * WORD
  BY <1>1, <1>2, <1>3 DEF Same
<1> QED
  BY <1>4 DEF Same

LEMMA SameThen ==
  ASSUME NEW a, NEW b, NEW c, Same(a, b), Same(b, c)
  PROVE  Same(a, c)
<1>1. PICK k \in Int : a = b + k * WORD
  BY DEF Same
<1>2. PICK l \in Int : b = c + l * WORD
  BY DEF Same
<1>3. (k + l) * WORD = k * WORD + l * WORD /\ k * WORD \in Int /\ l * WORD \in Int
  BY WordIs
<1>4. k + l \in Int /\ a = c + (k + l) * WORD
  BY <1>1, <1>2, <1>3 DEF Same
<1> QED
  BY <1>4 DEF Same

(* What an int keeps of a number is the same. *)
LEMMA WrapIsSame ==
  ASSUME NEW n \in Int
  PROVE  Same(Wrap(n), n)
<1> DEFINE h == INT_MAX + 1
           m == n + h
           q == m \div WORD
<1>1. h \in Int /\ m \in Int /\ n = m - h
  BY GeneratedCAssumption
<1>2. Wrap(n) = (m % WORD) - h
  BY GeneratedCAssumption DEF Wrap
<1> HIDE DEF h, m
<1>3. q \in Int /\ m % WORD \in Int /\ m = WORD * q + (m % WORD)
  BY <1>1, WordIs
<1> HIDE DEF q
<1>4. WORD * q = q * WORD /\ (-q) * WORD = -(q * WORD) /\ q * WORD \in Int
  BY <1>3, WordIs
<1>5. Wrap(n) \in Int /\ -q \in Int /\ Wrap(n) = n + (-q) * WORD
  BY <1>1, <1>2, <1>3, <1>4
<1> QED
  BY <1>5 DEF Same

LEMMA SameMod ==
  ASSUME NEW a, NEW b, Same(a, b)
  PROVE  (a - b) % WORD = 0
<1>1. PICK k \in Int : a = b + k * WORD
  BY DEF Same
<1> DEFINE m == k * WORD
           q == m \div WORD
           r == m % WORD
<1>2. m \in Int /\ a - b = m
  BY <1>1, WordIs DEF Same
<1>3. m = k * WORD
  OBVIOUS
<1> HIDE DEF m
<1>4. q \in Int /\ r \in 0 .. WORD - 1 /\ m = WORD * q + r
  BY <1>2, WordIs
<1> HIDE DEF q, r
<1>5. (k - q) * WORD = r
  <2>1. (k - q) * WORD = k * WORD - q * WORD /\ q * WORD = WORD * q
    BY <1>4, WordIs
  <2> QED
    BY <1>3, <1>4, <2>1, WordIs
<1>6. k - q = 0
  <2> DEFINE d == k - q
  <2>1. d \in Int /\ d * WORD = r
    BY <1>4, <1>5
  <2> HIDE DEF d
  <2>2. d >= 1 => d * WORD >= WORD
    BY <2>1, WordIs
  <2>3. d <= -1 => d * WORD <= -WORD
    BY <2>1, WordIs
  <2>4. d = 0
    BY <1>4, <2>1, <2>2, <2>3, WordIs
  <2> QED
    BY <2>4 DEF d
<1>7. r = 0
  BY <1>5, <1>6, WordIs
<1> QED
  BY <1>2, <1>7 DEF r

-----------------------------------------------------------------------------
(***************************************************************************)
(* cpu_monitor, from each of its statements on                             *)
(***************************************************************************)
IsSeq(q) == \E S : q \in Seq(S)

LEMMA OneThen ==
  ASSUME NEW a, NEW q, IsSeq(q)
  PROVE  LET r == <<a>> \o q
         IN IsSeq(r) /\ r # <<>> /\ Head(r) = a /\ Tail(r) = q
<1>1. PICK S : q \in Seq(S)
  BY DEF IsSeq
<1> DEFINE T == S \cup {a}
           r == <<a>> \o q
<1>2. q \in Seq(T) /\ <<a>> \in Seq(T) /\ Len(<<a>>) = 1 /\ <<a>>[1] = a
  BY <1>1
<1> HIDE DEF T
<1>3. /\ r \in Seq(T) /\ Len(r) = 1 + Len(q) /\ r[1] = a
      /\ \A i \in 1 .. Len(q) : r[1 + i] = q[i]
  BY <1>2
<1> HIDE DEF r
<1>4. r # <<>> /\ Head(r) = a
  BY <1>2, <1>3
<1>5. Tail(r) = q
  BY <1>2, <1>3, <1>4
<1> QED
  BY <1>3, <1>4, <1>5 DEF IsSeq, r

LEMMA Regrouped ==
  ASSUME NEW s, NEW t, NEW u, IsSeq(s), IsSeq(t), IsSeq(u)
  PROVE  (s \o t) \o u = s \o (t \o u) /\ IsSeq(s \o t)
<1>1. PICK S : s \in Seq(S)
  BY DEF IsSeq
<1>2. PICK T : t \in Seq(T)
  BY DEF IsSeq
<1>3. PICK U : u \in Seq(U)
  BY DEF IsSeq
<1> DEFINE W == S \cup T \cup U
<1>4. s \in Seq(W) /\ t \in Seq(W) /\ u \in Seq(W)
  BY <1>1, <1>2, <1>3
<1> HIDE DEF W
<1>5. s \o t \in Seq(W)
  BY <1>4
<1>6. (s \o t) \o u = s \o (t \o u)
  BY <1>4
<1> QED
  BY <1>5, <1>6 DEF IsSeq

LEMMA OneIsSeq ==
  ASSUME NEW a
  PROVE  IsSeq(<<a>>)
<1>1. <<a>> \in Seq({a})
  OBVIOUS
<1> QED
  BY <1>1 DEF IsSeq

(* five statements and then those of q *)
FiveOf(a, b, c, d, e) == <<a, b, c, d, e>>
OneByOne(a, b, c, d, e, q) == <<a>> \o (<<b>> \o (<<c>> \o (<<d>> \o (<<e>> \o q))))

LEMMA FiveThen ==
  ASSUME NEW a, NEW b, NEW c, NEW d, NEW e, NEW q, IsSeq(q)
  PROVE  FiveOf(a, b, c, d, e) \o q = OneByOne(a, b, c, d, e, q)
<1>1. <<a, b, c, d, e>> = <<a>> \o <<b, c, d, e>>
  BY Join14
<1>2. <<b, c, d, e>> = <<b>> \o <<c, d, e>> /\ <<c, d, e>> = <<c>> \o <<d, e>> /\ <<d, e>> = <<d>> \o <<e>>
  BY Join11, Join12, Join13
<1>3. IsSeq(<<a>>) /\ IsSeq(<<b>>) /\ IsSeq(<<c>>) /\ IsSeq(<<d>>) /\ IsSeq(<<e>>)
  BY OneIsSeq
<1>4. IsSeq(<<d, e>>) /\ IsSeq(<<c, d, e>>) /\ IsSeq(<<b, c, d, e>>)
  <2>1. IsSeq(<<d>> \o <<e>>)
    BY <1>3, OneThen
  <2>2. IsSeq(<<c>> \o <<d, e>>)
    BY <1>2, <2>1, OneThen
  <2>3. IsSeq(<<b>> \o <<c, d, e>>)
    BY <1>2, <2>2, OneThen
  <2> QED
    BY <1>2, <2>1, <2>2, <2>3
<1> DEFINE l2 == <<d, e>>
           l3 == <<c, d, e>>
           l4 == <<b, c, d, e>>
           l5 == <<a, b, c, d, e>>
<1> HIDE DEF l2, l3, l4, l5
<1>5. /\ l5 = <<a>> \o l4 /\ l4 = <<b>> \o l3 /\ l3 = <<c>> \o l2 /\ l2 = <<d>> \o <<e>>
      /\ IsSeq(l2) /\ IsSeq(l3) /\ IsSeq(l4)
  BY <1>1, <1>2, <1>4 DEF l2, l3, l4, l5
<1>6. l2 \o q = <<d>> \o (<<e>> \o q)
  BY <1>3, <1>5, Regrouped
<1>7. l3 \o q = <<c>> \o (l2 \o q)
  BY <1>3, <1>5, Regrouped
<1>8. l4 \o q = <<b>> \o (l3 \o q)
  BY <1>3, <1>5, Regrouped
<1>9. l5 \o q = <<a>> \o (l4 \o q)
  BY <1>3, <1>5, Regrouped
<1>10. l5 = FiveOf(a, b, c, d, e)
  BY Zenon DEF l5, FiveOf
<1>11. l5 \o q = OneByOne(a, b, c, d, e, q)
  BY <1>6, <1>7, <1>8, <1>9, Zenon DEF OneByOne
<1> QED
  BY <1>10, <1>11, Zenon

(* what is still to run after each statement of it *)
AfterPrint == <<Return(0)>>
AfterNote == <<Printk("CPU Time", <<"next_pid", "sum">>)>> \o AfterPrint
AfterCharge == <<Store("start_time", V("next_pid"), V("ts"), "BPF_ANY")>> \o AfterNote
AfterSum == <<Store("total_time", V("prev_pid"), V("sum"), "BPF_ANY")>> \o AfterCharge
AfterTotal == <<Compute("sum", V("total"), "+", V("delta"))>> \o AfterSum
AfterDelta == <<Lookup("total", "total_time", V("prev_pid"))>> \o AfterTotal
AfterStart == <<Compute("delta", V("ts"), "-", V("start"))>> \o AfterDelta
AfterCond == <<Lookup("start", "start_time", V("prev_pid"))>> \o AfterStart
OutOfBounds == <<Printk("Out of Bounds", <<"next_pid">>)>>
InBounds == ChargePrev \o NoteNext \o <<Printk("CPU Time", <<"next_pid", "sum">>)>>
Limit == I(41943040)
BoundsCheck == If(V("prev_pid"), ">", Limit, OutOfBounds, InBounds)
AfterNext == <<BoundsCheck>> \o AfterPrint
AfterPrev == <<Set("next_pid", V("ctx.next_pid"))>> \o AfterNext
AfterClock == <<Set("prev_pid", V("ctx.prev_pid"))>> \o AfterPrev
AllOfSwitch == <<Ktime("ts")>> \o AfterClock

LEMMA AftersAreSeqs ==
  /\ IsSeq(AfterPrint) /\ IsSeq(AfterNote) /\ IsSeq(AfterCharge) /\ IsSeq(AfterSum)
  /\ IsSeq(AfterTotal) /\ IsSeq(AfterDelta) /\ IsSeq(AfterStart) /\ IsSeq(AfterCond)
  /\ IsSeq(AfterNext) /\ IsSeq(AfterPrev) /\ IsSeq(AfterClock)
<1>1. IsSeq(AfterPrint)
  BY OneIsSeq DEF AfterPrint
<1>2. IsSeq(AfterNote)
  BY <1>1, OneThen DEF AfterNote
<1>3. IsSeq(AfterCharge)
  BY <1>2, OneThen DEF AfterCharge
<1>4. IsSeq(AfterSum)
  BY <1>3, OneThen DEF AfterSum
<1>5. IsSeq(AfterTotal)
  BY <1>4, OneThen DEF AfterTotal
<1>6. IsSeq(AfterDelta)
  BY <1>5, OneThen DEF AfterDelta
<1>7. IsSeq(AfterStart)
  BY <1>6, OneThen DEF AfterStart
<1>8. IsSeq(AfterCond)
  BY <1>7, OneThen DEF AfterCond
<1>9. IsSeq(AfterNext)
  BY <1>1, OneThen DEF AfterNext
<1>10. IsSeq(AfterPrev)
  BY <1>9, OneThen DEF AfterPrev
<1>11. IsSeq(AfterClock)
  BY <1>10, OneThen DEF AfterClock
<1> QED
  BY <1>1, <1>2, <1>3, <1>4, <1>5, <1>6, <1>7, <1>8, <1>9, <1>10, <1>11

LEMMA InBoundsIs == InBounds \o AfterPrint = AfterCond
<1> DEFINE a == Lookup("start", "start_time", V("prev_pid"))
           b == Compute("delta", V("ts"), "-", V("start"))
           d == Lookup("total", "total_time", V("prev_pid"))
           e == Compute("sum", V("total"), "+", V("delta"))
           f == Store("total_time", V("prev_pid"), V("sum"), "BPF_ANY")
           g == Store("start_time", V("next_pid"), V("ts"), "BPF_ANY")
           h == Printk("CPU Time", <<"next_pid", "sum">>)
<1>1. ChargePrev = <<a, b, d, e, f>> /\ NoteNext = <<g>>
  BY DEF ChargePrev, NoteNext
<1>2. InBounds = ((<<a, b, d, e, f>> \o <<g>>) \o <<h>>)
  BY <1>1 DEF InBounds
<1>3. AfterCond = <<a>> \o (<<b>> \o (<<d>> \o (<<e>> \o (<<f>> \o (<<g>> \o (<<h>> \o AfterPrint))))))
  BY DEF AfterCond, AfterStart, AfterDelta, AfterTotal, AfterSum, AfterCharge, AfterNote
<1> DEFINE l == <<a, b, d, e, f>>
<1> HIDE DEF a, b, d, e, f, g, h
<1>4. IsSeq(AfterPrint) /\ IsSeq(<<g>>) /\ IsSeq(<<h>>)
  BY OneIsSeq, AftersAreSeqs
<1>5. IsSeq(l)
  <2>1. l \in Seq({a, b, d, e, f})
    OBVIOUS
  <2> QED
    BY <2>1 DEF IsSeq
<1>6. IsSeq(<<g>> \o (<<h>> \o AfterPrint)) /\ IsSeq(<<h>> \o AfterPrint) /\ IsSeq(l \o <<g>>)
  BY <1>4, <1>5, Regrouped, OneThen
<1>7. l \o (<<g>> \o (<<h>> \o AfterPrint)) = AfterCond
  <2>1. ASSUME NEW q, IsSeq(q)
        PROVE  l \o q = <<a>> \o (<<b>> \o (<<d>> \o (<<e>> \o (<<f>> \o q))))
    <3>1. FiveOf(a, b, d, e, f) \o q = OneByOne(a, b, d, e, f, q)
      BY <2>1, FiveThen
    <3> QED
      BY <3>1, Zenon DEF FiveOf, OneByOne, l
  <2> DEFINE q == <<g>> \o (<<h>> \o AfterPrint)
  <2>2. IsSeq(q) /\ AfterCond = <<a>> \o (<<b>> \o (<<d>> \o (<<e>> \o (<<f>> \o q))))
    BY <1>3, <1>6
  <2> HIDE DEF q
  <2>3. l \o q = AfterCond
    <3> HIDE DEF l
    <3> QED
      BY <2>1, <2>2
  <2> QED
    BY <2>3 DEF q
<1> HIDE DEF l
<1>8. ((l \o <<g>>) \o <<h>>) \o AfterPrint = (l \o <<g>>) \o (<<h>> \o AfterPrint)
  BY <1>4, <1>6, Regrouped
<1>9. (l \o <<g>>) \o (<<h>> \o AfterPrint) = l \o (<<g>> \o (<<h>> \o AfterPrint))
  BY <1>4, <1>5, <1>6, Regrouped
<1>10. InBounds = (l \o <<g>>) \o <<h>>
  BY <1>2 DEF l
<1> QED
  BY <1>7, <1>8, <1>9, <1>10

LEMMA CpuMonitorIs ==
  /\ Examples["CpuMonitor"].main = AllOfSwitch
  /\ Examples["CpuMonitor"].hook = "sched_switch"
  /\ Examples["CpuMonitor"].maps = [start_time |-> PerThread, total_time |-> PerThread]
<1> DEFINE a == Ktime("ts")
           b == Set("prev_pid", V("ctx.prev_pid"))
           d == Set("next_pid", V("ctx.next_pid"))
<1>1. Cond(<<Clause(V("prev_pid"), ">", Limit, OutOfBounds)>>, InBounds) = <<BoundsCheck>>
  BY CondOfOne, Zenon DEF BoundsCheck
<1>2. CpuMonitor = (<<a, b, d>> \o <<BoundsCheck>>) \o <<Return(0)>>
  <2>1. CpuMonitor = (<<a, b, d>> \o Cond(<<Clause(V("prev_pid"), ">", Limit, OutOfBounds)>>, InBounds))
                       \o <<Return(0)>>
    BY SMT DEF CpuMonitor, OutOfBounds, InBounds, Limit
  <2> QED
    BY <1>1, <2>1
<1>3. AllOfSwitch = <<a>> \o (<<b>> \o (<<d>> \o AfterNext))
  BY DEF AllOfSwitch, AfterClock, AfterPrev
<1> HIDE DEF a, b, d
<1>4. IsSeq(<<a>>) /\ IsSeq(<<b>>) /\ IsSeq(<<d>>) /\ IsSeq(<<BoundsCheck>>) /\ IsSeq(AfterPrint)
  <2>1. IsSeq(<<a>>) /\ IsSeq(<<b>>) /\ IsSeq(<<d>>) /\ IsSeq(<<BoundsCheck>>)
    BY OneIsSeq
  <2> QED
    BY <2>1, AftersAreSeqs
<1>5. <<a, b, d>> = <<a>> \o <<b, d>> /\ <<b, d>> = <<b>> \o <<d>>
  BY Join11, Join12
<1>6. IsSeq(<<b, d>>) /\ IsSeq(<<a, b, d>>)
  <2>1. IsSeq(<<b>> \o <<d>>)
    BY <1>4, OneThen
  <2>2. IsSeq(<<a>> \o <<b, d>>)
    BY <1>5, <2>1, OneThen
  <2> QED
    BY <1>5, <2>1, <2>2
<1>7. CpuMonitor = (<<a, b, d>> \o <<BoundsCheck>>) \o AfterPrint
  BY <1>2 DEF AfterPrint
<1> HIDE DEF AfterPrint, BoundsCheck
<1> DEFINE l3 == <<a, b, d>>
           l2 == <<b, d>>
           l1 == <<d>>
           ch == <<BoundsCheck>>
<1> HIDE DEF l3, l2, l1, ch
<1>8. (l3 \o ch) \o AfterPrint = l3 \o (ch \o AfterPrint) /\ IsSeq(ch \o AfterPrint)
  <2>1. IsSeq(l3) /\ IsSeq(ch) /\ IsSeq(AfterPrint)
    BY <1>4, <1>6 DEF l3, ch
  <2> QED
    BY <2>1, Regrouped
<1>9. ch \o AfterPrint = AfterNext
  BY DEF ch, AfterNext
<1>10. l3 \o AfterNext = <<a>> \o (l2 \o AfterNext) /\ l2 \o AfterNext = <<b>> \o (l1 \o AfterNext)
  <2>1. l3 = <<a>> \o l2 /\ l2 = <<b>> \o l1 /\ IsSeq(l2) /\ IsSeq(l1) /\ IsSeq(AfterNext)
    BY <1>4, <1>5, <1>6, AftersAreSeqs DEF l1, l2, l3
  <2> QED
    BY <2>1, <1>4, Regrouped
<1>11. CpuMonitor = AllOfSwitch
  BY <1>3, <1>7, <1>8, <1>9, <1>10 DEF l3, l1, ch
<1>12. Examples["CpuMonitor"] =
         Example("sched_switch", CpuMonitor, [start_time |-> PerThread, total_time |-> PerThread])
  BY DEF Examples
<1>13. ASSUME NEW hook, NEW main, NEW ms
       PROVE  LET ex == Example(hook, main, ms)
              IN ex.main = main /\ ex.hook = hook /\ ex.maps = ms
  BY DEF Example
<1> DEFINE ms == [start_time |-> PerThread, total_time |-> PerThread]
<1> HIDE DEF ms
<1>14. Examples["CpuMonitor"] = Example("sched_switch", CpuMonitor, ms)
  BY <1>12 DEF ms
<1>15. /\ Examples["CpuMonitor"].main = CpuMonitor
       /\ Examples["CpuMonitor"].hook = "sched_switch"
       /\ Examples["CpuMonitor"].maps = ms
  BY <1>13, <1>14
<1> QED
  BY <1>11, <1>15 DEF ms

(***************************************************************************)
(* Statements of it, by their kind                                         *)
(***************************************************************************)
LEMMA OfKtime ==
  ASSUME OneEach, NEW c \in Cpus, Statement(c), NEW x, Head(todo[c]) = Ktime(x)
  PROVE  /\ Becomes(c, Tail(todo[c]), With(With(env[c], "now", clock), x, Wrap(clock)), result[c])
         /\ maps' = maps
<1>1. ReadClock(c)
  BY Dispatch DEF Is, Ktime
<1> QED
  BY <1>1 DEF ReadClock, Ktime, GoOn, OneEach, Becomes

LEMMA OfLookup ==
  ASSUME OneEach, NEW c \in Cpus, Statement(c), NEW x, NEW map, NEW k,
         Head(todo[c]) = Lookup(x, map, k), Has(maps[map], Value(c, k))
  PROVE  /\ Becomes(c, <<FollowOf(x, map, maps[map].element[Value(c, k)])>> \o Tail(todo[c]),
                    env[c], result[c])
         /\ maps' = maps
<1>1. LookupElem(c)
  BY Dispatch DEF Is, Lookup
<1> DEFINE s == Head(todo[c])
           q == <<FollowOf(x, map, maps[map].element[Value(c, k)])>> \o Tail(todo[c])
<1>2. s.x = x /\ s.map = map /\ s.k = k
  BY DEF Lookup
<1> HIDE DEF s
<1>3. maps' = maps
  BY <1>1 DEF LookupElem
<1>4. todo' = [todo EXCEPT ![c] = q] /\ UNCHANGED <<env, result>>
  BY <1>1, <1>2, Zenon DEF LookupElem, s, FollowOf
<1> HIDE DEF q
<1>5. Becomes(c, q, env[c], result[c])
  BY <1>4 DEF OneEach, Becomes
<1> QED
  BY <1>3, <1>5 DEF q

(* The clock and the history move with the switches, at their beginning and end. *)
LEMMA OnlyReturnsRecord ==
  ASSUME NEW c \in Cpus, Statement(c)
  PROVE  /\ clock' = clock
         /\ Head(todo[c]).op # "return" => UNCHANGED <<since, ran>>
         /\ Head(todo[c]).op = "return" /\ Hook = "sched_switch" =>
              RecordSwitch(c) /\ thread' = thread
<1> USE DEF Elsewhere, history
<1>1. CASE SetInt(c) \/ ComputeInt(c) \/ CheckedOperation(c) \/ ReadClock(c)
  BY <1>1 DEF SetInt, ComputeInt, CheckedOperation, ReadClock, Is
<1>2. CASE LookupElem(c) \/ Follow(c) \/ StoreElem(c) \/ Branch(c)
  BY <1>2 DEF LookupElem, Follow, StoreElem, Branch, Is
<1>3. CASE LoadField(c) \/ StoreField(c) \/ PrintLine(c) \/ RaiseException(c)
  BY <1>3 DEF LoadField, StoreField, PrintLine, RaiseException, Is
<1>4. CASE ReturnFromMain(c)
  BY <1>4 DEF ReturnFromMain, Is
<1> QED
  BY <1>1, <1>2, <1>3, <1>4 DEF Statement

-----------------------------------------------------------------------------
(***************************************************************************)
(* Its arrays, which have an element for each pid                          *)
(***************************************************************************)
Pids == Threads \cup {Idle}

(* The pids are keys of the arrays; Linux has none above 4194304. *)
PidsHaveRoom == Pids \subseteq Keys /\ \A t \in Pids : t < 41943040

IsTimes(m) ==
  m.type = "array" /\ \A t \in Pids : t \in Keys /\ t \in DOMAIN m.content /\ m.element[t] = t

LEMMA PidsAreInts ==
  /\ \A t \in Pids : t \in Nat /\ t # None /\ Wrap(t) = t
  /\ Idle \notin Threads
<1>1. \A t \in Pids : t \in Nat /\ IsInt(t)
  BY GeneratedCAssumption DEF Pids, Idle, IsInt
<1>2. \A t \in Pids : Wrap(t) = t
  BY <1>1, WrapOfInt
<1> QED
  BY <1>1, <1>2, GeneratedCAssumption DEF None, Idle

LEMMA TimesAtFirst ==
  ASSUME PidsHaveRoom
  PROVE  IsTimes(PerThread) /\ \A t \in Pids : PerThread.content[t] = 0
<1> DEFINE n == 41943040
<1>1. PerThread = NewArray(n) /\ Pids \subseteq Keys /\ \A t \in Pids : t < n
  BY SMT DEF PerThread, PidsHaveRoom
<1>2. n \in Nat
  BY SMT
<1> HIDE DEF n
<1>3. \A t \in Pids : t \in 0 .. n - 1
  BY <1>1, <1>2, PidsAreInts
<1>4. IsTimes(NewArray(n)) /\ \A t \in Pids : NewArray(n).content[t] = 0
  BY <1>1, <1>3 DEF NewArray, IsTimes
<1> QED
  BY <1>1, <1>4

LEMMA TimeStored ==
  ASSUME NEW m, MapInv(m), IsTimes(m), NEW c, NEW t \in Pids, NEW v
  PROVE  LET n == Update(m, c, t, v, "BPF_ANY")
         IN /\ IsTimes(n) /\ n.content[t] = v
            /\ \A u \in Pids : u # t => n.content[u] = m.content[u]
<1> DEFINE n == Update(m, c, t, v, "BPF_ANY")
<1>1. Has(m, t) /\ m.type = "array" /\ m.element[t] = t /\ t \in DOMAIN m.content
  BY PidsAreInts DEF IsTimes, Has
<1>2. n = InPlace(m, t, v)
  BY <1>1 DEF Update
<1>3. m = [type |-> m.type, max |-> m.max, element |-> m.element, content |-> m.content,
           spare |-> m.spare, order |-> m.order]
      /\ m.content = [e \in DOMAIN m.content |-> m.content[e]]
  BY DEF MapInv, WellFormed
<1> HIDE DEF n
<1>4. n.type = m.type /\ n.element = m.element /\ n.content = [m.content EXCEPT ![t] = v]
  BY <1>1, <1>2, <1>3 DEF InPlace
<1>5. IsTimes(n)
  BY <1>4 DEF IsTimes
<1>6. n.content[t] = v /\ \A u \in Pids : u # t => n.content[u] = m.content[u]
  BY <1>1, <1>4 DEF IsTimes
<1> QED
  BY <1>5, <1>6 DEF n

LEMMA TimesHas ==
  ASSUME NEW m, IsTimes(m), NEW t \in Pids
  PROVE  Has(m, t) /\ m.element[t] = t /\ At(m, t) = m.content[t]
  BY PidsAreInts DEF IsTimes, Has, At

-----------------------------------------------------------------------------
(***************************************************************************)
(* What it knows at each of its statements                                 *)
(***************************************************************************)

(* the switch is from one pid to the one that the CPU now runs *)
SaysSwitch(e, next) ==
  /\ {"ctx.prev_pid", "ctx.next_pid"} \subseteq DOMAIN e
  /\ e["ctx.prev_pid"] \in Pids /\ e["ctx.next_pid"] = next

HasClock(e) == {"ts", "now"} \subseteq DOMAIN e /\ Same(e["ts"], e["now"])
HasPrev(e) == "prev_pid" \in DOMAIN e /\ e["prev_pid"] = e["ctx.prev_pid"]
HasNext(e) == "next_pid" \in DOMAIN e /\ e["next_pid"] = e["ctx.next_pid"]

(* s is when the thread that leaves came, and r the time it had then. *)
HasStart(e, s) ==
  "start" \in DOMAIN e /\ (e["ctx.prev_pid"] \in Threads => Same(e["start"], s))
HasDelta(e, s) ==
  "delta" \in DOMAIN e /\ (e["ctx.prev_pid"] \in Threads => Same(e["delta"], e["now"] - s))
HasTotal(e, r) ==
  "total" \in DOMAIN e /\ (e["ctx.prev_pid"] \in Threads => Same(e["total"], r))
HasSum(e, s, r) ==
  "sum" \in DOMAIN e /\ (e["ctx.prev_pid"] \in Threads => Same(e["sum"], r + (e["now"] - s)))

FollowStart(p) == <<FollowOf("start", "start_time", p)>> \o AfterStart
FollowTotal(p) == <<FollowOf("total", "total_time", p)>> \o AfterTotal

SwitchPlace(q, e, next, s, r) ==
  \/ q = <<>>
  \/ /\ SaysSwitch(e, next)
     /\ \/ q = AllOfSwitch
        \/ /\ HasClock(e)
           /\ \/ q = AfterClock
              \/ /\ HasPrev(e)
                 /\ \/ q = AfterPrev
                    \/ /\ HasNext(e)
                       /\ \/ q \in {AfterNext, AfterCond, FollowStart(e["ctx.prev_pid"])}
                          \/ q = AfterStart /\ HasStart(e, s)
                          \/ q \in {AfterDelta, FollowTotal(e["ctx.prev_pid"])} /\ HasDelta(e, s)
                          \/ q = AfterTotal /\ HasDelta(e, s) /\ HasTotal(e, r)
                          \/ q = AfterSum /\ HasSum(e, s, r)
                          \/ q \in {AfterCharge, AfterNote, AfterPrint}

(* The thread that comes, and the one that leaves, has its new entry. *)
Noted(q) == q # <<>> /\ Head(q).op \in {"printk", "return"}
Charged(q) == Noted(q) \/ (q # <<>> /\ Head(q).op = "store" /\ Head(q).map = "start_time")

LEMMA AssignKeeps ==
  ASSUME NEW e, NEW next, SaysSwitch(e, next), NEW x, x \notin {"ctx.prev_pid", "ctx.next_pid"}, NEW n
  PROVE  LET f == With(e, x, n)
         IN /\ SaysSwitch(f, next) /\ f["ctx.prev_pid"] = e["ctx.prev_pid"]
            /\ f["ctx.next_pid"] = e["ctx.next_pid"]
            /\ HasClock(e) /\ x \notin {"ts", "now"} => HasClock(f) /\ f["now"] = e["now"]
            /\ HasPrev(e) /\ x # "prev_pid" => HasPrev(f)
            /\ HasNext(e) /\ x # "next_pid" => HasNext(f)
            /\ x \in DOMAIN f /\ f[x] = n
<1> DEFINE f == With(e, x, n)
<1>1. /\ x \in DOMAIN f /\ f[x] = n /\ DOMAIN e \subseteq DOMAIN f
      /\ \A y \in DOMAIN e : y # x => f[y] = e[y]
  <2>1. /\ DOMAIN f = DOMAIN e \cup {x} /\ f[x] = n
        /\ \A y \in DOMAIN e : y # x => f[y] = e[y]
    BY DEF With
  <2> HIDE DEF f
  <2> QED
    BY <2>1
<1> HIDE DEF f
<1>2. /\ SaysSwitch(f, next) /\ f["ctx.prev_pid"] = e["ctx.prev_pid"]
      /\ f["ctx.next_pid"] = e["ctx.next_pid"]
  BY <1>1 DEF SaysSwitch
<1>3. HasClock(e) /\ x \notin {"ts", "now"} => HasClock(f) /\ f["now"] = e["now"]
  BY <1>1 DEF HasClock
<1>4. /\ HasPrev(e) /\ x # "prev_pid" => HasPrev(f)
      /\ HasNext(e) /\ x # "next_pid" => HasNext(f)
  BY <1>1, <1>2 DEF HasPrev, HasNext
<1> QED
  BY <1>1, <1>2, <1>3, <1>4 DEF f

Starts(q, s, rest) == q # <<>> /\ Head(q) = s /\ Tail(q) = rest

LEMMA AfterStarts ==
  /\ Starts(AllOfSwitch, Ktime("ts"), AfterClock)
  /\ Starts(AfterClock, Set("prev_pid", V("ctx.prev_pid")), AfterPrev)
  /\ Starts(AfterPrev, Set("next_pid", V("ctx.next_pid")), AfterNext)
  /\ Starts(AfterNext, BoundsCheck, AfterPrint)
  /\ Starts(AfterCond, Lookup("start", "start_time", V("prev_pid")), AfterStart)
  /\ \A p : Starts(FollowStart(p), FollowOf("start", "start_time", p), AfterStart)
  /\ Starts(AfterStart, Compute("delta", V("ts"), "-", V("start")), AfterDelta)
  /\ Starts(AfterDelta, Lookup("total", "total_time", V("prev_pid")), AfterTotal)
  /\ \A p : Starts(FollowTotal(p), FollowOf("total", "total_time", p), AfterTotal)
  /\ Starts(AfterTotal, Compute("sum", V("total"), "+", V("delta")), AfterSum)
  /\ Starts(AfterSum, Store("total_time", V("prev_pid"), V("sum"), "BPF_ANY"), AfterCharge)
  /\ Starts(AfterCharge, Store("start_time", V("next_pid"), V("ts"), "BPF_ANY"), AfterNote)
  /\ Starts(AfterNote, Printk("CPU Time", <<"next_pid", "sum">>), AfterPrint)
  /\ Starts(AfterPrint, Return(0), <<>>)
<1>1. ASSUME NEW s, NEW q, IsSeq(q)  PROVE Starts(<<s>> \o q, s, q)
  BY <1>1, OneThen DEF Starts
<1>2. /\ Starts(AllOfSwitch, Ktime("ts"), AfterClock)
      /\ Starts(AfterClock, Set("prev_pid", V("ctx.prev_pid")), AfterPrev)
      /\ Starts(AfterPrev, Set("next_pid", V("ctx.next_pid")), AfterNext)
      /\ Starts(AfterNext, BoundsCheck, AfterPrint)
  BY <1>1, AftersAreSeqs, Zenon DEF AllOfSwitch, AfterClock, AfterPrev, AfterNext
<1>3. /\ Starts(AfterCond, Lookup("start", "start_time", V("prev_pid")), AfterStart)
      /\ \A p : Starts(FollowStart(p), FollowOf("start", "start_time", p), AfterStart)
      /\ Starts(AfterStart, Compute("delta", V("ts"), "-", V("start")), AfterDelta)
  BY <1>1, AftersAreSeqs, Zenon DEF AfterCond, AfterStart, FollowStart
<1>4. /\ Starts(AfterDelta, Lookup("total", "total_time", V("prev_pid")), AfterTotal)
      /\ \A p : Starts(FollowTotal(p), FollowOf("total", "total_time", p), AfterTotal)
      /\ Starts(AfterTotal, Compute("sum", V("total"), "+", V("delta")), AfterSum)
  BY <1>1, AftersAreSeqs, Zenon DEF AfterDelta, AfterTotal, FollowTotal
<1>5. /\ Starts(AfterSum, Store("total_time", V("prev_pid"), V("sum"), "BPF_ANY"), AfterCharge)
      /\ Starts(AfterCharge, Store("start_time", V("next_pid"), V("ts"), "BPF_ANY"), AfterNote)
      /\ Starts(AfterNote, Printk("CPU Time", <<"next_pid", "sum">>), AfterPrint)
  BY <1>1, AftersAreSeqs, Zenon DEF AfterSum, AfterCharge, AfterNote
<1>6. Starts(AfterPrint, Return(0), <<>>)
  <2>1. \A a : Starts(<<a>>, a, <<>>)
    BY Firsts, NotEmpty DEF Starts
  <2> QED
    BY <2>1, Zenon DEF AfterPrint
<1> QED
  BY <1>2, <1>3, <1>4, <1>5, <1>6

(* Which of them come after the two stores. *)
LEMMA AfterWhich ==
  /\ ~Charged(AllOfSwitch) /\ ~Charged(AfterClock) /\ ~Charged(AfterPrev) /\ ~Charged(AfterNext)
  /\ ~Charged(AfterCond) /\ ~Charged(AfterStart) /\ ~Charged(AfterDelta) /\ ~Charged(AfterTotal)
  /\ ~Charged(AfterSum)
  /\ \A p : ~Charged(FollowStart(p)) /\ ~Charged(FollowTotal(p))
  /\ Charged(AfterCharge) /\ ~Noted(AfterCharge)
  /\ Noted(AfterNote) /\ Noted(AfterPrint)
  /\ ~Charged(<<>>) /\ \A q : Noted(q) => Charged(q)
<1>1. ASSUME NEW q, NEW s, NEW rest, Starts(q, s, rest)
      PROVE  /\ Noted(q) <=> s.op \in {"printk", "return"}
             /\ Charged(q) <=> s.op \in {"printk", "return"} \/ (s.op = "store" /\ s.map = "start_time")
  BY <1>1 DEF Starts, Noted, Charged
<1>2. /\ ~Charged(AllOfSwitch) /\ ~Charged(AfterClock) /\ ~Charged(AfterPrev) /\ ~Charged(AfterNext)
  <2>1. /\ Ktime("ts").op = "ktime" /\ BoundsCheck.op = "if"
        /\ \A x, a : Set(x, a).op = "set"
    BY DEF Ktime, BoundsCheck, If, Set
  <2> QED
    BY <1>1, <2>1, AfterStarts
<1>3. \A x, map, k : Lookup(x, map, k).op = "lookup" /\ FollowOf(x, map, k).op = "follow"
  BY DEF Lookup, FollowOf
<1>4. \A x, a, op, b : Compute(x, a, op, b).op = "compute"
  BY DEF Compute
<1>5. \A map, k, a, flags : Store(map, k, a, flags).op = "store" /\ Store(map, k, a, flags).map = map
  BY DEF Store
<1>6. (\A text, args : Printk(text, args).op = "printk") /\ Return(0).op = "return"
  BY DEF Printk, Return
<1>7. /\ ~Charged(AfterCond) /\ ~Charged(AfterStart) /\ ~Charged(AfterDelta) /\ ~Charged(AfterTotal)
      /\ \A p : ~Charged(FollowStart(p)) /\ ~Charged(FollowTotal(p))
  <2>1. ~Charged(AfterCond) /\ ~Charged(AfterDelta)
    <3>1. /\ Starts(AfterCond, Lookup("start", "start_time", V("prev_pid")), AfterStart)
          /\ Starts(AfterDelta, Lookup("total", "total_time", V("prev_pid")), AfterTotal)
      BY AfterStarts
    <3> QED
      BY <1>1, <1>3, <3>1
  <2>2. ~Charged(AfterStart) /\ ~Charged(AfterTotal)
    <3>1. /\ Starts(AfterStart, Compute("delta", V("ts"), "-", V("start")), AfterDelta)
          /\ Starts(AfterTotal, Compute("sum", V("total"), "+", V("delta")), AfterSum)
      BY AfterStarts
    <3> QED
      BY <1>1, <1>4, <3>1
  <2>3. ASSUME NEW p  PROVE ~Charged(FollowStart(p)) /\ ~Charged(FollowTotal(p))
    <3>1. /\ Starts(FollowStart(p), FollowOf("start", "start_time", p), AfterStart)
          /\ Starts(FollowTotal(p), FollowOf("total", "total_time", p), AfterTotal)
      BY AfterStarts
    <3> QED
      BY <1>1, <1>3, <3>1
  <2> QED
    BY <2>1, <2>2, <2>3
<1>8. ~Charged(AfterSum) /\ Charged(AfterCharge) /\ ~Noted(AfterCharge)
  <2>1. /\ Starts(AfterSum, Store("total_time", V("prev_pid"), V("sum"), "BPF_ANY"), AfterCharge)
        /\ Starts(AfterCharge, Store("start_time", V("next_pid"), V("ts"), "BPF_ANY"), AfterNote)
    BY AfterStarts
  <2> QED
    BY <1>1, <1>5, <2>1
<1>9. Noted(AfterNote) /\ Noted(AfterPrint)
  BY <1>1, <1>6, AfterStarts
<1> QED
  BY <1>2, <1>7, <1>8, <1>9 DEF Charged, Noted

-----------------------------------------------------------------------------
(***************************************************************************)
(* What a statement of cpu_monitor's does: it goes on, charges the thread  *)
(* that leaves, notes when the next one comes, or is over.                 *)
(***************************************************************************)
Prev(c) == env[c]["ctx.prev_pid"]
Now(c) == env[c]["now"]

SameSwitch(c) ==
  /\ UNCHANGED <<thread, since, ran>> /\ todo'[c] # <<>>
  /\ env'[c]["ctx.prev_pid"] = Prev(c)
  /\ SwitchPlace(todo'[c], env'[c], thread[c], since[Prev(c)], ran[Prev(c)])

SwitchGoesOn(c) ==
  /\ SameSwitch(c) /\ maps' = maps
  /\ Charged(todo'[c]) <=> Charged(todo[c])
  /\ Noted(todo'[c]) <=> Noted(todo[c])
  /\ Charged(todo[c]) => env'[c]["now"] = Now(c)

ChargesPrev(c) ==
  /\ SameSwitch(c) /\ env'[c]["now"] = Now(c)
  /\ ~Charged(todo[c]) /\ Charged(todo'[c]) /\ ~Noted(todo'[c])
  /\ \E v : /\ maps' = [maps EXCEPT !["total_time"] =
                          Update(maps["total_time"], c, Prev(c), v, "BPF_ANY")]
            /\ Prev(c) \in Threads => Same(v, ran[Prev(c)] + (Now(c) - since[Prev(c)]))

NotesNext(c) ==
  /\ SameSwitch(c) /\ env'[c]["now"] = Now(c)
  /\ Charged(todo[c]) /\ ~Noted(todo[c]) /\ Noted(todo'[c])
  /\ \E v : /\ maps' = [maps EXCEPT !["start_time"] =
                          Update(maps["start_time"], c, thread[c], v, "BPF_ANY")]
            /\ Same(v, Now(c))

SwitchIsOver(c) ==
  /\ Noted(todo[c]) /\ todo'[c] = <<>> /\ UNCHANGED <<maps, thread>> /\ RecordSwitch(c)
  /\ env[c]["ctx.next_pid"] = thread[c] /\ HasClock(env[c])

(* What the array entries are of the thread that leaves, until they are read. *)
EntriesHold(c) ==
  Prev(c) \in Threads =>
    /\ since[Prev(c)] \in Int /\ ran[Prev(c)] \in Int
    /\ Same(maps["start_time"].content[Prev(c)], since[Prev(c)])
    /\ ~Charged(todo[c]) => Same(maps["total_time"].content[Prev(c)], ran[Prev(c)])

TimeMaps ==
  /\ DOMAIN maps = {"start_time", "total_time"}
  /\ IsTimes(maps["start_time"]) /\ IsTimes(maps["total_time"])

(* A statement other than return leaves the history alone. *)
LEMMA NotOver ==
  ASSUME NEW c \in Cpus, Statement(c), NEW s, NEW rest, Starts(todo[c], s, rest), s.op # "return"
  PROVE  UNCHANGED <<thread, since, ran, clock>>
<1>1. Head(todo[c]).op # "return"
  BY DEF Starts
<1> QED
  BY <1>1, OnlyReturnsRecord, OnlyReturnsLeave

LEMMA AtClock ==
  ASSUME OneEach, NEW c \in Cpus, Statement(c), clock \in Nat,
         todo[c] = AllOfSwitch, SaysSwitch(env[c], thread[c])
  PROVE  SwitchGoesOn(c)
<1> DEFINE e == env[c]
           f == With(e, "now", clock)
           g == With(f, "ts", Wrap(clock))
<1>1. Starts(todo[c], Ktime("ts"), AfterClock)
  BY AfterStarts
<1>2. todo'[c] = AfterClock /\ env'[c] = g /\ maps' = maps
  BY <1>1, OfKtime DEF Starts, Becomes
<1>3. UNCHANGED <<thread, since, ran>>
  BY <1>1, NotOver DEF Ktime
<1> HIDE DEF g
<1>4. SaysSwitch(f, thread[c]) /\ f["ctx.prev_pid"] = e["ctx.prev_pid"] /\ "now" \in DOMAIN f
      /\ f["now"] = clock
  BY AssignKeeps
<1> HIDE DEF f
<1>5. /\ SaysSwitch(g, thread[c]) /\ g["ctx.prev_pid"] = f["ctx.prev_pid"]
      /\ "ts" \in DOMAIN g /\ g["ts"] = Wrap(clock)
  BY <1>4, AssignKeeps DEF g
<1>6. "now" \in DOMAIN g /\ g["now"] = clock
  BY <1>4 DEF g, With
<1>7. Same(Wrap(clock), clock)
  BY WrapIsSame
<1>8. HasClock(g)
  BY <1>5, <1>6, <1>7 DEF HasClock
<1>9. SwitchPlace(AfterClock, g, thread[c], since[Prev(c)], ran[Prev(c)])
  BY <1>5, <1>8 DEF SwitchPlace
<1>10. AfterClock # <<>> /\ ~Charged(AfterClock) /\ ~Charged(AllOfSwitch) /\ ~Noted(AfterClock)
       /\ ~Noted(AllOfSwitch)
  BY AfterStarts, AfterWhich DEF Starts
<1> QED
  BY <1>2, <1>3, <1>4, <1>5, <1>9, <1>10 DEF SwitchGoesOn, SameSwitch, Prev

LEMMA ThenGoesOn ==
  ASSUME NEW c \in Cpus, Statement(c), NEW s, NEW rest, Starts(todo[c], s, rest), s.op # "return",
         NEW q, NEW e, q # <<>>, todo'[c] = q, env'[c] = e, maps' = maps,
         ~Charged(todo[c]), ~Charged(q), e["ctx.prev_pid"] = Prev(c),
         SwitchPlace(q, e, thread[c], since[Prev(c)], ran[Prev(c)])
  PROVE  SwitchGoesOn(c)
<1>1. UNCHANGED <<thread, since, ran>>
  BY NotOver
<1> QED
  BY <1>1, AfterWhich DEF SwitchGoesOn, SameSwitch

(* once the C variables hold what the context says *)
KnowsSwitch(e, next) == SaysSwitch(e, next) /\ HasClock(e) /\ HasPrev(e) /\ HasNext(e)

LEMMA KnowsSwitchStill ==
  ASSUME NEW e, NEW next, KnowsSwitch(e, next), NEW n,
         NEW x, x \in {"start", "delta", "total", "sum"}
  PROVE  LET g == With(e, x, n)
         IN /\ KnowsSwitch(g, next) /\ g["ctx.prev_pid"] = e["ctx.prev_pid"] /\ g["now"] = e["now"]
            /\ x \in DOMAIN g /\ g[x] = n
<1> DEFINE g == With(e, x, n)
<1>1. /\ SaysSwitch(g, next) /\ g["ctx.prev_pid"] = e["ctx.prev_pid"]
      /\ HasClock(g) /\ g["now"] = e["now"] /\ HasPrev(g) /\ HasNext(g)
      /\ x \in DOMAIN g /\ g[x] = n
  BY AssignKeeps DEF KnowsSwitch
<1> QED
  BY <1>1 DEF KnowsSwitch

LEMMA AtPrev ==
  ASSUME OneEach, NEW c \in Cpus, Statement(c),
         todo[c] = AfterClock, SaysSwitch(env[c], thread[c]), HasClock(env[c])
  PROVE  SwitchGoesOn(c)
<1> DEFINE e == env[c]
           g == With(e, "prev_pid", Wrap(Value(c, V("ctx.prev_pid"))))
<1>1. Starts(todo[c], Set("prev_pid", V("ctx.prev_pid")), AfterPrev)
  BY AfterStarts
<1>2. todo'[c] = AfterPrev /\ env'[c] = g /\ maps' = maps
  BY <1>1, OfSet DEF Starts, Becomes
<1>3. Wrap(Value(c, V("ctx.prev_pid"))) = e["ctx.prev_pid"]
  BY ValueOf, PidsAreInts DEF SaysSwitch
<1> HIDE DEF g
<1>4. /\ SaysSwitch(g, thread[c]) /\ HasClock(g) /\ g["ctx.prev_pid"] = Prev(c)
      /\ "prev_pid" \in DOMAIN g /\ g["prev_pid"] = e["ctx.prev_pid"]
  BY <1>3, AssignKeeps DEF g, Prev
<1>5. SwitchPlace(AfterPrev, g, thread[c], since[Prev(c)], ran[Prev(c)])
  BY <1>4 DEF SwitchPlace, HasPrev, Prev
<1>6. AfterPrev # <<>> /\ ~Charged(AfterPrev) /\ ~Charged(AfterClock)
      /\ \A x, a : Set(x, a).op # "return"
  BY AfterStarts, AfterWhich DEF Starts, Set
<1> QED
  BY <1>1, <1>2, <1>4, <1>5, <1>6, ThenGoesOn

LEMMA AtNext ==
  ASSUME OneEach, NEW c \in Cpus, Statement(c), thread[c] \in Pids,
         todo[c] = AfterPrev, SaysSwitch(env[c], thread[c]), HasClock(env[c]), HasPrev(env[c])
  PROVE  SwitchGoesOn(c)
<1> DEFINE e == env[c]
           g == With(e, "next_pid", Wrap(Value(c, V("ctx.next_pid"))))
<1>1. Starts(todo[c], Set("next_pid", V("ctx.next_pid")), AfterNext)
  BY AfterStarts
<1>2. todo'[c] = AfterNext /\ env'[c] = g /\ maps' = maps
  BY <1>1, OfSet DEF Starts, Becomes
<1>3. Wrap(Value(c, V("ctx.next_pid"))) = e["ctx.next_pid"]
  BY ValueOf, PidsAreInts DEF SaysSwitch
<1> HIDE DEF g
<1>4. /\ SaysSwitch(g, thread[c]) /\ HasClock(g) /\ g["ctx.prev_pid"] = Prev(c) /\ HasPrev(g)
      /\ g["ctx.next_pid"] = e["ctx.next_pid"]
      /\ "next_pid" \in DOMAIN g /\ g["next_pid"] = e["ctx.next_pid"]
  BY <1>3, AssignKeeps DEF g, Prev
<1>5. SwitchPlace(AfterNext, g, thread[c], since[Prev(c)], ran[Prev(c)])
  BY <1>4 DEF SwitchPlace, HasNext
<1>6. AfterNext # <<>> /\ ~Charged(AfterNext) /\ ~Charged(AfterPrev)
      /\ \A x, a : Set(x, a).op # "return"
  BY AfterStarts, AfterWhich DEF Starts, Set
<1> QED
  BY <1>1, <1>2, <1>4, <1>5, <1>6, ThenGoesOn

(* No pid is out of the arrays' bounds. *)
LEMMA AtCheck ==
  ASSUME PidsHaveRoom, OneEach, NEW c \in Cpus, Statement(c),
         todo[c] = AfterNext, KnowsSwitch(env[c], thread[c])
  PROVE  SwitchGoesOn(c)
<1>1. Starts(todo[c], BoundsCheck, AfterPrint)
  BY AfterStarts
<1>2. ~Holds(Value(c, V("prev_pid")), ">", Value(c, Limit))
  <2>1. Value(c, V("prev_pid")) = Prev(c) /\ Prev(c) \in Pids
    BY ValueOf DEF KnowsSwitch, HasPrev, SaysSwitch, Prev
  <2>2. Value(c, Limit) = 41943040
    BY ValueOf, SMT DEF Limit
  <2>3. Prev(c) < Value(c, Limit) /\ Prev(c) \in Nat /\ Value(c, Limit) \in Nat
    BY <2>1, <2>2, PidsAreInts, SMT DEF PidsHaveRoom
  <2> QED
    BY <2>1, <2>3 DEF Holds
<1>3. env'[c] = env[c] /\ todo'[c] = InBounds \o AfterPrint /\ maps' = maps
  <2>1. Head(todo[c]) = If(V("prev_pid"), ">", Limit, OutOfBounds, InBounds)
    BY <1>1 DEF Starts, BoundsCheck
  <2>2. maps' = maps
    BY <2>1, OfIf
  <2>3. env'[c] = env[c] /\ todo'[c] = InBounds \o Tail(todo[c])
    BY <1>2, <2>1, IfGoes
  <2> QED
    BY <1>1, <2>2, <2>3 DEF Starts
<1>4. todo'[c] = AfterCond
  BY <1>3, InBoundsIs
<1>5. SwitchPlace(AfterCond, env[c], thread[c], since[Prev(c)], ran[Prev(c)])
  BY DEF SwitchPlace, KnowsSwitch
<1>6. AfterCond # <<>> /\ ~Charged(AfterNext) /\ ~Charged(AfterCond) /\ BoundsCheck.op # "return"
  BY AfterStarts, AfterWhich DEF Starts, BoundsCheck, If
<1> QED
  BY <1>1, <1>3, <1>4, <1>5, <1>6, ThenGoesOn DEF Prev

LEMMA AtLookStart ==
  ASSUME OneEach, TimeMaps, NEW c \in Cpus, Statement(c),
         todo[c] = AfterCond, KnowsSwitch(env[c], thread[c])
  PROVE  SwitchGoesOn(c)
<1>1. Starts(todo[c], Lookup("start", "start_time", V("prev_pid")), AfterStart)
  BY AfterStarts
<1>2. Value(c, V("prev_pid")) = Prev(c) /\ Prev(c) \in Pids
  BY ValueOf DEF KnowsSwitch, HasPrev, SaysSwitch, Prev
<1>3. Has(maps["start_time"], Prev(c)) /\ maps["start_time"].element[Prev(c)] = Prev(c)
  BY <1>2, TimesHas DEF TimeMaps
<1>4. env'[c] = env[c] /\ maps' = maps
      /\ todo'[c] = <<FollowOf("start", "start_time", Prev(c))>> \o AfterStart
  <2>1. /\ Head(todo[c]) = Lookup("start", "start_time", V("prev_pid"))
        /\ Tail(todo[c]) = AfterStart
    BY <1>1 DEF Starts
  <2>2. Has(maps["start_time"], Value(c, V("prev_pid")))
    BY <1>2, <1>3
  <2>3. /\ Becomes(c, <<FollowOf("start", "start_time",
                                maps["start_time"].element[Value(c, V("prev_pid"))])>> \o Tail(todo[c]),
                   env[c], result[c])
        /\ maps' = maps
    BY <2>1, <2>2, OfLookup, Zenon
  <2> QED
    BY <1>2, <1>3, <2>1, <2>3 DEF Becomes
<1>5. todo'[c] = FollowStart(Prev(c))
  BY <1>4 DEF FollowStart
<1>6. SwitchPlace(FollowStart(Prev(c)), env[c], thread[c], since[Prev(c)], ran[Prev(c)])
  BY DEF SwitchPlace, KnowsSwitch, Prev
<1>7. FollowStart(Prev(c)) # <<>> /\ ~Charged(AfterCond) /\ ~Charged(FollowStart(Prev(c)))
      /\ \A x, map, k : Lookup(x, map, k).op # "return"
  BY AfterStarts, AfterWhich DEF Starts, Lookup
<1> QED
  BY <1>1, <1>4, <1>5, <1>6, <1>7, ThenGoesOn DEF Prev

LEMMA AtFollowStart ==
  ASSUME OneEach, TimeMaps, NEW c \in Cpus, Statement(c), EntriesHold(c),
         todo[c] = FollowStart(Prev(c)), KnowsSwitch(env[c], thread[c])
  PROVE  SwitchGoesOn(c)
<1> DEFINE e == env[c]
           n == Wrap(maps["start_time"].content[Prev(c)])
           g == With(e, "start", n)
<1>1. Starts(todo[c], FollowOf("start", "start_time", Prev(c)), AfterStart)
  BY AfterStarts
<1>2. todo'[c] = AfterStart /\ env'[c] = g /\ maps' = maps
  <2>1. /\ Head(todo[c]) = FollowOf("start", "start_time", Prev(c))
        /\ Tail(todo[c]) = AfterStart
    BY <1>1 DEF Starts
  <2>2. Becomes(c, Tail(todo[c]), g, result[c]) /\ maps' = maps
    BY <2>1, OfFollow, Zenon
  <2> QED
    BY <2>1, <2>2 DEF Becomes
<1>3. Prev(c) \in Threads => Same(n, since[Prev(c)])
  <2>1. SUFFICES ASSUME Prev(c) \in Threads  PROVE Same(n, since[Prev(c)])
    OBVIOUS
  <2>2. Same(maps["start_time"].content[Prev(c)], since[Prev(c)])
    BY <2>1 DEF EntriesHold
  <2>3. Same(n, maps["start_time"].content[Prev(c)])
    BY <2>2, WrapIsSame DEF Same
  <2> QED
    BY <2>2, <2>3, SameThen
<1> HIDE DEF n, g
<1>4. /\ KnowsSwitch(g, thread[c]) /\ g["ctx.prev_pid"] = Prev(c)
      /\ "start" \in DOMAIN g /\ g["start"] = n
  BY KnowsSwitchStill DEF g, Prev
<1>5. SwitchPlace(AfterStart, g, thread[c], since[Prev(c)], ran[Prev(c)])
  BY <1>3, <1>4 DEF SwitchPlace, KnowsSwitch, HasStart
<1>6. AfterStart # <<>> /\ ~Charged(FollowStart(Prev(c))) /\ ~Charged(AfterStart)
      /\ \A x, map, k : FollowOf(x, map, k).op # "return"
  BY AfterStarts, AfterWhich DEF Starts, FollowOf
<1> QED
  BY <1>1, <1>2, <1>4, <1>5, <1>6, ThenGoesOn

(* A subtraction that may have overflowed is the same as one that has not. *)
LEMMA AtDelta ==
  ASSUME OneEach, NEW c \in Cpus, Statement(c), EntriesHold(c),
         todo[c] = AfterStart, KnowsSwitch(env[c], thread[c]), HasStart(env[c], since[Prev(c)])
  PROVE  SwitchGoesOn(c)
<1> DEFINE e == env[c]
           d == Apply(Value(c, V("ts")), "-", Value(c, V("start")))
<1>1. Starts(todo[c], Compute("delta", V("ts"), "-", V("start")), AfterDelta)
  BY AfterStarts
<1>2. PICK n : /\ n \in {d, Wrap(d)} /\ todo'[c] = AfterDelta /\ env'[c] = With(e, "delta", n)
               /\ maps' = maps
  BY <1>1, OfCompute DEF Starts, Becomes
<1>3. d = e["ts"] - e["start"]
  BY ValueOf DEF Apply
<1>4. Prev(c) \in Threads => Same(n, e["now"] - since[Prev(c)])
  <2>1. SUFFICES ASSUME Prev(c) \in Threads  PROVE Same(n, e["now"] - since[Prev(c)])
    OBVIOUS
  <2>2. Same(e["ts"], e["now"]) /\ Same(e["start"], since[Prev(c)])
    BY <2>1 DEF KnowsSwitch, HasClock, HasStart, Prev
  <2>3. Same(d, e["now"] - since[Prev(c)])
    BY <1>3, <2>2, SameDifference
  <2>4. Same(Wrap(d), d)
    BY <2>3, WrapIsSame DEF Same
  <2>5. Same(Wrap(d), e["now"] - since[Prev(c)])
    BY <2>3, <2>4, SameThen
  <2> QED
    BY <1>2, <2>3, <2>5
<1> HIDE DEF d
<1> DEFINE g == With(e, "delta", n)
<1>5. /\ KnowsSwitch(g, thread[c]) /\ g["ctx.prev_pid"] = Prev(c) /\ g["now"] = e["now"]
      /\ "delta" \in DOMAIN g /\ g["delta"] = n
  BY KnowsSwitchStill DEF Prev
<1> HIDE DEF g
<1>6. SwitchPlace(AfterDelta, g, thread[c], since[Prev(c)], ran[Prev(c)])
  BY <1>4, <1>5 DEF SwitchPlace, KnowsSwitch, HasDelta
<1>7. AfterDelta # <<>> /\ ~Charged(AfterStart) /\ ~Charged(AfterDelta)
      /\ \A x, a, op, b : Compute(x, a, op, b).op # "return"
  BY AfterStarts, AfterWhich DEF Starts, Compute
<1> QED
  BY <1>1, <1>2, <1>5, <1>6, <1>7, ThenGoesOn DEF g

LEMMA AtLookTotal ==
  ASSUME OneEach, TimeMaps, NEW c \in Cpus, Statement(c),
         todo[c] = AfterDelta, KnowsSwitch(env[c], thread[c]), HasDelta(env[c], since[Prev(c)])
  PROVE  SwitchGoesOn(c)
<1>1. Starts(todo[c], Lookup("total", "total_time", V("prev_pid")), AfterTotal)
  BY AfterStarts
<1>2. Value(c, V("prev_pid")) = Prev(c) /\ Prev(c) \in Pids
  BY ValueOf DEF KnowsSwitch, HasPrev, SaysSwitch, Prev
<1>3. Has(maps["total_time"], Prev(c)) /\ maps["total_time"].element[Prev(c)] = Prev(c)
  BY <1>2, TimesHas DEF TimeMaps
<1>4. env'[c] = env[c] /\ maps' = maps
      /\ todo'[c] = <<FollowOf("total", "total_time", Prev(c))>> \o AfterTotal
  <2>1. /\ Head(todo[c]) = Lookup("total", "total_time", V("prev_pid"))
        /\ Tail(todo[c]) = AfterTotal
    BY <1>1 DEF Starts
  <2>2. Has(maps["total_time"], Value(c, V("prev_pid")))
    BY <1>2, <1>3
  <2>3. /\ Becomes(c, <<FollowOf("total", "total_time",
                                maps["total_time"].element[Value(c, V("prev_pid"))])>> \o Tail(todo[c]),
                   env[c], result[c])
        /\ maps' = maps
    BY <2>1, <2>2, OfLookup, Zenon
  <2> QED
    BY <1>2, <1>3, <2>1, <2>3 DEF Becomes
<1>5. todo'[c] = FollowTotal(Prev(c))
  BY <1>4 DEF FollowTotal
<1>6. SwitchPlace(FollowTotal(Prev(c)), env[c], thread[c], since[Prev(c)], ran[Prev(c)])
  BY DEF SwitchPlace, KnowsSwitch, Prev
<1>7. FollowTotal(Prev(c)) # <<>> /\ ~Charged(AfterDelta) /\ ~Charged(FollowTotal(Prev(c)))
      /\ \A x, map, k : Lookup(x, map, k).op # "return"
  BY AfterStarts, AfterWhich DEF Starts, Lookup
<1> QED
  BY <1>1, <1>4, <1>5, <1>6, <1>7, ThenGoesOn DEF Prev

LEMMA AtFollowTotal ==
  ASSUME OneEach, TimeMaps, NEW c \in Cpus, Statement(c), EntriesHold(c),
         todo[c] = FollowTotal(Prev(c)), KnowsSwitch(env[c], thread[c]),
         HasDelta(env[c], since[Prev(c)])
  PROVE  SwitchGoesOn(c)
<1> DEFINE e == env[c]
           n == Wrap(maps["total_time"].content[Prev(c)])
           g == With(e, "total", n)
<1>1. Starts(todo[c], FollowOf("total", "total_time", Prev(c)), AfterTotal)
  BY AfterStarts
<1>2. todo'[c] = AfterTotal /\ env'[c] = g /\ maps' = maps
  <2>1. /\ Head(todo[c]) = FollowOf("total", "total_time", Prev(c))
        /\ Tail(todo[c]) = AfterTotal
    BY <1>1 DEF Starts
  <2>2. Becomes(c, Tail(todo[c]), g, result[c]) /\ maps' = maps
    BY <2>1, OfFollow, Zenon
  <2> QED
    BY <2>1, <2>2 DEF Becomes
<1>3. AfterTotal # <<>> /\ ~Charged(FollowTotal(Prev(c))) /\ ~Charged(AfterTotal)
      /\ \A x, map, k : FollowOf(x, map, k).op # "return"
  BY AfterStarts, AfterWhich DEF Starts, FollowOf
<1>4. Prev(c) \in Threads => Same(n, ran[Prev(c)])
  <2>1. SUFFICES ASSUME Prev(c) \in Threads  PROVE Same(n, ran[Prev(c)])
    OBVIOUS
  <2>2. Same(maps["total_time"].content[Prev(c)], ran[Prev(c)])
    BY <1>3, <2>1 DEF EntriesHold
  <2>3. Same(n, maps["total_time"].content[Prev(c)])
    BY <2>2, WrapIsSame DEF Same
  <2> QED
    BY <2>2, <2>3, SameThen
<1> HIDE DEF n
<1>5. "delta" \in DOMAIN g /\ g["delta"] = e["delta"]
  BY DEF HasDelta, With
<1> HIDE DEF g
<1>6. /\ KnowsSwitch(g, thread[c]) /\ g["ctx.prev_pid"] = Prev(c) /\ g["now"] = e["now"]
      /\ "total" \in DOMAIN g /\ g["total"] = n
  BY KnowsSwitchStill DEF g, Prev
<1>7. HasDelta(g, since[Prev(c)]) /\ HasTotal(g, ran[Prev(c)])
  BY <1>4, <1>5, <1>6 DEF HasDelta, HasTotal, Prev
<1>8. SwitchPlace(AfterTotal, g, thread[c], since[Prev(c)], ran[Prev(c)])
  BY <1>6, <1>7 DEF SwitchPlace, KnowsSwitch
<1> QED
  BY <1>1, <1>2, <1>3, <1>6, <1>8, ThenGoesOn

LEMMA AtSum ==
  ASSUME OneEach, NEW c \in Cpus, Statement(c), EntriesHold(c),
         todo[c] = AfterTotal, KnowsSwitch(env[c], thread[c]),
         HasDelta(env[c], since[Prev(c)]), HasTotal(env[c], ran[Prev(c)])
  PROVE  SwitchGoesOn(c)
<1> DEFINE e == env[c]
           d == Apply(Value(c, V("total")), "+", Value(c, V("delta")))
           sum == ran[Prev(c)] + (e["now"] - since[Prev(c)])
<1>1. Starts(todo[c], Compute("sum", V("total"), "+", V("delta")), AfterSum)
  BY AfterStarts
<1>2. PICK n : /\ n \in {d, Wrap(d)} /\ todo'[c] = AfterSum /\ env'[c] = With(e, "sum", n)
               /\ maps' = maps
  BY <1>1, OfCompute DEF Starts, Becomes
<1>3. d = e["total"] + e["delta"]
  BY ValueOf DEF Apply
<1>4. Prev(c) \in Threads => Same(n, sum)
  <2>1. SUFFICES ASSUME Prev(c) \in Threads  PROVE Same(n, sum)
    OBVIOUS
  <2>2. Same(e["total"], ran[Prev(c)]) /\ Same(e["delta"], e["now"] - since[Prev(c)])
    BY <2>1 DEF HasTotal, HasDelta, Prev
  <2>3. Same(d, sum)
    BY <1>3, <2>2, SameSum
  <2>4. Same(Wrap(d), d)
    BY <2>3, WrapIsSame DEF Same
  <2>5. Same(Wrap(d), sum)
    BY <2>3, <2>4, SameThen
  <2> QED
    BY <1>2, <2>3, <2>5
<1> HIDE DEF d
<1> DEFINE g == With(e, "sum", n)
<1>5. /\ KnowsSwitch(g, thread[c]) /\ g["ctx.prev_pid"] = Prev(c) /\ g["now"] = e["now"]
      /\ "sum" \in DOMAIN g /\ g["sum"] = n
  BY KnowsSwitchStill DEF Prev
<1> HIDE DEF g
<1>6. SwitchPlace(AfterSum, g, thread[c], since[Prev(c)], ran[Prev(c)])
  BY <1>4, <1>5 DEF SwitchPlace, KnowsSwitch, HasSum
<1>7. AfterSum # <<>> /\ ~Charged(AfterTotal) /\ ~Charged(AfterSum)
      /\ \A x, a, op, b : Compute(x, a, op, b).op # "return"
  BY AfterStarts, AfterWhich DEF Starts, Compute
<1> QED
  BY <1>1, <1>2, <1>5, <1>6, <1>7, ThenGoesOn DEF g

LEMMA AtCharge ==
  ASSUME OneEach, NEW c \in Cpus, Statement(c),
         todo[c] = AfterSum, KnowsSwitch(env[c], thread[c]),
         HasSum(env[c], since[Prev(c)], ran[Prev(c)])
  PROVE  ChargesPrev(c)
<1> DEFINE v == env[c]["sum"]
<1>1. Starts(todo[c], Store("total_time", V("prev_pid"), V("sum"), "BPF_ANY"), AfterCharge)
  BY AfterStarts
<1>2. Value(c, V("prev_pid")) = Prev(c) /\ Value(c, V("sum")) = v
  BY ValueOf DEF KnowsSwitch, HasPrev, Prev
<1>3. /\ todo'[c] = AfterCharge /\ env'[c] = env[c]
      /\ maps' = [maps EXCEPT !["total_time"] =
                    Update(maps["total_time"], c, Prev(c), v, "BPF_ANY")]
  <2>1. /\ Head(todo[c]) = Store("total_time", V("prev_pid"), V("sum"), "BPF_ANY")
        /\ Tail(todo[c]) = AfterCharge
    BY <1>1 DEF Starts
  <2>2. /\ Becomes(c, Tail(todo[c]), env[c], result[c])
        /\ maps' = [maps EXCEPT !["total_time"] =
                      Update(maps["total_time"], c, Value(c, V("prev_pid")), Value(c, V("sum")), "BPF_ANY")]
    BY <2>1, OfStore
  <2> QED
    BY <1>2, <2>1, <2>2 DEF Becomes
<1>4. Prev(c) \in Threads => Same(v, ran[Prev(c)] + (Now(c) - since[Prev(c)]))
  BY DEF HasSum, Prev, Now
<1>5. UNCHANGED <<thread, since, ran>>
  <2>1. Store("total_time", V("prev_pid"), V("sum"), "BPF_ANY").op # "return"
    BY DEF Store
  <2> QED
    BY <1>1, <2>1, NotOver
<1>6. SwitchPlace(AfterCharge, env[c], thread[c], since[Prev(c)], ran[Prev(c)])
  BY DEF SwitchPlace, KnowsSwitch
<1>7. AfterCharge # <<>> /\ ~Charged(AfterSum) /\ Charged(AfterCharge) /\ ~Noted(AfterCharge)
  BY AfterStarts, AfterWhich DEF Starts
<1>8. SameSwitch(c) /\ env'[c]["now"] = Now(c)
  BY <1>3, <1>5, <1>6, <1>7 DEF SameSwitch, Prev, Now
<1> HIDE DEF v
<1> QED
  BY <1>3, <1>4, <1>7, <1>8 DEF ChargesPrev

LEMMA AtNote ==
  ASSUME OneEach, NEW c \in Cpus, Statement(c),
         todo[c] = AfterCharge, KnowsSwitch(env[c], thread[c])
  PROVE  NotesNext(c)
<1> DEFINE v == env[c]["ts"]
<1>1. Starts(todo[c], Store("start_time", V("next_pid"), V("ts"), "BPF_ANY"), AfterNote)
  BY AfterStarts
<1>2. Value(c, V("next_pid")) = thread[c] /\ Value(c, V("ts")) = v
  BY ValueOf DEF KnowsSwitch, HasNext, SaysSwitch
<1>3. /\ todo'[c] = AfterNote /\ env'[c] = env[c]
      /\ maps' = [maps EXCEPT !["start_time"] =
                    Update(maps["start_time"], c, thread[c], v, "BPF_ANY")]
  <2>1. /\ Head(todo[c]) = Store("start_time", V("next_pid"), V("ts"), "BPF_ANY")
        /\ Tail(todo[c]) = AfterNote
    BY <1>1 DEF Starts
  <2>2. /\ Becomes(c, Tail(todo[c]), env[c], result[c])
        /\ maps' = [maps EXCEPT !["start_time"] =
                      Update(maps["start_time"], c, Value(c, V("next_pid")), Value(c, V("ts")), "BPF_ANY")]
    BY <2>1, OfStore
  <2> QED
    BY <1>2, <2>1, <2>2 DEF Becomes
<1>4. Same(v, Now(c))
  BY DEF KnowsSwitch, HasClock, Now
<1>5. UNCHANGED <<thread, since, ran>>
  <2>1. Store("start_time", V("next_pid"), V("ts"), "BPF_ANY").op # "return"
    BY DEF Store
  <2> QED
    BY <1>1, <2>1, NotOver
<1>6. SwitchPlace(AfterNote, env[c], thread[c], since[Prev(c)], ran[Prev(c)])
  BY DEF SwitchPlace, KnowsSwitch
<1>7. AfterNote # <<>> /\ Charged(AfterCharge) /\ ~Noted(AfterCharge) /\ Noted(AfterNote)
  BY AfterStarts, AfterWhich DEF Starts
<1>8. SameSwitch(c) /\ env'[c]["now"] = Now(c)
  BY <1>3, <1>5, <1>6, <1>7 DEF SameSwitch, Prev, Now
<1> HIDE DEF v
<1> QED
  BY <1>3, <1>4, <1>7, <1>8 DEF NotesNext

LEMMA AtPrintTime ==
  ASSUME OneEach, NEW c \in Cpus, Statement(c),
         todo[c] = AfterNote, KnowsSwitch(env[c], thread[c])
  PROVE  SwitchGoesOn(c)
<1>1. Starts(todo[c], Printk("CPU Time", <<"next_pid", "sum">>), AfterPrint)
  BY AfterStarts
<1>2. todo'[c] = AfterPrint /\ env'[c] = env[c] /\ maps' = maps
  BY <1>1, OfPrintk DEF Starts
<1>3. UNCHANGED <<thread, since, ran>>
  <2>1. Printk("CPU Time", <<"next_pid", "sum">>).op # "return"
    BY DEF Printk
  <2> QED
    BY <1>1, <2>1, NotOver
<1>4. SwitchPlace(AfterPrint, env[c], thread[c], since[Prev(c)], ran[Prev(c)])
  BY DEF SwitchPlace, KnowsSwitch
<1>5. AfterPrint # <<>> /\ Charged(AfterNote) /\ Charged(AfterPrint)
      /\ Noted(AfterNote) /\ Noted(AfterPrint)
  BY AfterStarts, AfterWhich DEF Starts
<1> QED
  BY <1>2, <1>3, <1>4, <1>5 DEF SwitchGoesOn, SameSwitch, Prev, Now

LEMMA AtReturn ==
  ASSUME OneEach, NEW c \in Cpus, Statement(c), Hook = "sched_switch",
         todo[c] = AfterPrint, KnowsSwitch(env[c], thread[c])
  PROVE  SwitchIsOver(c)
<1>1. Starts(todo[c], Return(0), <<>>)
  BY AfterStarts
<1>2. todo'[c] = <<>> /\ maps' = maps
  BY <1>1, OfReturn DEF Starts, Becomes
<1>3. RecordSwitch(c) /\ thread' = thread
  BY <1>1, OnlyReturnsRecord DEF Starts, Return
<1>4. Noted(todo[c])
  BY AfterWhich
<1> QED
  BY <1>2, <1>3, <1>4 DEF SwitchIsOver, KnowsSwitch, SaysSwitch

(* Each statement of cpu_monitor's is one of these. *)
LEMMA SwitchStatement ==
  ASSUME PidsHaveRoom, OneEach, TimeMaps, Hook = "sched_switch", clock \in Nat,
         NEW c \in Cpus, Statement(c), thread[c] \in Pids, EntriesHold(c),
         SwitchPlace(todo[c], env[c], thread[c], since[Prev(c)], ran[Prev(c)])
  PROVE  SwitchGoesOn(c) \/ ChargesPrev(c) \/ NotesNext(c) \/ SwitchIsOver(c)
<1> DEFINE e == env[c]
           q == todo[c]
<1>1. q # <<>>
  BY Dispatch DEF IsIdle
<1>2. SaysSwitch(e, thread[c])
  BY <1>1 DEF SwitchPlace
<1>3. CASE q = AllOfSwitch
  BY <1>2, <1>3, AtClock
<1>4. CASE q = AfterClock /\ HasClock(e)
  BY <1>2, <1>4, AtPrev
<1>5. CASE q = AfterPrev /\ HasClock(e) /\ HasPrev(e)
  BY <1>2, <1>5, AtNext
<1>6. CASE KnowsSwitch(e, thread[c]) /\ q \in {AfterNext, AfterCond, FollowStart(Prev(c))}
  BY <1>6, AtCheck, AtLookStart, AtFollowStart
<1>7. CASE KnowsSwitch(e, thread[c]) /\ q = AfterStart /\ HasStart(e, since[Prev(c)])
  BY <1>7, AtDelta
<1>8. CASE KnowsSwitch(e, thread[c]) /\ q \in {AfterDelta, FollowTotal(Prev(c))}
           /\ HasDelta(e, since[Prev(c)])
  BY <1>8, AtLookTotal, AtFollowTotal
<1>9. CASE KnowsSwitch(e, thread[c]) /\ q = AfterTotal /\ HasDelta(e, since[Prev(c)])
           /\ HasTotal(e, ran[Prev(c)])
  BY <1>9, AtSum
<1>10. CASE KnowsSwitch(e, thread[c]) /\ q = AfterSum /\ HasSum(e, since[Prev(c)], ran[Prev(c)])
  BY <1>10, AtCharge
<1>11. CASE KnowsSwitch(e, thread[c]) /\ q \in {AfterCharge, AfterNote, AfterPrint}
  BY <1>11, AtNote, AtPrintTime, AtReturn
<1> QED
  BY <1>1, <1>2, <1>3, <1>4, <1>5, <1>6, <1>7, <1>8, <1>9, <1>10, <1>11
     DEF SwitchPlace, KnowsSwitch, Prev

-----------------------------------------------------------------------------
(***************************************************************************)
(* The invariant                                                           *)
(***************************************************************************)

(* c has stored when t comes, and what t has run that leaves *)
Noting(c, t) == thread[c] = t /\ Noted(todo[c])
Charging(c, t) == Prev(c) = t /\ Charged(todo[c])

(***************************************************************************)
(* Between a store and the end of its switch the array is ahead of the     *)
(* history; otherwise they say the same, modulo 2^32.                      *)
(***************************************************************************)
StartInv(t) ==
  /\ \A c \in Cpus : Noting(c, t) => Same(maps["start_time"].content[t], Now(c))
  /\ (\A c \in Cpus : ~Noting(c, t)) => Same(maps["start_time"].content[t], since[t])
TotalInv(t) ==
  /\ \A c \in Cpus :
       Charging(c, t) => Same(maps["total_time"].content[t], ran[t] + (Now(c) - since[t]))
  /\ (\A c \in Cpus : ~Charging(c, t)) => Same(maps["total_time"].content[t], ran[t])
TimeInv(t) == since[t] \in Int /\ ran[t] \in Int /\ StartInv(t) /\ TotalInv(t)

(* Who is being taken off a CPU is on none, and is taken off no other. *)
SwitchesApart ==
  \A c \in Cpus :
    ~IsIdle(c) /\ Prev(c) \in Threads =>
      \A d \in Cpus : thread[d] # Prev(c) /\ (d # c /\ ~IsIdle(d) => Prev(d) # Prev(c))

AllSwitching ==
  \A c \in Cpus : SwitchPlace(todo[c], env[c], thread[c], since[Prev(c)], ran[Prev(c)])

SwitchInv ==
  /\ TimeMaps /\ clock \in Nat
  /\ thread = [c \in Cpus |-> thread[c]] /\ \A c \in Cpus : thread[c] \in Pids
  /\ NoneOnTwo /\ SwitchesApart /\ AllSwitching
  /\ \A t \in Threads : TimeInv(t)

(* It matters when the thread that leaves came, not when anyone else did. *)
LEMMA PlaceStill ==
  ASSUME NEW q, NEW e, NEW next, NEW s, NEW r, NEW s2, NEW r2, SwitchPlace(q, e, next, s, r),
         e["ctx.prev_pid"] \in Threads => s2 = s /\ r2 = r
  PROVE  SwitchPlace(q, e, next, s2, r2)
<1>1. /\ HasStart(e, s) => HasStart(e, s2)
      /\ HasDelta(e, s) => HasDelta(e, s2)
      /\ HasTotal(e, r) => HasTotal(e, r2)
      /\ HasSum(e, s, r) => HasSum(e, s2, r2)
  BY DEF HasStart, HasDelta, HasTotal, HasSum
<1> QED
  BY <1>1 DEF SwitchPlace

LEMMA TimeKept ==
  ASSUME NEW CONSTANT t \in Threads, TimeInv(t), since'[t] = since[t], ran'[t] = ran[t],
         maps'["start_time"].content[t] = maps["start_time"].content[t],
         maps'["total_time"].content[t] = maps["total_time"].content[t],
         \A c \in Cpus : /\ Noting(c, t)' <=> Noting(c, t)
                         /\ Charging(c, t)' <=> Charging(c, t)
                         /\ Noting(c, t) \/ Charging(c, t) => Now(c)' = Now(c)
  PROVE  TimeInv(t)'
<1>1. StartInv(t)'
  BY DEF TimeInv, StartInv
<1>2. TotalInv(t)'
  BY DEF TimeInv, TotalInv
<1> QED
  BY <1>1, <1>2 DEF TimeInv

LEMMA LeavesAlone ==
  ASSUME SwitchInv, NEW c \in Cpus, todo[c] # <<>>, Prev(c) \in Threads
  PROVE  \A d \in Cpus : /\ ~Noting(d, Prev(c))
                         /\ d # c => ~Charging(d, Prev(c))
<1>1. \A d \in Cpus : thread[d] # Prev(c) /\ (d # c /\ todo[d] # <<>> => Prev(d) # Prev(c))
  BY DEF SwitchInv, SwitchesApart, IsIdle
<1>2. ~Charged(<<>>)
  BY AfterWhich
<1> QED
  BY <1>1, <1>2 DEF Noting, Charging

LEMMA EntriesHoldHere ==
  ASSUME SwitchInv, NEW c \in Cpus, todo[c] # <<>>
  PROVE  EntriesHold(c)
<1> SUFFICES ASSUME Prev(c) \in Threads
             PROVE  /\ since[Prev(c)] \in Int /\ ran[Prev(c)] \in Int
                    /\ Same(maps["start_time"].content[Prev(c)], since[Prev(c)])
                    /\ ~Charged(todo[c]) => Same(maps["total_time"].content[Prev(c)], ran[Prev(c)])
  BY DEF EntriesHold
<1>1. TimeInv(Prev(c))
  BY DEF SwitchInv
<1>2. \A d \in Cpus : ~Noting(d, Prev(c)) /\ (d # c => ~Charging(d, Prev(c)))
  BY LeavesAlone
<1>3. Same(maps["start_time"].content[Prev(c)], since[Prev(c)])
  BY <1>1, <1>2 DEF TimeInv, StartInv
<1>4. ASSUME ~Charged(todo[c])  PROVE Same(maps["total_time"].content[Prev(c)], ran[Prev(c)])
  <2>1. \A d \in Cpus : ~Charging(d, Prev(c))
    BY <1>2, <1>4 DEF Charging
  <2> QED
    BY <1>1, <2>1 DEF TimeInv, TotalInv
<1> QED
  BY <1>1, <1>3, <1>4 DEF TimeInv

LEMMA SwitchKept ==
  ASSUME SwitchInv, NEW c \in Cpus, todo[c] # <<>>, SameSwitch(c), clock' = clock,
         \A d \in Cpus : d # c => Waits(d), TimeMaps', \A t \in Threads : TimeInv(t)'
  PROVE  SwitchInv'
<1>1. \A d \in Cpus : Prev(d)' = Prev(d) /\ (IsIdle(d)' <=> IsIdle(d))
  BY DEF SameSwitch, Waits, Prev, IsIdle
<1>2. UNCHANGED <<thread, since, ran>>
  BY DEF SameSwitch
<1>3. NoneOnTwo'
  BY <1>2 DEF SwitchInv, NoneOnTwo
<1>4. SwitchesApart'
  BY <1>1, <1>2 DEF SwitchInv, SwitchesApart
<1>5. AllSwitching'
  <2>1. \A d \in Cpus : SwitchPlace(todo'[d], env'[d], thread[d], since[Prev(d)], ran[Prev(d)])
    BY DEF SwitchInv, AllSwitching, SameSwitch, Waits
  <2> QED
    BY <1>1, <1>2, <2>1 DEF AllSwitching
<1> QED
  BY <1>2, <1>3, <1>4, <1>5 DEF SwitchInv

LEMMA SwitchGoesOnKeeps ==
  ASSUME SwitchInv, NEW c \in Cpus, todo[c] # <<>>, SwitchGoesOn(c), clock' = clock,
         \A d \in Cpus : d # c => Waits(d)
  PROVE  SwitchInv'
<1>1. UNCHANGED <<maps, thread, since, ran>>
  BY DEF SwitchGoesOn, SameSwitch
<1>2. TimeMaps'
  BY <1>1 DEF SwitchInv, TimeMaps
<1>3. ASSUME NEW CONSTANT t \in Threads  PROVE TimeInv(t)'
  <2>1. \A d \in Cpus : /\ Noting(d, t)' <=> Noting(d, t)
                        /\ Charging(d, t)' <=> Charging(d, t)
    BY <1>1 DEF Noting, Charging, Prev, Waits, SwitchGoesOn, SameSwitch
  <2>2. \A d \in Cpus : Noting(d, t) \/ Charging(d, t) => Now(d)' = Now(d)
    BY AfterWhich DEF Noting, Charging, Now, Waits, SwitchGoesOn
  <2>3. TimeInv(t)
    BY DEF SwitchInv
  <2> QED
    BY <1>1, <2>1, <2>2, <2>3, TimeKept
<1>4. SameSwitch(c)
  BY DEF SwitchGoesOn
<1> QED
  BY <1>2, <1>3, <1>4, SwitchKept

LEMMA ChargesKeeps ==
  ASSUME MapsInv, SwitchInv, NEW c \in Cpus, todo[c] # <<>>, ChargesPrev(c), clock' = clock,
         \A d \in Cpus : d # c => Waits(d), Prev(c) \in Pids
  PROVE  SwitchInv'
<1> DEFINE p == Prev(c)
<1>1. PICK v : /\ maps' = [maps EXCEPT !["total_time"] =
                             Update(maps["total_time"], c, p, v, "BPF_ANY")]
               /\ p \in Threads => Same(v, ran[p] + (Now(c) - since[p]))
  BY DEF ChargesPrev
<1> DEFINE n == Update(maps["total_time"], c, p, v, "BPF_ANY")
<1>2. /\ IsTimes(n) /\ n.content[p] = v
      /\ \A u \in Pids : u # p => n.content[u] = maps["total_time"].content[u]
  BY TimeStored DEF SwitchInv, TimeMaps, MapsInv
<1> HIDE DEF n
<1>3. /\ DOMAIN maps' = DOMAIN maps /\ maps'["total_time"] = n
      /\ maps'["start_time"] = maps["start_time"]
  BY <1>1 DEF SwitchInv, TimeMaps, n
<1>4. TimeMaps'
  BY <1>2, <1>3 DEF SwitchInv, TimeMaps
<1>5. SameSwitch(c) /\ UNCHANGED <<thread, since, ran>>
  BY DEF ChargesPrev, SameSwitch
<1>6. ASSUME NEW CONSTANT t \in Threads  PROVE TimeInv(t)'
  <2>1. \A d \in Cpus : Noting(d, t)' <=> Noting(d, t)
    BY <1>5, AfterWhich DEF Noting, Waits, ChargesPrev
  <2>2. \A d \in Cpus : Now(d)' = Now(d) /\ Prev(d)' = Prev(d)
    BY DEF Now, Prev, Waits, ChargesPrev, SameSwitch
  <2>3. TimeInv(t) /\ t \in Pids
    BY DEF SwitchInv, Pids
  <2>4. CASE t # p
    <3>1. \A d \in Cpus : Charging(d, t)' <=> Charging(d, t)
      BY <2>2, <2>4 DEF Charging, Waits
    <3>2. maps'["total_time"].content[t] = maps["total_time"].content[t]
      BY <1>2, <1>3, <2>3, <2>4
    <3> QED
      BY <1>3, <1>5, <2>1, <2>2, <2>3, <3>1, <3>2, TimeKept
  <2>5. CASE t = p
    <3>1. StartInv(t)'
      BY <1>3, <1>5, <2>1, <2>2, <2>3 DEF TimeInv, StartInv
    <3>2. \A d \in Cpus : d # c => ~Charging(d, t)'
      <4>1. \A d \in Cpus : d # c => ~Charging(d, t)
        BY <2>5, LeavesAlone
      <4> QED
        BY <2>2, <4>1 DEF Charging, Waits
    <3>3. Charging(c, t)'
      BY <2>2, <2>5 DEF Charging, ChargesPrev
    <3>4. maps'["total_time"].content[t] = v /\ Same(v, ran[t] + (Now(c) - since[t]))
      BY <1>1, <1>2, <1>3, <2>5
    <3>5. TotalInv(t)'
      BY <1>5, <2>2, <3>2, <3>3, <3>4 DEF TotalInv
    <3> QED
      BY <1>5, <2>3, <3>1, <3>5 DEF TimeInv
  <2> QED
    BY <2>4, <2>5
<1> QED
  BY <1>4, <1>5, <1>6, SwitchKept

LEMMA NotesKeeps ==
  ASSUME MapsInv, SwitchInv, NEW c \in Cpus, todo[c] # <<>>, NotesNext(c), clock' = clock,
         \A d \in Cpus : d # c => Waits(d)
  PROVE  SwitchInv'
<1> DEFINE p == thread[c]
<1>1. PICK v : /\ maps' = [maps EXCEPT !["start_time"] =
                             Update(maps["start_time"], c, p, v, "BPF_ANY")]
               /\ Same(v, Now(c))
  BY DEF NotesNext
<1> DEFINE n == Update(maps["start_time"], c, p, v, "BPF_ANY")
<1>2. /\ IsTimes(n) /\ n.content[p] = v
      /\ \A u \in Pids : u # p => n.content[u] = maps["start_time"].content[u]
  BY TimeStored DEF SwitchInv, TimeMaps, MapsInv
<1> HIDE DEF n
<1>3. /\ DOMAIN maps' = DOMAIN maps /\ maps'["start_time"] = n
      /\ maps'["total_time"] = maps["total_time"]
  BY <1>1 DEF SwitchInv, TimeMaps, n
<1>4. TimeMaps'
  BY <1>2, <1>3 DEF SwitchInv, TimeMaps
<1>5. SameSwitch(c) /\ UNCHANGED <<thread, since, ran>>
  BY DEF NotesNext, SameSwitch
<1>6. ASSUME NEW CONSTANT t \in Threads  PROVE TimeInv(t)'
  <2>1. \A d \in Cpus : Now(d)' = Now(d) /\ Prev(d)' = Prev(d)
    BY DEF Now, Prev, Waits, NotesNext, SameSwitch
  <2>2. \A d \in Cpus : Charging(d, t)' <=> Charging(d, t)
    BY <2>1, AfterWhich DEF Charging, Waits, NotesNext
  <2>3. TimeInv(t) /\ t \in Pids /\ t # Idle
    BY PidsAreInts DEF SwitchInv, Pids
  <2>4. CASE t # p
    <3>1. \A d \in Cpus : Noting(d, t)' <=> Noting(d, t)
      BY <1>5, <2>4 DEF Noting, Waits
    <3>2. maps'["start_time"].content[t] = maps["start_time"].content[t]
      BY <1>2, <1>3, <2>3, <2>4
    <3> QED
      BY <1>3, <1>5, <2>1, <2>2, <2>3, <3>1, <3>2, TimeKept
  <2>5. CASE t = p
    <3>1. TotalInv(t)'
      BY <1>3, <1>5, <2>1, <2>2, <2>3 DEF TimeInv, TotalInv
    <3>2. \A d \in Cpus : d # c => ~Noting(d, t)'
      BY <1>5, <2>3, <2>5 DEF Noting, SwitchInv, NoneOnTwo
    <3>3. Noting(c, t)'
      BY <1>5, <2>5 DEF Noting, NotesNext
    <3>4. maps'["start_time"].content[t] = v /\ Same(v, Now(c))
      BY <1>1, <1>2, <1>3, <2>5
    <3>5. StartInv(t)'
      BY <1>5, <2>1, <3>2, <3>3, <3>4 DEF StartInv
    <3> QED
      BY <1>5, <2>3, <3>1, <3>5 DEF TimeInv
  <2> QED
    BY <2>4, <2>5
<1> QED
  BY <1>4, <1>5, <1>6, SwitchKept

(* The history catches up with what the arrays have had since the stores. *)
LEMMA SwitchOverKeeps ==
  ASSUME SwitchInv, NEW c \in Cpus, todo[c] # <<>>, SwitchIsOver(c), clock' = clock,
         \A d \in Cpus : d # c => Waits(d)
  PROVE  SwitchInv'
<1> DEFINE p == Prev(c)
           n == thread[c]
           now == Now(c)
<1>1. /\ \A t \in Threads : ran'[t] = IF t = p THEN ran[t] + now - since[t] ELSE ran[t]
      /\ \A t \in Threads : since'[t] = IF t = n THEN now ELSE since[t]
  BY DEF SwitchIsOver, RecordSwitch, Prev, Now
<1>2. now \in Int
  BY DEF SwitchIsOver, HasClock, Same, Now
<1>3. UNCHANGED <<maps, thread>> /\ todo'[c] = <<>> /\ Noted(todo[c]) /\ Charged(todo[c])
  BY AfterWhich DEF SwitchIsOver
<1>4. \A d \in Cpus : d # c => /\ Now(d)' = Now(d) /\ Prev(d)' = Prev(d)
                               /\ todo'[d] = todo[d] /\ env'[d] = env[d]
  BY DEF Waits, Now, Prev
<1>5. p \in Threads => \A d \in Cpus : thread[d] # p /\ (d # c /\ todo[d] # <<>> => Prev(d) # p)
  BY DEF SwitchInv, SwitchesApart, IsIdle
<1>6. \A d \in Cpus : todo[d] # <<>> /\ Prev(d) \in Threads => Prev(d) # n
  BY DEF SwitchInv, SwitchesApart, IsIdle
<1>7. ~Charged(<<>>) /\ ~Noted(<<>>)
  BY AfterWhich
<1> HIDE DEF p, n, now
<1>8. ASSUME NEW CONSTANT t \in Threads  PROVE TimeInv(t)'
  <2>1. TimeInv(t) /\ t # Idle
    BY PidsAreInts DEF SwitchInv
  <2>2. \A d \in Cpus : d # c => /\ Noting(d, t)' <=> Noting(d, t)
                                 /\ Charging(d, t)' <=> Charging(d, t)
    BY <1>3, <1>4 DEF Noting, Charging
  <2>3. ~Noting(c, t)' /\ ~Charging(c, t)'
    BY <1>3, <1>7 DEF Noting, Charging
  <2>4. \A d \in Cpus : d # c /\ Charging(d, t) => t # n /\ t # p
    BY <1>5, <1>6, <1>7, <2>1 DEF Charging
  <2>5. \A d \in Cpus : d # c /\ Noting(d, t) => t # n /\ t # p
    BY <1>5, <2>1 DEF Noting, SwitchInv, NoneOnTwo, n
  <2>6. CASE t = n
    <3>1. t # p
      BY <1>5, <2>6 DEF n
    <3>2. since'[t] = now /\ ran'[t] = ran[t]
      BY <1>1, <2>6, <3>1
    <3>3. Noting(c, t)
      BY <1>3, <2>6 DEF Noting, n
    <3>4. Same(maps["start_time"].content[t], now)
      BY <2>1, <3>3 DEF TimeInv, StartInv, now
    <3>5. \A d \in Cpus : ~Noting(d, t)'
      BY <2>2, <2>3, <2>5, <2>6
    <3>6. StartInv(t)'
      BY <1>3, <3>2, <3>4, <3>5 DEF StartInv
    <3>7. \A d \in Cpus : ~Charging(d, t) /\ ~Charging(d, t)'
      BY <2>2, <2>3, <2>4, <2>6, <3>1 DEF Charging, p
    <3>8. TotalInv(t)'
      BY <1>3, <2>1, <3>2, <3>7 DEF TimeInv, TotalInv
    <3> QED
      BY <1>2, <2>1, <3>2, <3>6, <3>8 DEF TimeInv
  <2>7. CASE t = p
    <3>1. t # n
      BY <1>5, <2>7 DEF n
    <3>2. since'[t] = since[t] /\ ran'[t] = ran[t] + now - since[t]
      BY <1>1, <2>7, <3>1
    <3>3. \A d \in Cpus : ~Noting(d, t) /\ ~Noting(d, t)'
      BY <1>3, <1>5, <2>7 DEF Noting
    <3>4. StartInv(t)'
      BY <1>3, <2>1, <3>2, <3>3 DEF TimeInv, StartInv
    <3>5. Charging(c, t)
      BY <1>3, <2>7 DEF Charging, p
    <3>6. Same(maps["total_time"].content[t], ran[t] + (now - since[t]))
      BY <2>1, <3>5 DEF TimeInv, TotalInv, now
    <3>7. ran[t] + (now - since[t]) = ran'[t] /\ ran'[t] \in Int
      BY <1>2, <2>1, <3>2 DEF TimeInv
    <3>8. \A d \in Cpus : ~Charging(d, t)'
      BY <2>2, <2>3, <2>4, <2>7
    <3>9. TotalInv(t)'
      BY <1>3, <3>6, <3>7, <3>8 DEF TotalInv
    <3> QED
      BY <2>1, <3>2, <3>4, <3>7, <3>9 DEF TimeInv
  <2>8. CASE t # n /\ t # p
    <3>1. since'[t] = since[t] /\ ran'[t] = ran[t]
      BY <1>1, <2>8
    <3>2. ~Noting(c, t) /\ ~Charging(c, t)
      BY <2>8 DEF Noting, Charging, n, p
    <3>3. \A d \in Cpus : /\ Noting(d, t)' <=> Noting(d, t)
                          /\ Charging(d, t)' <=> Charging(d, t)
                          /\ Noting(d, t) \/ Charging(d, t) => Now(d)' = Now(d)
      BY <1>4, <2>2, <2>3, <3>2
    <3> QED
      BY <1>3, <2>1, <3>1, <3>3, TimeKept
  <2> QED
    BY <2>6, <2>7, <2>8
<1>9. TimeMaps'
  BY <1>3 DEF SwitchInv, TimeMaps
<1>10. NoneOnTwo'
  BY <1>3 DEF SwitchInv, NoneOnTwo
<1>11. SwitchesApart'
  <2>1. \A d \in Cpus : todo'[d] # <<>> => d # c /\ todo[d] # <<>>
    BY <1>3, <1>4
  <2> QED
    BY <1>3, <1>4, <2>1 DEF SwitchInv, SwitchesApart, IsIdle
<1>12. AllSwitching'
  <2>1. ASSUME NEW CONSTANT d \in Cpus
        PROVE  SwitchPlace(todo'[d], env'[d], thread'[d], since'[Prev(d)'], ran'[Prev(d)'])
    <3>1. CASE todo'[d] = <<>>
      BY <3>1 DEF SwitchPlace
    <3>2. CASE todo'[d] # <<>>
      <4>1. /\ d # c /\ todo'[d] = todo[d] /\ env'[d] = env[d] /\ Prev(d)' = Prev(d)
            /\ thread'[d] = thread[d]
        BY <1>3, <1>4, <3>2
      <4>2. Prev(d) \in Threads => Prev(d) # p /\ Prev(d) # n
        BY <1>5, <1>6, <3>2, <4>1
      <4>3. Prev(d) \in Threads => since'[Prev(d)] = since[Prev(d)] /\ ran'[Prev(d)] = ran[Prev(d)]
        BY <1>1, <4>2
      <4>4. SwitchPlace(todo[d], env[d], thread[d], since[Prev(d)], ran[Prev(d)])
        BY DEF SwitchInv, AllSwitching
      <4>5. SwitchPlace(todo[d], env[d], thread[d], since'[Prev(d)], ran'[Prev(d)])
        BY <4>3, <4>4, PlaceStill DEF Prev
      <4> QED
        BY <4>1, <4>5
    <3> QED
      BY <3>1, <3>2
  <2> QED
    BY <2>1 DEF AllSwitching
<1> QED
  BY <1>3, <1>8, <1>9, <1>10, <1>11, <1>12 DEF SwitchInv

(* A thread that comes to a CPU comes from none, and from no switch. *)
LEMMA SwitchBeginKeeps ==
  ASSUME OneEach, SwitchInv, program = "CpuMonitor", NEW c \in Cpus, Switch(c)
  PROVE  SwitchInv'
<1>1. PICK next \in Waiting \ {thread[c]}, tick \in Ticks :
        /\ Begin(c, With(With(NoVariables, "ctx.prev_pid", thread[c]), "ctx.next_pid", next))
        /\ thread' = [thread EXCEPT ![c] = next]
        /\ clock' = clock + tick
  BY DEF Switch
<1> DEFINE e == With(With(NoVariables, "ctx.prev_pid", thread[c]), "ctx.next_pid", next)
<1>2. /\ todo[c] = <<>> /\ todo' = [todo EXCEPT ![c] = AllOfSwitch] /\ env' = [env EXCEPT ![c] = e]
      /\ UNCHANGED <<maps, since, ran>>
  BY <1>1, CpuMonitorIs DEF Begin, IsIdle, history
<1>3. todo'[c] = AllOfSwitch /\ env'[c] = e /\ thread'[c] = next
  BY <1>1, <1>2 DEF OneEach, SwitchInv
<1>4. \A d \in Cpus : d # c => /\ todo'[d] = todo[d] /\ env'[d] = env[d] /\ thread'[d] = thread[d]
                               /\ Now(d)' = Now(d) /\ Prev(d)' = Prev(d)
  BY <1>1, <1>2 DEF OneEach, SwitchInv, Now, Prev
<1>5. e["ctx.prev_pid"] = thread[c] /\ e["ctx.next_pid"] = next
      /\ {"ctx.prev_pid", "ctx.next_pid"} \subseteq DOMAIN e
  BY DEF With
<1> HIDE DEF e
<1>6. /\ next \in Pids /\ next # thread[c] /\ thread[c] \in Pids
      /\ next # Idle => ~OnCpu(next) /\ ~BeingSwitched(next)
  BY <1>1 DEF Waiting, Pids, SwitchInv
<1>7. AllOfSwitch # <<>> /\ ~Charged(AllOfSwitch) /\ ~Noted(AllOfSwitch)
      /\ ~Charged(<<>>) /\ ~Noted(<<>>)
  BY AfterStarts, AfterWhich DEF Starts
<1>8. ASSUME NEW CONSTANT t \in Threads  PROVE TimeInv(t)'
  <2>1. \A d \in Cpus : /\ Noting(d, t)' <=> Noting(d, t)
                        /\ Charging(d, t)' <=> Charging(d, t)
                        /\ Noting(d, t) \/ Charging(d, t) => Now(d)' = Now(d)
    BY <1>2, <1>3, <1>4, <1>7 DEF Noting, Charging
  <2>2. TimeInv(t)
    BY DEF SwitchInv
  <2> QED
    BY <1>2, <2>1, <2>2, TimeKept
<1>9. TimeMaps' /\ clock' \in Nat
  BY <1>1, <1>2, GeneratedCAssumption DEF SwitchInv, TimeMaps
<1>10. /\ thread' = [d \in Cpus |-> thread'[d]]
       /\ \A d \in Cpus : thread'[d] \in Pids
  <2>1. thread' = [d \in Cpus |-> thread'[d]]
    BY <1>1 DEF SwitchInv
  <2>2. \A d \in Cpus : thread'[d] \in Pids
    BY <1>3, <1>4, <1>6 DEF SwitchInv
  <2> QED
    BY <2>1, <2>2
<1>11. NoneOnTwo'
  BY <1>3, <1>4, <1>6 DEF SwitchInv, NoneOnTwo, OnCpu
<1>12. SwitchesApart'
  <2>1. ASSUME NEW CONSTANT a \in Cpus, todo'[a] # <<>>, Prev(a)' \in Threads, NEW CONSTANT b \in Cpus
        PROVE  thread'[b] # Prev(a)' /\ (b # a /\ todo'[b] # <<>> => Prev(b)' # Prev(a)')
    <3>1. Prev(c)' = thread[c]
      BY <1>3, <1>5 DEF Prev
    <3>2. CASE a = c
      <4>1. thread[c] \in Threads /\ thread[c] # Idle
        BY <2>1, <3>1, <3>2, PidsAreInts
      <4>2. thread'[b] # thread[c]
        BY <1>3, <1>4, <1>6, <4>1 DEF SwitchInv, NoneOnTwo
      <4>3. b # c /\ todo'[b] # <<>> => Prev(b)' # thread[c]
        BY <1>4, <4>1 DEF SwitchInv, SwitchesApart, IsIdle
      <4> QED
        BY <3>1, <3>2, <4>2, <4>3
    <3>3. CASE a # c
      <4>1. todo[a] # <<>> /\ Prev(a)' = Prev(a) /\ Prev(a) \in Threads
        BY <1>4, <2>1, <3>3
      <4>2. \A d \in Cpus : thread[d] # Prev(a) /\ (d # a /\ todo[d] # <<>> => Prev(d) # Prev(a))
        BY <4>1 DEF SwitchInv, SwitchesApart, IsIdle
      <4>3. next # Prev(a)
        BY <1>6, <4>1, PidsAreInts DEF BeingSwitched, IsIdle, Prev
      <4> QED
        BY <1>3, <1>4, <3>1, <4>1, <4>2, <4>3
    <3> QED
      BY <3>2, <3>3
  <2> QED
    BY <2>1 DEF SwitchesApart, IsIdle, Prev
<1>13. AllSwitching'
  <2>1. SaysSwitch(e, next)
    BY <1>5, <1>6 DEF SaysSwitch
  <2>2. \A s, r : SwitchPlace(AllOfSwitch, e, next, s, r)
    BY <2>1 DEF SwitchPlace
  <2>3. ASSUME NEW CONSTANT d \in Cpus
        PROVE  SwitchPlace(todo'[d], env'[d], thread'[d], since'[Prev(d)'], ran'[Prev(d)'])
    <3>1. CASE d = c
      BY <1>3, <2>2, <3>1
    <3>2. CASE d # c
      BY <1>2, <1>4, <3>2 DEF SwitchInv, AllSwitching
    <3> QED
      BY <3>1, <3>2
  <2> QED
    BY <2>3 DEF AllSwitching
<1> QED
  BY <1>8, <1>9, <1>10, <1>11, <1>12, <1>13 DEF SwitchInv

LEMMA SwitchInit ==
  ASSUME PidsHaveRoom, Init, program = "CpuMonitor"
  PROVE  SwitchInv
<1>1. maps = [start_time |-> PerThread, total_time |-> PerThread] /\ Hook = "sched_switch"
  BY CpuMonitorIs DEF Init, Hook
<1>2. /\ \A c \in Cpus : todo[c] = <<>>
      /\ thread \in [Cpus -> Pids] /\ NoneOnTwo /\ clock \in Ticks
      /\ \A t \in Threads : since[t] = 0 /\ ran[t] = 0
  BY <1>1 DEF Init, Pids
<1>3. clock \in Nat
  BY <1>2, GeneratedCAssumption
<1>4. IsTimes(PerThread) /\ \A t \in Pids : PerThread.content[t] = 0
  BY TimesAtFirst
<1>5. TimeMaps
  BY <1>1, <1>4 DEF TimeMaps
<1>6. ASSUME NEW t \in Threads  PROVE TimeInv(t)
  <2>1. \A c \in Cpus : ~Noting(c, t) /\ ~Charging(c, t)
    BY <1>2, AfterWhich DEF Noting, Charging
  <2>2. maps["start_time"].content[t] = 0 /\ maps["total_time"].content[t] = 0
    BY <1>1, <1>4 DEF Pids
  <2>3. Same(0, 0)
    BY SameAs
  <2> QED
    BY <1>2, <2>1, <2>2, <2>3 DEF TimeInv, StartInv, TotalInv
<1>7. SwitchesApart
  BY <1>2 DEF SwitchesApart, IsIdle
<1>8. AllSwitching
  BY <1>2 DEF AllSwitching, SwitchPlace
<1> QED
  BY <1>2, <1>3, <1>5, <1>6, <1>7, <1>8 DEF SwitchInv

LEMMA SwitchNext ==
  ASSUME PidsHaveRoom, MapsInv, OneEach, SwitchInv, program = "CpuMonitor", [NextC]_vars
  PROVE  SwitchInv'
<1>1. Hook = "sched_switch"
  BY CpuMonitorIs DEF Hook
<1>2. CASE UNCHANGED vars \/ FirstKey \/ ListingStep
  <2>1. UNCHANGED <<maps, todo, env, thread, clock, since, ran>>
    BY <1>2 DEF vars, FirstKey, ListingStep, PrintEntry, NextEntry, Loader, cpu, history
  <2>2. ASSUME NEW CONSTANT t \in Threads  PROVE TimeInv(t)'
    <3>1. \A d \in Cpus : /\ Noting(d, t)' <=> Noting(d, t)
                          /\ Charging(d, t)' <=> Charging(d, t)
                          /\ Now(d)' = Now(d)
      BY <2>1 DEF Noting, Charging, Prev, Now
    <3>2. TimeInv(t)
      BY DEF SwitchInv
    <3> QED
      BY <2>1, <3>1, <3>2, TimeKept
  <2>3. TimeMaps' /\ NoneOnTwo'
    BY <2>1 DEF SwitchInv, TimeMaps, NoneOnTwo
  <2>4. SwitchesApart' /\ AllSwitching'
    BY <2>1 DEF SwitchInv, SwitchesApart, AllSwitching, IsIdle, Prev
  <2> QED
    BY <2>1, <2>2, <2>3, <2>4 DEF SwitchInv
<1>3. ASSUME NEW c \in Cpus, SystemCall(c) \/ Receive(c) \/ Switch(c)  PROVE SwitchInv'
  <2>1. Switch(c)
    BY <1>1, <1>3 DEF SystemCall, Receive
  <2> QED
    BY <2>1, SwitchBeginKeeps
<1>4. ASSUME NEW c \in Cpus, Statement(c)  PROVE SwitchInv'
  <2>1. \A d \in Cpus : d # c => Waits(d)
    BY <1>4, OthersWait
  <2>2. todo[c] # <<>> /\ clock' = clock
    BY <1>4, Dispatch, OnlyReturnsRecord DEF IsIdle
  <2>3. EntriesHold(c)
    BY <2>2, EntriesHoldHere
  <2>4. /\ TimeMaps /\ clock \in Nat /\ thread[c] \in Pids
        /\ SwitchPlace(todo[c], env[c], thread[c], since[Prev(c)], ran[Prev(c)])
    BY DEF SwitchInv, AllSwitching
  <2>5. Prev(c) \in Pids
    BY <2>2, <2>4 DEF SwitchPlace, SaysSwitch, Prev
  <2>6. SwitchGoesOn(c) \/ ChargesPrev(c) \/ NotesNext(c) \/ SwitchIsOver(c)
    BY <1>1, <1>4, <2>3, <2>4, SwitchStatement
  <2> QED
    BY <2>1, <2>2, <2>5, <2>6, SwitchGoesOnKeeps, ChargesKeeps, NotesKeeps, SwitchOverKeeps
<1> QED
  BY <1>2, <1>3, <1>4 DEF NextC

(***************************************************************************)
(* cpu_monitor charges a thread with the time it has spent on CPUs, modulo *)
(* 2^32, whatever the CPUs do at once: from its coming to one until its    *)
(* next coming no other touches its entries, and what the cuts to an int   *)
(* and the overflows lose are multiples of 2^32.                           *)
(***************************************************************************)
THEOREM TimeStaysExact ==
  ASSUME PidsHaveRoom
  PROVE  SpecC => []TimeIsExact
<1> DEFINE Inv == MapsInv /\ OneEach /\ (program = "CpuMonitor" => SwitchInv)
<1>1. Init => Inv
  BY InitMaps, InitOneEach, SwitchInit
<1>2. Inv /\ [NextC]_vars => Inv'
  BY NextMaps, NextOneEach, SwitchNext
<1>3. Inv => TimeIsExact
  <2> SUFFICES ASSUME Inv, program = "CpuMonitor", NEW t \in Threads,
                      \A c \in Cpus : IsIdle(c) \/ env[c]["ctx.prev_pid"] # t
               PROVE  (At(maps["total_time"], t) - ran[t]) % WORD = 0
    BY DEF TimeIsExact
  <2>1. \A c \in Cpus : ~Charging(c, t)
    BY AfterWhich DEF Charging, IsIdle, Prev
  <2>2. Same(maps["total_time"].content[t], ran[t])
    BY <2>1 DEF SwitchInv, TimeInv, TotalInv
  <2>3. At(maps["total_time"], t) = maps["total_time"].content[t]
    BY TimesHas DEF SwitchInv, TimeMaps, Pids
  <2> QED
    BY <2>2, <2>3, SameMod
<1> QED
  BY <1>1, <1>2, <1>3, PTL DEF SpecC

-----------------------------------------------------------------------------
(***************************************************************************)
(* An array of n entries: its elements, of the keys considered             *)
(***************************************************************************)
IsArrayOf(m, n) ==
  /\ m.type = "array"
  /\ \A k \in Keys : m.element[k] = IF k \in 0 .. n - 1 THEN k ELSE None
  /\ \A k \in Keys : k \in 0 .. n - 1 => k \in DOMAIN m.content

LEMMA ArrayAtFirst ==
  ASSUME NEW n \in Nat
  PROVE  /\ IsArrayOf(NewArray(n), n)
         /\ \A k \in Keys : k \in 0 .. n - 1 => At(NewArray(n), k) = 0
  BY DEF NewArray, IsArrayOf, At

LEMMA ArrayHas ==
  ASSUME NEW m, NEW n \in Nat, IsArrayOf(m, n), NEW k
  PROVE  /\ Has(m, k) <=> k \in Keys /\ k \in 0 .. n - 1
         /\ Has(m, k) => m.element[k] = k /\ At(m, k) = m.content[k]
<1>1. None \notin 0 .. n - 1
  BY DEF None
<1> QED
  BY <1>1 DEF IsArrayOf, Has, At

LEMMA ArrayStored ==
  ASSUME NEW m, MapInv(m), NEW size \in Nat, IsArrayOf(m, size), NEW c, NEW k, Has(m, k), NEW v
  PROVE  LET n == Update(m, c, k, v, "BPF_ANY")
         IN /\ IsArrayOf(n, size) /\ At(n, k) = v
            /\ \A l \in Keys : Has(m, l) /\ l # k => At(n, l) = At(m, l)
<1> DEFINE n == Update(m, c, k, v, "BPF_ANY")
<1>1. m.type = "array" /\ m.element[k] = k /\ k \in DOMAIN m.content /\ k \in Keys
  BY ArrayHas DEF IsArrayOf
<1>2. n = InPlace(m, k, v)
  BY <1>1 DEF Update
<1>3. m = [type |-> m.type, max |-> m.max, element |-> m.element, content |-> m.content,
           spare |-> m.spare, order |-> m.order]
      /\ m.content = [e \in DOMAIN m.content |-> m.content[e]]
  BY DEF MapInv, WellFormed
<1> HIDE DEF n
<1>4. n.type = m.type /\ n.element = m.element /\ n.content = [m.content EXCEPT ![k] = v]
  BY <1>1, <1>2, <1>3 DEF InPlace
<1>5. IsArrayOf(n, size)
  BY <1>3, <1>4 DEF IsArrayOf
<1>6. At(n, k) = v
  BY <1>1, <1>4 DEF At
<1>7. ASSUME NEW l \in Keys, Has(m, l), l # k  PROVE At(n, l) = At(m, l)
  <2>1. m.element[l] = l /\ n.element[l] = l
    BY <1>4, <1>7, ArrayHas
  <2>2. l \in DOMAIN m.content
    BY <1>7, ArrayHas DEF IsArrayOf
  <2> QED
    BY <1>3, <1>4, <1>7, <2>1, <2>2 DEF At
<1> QED
  BY <1>5, <1>6, <1>7 DEF n

-----------------------------------------------------------------------------
(***************************************************************************)
(* How many calls have passed the place where n statements are left        *)
(***************************************************************************)
ToPass(n) == {c \in Cpus : Len(todo[c]) >= n}
Passed(n) == events - Cardinality(ToPass(n))

LEMMA ToPassIsFinite ==
  ASSUME NEW n
  PROVE  IsFiniteSet(ToPass(n)) /\ Cardinality(ToPass(n)) \in Nat
<1>1. IsFiniteSet(Cpus)
  BY KernelMapsAssumption, FS_Interval DEF Cpus
<1> QED
  BY <1>1, FS_Subset, FS_CardinalityType DEF ToPass

LEMMA PassedIs ==
  ASSUME NEW n, events \in Nat
  PROVE  /\ Passed(n) \in Int /\ Passed(n) <= events
         /\ ToPass(n) = {} => Passed(n) = events
         /\ \A c \in ToPass(n) : Passed(n) < events
<1>1. IsFiniteSet(ToPass(n)) /\ Cardinality(ToPass(n)) \in Nat
  BY ToPassIsFinite
<1>2. Cardinality(ToPass(n)) = 0 <=> ToPass(n) = {}
  BY <1>1, FS_EmptySet
<1> QED
  BY <1>1, <1>2 DEF Passed

(* A step of one CPU. *)
LEMMA PassedNext ==
  ASSUME events \in Nat, NEW CONSTANT c \in Cpus, \A d \in Cpus : d # c => todo'[d] = todo[d],
         NEW CONSTANT n
  PROVE  /\ (Len(todo'[c]) >= n <=> Len(todo[c]) >= n) /\ events' = events =>
              Passed(n)' = Passed(n)
         /\ Len(todo[c]) >= n /\ ~(Len(todo'[c]) >= n) /\ events' = events =>
              Passed(n)' = Passed(n) + 1
         /\ ~(Len(todo[c]) >= n) /\ Len(todo'[c]) >= n /\ events' = events + 1 =>
              Passed(n)' = Passed(n)
<1> DEFINE S == ToPass(n)
           T == {d \in Cpus : Len(todo'[d]) >= n}
<1>1. IsFiniteSet(S) /\ Cardinality(S) \in Nat
  BY ToPassIsFinite
<1>2. ToPass(n)' = T
  BY DEF ToPass
<1>3. \A d \in Cpus : d # c => (d \in T <=> d \in S)
  BY DEF ToPass
<1>4. (c \in T <=> Len(todo'[c]) >= n) /\ (c \in S <=> Len(todo[c]) >= n)
  BY DEF ToPass
<1>5. S \subseteq Cpus /\ T \subseteq Cpus
  BY DEF ToPass
<1> HIDE DEF S, T
<1>6. /\ (c \in T <=> c \in S) => T = S
      /\ c \in S /\ c \notin T => T = S \ {c}
      /\ c \notin S /\ c \in T => T = S \cup {c}
  BY <1>3, <1>5
<1>7. /\ c \in S => Cardinality(S \ {c}) = Cardinality(S) - 1
      /\ c \notin S => Cardinality(S \cup {c}) = Cardinality(S) + 1
  BY <1>1, FS_AddElement, FS_RemoveElement
<1>8. Passed(n) = events - Cardinality(S) /\ Passed(n)' = events' - Cardinality(T)
  BY <1>2 DEF Passed, S
<1> HIDE DEF Passed
<1>9. CASE c \in T <=> c \in S
  BY <1>4, <1>6, <1>8, <1>9
<1>10. CASE c \in S /\ c \notin T
  <2>1. Cardinality(T) = Cardinality(S) - 1
    BY <1>6, <1>7, <1>10
  <2> QED
    BY <1>1, <1>4, <1>8, <1>10, <2>1
<1>11. CASE c \notin S /\ c \in T
  <2>1. Cardinality(T) = Cardinality(S) + 1
    BY <1>6, <1>7, <1>11
  <2> QED
    BY <1>1, <1>4, <1>8, <1>11, <2>1
<1> QED
  BY <1>9, <1>10, <1>11

-----------------------------------------------------------------------------
(***************************************************************************)
(* Who calls: maps and count_syscalls                                      *)
(***************************************************************************)
Unlocked == {"Maps", "CountSyscalls"}

(* at most one thread has called *)
OneCaller == \E t \in Pids : WhoCalled \subseteq {t}

WhoInv ==
  /\ thread = [c \in Cpus |-> thread[c]] /\ NoneOnTwo
  /\ \A c \in Cpus : thread[c] \in Pids /\ (todo[c] = <<>> <=> thread[c] = Idle)
  /\ events \in Nat /\ events <= MaxEvents[program]
  /\ \A e \in DOMAIN happened : e[1] \in Threads /\ happened[e] \in Nat

(***************************************************************************)
(* Who calls is one of Threads, an int suffices to count the events eight  *)
(* times, what the context says is an int, and the keys of maps's arrays   *)
(* are considered.                                                         *)
(***************************************************************************)
CountsFit ==
  /\ \A p \in Unlocked : Callers[p] \subseteq Threads
  /\ MaxEvents["Maps"] \in Nat /\ 8 * MaxEvents["Maps"] <= INT_MAX
  /\ MaxEvents["CountSyscalls"] \in 0 .. INT_MAX
  /\ 0 .. 6 \subseteq Keys
  /\ \A input \in Inputs["CountSyscalls"] :
       "ctx.id" \in DOMAIN input /\ input["ctx.id"] \in Int /\ IsInt(input["ctx.id"])

LEMMA UnlockedAre ==
  /\ Examples["Maps"].hook = "sys_enter_write" /\ Examples["CountSyscalls"].hook = "sys_enter"
  /\ Examples["Maps"].main = Maps /\ Examples["CountSyscalls"].main = CountSyscalls
  /\ Examples["Maps"].maps = [Example_map |-> NewArray(7), Second_Example_map |-> NewArray(5)]
  /\ Examples["CountSyscalls"].maps = [Count_Sys_Calls_Invoked |-> NewArray(335)]
  BY DEF Examples, Example, Seven, Five, PerSyscall

LEMMA WhoInit ==
  ASSUME CountsFit, Init, program \in Unlocked
  PROVE  WhoInv
<1>1. Hook # "sched_switch"
  BY UnlockedAre DEF Hook, Unlocked
<1>2. thread = [c \in Cpus |-> Idle] /\ todo = [c \in Cpus |-> <<>>] /\ events = 0
      /\ DOMAIN happened = {}
  BY <1>1 DEF Init
<1>3. MaxEvents[program] \in Nat
  BY GeneratedCAssumption DEF CountsFit, Unlocked
<1>4. NoneOnTwo
  BY <1>2 DEF NoneOnTwo
<1> QED
  BY <1>2, <1>3, <1>4 DEF WhoInv, Pids

(* A call of theirs begins. *)
LEMMA UnlockedBegins ==
  ASSUME CountsFit, OneEach, program \in Unlocked, NEW d \in Cpus,
         SystemCall(d) \/ Receive(d) \/ Switch(d), events \in Nat
  PROVE  /\ UNCHANGED <<maps, happened>> /\ events' = events + 1 /\ events' <= MaxEvents[program]
         /\ todo[d] = <<>> /\ todo'[d] = Examples[program].main
         /\ \A c \in Cpus : c # d => Waits(c)
         /\ \E t \in Threads : ~OnCpu(t) /\ thread' = [thread EXCEPT ![d] = t]
         /\ \E input \in Inputs[program] : \E n : env'[d] = With(input, "pid_tgid", n)
<1>1. Hook \notin {"sched_switch", "xdp"}
  BY UnlockedAre DEF Hook, Unlocked
<1>2. SystemCall(d)
  BY <1>1 DEF Receive, Switch
<1>3. PICK t \in Callers[program], input \in Inputs[program] :
        /\ ~OnCpu(t) /\ thread' = [thread EXCEPT ![d] = t]
        /\ Begin(d, With(input, "pid_tgid", Process[t] * WORD + t))
  BY <1>2 DEF SystemCall
<1> DEFINE e == With(input, "pid_tgid", Process[t] * WORD + t)
<1>4. t \in Threads /\ MaxEvents[program] \in Nat
  BY GeneratedCAssumption DEF CountsFit, Unlocked
<1>5. \E m \in Inputs[program] : \E n : e = With(m, "pid_tgid", n)
  OBVIOUS
<1> HIDE DEF e
<1>6. Begin(d, e)
  BY <1>3 DEF e
<1>7. /\ UNCHANGED <<maps, happened>> /\ events' = events + 1 /\ events' <= MaxEvents[program]
      /\ todo[d] = <<>> /\ todo'[d] = Examples[program].main /\ env'[d] = e
  BY <1>4, <1>6 DEF Begin, history, IsIdle, OneEach
<1>8. \A c \in Cpus : c # d => Waits(c)
  BY <1>2, EventsBegin
<1> QED
  BY <1>3, <1>4, <1>5, <1>7, <1>8

(* A statement ends the call or leaves it where it is. *)
LEMMA WhoSteps ==
  ASSUME OneEach, program \in Unlocked, program' = program, WhoInv, NEW c \in Cpus, Statement(c),
         Head(todo[c]).op = "return" <=> todo'[c] = <<>>
  PROVE  /\ WhoInv' /\ WhoCalled \subseteq WhoCalled' /\ events' = events
         /\ \A d \in Cpus : d # c => Waits(d)
<1>1. \A d \in Cpus : d # c => Waits(d)
  BY OthersWait
<1>2. todo[c] # <<>> /\ thread[c] \in Threads /\ thread[c] # Idle
  BY Dispatch DEF IsIdle, WhoInv, Pids
<1>3. Hook # "sched_switch"
  BY UnlockedAre DEF Hook, Unlocked
<1>4. events' = events
  BY OnlyReturnsLeave
<1>5. CASE Head(todo[c]).op # "return"
  <2>1. thread' = thread /\ happened' = happened /\ todo'[c] # <<>>
    BY <1>5, OnlyReturnsLeave, OnlyReturnsHappen
  <2>2. WhoInv'
    BY <1>1, <1>2, <1>4, <2>1 DEF WhoInv, NoneOnTwo, Waits
  <2>3. \A t \in Threads : Busy(t) => Busy(t)'
    BY <1>1, <2>1 DEF Busy, IsIdle, Waits
  <2>4. WhoCalled \subseteq WhoCalled'
    BY <2>1, <2>3 DEF WhoCalled
  <2> QED
    BY <1>1, <1>4, <2>2, <2>4
<1>6. CASE Head(todo[c]).op = "return"
  <2>1. thread' = [thread EXCEPT ![c] = Idle] /\ todo'[c] = <<>>
    BY <1>3, <1>6, OnlyReturnsLeave
  <2>2. ReturnFromMain(c)
    BY <1>6, Dispatch DEF Is
  <2>3. happened' = With(happened, Subject(c), Times(Subject(c)) + 1)
    BY <2>2 DEF ReturnFromMain
  <2>4. Subject(c)[1] = thread[c]
    <3>1. /\ Hook = "sys_enter" => Subject(c) = <<thread[c], env[c]["ctx.id"]>>
          /\ Hook = "sys_enter_write" => Subject(c) = <<thread[c], 0>>
      BY DEF Subject, Unlocked
    <3>2. Hook = "sys_enter" \/ Hook = "sys_enter_write"
      BY UnlockedAre DEF Hook, Unlocked
    <3> QED
      BY <3>1, <3>2
  <2> DEFINE s == Subject(c)
  <2>5. Times(s) \in Nat
    BY DEF Times, WhoInv
  <2> HIDE DEF s
  <2>6. /\ DOMAIN happened' = DOMAIN happened \cup {s}
        /\ \A e \in DOMAIN happened' : e[1] \in Threads /\ happened'[e] \in Nat
    BY <1>2, <2>3, <2>4, <2>5 DEF With, WhoInv, s
  <2>7. /\ thread' = [d \in Cpus |-> thread'[d]] /\ thread'[c] = Idle
        /\ \A d \in Cpus : d # c => thread'[d] = thread[d]
    BY <2>1 DEF WhoInv
  <2>8. NoneOnTwo'
    BY <2>7 DEF WhoInv, NoneOnTwo
  <2>9. WhoInv'
    BY <1>1, <1>4, <2>1, <2>6, <2>7, <2>8 DEF WhoInv, Waits, Pids
  <2>10. ASSUME NEW t \in Threads, Busy(t), t # thread[c]  PROVE Busy(t)'
    BY <1>1, <2>7, <2>10 DEF Busy, IsIdle, Waits
  <2>11. WhoCalled' = {e[1] : e \in DOMAIN happened'} \cup {t \in Threads : Busy(t)'}
    BY DEF WhoCalled
  <2>12. thread[c] \in {e[1] : e \in DOMAIN happened'}
    BY <2>4, <2>6 DEF s
  <2>13. WhoCalled \subseteq WhoCalled'
    <3> SUFFICES ASSUME NEW t \in WhoCalled  PROVE t \in WhoCalled'
      OBVIOUS
    <3>1. CASE t \in {e[1] : e \in DOMAIN happened}
      BY <2>6, <2>11, <3>1
    <3>2. CASE t \in Threads /\ Busy(t)
      BY <2>10, <2>11, <2>12, <3>2
    <3> QED
      BY <3>1, <3>2 DEF WhoCalled
  <2> QED
    BY <1>1, <1>4, <2>9, <2>13
<1> QED
  BY <1>5, <1>6

(* A call begins, by a thread that is in no other. *)
LEMMA WhoBegins ==
  ASSUME CountsFit, OneEach, program \in Unlocked, program' = program, WhoInv, NEW d \in Cpus,
         SystemCall(d) \/ Receive(d) \/ Switch(d), Examples[program].main # <<>>
  PROVE  WhoInv' /\ WhoCalled \subseteq WhoCalled'
<1>1. /\ happened' = happened /\ events' = events + 1 /\ events' <= MaxEvents[program]
      /\ todo[d] = <<>> /\ todo'[d] # <<>> /\ \A c \in Cpus : c # d => Waits(c)
      /\ \E t \in Threads : ~OnCpu(t) /\ thread' = [thread EXCEPT ![d] = t]
  BY UnlockedBegins DEF WhoInv
<1>2. PICK t \in Threads : ~OnCpu(t) /\ thread' = [thread EXCEPT ![d] = t]
  BY <1>1
<1>3. /\ thread' = [c \in Cpus |-> thread'[c]] /\ thread'[d] = t /\ thread[d] = Idle
      /\ \A c \in Cpus : c # d => thread'[c] = thread[c] /\ thread[c] # t
  BY <1>1, <1>2 DEF WhoInv, OnCpu
<1>4. NoneOnTwo'
  BY <1>3 DEF NoneOnTwo, WhoInv
<1>5. t # Idle /\ t \in Pids
  BY PidsAreInts DEF Pids
<1>6. WhoInv'
  BY <1>1, <1>3, <1>4, <1>5 DEF WhoInv, Waits
<1>7. \A u \in Threads : Busy(u) => Busy(u)'
  BY <1>1, <1>3 DEF Busy, IsIdle, Waits
<1> QED
  BY <1>1, <1>6, <1>7 DEF WhoCalled

(* With one caller, one CPU is in the program at most. *)
LEMMA OneAtWork ==
  ASSUME WhoInv, OneCaller, NEW c \in Cpus, NEW d \in Cpus, todo[c] # <<>>, todo[d] # <<>>
  PROVE  c = d
<1>1. thread[c] \in Threads /\ thread[d] \in Threads /\ thread[c] # Idle
  BY DEF WhoInv, Pids
<1>2. Busy(thread[c]) /\ Busy(thread[d])
  BY DEF Busy, IsIdle
<1>3. thread[c] \in WhoCalled /\ thread[d] \in WhoCalled
  BY <1>1, <1>2 DEF WhoCalled
<1>4. thread[c] = thread[d]
  BY <1>3 DEF OneCaller
<1> QED
  BY <1>1, <1>4 DEF WhoInv, NoneOnTwo

LEMMA OneCallerBefore ==
  ASSUME WhoCalled \subseteq WhoCalled', OneCaller'
  PROVE  OneCaller
  BY DEF OneCaller

(* what the promise calls alone *)
LEMMA AloneIs ==
  ASSUME WhoInv, Cardinality(WhoCalled) <= 1
  PROVE  OneCaller
<1>1. WhoCalled \subseteq Threads
  BY DEF WhoCalled, WhoInv
<1> DEFINE who == WhoCalled
<1> HIDE DEF who
<1>2. who \subseteq 1 .. INT_MAX /\ INT_MAX \in Int
  BY <1>1, GeneratedCAssumption DEF who
<1>3. IsFiniteSet(who)
  <2>1. IsFiniteSet(1 .. INT_MAX)
    BY <1>2, FS_Interval
  <2> QED
    BY <1>2, <2>1, FS_Subset
<1>4. Cardinality(who) \in Nat /\ Cardinality(who) <= 1
  BY <1>3, FS_CardinalityType DEF who
<1>5. CASE Cardinality(who) = 0
  BY <1>3, <1>5, FS_EmptySet DEF OneCaller, Pids, who
<1>6. CASE Cardinality(who) = 1
  <2>1. PICK t : who = {t}
    BY <1>3, <1>6, FS_Singleton
  <2> QED
    BY <1>1, <2>1 DEF OneCaller, Pids, who
<1> QED
  BY <1>4, <1>5, <1>6

(* Every call has passed every place when nobody is in the program. *)
LEMMA NobodyIsBusy ==
  ASSUME WhoInv, \A t \in Threads : ~Busy(t), NEW n \in Nat \ {0}
  PROVE  ToPass(n) = {}
<1>1. \A c \in Cpus : todo[c] = <<>>
  BY DEF WhoInv, Busy, IsIdle, Pids
<1> QED
  BY <1>1 DEF ToPass

-----------------------------------------------------------------------------
(***************************************************************************)
(* count_syscalls                                                          *)
(***************************************************************************)
Invoked == "Count_Sys_Calls_Invoked"
Invocations == maps[Invoked]

GetInvoked == Lookup("id_count", Invoked, V("id"))
AddInvoked == Compute("n", V("id_count"), "+", I(1))
PutInvoked == Store(Invoked, V("id"), V("n"), "BPF_ANY")
SyscallProgram == <<TakeId, GetInvoked, AddInvoked, PutInvoked, Return(0)>>

LEMMA CountSyscallsIs == CountSyscalls = SyscallProgram
  BY DEF CountSyscalls, SyscallProgram, TakeId, GetInvoked, AddInvoked, PutInvoked, Invoked

(* A lookup with !, of a key that is not there. *)
LEMMA OfLookupNone ==
  ASSUME OneEach, NEW c \in Cpus, Statement(c), NEW x, NEW map, NEW k,
         Head(todo[c]) = Lookup(x, map, k), ~Has(maps[map], Value(c, k))
  PROVE  todo'[c] = <<Return(0)>> /\ env'[c] = env[c] /\ maps' = maps
<1>1. LookupElem(c)
  BY Dispatch DEF Is, Lookup
<1> DEFINE s == Head(todo[c])
<1>2. s.x = x /\ s.map = map /\ s.k = k /\ s.raises = TRUE
  BY DEF Lookup
<1> HIDE DEF s
<1>3. maps' = maps
  BY <1>1 DEF LookupElem
<1>4. Catch(c)
  BY <1>1, <1>2, Zenon DEF LookupElem, s
<1> QED
  BY <1>3, <1>4 DEF Catch, OneEach

(* is about to return from a call of id *)
Returning(id) == \E c \in Cpus : todo[c] = <<Return(0)>> /\ env[c]["ctx.id"] = id

(* t's calls of id that have been counted, if nobody else calls *)
CallsSoFar(t, id) == Times(<<t, id>>) + IF Returning(id) THEN 1 ELSE 0

(***************************************************************************)
(* What an entry may be: no more than the calls whose count was stored,    *)
(* and exact if one thread makes them all.                                 *)
(***************************************************************************)
Fits(x, id) ==
  /\ x <= Passed(2)
  /\ \A t \in Pids : WhoCalled \subseteq {t} => x = CallsSoFar(t, id)
Fitting == {p \in Nat \X Keys : Fits(p[1], p[2])}

(* where count_syscalls is *)
CountPlace(q, e, m, F) ==
  \/ q = <<>>
  \/ \E id : /\ Tells(e, "ctx.id", id)
             /\ \/ q = SyscallProgram
                \/ Bound(e, "id", id) /\ q = <<GetInvoked, AddInvoked, PutInvoked, Return(0)>>
                \/ /\ Bound(e, "id", id) /\ Has(m, id)
                   /\ q = <<FollowOf("id_count", Invoked, id), AddInvoked, PutInvoked, Return(0)>>
                \/ /\ Bound(e, "id", id) /\ Has(m, id) /\ q = <<AddInvoked, PutInvoked, Return(0)>>
                   /\ \E x : Bound(e, "id_count", x) /\ <<x, id>> \in F
                \/ /\ Bound(e, "id", id) /\ Has(m, id) /\ q = <<PutInvoked, Return(0)>>
                   /\ \E x : Bound(e, "n", x + 1) /\ <<x, id>> \in F
                \/ q = <<Return(0)>>

LEMMA CountPlaceKept ==
  ASSUME NEW q, NEW e, NEW m, NEW n, NEW F, NEW G, CountPlace(q, e, m, F),
         \A id : Has(m, id) => Has(n, id),
         \A x, id : Has(m, id) /\ <<x, id>> \in F => <<x, id>> \in G
  PROVE  CountPlace(q, e, n, G)
  BY DEF CountPlace

(* at work on a call of id that is not counted yet *)
AtWorkOn(c, id) ==
  /\ todo[c] # <<>> /\ todo[c] # <<Return(0)>> /\ Len(todo[c]) >= 2
  /\ Bound(env[c], "ctx.id", id)
  /\ Head(todo[c]).op # "return"

StillAtWork(c) ==
  /\ maps' = maps /\ todo'[c] # <<>> /\ todo'[c] # <<Return(0)>> /\ Len(todo'[c]) >= 2
  /\ CountPlace(todo'[c], env'[c], Invocations, Fitting)

GivesUp(c, id) == maps' = maps /\ todo'[c] = <<Return(0)>> /\ ~Has(Invocations, id)

PutsCount(c, id) ==
  /\ Has(Invocations, id) /\ todo'[c] = <<Return(0)>>
  /\ \E x : /\ <<x, id>> \in Fitting
            /\ maps' = [maps EXCEPT ![Invoked] = Update(Invocations, c, id, x + 1, "BPF_ANY")]

SyscallOver(c) == maps' = maps /\ todo[c] = <<Return(0)>> /\ todo'[c] = <<>>

LEMMA SyscallLengths ==
  ASSUME NEW a, NEW b, NEW c, NEW d, NEW e
  PROVE  /\ Len(<<a, b, c, d, e>>) >= 2 /\ <<a, b, c, d, e>> # <<>>
         /\ Len(<<b, c, d, e>>) >= 2 /\ <<b, c, d, e>> # <<>>
         /\ Len(<<c, d, e>>) >= 2 /\ <<c, d, e>> # <<>>
         /\ Len(<<d, e>>) >= 2 /\ <<d, e>> # <<>>
         /\ Len(<<e>>) = 1 /\ <<e>> # <<>> /\ Len(<<>>) = 0
  OBVIOUS

LEMMA SyscallOps ==
  /\ TakeId.op = "set" /\ GetInvoked.op = "lookup" /\ AddInvoked.op = "compute"
  /\ PutInvoked.op = "store" /\ Return(0).op = "return"
  /\ \A x, m, k : FollowOf(x, m, k).op = "follow"
  BY DEF TakeId, GetInvoked, AddInvoked, PutInvoked, Set, Lookup, Compute, Store, Return, FollowOf

(* What a statement of count_syscalls may do. *)
LEMMA SyscallStatement ==
  ASSUME CountsFit, OneEach, program = "CountSyscalls", WhoInv, NEW c \in Cpus, Statement(c),
         IsArrayOf(Invocations, 335), CountPlace(todo[c], env[c], Invocations, Fitting),
         \A id : Has(Invocations, id) => <<At(Invocations, id), id>> \in Fitting
  PROVE  \E id : /\ Bound(env[c], "ctx.id", id)
                 /\ \/ /\ AtWorkOn(c, id) /\ Bound(env'[c], "ctx.id", id)
                       /\ StillAtWork(c) \/ GivesUp(c, id) \/ PutsCount(c, id)
                    \/ SyscallOver(c)
<1>0. todo[c] # <<>>
  BY Dispatch DEF IsIdle
<1>1. PICK id :
        /\ Tells(env[c], "ctx.id", id)
        /\ \/ todo[c] = SyscallProgram
           \/ Bound(env[c], "id", id) /\ todo[c] = <<GetInvoked, AddInvoked, PutInvoked, Return(0)>>
           \/ /\ Bound(env[c], "id", id) /\ Has(Invocations, id)
              /\ todo[c] = <<FollowOf("id_count", Invoked, id), AddInvoked, PutInvoked, Return(0)>>
           \/ /\ Bound(env[c], "id", id) /\ Has(Invocations, id)
              /\ todo[c] = <<AddInvoked, PutInvoked, Return(0)>>
              /\ \E x : Bound(env[c], "id_count", x) /\ <<x, id>> \in Fitting
           \/ /\ Bound(env[c], "id", id) /\ Has(Invocations, id) /\ todo[c] = <<PutInvoked, Return(0)>>
              /\ \E x : Bound(env[c], "n", x + 1) /\ <<x, id>> \in Fitting
           \/ todo[c] = <<Return(0)>>
  BY <1>0, Zenon DEF CountPlace
<1>2. id \in Int /\ IsInt(id) /\ Bound(env[c], "ctx.id", id)
  BY <1>1 DEF Tells
<1>3. 2 \in Nat /\ events \in Nat /\ events <= INT_MAX /\ INT_MAX \in Nat
  BY GeneratedCAssumption DEF WhoInv, CountsFit
<1>4. ASSUME NEW x, <<x, id>> \in Fitting, Len(todo[c]) >= 2
      PROVE  x \in Nat /\ x + 1 \in Int /\ IsInt(x) /\ IsInt(x + 1)
  <2>1. x \in Nat /\ x <= Passed(2)
    BY <1>4 DEF Fitting, Fits
  <2>2. Passed(2) \in Int /\ Passed(2) < events
    BY <1>3, <1>4, PassedIs DEF ToPass
  <2> QED
    BY <1>3, <2>1, <2>2 DEF IsInt
<1>5. CASE todo[c] = SyscallProgram
  <2>1. Head(todo[c]) = TakeId /\ Tail(todo[c]) = <<GetInvoked, AddInvoked, PutInvoked, Return(0)>>
    BY <1>5, LongFirsts DEF SyscallProgram
  <2>2. Value(c, V("ctx.id")) = id
    BY <1>2, ValueBound
  <2>3. Becomes(c, Tail(todo[c]), With(env[c], "id", id), result[c]) /\ maps' = maps
    BY <1>2, <2>1, <2>2, SetsTo, OfSet DEF TakeId
  <2>4. Bound(env'[c], "id", id) /\ Bound(env'[c], "ctx.id", id)
    BY <1>2, <2>3, BoundWith DEF Becomes
  <2>5. todo'[c] = <<GetInvoked, AddInvoked, PutInvoked, Return(0)>>
    BY <2>1, <2>3 DEF Becomes
  <2>6. StillAtWork(c)
    BY <1>2, <2>3, <2>4, <2>5, SyscallLengths DEF StillAtWork, CountPlace, Tells
  <2>7. AtWorkOn(c, id)
    BY <1>2, <1>5, <2>1, SyscallOps, SyscallLengths DEF AtWorkOn, SyscallProgram
  <2> QED
    BY <1>2, <2>4, <2>6, <2>7
<1>6. CASE Bound(env[c], "id", id) /\ todo[c] = <<GetInvoked, AddInvoked, PutInvoked, Return(0)>>
  <2>1. Head(todo[c]) = GetInvoked /\ Tail(todo[c]) = <<AddInvoked, PutInvoked, Return(0)>>
    BY <1>6, Firsts
  <2>2. Value(c, V("id")) = id
    BY <1>6, ValueBound
  <2>3. AtWorkOn(c, id)
    BY <1>2, <1>6, <2>1, SyscallOps, SyscallLengths DEF AtWorkOn
  <2>4. CASE Has(Invocations, id)
    <3>1. Invocations.element[id] = id
      BY <2>4, ArrayHas
    <3>2. /\ Becomes(c, <<FollowOf("id_count", Invoked, id)>> \o Tail(todo[c]), env[c], result[c])
          /\ maps' = maps
      BY <2>1, <2>2, <2>4, <3>1, OfLookup DEF GetInvoked, Invocations
    <3>3. todo'[c] = <<FollowOf("id_count", Invoked, id), AddInvoked, PutInvoked, Return(0)>>
      BY <2>1, <3>2, Join13 DEF Becomes
    <3>4. StillAtWork(c)
      <4>1. env'[c] = env[c] /\ maps' = maps
        BY <3>2 DEF Becomes
      <4>2. todo'[c] # <<>> /\ todo'[c] # <<Return(0)>> /\ Len(todo'[c]) >= 2
        BY <3>3, SyscallLengths
      <4> QED
        BY <1>1, <1>6, <2>4, <3>3, <4>1, <4>2, Zenon DEF StillAtWork, CountPlace
    <3> QED
      BY <1>2, <2>3, <3>2, <3>4 DEF Becomes
  <2>5. CASE ~Has(Invocations, id)
    <3>1. todo'[c] = <<Return(0)>> /\ env'[c] = env[c] /\ maps' = maps
      BY <2>1, <2>2, <2>5, OfLookupNone DEF GetInvoked, Invocations
    <3> QED
      BY <1>2, <2>3, <2>5, <3>1 DEF GivesUp
  <2> QED
    BY <2>4, <2>5
<1>7. CASE /\ Bound(env[c], "id", id) /\ Has(Invocations, id)
           /\ todo[c] = <<FollowOf("id_count", Invoked, id), AddInvoked, PutInvoked, Return(0)>>
  <2> DEFINE x == At(Invocations, id)
  <2>1. /\ Head(todo[c]) = FollowOf("id_count", Invoked, id)
        /\ Tail(todo[c]) = <<AddInvoked, PutInvoked, Return(0)>>
    BY <1>7, Firsts
  <2>2. AtWorkOn(c, id)
    BY <1>2, <1>7, <2>1, SyscallOps, SyscallLengths DEF AtWorkOn
  <2>3. x = maps[Invoked].content[id] /\ <<x, id>> \in Fitting
    BY <1>7, ArrayHas DEF Invocations
  <2> HIDE DEF x
  <2>4. Wrap(x) = x
    BY <1>4, <2>2, <2>3, WrapOfInt DEF AtWorkOn
  <2>5. Becomes(c, Tail(todo[c]), With(env[c], "id_count", x), result[c]) /\ maps' = maps
    BY <2>1, <2>3, <2>4, OfFollow
  <2>6. /\ Bound(env'[c], "id", id) /\ Bound(env'[c], "ctx.id", id) /\ Bound(env'[c], "id_count", x)
        /\ todo'[c] = <<AddInvoked, PutInvoked, Return(0)>>
    BY <1>2, <1>7, <2>1, <2>5, BoundWith DEF Becomes
  <2>7. todo'[c] # <<>> /\ todo'[c] # <<Return(0)>> /\ Len(todo'[c]) >= 2
    BY <2>6, SyscallLengths
  <2>8. StillAtWork(c)
    BY <1>2, <1>7, <2>3, <2>5, <2>6, <2>7, Zenon DEF StillAtWork, CountPlace, Tells
  <2> QED
    BY <1>2, <2>2, <2>6, <2>8
<1>8. CASE /\ Bound(env[c], "id", id) /\ Has(Invocations, id)
           /\ todo[c] = <<AddInvoked, PutInvoked, Return(0)>>
           /\ \E x : Bound(env[c], "id_count", x) /\ <<x, id>> \in Fitting
  <2>1. PICK x : Bound(env[c], "id_count", x) /\ <<x, id>> \in Fitting
    BY <1>8
  <2>2. Head(todo[c]) = AddInvoked /\ Tail(todo[c]) = <<PutInvoked, Return(0)>>
    BY <1>8, Firsts
  <2>3. AtWorkOn(c, id)
    BY <1>2, <1>8, <2>2, SyscallOps, SyscallLengths DEF AtWorkOn
  <2>4. x + 1 \in Int /\ IsInt(x + 1)
    BY <1>4, <2>1, <2>3 DEF AtWorkOn
  <2>5. Apply(Value(c, V("id_count")), "+", Value(c, I(1))) = x + 1
    <3>1. Value(c, V("id_count")) = x /\ Value(c, I(1)) = 1
      BY <2>1, ValueBound, ValueOf
    <3> QED
      BY <3>1 DEF Apply
  <2>6. Becomes(c, Tail(todo[c]), With(env[c], "n", x + 1), result[c]) /\ maps' = maps
    BY <2>2, <2>4, <2>5, ComputesTo, OfCompute DEF AddInvoked
  <2>7. /\ Bound(env'[c], "id", id) /\ Bound(env'[c], "ctx.id", id) /\ Bound(env'[c], "n", x + 1)
        /\ todo'[c] = <<PutInvoked, Return(0)>>
    BY <1>2, <1>8, <2>2, <2>6, BoundWith DEF Becomes
  <2>8. todo'[c] # <<>> /\ todo'[c] # <<Return(0)>> /\ Len(todo'[c]) >= 2
    BY <2>7, SyscallLengths
  <2>9. StillAtWork(c)
    BY <1>2, <1>8, <2>1, <2>6, <2>7, <2>8, Zenon DEF StillAtWork, CountPlace, Tells
  <2> QED
    BY <1>2, <2>3, <2>7, <2>9
<1>9. CASE /\ Bound(env[c], "id", id) /\ Has(Invocations, id) /\ todo[c] = <<PutInvoked, Return(0)>>
           /\ \E x : Bound(env[c], "n", x + 1) /\ <<x, id>> \in Fitting
  <2>1. PICK x : Bound(env[c], "n", x + 1) /\ <<x, id>> \in Fitting
    BY <1>9
  <2>2. Head(todo[c]) = PutInvoked /\ Tail(todo[c]) = <<Return(0)>>
    BY <1>9, Firsts
  <2>3. AtWorkOn(c, id)
    BY <1>2, <1>9, <2>2, SyscallOps, SyscallLengths DEF AtWorkOn
  <2>4. Value(c, V("id")) = id /\ Value(c, V("n")) = x + 1
    BY <1>9, <2>1, ValueBound
  <2>5. /\ Becomes(c, Tail(todo[c]), env[c], result[c])
        /\ maps' = [maps EXCEPT ![Invoked] = Update(maps[Invoked], c, Value(c, V("id")),
                                                    Value(c, V("n")), "BPF_ANY")]
    BY <2>2, OfStore DEF PutInvoked
  <2>6. PutsCount(c, id) /\ env'[c] = env[c]
    BY <1>9, <2>1, <2>2, <2>4, <2>5 DEF PutsCount, Becomes, Invocations
  <2> QED
    BY <1>2, <2>3, <2>6
<1>10. CASE todo[c] = <<Return(0)>>
  <2>1. Head(todo[c]) = Return(0)
    BY <1>10
  <2>2. Becomes(c, <<>>, NoVariables, NoResult) /\ maps' = maps
    BY <2>1, OfReturn
  <2> QED
    BY <1>2, <1>10, <2>2 DEF SyscallOver, Becomes
<1> QED
  BY <1>1, <1>5, <1>6, <1>7, <1>8, <1>9, <1>10

-----------------------------------------------------------------------------
(***************************************************************************)
(* A sum that only t adds to                                               *)
(***************************************************************************)
Only(t, g, s) == IF t \in s THEN g[t] ELSE 0

LEMMA OnlyWithout ==
  ASSUME NEW S, NEW t, NEW g \in [S -> Int], \A u \in S : u # t => g[u] = 0,
         NEW s \in SUBSET S, NEW x \in s
  PROVE  Only(t, g, s) = g[x] + Only(t, g, s \ {x})
<1>1. CASE x = t
  BY <1>1 DEF Only
<1>2. CASE x # t
  BY <1>2 DEF Only
<1> QED
  BY <1>1, <1>2

LEMMA OnlyAddsUp ==
  ASSUME NEW S, NEW t, NEW g \in [S -> Int], \A u \in S : u # t => g[u] = 0
  PROVE  \E it : AddsUp(it, S, g)
<1> DEFINE it == [s \in SUBSET S |-> Only(t, g, s)]
           First(s) == CHOOSE x \in s : TRUE
<1>1. ASSUME NEW s \in SUBSET S
      PROVE  Only(t, g, s) = IF s = {} THEN 0 ELSE g[First(s)] + it[s \ {First(s)}]
  <2>1. CASE s = {}
    BY <2>1 DEF Only
  <2>2. CASE s # {}
    <3>1. First(s) \in s
      BY <2>2
    <3> HIDE DEF First
    <3>2. Only(t, g, s) = g[First(s)] + Only(t, g, s \ {First(s)})
      BY <3>1, OnlyWithout
    <3> QED
      BY <2>2, <3>2
  <2> QED
    BY <2>1, <2>2
<1> HIDE DEF First
<1>2. it = [s \in SUBSET S |-> IF s = {} THEN 0 ELSE g[First(s)] + it[s \ {First(s)}]]
  BY <1>1
<1> HIDE DEF it
<1> QED
  BY <1>2 DEF AddsUp, First

LEMMA OnlyOneAdds ==
  ASSUME NEW S, IsFiniteSet(S), NEW t, NEW g \in [S -> Int], \A u \in S : u # t => g[u] = 0,
         NEW it, AddsUp(it, S, g)
  PROVE  it[S] = Only(t, g, S)
<1> DEFINE Right == {n \in Nat : \A s \in SUBSET S : Cardinality(s) = n => it[s] = Only(t, g, s)}
<1>1. 0 \in Right
  <2> SUFFICES ASSUME NEW s \in SUBSET S, Cardinality(s) = 0  PROVE it[s] = Only(t, g, s)
    OBVIOUS
  <2>1. s = {}
    BY FS_Subset, FS_EmptySet
  <2> QED
    BY <2>1 DEF AddsUp, Only
<1>2. ASSUME NEW n \in Nat, n \in Right  PROVE n + 1 \in Right
  <2> SUFFICES ASSUME NEW s \in SUBSET S, Cardinality(s) = n + 1  PROVE it[s] = Only(t, g, s)
    OBVIOUS
  <2> DEFINE x == CHOOSE y \in s : TRUE
  <2>1. IsFiniteSet(s)
    BY FS_Subset
  <2>2. s # {}
    BY FS_EmptySet
  <2>3. it[s] = g[x] + it[s \ {x}]
    BY <2>2 DEF AddsUp
  <2>x. x \in s
    BY <2>2
  <2> HIDE DEF x
  <2>4. Cardinality(s \ {x}) = n
    <3>1. Cardinality(s \ {x}) = Cardinality(s) - 1
      BY <2>1, <2>x, FS_RemoveElement
    <3> QED
      BY <3>1
  <2>5. it[s \ {x}] = Only(t, g, s \ {x})
    BY <1>2, <2>4
  <2>6. Only(t, g, s) = g[x] + Only(t, g, s \ {x})
    BY <2>x, OnlyWithout
  <2> QED
    BY <2>3, <2>5, <2>6
<1>3. Cardinality(S) \in Nat
  BY FS_CardinalityType
<1> HIDE DEF Right
<1>4. Cardinality(S) \in Right
  BY <1>1, <1>2, <1>3, NatSetInduction
<1> QED
  BY <1>4 DEF Right

(* the calls of id, of all threads *)
CallsBy(id) == MapThenSumSet(LAMBDA t : Times(<<t, id>>), Threads)

LEMMA CallsOfOne ==
  ASSUME NEW t, NEW id, \A u \in Threads : Times(<<u, id>>) \in Int,
         \A u \in Threads : u # t => Times(<<u, id>>) = 0
  PROVE  CallsBy(id) = IF t \in Threads THEN Times(<<t, id>>) ELSE 0
<1> DEFINE S == Threads
           g == [u \in S |-> Times(<<u, id>>)]
           First(s) == CHOOSE x \in s : TRUE
           Step(it) == [s \in SUBSET S |->
                          IF s = {} THEN 0
                          ELSE Times(<<First(s), id>>) + it[s \ {First(s)}]]
           sum == CHOOSE it : it = Step(it)
<1>1. CallsBy(id) = sum[S]
  BY DEF CallsBy, MapThenSumSet, MapThenFoldSet
<1>2. g \in [S -> Int] /\ \A u \in S : u # t => g[u] = 0
  OBVIOUS
<1>3. IsFiniteSet(S)
  <2>1. S \subseteq 1 .. INT_MAX /\ INT_MAX \in Int
    BY GeneratedCAssumption
  <2>2. IsFiniteSet(1 .. INT_MAX)
    BY <2>1, FS_Interval
  <2> QED
    BY <2>1, <2>2, FS_Subset
<1>4. \A it : AddsUp(it, S, g) <=> it = Step(it)
  <2>d. \A it : AddsUp(it, S, g) <=>
                it = [s \in SUBSET S |-> IF s = {} THEN 0 ELSE g[First(s)] + it[s \ {First(s)}]]
    BY DEF AddsUp
  <2>1. \A s \in SUBSET S : s # {} => First(s) \in S
    OBVIOUS
  <2> HIDE DEF First
  <2>2. \A s \in SUBSET S : s # {} => g[First(s)] = Times(<<First(s), id>>)
    BY <2>1
  <2> HIDE DEF g, S
  <2>3. \A it : Step(it) = [s \in SUBSET S |-> IF s = {} THEN 0
                                               ELSE g[First(s)] + it[s \ {First(s)}]]
    BY <2>2
  <2> QED
    BY <2>d, <2>3
<1> HIDE DEF Step, g
<1>5. \E it : it = Step(it)
  BY <1>2, <1>4, OnlyAddsUp
<1>6. AddsUp(sum, S, g)
  <2>1. sum = Step(sum)
    BY <1>5
  <2> HIDE DEF sum
  <2> QED
    BY <1>4, <2>1
<1> HIDE DEF sum, S
<1>7. sum[S] = Only(t, g, S)
  BY <1>2, <1>3, <1>6, OnlyOneAdds
<1> QED
  BY <1>1, <1>7 DEF Only, g, S

-----------------------------------------------------------------------------
(***************************************************************************)
(* count_syscalls: the entries are those of the calls, stored or under way *)
(***************************************************************************)
SyscallsInv ==
  /\ IsArrayOf(Invocations, 335)
  /\ \A c \in Cpus : CountPlace(todo[c], env[c], Invocations, Fitting)
  /\ \A id : Has(Invocations, id) => <<At(Invocations, id), id>> \in Fitting

LEMMA SyscallsInit ==
  ASSUME CountsFit, Init, program = "CountSyscalls"
  PROVE  SyscallsInv
<1>1. /\ todo = [c \in Cpus |-> <<>>] /\ events = 0 /\ DOMAIN happened = {}
      /\ Invocations = NewArray(335)
  BY UnlockedAre DEF Init, Invocations, Invoked
<1>2. IsArrayOf(Invocations, 335) /\ \A k \in Keys : k \in 0 .. 335 - 1 => At(Invocations, k) = 0
  <2>1. 335 \in Nat
    OBVIOUS
  <2>2. /\ IsArrayOf(NewArray(335), 335)
        /\ \A k \in Keys : k \in 0 .. 335 - 1 => At(NewArray(335), k) = 0
    BY <2>1, ArrayAtFirst
  <2> QED
    BY <1>1, <2>2, Zenon
<1>3. Passed(2) = 0
  <2>1. ToPass(2) = {}
    BY <1>1 DEF ToPass
  <2> QED
    BY <1>1, <2>1, PassedIs
<1>4. \A t, id : CallsSoFar(t, id) = 0
  BY <1>1 DEF CallsSoFar, Times, Returning
<1>5. \A id \in Keys : <<0, id>> \in Fitting
  BY <1>3, <1>4 DEF Fitting, Fits
<1>6. ASSUME NEW id, Has(Invocations, id)  PROVE <<At(Invocations, id), id>> \in Fitting
  <2>1. 335 \in Nat
    OBVIOUS
  <2>2. id \in Keys /\ id \in 0 .. 335 - 1
    BY <1>2, <1>6, <2>1, ArrayHas
  <2> QED
    BY <1>2, <1>5, <2>2
<1> QED
  BY <1>1, <1>2, <1>6 DEF SyscallsInv, CountPlace

(* An entry fits as long as no call of its own is counted. *)
LEMMA FitsStill ==
  ASSUME Passed(2) \in Int, Passed(2)' \in Int, Passed(2) <= Passed(2)', WhoCalled \subseteq WhoCalled',
         NEW CONSTANT id,
         \A t \in Pids : WhoCalled' \subseteq {t} => CallsSoFar(t, id)' = CallsSoFar(t, id)
  PROVE  \A x : <<x, id>> \in Fitting => <<x, id>> \in Fitting'
<1> SUFFICES ASSUME NEW CONSTANT x, <<x, id>> \in Fitting  PROVE <<x, id>> \in Fitting'
  OBVIOUS
<1>1. x \in Nat /\ id \in Keys /\ Fits(x, id)
  BY DEF Fitting
<1>2. x <= Passed(2)'
  BY <1>1 DEF Fits
<1>3. \A t \in Pids : WhoCalled' \subseteq {t} => x = CallsSoFar(t, id)'
  BY <1>1 DEF Fits
<1>4. Fits(x, id)'
  BY <1>2, <1>3 DEF Fits
<1> QED
  BY <1>1, <1>4 DEF Fitting

(* The calls counted are the same for those that c does not end a call of. *)
LEMMA SoFarStill ==
  ASSUME NEW CONSTANT c \in Cpus, \A d \in Cpus : d # c => Waits(d), NEW CONSTANT id,
         (todo'[c] = <<Return(0)>> /\ env'[c]["ctx.id"] = id)
           <=> (todo[c] = <<Return(0)>> /\ env[c]["ctx.id"] = id)
  PROVE  /\ Returning(id)' <=> Returning(id)
         /\ \A t : Times(<<t, id>>)' = Times(<<t, id>>) =>
              CallsSoFar(t, id)' = CallsSoFar(t, id)
<1>1. Returning(id)' <=> Returning(id)
  BY DEF Returning, Waits
<1> QED
  BY <1>1 DEF CallsSoFar

(* A step that changes no entry. *)
LEMMA EntriesStill ==
  ASSUME SyscallsInv, maps' = maps, Passed(2) \in Int, Passed(2)' \in Int, Passed(2) <= Passed(2)',
         WhoCalled \subseteq WhoCalled',
         NEW CONSTANT c \in Cpus, \A d \in Cpus : d # c => Waits(d),
         \A id : Has(Invocations, id) =>
           \A t \in Pids : WhoCalled' \subseteq {t} => CallsSoFar(t, id)' = CallsSoFar(t, id),
         CountPlace(todo'[c], env'[c], Invocations, Fitting)
  PROVE  SyscallsInv'
<1>1. Invocations' = Invocations
  BY DEF Invocations
<1>2. \A id, x : Has(Invocations, id) /\ <<x, id>> \in Fitting => <<x, id>> \in Fitting'
  BY FitsStill
<1>3. ASSUME NEW CONSTANT d \in Cpus  PROVE CountPlace(todo[d], env[d], Invocations, Fitting)'
  <2>1. CountPlace(todo'[d], env'[d], Invocations, Fitting)
    BY DEF Waits, SyscallsInv
  <2>2. CountPlace(todo'[d], env'[d], Invocations, Fitting')
    BY <1>2, <2>1, CountPlaceKept
  <2> QED
    BY <1>1, <2>2
<1>4. IsArrayOf(Invocations, 335)'
  BY <1>1 DEF SyscallsInv, IsArrayOf
<1>5. \A id : Has(Invocations, id)' => <<At(Invocations, id)', id>> \in Fitting'
  BY <1>1, <1>2 DEF SyscallsInv
<1> QED
  BY <1>3, <1>4, <1>5 DEF SyscallsInv

LEMMA TellsId ==
  ASSUME NEW q, NEW e, NEW m, NEW F, CountPlace(q, e, m, F), q # <<>>, NEW id, Bound(e, "ctx.id", id)
  PROVE  Tells(e, "ctx.id", id)
  BY DEF CountPlace, Tells, Bound

LEMMA PassedAreInts ==
  ASSUME WhoInv, WhoInv', NEW CONSTANT n
  PROVE  Passed(n) \in Int /\ Passed(n)' \in Int
<1>1. events \in Nat /\ events' \in Nat
  BY DEF WhoInv
<1>2. Passed(n) \in Int
  BY <1>1, PassedIs
<1>3. IsFiniteSet(ToPass(n)') /\ Cardinality(ToPass(n)') \in Nat
  <2>1. (IsFiniteSet(ToPass(n)) /\ Cardinality(ToPass(n)) \in Nat)'
    BY ToPassIsFinite, PTL
  <2> QED
    BY <2>1
<1> QED
  BY <1>1, <1>2, <1>3 DEF Passed

(* c goes on with a call that is not counted yet. *)
LEMMA AtWorkKeeps ==
  ASSUME SyscallsInv, WhoInv, WhoInv', WhoCalled \subseteq WhoCalled', events' = events,
         NEW CONSTANT c \in Cpus, \A d \in Cpus : d # c => Waits(d), happened' = happened,
         todo[c] # <<Return(0)>>, Len(todo[c]) >= 2, StillAtWork(c)
  PROVE  SyscallsInv'
<1>1. Passed(2)' = Passed(2) /\ Passed(2) \in Int
  BY PassedNext, PassedAreInts DEF StillAtWork, WhoInv, Waits
<1>2. \A t, id : CallsSoFar(t, id)' = CallsSoFar(t, id)
  <2> SUFFICES ASSUME NEW CONSTANT t, NEW CONSTANT id
               PROVE  CallsSoFar(t, id)' = CallsSoFar(t, id)
    OBVIOUS
  <2>1. Times(<<t, id>>)' = Times(<<t, id>>)
    BY DEF Times
  <2> QED
    BY <2>1, SoFarStill DEF StillAtWork
<1> QED
  BY <1>1, <1>2, EntriesStill DEF StillAtWork

(* The store, or the exception in its stead, is passed. *)
LEMMA StoresPasses ==
  ASSUME WhoInv, events' = events, NEW CONSTANT c \in Cpus, \A d \in Cpus : d # c => Waits(d),
         Len(todo[c]) >= 2, todo'[c] = <<Return(0)>>
  PROVE  Passed(2)' = Passed(2) + 1
<1>1. ~(Len(todo'[c]) >= 2)
  <2>1. Len(<<Return(0)>>) = 1
    OBVIOUS
  <2> QED
    BY <2>1
<1> QED
  BY <1>1, PassedNext DEF WhoInv, Waits

(* There is no entry for the call. *)
LEMMA GivesUpKeeps ==
  ASSUME SyscallsInv, WhoInv, WhoInv', WhoCalled \subseteq WhoCalled', events' = events,
         NEW CONSTANT c \in Cpus, \A d \in Cpus : d # c => Waits(d), happened' = happened,
         todo[c] # <<Return(0)>>, Len(todo[c]) >= 2, NEW CONSTANT id, GivesUp(c, id),
         Tells(env'[c], "ctx.id", id)
  PROVE  SyscallsInv'
<1>1. todo'[c] = <<Return(0)>>
  BY DEF GivesUp
<1>2. Passed(2)' = Passed(2) + 1 /\ Passed(2) \in Int
  BY <1>1, StoresPasses, PassedAreInts
<1>3. \A t, jd : Has(Invocations, jd) => CallsSoFar(t, jd)' = CallsSoFar(t, jd)
  <2> SUFFICES ASSUME NEW CONSTANT t, NEW CONSTANT jd, Has(Invocations, jd)
               PROVE  CallsSoFar(t, jd)' = CallsSoFar(t, jd)
    OBVIOUS
  <2>1. Times(<<t, jd>>)' = Times(<<t, jd>>)
    BY DEF Times
  <2>2. env'[c]["ctx.id"] # jd
    BY DEF GivesUp, Tells, Bound
  <2> QED
    BY <2>1, <2>2, SoFarStill
<1>4. CountPlace(todo'[c], env'[c], Invocations, Fitting)
  BY DEF GivesUp, CountPlace
<1> QED
  BY <1>2, <1>3, <1>4, EntriesStill DEF GivesUp

(***************************************************************************)
(* A count is stored.  If one thread makes all the calls, no other CPU has *)
(* read the entry before.                                                  *)
(***************************************************************************)
LEMMA PutsKeeps ==
  ASSUME MapsInv, SameMaps, program = "CountSyscalls",
         SyscallsInv, WhoInv, WhoInv', WhoCalled \subseteq WhoCalled', events' = events,
         NEW CONSTANT c \in Cpus, \A d \in Cpus : d # c => Waits(d), happened' = happened,
         todo[c] # <<Return(0)>>, Len(todo[c]) >= 2, NEW CONSTANT id, PutsCount(c, id),
         Tells(env'[c], "ctx.id", id)
  PROVE  SyscallsInv'
<1>1. PICK x : /\ <<x, id>> \in Fitting
               /\ maps' = [maps EXCEPT ![Invoked] = Update(Invocations, c, id, x + 1, "BPF_ANY")]
  BY DEF PutsCount
<1> DEFINE n == Update(Invocations, c, id, x + 1, "BPF_ANY")
<1>2. Invoked \in DOMAIN maps
  BY UnlockedAre DEF SameMaps, Invoked
<1>3. MapInv(Invocations)
  BY <1>2 DEF MapsInv, Invocations
<1>4. /\ IsArrayOf(n, 335) /\ At(n, id) = x + 1
      /\ \A l \in Keys : Has(Invocations, l) /\ l # id => At(n, l) = At(Invocations, l)
  <2>1. 335 \in Nat /\ IsArrayOf(Invocations, 335) /\ Has(Invocations, id)
    BY DEF SyscallsInv, PutsCount
  <2> QED
    BY <1>3, <2>1, ArrayStored
<1>5. Invocations' = n
  BY <1>1, <1>2 DEF Invocations
<1>6. \A jd : Has(n, jd) <=> Has(Invocations, jd)
  <2>1. 335 \in Nat /\ IsArrayOf(Invocations, 335)
    BY DEF SyscallsInv
  <2> HIDE DEF n
  <2>2. IsArrayOf(n, 335)
    BY <1>4
  <2> DEFINE size == 335
  <2>3. size \in Nat /\ IsArrayOf(n, size) /\ IsArrayOf(Invocations, size)
    BY <2>1, <2>2
  <2> HIDE DEF size
  <2>4. \A jd : Has(n, jd) <=> jd \in Keys /\ jd \in 0 .. size - 1
    BY <2>3, ArrayHas
  <2>5. \A jd : Has(Invocations, jd) <=> jd \in Keys /\ jd \in 0 .. size - 1
    BY <2>3, ArrayHas
  <2> QED
    BY <2>4, <2>5
<1> HIDE DEF n
<1>7. Passed(2)' = Passed(2) + 1 /\ Passed(2) \in Int
  <2>1. todo'[c] = <<Return(0)>>
    BY DEF PutsCount
  <2> QED
    BY <2>1, StoresPasses, PassedAreInts
<1>8. \A t, jd : Times(<<t, jd>>)' = Times(<<t, jd>>)
  BY DEF Times
<1>9. ASSUME NEW CONSTANT jd, jd # id \/ ~OneCaller'
      PROVE  \A y : <<y, jd>> \in Fitting => <<y, jd>> \in Fitting'
  <2>1. \A t \in Pids : WhoCalled' \subseteq {t} => CallsSoFar(t, jd)' = CallsSoFar(t, jd)
    <3>1. CASE jd # id
      <4>1. env'[c]["ctx.id"] # jd
        BY <3>1 DEF Tells, Bound
      <4> QED
        BY <4>1, <1>8, SoFarStill
    <3>2. CASE ~OneCaller'
      BY <3>2 DEF OneCaller
    <3> QED
      BY <1>9, <3>1, <3>2
  <2> QED
    BY <1>7, <2>1, FitsStill
<1>10. <<x + 1, id>> \in Fitting'
  <2>1. x \in Nat /\ id \in Keys /\ Fits(x, id)
    BY <1>1 DEF Fitting
  <2>2. x + 1 <= Passed(2)'
    BY <1>7, <2>1 DEF Fits
  <2>3. ASSUME NEW CONSTANT t \in Pids, WhoCalled' \subseteq {t}
        PROVE  x + 1 = CallsSoFar(t, id)'
    <3>1. OneCaller /\ WhoCalled \subseteq {t}
      BY <2>3 DEF OneCaller
    <3>2. todo[c] # <<>>
      OBVIOUS
    <3>3. \A d \in Cpus : d # c => todo[d] = <<>>
      BY <3>1, <3>2, OneAtWork
    <3>4. ~Returning(id)
      <4>1. <<>> # <<Return(0)>>
        OBVIOUS
      <4> QED
        BY <3>3, <4>1 DEF Returning
    <3>5. Returning(id)'
      BY DEF Returning, PutsCount, Tells, Bound
    <3>6. x = CallsSoFar(t, id)
      BY <2>1, <3>1 DEF Fits
    <3>7. x = Times(<<t, id>>) /\ CallsSoFar(t, id)' = Times(<<t, id>>)' + 1
      BY <2>1, <3>4, <3>5, <3>6 DEF CallsSoFar, Times, WhoInv
    <3> QED
      BY <1>8, <3>7
  <2>4. Fits(x + 1, id)'
    BY <2>2, <2>3 DEF Fits
  <2> QED
    BY <2>1, <2>4 DEF Fitting
<1>11. ASSUME NEW CONSTANT d \in Cpus  PROVE CountPlace(todo[d], env[d], Invocations, Fitting)'
  <2>1. CASE d = c
    BY <2>1 DEF CountPlace, PutsCount
  <2>2. CASE d # c /\ OneCaller'
    <3>1. OneCaller /\ todo[c] # <<>>
      BY <2>2, OneCallerBefore
    <3>2. todo[d] = <<>>
      BY <2>2, <3>1, OneAtWork
    <3>3. todo'[d] = <<>>
      BY <2>2, <3>2 DEF Waits
    <3> QED
      BY <3>3 DEF CountPlace
  <2>3. CASE d # c /\ ~OneCaller'
    <3>1. CountPlace(todo'[d], env'[d], Invocations, Fitting)
      BY <2>3 DEF Waits, SyscallsInv
    <3>2. \A y, jd : <<y, jd>> \in Fitting => <<y, jd>> \in Fitting'
      BY <1>9, <2>3
    <3>3. CountPlace(todo'[d], env'[d], n, Fitting')
      BY <1>6, <3>1, <3>2, CountPlaceKept
    <3> QED
      BY <1>5, <3>3
  <2> QED
    BY <2>1, <2>2, <2>3
<1>12. ASSUME NEW CONSTANT jd, Has(n, jd)  PROVE <<At(n, jd), jd>> \in Fitting'
  <2>1. CASE jd = id
    BY <1>4, <1>10, <2>1
  <2>2. CASE jd # id
    <3>1. Has(Invocations, jd) /\ jd \in Keys
      BY <1>6, <1>12 DEF Has
    <3>2. At(n, jd) = At(Invocations, jd)
      BY <1>4, <2>2, <3>1
    <3>3. <<At(Invocations, jd), jd>> \in Fitting
      BY <3>1 DEF SyscallsInv
    <3> QED
      BY <1>9, <2>2, <3>2, <3>3
  <2> QED
    BY <2>1, <2>2
<1>13. IsArrayOf(Invocations, 335)'
  BY <1>4, <1>5 DEF IsArrayOf
<1>14. \A jd : Has(Invocations, jd)' => <<At(Invocations, jd)', jd>> \in Fitting'
  BY <1>5, <1>12
<1> QED
  BY <1>11, <1>13, <1>14 DEF SyscallsInv

(* A call is over. *)
LEMMA SyscallOverKeeps ==
  ASSUME program = "CountSyscalls", OneEach,
         SyscallsInv, WhoInv, WhoInv', WhoCalled \subseteq WhoCalled', events' = events,
         NEW CONSTANT c \in Cpus, \A d \in Cpus : d # c => Waits(d), Statement(c), SyscallOver(c),
         NEW CONSTANT id, Bound(env[c], "ctx.id", id)
  PROVE  SyscallsInv'
<1>1. Passed(2)' = Passed(2) /\ Passed(2) \in Int
  <2>1. ~(Len(todo[c]) >= 2) /\ ~(Len(todo'[c]) >= 2)
    <3>1. Len(<<Return(0)>>) = 1 /\ Len(<<>>) = 0
      OBVIOUS
    <3> QED
      BY <3>1 DEF SyscallOver
  <2>2. Passed(2)' = Passed(2)
    BY <2>1, PassedNext DEF WhoInv, Waits
  <2> QED
    BY <2>2, PassedAreInts
<1>2. happened' = With(happened, <<thread[c], id>>, Times(<<thread[c], id>>) + 1)
  <2>1. Hook = "sys_enter" /\ Is(c, "return")
    BY UnlockedAre DEF Hook, SyscallOver, Is, IsIdle, Return
  <2>2. ReturnFromMain(c)
    BY <2>1, Dispatch DEF Is
  <2>3. Subject(c) = <<thread[c], id>>
    BY <2>1 DEF Subject, Bound
  <2> QED
    BY <2>2, <2>3 DEF ReturnFromMain
<1>3. todo[c] # <<>> /\ todo[c] = <<Return(0)>> /\ todo'[c] # <<Return(0)>>
  BY DEF SyscallOver
<1>4. thread[c] \in WhoCalled
  BY <1>3 DEF WhoCalled, WhoInv, Busy, IsIdle, Pids
<1>5. ASSUME NEW CONSTANT jd, NEW CONSTANT t \in Pids, WhoCalled' \subseteq {t}
      PROVE  CallsSoFar(t, jd)' = CallsSoFar(t, jd)
  <2>1. t = thread[c]
    BY <1>4, <1>5
  <2>2. CASE jd # id
    <3>1. Times(<<t, jd>>)' = Times(<<t, jd>>)
      BY <1>2, <2>2 DEF Times, With
    <3> QED
      BY <1>3, <2>2, <3>1, SoFarStill DEF Bound
  <2>3. CASE jd = id
    <3>1. Times(<<t, id>>)' = Times(<<t, id>>) + 1
      BY <1>2, <2>1 DEF Times, With
    <3>2. \A d \in Cpus : d # c => todo[d] = <<>>
      BY <1>3, <1>5, OneAtWork DEF OneCaller
    <3>3. Returning(id)
      BY <1>3 DEF Returning, Bound
    <3>4. ~Returning(id)'
      BY <1>3, <3>2 DEF Returning, Waits
    <3>5. Times(<<t, id>>) \in Nat
      BY DEF Times, WhoInv
    <3> QED
      BY <2>3, <3>1, <3>3, <3>4, <3>5 DEF CallsSoFar
  <2> QED
    BY <2>2, <2>3
<1>6. CountPlace(todo'[c], env'[c], Invocations, Fitting)
  BY DEF SyscallOver, CountPlace
<1> QED
  BY <1>1, <1>5, <1>6, EntriesStill DEF SyscallOver

LEMMA SyscallBegins ==
  ASSUME CountsFit, OneEach, program = "CountSyscalls", SyscallsInv, WhoInv, WhoInv',
         WhoCalled \subseteq WhoCalled', NEW CONSTANT d \in Cpus,
         SystemCall(d) \/ Receive(d) \/ Switch(d)
  PROVE  SyscallsInv'
<1>1. /\ maps' = maps /\ happened' = happened /\ events' = events + 1
      /\ todo[d] = <<>> /\ todo'[d] = SyscallProgram
      /\ \A c \in Cpus : c # d => Waits(c)
      /\ \E input \in Inputs[program] : \E n : env'[d] = With(input, "pid_tgid", n)
  BY UnlockedBegins, UnlockedAre, CountSyscallsIs DEF WhoInv, Unlocked
<1>i. PICK input \in Inputs["CountSyscalls"] : \E n : env'[d] = With(input, "pid_tgid", n)
  BY <1>1
<1>2. PICK n : env'[d] = With(input, "pid_tgid", n)
  BY <1>i
<1>3. Tells(env'[d], "ctx.id", input["ctx.id"])
  <2>1. Tells(input, "ctx.id", input["ctx.id"])
    BY DEF CountsFit, Tells, Bound
  <2> QED
    BY <1>2, <2>1, BoundWith DEF Tells
<1>4. CountPlace(todo'[d], env'[d], Invocations, Fitting)
  BY <1>1, <1>3 DEF CountPlace
<1>5. ~(Len(todo[d]) >= 2) /\ Len(todo'[d]) >= 2 /\ todo'[d] # <<Return(0)>>
      /\ todo[d] # <<Return(0)>>
  <2>1. Len(<<>>) = 0 /\ Len(SyscallProgram) = 5 /\ Len(<<Return(0)>>) = 1
    BY DEF SyscallProgram
  <2> QED
    BY <1>1, <2>1
<1>6. Passed(2)' = Passed(2) /\ Passed(2) \in Int
  <2>1. Passed(2)' = Passed(2)
    BY <1>1, <1>5, PassedNext DEF WhoInv, Waits
  <2> QED
    BY <2>1, PassedAreInts
<1>7. \A t, id : CallsSoFar(t, id)' = CallsSoFar(t, id)
  <2> SUFFICES ASSUME NEW CONSTANT t, NEW CONSTANT id
               PROVE  CallsSoFar(t, id)' = CallsSoFar(t, id)
    OBVIOUS
  <2>1. Times(<<t, id>>)' = Times(<<t, id>>)
    BY <1>1 DEF Times
  <2> QED
    BY <1>1, <1>5, <2>1, SoFarStill
<1> QED
  BY <1>1, <1>4, <1>6, <1>7, EntriesStill

LEMMA SyscallsNext ==
  ASSUME CountsFit, OneEach, MapsInv, SameMaps, program = "CountSyscalls", WhoInv, SyscallsInv,
         [NextC]_vars
  PROVE  WhoInv' /\ SyscallsInv'
<1>1. program' = program /\ program \in Unlocked
  BY NextOneEach DEF Unlocked
<1>2. CASE UNCHANGED vars \/ FirstKey \/ ListingStep
  <2>1. UNCHANGED <<program, maps, cpu, thread, history, events>>
    BY <1>2 DEF vars, FirstKey, ListingStep, PrintEntry, NextEntry, Loader
  <2>2. UNCHANGED <<maps, todo, env, thread, happened, events>>
    BY <2>1 DEF cpu, history
  <2>3. WhoInv'
    BY <1>1, <2>2 DEF WhoInv, NoneOnTwo
  <2>4. Fitting' = Fitting
    BY <2>2 DEF Fitting, Fits, Passed, ToPass, WhoCalled, Busy, IsIdle, CallsSoFar, Times, Returning
  <2>5. SyscallsInv'
    BY <2>2, <2>4 DEF SyscallsInv, Invocations
  <2> QED
    BY <2>3, <2>5
<1>3. ASSUME NEW CONSTANT d \in Cpus, SystemCall(d) \/ Receive(d) \/ Switch(d)
      PROVE  WhoInv' /\ SyscallsInv'
  <2>1. Examples[program].main # <<>>
    BY UnlockedAre, CountSyscallsIs DEF SyscallProgram
  <2>2. WhoInv' /\ WhoCalled \subseteq WhoCalled'
    BY <1>1, <1>3, <2>1, WhoBegins
  <2> QED
    BY <1>3, <2>2, SyscallBegins
<1>4. ASSUME NEW CONSTANT c \in Cpus, Statement(c)  PROVE WhoInv' /\ SyscallsInv'
  <2>1. PICK id : /\ Bound(env[c], "ctx.id", id)
                  /\ \/ /\ AtWorkOn(c, id) /\ Bound(env'[c], "ctx.id", id)
                        /\ StillAtWork(c) \/ GivesUp(c, id) \/ PutsCount(c, id)
                     \/ SyscallOver(c)
    BY <1>4, SyscallStatement DEF SyscallsInv
  <2>2. Head(todo[c]).op = "return" <=> todo'[c] = <<>>
    <3>1. <<Return(0)>> # <<>> /\ Head(<<Return(0)>>).op = "return"
      BY SyscallOps
    <3>2. CASE SyscallOver(c)
      BY <3>1, <3>2 DEF SyscallOver
    <3>3. CASE AtWorkOn(c, id) /\ (StillAtWork(c) \/ GivesUp(c, id) \/ PutsCount(c, id))
      BY <3>1, <3>3 DEF AtWorkOn, StillAtWork, GivesUp, PutsCount
    <3> QED
      BY <2>1, <3>2, <3>3
  <2>3. /\ WhoInv' /\ WhoCalled \subseteq WhoCalled' /\ events' = events
        /\ \A d \in Cpus : d # c => Waits(d)
    BY <1>1, <1>4, <2>2, WhoSteps
  <2>4. CASE SyscallOver(c)
    BY <1>4, <2>1, <2>3, <2>4, SyscallOverKeeps
  <2>5. CASE /\ AtWorkOn(c, id) /\ Bound(env'[c], "ctx.id", id)
             /\ StillAtWork(c) \/ GivesUp(c, id) \/ PutsCount(c, id)
    <3>1. happened' = happened
      BY <1>1, <1>4, <2>5, OnlyReturnsHappen DEF AtWorkOn
    <3>2. Tells(env'[c], "ctx.id", id)
      <4>1. Tells(env[c], "ctx.id", id)
        BY <2>1, <2>5, TellsId DEF SyscallsInv, AtWorkOn
      <4> QED
        BY <2>5, <4>1 DEF Tells
    <3>3. todo[c] # <<Return(0)>> /\ Len(todo[c]) >= 2
      BY <2>5 DEF AtWorkOn
    <3> QED
      BY <2>3, <2>5, <3>1, <3>2, <3>3, AtWorkKeeps, GivesUpKeeps, PutsKeeps
  <2> QED
    BY <2>1, <2>3, <2>4, <2>5
<1> QED
  BY <1>2, <1>3, <1>4 DEF NextC

(* What the invariant says when it matters. *)
LEMMA SyscallsCounted ==
  ASSUME WhoInv, SyscallsInv, NEW id \in Stored(Invocations)
  PROVE  /\ At(Invocations, id) <= events
         /\ Cardinality(WhoCalled) <= 1 /\ (\A t \in Threads : ~Busy(t)) =>
              At(Invocations, id) = CallsBy(id)
<1> DEFINE x == At(Invocations, id)
<1>1. x \in Nat /\ Fits(x, id)
  BY DEF SyscallsInv, Stored, Fitting
<1>2. x <= events
  BY <1>1, PassedIs DEF Fits, WhoInv
<1>3. ASSUME Cardinality(WhoCalled) <= 1, \A t \in Threads : ~Busy(t)
      PROVE  x = CallsBy(id)
  <2>1. PICK t \in Pids : WhoCalled \subseteq {t}
    BY <1>3, AloneIs DEF OneCaller
  <2>2. \A c \in Cpus : todo[c] = <<>>
    BY <1>3 DEF WhoInv, Busy, IsIdle, Pids
  <2>3. ~Returning(id)
    <3>1. <<>> # <<Return(0)>>
      OBVIOUS
    <3> QED
      BY <2>2, <3>1 DEF Returning
  <2>4. \A u : Times(<<u, id>>) \in Nat
    BY DEF Times, WhoInv
  <2>5. \A u : u # t \/ u \notin Threads => Times(<<u, id>>) = 0
    BY <2>1 DEF Times, WhoCalled, WhoInv
  <2>6. x = Times(<<t, id>>)
    BY <1>1, <2>1, <2>3, <2>4 DEF Fits, CallsSoFar
  <2>7. CallsBy(id) = IF t \in Threads THEN Times(<<t, id>>) ELSE 0
    <3>1. \A u \in Threads : Times(<<u, id>>) \in Int
      BY <2>4
    <3>2. \A u \in Threads : u # t => Times(<<u, id>>) = 0
      BY <2>5
    <3> QED
      BY <3>1, <3>2, CallsOfOne
  <2> QED
    BY <2>5, <2>6, <2>7
<1> QED
  BY <1>2, <1>3

-----------------------------------------------------------------------------
(***************************************************************************)
(* maps, from each of its statements on                                    *)
(***************************************************************************)
LookAt(i) == Lookup(Entry[i], MapOf(i), I(KeyOf(i)))
ComputeAt(i) == Compute("n", V(Entry[i]), "+", I(i))
StoreAt(i) == Store(MapOf(i), I(KeyOf(i)), V("n"), "BPF_ANY")

(* q is n pairs, of a's and b's elements in turn *)
ArePairs(q, n, a, b, S) ==
  /\ q \in Seq(S) /\ Len(q) = 2 * n
  /\ \A i \in 1 .. n : q[2 * i - 1] = a[i] /\ q[2 * i] = b[i]

(* A pair more, and so FlattenSeq of a list of pairs. *)
LEMMA MorePairs ==
  ASSUME NEW n \in Nat, NEW a, NEW b, NEW S, NEW q, ArePairs(q, n, a, b, S),
         a[n + 1] \in S, b[n + 1] \in S
  PROVE  ArePairs(q \o <<a[n + 1], b[n + 1]>>, n + 1, a, b, S)
<1> DEFINE m == n + 1
           p == <<a[m], b[m]>>
           r == q \o p
<1>1. p \in Seq(S) /\ Len(p) = 2 /\ p[1] = a[m] /\ p[2] = b[m]
  OBVIOUS
<1>2. q \in Seq(S) /\ Len(q) = 2 * n
  BY DEF ArePairs
<1> HIDE DEF p, m
<1>3. /\ r \in Seq(S) /\ Len(r) = 2 * n + 2
      /\ \A i \in 1 .. 2 * n + 2 : r[i] = IF i <= 2 * n THEN q[i] ELSE p[i - 2 * n]
  <2>1. /\ r \in Seq(S) /\ Len(r) = Len(q) + Len(p)
        /\ \A i \in 1 .. Len(q) + Len(p) : r[i] = IF i <= Len(q) THEN q[i] ELSE p[i - Len(q)]
    BY <1>1, <1>2, ConcatProperties
  <2> HIDE DEF r
  <2> QED
    BY <1>1, <1>2, <2>1
<1> HIDE DEF r
<1>4. ASSUME NEW i \in 1 .. m  PROVE r[2 * i - 1] = a[i] /\ r[2 * i] = b[i]
  <2>1. CASE i \in 1 .. n
    <3>1. q[2 * i - 1] = a[i] /\ q[2 * i] = b[i]
      BY <2>1 DEF ArePairs
    <3>2. 2 * i - 1 \in 1 .. 2 * n + 2 /\ 2 * i \in 1 .. 2 * n + 2 /\ 2 * i <= 2 * n
      BY <2>1
    <3> QED
      BY <1>3, <3>1, <3>2
  <2>2. CASE i \notin 1 .. n
    <3>1. i = m /\ 2 * i = 2 * n + 2
      BY <2>2 DEF m
    <3>2. r[2 * n + 1] = p[1] /\ r[2 * n + 2] = p[2]
      BY <1>3
    <3> QED
      BY <1>1, <3>1, <3>2
  <2> QED
    BY <2>1, <2>2
<1> QED
  BY <1>3, <1>4 DEF ArePairs, r, p, m

LEMMA FlattenPairs ==
  ASSUME NEW n \in Nat \ {0}, NEW a, NEW b, NEW S, \A i \in 1 .. n : a[i] \in S /\ b[i] \in S
  PROVE  ArePairs(FlattenSeq([i \in 1 .. n |-> <<a[i], b[i]>>]), n, a, b, S)
<1> DEFINE seqs == [i \in 1 .. n |-> <<a[i], b[i]>>]
<1>1. \A i \in 1 .. n : seqs[i] = <<a[i], b[i]>>
  OBVIOUS
<1>2. IsList(seqs, n)
  BY DEF IsList
<1> HIDE DEF seqs
<1>3. PICK parts : AreJoined(parts, seqs, n)
  BY <1>2, FlattenIs
<1> DEFINE Right == {k \in Nat : k + 1 \in 1 .. n => ArePairs(parts[k + 1], k + 1, a, b, S)}
<1>4. 0 \in Right
  <2>1. parts[1] = <<a[1], b[1]>> /\ a[1] \in S /\ b[1] \in S
    BY <1>1, <1>3 DEF AreJoined
  <2>2. ArePairs(<<a[1], b[1]>>, 1, a, b, S)
    <3> DEFINE p == <<a[1], b[1]>>
    <3>1. p \in Seq(S) /\ Len(p) = 2 * 1 /\ p[1] = a[1] /\ p[2] = b[1]
      BY <2>1
    <3> HIDE DEF p
    <3>2. \A i \in 1 .. 1 : p[2 * i - 1] = a[i] /\ p[2 * i] = b[i]
      BY <3>1
    <3> QED
      BY <3>1, <3>2 DEF ArePairs, p
  <2> QED
    BY <2>1, <2>2
<1>5. ASSUME NEW k \in Nat, k \in Right  PROVE k + 1 \in Right
  <2> SUFFICES ASSUME k + 2 \in 1 .. n  PROVE ArePairs(parts[k + 2], k + 2, a, b, S)
    OBVIOUS
  <2> DEFINE m == k + 1
  <2>1. m \in Nat /\ m \in 1 .. n /\ m + 1 \in 2 .. n /\ m + 1 \in 1 .. n /\ k + 2 = m + 1 /\ m + 1 - 1 = m
    OBVIOUS
  <2>2. ArePairs(parts[m], m, a, b, S)
    BY <1>5, <2>1
  <2> HIDE DEF m
  <2>3. parts[m + 1] = parts[m] \o <<a[m + 1], b[m + 1]>>
    <3>1. \A i \in 2 .. n : parts[i] = parts[i - 1] \o seqs[i]
      BY <1>3 DEF AreJoined
    <3> DEFINE i == m + 1
    <3>a. i \in 2 .. n /\ i - 1 = m
      BY <2>1
    <3> HIDE DEF i
    <3>b. parts[i] = parts[m] \o seqs[i]
      BY <3>1, <3>a
    <3>2. parts[m + 1] = parts[m] \o seqs[m + 1]
      BY <3>b DEF i
    <3> QED
      BY <1>1, <2>1, <3>2
  <2>4. ArePairs(parts[m + 1], m + 1, a, b, S)
    BY <2>1, <2>2, <2>3, MorePairs
  <2> QED
    BY <2>1, <2>4
<1>6. n - 1 \in Right
  <2> HIDE DEF Right
  <2> QED
    BY <1>4, <1>5, NatSetInduction
<1> QED
  BY <1>3, <1>6 DEF AreJoined, seqs

MapsStatements ==
  {LookAt(i) : i \in 1 .. 8} \cup {ComputeAt(i) : i \in 1 .. 8} \cup {StoreAt(i) : i \in 1 .. 8}
    \cup {Return(0)}

LEMMA MapsAre ==
  /\ Maps \in Seq(MapsStatements) /\ Len(Maps) = 25 /\ Maps[25] = Return(0)
  /\ \A i \in 1 .. 8 :
       Maps[i] = LookAt(i) /\ Maps[2 * i + 7] = ComputeAt(i) /\ Maps[2 * i + 8] = StoreAt(i)
<1> DEFINE T == MapsStatements
           a == [i \in 1 .. 8 |-> ComputeAt(i)]
           b == [i \in 1 .. 8 |-> StoreAt(i)]
           pairs == FlattenSeq([i \in 1 .. 8 |-> <<a[i], b[i]>>])
           first == LookUpEntries
           last == <<Return(0)>>
           both == first \o pairs
<1>1. \A i \in 1 .. 8 : LookAt(i) \in T /\ ComputeAt(i) \in T /\ StoreAt(i) \in T
  BY DEF MapsStatements
<1>2. Return(0) \in T
  BY DEF MapsStatements
<1>3. StoreEntries = pairs
  <2>1. \A i \in 1 .. 8 : AddEntry(i) = <<a[i], b[i]>>
    BY DEF AddEntry, ComputeAt, StoreAt
  <2>2. [i \in 1 .. 8 |-> AddEntry(i)] = [i \in 1 .. 8 |-> <<a[i], b[i]>>]
    BY <2>1
  <2> QED
    BY <2>2 DEF StoreEntries
<1> HIDE DEF T
<1>4. first \in Seq(T) /\ Len(first) = 8 /\ \A i \in 1 .. 8 : first[i] = LookAt(i)
  <2>1. first = [i \in 1 .. 8 |-> LookAt(i)]
    BY DEF LookUpEntries, LookAt
  <2> HIDE DEF first
  <2> QED
    BY <1>1, <2>1
<1>5. last \in Seq(T) /\ Len(last) = 1 /\ last[1] = Return(0)
  BY <1>2
<1>6. ArePairs(pairs, 8, a, b, T)
  <2>1. 8 \in Nat \ {0} /\ \A i \in 1 .. 8 : a[i] \in T /\ b[i] \in T
    BY <1>1
  <2> HIDE DEF a, b
  <2> QED
    BY <2>1, FlattenPairs
<1>7. /\ pairs \in Seq(T) /\ Len(pairs) = 16
      /\ \A i \in 1 .. 8 : pairs[2 * i - 1] = ComputeAt(i) /\ pairs[2 * i] = StoreAt(i)
  <2> HIDE DEF pairs
  <2> QED
    BY <1>6 DEF ArePairs
<1>8. Maps = both \o last
  BY <1>3 DEF Maps
<1> HIDE DEF pairs, first, last, a, b
<1>9. /\ both \in Seq(T) /\ Len(both) = 24
      /\ \A i \in 1 .. 24 : both[i] = IF i <= 8 THEN first[i] ELSE pairs[i - 8]
  <2>1. /\ both \in Seq(T) /\ Len(both) = Len(first) + Len(pairs)
        /\ \A i \in 1 .. Len(first) + Len(pairs) :
             both[i] = IF i <= Len(first) THEN first[i] ELSE pairs[i - Len(first)]
    BY <1>4, <1>7, ConcatProperties
  <2> HIDE DEF both
  <2> QED
    BY <1>4, <1>7, <2>1
<1> HIDE DEF both
<1>10. /\ Maps \in Seq(T) /\ Len(Maps) = 25
       /\ \A i \in 1 .. 25 : Maps[i] = IF i <= 24 THEN both[i] ELSE last[i - 24]
  <2> DEFINE all == both \o last
  <2>1. /\ all \in Seq(T) /\ Len(all) = Len(both) + Len(last)
        /\ \A i \in 1 .. Len(both) + Len(last) :
             all[i] = IF i <= Len(both) THEN both[i] ELSE last[i - Len(both)]
    BY <1>5, <1>9, ConcatProperties
  <2>2. Maps = all
    BY <1>8
  <2> HIDE DEF all
  <2> QED
    BY <1>5, <1>9, <2>1, <2>2
<1>11. Maps[25] = Return(0)
  BY <1>5, <1>10
<1>12. ASSUME NEW i \in 1 .. 8
       PROVE  Maps[i] = LookAt(i) /\ Maps[2 * i + 7] = ComputeAt(i) /\ Maps[2 * i + 8] = StoreAt(i)
  <2>1. Maps[i] = LookAt(i)
    <3>1. i \in 1 .. 25 /\ i \in 1 .. 24 /\ i <= 24 /\ i <= 8
      OBVIOUS
    <3>2. Maps[i] = both[i]
      BY <1>10, <3>1
    <3>3. both[i] = first[i]
      BY <1>9, <3>1
    <3> QED
      BY <1>4, <3>2, <3>3
  <2>2. Maps[2 * i + 7] = pairs[2 * i - 1] /\ Maps[2 * i + 8] = pairs[2 * i]
    <3>1. 2 * i + 7 \in 9 .. 24 /\ 2 * i + 8 \in 9 .. 24
      OBVIOUS
    <3>2. ASSUME NEW k \in 9 .. 24  PROVE Maps[k] = pairs[k - 8]
      <4>1. k \in 1 .. 25 /\ k \in 1 .. 24 /\ k <= 24 /\ ~(k <= 8)
        OBVIOUS
      <4>2. Maps[k] = both[k]
        BY <1>10, <4>1
      <4>3. both[k] = pairs[k - 8]
        BY <1>9, <4>1
      <4> QED
        BY <4>2, <4>3
    <3>3. 2 * i + 7 - 8 = 2 * i - 1 /\ 2 * i + 8 - 8 = 2 * i
      OBVIOUS
    <3> QED
      BY <3>1, <3>2, <3>3
  <2> QED
    BY <1>7, <2>1, <2>2
<1> QED
  BY <1>10, <1>11, <1>12 DEF T

(* what is left from the k-th statement on *)
From(k) == SubSeq(Maps, k, 25)
FollowAt(k) == <<FollowOf(Entry[k], MapOf(k), KeyOf(k))>> \o From(k + 1)

LEMMA FromIs ==
  ASSUME NEW k \in 1 .. 25
  PROVE  /\ Head(From(k)) = Maps[k] /\ Tail(From(k)) = From(k + 1) /\ Len(From(k)) = 26 - k
         /\ From(k) # <<>> /\ From(1) = Maps /\ From(26) = <<>>
<1> DEFINE all == Maps
           T == MapsStatements
<1>1. all \in Seq(T) /\ Len(all) = 25
  BY MapsAre
<1> HIDE DEF all, T
<1>2. k \in 1 .. Len(all) /\ 25 \in k .. Len(all)
  BY <1>1
<1>3. Head(SubSeq(all, k, 25)) = all[k] /\ Tail(SubSeq(all, k, 25)) = SubSeq(all, k + 1, 25)
  BY <1>1, <1>2, HeadTailOfSubSeq
<1>4. SubSeq(all, 1, 25) = all
  <2>1. SubSeq(all, 1, Len(all)) = all
    BY <1>1, SubSeqFull
  <2> QED
    BY <1>1, <2>1
<1>5. SubSeq(all, 26, 25) = <<>>
  <2>1. 26 \in Int /\ 25 \in Int /\ 25 < 26
    OBVIOUS
  <2> QED
    BY <2>1, SubSeqEmpty
<1>6. Len(SubSeq(all, k, 25)) = 26 - k
  <2>1. ASSUME NEW i \in k .. 25  PROVE all[i] \in T
    <3>1. i \in 1 .. Len(all)
      BY <1>1
    <3> QED
      BY <1>1, <3>1, ElementOfSeq
  <2>2. k \in Int /\ 25 \in Int
    OBVIOUS
  <2>3. Len(SubSeq(all, k, 25)) = IF k <= 25 THEN 25 - k + 1 ELSE 0
    BY <2>1, <2>2, SubSeqProperties
  <2> QED
    BY <2>3
<1>7. SubSeq(all, k, 25) # <<>>
  <2>1. Len(<<>>) = 0 /\ 26 - k # 0
    OBVIOUS
  <2> DEFINE q == SubSeq(all, k, 25)
  <2>2. Len(q) = 26 - k
    BY <1>6
  <2> HIDE DEF q
  <2>3. q # <<>>
    BY <2>1, <2>2
  <2> QED
    BY <2>3 DEF q
<1> QED
  BY <1>3, <1>4, <1>5, <1>6, <1>7 DEF all, From

LEMMA FollowAtIs ==
  ASSUME NEW k \in 1 .. 8
  PROVE  /\ Head(FollowAt(k)) = FollowOf(Entry[k], MapOf(k), KeyOf(k))
         /\ Tail(FollowAt(k)) = From(k + 1) /\ Len(FollowAt(k)) = 26 - k /\ FollowAt(k) # <<>>
<1> DEFINE q == From(k + 1)
           s == FollowOf(Entry[k], MapOf(k), KeyOf(k))
<1>0. k + 1 \in 1 .. 25 /\ 26 - (k + 1) = 25 - k
  OBVIOUS
<1>1. Len(q) = 25 - k
  BY <1>0, FromIs
<1>2. IsSeq(q)
  <2> DEFINE all == Maps
             T == MapsStatements
  <2>1. all \in Seq(T) /\ Len(all) = 25
    BY MapsAre
  <2> HIDE DEF all, T
  <2>2. ASSUME NEW i \in k + 1 .. 25  PROVE all[i] \in T
    <3>1. i \in 1 .. Len(all)
      BY <2>1
    <3> QED
      BY <2>1, <3>1, ElementOfSeq
  <2>3. k + 1 \in Int /\ 25 \in Int
    OBVIOUS
  <2>4. SubSeq(all, k + 1, 25) \in Seq(T)
    BY <2>2, <2>3, SubSeqProperties
  <2> QED
    BY <2>4 DEF IsSeq, From, all
<1> HIDE DEF q, s
<1>3. <<s>> \o q # <<>> /\ Head(<<s>> \o q) = s /\ Tail(<<s>> \o q) = q
  BY <1>2, OneThen
<1>4. Len(<<s>> \o q) = 1 + Len(q)
  <2>1. PICK T : q \in Seq(T)
    BY <1>2 DEF IsSeq
  <2> DEFINE W == T \cup {s}
  <2>2. q \in Seq(W) /\ <<s>> \in Seq(W) /\ Len(<<s>>) = 1
    BY <2>1
  <2> HIDE DEF W
  <2> QED
    BY <2>2, ConcatProperties
<1> QED
  BY <1>1, <1>3, <1>4 DEF FollowAt, q, s

(* entry i, and how many statements are left when it is to be stored *)
EntryOf(i) == At(maps[MapOf(i)], KeyOf(i))
Left(i) == 18 - 2 * i
SizeOf(i) == IF i = 8 THEN 5 ELSE 7

(***************************************************************************)
(* What entry i may be: i times no more than the calls that stored it, and *)
(* i times those if one thread makes them all.                             *)
(***************************************************************************)
IsTimesOf(x, i) ==
  \E j \in Nat : x = i * j /\ j <= Passed(Left(i)) /\ (OneCaller => j = Passed(Left(i)))
Adding == {p \in Nat \X (1 .. 8) : IsTimesOf(p[1], p[2])}

(* at the k-th statement *)
AtStatement(q, k) == q = From(k) \/ (k \in 1 .. 8 /\ q = FollowAt(k))

(* what was read there and is still to be stored *)
HasEntries(e, k, F) ==
  \A i \in 1 .. 8 :
    /\ i < k /\ k <= 2 * i + 8 => \E x : Bound(e, Entry[i], x) /\ <<x, i>> \in F
    /\ k = 2 * i + 8 => \E x : Bound(e, "n", x + i) /\ <<x, i>> \in F

MapsPlace(q, e, F) == q = <<>> \/ \E k \in 1 .. 25 : AtStatement(q, k) /\ HasEntries(e, k, F)

(* the entries of maps, and what each CPU read of them, are due *)
EntriesInv ==
  /\ \A i \in 1 .. 8 : IsArrayOf(maps[MapOf(i)], SizeOf(i)) /\ <<EntryOf(i), i>> \in Adding
  /\ \A c \in Cpus : MapsPlace(todo[c], env[c], Adding)

(* No two entries have one variable, nor one key of one map. *)
LEMMA EntriesApart ==
  \A i, j \in 1 .. 8 : Entry[i] # "n" /\ (Entry[i] = Entry[j] => i = j)
<1> SUFFICES ASSUME NEW i \in 1 .. 8, NEW j \in 1 .. 8
             PROVE  Entry[i] # "n" /\ (Entry[i] = Entry[j] => i = j)
  OBVIOUS
<1>1. /\ i = 1 \/ i = 2 \/ i = 3 \/ i = 4 \/ i = 5 \/ i = 6 \/ i = 7 \/ i = 8
      /\ j = 1 \/ j = 2 \/ j = 3 \/ j = 4 \/ j = 5 \/ j = 6 \/ j = 7 \/ j = 8
  OBVIOUS
<1>2. /\ Entry[1] = "entry_0" /\ Entry[2] = "entry_1" /\ Entry[3] = "entry_2" /\ Entry[4] = "entry_3"
      /\ Entry[5] = "entry_4" /\ Entry[6] = "entry_5" /\ Entry[7] = "entry_6" /\ Entry[8] = "entry_7"
  BY DEF Entry
<1> QED
  BY <1>1, <1>2

LEMMA SlotsApart ==
  \A i, j \in 1 .. 8 :
    /\ MapOf(i) = MapOf(j) /\ KeyOf(i) = KeyOf(j) => i = j
    /\ KeyOf(i) \in 0 .. SizeOf(i) - 1 /\ KeyOf(i) \in 0 .. 6 /\ SizeOf(i) \in Nat
    /\ MapOf(i) = MapOf(j) => SizeOf(i) = SizeOf(j)
  BY DEF MapOf, KeyOf, SizeOf

LEMMA SlotIs ==
  ASSUME CountsFit, NEW i \in 1 .. 8, IsArrayOf(maps[MapOf(i)], SizeOf(i))
  PROVE  /\ Has(maps[MapOf(i)], KeyOf(i)) /\ maps[MapOf(i)].element[KeyOf(i)] = KeyOf(i)
         /\ EntryOf(i) = maps[MapOf(i)].content[KeyOf(i)]
<1> DEFINE m == maps[MapOf(i)]
           k == KeyOf(i)
           size == SizeOf(i)
<1>1. k \in Keys /\ k \in 0 .. size - 1 /\ size \in Nat
  BY SlotsApart DEF CountsFit
<1>2. IsArrayOf(m, size)
  OBVIOUS
<1> HIDE DEF m, k, size
<1>3. Has(m, k) /\ m.element[k] = k /\ At(m, k) = m.content[k]
  BY <1>1, <1>2, ArrayHas
<1> QED
  BY <1>3 DEF m, k, EntryOf

LEMMA TimesIs ==
  ASSUME NEW i \in 1 .. 8, NEW j \in Nat
  PROVE  i * j \in Nat /\ i * j <= 8 * j /\ i * j + i = i * (j + 1)
<1>1. i = 1 \/ i = 2 \/ i = 3 \/ i = 4 \/ i = 5 \/ i = 6 \/ i = 7 \/ i = 8
  OBVIOUS
<1> QED
  BY <1>1

(* What is due fits an int, and so does what a call under way adds. *)
LEMMA AddingIs ==
  ASSUME CountsFit, program = "Maps", WhoInv, NEW i \in 1 .. 8, NEW x, <<x, i>> \in Adding
  PROVE  /\ x \in Nat /\ IsInt(x) /\ x <= i * events
         /\ \A c \in ToPass(Left(i)) : x + i \in Int /\ IsInt(x + i)
<1>1. PICK j \in Nat : x = i * j /\ j <= Passed(Left(i))
  BY DEF Adding, IsTimesOf
<1>2. events \in Nat /\ 8 * events <= INT_MAX /\ INT_MAX \in Nat
  BY GeneratedCAssumption DEF WhoInv, CountsFit
<1>3. Left(i) \in Int
  BY DEF Left
<1>4. /\ Passed(Left(i)) \in Int /\ Passed(Left(i)) <= events
      /\ \A c \in ToPass(Left(i)) : Passed(Left(i)) < events
  BY <1>2, <1>3, PassedIs
<1>5. j <= events
  BY <1>1, <1>2, <1>4
<1>6. x \in Nat /\ x <= 8 * j /\ x + i = i * (j + 1) /\ i * (j + 1) <= 8 * (j + 1)
      /\ i * (j + 1) \in Nat
  <2>1. j + 1 \in Nat
    OBVIOUS
  <2> QED
    BY <1>1, <2>1, TimesIs
<1>7. IsInt(x)
  BY <1>2, <1>5, <1>6 DEF IsInt
<1>8. ASSUME NEW c \in ToPass(Left(i))  PROVE x + i \in Int /\ IsInt(x + i)
  <2>1. j + 1 <= events
    BY <1>1, <1>2, <1>4
  <2> QED
    BY <1>2, <1>6, <2>1 DEF IsInt
<1>9. i * j <= i * events
  <2>1. i = 1 \/ i = 2 \/ i = 3 \/ i = 4 \/ i = 5 \/ i = 6 \/ i = 7 \/ i = 8
    OBVIOUS
  <2> QED
    BY <1>2, <1>5, <2>1
<1> QED
  BY <1>1, <1>6, <1>7, <1>8, <1>9

(* c's statement passes no store. *)
ReadsOn(c) ==
  /\ maps' = maps /\ todo'[c] # <<>> /\ Head(todo[c]).op # "return"
  /\ \A i \in 1 .. 8 : Len(todo'[c]) >= Left(i) <=> Len(todo[c]) >= Left(i)
  /\ MapsPlace(todo'[c], env'[c], Adding)

AddsTo(c, i) ==
  /\ Head(todo[c]).op # "return" /\ todo[c] = From(2 * i + 8) /\ todo'[c] = From(2 * i + 9)
  /\ env'[c] = env[c] /\ HasEntries(env[c], 2 * i + 8, Adding)
  /\ \E x : /\ <<x, i>> \in Adding
            /\ maps' = [maps EXCEPT ![MapOf(i)] =
                          Update(maps[MapOf(i)], c, KeyOf(i), x + i, "BPF_ANY")]

AddedAll(c) == maps' = maps /\ todo[c] = From(25) /\ Head(todo[c]).op = "return" /\ todo'[c] = <<>>

LEMMA LeftAs ==
  ASSUME NEW k \in 1 .. 25, NEW i \in 1 .. 8, k # 2 * i + 8
  PROVE  26 - k >= Left(i) <=> 26 - (k + 1) >= Left(i)
  BY DEF Left

LEMMA AtLooks ==
  ASSUME CountsFit, OneEach, program = "Maps", WhoInv, EntriesInv, NEW c \in Cpus, Statement(c),
         NEW k \in 1 .. 8, todo[c] = From(k), HasEntries(env[c], k, Adding)
  PROVE  ReadsOn(c)
<1>0. k \in 1 .. 25
  OBVIOUS
<1>1. Head(todo[c]) = LookAt(k) /\ Tail(todo[c]) = From(k + 1) /\ Len(todo[c]) = 26 - k
  BY <1>0, FromIs, MapsAre
<1>2. Head(todo[c]) = Lookup(Entry[k], MapOf(k), I(KeyOf(k))) /\ Head(todo[c]).op # "return"
  BY <1>1 DEF LookAt, Lookup
<1>3. Value(c, I(KeyOf(k))) = KeyOf(k)
  BY ValueOf
<1>4. /\ Has(maps[MapOf(k)], KeyOf(k)) /\ maps[MapOf(k)].element[KeyOf(k)] = KeyOf(k)
  BY SlotIs DEF EntriesInv
<1>5. /\ Becomes(c, <<FollowOf(Entry[k], MapOf(k), KeyOf(k))>> \o Tail(todo[c]), env[c], result[c])
      /\ maps' = maps
  BY <1>2, <1>3, <1>4, OfLookup
<1>6. todo'[c] = FollowAt(k) /\ env'[c] = env[c]
  BY <1>1, <1>5 DEF Becomes, FollowAt
<1>7. Len(todo'[c]) = 26 - k /\ todo'[c] # <<>>
  BY <1>6, FollowAtIs
<1>8. k \in 1 .. 25 /\ HasEntries(env'[c], k, Adding) /\ AtStatement(todo'[c], k)
  <2>1. AtStatement(todo'[c], k)
    BY <1>6 DEF AtStatement
  <2>2. HasEntries(env'[c], k, Adding)
    BY <1>6
  <2> QED
    BY <1>0, <2>1, <2>2
<1>9. MapsPlace(todo'[c], env'[c], Adding)
  BY <1>8 DEF MapsPlace
<1> QED
  BY <1>1, <1>2, <1>5, <1>7, <1>9 DEF ReadsOn

LEMMA AtFollows ==
  ASSUME CountsFit, OneEach, program = "Maps", WhoInv, EntriesInv, NEW c \in Cpus, Statement(c),
         NEW k \in 1 .. 8, todo[c] = FollowAt(k), HasEntries(env[c], k, Adding)
  PROVE  ReadsOn(c)
<1> DEFINE x == EntryOf(k)
<1>1. /\ Head(todo[c]) = FollowOf(Entry[k], MapOf(k), KeyOf(k))
      /\ Tail(todo[c]) = From(k + 1) /\ Len(todo[c]) = 26 - k
  BY FollowAtIs
<1>2. Head(todo[c]).op # "return"
  BY <1>1 DEF FollowOf
<1>3. x = maps[MapOf(k)].content[KeyOf(k)] /\ <<x, k>> \in Adding
  BY SlotIs DEF EntriesInv
<1> HIDE DEF x
<1>4. Wrap(x) = x
  BY <1>3, AddingIs, WrapOfInt
<1>5. Becomes(c, Tail(todo[c]), With(env[c], Entry[k], x), result[c]) /\ maps' = maps
  BY <1>1, <1>3, <1>4, OfFollow
<1>6. todo'[c] = From(k + 1) /\ env'[c] = With(env[c], Entry[k], x)
  BY <1>1, <1>5 DEF Becomes
<1>k. k + 1 \in 1 .. 25
  OBVIOUS
<1>7. Len(todo'[c]) = 26 - (k + 1) /\ todo'[c] # <<>>
  BY <1>6, <1>k, FromIs
<1>8. \A i \in 1 .. 8 : Len(todo'[c]) >= Left(i) <=> Len(todo[c]) >= Left(i)
  <2> SUFFICES ASSUME NEW i \in 1 .. 8
               PROVE  Len(todo'[c]) >= Left(i) <=> Len(todo[c]) >= Left(i)
    OBVIOUS
  <2>1. k \in 1 .. 25 /\ k # 2 * i + 8
    OBVIOUS
  <2>2. 26 - k >= Left(i) <=> 26 - (k + 1) >= Left(i)
    BY <2>1, LeftAs
  <2> QED
    BY <1>1, <1>7, <2>2
<1>9. HasEntries(env'[c], k + 1, Adding)
  <2> SUFFICES ASSUME NEW i \in 1 .. 8
               PROVE  /\ i < k + 1 => \E y : Bound(env'[c], Entry[i], y) /\ <<y, i>> \in Adding
                      /\ k + 1 # 2 * i + 8
    BY DEF HasEntries
  <2>1. CASE i = k
    BY <1>3, <1>6, <2>1, BoundWith
  <2>2. CASE i < k
    <3>2. k <= 2 * i + 8
      OBVIOUS
    <3>3. PICK y : Bound(env[c], Entry[i], y) /\ <<y, i>> \in Adding
      BY <2>2, <3>2 DEF HasEntries
    <3>4. Entry[i] # Entry[k]
      BY <2>2, EntriesApart
    <3> QED
      BY <1>6, <3>3, <3>4, BoundWith
  <2>3. k + 1 # 2 * i + 8
    OBVIOUS
  <2>4. i < k + 1 => i = k \/ i < k
    OBVIOUS
  <2> QED
    BY <2>1, <2>2, <2>3, <2>4
<1>10. MapsPlace(todo'[c], env'[c], Adding)
  BY <1>6, <1>9, <1>k DEF MapsPlace, AtStatement
<1> QED
  BY <1>2, <1>5, <1>7, <1>8, <1>10 DEF ReadsOn

LEMMA AtComputes ==
  ASSUME CountsFit, OneEach, program = "Maps", WhoInv, EntriesInv, NEW c \in Cpus, Statement(c),
         NEW i \in 1 .. 8, todo[c] = From(2 * i + 7), HasEntries(env[c], 2 * i + 7, Adding)
  PROVE  ReadsOn(c)
<1> DEFINE k == 2 * i + 7
<1>1. k \in 1 .. 25 /\ k + 1 \in 1 .. 25 /\ i < k /\ k <= 2 * i + 8 /\ k + 1 = 2 * i + 8
  OBVIOUS
<1>e. todo[c] = From(k) /\ HasEntries(env[c], k, Adding) /\ Maps[k] = ComputeAt(i)
  BY MapsAre
<1> HIDE DEF k
<1>2. Head(todo[c]) = ComputeAt(i) /\ Tail(todo[c]) = From(k + 1) /\ Len(todo[c]) = 26 - k
  BY <1>1, <1>e, FromIs
<1>3. /\ Head(todo[c]) = Compute("n", V(Entry[i]), "+", I(i)) /\ Head(todo[c]).op # "return"
  BY <1>2 DEF ComputeAt, Compute
<1>4. PICK x : Bound(env[c], Entry[i], x) /\ <<x, i>> \in Adding
  BY <1>1, <1>e DEF HasEntries
<1>5. c \in ToPass(Left(i))
  <2>1. 26 - k >= Left(i)
    BY <1>1 DEF Left
  <2> QED
    BY <1>2, <2>1 DEF ToPass
<1>6. x + i \in Int /\ IsInt(x + i)
  BY <1>4, <1>5, AddingIs
<1>7. Apply(Value(c, V(Entry[i])), "+", Value(c, I(i))) = x + i
  <2>1. Value(c, V(Entry[i])) = x /\ Value(c, I(i)) = i
    BY <1>4, ValueBound, ValueOf
  <2> QED
    BY <2>1 DEF Apply
<1>8. Becomes(c, Tail(todo[c]), With(env[c], "n", x + i), result[c])
  BY <1>3, <1>6, <1>7, ComputesTo
<1>m. maps' = maps
  BY <1>3, OfCompute
<1>9. todo'[c] = From(k + 1) /\ env'[c] = With(env[c], "n", x + i)
  BY <1>2, <1>8 DEF Becomes
<1>10. Len(todo'[c]) = 26 - (k + 1) /\ todo'[c] # <<>>
  BY <1>1, <1>9, FromIs
<1>11. \A j \in 1 .. 8 : Len(todo'[c]) >= Left(j) <=> Len(todo[c]) >= Left(j)
  <2> SUFFICES ASSUME NEW j \in 1 .. 8
               PROVE  Len(todo'[c]) >= Left(j) <=> Len(todo[c]) >= Left(j)
    OBVIOUS
  <2>1. k # 2 * j + 8
    BY <1>1
  <2>2. 26 - k >= Left(j) <=> 26 - (k + 1) >= Left(j)
    BY <1>1, <2>1, LeftAs
  <2> QED
    BY <1>2, <1>10, <2>2
<1>12. HasEntries(env'[c], k + 1, Adding)
  <2> SUFFICES ASSUME NEW j \in 1 .. 8
               PROVE  /\ j < k + 1 /\ k + 1 <= 2 * j + 8 =>
                           \E y : Bound(env'[c], Entry[j], y) /\ <<y, j>> \in Adding
                      /\ k + 1 = 2 * j + 8 => \E y : Bound(env'[c], "n", y + j) /\ <<y, j>> \in Adding
    BY DEF HasEntries
  <2>1. ASSUME j < k + 1, k + 1 <= 2 * j + 8
        PROVE  \E y : Bound(env'[c], Entry[j], y) /\ <<y, j>> \in Adding
    <3>1. j < k /\ k <= 2 * j + 8
      BY <1>1, <2>1
    <3>2. PICK y : Bound(env[c], Entry[j], y) /\ <<y, j>> \in Adding
      BY <1>e, <3>1 DEF HasEntries
    <3>3. Entry[j] # "n"
      BY EntriesApart
    <3> QED
      BY <1>9, <3>2, <3>3, BoundWith
  <2>2. ASSUME k + 1 = 2 * j + 8  PROVE \E y : Bound(env'[c], "n", y + j) /\ <<y, j>> \in Adding
    <3>1. j = i
      BY <1>1, <2>2
    <3> QED
      BY <1>4, <1>9, <3>1, BoundWith
  <2> QED
    BY <2>1, <2>2
<1>13. MapsPlace(todo'[c], env'[c], Adding)
  BY <1>1, <1>9, <1>12 DEF MapsPlace, AtStatement
<1> QED
  BY <1>3, <1>m, <1>10, <1>11, <1>13 DEF ReadsOn

LEMMA AtStores ==
  ASSUME CountsFit, OneEach, program = "Maps", WhoInv, EntriesInv, NEW c \in Cpus, Statement(c),
         NEW i \in 1 .. 8, todo[c] = From(2 * i + 8), HasEntries(env[c], 2 * i + 8, Adding)
  PROVE  AddsTo(c, i)
<1> DEFINE k == 2 * i + 8
<1>1. k \in 1 .. 25 /\ k + 1 = 2 * i + 9
  OBVIOUS
<1>e. todo[c] = From(k) /\ HasEntries(env[c], k, Adding) /\ Maps[k] = StoreAt(i)
  BY MapsAre
<1>2. PICK x : Bound(env[c], "n", x + i) /\ <<x, i>> \in Adding
  BY DEF HasEntries
<1> HIDE DEF k
<1>3. Head(todo[c]) = StoreAt(i) /\ Tail(todo[c]) = From(k + 1)
  BY <1>1, <1>e, FromIs
<1>4. /\ Head(todo[c]) = Store(MapOf(i), I(KeyOf(i)), V("n"), "BPF_ANY")
      /\ Head(todo[c]).op # "return"
  BY <1>3 DEF StoreAt, Store
<1>5. Value(c, I(KeyOf(i))) = KeyOf(i) /\ Value(c, V("n")) = x + i
  BY <1>2, ValueBound, ValueOf
<1>6. /\ Becomes(c, Tail(todo[c]), env[c], result[c])
      /\ maps' = [maps EXCEPT ![MapOf(i)] = Update(maps[MapOf(i)], c, KeyOf(i), x + i, "BPF_ANY")]
  BY <1>4, <1>5, OfStore
<1> QED
  BY <1>1, <1>2, <1>3, <1>4, <1>6 DEF AddsTo, Becomes

LEMMA AtEndOfMaps ==
  ASSUME OneEach, NEW c \in Cpus, Statement(c), todo[c] = From(25)
  PROVE  AddedAll(c)
<1>1. Head(todo[c]) = Return(0)
  <2>1. 25 \in 1 .. 25
    OBVIOUS
  <2>2. Head(From(25)) = Maps[25]
    BY <2>1, FromIs
  <2> QED
    BY <2>2, MapsAre
<1>2. Becomes(c, <<>>, NoVariables, NoResult) /\ maps' = maps
  BY <1>1, OfReturn
<1> QED
  BY <1>1, <1>2 DEF AddedAll, Becomes, Return

(* What a statement of maps may do. *)
LEMMA MapsStatement ==
  ASSUME CountsFit, OneEach, program = "Maps", WhoInv, EntriesInv, NEW c \in Cpus, Statement(c)
  PROVE  ReadsOn(c) \/ AddedAll(c) \/ \E i \in 1 .. 8 : AddsTo(c, i)
<1>1. todo[c] # <<>>
  BY Dispatch DEF IsIdle
<1>2. PICK k \in 1 .. 25 : AtStatement(todo[c], k) /\ HasEntries(env[c], k, Adding)
  BY <1>1 DEF EntriesInv, MapsPlace
<1>3. CASE k \in 1 .. 8
  BY <1>2, <1>3, AtLooks, AtFollows DEF AtStatement
<1>4. CASE k \in 9 .. 24
  <2>1. todo[c] = From(k)
    BY <1>2, <1>4 DEF AtStatement
  <2>2. \E i \in 1 .. 8 : k = 2 * i + 7 \/ k = 2 * i + 8
    <3>1. CASE k \in {9, 11, 13, 15, 17, 19, 21, 23}
      BY <3>1
    <3>2. CASE k \in {10, 12, 14, 16, 18, 20, 22, 24}
      BY <3>2
    <3> QED
      BY <1>4, <3>1, <3>2
  <2>3. PICK i \in 1 .. 8 : k = 2 * i + 7 \/ k = 2 * i + 8
    BY <2>2
  <2>4. CASE k = 2 * i + 7
    BY <1>2, <2>1, <2>4, AtComputes
  <2>5. CASE k = 2 * i + 8
    BY <1>2, <2>1, <2>5, AtStores
  <2> QED
    BY <2>3, <2>4, <2>5
<1>5. CASE k = 25
  BY <1>2, <1>5, AtEndOfMaps DEF AtStatement
<1> QED
  BY <1>3, <1>4, <1>5

LEMMA EntriesInit ==
  ASSUME CountsFit, Init, program = "Maps"
  PROVE  EntriesInv
<1>1. /\ todo = [c \in Cpus |-> <<>>] /\ events = 0
      /\ maps["Example_map"] = NewArray(7) /\ maps["Second_Example_map"] = NewArray(5)
  BY UnlockedAre DEF Init
<1>2. ASSUME NEW i \in 1 .. 8  PROVE IsArrayOf(maps[MapOf(i)], SizeOf(i)) /\ EntryOf(i) = 0
  <2>1. maps[MapOf(i)] = NewArray(SizeOf(i))
    BY <1>1 DEF MapOf, SizeOf
  <2>2. KeyOf(i) \in Keys /\ KeyOf(i) \in 0 .. SizeOf(i) - 1 /\ SizeOf(i) \in Nat
    BY SlotsApart DEF CountsFit
  <2> QED
    BY <2>1, <2>2, ArrayAtFirst DEF EntryOf
<1>3. ASSUME NEW i \in 1 .. 8  PROVE <<0, i>> \in Adding
  <2>1. Left(i) \in Int /\ Left(i) >= 2
    BY DEF Left
  <2>2. ToPass(Left(i)) = {}
    <3>1. Len(<<>>) = 0
      OBVIOUS
    <3> QED
      BY <1>1, <2>1, <3>1 DEF ToPass
  <2>3. Passed(Left(i)) = 0
    BY <1>1, <2>2, PassedIs
  <2>4. 0 = i * 0 /\ 0 \in Nat
    OBVIOUS
  <2> QED
    BY <2>3, <2>4 DEF Adding, IsTimesOf
<1>4. \A c \in Cpus : MapsPlace(todo[c], env[c], Adding)
  BY <1>1 DEF MapsPlace
<1> QED
  BY <1>2, <1>3, <1>4 DEF EntriesInv

(* What was due is, as long as the call of one thread does not pass the store. *)
LEMMA DueStill ==
  ASSUME WhoInv, WhoInv', WhoCalled \subseteq WhoCalled', NEW CONSTANT i \in 1 .. 8,
         Passed(Left(i)) <= Passed(Left(i))',
         OneCaller' => Passed(Left(i))' = Passed(Left(i))
  PROVE  \A x : <<x, i>> \in Adding => <<x, i>> \in Adding'
<1> SUFFICES ASSUME NEW CONSTANT x, <<x, i>> \in Adding  PROVE <<x, i>> \in Adding'
  OBVIOUS
<1>1. x \in Nat /\ IsTimesOf(x, i)
  BY DEF Adding
<1>2. PICK j \in Nat : /\ x = i * j /\ j <= Passed(Left(i))
                       /\ OneCaller => j = Passed(Left(i))
  BY <1>1 DEF IsTimesOf
<1>3. Passed(Left(i)) \in Int /\ Passed(Left(i))' \in Int
  BY PassedAreInts
<1>4. j <= Passed(Left(i))' /\ (OneCaller' => j = Passed(Left(i))')
  BY <1>2, <1>3, OneCallerBefore
<1>5. IsTimesOf(x, i)'
  BY <1>2, <1>4 DEF IsTimesOf
<1> QED
  BY <1>1, <1>5 DEF Adding

LEMMA MapsPlaceKept ==
  ASSUME NEW q, NEW e, NEW F, NEW G, MapsPlace(q, e, F),
         \A x, i : i \in 1 .. 8 /\ <<x, i>> \in F => <<x, i>> \in G
  PROVE  MapsPlace(q, e, G)
<1>1. ASSUME NEW k \in 1 .. 25, HasEntries(e, k, F)  PROVE HasEntries(e, k, G)
  BY <1>1 DEF HasEntries
<1> QED
  BY <1>1 DEF MapsPlace

(* A step that stores no entry. *)
LEMMA SameEntries ==
  ASSUME EntriesInv, WhoInv, WhoInv', WhoCalled \subseteq WhoCalled', maps' = maps,
         NEW CONSTANT c \in Cpus, \A d \in Cpus : d # c => Waits(d),
         \A i \in 1 .. 8 : Passed(Left(i))' = Passed(Left(i)),
         MapsPlace(todo'[c], env'[c], Adding)
  PROVE  EntriesInv'
<1>1. \A x, i : i \in 1 .. 8 /\ <<x, i>> \in Adding => <<x, i>> \in Adding'
  <2> SUFFICES ASSUME NEW CONSTANT i \in 1 .. 8
               PROVE  \A x : <<x, i>> \in Adding => <<x, i>> \in Adding'
    OBVIOUS
  <2>1. Passed(Left(i)) \in Int
    BY PassedAreInts
  <2> QED
    BY <2>1, DueStill
<1>2. ASSUME NEW CONSTANT d \in Cpus  PROVE MapsPlace(todo[d], env[d], Adding)'
  <2>1. MapsPlace(todo'[d], env'[d], Adding)
    BY DEF EntriesInv, Waits
  <2>2. MapsPlace(todo'[d], env'[d], Adding')
    BY <1>1, <2>1, MapsPlaceKept
  <2> QED
    BY <2>2
<1>3. ASSUME NEW CONSTANT i \in 1 .. 8
      PROVE  IsArrayOf(maps[MapOf(i)], SizeOf(i))' /\ <<EntryOf(i)', i>> \in Adding'
  <2>1. EntryOf(i)' = EntryOf(i)
    BY DEF EntryOf
  <2> QED
    BY <1>1, <2>1 DEF EntriesInv, IsArrayOf
<1> QED
  BY <1>2, <1>3 DEF EntriesInv

LEMMA ReadsKeep ==
  ASSUME EntriesInv, WhoInv, WhoInv', WhoCalled \subseteq WhoCalled', events' = events,
         NEW CONSTANT c \in Cpus, \A d \in Cpus : d # c => Waits(d), ReadsOn(c) \/ AddedAll(c)
  PROVE  EntriesInv'
<1>1. maps' = maps /\ MapsPlace(todo'[c], env'[c], Adding)
  BY DEF ReadsOn, AddedAll, MapsPlace
<1>2. ASSUME NEW CONSTANT i \in 1 .. 8
      PROVE  Len(todo'[c]) >= Left(i) <=> Len(todo[c]) >= Left(i)
  <2>1. CASE ReadsOn(c)
    BY <2>1 DEF ReadsOn
  <2>2. CASE AddedAll(c)
    <3>1. Left(i) \in Int /\ Left(i) >= 2
      BY DEF Left
    <3>2. 25 \in 1 .. 25 /\ 26 - 25 = 1
      OBVIOUS
    <3>3. Len(todo[c]) = 1 /\ Len(<<>>) = 0
      BY <2>2, <3>2, FromIs DEF AddedAll
    <3>4. ~(1 >= Left(i)) /\ ~(0 >= Left(i))
      BY <3>1
    <3>5. Len(todo[c]) = 1 /\ Len(todo'[c]) = 0
      BY <2>2, <3>3 DEF AddedAll
    <3> QED
      BY <3>4, <3>5
  <2> QED
    BY <2>1, <2>2
<1>3. \A i \in 1 .. 8 : Passed(Left(i))' = Passed(Left(i))
  <2> SUFFICES ASSUME NEW CONSTANT i \in 1 .. 8  PROVE Passed(Left(i))' = Passed(Left(i))
    OBVIOUS
  <2> QED
    BY <1>2, PassedNext DEF WhoInv, Waits
<1> QED
  BY <1>1, <1>3, SameEntries

LEMMA MapsBegins ==
  ASSUME CountsFit, OneEach, program = "Maps", EntriesInv, WhoInv, WhoInv',
         WhoCalled \subseteq WhoCalled', NEW CONSTANT d \in Cpus,
         SystemCall(d) \/ Receive(d) \/ Switch(d)
  PROVE  EntriesInv'
<1>1. /\ maps' = maps /\ events' = events + 1 /\ todo[d] = <<>> /\ todo'[d] = Maps
      /\ \A c \in Cpus : c # d => Waits(c)
  BY UnlockedBegins, UnlockedAre DEF WhoInv, Unlocked
<1>2. 1 \in 1 .. 25 /\ 26 - 1 = 25 /\ Len(<<>>) = 0
  OBVIOUS
<1>3. todo'[d] = From(1) /\ Len(todo'[d]) = 25
  BY <1>1, <1>2, FromIs
<1>4. MapsPlace(todo'[d], env'[d], Adding)
  <2>1. HasEntries(env'[d], 1, Adding)
    BY DEF HasEntries
  <2> QED
    BY <1>2, <1>3, <2>1 DEF MapsPlace, AtStatement
<1>5. \A i \in 1 .. 8 : Passed(Left(i))' = Passed(Left(i))
  <2> SUFFICES ASSUME NEW CONSTANT i \in 1 .. 8  PROVE Passed(Left(i))' = Passed(Left(i))
    OBVIOUS
  <2>1. Left(i) \in Int /\ Left(i) >= 2 /\ Left(i) <= 16
    BY DEF Left
  <2>2. ~(Len(todo[d]) >= Left(i)) /\ Len(todo'[d]) >= Left(i)
    <3>1. ~(0 >= Left(i)) /\ 25 >= Left(i)
      BY <2>1
    <3>2. Len(todo[d]) = 0
      BY <1>1, <1>2
    <3> QED
      BY <1>3, <3>1, <3>2
  <2> QED
    BY <1>1, <2>2, PassedNext DEF WhoInv, Waits
<1> QED
  BY <1>1, <1>4, <1>5, SameEntries

(***************************************************************************)
(* An entry is stored.  If one thread makes all the calls, no other CPU    *)
(* has read it before.                                                     *)
(***************************************************************************)
LEMMA AddsKeep ==
  ASSUME CountsFit, MapsInv, SameMaps, program = "Maps", EntriesInv, WhoInv, WhoInv',
         WhoCalled \subseteq WhoCalled', events' = events,
         NEW CONSTANT c \in Cpus, \A d \in Cpus : d # c => Waits(d),
         NEW CONSTANT i \in 1 .. 8, AddsTo(c, i)
  PROVE  EntriesInv'
<1>1. PICK x : /\ <<x, i>> \in Adding
               /\ maps' = [maps EXCEPT ![MapOf(i)] =
                             Update(maps[MapOf(i)], c, KeyOf(i), x + i, "BPF_ANY")]
  BY DEF AddsTo
<1> DEFINE m == maps[MapOf(i)]
           k == KeyOf(i)
           n == Update(m, c, k, x + i, "BPF_ANY")
<1>2. MapOf(i) \in DOMAIN maps
  BY UnlockedAre DEF SameMaps, MapOf
<1>3. MapInv(m)
  BY <1>2 DEF MapsInv
<1>4. /\ IsArrayOf(n, SizeOf(i)) /\ At(n, k) = x + i
      /\ \A l \in Keys : Has(m, l) /\ l # k => At(n, l) = At(m, l)
  <2>1. SizeOf(i) \in Nat /\ IsArrayOf(m, SizeOf(i)) /\ Has(m, k)
    BY SlotsApart, SlotIs DEF EntriesInv
  <2> QED
    BY <1>3, <2>1, ArrayStored
<1>5. maps'[MapOf(i)] = n /\ \A map : map # MapOf(i) => maps'[map] = maps[map]
  BY <1>1, <1>2 DEF MapsInv
<1> HIDE DEF n
<1>6. EntryOf(i)' = x + i
  BY <1>4, <1>5 DEF EntryOf
<1>7. ASSUME NEW CONSTANT j \in 1 .. 8, j # i  PROVE EntryOf(j)' = EntryOf(j)
  <2>1. CASE MapOf(j) = MapOf(i)
    <3>1. KeyOf(j) # k /\ KeyOf(j) \in Keys
      BY <1>7, <2>1, SlotsApart DEF CountsFit
    <3>2. Has(m, KeyOf(j))
      BY <2>1, SlotIs DEF EntriesInv
    <3> QED
      BY <1>4, <1>5, <2>1, <3>1, <3>2 DEF EntryOf
  <2>2. CASE MapOf(j) # MapOf(i)
    BY <1>5, <2>2 DEF EntryOf
  <2> QED
    BY <2>1, <2>2
<1>8. ASSUME NEW CONSTANT j \in 1 .. 8  PROVE IsArrayOf(maps[MapOf(j)], SizeOf(j))'
  <2>1. CASE MapOf(j) = MapOf(i)
    <3>1. maps'[MapOf(j)] = n /\ SizeOf(j) = SizeOf(i)
      BY <1>5, <2>1, SlotsApart
    <3> QED
      BY <1>4, <3>1 DEF IsArrayOf
  <2>2. CASE MapOf(j) # MapOf(i)
    <3>1. maps'[MapOf(j)] = maps[MapOf(j)]
      BY <1>5, <2>2
    <3> QED
      BY <3>1 DEF IsArrayOf, EntriesInv
  <2> QED
    BY <2>1, <2>2
<1> HIDE DEF m, k
<1>9. /\ 2 * i + 8 \in 1 .. 25 /\ 2 * i + 9 \in 1 .. 25 /\ 26 - (2 * i + 8) = Left(i)
      /\ 26 - (2 * i + 9) = Left(i) - 1 /\ Left(i) \in Int
  BY DEF Left
<1>10. Len(todo[c]) = Left(i) /\ Len(todo'[c]) = Left(i) - 1 /\ todo[c] # <<>>
  BY <1>9, FromIs DEF AddsTo
<1>11. Passed(Left(i))' = Passed(Left(i)) + 1 /\ Passed(Left(i)) \in Int
  <2>1. Len(todo[c]) >= Left(i) /\ ~(Len(todo'[c]) >= Left(i))
    BY <1>9, <1>10
  <2>2. Passed(Left(i))' = Passed(Left(i)) + 1
    BY <2>1, PassedNext DEF WhoInv, Waits
  <2> QED
    BY <2>2, PassedAreInts
<1>12. ASSUME NEW CONSTANT j \in 1 .. 8, j # i
       PROVE  Passed(Left(j))' = Passed(Left(j)) /\ Passed(Left(j)) \in Int
  <2>1. Left(i) >= Left(j) <=> Left(i) - 1 >= Left(j)
    BY <1>12 DEF Left
  <2>2. Len(todo'[c]) >= Left(j) <=> Len(todo[c]) >= Left(j)
    BY <1>10, <2>1
  <2>3. Passed(Left(j))' = Passed(Left(j))
    BY <2>2, PassedNext DEF WhoInv, Waits
  <2> QED
    BY <2>3, PassedAreInts
<1>13. ASSUME NEW CONSTANT j \in 1 .. 8, j # i \/ ~OneCaller'
       PROVE  \A y : <<y, j>> \in Adding => <<y, j>> \in Adding'
  <2>1. Passed(Left(j)) <= Passed(Left(j))' /\ (OneCaller' => Passed(Left(j))' = Passed(Left(j)))
    <3>1. CASE j # i
      BY <1>12, <3>1
    <3>2. CASE j = i /\ ~OneCaller'
      BY <1>11, <3>2
    <3> QED
      BY <1>13, <3>1, <3>2
  <2> QED
    BY <2>1, DueStill
<1>14. <<x + i, i>> \in Adding'
  <2>1. x \in Nat /\ IsTimesOf(x, i)
    BY <1>1 DEF Adding
  <2>2. PICK j \in Nat : /\ x = i * j /\ j <= Passed(Left(i))
                         /\ OneCaller => j = Passed(Left(i))
    BY <2>1 DEF IsTimesOf
  <2>3. j + 1 \in Nat /\ x + i = i * (j + 1) /\ x + i \in Nat
    <3>1. j + 1 \in Nat
      OBVIOUS
    <3> QED
      BY <2>2, <3>1, TimesIs
  <2>4. j + 1 <= Passed(Left(i))' /\ (OneCaller' => j + 1 = Passed(Left(i))')
    BY <1>11, <2>2, OneCallerBefore
  <2>5. IsTimesOf(x + i, i)'
    BY <2>3, <2>4 DEF IsTimesOf
  <2> QED
    BY <2>3, <2>5 DEF Adding
<1>15. ASSUME NEW CONSTANT d \in Cpus  PROVE MapsPlace(todo[d], env[d], Adding)'
  <2>1. CASE d = c
    <3>1. \A j \in 1 .. 8 : 2 * i + 9 <= 2 * j + 8 => j # i
      OBVIOUS
    <3>2. HasEntries(env[c], 2 * i + 8, Adding)
      BY DEF AddsTo
    <3>3. HasEntries(env[c], 2 * i + 9, Adding')
      <4> SUFFICES ASSUME NEW CONSTANT j \in 1 .. 8
                   PROVE  /\ j < 2 * i + 9 /\ 2 * i + 9 <= 2 * j + 8 =>
                               \E y : Bound(env[c], Entry[j], y) /\ <<y, j>> \in Adding'
                          /\ 2 * i + 9 # 2 * j + 8
        BY DEF HasEntries
      <4>1. 2 * i + 9 # 2 * j + 8
        OBVIOUS
      <4>2. ASSUME j < 2 * i + 9, 2 * i + 9 <= 2 * j + 8
            PROVE  \E y : Bound(env[c], Entry[j], y) /\ <<y, j>> \in Adding'
        <5>1. j < 2 * i + 8 /\ 2 * i + 8 <= 2 * j + 8 /\ j # i
          BY <4>2
        <5>2. PICK y : Bound(env[c], Entry[j], y) /\ <<y, j>> \in Adding
          BY <3>2, <5>1 DEF HasEntries
        <5> QED
          BY <1>13, <5>1, <5>2
      <4> QED
        BY <4>1, <4>2
    <3>4. todo'[c] = From(2 * i + 9) /\ env'[c] = env[c]
      BY DEF AddsTo
    <3> QED
      BY <1>9, <2>1, <3>3, <3>4 DEF MapsPlace, AtStatement
  <2>2. CASE d # c /\ OneCaller'
    <3>1. OneCaller
      BY <2>2, OneCallerBefore
    <3>2. todo[d] = <<>>
      BY <1>10, <2>2, <3>1, OneAtWork
    <3>3. todo'[d] = <<>>
      BY <2>2, <3>2 DEF Waits
    <3> QED
      BY <3>3 DEF MapsPlace
  <2>3. CASE d # c /\ ~OneCaller'
    <3>1. MapsPlace(todo'[d], env'[d], Adding)
      BY <2>3 DEF Waits, EntriesInv
    <3>2. \A y, j : j \in 1 .. 8 /\ <<y, j>> \in Adding => <<y, j>> \in Adding'
      BY <1>13, <2>3
    <3>3. MapsPlace(todo'[d], env'[d], Adding')
      BY <3>1, <3>2, MapsPlaceKept
    <3> QED
      BY <3>3
  <2> QED
    BY <2>1, <2>2, <2>3
<1>16. ASSUME NEW CONSTANT j \in 1 .. 8  PROVE <<EntryOf(j)', j>> \in Adding'
  <2>1. CASE j = i
    BY <1>6, <1>14, <2>1
  <2>2. CASE j # i
    <3>1. <<EntryOf(j), j>> \in Adding
      BY DEF EntriesInv
    <3> QED
      BY <1>7, <1>13, <2>2, <3>1
  <2> QED
    BY <2>1, <2>2
<1> QED
  BY <1>8, <1>15, <1>16 DEF EntriesInv

LEMMA EntriesNext ==
  ASSUME CountsFit, OneEach, MapsInv, SameMaps, program = "Maps", WhoInv, EntriesInv, [NextC]_vars
  PROVE  WhoInv' /\ EntriesInv'
<1>1. program' = program /\ program \in Unlocked
  BY NextOneEach DEF Unlocked
<1>2. CASE UNCHANGED vars \/ FirstKey \/ ListingStep
  <2>1. UNCHANGED <<program, maps, cpu, thread, history, events>>
    BY <1>2 DEF vars, FirstKey, ListingStep, PrintEntry, NextEntry, Loader
  <2>2. UNCHANGED <<maps, todo, env, thread, happened, events>>
    BY <2>1 DEF cpu, history
  <2>3. WhoInv'
    BY <1>1, <2>2 DEF WhoInv, NoneOnTwo
  <2>4. Adding' = Adding
    BY <2>2 DEF Adding, IsTimesOf, Passed, ToPass, OneCaller, WhoCalled, Busy, IsIdle
  <2>5. EntriesInv'
    BY <2>2, <2>4 DEF EntriesInv, EntryOf
  <2> QED
    BY <2>3, <2>5
<1>3. ASSUME NEW CONSTANT d \in Cpus, SystemCall(d) \/ Receive(d) \/ Switch(d)
      PROVE  WhoInv' /\ EntriesInv'
  <2>1. Examples[program].main # <<>>
    <3>1. 1 \in 1 .. 25
      OBVIOUS
    <3>2. Maps # <<>>
      BY <3>1, FromIs
    <3> QED
      BY <3>2, UnlockedAre
  <2>2. WhoInv' /\ WhoCalled \subseteq WhoCalled'
    BY <1>1, <1>3, <2>1, WhoBegins
  <2> QED
    BY <1>3, <2>2, MapsBegins
<1>4. ASSUME NEW CONSTANT c \in Cpus, Statement(c)  PROVE WhoInv' /\ EntriesInv'
  <2>1. ReadsOn(c) \/ AddedAll(c) \/ \E i \in 1 .. 8 : AddsTo(c, i)
    BY <1>4, MapsStatement
  <2>2. Head(todo[c]).op = "return" <=> todo'[c] = <<>>
    <3>1. \A i \in 1 .. 8 : 2 * i + 9 \in 1 .. 25
      OBVIOUS
    <3>2. \A i \in 1 .. 8 : From(2 * i + 9) # <<>>
      BY <3>1, FromIs
    <3> QED
      BY <2>1, <3>2 DEF ReadsOn, AddedAll, AddsTo
  <2>3. /\ WhoInv' /\ WhoCalled \subseteq WhoCalled' /\ events' = events
        /\ \A d \in Cpus : d # c => Waits(d)
    BY <1>1, <1>4, <2>2, WhoSteps
  <2>4. EntriesInv'
    BY <2>1, <2>3, ReadsKeep, AddsKeep
  <2> QED
    BY <2>3, <2>4
<1> QED
  BY <1>2, <1>3, <1>4 DEF NextC

LEMMA MultipleIs ==
  ASSUME NEW i \in 1 .. 8, NEW j \in Nat
  PROVE  (i * j) % i = 0
<1>1. j * i + 0 = i * j /\ i \in Nat /\ i > 0 /\ 0 \in 0 .. i - 1 /\ j \in Int
  OBVIOUS
<1>2. (j * i + 0) % i = 0
  BY <1>1, ModOfMultiple
<1> QED
  BY <1>1, <1>2

(* What the invariant says when it matters. *)
LEMMA MapsCounted ==
  ASSUME CountsFit, program = "Maps", WhoInv, EntriesInv, NEW i \in 1 .. 8
  PROVE  /\ EntryOf(i) % i = 0 /\ EntryOf(i) <= i * events
         /\ Cardinality(WhoCalled) <= 1 /\ (\A t \in Threads : ~Busy(t)) =>
              EntryOf(i) = i * events
<1> DEFINE x == EntryOf(i)
<1>1. <<x, i>> \in Adding
  BY DEF EntriesInv
<1> HIDE DEF x
<1>2. PICK j \in Nat : x = i * j /\ (OneCaller => j = Passed(Left(i)))
  BY <1>1 DEF Adding, IsTimesOf
<1>3. x % i = 0 /\ x <= i * events
  BY <1>1, <1>2, MultipleIs, AddingIs
<1>4. ASSUME Cardinality(WhoCalled) <= 1, \A t \in Threads : ~Busy(t)  PROVE x = i * events
  <2>1. OneCaller
    BY <1>4, AloneIs
  <2>2. Left(i) \in Nat \ {0}
    BY DEF Left
  <2>3. Passed(Left(i)) = events
    BY <1>4, <2>2, NobodyIsBusy, PassedIs DEF WhoInv
  <2> QED
    BY <1>2, <2>1, <2>3
<1> QED
  BY <1>3, <1>4 DEF x

(* every program's maps, and of the two what they hold *)
UnlockedInv ==
  /\ MapsInv /\ OneEach /\ SameMaps
  /\ program \in Unlocked => WhoInv
  /\ program = "CountSyscalls" => SyscallsInv
  /\ program = "Maps" => EntriesInv

(***************************************************************************)
(* Although maps and count_syscalls read an entry in one statement and     *)
(* store it in another, without a lock: while one thread makes all the     *)
(* calls, on whatever CPUs, every one of them is counted; and whoever      *)
(* makes them, no entry exceeds what the calls so far account for, and     *)
(* entry i of maps is i times a number of calls.                           *)
(***************************************************************************)
THEOREM UnlockedAreCounted ==
  ASSUME CountsFit
  PROVE  SpecC => []UnlockedCounts
<1>1. Init => UnlockedInv
  <2> SUFFICES ASSUME Init  PROVE UnlockedInv
    OBVIOUS
  <2>1. SameMaps
    BY GeneratedCAssumption DEF Init, SameMaps
  <2> QED
    BY <2>1, InitMaps, InitOneEach, WhoInit, SyscallsInit, EntriesInit DEF UnlockedInv
<1>2. UnlockedInv /\ [NextC]_vars => UnlockedInv'
  <2> SUFFICES ASSUME UnlockedInv, [NextC]_vars  PROVE UnlockedInv'
    OBVIOUS
  <2>1. MapsInv' /\ OneEach' /\ SameMaps' /\ program' = program
    BY NextMaps, NextOneEach, NextSameMaps DEF UnlockedInv
  <2>2. CASE program = "CountSyscalls"
    BY <2>1, <2>2, SyscallsNext DEF UnlockedInv, Unlocked
  <2>3. CASE program = "Maps"
    BY <2>1, <2>3, EntriesNext DEF UnlockedInv, Unlocked
  <2>4. CASE program \notin Unlocked
    BY <2>1, <2>4 DEF UnlockedInv, Unlocked
  <2> QED
    BY <2>2, <2>3, <2>4 DEF Unlocked
<1>3. UnlockedInv => UnlockedCounts
  <2> SUFFICES ASSUME UnlockedInv  PROVE UnlockedCounts
    OBVIOUS
  <2> DEFINE alone == Cardinality(WhoCalled) <= 1 /\ \A t \in Threads : ~Busy(t)
  <2>1. CASE program = "Maps"
    <3>1. \A i \in 1 .. 8 : /\ EntryOf(i) % i = 0 /\ EntryOf(i) <= i * events
                            /\ alone => EntryOf(i) = i * events
      BY <2>1, MapsCounted DEF UnlockedInv, Unlocked
    <3> HIDE DEF alone
    <3> QED
      BY <2>1, <3>1 DEF UnlockedCounts, EntryOf, alone
  <2>2. CASE program = "CountSyscalls"
    <3>1. \A id \in Stored(Invocations) :
            /\ At(Invocations, id) <= events
            /\ alone => At(Invocations, id) = CallsBy(id)
      BY <2>2, SyscallsCounted DEF UnlockedInv, Unlocked
    <3>2. \A id : CallsBy(id) = MapThenSumSet(LAMBDA t : Times(<<t, id>>), Threads)
      BY DEF CallsBy, MapThenSumSet, MapThenFoldSet
    <3> QED
      BY <2>2, <3>1, <3>2 DEF UnlockedCounts, Invocations, Invoked, MapThenSumSet, MapThenFoldSet
  <2>3. CASE program \notin Unlocked
    BY <2>3 DEF UnlockedCounts, Unlocked
  <2> QED
    BY <2>1, <2>2, <2>3 DEF Unlocked
<1> QED
  BY <1>1, <1>2, <1>3, PTL DEF SpecC
=============================================================================
