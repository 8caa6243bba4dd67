------------------------------ MODULE Examples ------------------------------
(***************************************************************************)
(* What the programs of examples/ promise, on the machine of GeneratedC.   *)
(* What a program means is taken from its Elixir source.                   *)
(***************************************************************************)
EXTENDS GeneratedC

Busy(t) == \E c \in Cpus : ~IsIdle(c) /\ thread[c] = t
Returns(c) == Is(c, "return")

-----------------------------------------------------------------------------
(***************************************************************************)
(* Counts per thread                                                       *)
(***************************************************************************)
CountedIn ==
  [read_count |-> {0, 17, 19}, write_count |-> {1, 18, 20},
   send_count |-> {44, 46, 307}, recv_count |-> {45, 47, 299},
   mmap_count |-> {9}, munmap_count |-> {11}, brk_count |-> {12}]

CallsOf(t, map) == MapThenSumSet(LAMBDA id : Times(<<t, id>>), CountedIn[map])
CountMaps == DOMAIN maps \cap DOMAIN CountedIn

(***************************************************************************)
(* disk_monitor, network_monitor and memory_monitor: whatever the threads  *)
(* of other CPUs do to the same maps, and wherever it runs itself, a       *)
(* thread's count is the number of its calls, unless its first one found   *)
(* the map full: then it is in the map never.                              *)
(***************************************************************************)
CountsAreExact ==
  \A map \in CountMaps, t \in Threads :
    ~Busy(t) =>
      IF Has(maps[map], t) THEN At(maps[map], t) = CallsOf(t, map)
      ELSE CallsOf(t, map) > 0 => Full(maps[map])

(* every call of t was counted *)
NothingLost(t) == \A map \in CountMaps : CallsOf(t, map) > 0 => Has(maps[map], t)

(***************************************************************************)
(* disk_monitor and network_monitor: a thread none of whose calls were     *)
(* lost has its alert raised if and only if its calls in both directions   *)
(* exceed the threshold, unless the map of the alerts is full without it.  *)
(***************************************************************************)
AlertIsDue ==
  "alert_flag" \in DOMAIN maps =>
    \A t \in Threads :
      LET calls == MapThenSumSet(LAMBDA map : CallsOf(t, map), CountMaps)
          alert == maps["alert_flag"]
      IN ~Busy(t) /\ NothingLost(t) /\ calls > 0 =>
           IF Has(alert, t) THEN (At(alert, t) = 1) = (calls > ALERT_THRESHOLD)
           ELSE Full(alert)

(***************************************************************************)
(* cpu_monitor: the time charged to a thread that is not being switched is *)
(* the time it has spent on CPUs before it last left one, modulo 2^32, for *)
(* all that the clock's 64 bits are cut to an int and the subtraction and  *)
(* the sum may overflow one.  A thread that ran when the program was       *)
(* attached is charged for the time since boot.  Pid 0, which every CPU    *)
(* runs at once, is left out.                                              *)
(***************************************************************************)
TimeIsExact ==
  program = "CpuMonitor" =>
    \A t \in Threads :
      (\A c \in Cpus : IsIdle(c) \/ (env[c]["ctx.prev_pid"] # t)) =>
        (At(maps["total_time"], t) - ran[t]) % WORD = 0

-----------------------------------------------------------------------------
(***************************************************************************)
(* Counts of an array                                                      *)
(***************************************************************************)
WhoCalled == {e[1] : e \in DOMAIN happened} \cup {t \in Threads : Busy(t)}

(***************************************************************************)
(* maps and count_syscalls add to shared elements without a lock.  While   *)
(* one thread makes all the calls nothing is lost, on whatever CPUs it     *)
(* runs; when several do, entry i is still i times some number of calls.   *)
(***************************************************************************)
UnlockedCounts ==
  LET alone == Cardinality(WhoCalled) <= 1 /\ \A t \in Threads : ~Busy(t) IN
    CASE program = "Maps" ->
           \A i \in 1 .. 8 :
             LET entry == At(maps[MapOf(i)], KeyOf(i)) IN
               /\ entry % i = 0 /\ entry <= i * events
               /\ alone => entry = i * events
      [] program = "CountSyscalls" ->
           LET counts == maps["Count_Sys_Calls_Invoked"] IN
             \A id \in Stored(counts) :
               LET calls == MapThenSumSet(LAMBDA t : Times(<<t, id>>), Threads) IN
                 /\ At(counts, id) <= events
                 /\ alone => At(counts, id) = calls
      [] OTHER -> TRUE

-----------------------------------------------------------------------------
(***************************************************************************)
(* What the programs without maps mean                                     *)
(***************************************************************************)
Outcome(lines, raised, returned) ==
  [printed |-> lines, raised |-> raised, returned |-> returned]
Line(text, args) == [text |-> text, args |-> args]

factorial[n \in Nat] == IF n = 0 THEN 1 ELSE n * factorial[n - 1]

(* fact.ex: 3! + id!, if two calls are enough to compute id! *)
MeaningOfFact(id) ==
  IF id \in 1 .. 2 THEN Outcome(<<Line("", <<6 + factorial[id]>>)>>, FALSE, 0)
  ELSE Outcome(<<>>, TRUE, 0)

MeaningOfListSyscalls(id) ==
  LET name == CASE id = 62 -> <<"enter_kill">> [] id = 83 -> <<"enter_mkdir">>
                [] id = 318 -> <<"enter_getrandom">> [] OTHER -> <<>>
  IN Outcome([i \in DOMAIN name |-> Line(name[i], <<>>)], FALSE, 0)

(* the others, whose source has nothing but constants and the context *)
Constant == {"CtxAccess", "GetPid", "HelloWorld", "Case", "Cond", "IfThenElse", "Cp", "Basic"}
MeaningOfOther(e) ==
  CASE program = "CtxAccess" ->
         Outcome(<<Line("PIDs", <<Wrap(e["pid_tgid"]), e["ctx.pid"]>>)>>, FALSE, 0)
    [] program = "GetPid" ->
         Outcome(<<Line("Current PID", <<Wrap(e["pid_tgid"]), 5>>)>>, FALSE, 0)
    [] program = "HelloWorld" -> Outcome(<<Line("Hello World", <<>>)>>, FALSE, 0)
    [] program = "Case" -> Outcome(<<Line("Result", <<3>>)>>, FALSE, 0)
    [] program = "Cond" -> Outcome(<<Line("Is 32.", <<>>)>>, FALSE, 0)
    [] program = "IfThenElse" -> Outcome(<<Line("True", <<>>)>>, FALSE, 0)
    [] program = "Cp" -> Outcome(<<>>, FALSE, 5 + 6 + 2 + 4 + 1)
    [] program = "Basic" -> Outcome(<<>>, FALSE, 1)

(***************************************************************************)
(* The programs that only compute end as their Elixir source says: in      *)
(* fact, for every argument the fuel suffices for, with the sum of the     *)
(* factorials, and for every other with the exception, printing nothing.   *)
(***************************************************************************)
ElixirMeaning ==
  \A c \in Cpus :
    Returns(c) =>
      LET outcome == Outcome(result[c].printed, result[c].raised, Head(todo[c]).n) IN
        CASE program = "Fact" -> outcome = MeaningOfFact(env[c]["ctx.id"])
          [] program = "ListSyscalls" -> outcome = MeaningOfListSyscalls(env[c]["ctx.id"])
          [] program \in Constant -> outcome = MeaningOfOther(env[c])
          [] OTHER -> TRUE

(***************************************************************************)
(* drop_udp: a whole UDP datagram for port 3000 is dropped, one for 3001   *)
(* goes on to 3000, and no other packet is changed; every other whole one  *)
(* is passed.  One too short for its headers is aborted, which drops it    *)
(* too.  The IPv4 header is taken to have no options: with options the     *)
(* two bytes looked at are not the port.                                   *)
(***************************************************************************)
UdpIsSteered ==
  program = "DropUdp" =>
    \A c \in Cpus :
      Returns(c) =>
        LET e == env[c]
            ip == e["h_proto"] \in {ETH_P_IP, ETH_P_IPV6}
            nh_off == IF e["h_proto"] = ETH_P_IP THEN 34 ELSE 54
            next == IF e["h_proto"] = ETH_P_IP THEN e["protocol"] ELSE e["nexthdr"]
            udp == ip /\ next = IPPROTO_UDP
            whole == e["size"] >= IF udp THEN nh_off + 8 ELSE IF ip THEN nh_off ELSE 14
            verdict == Head(todo[c]).n
        IN /\ verdict = XDP_ABORTED <=> ~whole
           /\ verdict = XDP_DROP <=> whole /\ udp /\ e["dport"] = 3000
           /\ e["dest"] = IF whole /\ udp /\ e["dport"] = 3001 THEN 3000 ELSE e["dport"]

(***************************************************************************)
(* drop_udp and traffic_counter read and write no byte after the packet's  *)
(* last one: what they need the bounds checks for, of every header.        *)
(***************************************************************************)
PacketInBounds ==
  \A c \in Cpus :
    Is(c, "load") \/ Is(c, "storePacket") => Head(todo[c]).end <= env[c]["size"]

-----------------------------------------------------------------------------
(***************************************************************************)
(* force_kill                                                              *)
(***************************************************************************)
Killed == {e[1] : e \in {d \in DOMAIN happened : d[2] = 9}}

(***************************************************************************)
(* The pids that were sent SIGKILL are in the map for ever, but for those  *)
(* that found it full, and no pid is that was sent another signal only.    *)
(***************************************************************************)
KillsAreKept ==
  program = "ForceKill" =>
    LET m == maps["ForceKills"]
        dying == {env[c]["ctx.pid"] : c \in {d \in Cpus : ~IsIdle(d) /\ env[d]["ctx.sig"] = 9}}
    IN /\ Stored(m) \subseteq Killed \cup dying
       /\ Killed \subseteq Stored(m) \/ Full(m)
       /\ \A k \in Stored(m) : At(m, k) = 1

(***************************************************************************)
(* A listing of force_kill's map shows every pid that was there when it    *)
(* began, and none twice, although kills go on being stored: BPF_NOEXIST   *)
(* moves no key.  traffic_counter's BPF_ANY does: see UnmovedListed.       *)
(***************************************************************************)
KillsListed ==
  program = "ForceKill" /\ listing.at = "ended" =>
    /\ ~listing.twice
    /\ listing.began \subseteq listing.shown /\ listing.shown \subseteq Stored(Printed)

(***************************************************************************)
(* traffic_counter counts by source MAC address (its README.md): as many   *)
(* keys as addresses that whole frames came from, until the map is full.   *)
(***************************************************************************)
MacsApart ==
  program = "TrafficCounter" /\ (\A c \in Cpus : IsIdle(c)) =>
    LET counts == maps["TrafficCount"]
        senders == {e[1] : e \in {d \in DOMAIN happened : d[2] >= 14}}
    IN Cardinality(Stored(counts)) = Cardinality(senders) \/ Full(counts)
=============================================================================
