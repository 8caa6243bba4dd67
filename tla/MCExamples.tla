----------------------------- MODULE MCExamples -----------------------------
(* Instances of Examples: three threads, and the events of each program. *)
EXTENDS EndlessListing

MCThreads == 1 .. 3
MCProcess == [t \in MCThreads |-> 1]
MCKeys == -1 .. 6 \cup {9, 334, 335}

Calls(ids) == {"ctx.id" :> id : id \in ids}
Kills(pids, sigs) == {"ctx.pid" :> p @@ "ctx.sig" :> s : p \in pids, s \in sigs}
Frames(macs) ==
  {[size |-> n, h_source |-> mac \div 10, mac |-> mac] : n \in {13, 14}, mac \in macs}

(* every header, cut at and around each of its ends *)
Packets ==
  {[size |-> n, h_proto |-> proto, protocol |-> next, nexthdr |-> next, dest |-> p, dport |-> p] :
     n \in {13, 14, 33, 34, 41, 42, 43, 53, 54, 61, 62},
     proto \in {ETH_P_IP, ETH_P_IPV6, 2054}, next \in {6, IPPROTO_UDP}, p \in {53, 3000, 3001}}

MCInputs ==
  [DiskMonitor |-> Calls({0, 1, 17, 18, 19, 20, 2}),
   NetworkMonitor |-> Calls({44, 46, 307, 45, 47, 299}),
   MemoryMonitor |-> Calls({9, 11, 12}), CpuMonitor |-> {},
   CountSyscalls |-> Calls({0, 334, 335}), TrafficCounter |-> Frames({1, 2, 21}),
   ForceKill |-> Kills({-1, 1, 2}, {9}) \cup Kills({1}, {15}), Maps |-> Calls({1}), DropUdp |-> Packets,
   Fact |-> Calls(0 .. 4), ListSyscalls |-> Calls({0, 62, 83, 318}),
   CtxAccess |-> Kills({1, 2}, {9}), GetPid |-> Kills({1}, {9}), HelloWorld |-> Calls({1}),
   Case |-> Calls({0}), Cond |-> Calls({0}), IfThenElse |-> Calls({0}),
   Cp |-> Kills({1}, {9}), Dce |-> Kills({1}, {9}), Basic |-> Calls({0})]

MCMaxEvents ==
  [MemoryMonitor |-> 3, CpuMonitor |-> 3, CountSyscalls |-> 3, TrafficCounter |-> 3,
   ForceKill |-> 1, DropUdp |-> 1] @@ [p \in DOMAIN Examples |-> 2]

(* A full map takes three threads. *)
MCCallers == [p \in {"DiskMonitor", "NetworkMonitor", "MemoryMonitor"} |-> MCThreads]
             @@ [p \in DOMAIN Examples |-> 1 .. 2]

MCTicks == {1, 5000}
-----------------------------------------------------------------------------
(***************************************************************************)
(* A statement on the C variables and the packet of one CPU neither        *)
(* affects nor is affected by any step of another actor, and neither does  *)
(* the return, but for the thread that may then call again.  So it is      *)
(* enough to consider the behaviours where such statements are run at      *)
(* once, those of one CPU before those of the next.                        *)
(***************************************************************************)
LocalStatements ==
  {"set", "compute", "checked", "if", "load", "storePacket", "printk", "raise", "return"}
IsLocal(c) == ~IsIdle(c) /\ Head(todo[c]).op \in LocalStatements
NoneIsLocal == \A c \in Cpus : ~IsLocal(c)
GoesFirst(c) == NoneIsLocal \/ (IsLocal(c) /\ \A d \in 0 .. c - 1 : ~IsLocal(d))

(* force_kill does not ask whose call it is. *)
Called(c) == SystemCall(c) /\ (program = "ForceKill" => thread'[c] = c + 1)

NextMC ==
  \/ \E c \in Cpus : GoesFirst(c) /\ Run(c)
  \/ NoneIsLocal /\ (\E c \in Cpus : Called(c) \/ Receive(c) \/ Switch(c)) /\ UNCHANGED moved
  \/ NoneIsLocal /\ (List \/ StartOver \/ (FirstKey /\ UNCHANGED moved))

(* Threads are alike: which of them run first does not matter. *)
InitMC == InitEndless /\ (Hook = "sched_switch" => \A c \in Cpus : thread[c] = c + 1)

(* Weaker than SpecEndless: it is enough that some CPU goes on. *)
SpecMC ==
  InitMC /\ [][NextMC]_endless
       /\ WF_endless(\E c \in Cpus : GoesFirst(c) /\ Run(c))
       /\ WF_endless(List)

EveryProgram == DOMAIN Examples
TrafficCounterOnly == {"TrafficCounter"}
NoProgram == {}
ForceKillOnly == {"ForceKill"}
=============================================================================
