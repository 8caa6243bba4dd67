--------------------------- MODULE ExamplePrograms ---------------------------
(***************************************************************************)
(* The BPF programs that the compiler generated for examples/, as they are *)
(* committed there: the statements between "beginning of user code" and    *)
(* "end of user code" of each main_func, in their order.                   *)
(*                                                                         *)
(* Left out are the temporaries, the Generic a C int is wrapped in on its  *)
(* way into a map, the value of a cond that nothing uses, and the tests of *)
(* op_result.exception that follow a statement which cannot raise.         *)
(*                                                                         *)
(* TotalBefore, OnPwriteRead, NotePrev, StoreKillAny, StoreKillExisting,   *)
(* AddOne, TooShortByOne, RedirectLonger and FuelIgnored are not part of   *)
(* the model: they are the faults that the properties are shown to catch.  *)
(***************************************************************************)
EXTENDS KernelMaps, SequencesExt

CONSTANTS
  HASH_ENTRIES,    (* max_entries of a hash map; 4096 or 64 in the code    *)
  ALERT_THRESHOLD  (* 10000 and 50000 in the code                          *)

ASSUME ExampleAssumption == HASH_ENTRIES \in Nat /\ ALERT_THRESHOLD \in Nat

-----------------------------------------------------------------------------
(* An operand: a variable or an integer. *)
V(x) == [literal |-> FALSE, name |-> x, n |-> 0]
I(n) == [literal |-> TRUE, name |-> "", n |-> n]

Set(x, a) == [op |-> "set", x |-> x, a |-> a]
Compute(x, a, op, b) == [op |-> "compute", x |-> x, a |-> a, f |-> op, b |-> b]
(* BINARY_OPERATION: Sum and Multiply raise what does not fit an int *)
Checked(x, a, op, b) == [op |-> "checked", x |-> x, a |-> a, f |-> op, b |-> b]
Ktime(x) == [op |-> "ktime", x |-> x]

(* without a default, a key that is not there raises KeyNotFound *)
Lookup(x, map, k) == [op |-> "lookup", x |-> x, map |-> map, k |-> k, raises |-> TRUE]
LookupOr0(x, map, k) == [op |-> "lookup", x |-> x, map |-> map, k |-> k, raises |-> FALSE]
Store(map, k, a, flags) ==
  [op |-> "store", map |-> map, k |-> k, a |-> a, flags |-> flags]

If(a, rel, b, then, else) ==
  [op |-> "if", a |-> a, rel |-> rel, b |-> b, then |-> then, else |-> else]

(* The packet's bytes up to `end` are read for `field`, or written. *)
Load(x, field, end) == [op |-> "load", x |-> x, field |-> field, end |-> end]
StorePacket(field, end, a) == [op |-> "storePacket", field |-> field, end |-> end, a |-> a]

Printk(text, args) == [op |-> "printk", text |-> text, args |-> args]
Raise == [op |-> "raise"]
Return(n) == [op |-> "return", n |-> n]

(* cond do: the clauses <<a, rel, b, body>> in their order *)
Clause(a, rel, b, body) == [a |-> a, rel |-> rel, b |-> b, body |-> body]
Cond(clauses, otherwise) ==
  LET from[i \in 1 .. Len(clauses) + 1] ==
        IF i > Len(clauses) THEN otherwise
        ELSE <<If(clauses[i].a, clauses[i].rel, clauses[i].b, clauses[i].body,
                  from[i + 1])>>
  IN from[1]

-----------------------------------------------------------------------------
(***************************************************************************)
(* disk_monitor and network_monitor: for each of six system calls, count   *)
(* it for the calling thread, add up the thread's two counts, and raise or  *)
(* clear the thread's alert.                                               *)
(***************************************************************************)
TotalBefore == Compute("total_calls", V("count"), "+", V("total"))
Total == Compute("total_calls", V("new_count"), "+", V("total"))

CountAndAlert(own, other, text) ==
  <<LookupOr0("count", own, V("pid")),
    Compute("new_count", V("count"), "+", I(1)),
    Store(own, V("pid"), V("new_count"), "BPF_ANY"),
    LookupOr0("total", other, V("pid")),
    Total,
    If(V("total_calls"), ">", I(ALERT_THRESHOLD),
       <<Store("alert_flag", V("pid"), I(1), "BPF_ANY"),
         Printk("alert", <<"pid", "total_calls">>)>>,
       <<Store("alert_flag", V("pid"), I(0), "BPF_ANY")>>),
    Printk(text, <<"pid", "new_count">>)>>

OnSyscall(id, body) == Clause(V("syscall_id"), "==", I(id), body)
OnRead == OnSyscall(0, CountAndAlert("read_count", "write_count", "read"))
OnWrite == OnSyscall(1, CountAndAlert("write_count", "read_count", "write"))
OnPread64 == OnSyscall(17, CountAndAlert("read_count", "write_count", "pread64"))
OnPwriteRead == OnSyscall(18, CountAndAlert("read_count", "write_count", "pwrite64"))
OnPwrite64 == OnSyscall(18, CountAndAlert("write_count", "read_count", "pwrite64"))
OnReadv == OnSyscall(19, CountAndAlert("read_count", "write_count", "readv"))
OnWritev == OnSyscall(20, CountAndAlert("write_count", "read_count", "writev"))

OnSendto == OnSyscall(44, CountAndAlert("send_count", "recv_count", "sendto"))
OnSendmsg == OnSyscall(46, CountAndAlert("send_count", "recv_count", "sendmsg"))
OnSendmmsg == OnSyscall(307, CountAndAlert("send_count", "recv_count", "sendmmsg"))
OnRecvfrom == OnSyscall(45, CountAndAlert("recv_count", "send_count", "recvfrom"))
OnRecvmsg == OnSyscall(47, CountAndAlert("recv_count", "send_count", "recvmsg"))
OnRecvmmsg == OnSyscall(299, CountAndAlert("recv_count", "send_count", "recvmmsg"))

(* bpf_get_current_pid_tgid() in an int: the thread's id *)
OfThread(clauses) ==
  <<Set("pid", V("pid_tgid")), Set("syscall_id", V("ctx.id"))>>
  \o Cond(<<Clause(V("pid"), "==", I(0), <<>>)>> \o clauses, <<>>) \o <<Return(0)>>

DiskMonitor == OfThread(<<OnRead, OnWrite, OnPread64, OnPwrite64, OnReadv, OnWritev>>)
NetworkMonitor ==
  OfThread(<<OnSendto, OnSendmsg, OnSendmmsg, OnRecvfrom, OnRecvmsg, OnRecvmmsg>>)

(***************************************************************************)
(* memory_monitor                                                          *)
(***************************************************************************)
CountOnly(map, text) ==
  <<LookupOr0("count", map, V("pid")),
    Compute("new_count", V("count"), "+", I(1)),
    Store(map, V("pid"), V("new_count"), "BPF_ANY"),
    Printk(text, <<"pid", "new_count">>)>>

OnMmap == OnSyscall(9, CountOnly("mmap_count", "MMap"))
OnMunmap == OnSyscall(11, CountOnly("munmap_count", "Munmap"))
OnBrk == OnSyscall(12, CountOnly("brk_count", "Brk"))

MemoryMonitor ==
  <<Set("syscall_id", V("ctx.id")), Set("pid", V("pid_tgid"))>>
  \o Cond(<<OnMmap, OnMunmap, OnBrk>>, <<>>) \o <<Return(0)>>

(***************************************************************************)
(* cpu_monitor: at each switch, charge the thread that leaves the CPU with *)
(* the time since it came, and note when the next one comes.               *)
(***************************************************************************)
ChargePrev ==
  <<Lookup("start", "start_time", V("prev_pid")),
    Compute("delta", V("ts"), "-", V("start")),
    Lookup("total", "total_time", V("prev_pid")),
    Compute("sum", V("total"), "+", V("delta")),
    Store("total_time", V("prev_pid"), V("sum"), "BPF_ANY")>>
NotePrev == <<Store("start_time", V("prev_pid"), V("ts"), "BPF_ANY")>>
NoteNext == <<Store("start_time", V("next_pid"), V("ts"), "BPF_ANY")>>

CpuMonitor ==
  <<Ktime("ts"), Set("prev_pid", V("ctx.prev_pid")), Set("next_pid", V("ctx.next_pid"))>>
  \o Cond(<<Clause(V("prev_pid"), ">", I(41943040),
                   <<Printk("Out of Bounds", <<"next_pid">>)>>)>>,
           ChargePrev \o NoteNext \o <<Printk("CPU Time", <<"next_pid", "sum">>)>>)
  \o <<Return(0)>>

(***************************************************************************)
(* count_syscalls, traffic_counter, force_kill and maps.  The result of    *)
(* count_syscalls is its update's, which nothing reads: it is 0 here.      *)
(***************************************************************************)
CountSyscalls ==
  <<Set("id", V("ctx.id")),
    Lookup("id_count", "Count_Sys_Calls_Invoked", V("id")),
    Compute("n", V("id_count"), "+", I(1)),
    Store("Count_Sys_Calls_Invoked", V("id"), V("n"), "BPF_ANY"),
    Return(0)>>

XDP_ABORTED == 0
XDP_DROP == 1
XDP_PASS == 2

TooShortByOne(end, verdict) == If(V("size"), "<", I(end - 1), <<Return(verdict)>>, <<>>)
TooShort(end, verdict) == If(V("size"), "<", I(end), <<Return(verdict)>>, <<>>)

(* The map's key is an int: the first four bytes of h_source. *)
TrafficCounter ==
  <<TooShort(14, XDP_ABORTED), TooShort(14, XDP_PASS), Load("src", "h_source", 10),
    LookupOr0("count", "TrafficCount", V("src")),
    Compute("count", V("count"), "+", I(1)),
    Store("TrafficCount", V("src"), V("count"), "BPF_ANY"),
    Return(XDP_PASS)>>

StoreKillAny(flags) == <<Store("ForceKills", V("pid"), I(1), "BPF_ANY")>>
StoreKillExisting(flags) == <<Store("ForceKills", V("pid"), I(1), "BPF_EXIST")>>
StoreKill(flags) == <<Store("ForceKills", V("pid"), I(1), flags)>>
ForceKill ==
  <<Set("sig", V("ctx.sig")), Set("pid", V("ctx.pid"))>>
  \o Cond(<<Clause(V("sig"), "==", I(9), StoreKill("BPF_NOEXIST"))>>, <<>>)
  \o <<Return(0)>>

Entry == <<"entry_0", "entry_1", "entry_2", "entry_3", "entry_4", "entry_5", "entry_6",
           "entry_7">>
MapOf(i) == IF i = 8 THEN "Second_Example_map" ELSE "Example_map"
KeyOf(i) == IF i = 8 THEN 0 ELSE i - 1
LookUpEntries == [i \in 1 .. 8 |-> Lookup(Entry[i], MapOf(i), I(KeyOf(i)))]
AddOne(i) ==
  <<Compute("n", V(Entry[i]), "+", I(1)), Store(MapOf(i), I(KeyOf(i)), V("n"), "BPF_ANY")>>
AddEntry(i) ==
  <<Compute("n", V(Entry[i]), "+", I(i)), Store(MapOf(i), I(KeyOf(i)), V("n"), "BPF_ANY")>>
StoreEntries == FlattenSeq([i \in 1 .. 8 |-> AddEntry(i)])
Maps == LookUpEntries \o StoreEntries \o <<Return(0)>>

(***************************************************************************)
(* drop_udp.  nh_off is 34 after the IPv4 header, options or not, and 54   *)
(* after the IPv6 header.                                                  *)
(***************************************************************************)
ETH_P_IP == 2048
ETH_P_IPV6 == 34525
IPPROTO_UDP == 17

RedirectLonger(nh_off) ==
  <<If(V("size"), ">", I(nh_off + 8), <<StorePacket("dest", nh_off + 4, I(3000))>>, <<>>)>>
Redirect(nh_off) ==
  <<If(V("size"), ">=", I(nh_off + 8), <<StorePacket("dest", nh_off + 4, I(3000))>>, <<>>)>>

OfPort(nh_off) ==
  <<TooShort(nh_off + 8, 0), Load("port", "dest", nh_off + 4)>>
  \o Cond(<<Clause(V("port"), "==", I(3000), <<Return(XDP_DROP)>>),
            Clause(V("port"), "==", I(3001), Redirect(nh_off))>>, <<>>)

OfProtocol(field, end, nh_off) ==
  <<TooShort(nh_off, 0), Load("protocol", field, end),
    If(V("protocol"), "==", I(IPPROTO_UDP), OfPort(nh_off), <<>>)>>

DropUdp ==
  <<TooShort(14, XDP_ABORTED), Load("h_proto", "h_proto", 14)>>
  \o Cond(<<Clause(V("h_proto"), "==", I(ETH_P_IP), OfProtocol("protocol", 24, 34)),
            Clause(V("h_proto"), "==", I(ETH_P_IPV6), OfProtocol("nexthdr", 21, 54))>>,
          <<Return(XDP_PASS)>>)
  \o <<Return(XDP_PASS)>>

(***************************************************************************)
(* fact: a is folded but for its products; b is fact(id) with two units of *)
(* fuel, and an if of a C int compared is a case of false and of true.     *)
(***************************************************************************)
FactOfConst == <<Compute("t", I(2), "*", I(1)), Compute("a", I(3), "*", V("t"))>>

FuelIgnored == <<Set("f0", I(1))>>
FactFuel0 == <<Raise>>
FactFuel1 ==
  <<Compute("x1", V("id"), "-", I(1)),
    If(V("x1"), "==", I(1), <<Set("f1", I(1))>>,
       FactFuel0 \o <<Checked("f1", V("x1"), "*", V("f0"))>>)>>
FactFuel2 ==
  If(V("id"), "==", I(1), <<Set("b", I(1))>>,
     FactFuel1 \o <<Checked("b", V("id"), "*", V("f1"))>>)

Fact ==
  <<Set("id", V("ctx.id"))>> \o FactOfConst \o <<FactFuel2>>
  \o <<Checked("c", V("a"), "+", V("b")), Printk("", <<"c">>), Return(0)>>

(***************************************************************************)
(* The programs without maps                                               *)
(***************************************************************************)
ListSyscalls ==
  <<Set("id", V("ctx.id"))>>
  \o Cond(<<Clause(V("id"), "==", I(62), <<Printk("enter_kill", <<>>)>>),
            Clause(V("id"), "==", I(83), <<Printk("enter_mkdir", <<>>)>>),
            Clause(V("id"), "==", I(318), <<Printk("enter_getrandom", <<>>)>>)>>, <<>>)
  \o <<Return(0)>>

CtxAccess ==
  <<Set("targetid", V("ctx.pid")), Set("callee", V("pid_tgid")),
    Printk("PIDs", <<"callee", "targetid">>), Return(0)>>

GetPid ==
  <<Set("callee", V("pid_tgid")), Set("five", I(5)),
    Printk("Current PID", <<"callee", "five">>), Return(0)>>

HelloWorld == <<Printk("Hello World", <<>>), Return(0)>>

(* what is left of them once constants are propagated and branches pruned *)
Case == <<Set("return", I(3)), Printk("Result", <<"return">>), Return(0)>>
CondExample == <<Printk("Is 32.", <<>>), Return(0)>>
IfThenElse == <<Printk("True", <<>>), Return(0)>>
Cp == <<Return(18)>>
Dce == <<Return(0)>>
Basic == <<Return(1)>>

-----------------------------------------------------------------------------
(***************************************************************************)
(* hook: the event main is attached to.  printed: the hash map that the    *)
(* loader lists without -p, if there is one.                               *)
(***************************************************************************)
Example(hook, main, maps) == [hook |-> hook, main |-> main, maps |-> maps, printed |-> ""]
Printing(map, example) == [example EXCEPT !.printed = map]
NoMaps == [m \in {} |-> 0]
Hash == NewHash(HASH_ENTRIES)
PerThread == NewArray(41943040)
PerSyscall == NewArray(335)
Seven == NewArray(7)
Five == NewArray(5)

Examples ==
  [DiskMonitor |-> Example("sys_enter", DiskMonitor,
     [read_count |-> Hash, write_count |-> Hash, alert_flag |-> Hash]),
   NetworkMonitor |-> Example("sys_enter", NetworkMonitor,
     [send_count |-> Hash, recv_count |-> Hash, alert_flag |-> Hash]),
   MemoryMonitor |-> Example("sys_enter", MemoryMonitor,
     [mmap_count |-> Hash, munmap_count |-> Hash, brk_count |-> Hash]),
   CpuMonitor |-> Example("sched_switch", CpuMonitor,
     [start_time |-> PerThread, total_time |-> PerThread]),
   CountSyscalls |-> Example("sys_enter", CountSyscalls,
     [Count_Sys_Calls_Invoked |-> PerSyscall]),
   TrafficCounter |-> Printing("TrafficCount",
     Example("xdp", TrafficCounter, [TrafficCount |-> Hash])),
   ForceKill |-> Printing("ForceKills",
     Example("sys_enter_kill", ForceKill, [ForceKills |-> Hash])),
   Maps |-> Example("sys_enter_write", Maps,
     [Example_map |-> Seven, Second_Example_map |-> Five]),
   DropUdp |-> Example("xdp", DropUdp, NoMaps),
   Fact |-> Example("sys_enter", Fact, NoMaps),
   ListSyscalls |-> Example("sys_enter", ListSyscalls, NoMaps),
   CtxAccess |-> Example("sys_enter_kill", CtxAccess, NoMaps),
   GetPid |-> Example("sys_enter_kill", GetPid, NoMaps),
   HelloWorld |-> Example("sys_enter_write", HelloWorld, NoMaps),
   Case |-> Example("sys_enter", Case, NoMaps),
   Cond |-> Example("sys_enter", CondExample, NoMaps),
   IfThenElse |-> Example("sys_enter", IfThenElse, NoMaps),
   Cp |-> Example("sys_enter_kill", Cp, NoMaps),
   Dce |-> Example("sys_enter_kill", Dce, NoMaps),
   Basic |-> Example("sys_enter", Basic, NoMaps)]
=============================================================================
