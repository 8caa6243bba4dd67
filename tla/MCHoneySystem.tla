---------------------------- MODULE MCHoneySystem ----------------------------
(* An instance of HoneySystem: the array of count_syscalls, with a printed *)
(* key that it does not have (key 2 of 2 entries).                         *)
EXTENDS HoneySystem

CountSyscalls ==
  {[type |-> "array", panics |-> TRUE, generic |-> FALSE, flags |-> "BPF_ANY",
    cpus |-> {0}]}

AnyLoader == [sec : {"xdp_md", "tracepoint"}, printed : BOOLEAN]

MCPrintElem == <<0, 2, 1>>
=============================================================================
