---------------------------- MODULE MCSharedMaps ----------------------------
(* Instances of SharedMaps: the programs that each run considers. *)
EXTENDS SharedMaps

(* the key -1 is in no array *)
MCKeys == {-1, 0, 1}

(* on every CPU, or one that is not per-CPU on one CPU only *)
EveryMap ==
  {p \in Program :
     p.cpus = Cpus \/ (p.type \in {"array", "hash"} /\ p.cpus = {0})}

CountSyscalls ==
  {[type |-> "array", panics |-> TRUE, generic |-> FALSE, flags |-> "BPF_ANY",
    cpus |-> Cpus]}
=============================================================================
