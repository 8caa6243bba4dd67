------------------------------ MODULE KernelMaps ------------------------------
(***************************************************************************)
(* The kernel's array and (preallocated) hash maps, as values: what        *)
(* bpf_map_lookup_elem, bpf_map_update_elem and bpf_map_get_next_key do to *)
(* one of them.  An array has an element for every index, in place for     *)
(* ever.  A hash map puts a stored value into an element of its own: a new *)
(* key takes a free one, a key it has takes the spare one of the CPU, and  *)
(* what the key had becomes the spare.  Either is put at the head of the   *)
(* key's bucket.                                                           *)
(***************************************************************************)
EXTENDS Integers, Sequences, FiniteSets

CONSTANTS
  NCpu,     (* the CPUs are 0 .. NCpu-1                                    *)
  Keys,     (* the integers that may be a key                              *)
  BUCKETS   (* buckets of a hash map                                       *)

Cpus == 0 .. NCpu - 1
None == -1  (* no element *)

ASSUME KernelMapsAssumption ==
  NCpu \in Nat \ {0} /\ Keys \subseteq Int /\ IsFiniteSet(Keys) /\ BUCKETS \in Nat \ {0}

NewArray(max_entries) ==
  [type |-> "array", max |-> max_entries,
   element |-> [k \in Keys |-> IF k \in 0 .. max_entries - 1 THEN k ELSE None],
   content |-> [e \in {k \in Keys : k \in 0 .. max_entries - 1} |-> 0],
   spare |-> [c \in Cpus |-> None], order |-> <<>>]

NewHash(max_entries) ==
  [type |-> "hash", max |-> max_entries,
   element |-> [k \in Keys |-> None],
   content |-> [e \in 0 .. max_entries + NCpu - 1 |-> 0],
   spare |-> [c \in Cpus |-> max_entries + c], order |-> <<>>]

Has(m, k) == k \in Keys /\ m.element[k] # None
Stored(m) == {k \in Keys : Has(m, k)}
At(m, k) == m.content[m.element[k]]
Full(m) == Cardinality(Stored(m)) = m.max
Used(m) == {m.element[k] : k \in Stored(m)}

Bucket(k) == k % BUCKETS

(* the keys, bucket by bucket, after k was put at the head of its bucket *)
AtTheHead(others, k) ==
  LET n == Cardinality({i \in DOMAIN others : Bucket(others[i]) < Bucket(k)})
  IN SubSeq(others, 1, n) \o <<k>> \o SubSeq(others, n + 1, Len(others))

Without(order, k) == SelectSeq(order, LAMBDA x : x # k)

InPlace(m, k, v) == [m EXCEPT !.content[m.element[k]] = v]

IntoSpare(m, c, k, v) ==
  [m EXCEPT !.content[m.spare[c]] = v, !.element[k] = m.spare[c],
            !.spare[c] = m.element[k], !.order = AtTheHead(Without(@, k), k)]

(* Which of the free elements is taken cannot be told from any other. *)
IntoFree(m, k, v) ==
  LET used == Used(m) \cup {m.spare[c] : c \in Cpus}
      free == CHOOSE e \in DOMAIN m.content : e \notin used
  IN [m EXCEPT !.content[free] = v, !.element[k] = free, !.order = AtTheHead(@, k)]

(* m after CPU c stored v; an update that fails changes nothing *)
Update(m, c, k, v, flags) ==
  IF Has(m, k)
    THEN IF flags = "BPF_NOEXIST" THEN m
         ELSE IF m.type = "array" THEN InPlace(m, k, v) ELSE IntoSpare(m, c, k, v)
    ELSE IF m.type = "array" \/ flags = "BPF_EXIST" \/ Full(m) THEN m
         ELSE IntoFree(m, k, v)

(* The keys of a hash map after k, or all of them if it does not have k. *)
KeysAfter(m, k) ==
  LET here == {i \in DOMAIN m.order : m.order[i] = k}
  IN IF here = {} THEN m.order
     ELSE SubSeq(m.order, 1 + CHOOSE i \in here : TRUE, Len(m.order))
=============================================================================
