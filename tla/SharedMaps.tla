------------------------------ MODULE SharedMaps ------------------------------
(***************************************************************************)
(* The map helpers as the translator emits them, in the program that every *)
(* counting example is: look a key up, add one, store the result.  Each    *)
(* CPU runs the program for one event at a time; the CPUs share the map.   *)
(*                                                                         *)
(* The map is the kernel's.  A lookup returns a pointer into an element.   *)
(* Storing to a key that an array or a per-CPU map has writes that element *)
(* in place; a (preallocated) hash map puts the CPU's spare element in the *)
(* place of the old one, which becomes the spare.                          *)
(*                                                                         *)
(* SharedSlot, FoundFirst, StoreItem, IncrementUnbounded and               *)
(* IncrementOneBit are not part of the model: they are the faults that the *)
(* properties are shown to catch.                                          *)
(***************************************************************************)
EXTENDS Integers, FiniteSets

CONSTANTS
  NCpu,        (* the CPUs are 0 .. NCpu-1                                 *)
  Keys,        (* the integers events are counted under                    *)
  MaxEntries,  (* max_entries of the map                                   *)
  INT_MAX,     (* 2^31 - 1 in the code                                     *)
  Programs,    (* the programs considered, see Program                     *)
  MaxCalls     (* bound: how many events happen                            *)

Cpus == 0 .. NCpu - 1
Elements == 0 .. MaxEntries + NCpu - 1
None == -1

(* panics: no default is given.  generic: the key's type is not known.     *)
(* cpus: where its events happen, which is not up to the program.          *)
Program ==
  [type : {"array", "hash", "percpu_array", "percpu_hash"}, panics : BOOLEAN,
   generic : BOOLEAN, flags : {"BPF_ANY", "BPF_NOEXIST", "BPF_EXIST"},
   cpus : SUBSET Cpus]

ASSUME MapAssumption ==
  /\ NCpu \in Nat \ {0} /\ MaxEntries \in Nat \ {0} /\ Keys \subseteq Int
  /\ INT_MAX \in Nat \ {0} /\ MaxCalls \in Nat /\ Programs \subseteq Program

VARIABLES
  program,  (* the program, which does not change                          *)
  element,  (* key -> its element, or None                                 *)
  content,  (* element -> slot -> integer                                  *)
  spare,    (* CPU -> the element a hash map keeps in reserve for it       *)
  pc,       (* CPU -> "idle", "lookup", "read", "update" or "CATCH"        *)
  key,      (* CPU -> the key in use                                       *)
  pointer,  (* CPU -> the element that the lookup returned                 *)
  item,     (* CPU -> the integer read                                     *)
  events,   (* history: key -> slot -> how many events ended               *)
  calls     (* how many events began                                       *)

map == <<element, content, spare>>
locals == <<key, pointer, item>>
maps == <<program, map, pc, locals, events, calls>>

IsArray == program.type \in {"array", "percpu_array"}
IsPerCpu == program.type \in {"percpu_array", "percpu_hash"}
Slots == Cpus
SharedSlot(c) == 0
Slot(c) == IF IsPerCpu THEN c ELSE 0

InitMaps ==
  /\ program \in Programs
  /\ element = [k \in Keys |-> IF IsArray /\ k \in 0 .. MaxEntries - 1 THEN k ELSE None]
  /\ content = [e \in Elements |-> [s \in Slots |-> 0]]
  /\ spare = [c \in Cpus |-> MaxEntries + c]
  /\ pc = [c \in Cpus |-> "idle"]
  /\ key \in [Cpus -> Keys] /\ \A c, d \in Cpus : key[c] = key[d]
  /\ pointer = [c \in Cpus |-> 0] /\ item = [c \in Cpus |-> 0]
  /\ events = [k \in Keys |-> [s \in Slots |-> 0]] /\ calls = 0

-----------------------------------------------------------------------------
Goto(c, label) == pc' = [pc EXCEPT ![c] = label]
Ended(c) == events' = [events EXCEPT ![key[c]][Slot(c)] = @ + 1]

Event(c) ==
  /\ pc[c] = "idle" /\ c \in program.cpus /\ calls < MaxCalls
  /\ calls' = calls + 1
  /\ \E k \in Keys : key' = [key EXCEPT ![c] = k]
  /\ Goto(c, "lookup")
  /\ UNCHANGED <<program, map, pointer, item, events>>

(* a key that is not an integer is found out when the program runs *)
MapKey(c) ==
  /\ pc[c] = "lookup" /\ program.generic
  /\ Goto(c, "CATCH")
  /\ UNCHANGED <<program, map, locals, events, calls>>

FoundFirst(c) ==
  /\ pc[c] = "lookup" /\ element[key[c]] # None
  /\ pointer' = [pointer EXCEPT ![c] = 0]
  /\ Goto(c, "read")
  /\ UNCHANGED <<program, map, key, item, events, calls>>
Found(c) ==
  /\ pc[c] = "lookup" /\ element[key[c]] # None
  /\ pointer' = [pointer EXCEPT ![c] = element[key[c]]]
  /\ Goto(c, "read")
  /\ UNCHANGED <<program, map, key, item, events, calls>>

NotFound(c) ==
  /\ pc[c] = "lookup" /\ element[key[c]] = None
  /\ IF program.panics
       THEN Goto(c, "CATCH") /\ Ended(c) /\ UNCHANGED item
       ELSE Goto(c, "update") /\ item' = [item EXCEPT ![c] = 0] /\ UNCHANGED events
  /\ UNCHANGED <<program, map, key, pointer, calls>>

Read(c) ==
  /\ pc[c] = "read"
  /\ item' = [item EXCEPT ![c] = content[pointer[c]][Slot(c)]]
  /\ Goto(c, "update")
  /\ UNCHANGED <<program, map, key, pointer, events, calls>>

(* the prints of CATCH, and return 0 *)
Catch(c) ==
  /\ pc[c] = "CATCH" /\ Goto(c, "idle")
  /\ UNCHANGED <<program, map, locals, events, calls>>

-----------------------------------------------------------------------------
(* int + int, as the compiled program computes it *)
StoreItem(n) == n
IncrementUnbounded(n) == n + 1
IncrementOneBit(n) == (n + 1) % 2
Increment(n) == IF n = INT_MAX THEN -INT_MAX - 1 ELSE n + 1

Stored == {k \in Keys : element[k] # None}
Unused == Elements \ ({element[k] : k \in Stored} \cup {spare[c] : c \in Cpus})

Replaces(c) == key[c] \in Stored /\ program.flags # "BPF_NOEXIST"

Inserts(c) ==
  /\ ~IsArray /\ key[c] \notin Stored /\ program.flags # "BPF_EXIST"
  /\ Cardinality(Stored) < MaxEntries

WriteInPlace(c, n) ==
  /\ content' = [content EXCEPT ![element[key[c]]][Slot(c)] = n]
  /\ UNCHANGED <<element, spare>>

WriteSpare(c, n) ==
  /\ content' = [content EXCEPT ![spare[c]][0] = n]
  /\ element' = [element EXCEPT ![key[c]] = spare[c]]
  /\ spare' = [spare EXCEPT ![c] = element[key[c]]]

WriteNew(c, n) ==
  /\ \E e \in Unused :
       /\ content' = [content EXCEPT ![e] = [s \in Slots |-> IF s = Slot(c) THEN n ELSE 0]]
       /\ element' = [element EXCEPT ![key[c]] = e]
  /\ UNCHANGED spare

(* The result of the update is the value of the program: an error changes  *)
(* nothing, and nothing looks at it.                                       *)
Update(c) ==
  /\ pc[c] = "update"
  /\ LET n == Increment(item[c]) IN
       \/ Replaces(c) /\ program.type = "hash" /\ WriteSpare(c, n)
       \/ Replaces(c) /\ program.type # "hash" /\ WriteInPlace(c, n)
       \/ Inserts(c) /\ WriteNew(c, n)
       \/ ~Replaces(c) /\ ~Inserts(c) /\ UNCHANGED map
  /\ Ended(c) /\ Goto(c, "idle")
  /\ UNCHANGED <<program, locals, calls>>

Step(c) == MapKey(c) \/ Found(c) \/ NotFound(c) \/ Read(c) \/ Update(c) \/ Catch(c)

NextMaps == \E c \in Cpus : Event(c) \/ Step(c)

(* The verifier admits no program that does not end: a CPU that began goes on. *)
SpecMaps == InitMaps /\ [][NextMaps]_maps /\ \A c \in Cpus : WF_maps(Step(c))

-----------------------------------------------------------------------------
TypeOK ==
  /\ program \in Programs
  /\ element \in [Keys -> Elements \cup {None}]
  /\ content \in [Elements -> [Slots -> -INT_MAX - 1 .. INT_MAX]]
  /\ spare \in [Cpus -> Elements]
  /\ pc \in [Cpus -> {"idle", "lookup", "read", "update", "CATCH"}]
  /\ key \in [Cpus -> Keys] /\ pointer \in [Cpus -> Elements]
  /\ item \in [Cpus -> -INT_MAX - 1 .. INT_MAX]
  /\ events \in [Keys -> [Slots -> Nat]] /\ calls \in Nat

CountOf(k, s) == IF element[k] = None THEN 0 ELSE content[element[k]][s]

(***************************************************************************)
(* However the CPUs interleave, a count never tells of more events than    *)
(* there were: read-add-store may lose events and never invents any.  It   *)
(* does not hold of a hash map, whose elements are recycled under the      *)
(* reader's pointer.                                                       *)
(***************************************************************************)
CountsNeverExceed ==
  program.type # "hash" =>
    \A k \in Keys : \A s \in Slots : CountOf(k, s) <= events[k][s]

Counters == INSTANCE EventCounters WITH
  Counters <- Keys \X Slots,
  counts <- [x \in Keys \X Slots |-> CountOf(x[1], x[2])],
  events <- [x \in Keys \X Slots |-> events[x[1]][x[2]]]

OneAtATime == IsPerCpu \/ \E c \in Cpus : program.cpus = {c}
NoneWraps == \A k \in Keys : \A s \in Slots : events[k][s] <= INT_MAX

(***************************************************************************)
(* Counting is exact: the map implements one counter of events for each    *)
(* key and slot.  It holds of per-CPU maps, of other maps when all events  *)
(* happen on one CPU, of programs that may store to a key they have, and   *)
(* as long as no count is too large for an int.                            *)
(***************************************************************************)
CountsExactly == OneAtATime /\ program.flags # "BPF_NOEXIST" /\ NoneWraps
ImplementsCounters ==
  /\ Counters!InitCounters
  /\ [][CountsExactly' => Counters!NextCounters]_<<Counters!counted>>

(***************************************************************************)
(* count_syscalls.ex says of its two calls that they grab the old value in *)
(* the map "and increments it by one": each event that ends adds one.      *)
(***************************************************************************)
IncrementsByOneStep ==
  \A k \in Keys : \A s \in Slots :
     events'[k][s] # events[k][s] => CountOf(k, s)' = CountOf(k, s) + 1
IncrementsByOne == [][IncrementsByOneStep]_maps
=============================================================================
