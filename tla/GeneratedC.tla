------------------------------ MODULE GeneratedC ------------------------------
(***************************************************************************)
(* The machine that runs the programs of examples/: several CPUs, each of  *)
(* which runs the program for one event at a time, statement by statement, *)
(* on the maps they share; the threads that cause the events, each on one  *)
(* CPU at a time; and the loader, which lists a hash map key by key while  *)
(* the events go on.                                                       *)
(*                                                                         *)
(* The kernel runs a tracepoint or XDP program with preemption disabled:   *)
(* a thread neither leaves its CPU nor causes another event inside one.    *)
(*                                                                         *)
(* FirstAfterZero and NextOfNone are not part of the model: they are       *)
(* faults that properties are shown to catch.                              *)
(***************************************************************************)
EXTENDS ExamplePrograms

CONSTANTS
  INT_MAX,    (* 2^31 - 1 in the code                                      *)
  Threads,    (* the ids of threads other than the idle ones, which are 0  *)
  Callers,    (* program -> the threads that make the system calls         *)
  Process,    (* thread -> the id of its process                           *)
  Inputs,     (* program -> the records of what its events say             *)
  Ticks,      (* nanoseconds that may pass before an event                 *)
  MaxEvents,  (* program -> bound: how many events happen                  *)
  Programs    (* the programs considered                                   *)

WORD == 2 * (INT_MAX + 1)
Idle == 0

ASSUME GeneratedCAssumption ==
  /\ INT_MAX \in Nat \ {0} /\ Ticks \subseteq Nat
  /\ Threads \subseteq 1 .. INT_MAX /\ Programs \subseteq DOMAIN Examples

VARIABLES
  program,  (* the program, which does not change                          *)
  maps,     (* its maps                                                    *)
  todo,     (* CPU -> the statements of main still to run                  *)
  env,      (* CPU -> the C variables and what the context says            *)
  result,   (* CPU -> what main has printed, and whether it has raised     *)
  thread,   (* CPU -> the thread whose event it runs the program for or,   *)
            (* of cpu_monitor, the thread it runs                          *)
  clock,    (* bpf_ktime_get_ns()                                          *)
  listing,  (* where output_opt is, the keys it has shown, if it has shown *)
            (* one twice, and the keys that there were when it began       *)
  happened, (* history: <<who, what>> -> how many of its events are over   *)
  since,    (* history: thread -> when it last came onto a CPU, or 0 if it *)
            (* has been there since before the program was attached        *)
  ran,      (* history: thread -> the time it has spent on CPUs            *)
  events    (* how many events began                                       *)

cpu == <<todo, env, result>>
history == <<happened, since, ran>>
vars == <<program, maps, cpu, thread, clock, listing, history, events>>

Wrap(n) == ((n + INT_MAX + 1) % WORD) - (INT_MAX + 1)
IsInt(n) == -INT_MAX - 1 <= n /\ n <= INT_MAX

IsIdle(c) == todo[c] = <<>>
NoVariables == [x \in {} |-> 0]
With(f, x, n) == [y \in DOMAIN f \cup {x} |-> IF y = x THEN n ELSE f[y]]
NoResult == [printed |-> <<>>, raised |-> FALSE]
NotListing == [at |-> "asleep", key |-> 0, shown |-> {}, twice |-> FALSE,
               began |-> {}]

Hook == Examples[program].hook

(* Only the idle thread, of which each CPU has one, is on two CPUs. *)
NoneOnTwo == \A c, d \in Cpus : thread[c] = thread[d] => c = d \/ thread[c] = Idle

Init ==
  /\ program \in Programs
  /\ maps = Examples[program].maps
  /\ todo = [c \in Cpus |-> <<>>]
  /\ env = [c \in Cpus |-> NoVariables] /\ result = [c \in Cpus |-> NoResult]
  /\ thread \in [Cpus -> Threads \cup {Idle}]
  /\ IF Hook = "sched_switch" THEN NoneOnTwo
     ELSE thread = [c \in Cpus |-> Idle]
  /\ clock \in Ticks /\ listing = NotListing
  /\ happened = [e \in {} |-> 0]
  /\ since = [t \in Threads |-> 0] /\ ran = [t \in Threads |-> 0]
  /\ events = 0

-----------------------------------------------------------------------------
(***************************************************************************)
(* The events.  What the context says is in env from the start.            *)
(***************************************************************************)
Begin(c, variables) ==
  /\ IsIdle(c) /\ events < MaxEvents[program] /\ events' = events + 1
  /\ todo' = [todo EXCEPT ![c] = Examples[program].main]
  /\ env' = [env EXCEPT ![c] = variables]
  /\ UNCHANGED <<program, maps, result, listing, history>>

OnCpu(t) == \E c \in Cpus : thread[c] = t

(* Between two system calls a thread may come to another CPU unnoticed. *)
SystemCall(c) ==
  /\ Hook \notin {"sched_switch", "xdp"}
  /\ \E t \in Callers[program], input \in Inputs[program] :
       /\ ~OnCpu(t) /\ thread' = [thread EXCEPT ![c] = t]
       /\ Begin(c, With(input, "pid_tgid", Process[t] * WORD + t))
  /\ UNCHANGED clock

(* A packet is nobody's. *)
Receive(c) ==
  /\ Hook = "xdp" /\ \E packet \in Inputs[program] : Begin(c, packet)
  /\ UNCHANGED <<thread, clock>>

(* A thread that a switch takes off a CPU is on no other until it is done. *)
BeingSwitched(t) == \E c \in Cpus : ~IsIdle(c) /\ env[c]["ctx.prev_pid"] = t

Waiting == {t \in Threads : ~OnCpu(t) /\ ~BeingSwitched(t)} \cup {Idle}

Switch(c) ==
  /\ Hook = "sched_switch"
  /\ \E next \in Waiting \ {thread[c]}, tick \in Ticks :
       /\ Begin(c, With(With(NoVariables, "ctx.prev_pid", thread[c]), "ctx.next_pid", next))
       /\ thread' = [thread EXCEPT ![c] = next]
       /\ clock' = clock + tick

-----------------------------------------------------------------------------
(***************************************************************************)
(* One statement of main on CPU c.                                         *)
(***************************************************************************)
Is(c, op) == ~IsIdle(c) /\ Head(todo[c]).op = op
Value(c, a) == IF a.literal THEN a.n ELSE env[c][a.name]

GoOn(c) == todo' = [todo EXCEPT ![c] = Tail(@)]
Assign(c, x, n) == env' = [env EXCEPT ![c] = With(@, x, n)]
Catch(c) ==
  /\ todo' = [todo EXCEPT ![c] = <<Return(0)>>]
  /\ result' = [result EXCEPT ![c].raised = TRUE]
  /\ UNCHANGED env

Elsewhere == <<program, thread, clock, listing, events>>

SetInt(c) ==
  /\ Is(c, "set")
  /\ LET s == Head(todo[c]) IN Assign(c, s.x, Wrap(Value(c, s.a)))
  /\ GoOn(c) /\ UNCHANGED <<maps, result, history, Elsewhere>>

Apply(a, op, b) == CASE op = "+" -> a + b [] op = "-" -> a - b [] op = "*" -> a * b

(* Signed overflow is undefined: a register may keep what an int cannot. *)
ComputeInt(c) ==
  /\ Is(c, "compute")
  /\ LET s == Head(todo[c])
         n == Apply(Value(c, s.a), s.f, Value(c, s.b))
     IN \E r \in {n, Wrap(n)} : Assign(c, s.x, r)
  /\ GoOn(c) /\ UNCHANGED <<maps, result, history, Elsewhere>>

CheckedOperation(c) ==
  /\ Is(c, "checked")
  /\ LET s == Head(todo[c])
         n == Apply(Value(c, s.a), s.f, Value(c, s.b))
     IN IF IsInt(n) THEN Assign(c, s.x, n) /\ GoOn(c) /\ UNCHANGED result ELSE Catch(c)
  /\ UNCHANGED <<maps, history, Elsewhere>>

(* The clock is a u64, the variable an int. *)
ReadClock(c) ==
  /\ Is(c, "ktime")
  /\ env' = [env EXCEPT ![c] = With(With(@, "now", clock), Head(todo[c]).x, Wrap(clock))]
  /\ GoOn(c) /\ UNCHANGED <<maps, result, history, Elsewhere>>

(* The pointer that a lookup returns is followed in a step of its own. *)
LookupElem(c) ==
  /\ Is(c, "lookup")
  /\ LET s == Head(todo[c]) m == maps[s.map] k == Value(c, s.k) IN
       IF Has(m, k)
         THEN /\ todo' = [todo EXCEPT ![c] =
                            <<[op |-> "follow", x |-> s.x, map |-> s.map,
                               element |-> m.element[k]]>> \o Tail(@)]
              /\ UNCHANGED <<env, result>>
       ELSE IF s.raises THEN Catch(c)
       ELSE Assign(c, s.x, 0) /\ GoOn(c) /\ UNCHANGED result
  /\ UNCHANGED <<maps, history, Elsewhere>>

Follow(c) ==
  /\ Is(c, "follow")
  /\ LET s == Head(todo[c]) IN Assign(c, s.x, Wrap(maps[s.map].content[s.element]))
  /\ GoOn(c) /\ UNCHANGED <<maps, result, history, Elsewhere>>

StoreElem(c) ==
  /\ Is(c, "store")
  /\ LET s == Head(todo[c]) IN
       maps' = [maps EXCEPT ![s.map] = Update(@, c, Value(c, s.k), Value(c, s.a), s.flags)]
  /\ GoOn(c) /\ UNCHANGED <<env, result, history, Elsewhere>>

Holds(a, rel, b) ==
  CASE rel = "==" -> a = b [] rel = "<" -> a < b [] rel = ">" -> a > b [] rel = ">=" -> a >= b

Branch(c) ==
  /\ Is(c, "if")
  /\ LET s == Head(todo[c])
         taken == IF Holds(Value(c, s.a), s.rel, Value(c, s.b)) THEN s.then ELSE s.else
     IN todo' = [todo EXCEPT ![c] = taken \o Tail(@)]
  /\ UNCHANGED <<maps, env, result, history, Elsewhere>>

LoadField(c) ==
  /\ Is(c, "load")
  /\ LET s == Head(todo[c]) IN Assign(c, s.x, env[c][s.field])
  /\ GoOn(c) /\ UNCHANGED <<maps, result, history, Elsewhere>>

StoreField(c) ==
  /\ Is(c, "storePacket")
  /\ LET s == Head(todo[c]) IN Assign(c, s.field, Value(c, s.a))
  /\ GoOn(c) /\ UNCHANGED <<maps, result, history, Elsewhere>>

PrintLine(c) ==
  /\ Is(c, "printk")
  /\ LET s == Head(todo[c]) IN
       result' = [result EXCEPT ![c].printed =
                    Append(@, [text |-> s.text,
                               args |-> [i \in DOMAIN s.args |-> env[c][s.args[i]]]])]
  /\ GoOn(c) /\ UNCHANGED <<maps, env, history, Elsewhere>>

RaiseException(c) ==
  /\ Is(c, "raise") /\ Catch(c)
  /\ UNCHANGED <<maps, history, Elsewhere>>

(* whose event it was, and what *)
Subject(c) ==
  CASE Hook = "sys_enter" -> <<thread[c], env[c]["ctx.id"]>>
    [] Hook = "sys_enter_kill" -> <<env[c]["ctx.pid"], env[c]["ctx.sig"]>>
    [] program = "TrafficCounter" -> <<env[c]["mac"], env[c]["size"]>>
    [] OTHER -> <<thread[c], 0>>

Times(e) == IF e \in DOMAIN happened THEN happened[e] ELSE 0

RecordSwitch(c) ==
  LET prev == env[c]["ctx.prev_pid"] next == env[c]["ctx.next_pid"] IN
    /\ ran' = [t \in Threads |-> IF t = prev THEN ran[t] + env[c]["now"] - since[t] ELSE ran[t]]
    /\ since' = [t \in Threads |-> IF t = next THEN env[c]["now"] ELSE since[t]]

ReturnFromMain(c) ==
  /\ Is(c, "return")
  /\ todo' = [todo EXCEPT ![c] = <<>>]
  /\ env' = [env EXCEPT ![c] = NoVariables] /\ result' = [result EXCEPT ![c] = NoResult]
  /\ happened' = With(happened, Subject(c), Times(Subject(c)) + 1)
  /\ IF Hook = "sched_switch" THEN RecordSwitch(c) /\ UNCHANGED thread
     ELSE thread' = [thread EXCEPT ![c] = Idle] /\ UNCHANGED <<since, ran>>
  /\ UNCHANGED <<program, maps, clock, listing, events>>

Statement(c) ==
  \/ SetInt(c) \/ ComputeInt(c) \/ CheckedOperation(c) \/ ReadClock(c)
  \/ LookupElem(c) \/ Follow(c) \/ StoreElem(c) \/ Branch(c)
  \/ LoadField(c) \/ StoreField(c) \/ PrintLine(c) \/ RaiseException(c) \/ ReturnFromMain(c)

-----------------------------------------------------------------------------
(***************************************************************************)
(* The loader's output_opt: it goes through the printed map, from one key  *)
(* to the next.  The values it prints are left out.                        *)
(***************************************************************************)
Printed == maps[Examples[program].printed]
Lists == Examples[program].printed # ""

(* l at the first of keys, those that the kernel finds after l's *)
Advance(l, keys) ==
  IF keys = <<>> THEN [l EXCEPT !.at = "ended"]
  ELSE [l EXCEPT !.at = "lookup", !.key = Head(keys)]

Loader == <<program, maps, cpu, thread, clock, history, events>>

FirstAfterZero ==
  /\ Lists /\ listing.at = "asleep"
  /\ listing' = Advance([listing EXCEPT !.began = Stored(Printed)], KeysAfter(Printed, 0))
  /\ UNCHANGED Loader

FirstKey ==
  /\ Lists /\ listing.at = "asleep"
  /\ listing' = Advance([listing EXCEPT !.began = Stored(Printed)], Printed.order)
  /\ UNCHANGED Loader

PrintEntry ==
  /\ listing.at = "lookup"
  /\ listing' =
       IF Has(Printed, listing.key)
         THEN [listing EXCEPT !.at = "next", !.shown = @ \cup {listing.key},
                              !.twice = @ \/ listing.key \in listing.shown]
         ELSE [listing EXCEPT !.at = "next"]
  /\ UNCHANGED Loader

NextOfNone ==
  /\ listing.at = "next" /\ listing' = Advance(listing, Printed.order)
  /\ UNCHANGED Loader

NextEntry ==
  /\ listing.at = "next" /\ listing' = Advance(listing, KeysAfter(Printed, listing.key))
  /\ UNCHANGED Loader

ListingStep == PrintEntry \/ NextEntry

NextC ==
  \/ \E c \in Cpus : SystemCall(c) \/ Receive(c) \/ Switch(c) \/ Statement(c)
  \/ FirstKey \/ ListingStep

(***************************************************************************)
(* A program that has begun is run to its end, and so is a listing.        *)
(* Nothing makes an event happen.                                          *)
(***************************************************************************)
SpecC ==
  Init /\ [][NextC]_vars
       /\ \A c \in Cpus : WF_vars(Statement(c))
       /\ WF_vars(ListingStep)
=============================================================================
