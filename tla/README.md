# A verification development for Honey Potion

Honey Potion translates a subset of Elixir to eBPF: `use Honey` makes a module's
`main/1` into a C program for the kernel (the *back end*), writes a C loader for it
(the *front end*), and has both compiled by clang and libbpf. This directory holds
TLA+ modules that model what the generated C does, TLC configurations that check
them on small instances, and proofs, checked by TLAPS, of what holds for every
instance. Paths below are relative to the repository.

## 1. The system

### Components

| component | where | state | operations | hard behaviour | correct when |
|---|---|---|---|---|---|
| **Runtime memory** of a generated program | `translator.ex` (constants, tuples, lists, patterns), `boilerplates.ex` (`beginning_main_code`, the endings), `runtime_structures.bpf.h`, `runtime_generic.bpf.h` | three per-CPU arrays (string pool, tuple pool, heap) that outlive an invocation, and their indices, which do not | build a string, tuple, list; `=`, `case`; `raise`, return, `CATCH` | pools that fill up in the middle of a statement, data of earlier invocations left behind, handles made of bare indices, the order of allocations standing in for a list's links | handles stay in the pools, what was written stays, values mean in the pools what they mean in Elixir |
| **Runtime operators** | `runtime_functions.bpf.c`, `translator.ex` (`typed_binary_operation`, cond, case) | the values computed | seven operators on Generics, the same on C ints, `cond`, `if` | range checks at the ends of int, unsigned magnitudes, one Elixir expression compiled two ways by what the type analysis knows | the results are Elixir's or an exception; typing changes nothing |
| **Loader** | `boilerplates.ex` (`generate_frontend_code`, `output`), `OutputFunc.c` | where `main` is, the countdown, what the kernel has attached | open, load, attach, output once a second, signal handler | failures on the way up, signals at any point, unsigned countdown, attachments that outlive the process | `-t` is kept, nothing stays attached |
| **Map helpers** | `translator.ex` (`bpf_map_lookup_elem`, `bpf_map_update_elem`), `boilerplates.ex` (`generate_maps`), `honey.ex` (`defmap`) | the kernel's map, shared by the CPUs | lookup, read through the pointer, update | CPUs interleaving, maps that are full, hash elements recycled under a pointer, per-CPU copies | counts are those of the events |
| **The whole at run time** | all of the above | the map and the hook, shared by loader and CPUs | | the loader prints key by key while events go on | reports are of counts that were |
| **Compilation pipeline** | `honey.ex` (`__before_compile__`, `safe_*`), `utils/write.ex`, `utils/directories.ex`, `pipeline.ex`, the `Makefile` | files under `src/`, `obj/`, `bin/` of the user's project, the Makefile shared by its modules | the passes, write, make | which of a dozen failures is told and which passes for success; modules compiled at once over one Makefile; interruptions; stale files | silence means a new binary; no binary mixes two versions |
| **Fuel** | `ast/recursion_expansion.ex` | the AST | passes that expand recursive calls, until none finds one | calls inside arguments, variables of the same name in every copy of a body | main means the same as with calls that carry fuel |
| **Optimizer** | `optimization/*.ex` | the AST | constant propagation, dead code elimination | expressions with effects | evaluation is preserved |
| **Type analysis** | `analysis/*.ex`, `type_propagation.ex`, `typeset.ex` | sets of types by variable | propagate | types across `=` and branches, `/` of integers | what is a C int is an integer |
| **Example programs** | `examples/*/lib/src/*.bpf.c`, the compiler's output as it is committed, and the `.ex` files it was made of | maps keyed by thread, pid, time, address; the packet | one invocation at each system call, switch, kill or packet | CPUs and threads that move between them interleave on shared maps, maps that fill up, a 64-bit clock in an int, headers that a packet may be too short for, listings under updates | counts, alerts and times are those of what happened; packets are steered and not read past their end |
| **Packets** | `translator.ex` (`Honey.Ethhdr`, `Honey.XDP`), `DropUdp.bpf.c`, `TrafficCounter.bpf.c` | the packet | read, compare and set header fields | each header has a bounds check of its own | no byte after the last one is touched |
| **printk, Logger** | `translator.ex`, `codegen/c_libraries` | none | format | | the lines are those the source asks for |
| **Accessors** | `utils/guard.ex`, `utils/core.ex`, `runtime/*.ex`, `ast_size.ex` | none | | | |

### How they interact

At compile time the pipeline runs: macro expansion and fuel, optimizer, type analysis,
`Translator`, `Boilerplates`, `Write`, `make`. The static types decide which of two
translations an operator, a map key or a condition gets (input `static` of
`RuntimeOperators`, `generic` of `SharedMaps`).

At run time there are three kinds of actors. The *loader* is a user process: it opens,
loads and attaches the program, then alternates between printing the maps and sleeping a
second. *CPUs* run the program at its events: one invocation at a time on each CPU, all at
the same time as the loader. The *kernel* keeps the maps and the attachments. The pools of
the runtime memory are per-CPU arrays, so CPUs meet only in the maps that `defmap` declares,
and the loader and the CPUs meet in those maps and in the attachment.

## 2. The modules

    Terms <- ElixirBindings            what a program means in Elixir
      ^           ^  (refinement)
    RuntimeMemory <- RuntimeImplementsElixir <- MCRuntimeImplementsElixir
          ^- MCRuntimeMemory      ^- RuntimeMemoryProofs
    RuntimeOperators <- MCRuntimeOperators, RuntimeOperatorsProofs
    EventCounters                      what counting promises
      ^ (refinement)
    SharedMaps <- MCSharedMaps, SharedMapsProofs
      ^                 Frontend <- MCFrontend, FrontendProofs
      `--- HoneySystem ---^  <- MCHoneySystem, HoneySystemProofs
    ElixirAst <- FuelExpansion, Optimizer, TypePropagation
                        ^- Compilation <- MCCompile
    CompilePipeline <------'
      ^- CompilePipelineProofs
    KernelMaps <- ExamplePrograms <- GeneratedC <- Examples <- EndlessListing <- MCExamples
                        MonitorsProofs -> ExamplesProofs -^

### RuntimeMemory

One CPU running *any* program: a behaviour is a sequence of the elementary statements that
the translator makes of an expression, each picked by the environment over the values
bound so far (`env`), then a return, and then the next invocation over the same pools.

| action | code |
|---|---|
| `BeginMain` | `beginning_main_code`: the three indices are reset, the pools are not cleared, and the text `nilfalsetrue` is copied to the bottom of the string pool without moving its index |
| `IntValue`, `AtomConst`, `StringConst` | `constant_to_code`; the string's room check, copy, inclusive end and new index |
| `TupleLiteral` | `to_c` of a tuple and `allocate_tuple_in_heap`: every element has its own two checks, the indices advance at the end, so a failure leaves garbage above them |
| `EmptyList`, `ConsCell` | `to_c` of `[]`, of `[h \| t]`, `allocate_list_header_into_heap`: four stores with four checks and four increments; the tail is `heap_index - 1`, never `t` |
| `StartMatch`, `MatchAny` ... `MatchCons`, `MatchSucceeds` | `pattern_matching` and its callers, one emitted check a step; `gen` is the translator's flag of that name |
| `Mismatch` | the exit labels of `=` (CATCH) and `case` (the next clause) |
| `RaiseStmt`, `ReturnMain`, `Catch` | `raise`, the end of main, `CATCH` |

A Generic is a type with the two halves of its union, `start` and `end`, so that an integer
seen as a handle, or a handle past its pool, means what it means in C. Abstracted: floats
(no operation of the runtime on them does anything but raise), characters of more than a
byte, and the three checks of the pools' own lookups, which cannot fail for an array's
key 0. Nested expressions are sequences of statements, which is what the translator makes
of them. `IntValue` stands for every statement whose result is an integer: constants,
operators and helpers touch no pool.

`ElixirBindings` is the abstract specification: variables bound to terms, no memory.
Its matching goes through a pattern part by part (`Run`), which by `MatchSteps` parts is over.
`RuntimeImplementsElixir` gives the refinement mapping: `Term` is what a Generic denotes through
the pools, by way of the terms of the heap cells (`CellTerms`), each of which refers to earlier cells
only; while the checks of a match are being made, the abstract statement has not happened yet.

### RuntimeOperators

`Sum` ... `LessThan` and `ToBool` are the C functions, with their checks and their
conversions (`Unsigned`, `Long`). `GenericOperation` is the macro `BINARY_OPERATION`,
`TypedOperation` the bare C operator of `typed_binary_operation`, `Condition` one test of
a `cond`, `IfStatement` the `case` on `false` and `true` that Elixir makes of `if`.
`meaning` carries along what the same operations give in Elixir. The signed overflow of C
ints is undefined: the result is either the exact or the wrapped one.

### Frontend

`main` of the loader, one action for each call that can fail or take time, for a
tracepoint and for an XDP program, with and without a printed map (`made`). `hooked` is the kernel's side: a BPF link goes
with the process that holds it, an XDP program stays on its interface. `Signal` comes at any
time and runs `_unloadProg` once that is installed; between that and `if_nametoindex` the handler unloads interface 0, that is, nothing. `RunAgain`
starts the binary again. `Exit`, `Signal` and `RunAgain` are the environment's.

### SharedMaps and EventCounters

The program every counting example is (`examples/count_syscalls`): lookup, read through
the pointer, add one, update; on `NCpu` CPUs and one of the four map types, with events on all CPUs or
on some, with or without a default, with a key of known or unknown type, with each flag. The kernel's part
is external: an array and a per-CPU map are written in place; a preallocated hash map puts
the CPU's spare element in the place of the old one, which becomes the spare; a new key
takes any unused element; a full map, a missing key under `BPF_EXIST`, a present one under
`BPF_NOEXIST` make the update an error, which the program returns and nobody reads.
`EventCounters` is the promise: one counter for each key (and CPU, for per-CPU maps) that
adds one for each event, missing events only as long as it never counted one.

### HoneySystem

`Frontend` and `SharedMaps` instantiated on shared variables: an event needs the hook to
begin but not to go on, and the loader prints the keys of `print_elem` one at a time while
the CPUs run. A key that is not in the map "failed to print". `RunAgain` is left out: one
run of the loader is one system.

### KernelMaps, ExamplePrograms, GeneratedC and Examples

`SharedMaps` is one program on one map, in all the variations that the translator makes of
it. These four are the other way round: the twenty programs of `examples/`, each as it is
compiled, with all their maps, on a machine of several CPUs and threads.

* `KernelMaps` is the kernel's side (external): arrays, whose elements stay where they are,
  and preallocated hash maps. `Update` is total: a key outside an array, a full map, a flag that forbids
  it change nothing. Storing a key a hash map has takes the CPU's spare element and leaves the
  old one as the spare; either way the key goes to the head of its bucket, which is the
  order `KeysAfter` (`bpf_map_get_next_key`) goes by. Any int may be a key: -1, the pid of `kill(-1, 9)`, is one
  like the others, and the first call of a listing passes NULL and no key.
* `ExamplePrograms` has the statements of each `main_func` between "beginning of user
  code" and "end of user code", in their order: lookups with and without a default, checked and
  unchecked arithmetic, stores with their flag, branches, packet reads with the byte they
  end at, `printk`, raise, return. Left out are temporaries, the wrapping of a C int into a
  Generic on its way to a map, and tests of `op_result.exception` after statements that
  cannot raise. `Examples` pairs each with its hook and its maps.
* `GeneratedC` runs them. Events: `SystemCall` by a thread on any CPU, `Receive` of a
  packet, `Switch` from one thread to another at a time of the clock. One action for each kind of
  statement; a lookup and the read through its pointer are two steps (`LookupElem`,
  `Follow`), so that another CPU may store in between. Signed overflow is undefined: a
  register may keep what an int cannot (`ComputeInt`); what goes through memory is an int.
  `FirstKey`, `PrintEntry` and `NextEntry` are the loader's `output_opt` going through a hash
  map while the events go on.
* `Examples` says what each program is for, in terms of the events that happened
  (`happened`, `ran`, histories).
* `EndlessListing` takes the bound off the events of some programs (`Forever`), as long as the loader's listing is not
  over: `StartOver` forgets how often what has happened did, so that as many events may happen again, and again.
  `moved` remembers the keys that stores may have moved meanwhile.

`count_syscalls` returns what the update returned, and the model 0: nothing reads the result of a tracepoint program.

### CompilePipeline

`__before_compile__` of each module that `mix` finds changed, all at once, each a process. Every
call that can fail is an action with its failures as disjuncts:

| action | code |
|---|---|
| `CheckMain`, `BurnFuel`, `BurnAgain`, `Optimize`, `GenerateCode` | `safe_main_exists` ... `safe_generate_code`: an exception is rescued and raised again, which fails the compilation |
| `OpenBackend`, `WriteBackend`, `FormatBackend` | `write_backend_code`: a failed match on `File.open` raises; nobody looks at `IO.binwrite`'s result; `System.cmd` of clang-format raises |
| `WriteFrontend` | `write_frontend_code`: nobody looks at `File.write`'s result |
| `OpenMakefile`, `CopyMakefile` | `write_makefile`: for a moment the directory's Makefile is empty, whoever reads it; `File.cp_r`'s error is a triple that falls to the last clause, a warning |
| `RunMake`, `Clang`, `Bpftool`, `Gcc` | `safe_compile_bpf` and the Makefile: `clean` first, then one rule after the other; an exit code other than 0 is a warning, make not being there is nothing at all |

`told` is what the user sees; `untold` and `lost` are histories of the failures that nobody sees.
`mix`, its user and the tools are external: mix takes sources for compiled unless one
raised, so a module whose make failed with a warning is not tried again. An interruption ends mix and make.

### ElixirAst, FuelExpansion, Optimizer, TypePropagation, Compilation

`ElixirAst` has the trees the passes work on, of the part of Elixir that the properties are about (integers,
atoms, variables with version and context, `=`, arithmetic, `==`, `<`, blocks, `case`, `cond`, printing, raise,
calls of one recursive function) and, external, their evaluation. The three modules of passes are the code's
walks over the tree, in its order (`WalkChildren` carries the accumulator of a postwalk; a prewalk is a node's rewrite, then `MapChildren`).
`Compilation` gives them to `CompilePipeline` as its parameters and compares what main means before and after.

### Names that are not the model's

The modules' headers list definitions that no action uses (`StringFitsExactly`,
`CountDownFrom`, ...). Each is its neighbour's definition with a slip such as the code could
have; putting it in its neighbour's place must violate the property that `PROJECT.json`
pairs it with ("mutants"), which shows that the property depends on the code being right
there.

## 3. What is checked

Runs that pass:

| run | question | bounds and why they are enough |
|---|---|---|
| `memory_any` | For any program and lists built in any order: `TypeOK`; handles anywhere stay in the pools (`PoolBounds`); nothing written is overwritten before the invocation ends (`WriteOnce`) | pools of 12 characters (the least that holds the atoms' text), 3 words, 3 cells, 3 values: each pool can be full at each of its checks, two strings of 5 characters are exactly one too many, tuples of 1 and 2 with patterns of 1 and 2 read past their ends. Invocations are not bounded: the state space closes |
| `elixir` | `RuntimeMemory` implements `ElixirBindings` (`ImplementsElixir`); no value reaches what an earlier invocation left (`NoStaleData`); strings keep their text (`StringsIntact`). Two families of programs: constants in the clauses of a case, in tuples and atoms under `=`; and lists built right after their tails, variables in patterns, tuples in lists | every kind of constant at top level and inside a tuple; a clause that fails half way before one that matches; tuple patterns of the sizes of the tuples; lists of one element and `[]`, or a tuple and its list, in 4 cells |
| `operators` | two families of programs: chains of `+ * == > <` on Generics, and all seven operators on both static types. As long as only the first were used, the results are Elixir's (`Agrees`), branches on them too (`BranchesAgree`), exceptions come only for results out of range (`RaisesOnlyOutOfRange`); the typed path agrees with the generic one where that does not raise (`TypingIsTransparent`, of `+ * ==`) | 3-bit ints, all 8 values; 4 values in the first family (every pair of operands, and results as operands again), 3 in the second |
| `loader` | all four loaders: `-t` is exact to the second and to the report (`TimerIsExact`), a timed run ends when a map is printed (`TimedRunEnds`), nothing stays attached of a loader that a signal ended after attaching (`SignalUnhooks`) | `UINT_MAX = 3` so that `time++` wraps for `-t 3`; failures and signals everywhere, runs without limit |
| `maps` | all four types and flags: no interleaving on arrays or per-CPU maps counts an event that was not (`CountsNeverExceed`); where no two CPUs share a counter and the int does not overflow, that is on per-CPU maps, or on any map with one CPU, the maps implement `EventCounters` (`ImplementsCounters`) | 2 CPUs, 3 keys (one negative, in no array) in a map of 2, so a key is always left out; 4 events, the last of which reaches the end of an int, fill the map and bring a recycled element around |
| `reports` | one CPU, an array and the loader: reports tell counts that were (`ReportIsCurrent`), never go down (`ReportsNeverDecrease`), and catch up when events stop (`ReportCatchesUp`) | keys 0, 2, 1 printed of an array of 2: one in the middle that fails to print; `-t` of 2 (which wraps) and none; 3 events; all four loaders |
| `examples` | the twenty programs: counts per thread are exact or the map is full (`CountsAreExact`), alerts are raised when due and only then (`AlertIsDue`), times add up modulo 2^32 (`TimeIsExact`), unlocked counts never exceed the events and are exact for one thread (`UnlockedCounts`), the programs without maps mean what their Elixir says (`ElixirMeaning`), packets are steered (`UdpIsSteered`) and not touched past their end (`PacketInBounds`), killed pids are kept (`KillsAreKept`), a listing under kills shows each pid once (`KillsListed`) and ends though the kills never do (`KillsListingEnds`), and one of `traffic_counter`'s map shows the keys that packets do not move (`UnmovedListed`) | 2 CPUs, 3 threads that may call from either, hash maps of 2 entries in 2 buckets (a third thread finds them full), threshold 1 so that an alert is raised by the second call, `INT_MAX` 4095 and ticks of 1 and 5000 ns so that the clock and the differences overflow an int; the pids -1 (as of `kill(-1, 9)`) and 1 in one bucket, 2 in another: pids that the map has, that it still takes and that find it full, and kills without end (`ForceKillOnly`); source addresses of the keys 0, 0 and 2, all in one bucket, so that a packet may move the key after the listed one before it; every header cut at and around each of its ends; 3 events, of the monitors' longer programs 2, of `drop_udp` 1, of `force_kill` 1 between two `StartOver`, as a kill counts once however often it comes |
| `compile` | the passes: main means after expansion what calls that carry fuel mean (`FuelIsSpent`), after the optimizer what the source means (`MeaningIsKept`), and static integers are integers (`TypesHold`); the files: a compilation without error or warning has built its binary (`OkMeansBuilt`), no binary joins two versions (`HalvesMatch`), every run of mix ends (`CompileEnds`) | three families. 600 sources, each compiled alone with every failure: five functions (linear, binary, nested in its own argument, with effects, with swapped parameters) with fuel 0 to 3, called twice; eight expressions bound to a variable under seven tests in `cond` and `case` with three last clauses. One module edited twice, also to a source without main, with an unfueled call, with an undefined function, interrupted anywhere. Two modules side by side with every failure, compiled again until nothing is left to do |

Runs that find a disagreement between the code and what a document or comment of the
repository says (in `PROJECT.json`, "findings", with the quotations):

| run | what the counterexample shows |
|---|---|
| `if_typed` | `if` on `<` or `>` of two C ints raises CaseClauseError: the comparison is the C int 0 or 1 and the clauses check for atoms |
| `duration_xdp` | when `-t` is over an XDP program stays on its interface |
| `lost_update` | two CPUs add one to the same count and one event is lost |
| `macs_apart` | `traffic_counter` counts two source addresses that share their first four bytes as one: the map of `key_size: :char6` is created with int keys |

### The limits of what holds

The properties are stated for as much of the code as they hold of. What is outside:

* `TypingIsTransparent` and `Agrees` leave `-` out: `Subtract` (`runtime_functions.bpf.c:95`)
  stores the *sum*, under range checks of a sum, while the typed path subtracts. They leave
  `/` out: for operands of different sign `Divide` negates an unsigned quotient (`:176`), and
  the long that gets it is near 2^32.
* The refinement asks that tuple patterns have the size of their tuples: the code checks only
  the type (`translator.ex:1129`), so `{a, 1} = {b}` reads past the tuple, within the pool
  (`PoolBounds`), into what an earlier invocation may have left.
* It asks that `[h | t]` is built right after `t` (`DisciplinedLists`): the tail is the heap cell
  written last (`translator.ex:965`), so a tuple built between a list and its extension becomes
  the tail.
* It asks for integer constants in patterns only inside tuples or as a clause of `case`: under
  `=` itself and as an element of a list the comparison is not emitted (`translator.ex:1254`).
* The text of the atoms at the bottom of the string pool is overwritten by the first string
  constant (`boilerplates.ex:504-508`). Atoms are compared by their places, so no run of the
  model can tell; a runtime function that read the text would.
* `CountsNeverExceed` leaves hash maps out, where a CPU may read through its pointer after the
  element has become another key's: two CPUs, two addresses of `traffic_counter`; one CPU has looked up its key and
  not yet read through the pointer (`translator.ex:296`); the other stores that key, which makes the element its
  spare one, and then the other key, which gets it; the first CPU reads that key's count and stores it, with one
  added, under its own. `ImplementsCounters` and
  `reports` leave out several CPUs on a shared map because of `lost_update`.
* `TimeIsExact` leaves out pid 0, which is the idle thread of every CPU: they share one start
  and one total in `cpu_monitor`. A thread that ran when the program was attached is charged for
  the time since boot. The line it prints has the total of `prev_pid` beside `next_pid`
  (`CpuMonitor.bpf.c:258`).
* `UdpIsSteered` takes the IPv4 header to have no options: `nh_off` advances by the least
  length (`DropUdp.bpf.c:106`).
* `KillsAreKept` is about pids; none is deleted, so a pid used again is still listed.
* `KillsListed` does not hold of `traffic_counter`, whose `BPF_ANY` moves the key it stores
  to the head of its bucket: a listing may meet it twice or miss it. It meets the keys that stay where they
  are (`UnmovedListed`), if it ends, which it need not: while packets of two addresses of one bucket are stored in turn,
  `output_opt` (`TrafficCounter.c:108-118`) goes from one to the other and back without an end, and neither the report
  nor the countdown of `-t` comes about. So `KillsListingEnds` is of `force_kill`, and no run lets the packets of
  `traffic_counter` go on for ever.
* `CountsAreExact` has the thread that first calls when its map is full: it is never counted,
  and `AlertIsDue` leaves it out, whose calls are then counted in one direction only.
* `OkMeansBuilt` leaves out the three failures that are not told (`untold`): make cannot be run
  (`{:error, _}` matches `{_cmd, _exit_code}`, so "BPF compilation failed" is never raised, `honey.ex:71`), and
  the results of `IO.binwrite` and `File.write`. `HalvesMatch` leaves out the last (`lost`).
* `FuelIsSpent` has no `fuel(n, f(fuel(k, f(x))))` in main: the expansion of the outer call gives its own fuel to
  what is left of the inner one (`recursion_expansion.ex:96-118`).
* `MeaningIsKept`: arithmetic on constants that raises in Elixir fails the compilation, also where it would not be
  reached. `analyze_case` compares a constant with the patterns by `==`, so 2.0 takes the clause of 2, and a literal
  that matches is taken before a variable or `_` above it; neither form is among the sources.
* `TypesHold` counts true and false as values of `<`, to which the analysis gives the type integer. The type of
  `/` is a set inside a set (`type_propagation.ex:162`), which equals no type, so a quotient is never a C int.
* `TimedRunEnds` asks for a printed map or `-p`: otherwise `output_opt` is the endless spinner of
  `OutputFunc.c` and the countdown is never reached. It also takes one output to end: an array's does, a hash map's
  need not.

**Deadlock** is checked in every run but `maps`, `lost_update`, `reports`, `examples` and `macs_apart`, where the
bound on the events (and the loader's exit) ends every behaviour, and `compile`, which stops when nothing is left to
compile.

**Bounds in guards**: `MaxBindings` (values of an invocation), `MaxValues` (values computed),
`MaxCalls` and `MaxEvents` (events; of the programs in `Forever`, between two `StartOver`), `MaxEdits` (edits); the histories `outputs` and `slept` stop counting at
`UINT_MAX + 2`, beyond what any timed run reaches. The `room` of a family of `elixir` is its
`MaxBindings`. `MatchSteps` bounds Elixir's matching: `StepsSuffice` has TLC match every clause with
3280 terms, and all are over by then.

**Order of local statements.** `MCExamples` lets a statement on one CPU's variables or packet
go before everything else, CPU 0's first, and the return too, after which the thread may call again. Such a statement neither affects nor is affected by a
step of another actor, the loader's included, and no property relates the variables of two CPUs, so the behaviours left
out show nothing more. `InitMC` numbers the running threads, which are alike, and `Called` those of `force_kill`, which
does not ask whose call it is.

**Fairness.** `SpecMaps` assumes that every CPU's invocation goes on: the verifier admits only
programs that end, and the kernel runs an invocation to its end.
`SpecFrontend` assumes that the loader is scheduled and that `sleep` and the system calls
return. `SpecSystem` assumes these two. `SpecC` assumes that the statements of an invocation and the
steps of a listing go on. `SpecEndless` assumes the same of each CPU (`Run`) and of the listing (`List`); the run takes
less (`SpecMC`), that some CPU within an invocation goes on. `StartOver` is not fair, nor is any event, so a listing
that ends does so whether events come or not. `Fairness` of `CompilePipeline` assumes that a compiler process under way and the
tools it runs go on, and that mix ends when all have ended; failures may recur forever. Its second part is the weak
fairness of `Compile(m)` written out, since `Busy(m)` is when it can take a step. Nothing is assumed of events, signals, or of the
loader being run again: they may never happen.

## 4. What is proved

`RuntimeMemoryProofs`, for all pool sizes, constants, patterns and numbers of invocations
(assumptions: `SizeAssumption`, which asks that the atoms' text fits and that an unsigned
holds the indices, and the well-formedness of the constants):

* `TypeCorrect`: `Spec => []TypeOK`.
* `HandlesStayInPools`: `Spec => []PoolBounds`.
* `ImmutableWhileRunning`: `Spec => WriteOnce`.
* `NothingStale`, `StringsStayIntact`: `Spec /\ []TuplesFit => []NoStaleData` and `[]StringsIntact`, for
  programs that build each list right after its tail (`DisciplinedLists`).
* `ShortPatternsFit`: `[]TuplesFit` holds of any program none of whose tuple patterns is longer than any of its tuple
  literals (`ShortPatterns`), so the hypothesis of the two can be read off the source.
* `RuntimeImplementsBindings`: `Spec /\ []SizesAgree => ImplementsElixir`, the refinement of `ElixirBindings`, for
  programs with `DisciplinedLists`, `ChecksConstants` (integer and text patterns only where they are compared in full)
  and `EnoughSteps` (the match of every clause is over in `MatchSteps`).
* `SizedProgramsImplementBindings`: `Spec => ImplementsElixir` for such programs whose tuple patterns all have the size of
  all their tuple literals (`SizedPatterns`).

The invariant of the first three is `IInv == Typed(SafeGeneric)`: the type invariant in which every Generic,
in a variable, in a check to be made or in any heap cell, is `Bounded`. Neither half is
inductive alone: a tuple pattern longer than its tuple copies whatever lies in the heap into
a variable, so the bound must hold of garbage too, and the bound on new handles follows from
the types of the indices. Each action is one lemma; tuples and lists share `Allocates`, the
statement that a literal writes at and above the indices only. `WriteOnce` follows from `IInv`
and the same lemma.

`NoStaleData` adds a second invariant, `FreshInv`. It says of every value in hand (in a variable, in a check, in a
pending binding) *and of every heap cell below the index* that it is `Sound`: its handle ends below the index
of its pool, its string is a whole constant, its tail is a list, its size is that of some literal. Cells are included because a
value reaches others through them; the words of the tuple pool are below `heap_index` for the same reason. A
value that is read out of the pools is then sound because it was sound where it lay, and by `WriteOnce` it
still lies there. `DisciplinedLists` is what makes `heap_index - 1` the tail that was meant, and `TuplesFit`,
that no pattern is longer than its tuple *when they meet*, keeps a match from reading past the tuple. Both are
limits of the code (section 3); every state of run `elixir` satisfies them.

The refinement needs a third invariant, `OrderInv`: what a cell refers to lies below it (`HeapInOrder`). So the terms of the
cells are well defined (`CellTermsAre`), and a step that keeps what is below the indices keeps the term of every live value
(`TermKept`), by induction over the cells. A statement that builds gives up, which is Elixir's raise, or leaves a value
whose term is the one meant (`StringMeans`, `TupleMeans`, `ConsMeans`): here `DisciplinedLists` enters. A match takes many steps
here and one in Elixir. `EachStepAgrees` compares each emitted check, on the value, with Elixir's comparison, on its term; it
needs that a value in hand has a type its term shows (`IsMeant`, `HeldMeaning`), that nothing is read above the indices, and, where the code compares less
than Elixir, `ChecksConstants` and `SizesAgree` (no pattern is shorter than its tuple either). `MatchInv` then ties a match under way to
Elixir's: its checks and bindings, seen as terms, are where `Run` of the same clause and term is after some number of steps, and every earlier
clause has failed. When the checks run out, that is Elixir's verdict (`SuccessIsMatch`, `FailureIsMatch`); all other steps of a match are stutters. TLC found
`MatchInv` to hold in every state of run `elixir` before it was proved.

`RuntimeOperatorsProofs`, for every `INT_MAX` and every long wider than an int
(assumptions: `WidthAssumption`, `ProgramAssumption`), with any operators on any static types; the first three as
long as the history `exact` says that only `+ * == > <` on Generics were used:

* `GenericsAreExact`: `[]Agrees`, the values are Elixir's.
* `BranchesFollowTruth`: `[]BranchesAgree`.
* `NoSpuriousRaise`: `RaisesOnlyOutOfRange`.
* `StaticTypesAreTransparent`: `[]TypingIsTransparent`, whatever was used before: where a Generic `+`, `*` or
  `==` does not raise, the C operator gives the same.

The core is `MultiplyExact`: the check `|a| > Limit \div |b|` holds exactly when the product
does not fit, on either side of zero and at `INT_MIN` (`CompareByDivision`, `ProductFits`,
`MinimumOverflows`). The invariant adds to `Agrees` that all values are Generics of an int's range
or booleans. For the typed path it is enough that values are typed: once the checks of a Generic operator are
known to be exact, a result that passes them is one where the C operator has nothing undefined to choose.

`FrontendProofs`, for every `UINT_MAX`, every set of durations and any of the four loaders
(assumption: `FrontendAssumption`):

* `FrontendTyped`: `[]TypeOK`.
* `DurationIsExact`: `[]TimerIsExact`, for `-t UINT_MAX` too, where `time++` wraps to 0.
* `SignalsUnhook`: `SignalUnhooks`.

`TimerIsExact` speaks of the end of a run only. `Counting` makes it inductive: it ties the
countdown to the sleeps and the outputs so far, at each place of the loop that changes one of
them. `Hooks` does the same for the attachment: where a tracepoint loader may hold one, and
from which place on an XDP loader's handler is installed.

`SharedMapsProofs`, for any number of CPUs, any keys, `max_entries`, `INT_MAX` and number of
events, and all the programs of `Program` (assumption: `MapAssumption`):

* `MapsTyped`: `[]TypeOK`.
* `NoCountInvented`: `[]CountsNeverExceed`, for arrays and per-CPU maps.
* `CountingIsExact`: `ImplementsCounters`, the refinement of `EventCounters`, for per-CPU maps on any number
  of CPUs and any map on one.

A CPU writes back what it read several steps earlier, so `CountsNeverExceed` needs what the
CPUs hold in between: `PointersCurrent`, a pointer is still to the element of its key, and
`ItemsBelow`, what was read is not above the events of that key. The first is false of hash
maps, and so is the theorem. `Apart` is there because an update in place would otherwise
change another key's count.

For the refinement, "below the events" has to become "is the count". `OneHolder` says that a pointer is to its key's
element and that what was read is still the count, as long as no two CPUs with the same counter are in the program
(`OneAtATime`); this holds of hash maps too, since nobody else stores. `CountsBelow` then bounds every count by its
events. `NextRefines` maps `Write` to a step of `EventCounters`, and every other step to a stutter.

`HoneySystemProofs`, for any of the four loaders, any CPUs, keys and lines to print (assumption:
`SystemAssumption`, which contains those of the two parts):

* `PartsKeepPromises`: in the system, `TimerIsExact` and `CountsNeverExceed` hold as they do of the loader and
  of the map alone.
* `ReportsAreCurrent`, `ReportsNeverFall`: `SpecSystem /\ []Undisturbed => []ReportIsCurrent` and
  `ReportsNeverDecrease`.

`PartsInv` is the conjunction of the parts' invariants: every step of the system is a step of a part or leaves it as
it was (`SystemIsLoader`, `SystemIsMaps`), so the parts' own lemmas are used, through `INSTANCE`, and nothing is
proved twice. `Undisturbed == OneAtATime /\ NoneWraps` is that of `CountingIsExact`: without it counts themselves fall
(`lost_update`). Every state of run `reports` satisfies it. `ReportInv` says what a report knows half way: the
lines printed so far are of counts between the one at the report's start and the one now. It holds of a screen that was printed
key by key while CPUs ran because, undisturbed, a count never falls (`CountsOnGrow`).

`ExamplesProofs`, for any CPUs, threads, programs of the list, ticks and map sizes (`KernelMapsAssumption`,
`ExampleAssumption`, `GeneratedCAssumption`):

* `KillsStayKept`: `[]KillsAreKept`, if the fields of a kill's context are ints (`KillsAreInts`).
* `KillsAreListed`: `[]KillsListed`, under the same assumption.
* `DropUdpSteers`: `[]UdpIsSteered`, for packets of which every field that the program reads is given, their
  length a number (`InputsArePackets`).
* `NothingPastPackets`: `[]PacketInBounds` of all twenty programs, for packets of any length (with
  `InputsArePackets` for `drop_udp` and `InputsAreFrames`, that a length is a number, for `traffic_counter`).

That the kernel's maps keep the elements of their keys apart, as far as an update goes, is the lemma `UpdateKeeps`, on which what is
proved of the programs' counts rests. Its hard case is a new key: that a free element exists is a counting argument (`FreeElement`: the
elements in use are at most `max - 1`, the spare ones `NCpu`, and there are `max + NCpu`). `OnceOnly` says what
`BPF_NOEXIST` stores and what it leaves, for the proof about killed pids, and `StoreAny` what `BPF_ANY` does, for the monitors.

Only `StoreElem` changes a map, and it is an `Update`; the maps of every example are sound when
they are created (`MapsAreNew`). `KillsAreKept`, `UdpIsSteered` and `PacketInBounds` are about straight-line code on several CPUs: their
invariants (`KillPoint`, `UdpPoint` and the like) say, for every suffix of the program that a CPU may have left, what its variables, its
packet and the maps then hold. `StepOfOne` sees any step of the system from one CPU: nothing, the start of main, or one statement of
its own. A program that never touches a packet needs no suffixes: the set of statement lists without
packet accesses is closed under taking a branch and going on (`NoPackets`).

`KillsListed` speaks of the end of a listing, and takes three facts on the way (`ListsKills`). `Enumerates`: the order of the map
has every key it stores, each at one place. `IsAt`: the key the loader is at has a place `n`, or `n + 1`, so it is never one that
the kernel does not find, which would start the listing over. `BeenThrough`: what was shown is among the first `n` places, and
what was there at the beginning is shown if it is among them. A kill puts a new key at a place of its own and leaves the
others in their order (`AtTheHeadInserts`), so `n` stays or grows by one, as the place is behind or before it (`NewKeyUnderListing`); where
that place is, which is a matter of buckets, does not enter. At the last place `n` is the length of the order, so everything is shown.

`ElixirMeaning` speaks of a program's end, so `MeaningInv` says on the way that a CPU is about to return what its input means
(`IsEnd`), about to print it (`IsPrint`), or at a place of its program with the variables it has there (`FactPoint`, `ListPoint`,
`StraightPoint`). In `fact` a place is one of the calls that fuel has expanded, its argument the input less the calls before it,
or the exception; that the register may be wider than an int is allowed for: `id - 1` is 1 for `id` 2 only, wrapped or not
(`LessOneIs`). That the recursive function `factorial` has the values it is defined to have is proved too (`FactorialIs`), by
induction over a set of numbers.

`MonitorsProofs`, under the same assumptions, of `disk_monitor`, `network_monitor` and `memory_monitor`, of `cpu_monitor`, and of `maps` and
`count_syscalls`:

* `CountsStayExact`: `SpecC => []CountsAreExact`.
* `AlertsAreDue`: `SpecC => []AlertIsDue`.
* `TimeStaysExact`: `SpecC => []TimeIsExact`.
* `UnlockedAreCounted`: `SpecC => []UnlockedCounts`.

The first two assume `CallsAreInts`: the ids of threads may be keys of the maps, those of the calls are C ints, every thread that calls is one of
`Threads`, and at most `INT_MAX` calls are made, for a count is an int. The instance that TLC checks satisfies it.
It is not assumed that the maps have room, that a thread stays on its CPU, or that CPUs wait for each other.

A count is read in one statement and stored in a later one without a lock; what makes it exact is that the key is the thread's
own and that a thread runs on one CPU at a time (`NoneOnTwo`). `MonitorInv` says so step by step. `Place` gives, for every suffix of
main, what the variables are in terms of the maps *now*: after the lookup `count` is the thread's current count, after the addition
`new_count` is one more, before the alert `total_calls` is the sum of both. That other CPUs' stores keep it
true is `PlaceKept`, from `StoreAny`: storing under one key changes no element of another. `CountInv` has the count of each
thread equal to its calls that are over, plus one between the store and the return (`Called`); `BoundInv` that a thread's counts, and the
call it is about to count, are no more than the events, so that no `Wrap` cuts anything off; `AlertInv` that the alert fits the counts except while it is
being decided. None of the four is inductive alone. What a monitor's statements
do is classified once (`CallStatement`): a call goes on, is counted, has its alert set, or is over; each has its lemma (`GoesOnKeeps`,
`CountsCallKeeps`, `SetsAlertKeeps`, `OverKeeps`). That the promise's classification of calls (`CountedIn`) is the program's (`KindsOf`)
is `KindFacts` and `AllAreCounted`: a call that no clause of the `cond` takes is in no set of `CountedIn`.

`TimeStaysExact` assumes `PidsHaveRoom`: every pid is an index of `cpu_monitor`'s two arrays, which have 41943040 elements; Linux has
no pid above 4194304. The clock may be cut to an int at any time and every subtraction and sum may overflow or not, so the invariant compares modulo 2^32
only (`Same`, which sums, differences and `Wrap` respect). `SwitchPlace` has, for every suffix of main, what each variable is the same as;
`StartInv` and `TotalInv` that an array entry is the same as the history, or, between its store and the end of the switch, as what the history will be then.
What they need is `SwitchesApart`: who is being taken off a CPU runs on none, and is being taken off no other, so nobody else
stores its two entries until the switch is over. The history is written by the return alone (`SwitchOverKeeps`), where both catch up.

`UnlockedAreCounted` assumes `CountsFit`: whoever calls is one of `Threads`, the context's ids are C ints, the keys 0 to 6 of `maps`
are considered, and an int suffices for what is added up (an entry of `maps` grows by up to 8 per event). Two CPUs may read
the same entry before either stores, so an update may be lost; what is proved is that none is ever invented, and that none is lost if one thread
makes all calls. `Passed(n)` is the number of calls past the statement with `n` left to run. `SyscallsInv` and `EntriesInv` compare with it
each entry *and what any CPU has read of it* (`Fitting`, `Adding`): at most `Passed` for any callers, and all there is to
add (for `count_syscalls`, the calls of that id) under `OneCaller`. The first part is inductive alone because a store raises `Passed` and puts one step more than what was read
(`PutsKeeps`, `AddsKeep`); the second needs that with one caller one CPU at most is at work (`OneAtWork`, from `NoneOnTwo`), so that
nobody holds an older value at a store. `CountPlace` and `MapsPlace` say what is bound at each place of main: `From(k)` is `maps` from its `k`-th
statement on. The sum that the promise takes over all threads is one thread's (`CallsOfOne`).

`CompilePipelineProofs`, for any passes, any sources, and any number of modules and edits (assumption:
`PipelineAssumption`):

* `CompileTyped`: `Spec => []TypeOK`.
* `OkBuilds`: `Spec => []OkMeansBuilt`.
* `HalvesStayMatched`: `Spec => []HalvesMatch`.

Both speak of the binary, which only `Gcc` makes, of files written many steps before. `Stages(m)` says at
each place of `m`'s compilation what its files hold: the back end is empty or `Code(m)` once written, the front end
is of `src[m]` unless lost, the object and the skeleton are the back end's while make runs. `Silent` adds that `told`
is "nothing" as long as the compilation is under way, so `OkMeansBuilt` cannot be disturbed by the passes.
`OthersKept` and `KeptStages` reduce the steps of other modules, which touch the Makefile only, to nothing.

Model-checked only:

* everything under fairness (`TimedRunEnds`, `ReportCatchesUp`, `KillsListingEnds`, `CompileEnds`), which TLAPS does not prove;
* `FuelIsSpent`, `MeaningIsKept` and `TypesHold`, whose passes and evaluation are recursive over trees.

## 5. What is not modelled

* `mix compile_bpf`: a task that runs the Makefile's tools by hand on sources that are there already; the
  pipeline does not use it.
* `StaticAnalysis` and the last walk of dead code elimination: they annotate and collect uses that nothing reads.
* Of type propagation: tuple and list patterns and the tables of helpers' types.
* `printk`, `Logger`: formatting. Accessors and AST predicates: no state; those that the passes use are in them.
* Benchmarks, `artifact`: scripts and C written by hand. The four examples of strings, tuples and lists
  are not written out; their statements are the actions of `RuntimeMemory`.
* Text that does not compile as C or that the verifier rejects: no behaviour to model. The
  forms met (a `cond` clause with a Generic condition whose block is not an int, a string
  constant inside a list pattern, a return that may or may not be an integer, whose `CATCH`
  is emitted twice) are excluded by assumptions or named in the hazards.
* In `HoneySystem`: a second loader while an XDP program of the first is still attached. (Listing a hash map is in
  `GeneratedC`, `:char6` keys in `Examples`.)

## 6. Plan

1. *(done)* `RuntimeMemory` with its refinement and proofs: the code generator's own
   data structures are what all programs rely on.
2. *(done)* `RuntimeOperators` with its proofs.
3. *(done)* `Frontend` and `SharedMaps` with their proofs, `EventCounters`, and `HoneySystem`,
   which composes them.
4. *(done)* `KernelMaps`, `ExamplePrograms`, `GeneratedC`, `Examples`: the repository's programs as they are compiled.
5. *(done)* `ElixirAst`, `FuelExpansion`, `Optimizer`, `TypePropagation` and `CompilePipeline`, composed in `Compilation`, with the
   pipeline's proofs.
6. A second run of an XDP loader, tuples and lists in `TypePropagation`.
7. *(done)* Proofs of what counting, reporting, freshness of memory and the packet programs promise.
8. *(done)* Proofs of the monitors' counts, alerts and times (`CountsAreExact`, `AlertIsDue`, `TimeIsExact`).
9. *(done)* Proof of what the programs that only compute return (`ElixirMeaning`).
10. *(done)* Proof of what `maps` and `count_syscalls` add up without a lock (`UnlockedCounts`).
11. *(done)* Proof that the runtime's memory implements Elixir's bindings (`ImplementsElixir`).
12. *(done)* Proof of what a listing under kills shows (`KillsListed`).
