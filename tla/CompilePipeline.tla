--------------------------- MODULE CompilePipeline ---------------------------
(***************************************************************************)
(* Compiling modules that `use Honey`: what __before_compile__ does for    *)
(* each, from the passes over its tree to the files it writes and the make *)
(* it runs in the directory of the source, and what can fail on the way.   *)
(* mix compiles the modules whose source is not the one it last compiled,  *)
(* all at once, each in a process of its own; those in one directory share *)
(* the Makefile that each of them copies there.                            *)
(*                                                                         *)
(* The passes are parameters.  mix, make and the tools make runs are       *)
(* external: each may fail.  An interruption ends mix and make.            *)
(*                                                                         *)
(* WriteNewFrontend and ExitQuietly are not used: each is a slip its       *)
(* neighbour could hold, kept to show which property notices.              *)
(***************************************************************************)
EXTENDS Naturals

CONSTANTS
  Module, Source,
  Absent, Empty, Failure, (* of a file; an empty one; of a pass               *)
  HasMain(_),             (* does the source have a main/1?                   *)
  MainOf(_),              (* its tree                                         *)
  Fueled(_),              (* does burn_fuel make another pass over the tree?  *)
  Burned(_, _),           (* a pass of burn_fuel over a tree of a source      *)
  OptimizedTo(_),         (* the optimizer's tree, or Failure                 *)
  Translatable(_),        (* does code generation accept the tree?            *)
  Formatted,              (* do the sources have the clang_format option?     *)
  MaxEdits                (* bound on the user's edits                        *)

ASSUME PipelineAssumption ==
  /\ Absent \notin Source /\ Empty \notin Source /\ Absent # Empty
  /\ \A s \in Source : HasMain(s) \in BOOLEAN
  /\ Formatted \in BOOLEAN /\ MaxEdits \in Nat

VARIABLES
  source,    (* source[m]: the module's .ex file, or Absent                   *)
  edits,     (* how often the user has edited                                 *)
  mix,       (* "idle" or "running"                                           *)
  compiled,  (* compiled[m]: the source mix holds to be compiled, or Absent   *)
  pc,        (* pc[m]: where its __before_compile__, or its make, is          *)
  src,       (* src[m]: the source the last compilation was started for       *)
  ast,       (* ast[m]: its tree, as far as the passes have got               *)
  told,      (* told[m]: how the last compilation ended, as its user sees it  *)
  backend,   (* backend[m]: src/M.bpf.c                                       *)
  frontend,  (* frontend[m]: src/M.c, as the source it was made of            *)
  makefile,  (* the directory's Makefile: "absent", "empty" or "full"         *)
  object,    (* object[m]: obj/M.bpf.o                                        *)
  skeleton,  (* skeleton[m]: obj/M.skel.h                                     *)
  binary,    (* binary[m]: bin/M, what its two halves were made of            *)
  untold,    (* history: something failed in that compilation without a word  *)
  lost       (* history: in some compilation the front end was not written    *)

userVars == <<source, edits, mix, compiled>>
passVars == <<src, ast>>
makeVars == <<object, skeleton, binary>>
fileVars == <<backend, frontend, makefile, makeVars>>
historyVars == <<untold, lost>>
vars == <<userVars, pc, passVars, told, fileVars, historyVars>>

-----------------------------------------------------------------------------
Code(m) == [src |-> src[m], ast |-> ast[m]]

Goto(m, l) == pc' = [pc EXCEPT ![m] = l] /\ UNCHANGED told
Ends(m, how) == pc' = [pc EXCEPT ![m] = "done"] /\ told' = [told EXCEPT ![m] = how]
RaiseError(m) == Ends(m, "raise")
Warning(m) == Ends(m, "warning")
Unseen(m) == untold' = [untold EXCEPT ![m] = TRUE]

Init ==
  /\ source \in [Module -> Source \cup {Absent}] /\ edits = 0
  /\ mix = "idle" /\ compiled = [m \in Module |-> Absent]
  /\ pc = [m \in Module |-> "idle"]
  /\ src = [m \in Module |-> Absent] /\ ast = [m \in Module |-> Absent]
  /\ told = [m \in Module |-> "nothing"]
  /\ backend = [m \in Module |-> Absent] /\ frontend = [m \in Module |-> Absent]
  /\ makefile = "absent"
  /\ object = [m \in Module |-> Absent] /\ skeleton = [m \in Module |-> Absent]
  /\ binary = [m \in Module |-> Absent]
  /\ untold = [m \in Module |-> FALSE] /\ lost = [m \in Module |-> FALSE]

-----------------------------------------------------------------------------
(* mix and the user. *)
Edit(m, s) ==
  /\ edits < MaxEdits /\ edits' = edits + 1
  /\ source' = [source EXCEPT ![m] = s]
  /\ UNCHANGED <<mix, compiled, pc, passVars, told, fileVars, historyVars>>

Stale == {m \in Module : compiled[m] # source[m]} (* no file is deleted *)
MixCompile ==
  /\ mix = "idle" /\ Stale # {} /\ mix' = "running"
  /\ pc' = [m \in Module |-> IF m \in Stale THEN "main" ELSE pc[m]]
  /\ src' = [m \in Module |-> IF m \in Stale THEN source[m] ELSE src[m]]
  /\ ast' = [m \in Module |-> IF m \in Stale THEN Absent ELSE ast[m]]
  /\ told' = [m \in Module |-> IF m \in Stale THEN "nothing" ELSE told[m]]
  /\ untold' = [m \in Module |-> m \notin Stale /\ untold[m]]
  /\ UNCHANGED <<source, edits, compiled, fileVars, lost>>

(* What was compiled is recorded if no module raised. *)
MixEnds ==
  /\ mix = "running" /\ \A m \in Module : pc[m] \in {"idle", "done"}
  /\ mix' = "idle" /\ pc' = [m \in Module |-> "idle"]
  /\ compiled' = IF \E m \in Module : pc[m] = "done" /\ told[m] = "raise" THEN compiled
                 ELSE [m \in Module |-> IF pc[m] = "done" THEN src[m] ELSE compiled[m]]
  /\ UNCHANGED <<source, edits, passVars, told, fileVars, historyVars>>

Interrupt ==
  /\ mix = "running" /\ mix' = "idle"
  /\ told' = [m \in Module |-> IF pc[m] = "idle" THEN told[m] ELSE "interrupted"]
  /\ pc' = [m \in Module |-> "idle"]
  /\ UNCHANGED <<source, edits, compiled, passVars, fileVars, historyVars>>

-----------------------------------------------------------------------------
(* The passes: safe_main_exists, safe_get_ast, safe_burn_fuel, ... *)
CheckMain(m) ==
  /\ pc[m] = "main"
  /\ IF HasMain(src[m]) THEN Goto(m, "burn") /\ ast' = [ast EXCEPT ![m] = MainOf(src[m])]
     ELSE RaiseError(m) /\ UNCHANGED ast
  /\ UNCHANGED <<userVars, src, fileVars, historyVars>>

(* One pass; then another, if it found fuel. *)
BurnFuel(m) ==
  LET burned == Burned(ast[m], src[m])
  IN /\ pc[m] = "burn"
     /\ IF ~Fueled(ast[m]) THEN Goto(m, "optimize") /\ UNCHANGED ast
        ELSE IF burned = Failure THEN RaiseError(m) /\ UNCHANGED ast
        ELSE Goto(m, "modified") /\ ast' = [ast EXCEPT ![m] = burned]
     /\ UNCHANGED <<userVars, src, fileVars, historyVars>>

BurnAgain(m) ==
  /\ pc[m] = "modified" /\ Goto(m, "burn")
  /\ UNCHANGED <<userVars, passVars, fileVars, historyVars>>

Optimize(m) ==
  LET optimized == OptimizedTo(ast[m])
  IN /\ pc[m] = "optimize"
     /\ IF optimized = Failure THEN RaiseError(m) /\ UNCHANGED ast
        ELSE Goto(m, "generate") /\ ast' = [ast EXCEPT ![m] = optimized]
     /\ UNCHANGED <<userVars, src, fileVars, historyVars>>

GenerateCode(m) ==
  /\ pc[m] = "generate"
  /\ IF Translatable(ast[m]) THEN Goto(m, "open") ELSE RaiseError(m)
  /\ UNCHANGED <<userVars, passVars, fileVars, historyVars>>

-----------------------------------------------------------------------------
(* Write.write_output_files *)

(* File.open of the back end empties it; its error is a failed match. *)
OpenBackend(m) ==
  /\ pc[m] = "open"
  /\ \/ Goto(m, "binwrite") /\ backend' = [backend EXCEPT ![m] = Empty]
     \/ RaiseError(m) /\ UNCHANGED backend
  /\ UNCHANGED <<userVars, passVars, frontend, makefile, makeVars, historyVars>>

(* The result of IO.binwrite is not looked at. *)
WriteBackend(m) ==
  /\ pc[m] = "binwrite" /\ Goto(m, "format")
  /\ \/ backend' = [backend EXCEPT ![m] = Code(m)] /\ UNCHANGED untold
     \/ Unseen(m) /\ UNCHANGED backend
  /\ UNCHANGED <<userVars, passVars, frontend, makefile, makeVars, lost>>

(* clang-format, if asked for; System.cmd raises if it is not there *)
FormatBackend(m) ==
  /\ pc[m] = "format" /\ (Goto(m, "frontend") \/ (Formatted /\ RaiseError(m)))
  /\ UNCHANGED <<userVars, passVars, fileVars, historyVars>>

(* Nor is the result of File.write, which may leave the old front end. *)
WriteNewFrontend(m) ==
  frontend' = [frontend EXCEPT ![m] = IF @ = Absent THEN src[m] ELSE @]
WriteFile(m) == frontend' = [frontend EXCEPT ![m] = src[m]]

WriteFrontend(m) ==
  /\ pc[m] = "frontend" /\ Goto(m, "makefile")
  /\ \/ WriteFile(m) /\ UNCHANGED historyVars
     \/ /\ Unseen(m) /\ lost' = [lost EXCEPT ![m] = TRUE]
        /\ \E f \in {frontend[m], Empty} : frontend' = [frontend EXCEPT ![m] = f]
  /\ UNCHANGED <<userVars, passVars, backend, makefile, makeVars>>

(* File.cp_r: its error is none that `with` knows and ends in a warning. *)
OpenMakefile(m) ==
  /\ pc[m] = "makefile"
  /\ \/ Goto(m, "copy") /\ makefile' = "empty"
     \/ Warning(m) /\ UNCHANGED makefile
  /\ UNCHANGED <<userVars, passVars, backend, frontend, makeVars, historyVars>>

CopyMakefile(m) ==
  /\ pc[m] = "copy" /\ Goto(m, "make") /\ makefile' = "full"
  /\ UNCHANGED <<userVars, passVars, backend, frontend, makeVars, historyVars>>

-----------------------------------------------------------------------------
(***************************************************************************)
(* make.  An exit code that is not 0 is a warning.  When make cannot be    *)
(* run, safe_compile_bpf gives {:error, _}, which the pattern              *)
(* {_cmd, _exit_code} takes for a result.                                  *)
(***************************************************************************)
ExitQuietly(m) == Ends(m, "ok")
Exit(m) == Warning(m)

(* `all` makes `clean` first. *)
RunMake(m) ==
  /\ pc[m] = "make"
  /\ \/ Ends(m, "ok") /\ Unseen(m) /\ UNCHANGED makeVars
     \/ makefile # "full" /\ Exit(m) /\ UNCHANGED <<makeVars, untold>>
     \/ /\ makefile = "full" /\ Goto(m, "clang")
        /\ object' = [object EXCEPT ![m] = Absent]
        /\ skeleton' = [skeleton EXCEPT ![m] = Absent]
        /\ binary' = [binary EXCEPT ![m] = Absent] /\ UNCHANGED untold
  /\ UNCHANGED <<userVars, passVars, backend, frontend, makefile, lost>>

Clang(m) == (* and llc *)
  /\ pc[m] = "clang"
  /\ \/ /\ backend[m] # Absent /\ frontend[m] # Absent
        /\ Goto(m, "bpftool") /\ object' = [object EXCEPT ![m] = backend[m]]
     \/ Exit(m) /\ UNCHANGED object
  /\ UNCHANGED <<userVars, passVars, backend, frontend, makefile, skeleton, binary,
                 historyVars>>

(* The shell opens M.skel.h before bpftool writes to it. *)
Bpftool(m) ==
  /\ pc[m] = "bpftool"
  /\ \/ Goto(m, "gcc") /\ skeleton' = [skeleton EXCEPT ![m] = object[m]]
     \/ Exit(m) /\ skeleton' = [skeleton EXCEPT ![m] = Empty]
  /\ UNCHANGED <<userVars, passVars, backend, frontend, makefile, object, binary,
                 historyVars>>

Gcc(m) ==
  /\ pc[m] = "gcc"
  /\ \/ /\ Ends(m, "ok")
        /\ binary' = [binary EXCEPT ![m] = [back |-> skeleton[m], front |-> frontend[m]]]
     \/ Exit(m) /\ UNCHANGED binary
  /\ UNCHANGED <<userVars, passVars, backend, frontend, makefile, object, skeleton,
                 historyVars>>

-----------------------------------------------------------------------------
Passes(m) ==
  \/ CheckMain(m) \/ BurnFuel(m) \/ BurnAgain(m) \/ Optimize(m) \/ GenerateCode(m)
Writes(m) ==
  \/ OpenBackend(m) \/ WriteBackend(m) \/ FormatBackend(m) \/ WriteFrontend(m)
  \/ OpenMakefile(m) \/ CopyMakefile(m)
Make(m) == RunMake(m) \/ Clang(m) \/ Bpftool(m) \/ Gcc(m)
Compile(m) == Passes(m) \/ Writes(m) \/ Make(m)

User == Interrupt \/ \E m \in Module, s \in Source : Edit(m, s)
Next == MixCompile \/ MixEnds \/ User \/ \E m \in Module : Compile(m)

(* Weak fairness of Compile(m), which can always take a step of a busy module's; *)
(* written out, because ENABLED would have TLC go through the passes once more.  *)
Busy(m) == pc[m] \notin {"idle", "done"}
Fair(m) == []<>~Busy(m) \/ []<><<Compile(m)>>_vars
Fairness == WF_vars(MixEnds) /\ \A m \in Module : Fair(m)
Spec == Init /\ [][Next]_vars
FairSpec == Spec /\ Fairness

-----------------------------------------------------------------------------
Places ==
  {"idle", "main", "burn", "modified", "optimize", "generate", "open", "binwrite",
   "format", "frontend", "makefile", "copy", "make", "clang", "bpftool", "gcc", "done"}

TypeOK ==
  /\ source \in [Module -> Source \cup {Absent}] /\ edits \in 0..MaxEdits
  /\ mix \in {"idle", "running"} /\ compiled \in [Module -> Source \cup {Absent}]
  /\ pc \in [Module -> Places] /\ (mix = "idle" => \A m \in Module : pc[m] = "idle")
  /\ src \in [Module -> Source \cup {Absent}]
  /\ DOMAIN ast = Module
  /\ told \in [Module -> {"nothing", "ok", "warning", "raise", "interrupted"}]
  /\ DOMAIN backend = Module /\ DOMAIN object = Module /\ DOMAIN skeleton = Module
  /\ DOMAIN binary = Module /\ frontend \in [Module -> Source \cup {Absent, Empty}]
  /\ makefile \in {"absent", "empty", "full"}
  /\ untold \in [Module -> BOOLEAN] /\ lost \in [Module -> BOOLEAN]

(***************************************************************************)
(* A compilation that ends without an error or a warning has built the     *)
(* binary, of the front end and the optimized tree of the source it was    *)
(* started for, whatever else was compiled beside it and whatever failed   *)
(* before; unless something failed of the three that are not told: make    *)
(* itself could not be run, or the C files could not be written.           *)
(***************************************************************************)
OkMeansBuilt ==
  \A m \in Module : told[m] = "ok" /\ ~untold[m] =>
    binary[m] = [back |-> Code(m), front |-> src[m]]

(***************************************************************************)
(* No failure, interruption or repetition leaves a binary whose loader is  *)
(* that of one version of the source and whose program is that of another, *)
(* unless the front end could not be written.                              *)
(***************************************************************************)
HalvesMatch ==
  \A m \in Module : binary[m] # Absent /\ ~lost[m] =>
    binary[m].back = Empty \/ binary[m].back.src = binary[m].front

(* Every run of mix ends: burn_fuel, in particular, runs out of fuel. *)
CompileEnds == mix = "running" ~> mix = "idle"
=============================================================================
