------------------------------- MODULE Frontend -------------------------------
(***************************************************************************)
(* The loader that generate_frontend_code writes for each module: it reads *)
(* -p and -t, opens, loads and attaches the BPF skeleton, and then outputs *)
(* the maps once a second until its life time is over or a signal ends it. *)
(*                                                                         *)
(* A tracepoint program is attached by a BPF link, which the kernel drops  *)
(* with the last process that holds it; an XDP program is attached to the  *)
(* interface itself and stays there until it is replaced by none.          *)
(*                                                                         *)
(* CountDownFrom, CountDownUnwrapped, SpinsUnlessAll and UnloadAndStay are *)
(* not part of the model: they are the faults that the properties are      *)
(* shown to catch.                                                         *)
(***************************************************************************)
EXTENDS Integers

CONSTANTS
  Generated, (* the loaders considered, see GeneratedLoader                *)
  UINT_MAX,  (* 2^32 - 1 in the code                                       *)
  LifeTimes  (* the arguments of -t, 0 when it is not given                *)

(* sec: what the program is attached to.  printed: some map has print: true. *)
GeneratedLoader == [sec : {"xdp_md", "tracepoint"}, printed : BOOLEAN]

ASSUME FrontendAssumption ==
  /\ Generated \subseteq GeneratedLoader
  /\ UINT_MAX \in Nat \ {0} /\ LifeTimes \subseteq 0..UINT_MAX

VARIABLES
  made,      (* the loader that was generated, which does not change       *)
  at,        (* where main is                                              *)
  printAll,  (* -p                                                         *)
  lifeTime,  (* -t                                                         *)
  time,      (* output's countdown                                         *)
  hooked,    (* TRUE: the kernel calls the program when its event happens  *)
  handled,   (* TRUE: SIGINT and SIGTERM call _unloadProg                  *)
  exit,      (* how main ended: "none", "failed", "signal" or "timer"      *)
  outputs,   (* history: how often the maps were output, up to the cap     *)
  slept      (* history: the seconds slept in output, up to the cap        *)

frontend == <<made, at, printAll, lifeTime, time, hooked, handled, exit, outputs, slept>>
options == <<made, printAll, lifeTime>>
history == <<outputs, slept>>

InitFrontend ==
  /\ made \in Generated
  /\ at = "getopt" /\ exit = "none"
  /\ printAll = FALSE /\ lifeTime = 0 /\ time = 0
  /\ hooked = FALSE /\ handled = FALSE
  /\ outputs = 0 /\ slept = 0

-----------------------------------------------------------------------------
(***************************************************************************)
(* The process is gone.  Links go with it, an XDP program does not.        *)
(***************************************************************************)
Exit(how) ==
  /\ at' = "exited" /\ exit' = how
  /\ hooked' = (hooked /\ made.sec = "xdp_md")
  /\ UNCHANGED <<options, time, handled, history>>

Goto(label) == at' = label /\ UNCHANGED exit

GetOpt ==
  /\ at = "getopt" /\ Goto("open")
  /\ printAll' \in BOOLEAN /\ lifeTime' \in LifeTimes
  /\ UNCHANGED <<made, time, hooked, handled, history>>

(* open, and for XDP set the type; load, which verifies the program *)
Open ==
  /\ at = "open"
  /\ \/ Goto("load") /\ UNCHANGED <<options, time, hooked, handled, history>>
     \/ Exit("failed")

Load ==
  /\ at = "load"
  /\ \/ /\ Goto(IF made.sec = "xdp_md" THEN "interface" ELSE "attach")
        /\ handled' = (made.sec = "xdp_md")
        /\ UNCHANGED <<options, time, hooked, history>>
     \/ Exit("failed")

(* IFINDEX, which the handler uses too, is 0 until here *)
FindInterface ==
  /\ at = "interface" /\ Goto("attach")
  /\ UNCHANGED <<options, time, hooked, handled, history>>

(***************************************************************************)
(* time++ of an unsigned, so that the loop can decrement it first.         *)
(***************************************************************************)
Prev(n) == IF n = 0 THEN UINT_MAX ELSE n - 1
CountDownFrom(n) == n
CountDownUnwrapped(n) == IF n = 0 THEN 0 ELSE n + 1
CountDownFromNext(n) == IF n \in {0, UINT_MAX} THEN 0 ELSE n + 1

Attach ==
  /\ at = "attach"
  /\ \/ /\ Goto("output") /\ hooked' = TRUE /\ time' = CountDownFromNext(lifeTime)
        /\ UNCHANGED <<options, handled, history>>
     \/ Exit("failed")

(***************************************************************************)
(* choose_output.  When no map is printed, output_opt is the body of       *)
(* OutputFunc.c: a spinner that never returns.                             *)
(***************************************************************************)
SpinsUnlessAll == ~printAll
Spins == ~printAll /\ ~made.printed
Capped(n) == IF n < UINT_MAX + 2 THEN n + 1 ELSE n

Output ==
  /\ at = "output"
  /\ outputs' = Capped(outputs)
  /\ Goto(IF Spins THEN "spin" ELSE "decide")
  /\ UNCHANGED <<options, time, hooked, handled, slept>>

Spin ==
  /\ at = "spin" /\ UNCHANGED at
  /\ slept' = Capped(slept)
  /\ UNCHANGED <<options, time, hooked, handled, exit, outputs>>

Decide ==
  /\ at = "decide"
  /\ IF lifeTime = 0
       THEN Goto("sleep") /\ UNCHANGED <<options, time, hooked, handled, history>>
     ELSE IF time = 1 THEN Exit("timer")
     ELSE /\ Goto("sleep") /\ time' = Prev(time)
          /\ UNCHANGED <<options, hooked, handled, history>>

Sleep ==
  /\ at = "sleep" /\ Goto("output")
  /\ slept' = Capped(slept)
  /\ UNCHANGED <<options, time, hooked, handled, outputs>>

(***************************************************************************)
(* SIGINT or SIGTERM.  The handler takes the program off the interface, if *)
(* it knows the interface yet.                                             *)
(***************************************************************************)
UnloadAndStay ==
  /\ handled /\ at' = "exited" /\ exit' = "signal"
  /\ UNCHANGED <<options, time, hooked, handled, history>>
UnloadProg ==
  /\ handled /\ hooked' = (hooked /\ at = "interface")
  /\ at' = "exited" /\ exit' = "signal"
  /\ UNCHANGED <<options, time, handled, history>>

Signal ==
  /\ at # "exited"
  /\ UnloadProg \/ (~handled /\ Exit("signal"))

(* Once it has exited, the same binary may be run again. *)
RunAgain ==
  /\ at = "exited" /\ at' = "getopt" /\ exit' = "none"
  /\ printAll' = FALSE /\ lifeTime' = 0 /\ time' = 0
  /\ handled' = FALSE
  /\ outputs' = 0 /\ slept' = 0
  /\ UNCHANGED <<made, hooked>>

MainStep ==
  \/ GetOpt \/ Open \/ Load \/ FindInterface \/ Attach
  \/ Output \/ Spin \/ Decide \/ Sleep

NextFrontend == MainStep \/ Signal \/ RunAgain

(* The process is scheduled; sleep(1) and the system calls return. *)
SpecFrontend == InitFrontend /\ [][NextFrontend]_frontend /\ WF_frontend(MainStep)

-----------------------------------------------------------------------------
TypeOK ==
  /\ made \in Generated
  /\ at \in {"getopt", "open", "load", "interface", "attach", "output", "spin",
             "decide", "sleep", "exited"}
  /\ exit \in {"none", "failed", "signal", "timer"} /\ (exit = "none" <=> at # "exited")
  /\ printAll \in BOOLEAN /\ hooked \in BOOLEAN /\ handled \in BOOLEAN
  /\ lifeTime \in 0..UINT_MAX /\ time \in 0..UINT_MAX
  /\ outputs \in 0..(UINT_MAX + 2) /\ slept \in 0..(UINT_MAX + 2)

(***************************************************************************)
(* The duration given by -t is kept exactly: a run that its timer ends has *)
(* slept that many seconds, and has output the maps once more than that,   *)
(* at the start and after each second.                                     *)
(***************************************************************************)
TimerIsExact ==
  exit = "timer" => lifeTime > 0 /\ slept = lifeTime /\ outputs = lifeTime + 1

(***************************************************************************)
(* A signal that ends the run of an attached program leaves its event      *)
(* without a program, whether the handler or the kernel sees to it.        *)
(***************************************************************************)
Attached == at \in {"output", "spin", "decide", "sleep"}
SignalUnhooksStep == Attached /\ exit' = "signal" => ~hooked'
SignalUnhooks == [][SignalUnhooksStep]_frontend

(***************************************************************************)
(* With -t, the loader ends, if there is a map to print.  Otherwise it     *)
(* never gets back from the spinner to its countdown.  An output is taken  *)
(* to end, as that of an array does (EndlessListing has those of hashes).  *)
(***************************************************************************)
TimedRunEnds ==
  (lifeTime > 0 /\ (made.printed \/ printAll)) ~> (at = "exited")

(***************************************************************************)
(* README.md says that -t <seconds> "specifies the duration the program    *)
(* should run", so when that time is over the program runs no more.        *)
(***************************************************************************)
TimeOverUnhooks == exit = "timer" => ~hooked
=============================================================================
