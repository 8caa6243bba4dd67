------------------------------ MODULE HoneySystem ------------------------------
(***************************************************************************)
(* One run of a compiled program: the loader (Frontend) prints the entries *)
(* of an array that the CPUs count events in (SharedMaps).  The two share  *)
(* the map and the hook, and nothing keeps one from the other: entries are *)
(* read one at a time while events go on, and a CPU that is inside the     *)
(* program when the hook is removed runs it to its end.                    *)
(*                                                                         *)
(* PrintFirst and AllPrintedEarly are not part of the model: they are the  *)
(* faults that the properties are shown to catch.                          *)
(***************************************************************************)
EXTENDS Integers, Sequences

CONSTANTS
  Generated, UINT_MAX, LifeTimes,
  NCpu, Keys, MaxEntries, INT_MAX, Programs, MaxCalls,
  PrintElem      (* the keys of print_elem, in their order                 *)

VARIABLES
  made, at, printAll, lifeTime, time, hooked, handled, exit, outputs, slept,
  program, element, content, spare, pc, key, pointer, item, events, calls,
  line,          (* the line of the output to be printed next              *)
  screen,        (* line -> the number on it, or NotPrinted                *)
  since          (* history: line -> the count when this output began      *)

Loader == INSTANCE Frontend
Maps == INSTANCE SharedMaps

ASSUME SystemAssumption ==
  /\ Loader!FrontendAssumption /\ Maps!MapAssumption
  /\ PrintElem \in Seq(Keys)
  /\ \A p \in Programs : p.type = "array"

Lines == 1 .. Len(PrintElem)
NotPrinted == -1

loader == <<made, at, printAll, lifeTime, time, hooked, handled, exit, outputs, slept>>
maps == <<program, element, content, spare, pc, key, pointer, item, events, calls>>
report == <<line, screen, since>>
vars == <<loader, maps, report>>

CountOn(i) == Maps!CountOf(PrintElem[i], 0)

InitSystem ==
  /\ Loader!InitFrontend /\ Maps!InitMaps
  /\ line = 1
  /\ screen = [i \in Lines |-> NotPrinted] /\ since = [i \in Lines |-> 0]

-----------------------------------------------------------------------------
EventHooked(c) == hooked /\ Maps!Event(c)
Run(c) ==
  /\ EventHooked(c) \/ Maps!Step(c)
  /\ UNCHANGED <<loader, report>>

(***************************************************************************)
(* The loader reads the key of the line and prints it.  A key that is not  *)
(* in the map "failed to print": the line keeps no number.                 *)
(***************************************************************************)
PrintFirst == IF element[PrintElem[1]] = Maps!None THEN NotPrinted ELSE CountOn(1)
Printed == IF element[PrintElem[line]] = Maps!None THEN NotPrinted ELSE CountOn(line)

PrintLine ==
  /\ at = "output" /\ ~Loader!Spins /\ line \in Lines
  /\ screen' = [screen EXCEPT ![line] = Printed]
  /\ since' = IF line = 1 THEN [i \in Lines |-> CountOn(i)] ELSE since
  /\ line' = line + 1
  /\ UNCHANGED <<loader, maps>>

AllPrintedEarly == line >= Len(PrintElem)
AllPrinted == line > Len(PrintElem)

OutputDone ==
  /\ Loader!Spins \/ AllPrinted
  /\ Loader!Output
  /\ line' = 1
  /\ UNCHANGED <<maps, screen, since>>

(* Everything else the loader does *)
Elsewhere ==
  /\ \/ Loader!GetOpt \/ Loader!Open \/ Loader!Load \/ Loader!FindInterface
     \/ Loader!Attach \/ Loader!Spin \/ Loader!Decide \/ Loader!Sleep
  /\ UNCHANGED <<maps, report>>

Signal == Loader!Signal /\ UNCHANGED <<maps, report>>

LoaderStep == PrintLine \/ OutputDone \/ Elsewhere

NextSystem == LoaderStep \/ Signal \/ \E c \in Maps!Cpus : Run(c)

SpecSystem ==
  /\ InitSystem /\ [][NextSystem]_vars
  /\ WF_vars(LoaderStep)
  /\ \A c \in Maps!Cpus : WF_vars(Maps!Step(c) /\ UNCHANGED <<loader, report>>)

-----------------------------------------------------------------------------
(***************************************************************************)
(* Every finished report is one the counters could have shown: each line   *)
(* tells of at least the events counted when the report began and of no    *)
(* more than are counted when it is read.  It holds with one CPU.          *)
(***************************************************************************)
ReportIsCurrent ==
  at = "decide" =>
    \A i \in Lines :
      IF element[PrintElem[i]] = Maps!None THEN screen[i] = NotPrinted
      ELSE since[i] <= screen[i] /\ screen[i] <= CountOn(i)

(***************************************************************************)
(* A number on the screen never goes down from one report to the next.  It *)
(* holds with one CPU: a lost update would show as such a step.            *)
(***************************************************************************)
ReportsNeverDecreaseStep == \A i \in Lines : screen'[i] >= screen[i]
ReportsNeverDecrease == [][ReportsNeverDecreaseStep]_vars

(***************************************************************************)
(* When no event is going on or to come, the loader ends or a report shows *)
(* every count there is.                                                   *)
(***************************************************************************)
Quiet == calls = MaxCalls /\ \A c \in Maps!Cpus : pc[c] = "idle"
ReportShowsAll ==
  \A i \in Lines : element[PrintElem[i]] # Maps!None => screen[i] = CountOn(i)
ReportCatchesUp == Quiet ~> (ReportShowsAll \/ at \in {"spin", "exited"})
=============================================================================
