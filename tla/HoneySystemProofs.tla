--------------------------- MODULE HoneySystemProofs ---------------------------
(***************************************************************************)
(* Proofs about HoneySystem: what the loader's reports tell of the counts, *)
(* for any loader, any number of CPUs, any keys and any lines to print.    *)
(*                                                                         *)
(* The parts are proved about in modules of their own.  Their results are  *)
(* taken over as LP!... and MP!..., once it is shown that every step of    *)
(* the system is a step of each part or leaves that part alone.            *)
(***************************************************************************)
EXTENDS HoneySystem, TLAPS

LP == INSTANCE FrontendProofs
MP == INSTANCE SharedMapsProofs

LEMMA PartsAssumed == LP!FrontendAssumption /\ MP!MapAssumption
BY SystemAssumption
   DEF LP!FrontendAssumption, MP!MapAssumption, Loader!FrontendAssumption, Maps!MapAssumption,
       Maps!Program, MP!Program, Loader!GeneratedLoader, LP!GeneratedLoader, Maps!Cpus, MP!Cpus

(***************************************************************************)
(* The instances of the proof modules speak of the same operators.         *)
(***************************************************************************)
LEMMA SameOperators ==
  /\ Maps!Cpus = MP!Cpus /\ Maps!None = MP!None
  /\ (Maps!OneAtATime <=> MP!OneAtATime) /\ (Maps!NoneWraps <=> MP!NoneWraps)
  /\ \A k, s : Maps!CountOf(k, s) = MP!CountOf(k, s)
BY DEF Maps!Cpus, MP!Cpus, Maps!None, MP!None, Maps!CountOf, MP!CountOf,
       Maps!OneAtATime, MP!OneAtATime, Maps!NoneWraps, MP!NoneWraps, Maps!IsPerCpu, MP!IsPerCpu,
       Maps!Slots, MP!Slots

LEMMA SameInit ==
  (Loader!InitFrontend <=> LP!InitFrontend) /\ (Maps!InitMaps <=> MP!InitMaps)
BY DEF Loader!InitFrontend, LP!InitFrontend, Maps!InitMaps, MP!InitMaps, Maps!Cpus, MP!Cpus,
       Maps!None, MP!None, Maps!Slots, MP!Slots, Maps!IsArray, MP!IsArray,
       Maps!Elements, MP!Elements

LEMMA SameEvent == ASSUME NEW c PROVE Maps!Event(c) <=> MP!Event(c)
BY DEF Maps!Event, MP!Event, Maps!Goto, MP!Goto, Maps!map, MP!map, Maps!Cpus, MP!Cpus

LEMMA SameUpdate == ASSUME NEW c PROVE Maps!Update(c) <=> MP!Update(c)
<1>1. Maps!Slots = MP!Slots /\ Maps!Unused = MP!Unused
  BY DEF Maps!Slots, MP!Slots, Maps!Cpus, MP!Cpus, Maps!Unused, MP!Unused, Maps!Elements,
         MP!Elements, Maps!Stored, MP!Stored, Maps!None, MP!None
<1>2. Maps!Slot(c) = MP!Slot(c) /\ \A n : Maps!Increment(n) = MP!Increment(n)
  BY DEF Maps!Slot, MP!Slot, Maps!IsPerCpu, MP!IsPerCpu, Maps!Increment, MP!Increment
<1>3. (Maps!Replaces(c) <=> MP!Replaces(c)) /\ (Maps!Inserts(c) <=> MP!Inserts(c))
  <2>1. Maps!Stored = MP!Stored /\ (Maps!IsArray <=> MP!IsArray)
    BY DEF Maps!Stored, MP!Stored, Maps!None, MP!None, Maps!IsArray, MP!IsArray
  <2>2. QED
    BY <2>1 DEF Maps!Replaces, MP!Replaces, Maps!Inserts, MP!Inserts, Maps!Cardinality,
                MP!Cardinality
<1>4. \A n : /\ Maps!WriteSpare(c, n) <=> MP!WriteSpare(c, n)
             /\ Maps!WriteInPlace(c, n) <=> MP!WriteInPlace(c, n)
             /\ Maps!WriteNew(c, n) <=> MP!WriteNew(c, n)
  BY <1>1, <1>2 DEF Maps!WriteSpare, MP!WriteSpare, Maps!WriteInPlace, MP!WriteInPlace,
                    Maps!WriteNew, MP!WriteNew
<1>5. (Maps!Ended(c) <=> MP!Ended(c)) /\ (Maps!Goto(c, "idle") <=> MP!Goto(c, "idle"))
  BY <1>2 DEF Maps!Ended, MP!Ended, Maps!Goto, MP!Goto
<1>6. QED
  BY <1>2, <1>3, <1>4, <1>5 DEF Maps!Update, MP!Update, Maps!map, MP!map, Maps!locals, MP!locals

LEMMA SameStep == ASSUME NEW c PROVE Maps!Step(c) <=> MP!Step(c)
<1>1. /\ Maps!MapKey(c) <=> MP!MapKey(c)
      /\ Maps!Found(c) <=> MP!Found(c)
      /\ Maps!Catch(c) <=> MP!Catch(c)
  BY DEF Maps!MapKey, MP!MapKey, Maps!Found, MP!Found, Maps!Catch, MP!Catch, Maps!Goto, MP!Goto,
         Maps!map, MP!map, Maps!locals, MP!locals, Maps!None, MP!None
<1>2. Maps!Slot(c) = MP!Slot(c)
  BY DEF Maps!Slot, MP!Slot, Maps!IsPerCpu, MP!IsPerCpu
<1>3. Maps!NotFound(c) <=> MP!NotFound(c)
  BY <1>2 DEF Maps!NotFound, MP!NotFound, Maps!Goto, MP!Goto, Maps!map, MP!map, Maps!None, MP!None,
              Maps!Ended, MP!Ended
<1>4. Maps!Read(c) <=> MP!Read(c)
  BY <1>2 DEF Maps!Read, MP!Read, Maps!Goto, MP!Goto, Maps!map, MP!map
<1>5. QED
  BY <1>1, <1>3, <1>4, SameUpdate DEF Maps!Step, MP!Step

LEMMA SameLoader ==
  (Loader!MainStep <=> LP!MainStep) /\ (Loader!Signal <=> LP!Signal)
<1>1. \A how : Loader!Exit(how) <=> LP!Exit(how)
  BY DEF Loader!Exit, LP!Exit, Loader!options, LP!options, Loader!history, LP!history
<1>2. \A label : Loader!Goto(label) <=> LP!Goto(label)
  BY DEF Loader!Goto, LP!Goto
<1> USE <1>1, <1>2 DEF Loader!options, LP!options, Loader!history, LP!history
<1>3. /\ Loader!GetOpt <=> LP!GetOpt
      /\ Loader!Open <=> LP!Open
      /\ Loader!Load <=> LP!Load
      /\ Loader!FindInterface <=> LP!FindInterface
  BY DEF Loader!GetOpt, LP!GetOpt, Loader!Open, LP!Open, Loader!Load, LP!Load,
         Loader!FindInterface, LP!FindInterface
<1>4. Loader!Attach <=> LP!Attach
  BY DEF Loader!Attach, LP!Attach, Loader!CountDownFromNext, LP!CountDownFromNext
<1>5. \A n : Loader!Capped(n) = LP!Capped(n) /\ Loader!Prev(n) = LP!Prev(n)
  BY DEF Loader!Capped, LP!Capped, Loader!Prev, LP!Prev
<1>6. /\ Loader!Output <=> LP!Output
      /\ Loader!Spin <=> LP!Spin
      /\ Loader!Sleep <=> LP!Sleep
      /\ Loader!Decide <=> LP!Decide
  BY <1>5 DEF Loader!Output, LP!Output, Loader!Spins, LP!Spins, Loader!Spin, LP!Spin,
              Loader!Sleep, LP!Sleep, Loader!Decide, LP!Decide
<1>7. Loader!Signal <=> LP!Signal
  BY DEF Loader!Signal, LP!Signal, Loader!UnloadProg, LP!UnloadProg
<1>8. QED
  BY <1>3, <1>4, <1>6, <1>7 DEF Loader!MainStep, LP!MainStep

-----------------------------------------------------------------------------
(***************************************************************************)
(* What a step of the system is to the loader, to the map and to the       *)
(* report.                                                                 *)
(***************************************************************************)
LEMMA SystemIsLoader == [NextSystem]_vars => [Loader!MainStep \/ Loader!Signal]_loader
<1> SUFFICES ASSUME [NextSystem]_vars PROVE [Loader!MainStep \/ Loader!Signal]_loader
  OBVIOUS
<1>1. CASE PrintLine
  BY <1>1 DEF PrintLine, loader
<1>2. CASE OutputDone
  BY <1>2 DEF OutputDone, Loader!MainStep
<1>3. CASE Elsewhere
  BY <1>3 DEF Elsewhere, Loader!MainStep
<1>4. CASE Signal
  BY <1>4 DEF Signal
<1>5. ASSUME NEW c \in Maps!Cpus, Run(c) PROVE [Loader!MainStep \/ Loader!Signal]_loader
  BY <1>5 DEF Run, loader
<1>6. CASE UNCHANGED vars
  BY <1>6 DEF vars, loader
<1>7. QED
  BY <1>1, <1>2, <1>3, <1>4, <1>5, <1>6 DEF NextSystem, LoaderStep

LEMMA SystemIsMaps == [NextSystem]_vars => [Maps!NextMaps]_maps
<1> SUFFICES ASSUME [NextSystem]_vars PROVE [Maps!NextMaps]_maps
  OBVIOUS
<1>1. CASE PrintLine \/ OutputDone \/ Elsewhere \/ Signal
  BY <1>1 DEF PrintLine, OutputDone, Elsewhere, Signal, maps
<1>2. ASSUME NEW c \in Maps!Cpus, Run(c) PROVE [Maps!NextMaps]_maps
  BY <1>2 DEF Run, EventHooked, Maps!NextMaps
<1>3. CASE UNCHANGED vars
  BY <1>3 DEF vars, maps
<1>4. QED
  BY <1>1, <1>2, <1>3 DEF NextSystem, LoaderStep

LEMMA MapsStep == [Maps!NextMaps]_maps => [MP!NextMaps]_MP!maps
<1>1. UNCHANGED maps => UNCHANGED MP!maps
  BY DEF maps, MP!maps, MP!map, MP!locals
<1>2. Maps!NextMaps => MP!NextMaps
  BY SameEvent, SameStep, SameOperators DEF Maps!NextMaps, MP!NextMaps
<1>3. QED
  BY <1>1, <1>2

LEMMA LoaderIsStep ==
  [Loader!MainStep \/ Loader!Signal]_loader => [LP!NextFrontend]_LP!frontend
BY SameLoader DEF loader, LP!frontend, LP!NextFrontend

(***************************************************************************)
(* A run of the system is a run of the loader and a run of the map: what   *)
(* is proved of each of them alone holds of it in the system.              *)
(***************************************************************************)
PartsInv == LP!IInv /\ MP!ExactInv

LEMMA PartsSafe == SpecSystem => []PartsInv
<1>1. InitSystem => PartsInv
  BY PartsAssumed, SameInit, LP!InitFrontendSafe, MP!InitExact DEF InitSystem, PartsInv
<1>2. PartsInv /\ [NextSystem]_vars => PartsInv'
  BY PartsAssumed, SystemIsLoader, SystemIsMaps, MapsStep, LoaderIsStep, LP!NextFrontendSafe,
     MP!NextExact DEF PartsInv
<1>3. QED
  BY <1>1, <1>2, PTL DEF SpecSystem

(***************************************************************************)
(* The loader and the map keep in the system what they promise alone: the  *)
(* duration of -t is exact, and no count of an array tells of more events  *)
(* than there were.                                                        *)
(***************************************************************************)
THEOREM PartsKeepPromises ==
  SpecSystem => [](Loader!TimerIsExact /\ Maps!CountsNeverExceed)
<1>1. PartsInv => Loader!TimerIsExact
  BY DEF PartsInv, LP!IInv, Loader!TimerIsExact, LP!TimerIsExact
<1>2. PartsInv => Maps!CountsNeverExceed
  BY SameOperators DEF PartsInv, MP!ExactInv, MP!IInv, Maps!CountsNeverExceed,
                       MP!CountsNeverExceed, Maps!Slots, MP!Slots
<1>3. QED
  BY <1>1, <1>2, PartsSafe, PTL

-----------------------------------------------------------------------------
(***************************************************************************)
(* Reports.  A line of the screen is never above its count, printed lines  *)
(* are at least what since says, and until a report is finished since is   *)
(* not above the counts either.                                            *)
(***************************************************************************)
HasKey(i) == element[PrintElem[i]] # Maps!None

ReportTyped ==
  /\ line \in Nat \ {0} /\ (at \in {"decide", "sleep"} \cup LP!Starting => line = 1)
  /\ screen \in [Lines -> Int] /\ since \in [Lines -> Int]

ScreenBelow ==
  \A i \in Lines : IF HasKey(i) THEN screen[i] <= CountOn(i) ELSE screen[i] = NotPrinted

Finished(i) == (at = "output" /\ i < line) \/ at = "decide"
SinceBelow ==
  \A i \in Lines :
    /\ at = "output" /\ line > 1 => since[i] <= CountOn(i)
    /\ HasKey(i) /\ Finished(i) => since[i] <= screen[i]

ReportInv ==
  /\ PartsInv /\ program.type = "array"
  /\ ReportTyped /\ ScreenBelow /\ SinceBelow

(* nobody comes between a lookup and its update, and no int is too small *)
Undisturbed == Maps!OneAtATime /\ Maps!NoneWraps

LEMMA LineTyped ==
  \A i \in Lines : PrintElem[i] \in Keys /\ 0 \in MP!Slots /\ i \in Nat \ {0}
<1>1. Len(PrintElem) \in Nat /\ \A i \in 1 .. Len(PrintElem) : PrintElem[i] \in Keys
  BY SystemAssumption
<1>2. QED
  BY <1>1, PartsAssumed, MP!ConstantsTyped DEF Lines

LEMMA CountOnTyped ==
  ASSUME PartsInv, NEW i \in Lines
  PROVE  CountOn(i) \in Int
<1>1. MP!TypeOK /\ MP!CountOf(PrintElem[i], 0) = CountOn(i)
  BY SameOperators DEF CountOn, PartsInv, MP!ExactInv, MP!IInv
<1>2. INT_MAX \in Nat /\ PrintElem[i] \in Keys /\ 0 \in MP!Slots
  BY LineTyped, PartsAssumed, MP!ConstantsTyped
<1>3. \A e \in MP!Elements : content[e][0] \in -INT_MAX - 1 .. INT_MAX
  BY <1>1, <1>2 DEF MP!TypeOK
<1>4. element[PrintElem[i]] \in MP!Elements \cup {MP!None}
  BY <1>1, <1>2 DEF MP!TypeOK
<1>5. MP!CountOf(PrintElem[i], 0) \in Int
  BY <1>2, <1>3, <1>4 DEF MP!CountOf
<1>6. QED
  BY <1>1, <1>5

LEMMA CountsOnGrow ==
  ASSUME ReportInv, Undisturbed, Undisturbed', [NextSystem]_vars, NEW i \in Lines
  PROVE  /\ CountOn(i) \in Int /\ CountOn(i)' \in Int /\ CountOn(i) <= CountOn(i)'
         /\ HasKey(i)' = HasKey(i) /\ program' = program
<1>1. [MP!NextMaps]_MP!maps /\ MP!ExactInv /\ MP!TypeOK
  BY SystemIsMaps, MapsStep DEF ReportInv, PartsInv, MP!ExactInv, MP!IInv
<1>2. MP!OneAtATime /\ MP!NoneWraps'
  BY SameOperators DEF Undisturbed, Maps!NoneWraps, MP!NoneWraps, Maps!Slots, MP!Slots, Maps!Cpus,
                       MP!Cpus
<1>3. element' = element /\ program' = program
  BY <1>1, PartsAssumed, MP!ArraysStay DEF ReportInv, MP!IsArray
<1>4. PICK k \in Keys : k = PrintElem[i]
  BY LineTyped
<1>5. /\ MP!CountOf(k, 0) \in Int
      /\ MP!CountOf(k, 0)' \in {MP!CountOf(k, 0), MP!CountOf(k, 0) + 1}
  BY <1>1, <1>2, LineTyped, PartsAssumed, MP!CountsGrow
<1>6. CountOn(i) = MP!CountOf(k, 0) /\ CountOn(i)' = MP!CountOf(k, 0)'
  BY <1>4 DEF CountOn, Maps!CountOf, MP!CountOf, Maps!None, MP!None
<1>7. QED
  BY <1>3, <1>5, <1>6 DEF HasKey

-----------------------------------------------------------------------------
LEMMA InitReport == InitSystem => ReportInv
<1> SUFFICES ASSUME InitSystem PROVE ReportInv
  OBVIOUS
<1>1. PartsInv
  BY PartsAssumed, SameInit, LP!InitFrontendSafe, MP!InitExact DEF InitSystem, PartsInv
<1>2. program.type = "array"
  BY SystemAssumption DEF InitSystem, Maps!InitMaps
<1>3. at = "getopt" /\ line = 1
  BY DEF InitSystem, Loader!InitFrontend
<1>4. ReportTyped /\ SinceBelow
  BY <1>3 DEF InitSystem, ReportTyped, SinceBelow, Finished, NotPrinted
<1>5. ScreenBelow
  <2> SUFFICES ASSUME NEW i \in Lines
               PROVE  IF HasKey(i) THEN screen[i] <= CountOn(i) ELSE screen[i] = NotPrinted
    BY DEF ScreenBelow
  <2>1. screen[i] = NotPrinted
    BY DEF InitSystem
  <2>2. CountOn(i) = 0
    <3>1. MP!TypeOK /\ MP!InitMaps
      BY <1>1, SameInit DEF InitSystem, PartsInv, MP!ExactInv, MP!IInv
    <3>2. MP!CountOf(PrintElem[i], 0) = 0
      BY <3>1, LineTyped DEF MP!InitMaps, MP!CountOf, MP!TypeOK
    <3>3. QED
      BY <3>2, SameOperators DEF CountOn
  <2>3. QED
    BY <2>1, <2>2 DEF NotPrinted
<1>6. QED
  BY <1>1, <1>2, <1>4, <1>5 DEF ReportInv

(***************************************************************************)
(* A step of the loader that does not print keeps the counts, and a step   *)
(* of a CPU keeps the report.                                              *)
(***************************************************************************)
LEMMA PrintLineReports ==
  ASSUME ReportInv, PrintLine
  PROVE  ReportTyped' /\ ScreenBelow' /\ SinceBelow'
<1>1. /\ at = "output" /\ at' = at /\ line \in Lines /\ line' = line + 1
      /\ screen' = [screen EXCEPT ![line] = Printed]
      /\ since' = IF line = 1 THEN [i \in Lines |-> CountOn(i)] ELSE since
  BY DEF PrintLine, loader
<1>2. \A i \in Lines : CountOn(i)' = CountOn(i) /\ HasKey(i)' = HasKey(i)
  BY DEF PrintLine, maps, CountOn, HasKey, Maps!CountOf
<1>3. \A i \in Lines : CountOn(i) \in Int
  BY CountOnTyped DEF ReportInv
<1>4. Printed = IF HasKey(line) THEN CountOn(line) ELSE NotPrinted
  BY DEF Printed, HasKey
<1>5. Printed \in Int
  BY <1>1, <1>3, <1>4 DEF NotPrinted
<1>6. /\ \A i \in Lines : screen'[i] = IF i = line THEN Printed ELSE screen[i]
      /\ \A i \in Lines : since'[i] = IF line = 1 THEN CountOn(i) ELSE since[i]
  BY <1>1 DEF ReportInv, ReportTyped
<1>7. ReportTyped'
  BY <1>1, <1>3, <1>5 DEF ReportInv, ReportTyped, LP!Starting
<1>8. ScreenBelow'
  BY <1>2, <1>3, <1>4, <1>6 DEF ReportInv, ScreenBelow
<1>9. SinceBelow'
  <2> SUFFICES ASSUME NEW i \in Lines
               PROVE  /\ since'[i] <= CountOn(i)
                      /\ HasKey(i) /\ i < line + 1 => since'[i] <= screen'[i]
    BY <1>1, <1>2 DEF SinceBelow, Finished
  <2>1. i \in Nat \ {0} /\ line \in Nat \ {0} /\ CountOn(i) \in Int
    BY <1>3, LineTyped DEF ReportInv, ReportTyped
  <2>2. CASE line = 1
    BY <1>4, <1>6, <2>1, <2>2
  <2>3. CASE line > 1
    <3>1. since'[i] = since[i] /\ since[i] <= CountOn(i)
      BY <1>1, <1>6, <2>3 DEF ReportInv, SinceBelow
    <3>2. HasKey(i) /\ i < line => since[i] <= screen[i]
      BY <1>1 DEF ReportInv, SinceBelow, Finished
    <3>3. QED
      BY <1>4, <1>6, <2>1, <3>1, <3>2
  <2>4. QED
    BY <2>1, <2>2, <2>3
<1>10. QED
  BY <1>7, <1>8, <1>9

LEMMA LoaderReports ==
  ASSUME ReportInv, OutputDone \/ Elsewhere \/ Signal
  PROVE  ReportTyped' /\ ScreenBelow' /\ SinceBelow'
<1>1. /\ screen' = screen /\ since' = since
      /\ \A i \in Lines : CountOn(i)' = CountOn(i) /\ HasKey(i)' = HasKey(i)
  BY DEF OutputDone, Elsewhere, Signal, report, maps, CountOn, HasKey, Maps!CountOf
<1>2. ScreenBelow'
  BY <1>1 DEF ReportInv, ScreenBelow
<1>3. CASE OutputDone
  <2>1. at = "output" /\ line' = 1 /\ at' \in {"spin", "decide"}
    BY <1>3 DEF OutputDone, Loader!Output, Loader!Goto
  <2>2. at' = "decide" => line > Len(PrintElem)
    BY <1>3 DEF OutputDone, AllPrinted, Loader!Output, Loader!Goto
  <2>3. ASSUME at' = "decide", NEW i \in Lines PROVE i < line
    BY <2>2, <2>3, LineTyped, SystemAssumption DEF ReportInv, ReportTyped, Lines
  <2>4. QED
    BY <1>1, <1>2, <2>1, <2>3 DEF ReportInv, ReportTyped, SinceBelow, Finished
<1>4. CASE Elsewhere \/ Signal
  <2>1. line' = line
    BY <1>4 DEF Elsewhere, Signal, report
  <2>2. at' = "output" => at \in {"attach", "sleep"}
    BY <1>4 DEF Elsewhere, Signal, Loader!GetOpt, Loader!Open, Loader!Load, Loader!FindInterface,
         Loader!Attach, Loader!Spin, Loader!Decide, Loader!Sleep, Loader!Signal,
         Loader!UnloadProg, Loader!Exit, Loader!Goto
  <2>3. at' # "decide" /\ (at' \in {"sleep"} \cup LP!Starting =>
                            at \in {"decide"} \cup LP!Starting)
    BY <1>4 DEF Elsewhere, Signal, Loader!GetOpt, Loader!Open, Loader!Load, Loader!FindInterface,
         Loader!Attach, Loader!Spin, Loader!Decide, Loader!Sleep, Loader!Signal,
         Loader!UnloadProg, Loader!Exit, Loader!Goto, LP!Starting
  <2>4. ReportTyped'
    BY <1>1, <2>1, <2>3 DEF ReportInv, ReportTyped
  <2>5. at' = "output" => line = 1
    BY <2>2 DEF ReportInv, ReportTyped, LP!Starting
  <2>6. SinceBelow'
    BY <1>1, <2>1, <2>3, <2>5, LineTyped DEF SinceBelow, Finished
  <2>7. QED
    BY <1>2, <2>4, <2>6
<1>5. QED
  BY <1>3, <1>4

LEMMA RunReports ==
  ASSUME ReportInv, Undisturbed, Undisturbed', [NextSystem]_vars, UNCHANGED <<loader, report>>
  PROVE  ReportTyped' /\ ScreenBelow' /\ SinceBelow'
<1>1. at' = at /\ line' = line /\ screen' = screen /\ since' = since
  BY DEF loader, report
<1>2. \A i \in Lines : /\ CountOn(i) \in Int /\ CountOn(i)' \in Int /\ CountOn(i) <= CountOn(i)'
                       /\ HasKey(i)' = HasKey(i)
  BY CountsOnGrow
<1>3. \A i \in Lines : screen[i] \in Int /\ since[i] \in Int
  BY DEF ReportInv, ReportTyped
<1>4. ReportTyped'
  BY <1>1 DEF ReportInv, ReportTyped
<1>5. ScreenBelow'
  BY <1>1, <1>2, <1>3 DEF ReportInv, ScreenBelow
<1>6. SinceBelow'
  <2> SUFFICES ASSUME NEW i \in Lines
               PROVE  /\ at = "output" /\ line > 1 => since[i] <= CountOn(i)'
                      /\ HasKey(i) /\ Finished(i) => since[i] <= screen[i]
    BY <1>1, <1>2 DEF SinceBelow, Finished
  <2>1. QED
    BY <1>2, <1>3 DEF ReportInv, SinceBelow
<1>7. QED
  BY <1>4, <1>5, <1>6

LEMMA NextReport ==
  ReportInv /\ Undisturbed /\ Undisturbed' /\ [NextSystem]_vars => ReportInv'
<1> SUFFICES ASSUME ReportInv, Undisturbed, Undisturbed', [NextSystem]_vars
             PROVE  ReportInv'
  OBVIOUS
<1>1. PartsInv'
  BY PartsAssumed, SystemIsLoader, SystemIsMaps, MapsStep, LoaderIsStep, LP!NextFrontendSafe,
     MP!NextExact DEF ReportInv, PartsInv
<1>2. program' = program
  <2>1. [MP!NextMaps]_MP!maps /\ MP!TypeOK
    BY SystemIsMaps, MapsStep DEF ReportInv, PartsInv, MP!ExactInv, MP!IInv
  <2>2. QED
    BY <2>1, PartsAssumed, MP!ArraysStay DEF ReportInv, MP!IsArray
<1>3. CASE PrintLine
  BY <1>1, <1>2, <1>3, PrintLineReports DEF ReportInv
<1>4. CASE OutputDone \/ Elsewhere \/ Signal
  BY <1>1, <1>2, <1>4, LoaderReports DEF ReportInv
<1>5. ASSUME UNCHANGED <<loader, report>> PROVE ReportInv'
  BY <1>1, <1>2, <1>5, RunReports DEF ReportInv
<1>6. QED
  BY <1>3, <1>4, <1>5 DEF NextSystem, LoaderStep, Run, vars

LEMMA ReportSafe == SpecSystem /\ []Undisturbed => []ReportInv
BY InitReport, NextReport, PTL DEF SpecSystem

(***************************************************************************)
(* While nobody comes between a lookup and its update, every finished      *)
(* report is one the counters could have shown: it lies between the counts *)
(* when it began and those when it is read, whatever happened meanwhile.   *)
(***************************************************************************)
THEOREM ReportsAreCurrent == SpecSystem /\ []Undisturbed => []ReportIsCurrent
<1>1. ReportInv => ReportIsCurrent
  BY DEF ReportInv, ReportIsCurrent, ScreenBelow, SinceBelow, Finished, HasKey
<1>2. QED
  BY <1>1, ReportSafe, PTL

LEMMA ReportNeverFalls ==
  ReportInv /\ [NextSystem]_vars => ReportsNeverDecreaseStep
<1> SUFFICES ASSUME ReportInv, [NextSystem]_vars, NEW i \in Lines
             PROVE  screen'[i] >= screen[i]
  BY DEF ReportsNeverDecreaseStep
<1>1. screen[i] \in Int /\ CountOn(i) \in Int /\ NotPrinted \in Int
  BY CountOnTyped DEF ReportInv, ReportTyped, NotPrinted
<1>2. CASE PrintLine
  <2>1. screen' = [screen EXCEPT ![line] = Printed] /\ screen \in [Lines -> Int]
    BY <1>2 DEF PrintLine, ReportInv, ReportTyped
  <2>2. i = line => Printed >= screen[i]
    BY <1>1 DEF Printed, HasKey, ReportInv, ScreenBelow
  <2>3. QED
    BY <1>1, <2>1, <2>2
<1>3. CASE screen' = screen
  BY <1>1, <1>3
<1>4. QED
  BY <1>2, <1>3 DEF NextSystem, LoaderStep, OutputDone, Elsewhere, Signal, Run, vars, report

(***************************************************************************)
(* Under the same conditions no number on the screen ever goes down.       *)
(***************************************************************************)
THEOREM ReportsNeverFall == SpecSystem /\ []Undisturbed => ReportsNeverDecrease
BY ReportSafe, ReportNeverFalls, PTL DEF SpecSystem, ReportsNeverDecrease
=============================================================================
