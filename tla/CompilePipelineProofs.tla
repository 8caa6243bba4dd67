------------------------ MODULE CompilePipelineProofs ------------------------
(***************************************************************************)
(* For any passes, any sources and any number of modules: a compilation    *)
(* that says nothing has built what it was started for, and the two halves *)
(* of a binary are of one source.  The proofs follow one module through    *)
(* the stages of its compilation, at each of which the invariant says what *)
(* its files hold; what another module does leaves them alone.             *)
(***************************************************************************)
EXTENDS CompilePipeline, TLAPS

BackendDone ==
  {"format", "frontend", "makefile", "copy", "make", "clang", "bpftool", "gcc"}
FrontendDone == {"makefile", "copy", "make", "clang", "bpftool", "gcc"}

BackendStage(m) ==
  /\ pc[m] = "binwrite" => backend[m] = Empty
  /\ pc[m] \in BackendDone =>
       /\ backend[m] \in {Empty, Code(m)}
       /\ ~untold[m] => backend[m] = Code(m)

FrontendStage(m) ==
  pc[m] \in FrontendDone /\ ~(untold[m] /\ lost[m]) => frontend[m] = src[m]

MakeStage(m) ==
  /\ pc[m] = "bpftool" => object[m] = backend[m]
  /\ pc[m] = "gcc" => skeleton[m] = backend[m]

Silent(m) == Busy(m) => told[m] = "nothing"

Built(m) ==
  told[m] = "ok" /\ ~untold[m] => binary[m] = [back |-> Code(m), front |-> src[m]]

Matched(m) ==
  binary[m] # Absent /\ ~lost[m] =>
    binary[m].back = Empty \/ binary[m].back.src = binary[m].front

Stages(m) ==
  /\ BackendStage(m) /\ FrontendStage(m) /\ MakeStage(m)
  /\ Silent(m) /\ Built(m) /\ Matched(m)

IInv == TypeOK /\ \A m \in Module : Stages(m)

(* What Stages(m) speaks of stays as it is. *)
Kept(m) ==
  /\ pc'[m] = pc[m] /\ src'[m] = src[m] /\ ast'[m] = ast[m] /\ told'[m] = told[m]
  /\ backend'[m] = backend[m] /\ frontend'[m] = frontend[m]
  /\ object'[m] = object[m] /\ skeleton'[m] = skeleton[m] /\ binary'[m] = binary[m]
  /\ untold'[m] = untold[m] /\ lost'[m] = lost[m]

USE DEF userVars, passVars, makeVars, fileVars, historyVars

LEMMA KeptStages ==
  ASSUME NEW m \in Module, Stages(m), Kept(m)
  PROVE  Stages(m)'
BY DEF Stages, BackendStage, FrontendStage, MakeStage, Silent, Built, Matched, Kept,
       Code, Busy

LEMMA TypeStep ==
  ASSUME TypeOK, [Next]_vars
  PROVE  TypeOK'
<1>0. USE PipelineAssumption DEF TypeOK, Places
<1>1. CASE UNCHANGED vars
  BY <1>1 DEF vars
<1>2. CASE MixCompile
  BY <1>2 DEF MixCompile, Stale
<1>3. CASE MixEnds
  BY <1>3 DEF MixEnds
<1>4. CASE Interrupt
  BY <1>4 DEF Interrupt
<1>5. ASSUME NEW m \in Module, NEW s \in Source, Edit(m, s)
      PROVE  TypeOK'
  BY <1>5 DEF Edit
<1>6. ASSUME NEW m \in Module, Compile(m)
      PROVE  TypeOK'
  <2>0. USE DEF Goto, RaiseError, Warning, Exit, Ends, Unseen
  <2>1. CASE CheckMain(m)
    BY <2>1 DEF CheckMain
  <2>2. CASE BurnFuel(m)
    BY <2>2 DEF BurnFuel
  <2>3. CASE BurnAgain(m)
    BY <2>3 DEF BurnAgain
  <2>4. CASE Optimize(m)
    BY <2>4 DEF Optimize
  <2>5. CASE GenerateCode(m)
    BY <2>5 DEF GenerateCode
  <2>6. CASE OpenBackend(m)
    BY <2>6 DEF OpenBackend
  <2>7. CASE WriteBackend(m)
    BY <2>7 DEF WriteBackend
  <2>8. CASE FormatBackend(m)
    BY <2>8 DEF FormatBackend
  <2>9. CASE WriteFrontend(m)
    <3>1. frontend' \in [Module -> Source \cup {Absent, Empty}]
      BY <2>9 DEF WriteFrontend, WriteFile
    <3>2. untold' \in [Module -> BOOLEAN] /\ lost' \in [Module -> BOOLEAN]
      BY <2>9 DEF WriteFrontend
    <3>3. pc' \in [Module -> Places] /\ mix = "running"
      BY <2>9 DEF WriteFrontend
    <3> QED
      BY <2>9, <3>1, <3>2, <3>3 DEF WriteFrontend
  <2>10. CASE OpenMakefile(m)
    BY <2>10 DEF OpenMakefile
  <2>11. CASE CopyMakefile(m)
    BY <2>11 DEF CopyMakefile
  <2>12. CASE RunMake(m)
    <3>1. CASE Ends(m, "ok") /\ Unseen(m) /\ UNCHANGED makeVars
      BY <2>12, <3>1 DEF RunMake
    <3>2. CASE makefile # "full" /\ Exit(m) /\ UNCHANGED <<makeVars, untold>>
      BY <2>12, <3>2 DEF RunMake
    <3>3. CASE /\ makefile = "full" /\ Goto(m, "clang")
               /\ object' = [object EXCEPT ![m] = Absent]
               /\ skeleton' = [skeleton EXCEPT ![m] = Absent]
               /\ binary' = [binary EXCEPT ![m] = Absent] /\ UNCHANGED untold
      BY <2>12, <3>3 DEF RunMake
    <3> QED
      BY <2>12, <3>1, <3>2, <3>3 DEF RunMake
  <2>13. CASE Clang(m)
    BY <2>13 DEF Clang
  <2>14. CASE Bpftool(m)
    BY <2>14 DEF Bpftool
  <2>15. CASE Gcc(m)
    BY <2>15 DEF Gcc
  <2> QED
    BY <1>6, <2>1, <2>2, <2>3, <2>4, <2>5, <2>6, <2>7, <2>8, <2>9, <2>10, <2>11,
       <2>12, <2>13, <2>14, <2>15 DEF Compile, Passes, Writes, Make
<1> QED
  BY <1>1, <1>2, <1>3, <1>4, <1>5, <1>6 DEF Next, User

-----------------------------------------------------------------------------
LEMMA InitSafe == Init => IInv
<1> SUFFICES ASSUME Init PROVE IInv
  OBVIOUS
<1>1. TypeOK
  BY PipelineAssumption DEF Init, TypeOK, Places
<1>2. ASSUME NEW m \in Module
      PROVE  Stages(m)
  BY DEF Init, Stages, BackendStage, FrontendStage, MakeStage, Silent, Built, Matched,
         BackendDone, FrontendDone, Busy
<1> QED
  BY <1>1, <1>2 DEF IInv

(***************************************************************************)
(* The steps of mix and of the user.                                       *)
(***************************************************************************)
LEMMA MixStages ==
  ASSUME IInv, MixCompile \/ MixEnds \/ User
  PROVE  \A m \in Module : Stages(m)'
<1>0. USE DEF IInv, TypeOK, Stages, BackendStage, FrontendStage, MakeStage, Silent,
              Built, Matched, Code, Busy, BackendDone, FrontendDone
<1> SUFFICES ASSUME NEW m \in Module
             PROVE  Stages(m)'
  OBVIOUS
<1>1. CASE MixCompile
  <2>1. CASE m \in Stale
    BY <1>1, <2>1 DEF MixCompile
  <2>2. CASE m \notin Stale
    BY <1>1, <2>2 DEF MixCompile
  <2> QED
    BY <2>1, <2>2
<1>2. CASE MixEnds
  BY <1>2 DEF MixEnds
<1>3. CASE Interrupt
  BY <1>3 DEF Interrupt
<1>4. CASE \E n \in Module, s \in Source : Edit(n, s)
  BY <1>4 DEF Edit
<1> QED
  BY <1>1, <1>2, <1>3, <1>4 DEF User

(***************************************************************************)
(* The steps of a compilation: what they do for another module, and then   *)
(* for their own, from stage to stage.                                     *)
(***************************************************************************)
LEMMA OthersKept ==
  ASSUME TypeOK, NEW m \in Module, NEW n \in Module, n # m, Compile(m)
  PROVE  Kept(n)
<1>0. USE DEF TypeOK, Kept, Goto, RaiseError, Warning, Exit, Ends, Unseen
<1>1. CASE Passes(m)
  BY <1>1 DEF Passes, CheckMain, BurnFuel, BurnAgain, Optimize, GenerateCode
<1>2. CASE Writes(m)
  BY <1>2 DEF Writes, OpenBackend, WriteBackend, FormatBackend, WriteFrontend, WriteFile,
              OpenMakefile, CopyMakefile
<1>3. CASE Make(m)
  BY <1>3 DEF Make, RunMake, Clang, Bpftool, Gcc
<1> QED
  BY <1>1, <1>2, <1>3 DEF Compile

LEMMA PassStages ==
  ASSUME IInv, NEW m \in Module, Passes(m)
  PROVE  Stages(m)'
<1>0. USE DEF IInv, TypeOK, Stages, BackendStage, FrontendStage, MakeStage, Silent,
              Built, Matched, Code, Busy, BackendDone, FrontendDone,
              Goto, RaiseError, Ends
<1>1. CASE CheckMain(m)
  BY <1>1 DEF CheckMain
<1>2. CASE BurnFuel(m)
  BY <1>2 DEF BurnFuel
<1>3. CASE BurnAgain(m)
  BY <1>3 DEF BurnAgain
<1>4. CASE Optimize(m)
  BY <1>4 DEF Optimize
<1>5. CASE GenerateCode(m)
  BY <1>5 DEF GenerateCode
<1> QED
  BY <1>1, <1>2, <1>3, <1>4, <1>5 DEF Passes

LEMMA WriteStages ==
  ASSUME IInv, NEW m \in Module, Writes(m)
  PROVE  Stages(m)'
<1>0. USE DEF IInv, TypeOK, Stages, BackendStage, FrontendStage, MakeStage, Silent,
              Built, Matched, Code, Busy, BackendDone, FrontendDone,
              Goto, RaiseError, Warning, Ends, Unseen
<1>1. CASE OpenBackend(m)
  BY <1>1 DEF OpenBackend
<1>2. CASE WriteBackend(m)
  BY <1>2 DEF WriteBackend
<1>3. CASE FormatBackend(m)
  BY <1>3 DEF FormatBackend
<1>4. CASE WriteFrontend(m)
  BY <1>4 DEF WriteFrontend, WriteFile
<1>5. CASE OpenMakefile(m)
  BY <1>5 DEF OpenMakefile
<1>6. CASE CopyMakefile(m)
  BY <1>6 DEF CopyMakefile
<1> QED
  BY <1>1, <1>2, <1>3, <1>4, <1>5, <1>6 DEF Writes

LEMMA MakeStages ==
  ASSUME IInv, NEW m \in Module, Make(m)
  PROVE  Stages(m)'
<1>0. USE DEF IInv, TypeOK, Stages, BackendStage, FrontendStage, MakeStage, Silent,
              Built, Matched, Code, Busy, BackendDone, FrontendDone,
              Goto, Warning, Exit, Ends, Unseen
<1>1. CASE RunMake(m)
  BY <1>1 DEF RunMake
<1>2. CASE Clang(m)
  BY <1>2 DEF Clang
<1>3. CASE Bpftool(m)
  BY <1>3 DEF Bpftool
<1>4. CASE Gcc(m)
  BY <1>4 DEF Gcc
<1> QED
  BY <1>1, <1>2, <1>3, <1>4 DEF Make

LEMMA StepSafe == IInv /\ [Next]_vars => IInv'
<1> SUFFICES ASSUME IInv, [Next]_vars PROVE IInv'
  OBVIOUS
<1>1. TypeOK'
  BY TypeStep DEF IInv
<1>2. \A m \in Module : Stages(m)'
  <2>1. CASE UNCHANGED vars
    <3>1. \A m \in Module : Kept(m)
      BY <2>1 DEF vars, Kept
    <3> QED
      BY <3>1, KeptStages DEF IInv
  <2>2. CASE MixCompile \/ MixEnds \/ User
    BY <2>2, MixStages
  <2>3. ASSUME NEW m \in Module, Compile(m), NEW n \in Module
        PROVE  Stages(n)'
    <3>1. CASE n # m
      BY <2>3, <3>1, OthersKept, KeptStages DEF IInv
    <3>2. CASE n = m
      BY <2>3, <3>2, PassStages, WriteStages, MakeStages DEF Compile
    <3> QED
      BY <3>1, <3>2
  <2> QED
    BY <2>1, <2>2, <2>3 DEF Next
<1> QED
  BY <1>1, <1>2 DEF IInv

-----------------------------------------------------------------------------
(* The types of the pipeline, and that nothing is compiled while mix is idle. *)
THEOREM CompileTyped == Spec => []TypeOK
<1>1. IInv => TypeOK
  BY DEF IInv
<1> QED
  BY <1>1, InitSafe, StepSafe, PTL DEF Spec

(* Whatever the passes make of a source, a compilation of honey.ex that ends *)
(* without a word has built the binary it was started for.                   *)
THEOREM OkBuilds == Spec => []OkMeansBuilt
<1>1. IInv => OkMeansBuilt
  BY DEF IInv, Stages, Built, OkMeansBuilt
<1> QED
  BY <1>1, InitSafe, StepSafe, PTL DEF Spec

(* No binary joins the loader of one version of a source to the program of *)
(* another, as long as write.ex could write the front end.                 *)
THEOREM HalvesStayMatched == Spec => []HalvesMatch
<1>1. IInv => HalvesMatch
  BY DEF IInv, Stages, Matched, HalvesMatch
<1> QED
  BY <1>1, InitSafe, StepSafe, PTL DEF Spec
=============================================================================
