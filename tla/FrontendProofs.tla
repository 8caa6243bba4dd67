---------------------------- MODULE FrontendProofs ----------------------------
(***************************************************************************)
(* Proofs about Frontend for every UINT_MAX, every set of life times and   *)
(* every set of loaders.                                                   *)
(*                                                                         *)
(* TimerIsExact is not inductive: it speaks of the end only.  Counting     *)
(* says where the countdown stands at each place of output's loop, and     *)
(* Hooks what the loader's place and the handler tell of the attachment.   *)
(***************************************************************************)
EXTENDS Frontend, TLAPS

Starting == {"getopt", "open", "load", "interface", "attach"}

(* the countdown with n seconds to go, as the unsigned it is kept in *)
ToGo(n) == IF n = UINT_MAX THEN 0 ELSE n + 1

Counting ==
  /\ at \in Starting => slept = 0 /\ outputs = 0
  /\ lifeTime > 0 /\ at \in {"output", "decide"} =>
       slept <= lifeTime /\ time = ToGo(lifeTime - slept)
  /\ lifeTime > 0 /\ at = "sleep" => slept < lifeTime /\ time = lifeTime - slept
  /\ lifeTime > 0 /\ at = "output" => outputs = slept
  /\ lifeTime > 0 /\ at \in {"decide", "sleep"} => outputs = slept + 1

Hooks ==
  /\ made.sec = "tracepoint" => ~handled
  /\ made.sec = "tracepoint" /\ at \notin {"output", "spin", "decide", "sleep"} => ~hooked
  /\ made.sec = "xdp_md" /\ at \in {"interface", "attach"} => handled
  /\ made.sec = "xdp_md" /\ Attached => handled

IInv == TypeOK /\ Counting /\ TimerIsExact /\ Hooks

-----------------------------------------------------------------------------
LEMMA InitFrontendSafe == InitFrontend => IInv
<1> SUFFICES ASSUME InitFrontend PROVE IInv
  OBVIOUS
<1>1. TypeOK
  <2>1. printAll \in BOOLEAN /\ hooked \in BOOLEAN /\ handled \in BOOLEAN
    BY DEF InitFrontend
  <2>2. 0 \in 0..UINT_MAX /\ 0 \in 0..(UINT_MAX + 2)
    BY FrontendAssumption
  <2>3. QED
    BY <2>1, <2>2 DEF InitFrontend, TypeOK
<1>2. Counting /\ TimerIsExact /\ Hooks
  BY DEF InitFrontend, Counting, TimerIsExact, Hooks, Attached, Starting
<1>3. QED
  BY <1>1, <1>2 DEF IInv

-----------------------------------------------------------------------------
(***************************************************************************)
(* The types.                                                              *)
(***************************************************************************)
LEMMA CappedTyped ==
  \A n \in 0..(UINT_MAX + 2) : Capped(n) \in 0..(UINT_MAX + 2)
BY FrontendAssumption DEF Capped

LEMMA ExitTyped ==
  ASSUME TypeOK, NEW how \in {"failed", "signal", "timer"}, Exit(how)
  PROVE  TypeOK'
<1>1. hooked' \in BOOLEAN
  BY DEF Exit
<1>2. QED
  BY <1>1 DEF TypeOK, Exit, options, history

LEMMA MainTyped == TypeOK /\ MainStep => TypeOK'
<1> SUFFICES ASSUME TypeOK, MainStep PROVE TypeOK'
  OBVIOUS
<1> USE FrontendAssumption
<1>1. CASE GetOpt
  BY <1>1 DEF GetOpt, Goto, history, TypeOK
<1>2. CASE Open
  BY <1>2, ExitTyped DEF Open, Goto, options, history, TypeOK
<1>3. CASE Load
  <2>1. CASE Exit("failed")
    BY <2>1, ExitTyped
  <2>2. CASE ~Exit("failed")
    <3>1. handled' \in BOOLEAN
      BY <1>3, <2>2 DEF Load
    <3>2. at' \in {"interface", "attach"}
      BY <1>3, <2>2 DEF Load, Goto
    <3>3. QED
      BY <1>3, <2>2, <3>1, <3>2 DEF Load, Goto, options, history, TypeOK
  <2>3. QED
    BY <2>1, <2>2
<1>4. CASE FindInterface
  BY <1>4 DEF FindInterface, Goto, options, history, TypeOK
<1>5. CASE Attach
  <2>1. CountDownFromNext(lifeTime) \in 0..UINT_MAX
    BY DEF CountDownFromNext, TypeOK
  <2>2. QED
    BY <1>5, <2>1, ExitTyped DEF Attach, Goto, options, history, TypeOK
<1>6. CASE Output
  BY <1>6, CappedTyped DEF Output, Goto, options, TypeOK
<1>7. CASE Spin
  BY <1>7, CappedTyped DEF Spin, options, TypeOK
<1>8. CASE Decide
  <2>1. time # 1 => Prev(time) \in 0..UINT_MAX
    BY DEF Prev, TypeOK
  <2>2. QED
    BY <1>8, <2>1, ExitTyped DEF Decide, Goto, options, history, TypeOK
<1>9. CASE Sleep
  BY <1>9, CappedTyped DEF Sleep, Goto, options, TypeOK
<1>10. QED
  BY <1>1, <1>2, <1>3, <1>4, <1>5, <1>6, <1>7, <1>8, <1>9 DEF MainStep

LEMMA NextTyped == TypeOK /\ [NextFrontend]_frontend => TypeOK'
<1> SUFFICES ASSUME TypeOK, [NextFrontend]_frontend PROVE TypeOK'
  OBVIOUS
<1>1. CASE Signal
  <2>1. CASE UnloadProg
    <3>1. hooked' \in BOOLEAN
      BY <2>1 DEF UnloadProg
    <3>2. QED
      BY <2>1, <3>1 DEF UnloadProg, options, history, TypeOK
  <2>2. QED
    BY <1>1, <2>1, ExitTyped DEF Signal
<1>2. CASE RunAgain
  <2>1. printAll' \in BOOLEAN /\ handled' \in BOOLEAN
    BY <1>2 DEF RunAgain
  <2>2. 0 \in 0..UINT_MAX /\ 0 \in 0..(UINT_MAX + 2)
    BY FrontendAssumption
  <2>3. QED
    BY <1>2, <2>1, <2>2 DEF RunAgain, TypeOK
<1>3. CASE UNCHANGED frontend
  BY <1>3 DEF frontend, TypeOK
<1>4. QED
  BY <1>1, <1>2, <1>3, MainTyped DEF NextFrontend

-----------------------------------------------------------------------------
(***************************************************************************)
(* The countdown.  Exit leaves the histories alone, so only the timer's    *)
(* end has something to show.                                              *)
(***************************************************************************)
LEMMA ExitCounts ==
  ASSUME NEW how \in {"failed", "signal"}, Exit(how)
  PROVE  Counting' /\ TimerIsExact'
BY DEF Exit, Counting, TimerIsExact, Starting

LEMMA OutputCounts == IInv /\ Output => Counting'
BY FrontendAssumption DEF IInv, TypeOK, Output, Capped, Goto, options, Counting, Starting, ToGo

LEMMA DecideCounts == IInv /\ Decide => Counting' /\ TimerIsExact'
<1> SUFFICES ASSUME IInv, Decide PROVE Counting' /\ TimerIsExact'
  OBVIOUS
<1> USE FrontendAssumption
<1>1. /\ lifeTime \in 0..UINT_MAX /\ slept \in 0..(UINT_MAX + 2)
      /\ at = "decide" /\ lifeTime' = lifeTime /\ slept' = slept /\ outputs' = outputs
  BY DEF IInv, TypeOK, Decide, Exit, Goto, options, history
<1>2. CASE lifeTime = 0
  BY <1>1, <1>2 DEF Decide, Goto, Counting, TimerIsExact, Starting, IInv, TypeOK
<1>3. CASE lifeTime > 0
  <2>1. slept <= lifeTime /\ time = ToGo(lifeTime - slept) /\ outputs = slept + 1
    BY <1>1, <1>3 DEF IInv, Counting
  <2>2. CASE time = 1
    <3>1. slept = lifeTime
      BY <1>1, <2>1, <2>2 DEF ToGo
    <3>2. at' = "exited"
      BY <1>3, <2>2 DEF Decide, Exit
    <3>3. QED
      BY <1>1, <1>3, <2>1, <3>1, <3>2 DEF Counting, TimerIsExact, Starting
  <2>3. CASE time # 1
    <3>1. at' = "sleep" /\ exit' = exit /\ time' = Prev(time)
      BY <1>1, <1>3, <2>3 DEF Decide, Goto
    <3>2. slept < lifeTime /\ Prev(time) = lifeTime - slept
      BY <1>1, <1>3, <2>1, <2>3 DEF ToGo, Prev
    <3>3. exit' = "none"
      BY <1>1, <3>1 DEF IInv, TypeOK
    <3>4. QED
      BY <1>1, <2>1, <3>1, <3>2, <3>3 DEF Counting, TimerIsExact, Starting
  <2>4. QED
    BY <2>2, <2>3
<1>4. QED
  BY <1>1, <1>2, <1>3

LEMMA SleepCounts == IInv /\ Sleep => Counting'
<1> SUFFICES ASSUME IInv, Sleep PROVE Counting'
  OBVIOUS
<1>1. /\ at = "sleep" /\ at' = "output" /\ slept' = Capped(slept)
      /\ lifeTime' = lifeTime /\ time' = time /\ outputs' = outputs
      /\ lifeTime \in 0..UINT_MAX /\ slept \in 0..(UINT_MAX + 2)
  BY DEF Sleep, Goto, options, IInv, TypeOK
<1>2. CASE lifeTime > 0
  <2>1. slept < lifeTime /\ time = lifeTime - slept /\ outputs = slept + 1
    BY <1>1, <1>2 DEF IInv, Counting
  <2>2. slept' = slept + 1 /\ time = ToGo(lifeTime - (slept + 1))
    BY <1>1, <2>1, FrontendAssumption DEF Capped, ToGo
  <2>3. QED
    BY <1>1, <2>1, <2>2 DEF Counting, Starting
<1>3. QED
  BY <1>1, <1>2 DEF Counting, Starting

LEMMA StartCounts ==
  IInv /\ (GetOpt \/ Open \/ Load \/ FindInterface \/ Attach) => Counting' /\ TimerIsExact'
<1> SUFFICES ASSUME IInv, GetOpt \/ Open \/ Load \/ FindInterface \/ Attach
             PROVE  Counting' /\ TimerIsExact'
  OBVIOUS
<1>1. CASE Exit("failed")
  BY <1>1, ExitCounts
<1>2. CASE ~Exit("failed")
  <2>1. slept = 0 /\ outputs = 0 /\ slept' = 0 /\ outputs' = 0
    BY <1>2 DEF IInv, Counting, Starting, GetOpt, Open, Load, FindInterface, Attach, history
  <2>2. exit' = exit /\ exit = "none"
    BY <1>2 DEF IInv, TypeOK, GetOpt, Open, Load, FindInterface, Attach, Goto
  <2>3. at' \in Starting \/ (Attach /\ at' = "output")
    BY <1>2 DEF GetOpt, Open, Load, FindInterface, Attach, Goto, Starting
  <2>4. CASE at' = "output" /\ Attach
    <3>1. time' = CountDownFromNext(lifeTime) /\ lifeTime' = lifeTime
      BY <1>2, <2>4 DEF Attach, options
    <3>2. lifeTime > 0 => time' = ToGo(lifeTime)
      BY <3>1, FrontendAssumption DEF CountDownFromNext, ToGo, IInv, TypeOK
    <3>3. lifeTime \in Int
      BY DEF IInv, TypeOK
    <3>4. QED
      BY <2>1, <2>2, <2>4, <3>1, <3>2, <3>3 DEF Counting, TimerIsExact, Starting
  <2>5. QED
    BY <2>1, <2>2, <2>3, <2>4 DEF Counting, TimerIsExact, Starting
<1>3. QED
  BY <1>1, <1>2

LEMMA NextCounts == IInv /\ [NextFrontend]_frontend => Counting' /\ TimerIsExact'
<1> SUFFICES ASSUME IInv, [NextFrontend]_frontend PROVE Counting' /\ TimerIsExact'
  OBVIOUS
<1>1. CASE Output \/ Spin \/ Sleep
  <2>1. exit' = "none"
    BY <1>1 DEF IInv, TypeOK, Output, Spin, Sleep, Goto
  <2>2. CASE Spin
    BY <2>1, <2>2 DEF Spin, Counting, TimerIsExact, Starting
  <2>3. QED
    BY <1>1, <2>1, <2>2, OutputCounts, SleepCounts DEF TimerIsExact
<1>2. CASE Signal
  BY <1>2, ExitCounts DEF Signal, UnloadProg, Counting, TimerIsExact, Starting
<1>3. CASE RunAgain
  BY <1>3 DEF RunAgain, Counting, TimerIsExact, Starting
<1>4. CASE UNCHANGED frontend
  BY <1>4 DEF frontend, IInv, Counting, TimerIsExact
<1>5. QED
  BY <1>1, <1>2, <1>3, <1>4, StartCounts, DecideCounts DEF NextFrontend, MainStep

-----------------------------------------------------------------------------
(***************************************************************************)
(* The attachment.  Once the steps are seen as what they do to the place,  *)
(* to hooked and to handled, it is a matter of cases.                      *)
(***************************************************************************)
LEMMA ExitHooks ==
  ASSUME IInv, NEW how, Exit(how)
  PROVE  Hooks'
BY DEF Exit, options, IInv, Hooks, Attached

LEMMA NextHooks == IInv /\ [NextFrontend]_frontend => Hooks'
<1> SUFFICES ASSUME IInv, [NextFrontend]_frontend PROVE Hooks'
  OBVIOUS
<1>1. CASE GetOpt
  BY <1>1 DEF GetOpt, Goto, IInv, Hooks, Attached
<1>2. CASE Open
  BY <1>2, ExitHooks DEF Open, Goto, options, IInv, Hooks, Attached
<1>3. CASE Load
  <2>1. CASE Exit("failed")
    BY <2>1, ExitHooks
  <2>2. CASE ~Exit("failed")
    <3>1. handled' <=> made.sec = "xdp_md"
      BY <1>3, <2>2 DEF Load
    <3>2. at' = IF made.sec = "xdp_md" THEN "interface" ELSE "attach"
      BY <1>3, <2>2 DEF Load, Goto
    <3>3. QED
      BY <1>3, <2>2, <3>1, <3>2 DEF Load, options, IInv, Hooks, Attached
  <2>3. QED
    BY <2>1, <2>2
<1>4. CASE FindInterface
  BY <1>4 DEF FindInterface, Goto, options, IInv, Hooks, Attached
<1>5. CASE Attach
  BY <1>5, ExitHooks DEF Attach, Goto, options, IInv, Hooks, Attached
<1>6. CASE Output
  BY <1>6 DEF Output, Goto, options, IInv, Hooks, Attached
<1>7. CASE Spin
  BY <1>7 DEF Spin, options, IInv, Hooks, Attached
<1>8. CASE Decide
  BY <1>8, ExitHooks DEF Decide, Goto, options, IInv, Hooks, Attached
<1>9. CASE Sleep
  BY <1>9 DEF Sleep, Goto, options, IInv, Hooks, Attached
<1>10. CASE Signal
  BY <1>10, ExitHooks DEF Signal, UnloadProg, options, IInv, Hooks, Attached
<1>11. CASE RunAgain
  BY <1>11 DEF RunAgain, IInv, Hooks, Attached
<1>12. CASE UNCHANGED frontend
  BY <1>12 DEF frontend, IInv, Hooks, Attached
<1>13. QED
  BY <1>1, <1>2, <1>3, <1>4, <1>5, <1>6, <1>7, <1>8, <1>9, <1>10, <1>11, <1>12
     DEF NextFrontend, MainStep

-----------------------------------------------------------------------------
LEMMA NextFrontendSafe == IInv /\ [NextFrontend]_frontend => IInv'
BY NextTyped, NextCounts, NextHooks DEF IInv

LEMMA FrontendSafety == SpecFrontend => []IInv
BY InitFrontendSafe, NextFrontendSafe, PTL DEF SpecFrontend

(***************************************************************************)
(* The loader's variables keep their types; its countdown, kept in an      *)
(* unsigned that wraps at UINT_MAX, in particular.                         *)
(***************************************************************************)
THEOREM FrontendTyped == SpecFrontend => []TypeOK
<1>1. IInv => TypeOK
  BY DEF IInv
<1>2. QED
  BY <1>1, FrontendSafety, PTL

(***************************************************************************)
(* The duration given by -t is kept to the second, for every unsigned,     *)
(* UINT_MAX included, at which time++ wraps to 0.                          *)
(***************************************************************************)
THEOREM DurationIsExact == SpecFrontend => []TimerIsExact
<1>1. IInv => TimerIsExact
  BY DEF IInv
<1>2. QED
  BY <1>1, FrontendSafety, PTL

(***************************************************************************)
(* A signal after attaching leaves nothing attached, XDP included.         *)
(***************************************************************************)
LEMMA SignalStepUnhooks == IInv /\ [NextFrontend]_frontend => SignalUnhooksStep
<1> SUFFICES ASSUME IInv, [NextFrontend]_frontend, Attached, exit' = "signal"
             PROVE  ~hooked'
  BY DEF SignalUnhooksStep
<1>1. exit = "none" /\ made.sec \in {"xdp_md", "tracepoint"}
  BY FrontendAssumption DEF IInv, TypeOK, Attached, GeneratedLoader
<1>2. Signal
  BY <1>1 DEF NextFrontend, MainStep, frontend, Attached, GetOpt, Open, Load, FindInterface,
              Attach, Output, Spin, Decide, Sleep, RunAgain, Goto, Exit
<1>3. CASE UnloadProg
  BY <1>3 DEF UnloadProg, Attached
<1>4. CASE ~handled /\ Exit("signal")
  BY <1>1, <1>4 DEF Exit, IInv, Hooks
<1>5. QED
  BY <1>2, <1>3, <1>4 DEF Signal

THEOREM SignalsUnhook == SpecFrontend => SignalUnhooks
<1>1. IInv /\ [NextFrontend]_frontend => [SignalUnhooksStep]_frontend
  BY SignalStepUnhooks
<1>2. QED
  BY <1>1, FrontendSafety, PTL DEF SpecFrontend, SignalUnhooks
=============================================================================
