--------------------------- MODULE SharedMapsProofs ---------------------------
(***************************************************************************)
(* Proofs about SharedMaps for any number of CPUs, any keys, any size of   *)
(* the map and any number of events.                                       *)
(*                                                                         *)
(* CountsNeverExceed becomes inductive with what the kernel sees to, that  *)
(* no two keys share an element (Apart), and with what the CPUs hold: on a *)
(* map that writes in place a pointer still points to the element of its   *)
(* key (PointersCurrent), and what was read is no more than the events of  *)
(* that key so far (ItemsBelow).                                           *)
(***************************************************************************)
EXTENDS SharedMaps, FiniteSetTheorems, TLAPS

(* Keys share no element with each other or with what a CPU has in reserve. *)
Apart ==
  /\ IsFiniteSet(Stored) /\ Cardinality(Stored) <= MaxEntries
  /\ \A k, l \in Stored : element[k] = element[l] => k = l
  /\ \A k \in Stored : \A c \in Cpus : element[k] # spare[c]
  /\ \A c, d \in Cpus : spare[c] = spare[d] => c = d

InPlace == program.type # "hash"

PointersCurrent ==
  InPlace => \A c \in Cpus :
    pc[c] = "read" => key[c] \in Stored /\ pointer[c] = element[key[c]]

ItemsBelow ==
  InPlace => \A c \in Cpus :
    pc[c] = "update" => item[c] <= events[key[c]][Slot(c)]

(* a CPU runs the program only if its events happen there *)
RunsWhereItMay == \A c \in Cpus : pc[c] # "idle" => c \in program.cpus

(* a map that is not per-CPU uses the first slot of its elements only *)
SharedInSlot0 ==
  ~IsPerCpu => \A e \in Elements : \A s \in Slots : s # 0 => content[e][s] = 0

IInv == /\ TypeOK /\ Apart /\ RunsWhereItMay /\ SharedInSlot0
        /\ PointersCurrent /\ ItemsBelow /\ CountsNeverExceed

HoldsCount(c) ==
  /\ pc[c] = "read" => key[c] \in Stored /\ pointer[c] = element[key[c]]
  /\ pc[c] = "update" => item[c] = CountOf(key[c], Slot(c))

OneHolder == OneAtATime => \A c \in Cpus : HoldsCount(c)

CountsBelow ==
  OneAtATime => \A k \in Keys : \A s \in Slots : CountOf(k, s) <= events[k][s]

ExactInv == IInv /\ OneHolder /\ CountsBelow

-----------------------------------------------------------------------------
(***************************************************************************)
(* Constants and operators.                                                *)
(***************************************************************************)
LEMMA ConstantsTyped ==
  /\ NCpu \in Nat \ {0} /\ MaxEntries \in Nat \ {0} /\ INT_MAX \in Nat \ {0}
  /\ 0 \in Cpus /\ Slots = Cpus
  /\ None \notin Elements
  /\ \A c \in Cpus : MaxEntries + c \in Elements
  /\ 0..(MaxEntries - 1) \subseteq Elements
BY MapAssumption DEF Cpus, Slots, Elements, None

LEMMA IncrementTyped ==
  \A n \in -INT_MAX - 1 .. INT_MAX :
    Increment(n) \in -INT_MAX - 1 .. INT_MAX /\ Increment(n) <= n + 1
BY MapAssumption DEF Increment

LEMMA SlotTyped == \A c \in Cpus : Slot(c) \in Slots
BY ConstantsTyped DEF Slot

LEMMA StoredTyped ==
  ASSUME TypeOK, NEW k \in Stored
  PROVE  k \in Keys /\ element[k] \in Elements
BY DEF TypeOK, Stored

-----------------------------------------------------------------------------
LEMMA InitTyped == InitMaps => TypeOK
<1> SUFFICES ASSUME InitMaps PROVE TypeOK
  OBVIOUS
<1> USE ConstantsTyped
<1>1. element \in [Keys -> Elements \cup {None}]
  BY DEF InitMaps, Elements
<1>2. spare \in [Cpus -> Elements] /\ pointer \in [Cpus -> Elements]
  <2>1. 0 \in Elements
    BY DEF Elements
  <2>2. QED
    BY <2>1 DEF InitMaps
<1>3. content \in [Elements -> [Slots -> -INT_MAX - 1 .. INT_MAX]]
  BY DEF InitMaps
<1>4. item \in [Cpus -> -INT_MAX - 1 .. INT_MAX]
  BY DEF InitMaps
<1>5. QED
  BY <1>1, <1>2, <1>3, <1>4 DEF InitMaps, TypeOK

LEMMA InitApart == InitMaps => Apart
<1> SUFFICES ASSUME InitMaps PROVE Apart
  OBVIOUS
<1>1. Stored \subseteq 0..(MaxEntries - 1) /\ \A k \in Stored : element[k] = k
  BY ConstantsTyped DEF InitMaps, Stored, None
<1>2. IsFiniteSet(0..(MaxEntries - 1)) /\ Cardinality(0..(MaxEntries - 1)) = MaxEntries
  BY ConstantsTyped, FS_Interval
<1>3. IsFiniteSet(Stored) /\ Cardinality(Stored) <= MaxEntries
  BY <1>1, <1>2, FS_Subset
<1>4. \A c \in Cpus : spare[c] = MaxEntries + c
  BY DEF InitMaps
<1>5. QED
  BY <1>1, <1>3, <1>4, ConstantsTyped DEF Apart, Cpus

LEMMA InitSafe == InitMaps => IInv
<1> SUFFICES ASSUME InitMaps PROVE IInv
  OBVIOUS
<1>1. PointersCurrent /\ ItemsBelow
  BY DEF InitMaps, PointersCurrent, ItemsBelow
<1>2. CountsNeverExceed
  <2> SUFFICES ASSUME NEW k \in Keys, NEW s \in Slots
               PROVE  CountOf(k, s) <= events[k][s]
    BY DEF CountsNeverExceed
  <2>1. events[k][s] = 0 /\ (element[k] # None => content[element[k]][s] = 0)
    BY InitTyped DEF InitMaps, TypeOK
  <2>2. QED
    BY <2>1 DEF CountOf
<1>3. RunsWhereItMay /\ SharedInSlot0
  BY DEF InitMaps, RunsWhereItMay, SharedInSlot0
<1>4. QED
  BY <1>1, <1>2, <1>3, InitTyped, InitApart DEF IInv

-----------------------------------------------------------------------------
(***************************************************************************)
(* Types.  The writes come first.                                          *)
(***************************************************************************)
LEMMA WriteTyped ==
  ASSUME TypeOK, NEW c \in Cpus, NEW n \in -INT_MAX - 1 .. INT_MAX,
         \/ WriteSpare(c, n) /\ key[c] \in Stored
         \/ WriteInPlace(c, n) /\ key[c] \in Stored
         \/ WriteNew(c, n)
         \/ UNCHANGED map
  PROVE  /\ element' \in [Keys -> Elements \cup {None}]
         /\ content' \in [Elements -> [Slots -> -INT_MAX - 1 .. INT_MAX]]
         /\ spare' \in [Cpus -> Elements]
<1> USE SlotTyped, ConstantsTyped
<1>1. CASE WriteSpare(c, n) /\ key[c] \in Stored
  BY <1>1, StoredTyped DEF WriteSpare, TypeOK
<1>2. CASE WriteInPlace(c, n) /\ key[c] \in Stored
  BY <1>2, StoredTyped DEF WriteInPlace, TypeOK
<1>3. CASE WriteNew(c, n)
  <2>1. PICK e \in Unused :
          /\ content' = [content EXCEPT ![e] = [s \in Slots |-> IF s = Slot(c) THEN n ELSE 0]]
          /\ element' = [element EXCEPT ![key[c]] = e]
    BY <1>3 DEF WriteNew
  <2>2. e \in Elements /\ 0 \in -INT_MAX - 1 .. INT_MAX
    BY DEF Unused
  <2>3. element' \in [Keys -> Elements \cup {None}]
    BY <2>1, <2>2 DEF TypeOK
  <2>4. [s \in Slots |-> IF s = Slot(c) THEN n ELSE 0] \in [Slots -> -INT_MAX - 1 .. INT_MAX]
    BY <2>2
  <2>5. content' \in [Elements -> [Slots -> -INT_MAX - 1 .. INT_MAX]]
    BY <2>1, <2>2, <2>4 DEF TypeOK
  <2>6. QED
    BY <1>3, <2>3, <2>5 DEF WriteNew, TypeOK
<1>4. QED
  BY <1>1, <1>2, <1>3 DEF map, TypeOK

LEMMA EndedTyped ==
  ASSUME TypeOK, NEW c \in Cpus, Ended(c)
  PROVE  events' \in [Keys -> [Slots -> Nat]]
BY SlotTyped DEF Ended, TypeOK

LEMMA StepTyped ==
  ASSUME TypeOK, NEW c \in Cpus, Event(c) \/ Step(c)
  PROVE  TypeOK'
<1> USE ConstantsTyped, SlotTyped
<1>1. CASE Event(c)
  BY <1>1 DEF Event, Goto, map, TypeOK
<1>2. CASE MapKey(c)
  BY <1>2 DEF MapKey, Goto, map, locals, TypeOK
<1>3. CASE Found(c)
  <2>1. element[key[c]] \in Elements
    BY <1>3 DEF Found, TypeOK
  <2>2. QED
    BY <1>3, <2>1 DEF Found, Goto, map, TypeOK
<1>4. CASE NotFound(c)
  <2>1. events' \in [Keys -> [Slots -> Nat]]
    BY <1>4, EndedTyped DEF NotFound, TypeOK
  <2>2. item' \in [Cpus -> -INT_MAX - 1 .. INT_MAX]
    BY <1>4 DEF NotFound, TypeOK
  <2>3. QED
    BY <1>4, <2>1, <2>2 DEF NotFound, Goto, map, TypeOK
<1>5. CASE Read(c)
  BY <1>5 DEF Read, Goto, map, TypeOK
<1>6. CASE Update(c)
  <2>1. Increment(item[c]) \in -INT_MAX - 1 .. INT_MAX
    BY IncrementTyped DEF TypeOK
  <2>2. /\ element' \in [Keys -> Elements \cup {None}]
        /\ content' \in [Elements -> [Slots -> -INT_MAX - 1 .. INT_MAX]]
        /\ spare' \in [Cpus -> Elements]
    BY <1>6, <2>1, WriteTyped DEF Update, Replaces
  <2>3. events' \in [Keys -> [Slots -> Nat]]
    BY <1>6, EndedTyped DEF Update
  <2>4. QED
    BY <1>6, <2>2, <2>3 DEF Update, Goto, locals, TypeOK
<1>7. CASE Catch(c)
  BY <1>7 DEF Catch, Goto, map, locals, TypeOK
<1>8. QED
  BY <1>1, <1>2, <1>3, <1>4, <1>5, <1>6, <1>7 DEF Step

LEMMA NextTyped == TypeOK /\ [NextMaps]_maps => TypeOK'
<1> SUFFICES ASSUME TypeOK, [NextMaps]_maps PROVE TypeOK'
  OBVIOUS
<1>1. CASE UNCHANGED maps
  BY <1>1 DEF maps, map, locals, TypeOK
<1>2. CASE NextMaps
  BY <1>2, StepTyped DEF NextMaps
<1>3. QED
  BY <1>1, <1>2

-----------------------------------------------------------------------------
(***************************************************************************)
(* Only an update writes to the map, in one of three ways.                 *)
(***************************************************************************)
Writes(c, n) ==
  \/ key[c] \in Stored /\ ~InPlace /\ WriteSpare(c, n)
  \/ key[c] \in Stored /\ InPlace /\ WriteInPlace(c, n)
  \/ key[c] \notin Stored /\ Cardinality(Stored) < MaxEntries /\ WriteNew(c, n)

LEMMA UpdateWrites ==
  ASSUME NEW c \in Cpus, Update(c)
  PROVE  Writes(c, Increment(item[c])) \/ UNCHANGED map
BY DEF Update, Writes, Replaces, Inserts, InPlace

LEMMA OthersKeepMap ==
  ASSUME NEW c \in Cpus, Event(c) \/ Step(c)
  PROVE  UNCHANGED map \/ Update(c)
BY DEF Step, Event, MapKey, Found, NotFound, Read, Catch

LEMMA WritesApart ==
  ASSUME TypeOK, Apart, NEW c \in Cpus, NEW n, Writes(c, n)
  PROVE  Apart'
<1> USE ConstantsTyped
<1>1. CASE key[c] \in Stored /\ WriteSpare(c, n)
  <2>1. /\ element' = [element EXCEPT ![key[c]] = spare[c]]
        /\ spare' = [spare EXCEPT ![c] = element[key[c]]]
    BY <1>1 DEF WriteSpare
  <2>2. key[c] \in Keys /\ element[key[c]] \in Elements /\ spare[c] \in Elements
    BY <1>1, StoredTyped DEF TypeOK
  <2>3. /\ element'[key[c]] = spare[c]
        /\ \A k \in Keys : k # key[c] => element'[k] = element[k]
        /\ spare'[c] = element[key[c]]
        /\ \A d \in Cpus : d # c => spare'[d] = spare[d]
    BY <2>1, <2>2 DEF TypeOK
  <2>4. Stored' = Stored
    BY <1>1, <2>2, <2>3 DEF Stored
  <2> DEFINE place(k) == IF k = key[c] THEN spare[c] ELSE element[k]
             reserve(d) == IF d = c THEN element[key[c]] ELSE spare[d]
  <2>5. /\ \A k \in Stored : element'[k] = place(k)
        /\ \A d \in Cpus : spare'[d] = reserve(d)
    BY <2>3 DEF Stored
  <2>6. \A k, l \in Stored : place(k) = place(l) => k = l
    BY <1>1 DEF Apart
  <2>7. \A k \in Stored : \A d \in Cpus : place(k) # reserve(d)
    BY <1>1 DEF Apart
  <2>8. \A d, f \in Cpus : reserve(d) = reserve(f) => d = f
    BY <1>1 DEF Apart
  <2> HIDE DEF place, reserve
  <2>9. QED
    BY <2>4, <2>5, <2>6, <2>7, <2>8 DEF Apart
<1>2. CASE WriteInPlace(c, n)
  BY <1>2 DEF WriteInPlace, Apart, Stored
<1>3. CASE key[c] \notin Stored /\ Cardinality(Stored) < MaxEntries /\ WriteNew(c, n)
  <2>1. PICK e \in Unused : element' = [element EXCEPT ![key[c]] = e]
    BY <1>3 DEF WriteNew
  <2>2. /\ e \in Elements /\ spare' = spare /\ key[c] \in Keys
        /\ \A k \in Stored : element[k] # e
        /\ \A d \in Cpus : spare[d] # e
    BY <1>3 DEF Unused, WriteNew, TypeOK
  <2>3. /\ element'[key[c]] = e
        /\ \A k \in Keys : k # key[c] => element'[k] = element[k]
    BY <2>1, <2>2 DEF TypeOK
  <2>4. Stored' = Stored \cup {key[c]}
    BY <2>2, <2>3 DEF Stored
  <2>5. IsFiniteSet(Stored') /\ Cardinality(Stored') = Cardinality(Stored) + 1
    BY <1>3, <2>4, FS_AddElement DEF Apart
  <2>6. Cardinality(Stored) \in Nat
    BY FS_CardinalityType DEF Apart
  <2>7. Cardinality(Stored') <= MaxEntries
    BY <1>3, <2>5, <2>6
  <2>8. \A k \in Stored' : \/ k = key[c] /\ element'[k] = e
                           \/ k # key[c] /\ k \in Stored /\ element'[k] = element[k]
    BY <2>3, <2>4 DEF Stored
  <2>9. QED
    BY <2>2, <2>5, <2>7, <2>8 DEF Apart
<1>4. QED
  BY <1>1, <1>2, <1>3 DEF Writes

LEMMA NextApart == TypeOK /\ Apart /\ [NextMaps]_maps => Apart'
<1> SUFFICES ASSUME TypeOK, Apart, [NextMaps]_maps PROVE Apart'
  OBVIOUS
<1>1. CASE UNCHANGED map
  BY <1>1 DEF map, Apart, Stored
<1>2. ASSUME NEW c \in Cpus, Update(c) PROVE Apart'
  BY <1>1, <1>2, UpdateWrites, WritesApart
<1>3. QED
  BY <1>1, <1>2, OthersKeepMap DEF NextMaps, maps

-----------------------------------------------------------------------------
(***************************************************************************)
(* In place, a key keeps its element once it has one.                      *)
(***************************************************************************)
LEMMA ElementsStay ==
  ASSUME TypeOK, InPlace, [NextMaps]_maps
  PROVE  \A k \in Stored : k \in Stored' /\ element'[k] = element[k]
<1>1. CASE UNCHANGED map
  BY <1>1 DEF map, Stored
<1>2. ASSUME NEW c \in Cpus, Writes(c, Increment(item[c]))
      PROVE  \A k \in Stored : k \in Stored' /\ element'[k] = element[k]
  BY <1>2 DEF Writes, WriteInPlace, WriteNew, Stored, TypeOK
<1>3. QED
  BY <1>1, <1>2, UpdateWrites, OthersKeepMap DEF NextMaps, maps

(* Histories grow. *)
LEMMA EventsGrow ==
  ASSUME TypeOK, [NextMaps]_maps
  PROVE  \A k \in Keys : \A s \in Slots : events[k][s] <= events'[k][s]
<1>1. ASSUME NEW c \in Cpus, Ended(c)
      PROVE  \A k \in Keys : \A s \in Slots : events[k][s] <= events'[k][s]
  BY <1>1, SlotTyped DEF Ended, TypeOK
<1>2. CASE UNCHANGED events
  BY <1>2 DEF TypeOK
<1>3. QED
  BY <1>1, <1>2 DEF NextMaps, maps, Step, Event, MapKey, Found, NotFound, Read, Update, Catch

LEMMA OthersStay ==
  ASSUME TypeOK, NEW c \in Cpus, Event(c) \/ Step(c)
  PROVE  /\ program' = program
         /\ \A d \in Cpus : d # c =>
              pc'[d] = pc[d] /\ key'[d] = key[d] /\ pointer'[d] = pointer[d] /\ item'[d] = item[d]
BY DEF TypeOK, Step, Event, MapKey, Found, NotFound, Read, Update, Catch, Goto, locals

(* how a CPU comes to read and to update *)
LEMMA ToRead ==
  ASSUME TypeOK, NEW c \in Cpus, Event(c) \/ Step(c), pc'[c] = "read"
  PROVE  Found(c)
BY DEF TypeOK, Step, Event, MapKey, NotFound, Read, Update, Catch, Goto

LEMMA ToUpdate ==
  ASSUME TypeOK, NEW c \in Cpus, Event(c) \/ Step(c), pc'[c] = "update"
  PROVE  (NotFound(c) /\ item'[c] = 0) \/ Read(c)
BY DEF TypeOK, Step, Event, MapKey, Found, NotFound, Update, Catch, Goto

LEMMA StepRuns ==
  ASSUME IInv, NEW c \in Cpus, Event(c) \/ Step(c)
  PROVE  RunsWhereItMay' /\ c \in program.cpus
<1>1. c \in program.cpus
  BY DEF IInv, RunsWhereItMay, Step, Event, MapKey, Found, NotFound, Read, Update, Catch
<1>2. QED
  BY <1>1, OthersStay DEF IInv, RunsWhereItMay

LEMMA StepSlots ==
  ASSUME IInv, NEW c \in Cpus, Event(c) \/ Step(c)
  PROVE  SharedInSlot0'
<1> USE ConstantsTyped, SlotTyped
<1>1. program' = program /\ TypeOK
  BY OthersStay DEF IInv
<1> SUFFICES ASSUME ~IsPerCpu, NEW e \in Elements, NEW s \in Slots, s # 0
             PROVE  content'[e][s] = 0
  BY <1>1 DEF SharedInSlot0, IsPerCpu
<1>2. content[e][s] = 0 /\ Slot(c) = 0
  BY DEF IInv, SharedInSlot0, Slot
<1>3. ASSUME NEW n, Writes(c, n) PROVE content'[e][s] = 0
  <2>1. CASE key[c] \in Stored /\ WriteSpare(c, n)
    BY <1>1, <1>2, <2>1 DEF WriteSpare, TypeOK
  <2>2. CASE key[c] \in Stored /\ WriteInPlace(c, n)
    BY <1>1, <1>2, <2>2, StoredTyped DEF WriteInPlace, TypeOK
  <2>3. CASE WriteNew(c, n)
    BY <1>1, <1>2, <2>3 DEF WriteNew, Unused, TypeOK
  <2>4. QED
    BY <1>3, <2>1, <2>2, <2>3 DEF Writes
<1>4. QED
  BY <1>2, <1>3, OthersKeepMap, UpdateWrites DEF map

LEMMA StepPointers ==
  ASSUME IInv, NEW c \in Cpus, Event(c) \/ Step(c)
  PROVE  PointersCurrent'
<1> SUFFICES ASSUME InPlace, NEW d \in Cpus, pc'[d] = "read"
             PROVE  key'[d] \in Stored' /\ pointer'[d] = element'[key'[d]]
  BY OthersStay DEF IInv, PointersCurrent, InPlace
<1>1. \A k \in Stored : k \in Stored' /\ element'[k] = element[k]
  BY ElementsStay DEF IInv, NextMaps
<1>2. CASE d # c
  BY <1>1, <1>2, OthersStay DEF IInv, PointersCurrent
<1>3. CASE d = c
  <2>1. Found(c)
    BY <1>3, ToRead DEF IInv
  <2>2. /\ key'[c] = key[c] /\ key[c] \in Stored /\ pointer'[c] = element[key[c]]
    BY <2>1 DEF Found, Stored, IInv, TypeOK
  <2>3. QED
    BY <1>1, <1>3, <2>2
<1>4. QED
  BY <1>2, <1>3

LEMMA StepItems ==
  ASSUME IInv, NEW c \in Cpus, Event(c) \/ Step(c)
  PROVE  ItemsBelow'
<1>1. program' = program /\ TypeOK
  BY OthersStay DEF IInv
<1> SUFFICES ASSUME InPlace, NEW d \in Cpus, pc'[d] = "update"
             PROVE  item'[d] <= events'[key'[d]][Slot(d)]
  BY <1>1 DEF ItemsBelow, InPlace, Slot, IsPerCpu
<1>2. \A k \in Keys : \A s \in Slots : events[k][s] <= events'[k][s]
  BY <1>1, EventsGrow DEF NextMaps
<1>3. TypeOK'
  BY <1>1, StepTyped
<1>4. Slot(d) \in Slots /\ key[d] \in Keys /\ key'[d] \in Keys
  BY <1>1, <1>3, SlotTyped DEF TypeOK
<1>5. /\ events[key[d]][Slot(d)] \in Nat /\ events'[key[d]][Slot(d)] \in Nat
      /\ item[d] \in Int
  BY <1>1, <1>3, <1>4 DEF TypeOK
<1>6. CASE d # c
  <2>1. pc[d] = "update" /\ item'[d] = item[d] /\ key'[d] = key[d]
    BY <1>1, <1>6, OthersStay
  <2>2. item[d] <= events[key[d]][Slot(d)]
    BY <2>1 DEF IInv, ItemsBelow
  <2>3. QED
    BY <1>2, <1>4, <1>5, <2>1, <2>2
<1>7. CASE d = c
  <2>1. (NotFound(c) /\ item'[c] = 0) \/ Read(c)
    BY <1>1, <1>7, ToUpdate
  <2>2. key'[d] = key[d]
    BY <1>7, <2>1 DEF NotFound, Read
  <2>3. CASE item'[c] = 0
    BY <1>5, <1>7, <2>2, <2>3
  <2>4. CASE Read(c)
    <3>1. item'[d] = content[pointer[d]][Slot(d)] /\ pc[d] = "read"
      BY <1>1, <1>7, <2>4 DEF Read, TypeOK
    <3>2. item'[d] = CountOf(key[d], Slot(d))
      BY <3>1 DEF IInv, PointersCurrent, CountOf, Stored
    <3>3. item'[d] <= events[key[d]][Slot(d)]
      BY <1>4, <3>2 DEF IInv, CountsNeverExceed, InPlace
    <3>4. item'[d] \in Int
      BY <1>3 DEF TypeOK
    <3>5. QED
      BY <1>2, <1>4, <1>5, <2>2, <3>3, <3>4
  <2>5. QED
    BY <2>1, <2>3, <2>4
<1>8. QED
  BY <1>6, <1>7

-----------------------------------------------------------------------------
(***************************************************************************)
(* What a write does to the counts: it sets the one it is for.             *)
(***************************************************************************)
LEMMA WriteCounts ==
  ASSUME TypeOK, Apart, SharedInSlot0, NEW c \in Cpus, NEW n \in Int, Writes(c, n),
         NEW k \in Keys, NEW s \in Slots
  PROVE  CountOf(k, s)' = IF k = key[c] /\ s = Slot(c) THEN n ELSE CountOf(k, s)
<1> USE SlotTyped, ConstantsTyped
<1>1. CASE key[c] \in Stored /\ WriteInPlace(c, n)
  <2>1. element[key[c]] \in Elements
    BY <1>1, StoredTyped
  <2>2. element' = element /\ content' = [content EXCEPT ![element[key[c]]][Slot(c)] = n]
    BY <1>1 DEF WriteInPlace
  <2>3. CASE k = key[c]
    BY <1>1, <2>1, <2>2, <2>3 DEF CountOf, Stored, TypeOK
  <2>4. CASE k # key[c]
    <3>1. k \in Stored => element[k] # element[key[c]]
      BY <1>1, <2>4 DEF Apart
    <3>2. QED
      BY <1>1, <2>1, <2>2, <2>4, <3>1 DEF CountOf, Stored, TypeOK
  <2>5. QED
    BY <2>3, <2>4
<1>2. CASE key[c] \notin Stored /\ WriteNew(c, n)
  <2>1. PICK e \in Unused :
          /\ content' = [content EXCEPT ![e] = [t \in Slots |-> IF t = Slot(c) THEN n ELSE 0]]
          /\ element' = [element EXCEPT ![key[c]] = e]
    BY <1>2 DEF WriteNew
  <2>2. e \in Elements /\ e # None /\ \A l \in Stored : element[l] # e
    BY DEF Unused
  <2>3. content'[e] = [t \in Slots |-> IF t = Slot(c) THEN n ELSE 0]
    BY <2>1, <2>2 DEF TypeOK
  <2>4. CASE k = key[c]
    <3>1. element'[k] = e
      BY <2>1, <2>4 DEF TypeOK
    <3>2. CountOf(k, s)' = content'[e][s] /\ CountOf(k, s) = 0
      BY <1>2, <2>2, <2>4, <3>1 DEF CountOf, Stored
    <3>3. QED
      BY <2>3, <2>4, <3>2
  <2>5. CASE k # key[c]
    <3>1. element'[k] = element[k]
      BY <2>1, <2>5 DEF TypeOK
    <3>2. k \in Stored => content'[element[k]] = content[element[k]]
      BY <2>1, <2>2, StoredTyped DEF TypeOK
    <3>3. QED
      BY <2>5, <3>1, <3>2 DEF CountOf, Stored
  <2>6. QED
    BY <2>4, <2>5
<1>3. CASE key[c] \in Stored /\ ~InPlace /\ WriteSpare(c, n)
  <2>1. /\ content' = [content EXCEPT ![spare[c]][0] = n]
        /\ element' = [element EXCEPT ![key[c]] = spare[c]]
    BY <1>3 DEF WriteSpare
  <2>2. /\ key[c] \in Keys /\ element[key[c]] \in Elements /\ spare[c] \in Elements
        /\ spare[c] # None /\ element[key[c]] # None
    BY <1>3, StoredTyped DEF TypeOK
  <2>3. Slot(c) = 0 /\ ~IsPerCpu
    BY <1>3 DEF InPlace, IsPerCpu, Slot
  <2>4. CASE k = key[c]
    <3>1. CountOf(k, s)' = content'[spare[c]][s] /\ CountOf(k, s) = content[element[k]][s]
      BY <2>1, <2>2, <2>4 DEF CountOf, TypeOK
    <3>2. s # 0 => content[spare[c]][s] = 0 /\ content[element[k]][s] = 0
      BY <2>2, <2>3, <2>4 DEF SharedInSlot0
    <3>3. content'[spare[c]][s] = IF s = 0 THEN n ELSE content[spare[c]][s]
      BY <2>1, <2>2 DEF TypeOK
    <3>4. QED
      BY <2>3, <2>4, <3>1, <3>2, <3>3
  <2>5. CASE k # key[c]
    <3>1. element'[k] = element[k]
      BY <2>1, <2>5 DEF TypeOK
    <3>2. k \in Stored => element[k] # spare[c]
      BY DEF Apart
    <3>3. k \in Stored => content'[element[k]] = content[element[k]]
      BY <2>1, <3>2, StoredTyped DEF TypeOK
    <3>4. QED
      BY <2>5, <3>1, <3>3 DEF CountOf, Stored
  <2>6. QED
    BY <2>4, <2>5
<1>4. QED
  BY <1>1, <1>2, <1>3 DEF Writes

LEMMA StepCounts ==
  ASSUME IInv, NEW c \in Cpus, Event(c) \/ Step(c)
  PROVE  CountsNeverExceed'
<1>1. program' = program /\ TypeOK /\ TypeOK' /\ Apart /\ SharedInSlot0
  BY OthersStay, StepTyped DEF IInv
<1> SUFFICES ASSUME InPlace, NEW k \in Keys, NEW s \in Slots
             PROVE  CountOf(k, s)' <= events'[k][s]
  BY <1>1 DEF CountsNeverExceed, InPlace
<1>2. events[k][s] <= events'[k][s] /\ events[k][s] \in Nat /\ events'[k][s] \in Nat
  BY <1>1, EventsGrow DEF NextMaps, TypeOK
<1>3. CountOf(k, s) <= events[k][s] /\ CountOf(k, s) \in Int
  BY <1>1 DEF IInv, CountsNeverExceed, InPlace, CountOf, TypeOK
<1>4. CASE UNCHANGED map
  <2>1. CountOf(k, s)' = CountOf(k, s)
    BY <1>4 DEF map, CountOf
  <2>2. QED
    BY <1>2, <1>3, <2>1
<1>5. CASE Update(c) /\ Writes(c, Increment(item[c]))
  <2>1. item[c] \in -INT_MAX - 1 .. INT_MAX /\ key[c] \in Keys /\ Slot(c) \in Slots
    BY <1>1, SlotTyped DEF TypeOK
  <2>2. Increment(item[c]) \in Int /\ Increment(item[c]) <= item[c] + 1
    BY <2>1, IncrementTyped, ConstantsTyped
  <2>3. item[c] <= events[key[c]][Slot(c)]
    BY <1>5 DEF IInv, ItemsBelow, Update
  <2>4. events'[key[c]][Slot(c)] = events[key[c]][Slot(c)] + 1
    BY <1>1, <1>5, <2>1 DEF Update, Ended, TypeOK
  <2>5. CASE k = key[c] /\ s = Slot(c)
    <3>1. CountOf(k, s)' = Increment(item[c])
      BY <1>1, <1>5, <2>2, <2>5, WriteCounts
    <3>2. item[c] \in Int
      BY <2>1, ConstantsTyped
    <3>3. QED
      BY <1>2, <2>2, <2>3, <2>4, <2>5, <3>1, <3>2
  <2>6. CASE ~(k = key[c] /\ s = Slot(c))
    <3>1. CountOf(k, s)' = CountOf(k, s)
      BY <1>1, <1>5, <2>2, <2>6, WriteCounts
    <3>2. QED
      BY <1>2, <1>3, <3>1
  <2>7. QED
    BY <2>5, <2>6
<1>6. QED
  BY <1>4, <1>5, OthersKeepMap, UpdateWrites

-----------------------------------------------------------------------------
LEMMA NextSafe == IInv /\ [NextMaps]_maps => IInv'
<1> SUFFICES ASSUME IInv, [NextMaps]_maps PROVE IInv'
  OBVIOUS
<1>1. TypeOK' /\ Apart'
  BY NextTyped, NextApart DEF IInv
<1>2. CASE UNCHANGED maps
  <2>1. PointersCurrent' /\ ItemsBelow'
    BY <1>2 DEF IInv, maps, map, locals, PointersCurrent, ItemsBelow, InPlace, Stored, Slot,
                IsPerCpu
  <2>2. CountsNeverExceed'
    BY <1>2 DEF IInv, maps, map, CountsNeverExceed, CountOf
  <2>3. RunsWhereItMay' /\ SharedInSlot0'
    BY <1>2 DEF IInv, maps, map, RunsWhereItMay, SharedInSlot0, IsPerCpu
  <2>4. QED
    BY <1>1, <2>1, <2>2, <2>3 DEF IInv
<1>3. ASSUME NEW c \in Cpus, Event(c) \/ Step(c) PROVE IInv'
  BY <1>1, <1>3, StepRuns, StepSlots, StepPointers, StepItems, StepCounts DEF IInv
<1>4. QED
  BY <1>2, <1>3 DEF NextMaps

LEMMA Safety == SpecMaps => []IInv
BY InitSafe, NextSafe, PTL DEF SpecMaps

(***************************************************************************)
(* The model of the maps is typed; the ints a program stores stay ints.    *)
(***************************************************************************)
THEOREM MapsTyped == SpecMaps => []TypeOK
<1>1. IInv => TypeOK
  BY DEF IInv
<1>2. QED
  BY <1>1, Safety, PTL

(***************************************************************************)
(* However many CPUs interleave their lookups and updates, no count of an  *)
(* array or a per-CPU map ever exceeds the events that there were.         *)
(***************************************************************************)
THEOREM NoCountInvented == SpecMaps => []CountsNeverExceed
<1>1. IInv => CountsNeverExceed
  BY DEF IInv
<1>2. QED
  BY <1>1, Safety, PTL
-----------------------------------------------------------------------------
(***************************************************************************)
(* Exact counting.  Where a map is not per-CPU nobody else is at work.     *)
(***************************************************************************)
LEMMA Alone ==
  ASSUME IInv, OneAtATime, ~IsPerCpu, NEW c \in Cpus, Event(c) \/ Step(c)
  PROVE  \A d \in Cpus : d # c => pc[d] = "idle" /\ pc'[d] = "idle"
<1>1. PICK b \in Cpus : program.cpus = {b}
  BY DEF OneAtATime
<1>2. c = b
  BY <1>1, StepRuns
<1>3. \A d \in Cpus : d # c => pc[d] = "idle"
  BY <1>1, <1>2 DEF IInv, RunsWhereItMay
<1>4. QED
  BY <1>3, OthersStay DEF IInv

LEMMA InitExact == InitMaps => ExactInv
<1> SUFFICES ASSUME InitMaps PROVE ExactInv
  OBVIOUS
<1>1. OneHolder
  BY DEF InitMaps, OneHolder, HoldsCount
<1>2. CountsBelow
  <2> SUFFICES ASSUME NEW k \in Keys, NEW s \in Slots
               PROVE  CountOf(k, s) <= events[k][s]
    BY DEF CountsBelow
  <2>1. events[k][s] = 0 /\ (element[k] # None => content[element[k]][s] = 0)
    BY InitTyped DEF InitMaps, TypeOK
  <2>2. QED
    BY <2>1 DEF CountOf
<1>3. QED
  BY <1>1, <1>2, InitSafe DEF ExactInv

(* What a step does to every count: an update that writes sets one. *)
LEMMA StepWrites ==
  ASSUME IInv, NEW c \in Cpus, Event(c) \/ Step(c)
  PROVE  \/ \A k \in Keys : \A s \in Slots : CountOf(k, s)' = CountOf(k, s)
         \/ /\ Update(c) /\ Writes(c, Increment(item[c]))
            /\ \A k \in Keys : \A s \in Slots :
                 CountOf(k, s)' = IF k = key[c] /\ s = Slot(c) THEN Increment(item[c])
                                  ELSE CountOf(k, s)
<1>1. CASE UNCHANGED map
  BY <1>1 DEF map, CountOf
<1>2. CASE Update(c) /\ Writes(c, Increment(item[c]))
  <2>1. Increment(item[c]) \in Int
    BY IncrementTyped, ConstantsTyped DEF IInv, TypeOK
  <2>2. QED
    BY <1>2, <2>1, WriteCounts DEF IInv
<1>3. QED
  BY <1>1, <1>2, OthersKeepMap, UpdateWrites

LEMMA StepHolder ==
  ASSUME IInv, OneHolder, OneAtATime, NEW c \in Cpus, Event(c) \/ Step(c), NEW d \in Cpus
  PROVE  HoldsCount(d)'
<1> USE SlotTyped
<1>1. program' = program /\ TypeOK /\ TypeOK' /\ Slot(d)' = Slot(d)
  BY OthersStay, StepTyped DEF IInv, Slot, IsPerCpu
<1>2. HoldsCount(d)
  BY DEF OneHolder
<1>3. PICK k \in Keys, s \in Slots : k = key'[d] /\ s = Slot(d)
  BY <1>1 DEF TypeOK
<1> SUFFICES /\ pc'[d] = "read" => k \in Stored' /\ pointer'[d] = element'[k]
             /\ pc'[d] = "update" => item'[d] = CountOf(k, s)'
  BY <1>1, <1>3 DEF HoldsCount, CountOf
<1>4. CASE d # c /\ ~IsPerCpu
  BY <1>4, Alone
<1>5. CASE d # c /\ IsPerCpu
  <2>1. InPlace /\ Slot(d) # Slot(c)
    BY <1>5 DEF InPlace, IsPerCpu, Slot
  <2>2. pc'[d] = pc[d] /\ key'[d] = key[d] /\ pointer'[d] = pointer[d] /\ item'[d] = item[d]
    BY <1>1, <1>5, OthersStay
  <2>3. k \in Stored => k \in Stored' /\ element'[k] = element[k]
    BY <1>1, <2>1, ElementsStay DEF NextMaps
  <2>4. CountOf(k, s)' = CountOf(k, s)
    BY <1>3, <2>1, StepWrites
  <2>5. QED
    BY <1>2, <1>3, <2>2, <2>3, <2>4 DEF HoldsCount
<1>6. CASE d = c
  <2>1. ASSUME pc'[c] = "read"
        PROVE  k \in Stored' /\ pointer'[c] = element'[k]
    BY <1>1, <1>3, <1>6, <2>1, ToRead DEF Found, map, Stored, TypeOK
  <2>2. ASSUME pc'[c] = "update"
        PROVE  item'[c] = CountOf(k, s)'
    <3>1. (NotFound(c) /\ item'[c] = 0) \/ Read(c)
      BY <1>1, <2>2, ToUpdate
    <3>2. k = key[c] /\ CountOf(k, s)' = CountOf(k, s)
      BY <1>3, <1>6, <3>1 DEF NotFound, Read, map, CountOf
    <3>3. CASE NotFound(c) /\ item'[c] = 0
      BY <3>2, <3>3 DEF NotFound, CountOf
    <3>4. CASE Read(c)
      <4>1. item'[c] = content[pointer[c]][Slot(c)] /\ pc[c] = "read"
        BY <1>1, <3>4 DEF Read, TypeOK
      <4>2. k \in Stored /\ pointer[c] = element[k]
        BY <1>2, <1>6, <3>2, <4>1 DEF HoldsCount
      <4>3. QED
        BY <1>3, <1>6, <3>2, <4>1, <4>2 DEF CountOf, Stored
    <3>5. QED
      BY <3>1, <3>3, <3>4
  <2>3. QED
    BY <1>6, <2>1, <2>2
<1>7. QED
  BY <1>4, <1>5, <1>6

(***************************************************************************)
(* How the events of a step's key grow.                                    *)
(***************************************************************************)
LEMMA StepEvents ==
  ASSUME IInv, NEW c \in Cpus, Event(c) \/ Step(c)
  PROVE  IF Update(c) \/ (NotFound(c) /\ program.panics)
         THEN \A k \in Keys : \A s \in Slots :
                events'[k][s] = IF k = key[c] /\ s = Slot(c) THEN events[k][s] + 1
                                ELSE events[k][s]
         ELSE events' = events
<1>1. ASSUME Ended(c), NEW k \in Keys, NEW s \in Slots
      PROVE  events'[k][s] = IF k = key[c] /\ s = Slot(c) THEN events[k][s] + 1
                             ELSE events[k][s]
  BY <1>1, SlotTyped DEF Ended, IInv, TypeOK
<1>2. Update(c) \/ (NotFound(c) /\ program.panics) => Ended(c)
  BY DEF Update, NotFound
<1>3. ~(Update(c) \/ (NotFound(c) /\ program.panics)) => events' = events
  BY DEF Step, Event, MapKey, Found, NotFound, Read, Catch
<1>4. QED
  BY <1>1, <1>2, <1>3

LEMMA StepBelow ==
  ASSUME ExactInv, OneAtATime, NEW c \in Cpus, Event(c) \/ Step(c)
  PROVE  \A k \in Keys : \A s \in Slots : CountOf(k, s)' <= events'[k][s]
<1> SUFFICES ASSUME NEW k \in Keys, NEW s \in Slots
             PROVE  CountOf(k, s)' <= events'[k][s]
  OBVIOUS
<1>1. IInv /\ TypeOK
  BY DEF ExactInv, IInv
<1>2. CountOf(k, s) <= events[k][s] /\ CountOf(k, s) \in Int /\ events[k][s] \in Nat
  BY <1>1, ConstantsTyped DEF ExactInv, CountsBelow, CountOf, TypeOK
<1>3. events'[k][s] = events[k][s] \/ events'[k][s] = events[k][s] + 1
  BY <1>1, StepEvents
<1>4. CASE CountOf(k, s)' = CountOf(k, s)
  BY <1>2, <1>3, <1>4
<1>5. CASE /\ Update(c) /\ k = key[c] /\ s = Slot(c)
           /\ CountOf(k, s)' = Increment(item[c])
  <2>1. item[c] = CountOf(k, s) /\ item[c] \in -INT_MAX - 1 .. INT_MAX
    BY <1>1, <1>5 DEF ExactInv, OneHolder, HoldsCount, Update, TypeOK
  <2>2. Increment(item[c]) <= item[c] + 1 /\ Increment(item[c]) \in Int
    BY <2>1, IncrementTyped, ConstantsTyped
  <2>3. events'[k][s] = events[k][s] + 1
    BY <1>1, <1>5, StepEvents
  <2>4. QED
    BY <1>2, <1>5, <2>1, <2>2, <2>3
<1>6. QED
  BY <1>1, <1>4, <1>5, StepWrites

LEMMA NextExact == ExactInv /\ [NextMaps]_maps => ExactInv'
<1> SUFFICES ASSUME ExactInv, [NextMaps]_maps PROVE ExactInv'
  OBVIOUS
<1>1. IInv /\ IInv'
  BY NextSafe DEF ExactInv
<1>2. CASE UNCHANGED maps
  BY <1>1, <1>2 DEF ExactInv, maps, map, locals, OneHolder, HoldsCount, CountsBelow, OneAtATime,
                    IsPerCpu, Slot, CountOf, Stored
<1>3. ASSUME NEW c \in Cpus, Event(c) \/ Step(c) PROVE ExactInv'
  <2>1. program' = program /\ OneAtATime' = OneAtATime
    BY <1>1, <1>3, OthersStay DEF IInv, OneAtATime, IsPerCpu
  <2>2. OneHolder'
    BY <1>1, <1>3, <2>1, StepHolder DEF ExactInv, OneHolder
  <2>3. CountsBelow'
    BY <1>3, <2>1, StepBelow DEF CountsBelow
  <2>4. QED
    BY <1>1, <2>2, <2>3 DEF ExactInv
<1>4. QED
  BY <1>2, <1>3 DEF NextMaps

(***************************************************************************)
(* With one holder, and no int too small, an update that writes adds one;  *)
(* counts never go down, and an array's keys keep their elements.          *)
(***************************************************************************)
LEMMA UpdateAddsOne ==
  ASSUME ExactInv, OneAtATime, NoneWraps', TypeOK', NEW c \in Cpus, Update(c)
  PROVE  Increment(item[c]) = CountOf(key[c], Slot(c)) + 1 /\ item[c] = CountOf(key[c], Slot(c))
<1> USE SlotTyped
<1>1. IInv /\ TypeOK /\ key[c] \in Keys
  BY DEF ExactInv, IInv, TypeOK
<1>2. item[c] = CountOf(key[c], Slot(c)) /\ item[c] \in -INT_MAX - 1 .. INT_MAX
  BY <1>1 DEF ExactInv, OneHolder, HoldsCount, Update, TypeOK
<1>3. /\ events[key[c]][Slot(c)] + 1 <= INT_MAX /\ events[key[c]][Slot(c)] \in Nat
      /\ CountOf(key[c], Slot(c)) <= events[key[c]][Slot(c)]
  BY <1>1, StepEvents DEF NoneWraps, ExactInv, CountsBelow, TypeOK, Step
<1>4. item[c] < INT_MAX
  BY <1>2, <1>3, ConstantsTyped
<1>5. QED
  BY <1>2, <1>4, ConstantsTyped DEF Increment

LEMMA CountsGrow ==
  ASSUME ExactInv, OneAtATime, NoneWraps', [NextMaps]_maps, NEW k \in Keys, NEW s \in Slots
  PROVE  CountOf(k, s) \in Int /\ CountOf(k, s)' \in {CountOf(k, s), CountOf(k, s) + 1}
<1>1. IInv /\ TypeOK /\ TypeOK'
  BY NextTyped DEF ExactInv, IInv
<1>2. CountOf(k, s) \in Int
  BY <1>1, ConstantsTyped DEF CountOf, TypeOK
<1>3. CASE UNCHANGED maps
  BY <1>2, <1>3 DEF maps, map, CountOf
<1>4. ASSUME NEW c \in Cpus, Event(c) \/ Step(c)
      PROVE  CountOf(k, s)' \in {CountOf(k, s), CountOf(k, s) + 1}
  BY <1>1, <1>4, StepWrites, UpdateAddsOne
<1>5. QED
  BY <1>2, <1>3, <1>4 DEF NextMaps

LEMMA ArraysStay ==
  ASSUME TypeOK, IsArray, [NextMaps]_maps
  PROVE  element' = element /\ program' = program
<1>1. CASE UNCHANGED maps
  BY <1>1 DEF maps, map
<1>2. ASSUME NEW c \in Cpus, Event(c) \/ Step(c) PROVE element' = element /\ program' = program
  <2>1. Update(c) => element' = element
    BY DEF Update, WriteInPlace, Inserts, IsArray, map
  <2>2. QED
    BY <1>2, <2>1, OthersKeepMap, OthersStay DEF map
<1>3. QED
  BY <1>1, <1>2 DEF NextMaps

-----------------------------------------------------------------------------
(***************************************************************************)
(* The refinement.  The counters are the pairs of a key and a slot; the    *)
(* mapped variables are named for the steps below.                         *)
(***************************************************************************)
Pairs == Keys \X Slots
countsBar == [x \in Pairs |-> CountOf(x[1], x[2])]
eventsBar == [x \in Pairs |-> events[x[1]][x[2]]]

LEMMA SamePair ==
  \A x, y \in Pairs : (x = y <=> x[1] = y[1] /\ x[2] = y[2]) /\ x[1] \in Keys /\ x[2] \in Slots
BY DEF Pairs

LEMMA StepRefines ==
  ASSUME ExactInv, ExactInv', CountsExactly', NEW c \in Cpus, Event(c) \/ Step(c)
  PROVE  Counters!NextCounters \/ UNCHANGED Counters!counted
<1> USE SlotTyped
<1>1. /\ IInv /\ TypeOK /\ TypeOK' /\ program' = program
      /\ OneAtATime /\ program.flags # "BPF_NOEXIST"
  BY OthersStay DEF ExactInv, IInv, CountsExactly, OneAtATime, IsPerCpu
<1>2. PICK x \in Pairs : x[1] = key[c] /\ x[2] = Slot(c)
  <2>1. <<key[c], Slot(c)>> \in Pairs
    BY <1>1 DEF Pairs, TypeOK
  <2>2. QED
    BY <2>1
<1>3. ASSUME Update(c) \/ (NotFound(c) /\ program.panics)
      PROVE  eventsBar' = [eventsBar EXCEPT ![x] = @ + 1]
  <2>1. \A y \in Pairs : events'[y[1]][y[2]] = IF y = x THEN events[y[1]][y[2]] + 1
                                                ELSE events[y[1]][y[2]]
    BY <1>1, <1>2, <1>3, StepEvents, SamePair
  <2>2. QED
    BY <2>1 DEF eventsBar
<1>4. ASSUME \A k \in Keys : \A s \in Slots : CountOf(k, s)' = CountOf(k, s)
      PROVE  countsBar' = countsBar
  BY <1>4 DEF countsBar, Pairs
<1>5. countsBar[x] = CountOf(key[c], Slot(c))
  BY <1>2 DEF countsBar
<1>6. CASE /\ ~(Update(c) \/ (NotFound(c) /\ program.panics))
  <2>1. events' = events
    BY <1>1, <1>6, StepEvents
  <2>2. countsBar' = countsBar
    BY <1>1, <1>4, <1>6, StepWrites
  <2>3. QED
    BY <2>1, <2>2 DEF Counters!counted, countsBar, eventsBar, Pairs
<1>7. CASE NotFound(c) /\ program.panics
  <2>1. countsBar[x] = 0
    BY <1>5, <1>7 DEF NotFound, CountOf
  <2>2. countsBar' = countsBar
    BY <1>1, <1>4, <1>7, StepWrites DEF NotFound, Update
  <2>3. Counters!Miss(x)
    BY <1>3, <1>7, <2>1, <2>2 DEF Counters!Miss, countsBar, eventsBar, Pairs
  <2>4. QED
    BY <2>3, Zenon DEF Counters!NextCounters, Pairs
<1>8. CASE Update(c)
  <2>1. /\ item[c] = CountOf(key[c], Slot(c)) /\ Increment(item[c]) = CountOf(key[c], Slot(c)) + 1
        /\ Increment(item[c]) \in Int
    BY <1>1, <1>8, UpdateAddsOne, IncrementTyped, ConstantsTyped DEF CountsExactly, TypeOK
  <2>2. CASE Writes(c, Increment(item[c]))
    <3>1. \A k \in Keys : \A s \in Slots :
            CountOf(k, s)' = IF k = key[c] /\ s = Slot(c) THEN CountOf(k, s) + 1
                             ELSE CountOf(k, s)
      BY <1>1, <2>1, <2>2, WriteCounts DEF IInv
    <3>2. countsBar' = [countsBar EXCEPT ![x] = @ + 1]
      <4>1. \A y \in Pairs : CountOf(y[1], y[2])' = IF y = x THEN CountOf(y[1], y[2]) + 1
                                                    ELSE CountOf(y[1], y[2])
        BY <1>2, <3>1, SamePair
      <4>2. QED
        BY <4>1 DEF countsBar
    <3>3. Counters!Count(x)
      BY <1>3, <1>8, <3>2 DEF Counters!Count, countsBar, eventsBar, Pairs
    <3>4. QED
      BY <3>3, Zenon DEF Counters!NextCounters, Pairs
  <2>3. CASE UNCHANGED map /\ ~Writes(c, Increment(item[c]))
    <3>1. key[c] \notin Stored
      BY <1>1, <1>8, <2>3 DEF Update, Replaces, Inserts, Writes, InPlace
    <3>2. countsBar[x] = 0
      BY <1>1, <1>5, <3>1 DEF CountOf, Stored, TypeOK
    <3>3. countsBar' = countsBar
      BY <2>3 DEF map, countsBar, CountOf
    <3>4. Counters!Miss(x)
      BY <1>3, <1>8, <3>2, <3>3 DEF Counters!Miss, countsBar, eventsBar, Pairs
    <3>5. QED
      BY <3>4, Zenon DEF Counters!NextCounters, Pairs
  <2>4. QED
    BY <1>8, <2>2, <2>3, UpdateWrites
<1>9. QED
  BY <1>6, <1>7, <1>8

LEMMA NextRefines ==
  ExactInv /\ ExactInv' /\ [NextMaps]_maps =>
    [CountsExactly' => Counters!NextCounters]_<<Counters!counted>>
<1> SUFFICES ASSUME ExactInv, ExactInv', [NextMaps]_maps, CountsExactly'
             PROVE  Counters!NextCounters \/ UNCHANGED Counters!counted
  OBVIOUS
<1>1. CASE UNCHANGED maps
  BY <1>1 DEF maps, map, Counters!counted, CountOf
<1>2. CASE NextMaps
  BY <1>2, StepRefines DEF NextMaps
<1>3. QED
  BY <1>1, <1>2

LEMMA InitRefines == InitMaps => Counters!InitCounters
<1> SUFFICES ASSUME InitMaps PROVE Counters!InitCounters
  OBVIOUS
<1>1. ASSUME NEW k \in Keys, NEW s \in Slots
      PROVE  CountOf(k, s) = 0 /\ events[k][s] = 0
  BY InitTyped DEF InitMaps, CountOf, TypeOK
<1>2. QED
  BY <1>1 DEF Counters!InitCounters

(***************************************************************************)
(* The map implements one counter of events for each key and slot, as long *)
(* as nobody comes between a lookup and its update (a per-CPU map, or one  *)
(* CPU), the program may store to a key it has, and no int is too small.   *)
(***************************************************************************)
THEOREM CountingIsExact == SpecMaps => ImplementsCounters
BY InitExact, NextExact, InitRefines, NextRefines, PTL DEF SpecMaps, ImplementsCounters
=============================================================================
