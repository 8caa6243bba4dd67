---------------------------- MODULE ExamplesProofs ----------------------------
(***************************************************************************)
(* What holds of the programs of examples/ for every number of CPUs,       *)
(* threads, buckets, entries and events, and all that events may say:      *)
(* KillsAreKept and KillsListed of force_kill, UdpIsSteered of drop_udp,   *)
(* PacketInBounds of every program, and ElixirMeaning of the programs that *)
(* only compute.  MonitorsProofs has what the programs that count calls of *)
(* threads promise.                                                        *)
(*                                                                         *)
(* They are properties of straight-line code that runs on several CPUs at  *)
(* once.  Their invariants say, for every place that a CPU may be at in    *)
(* main, what is left to run there and what the C variables and the maps   *)
(* then hold.  A step of the system is seen by one CPU as no step, as the  *)
(* start of main, or as a statement of its own (StepOfOne).  Below them    *)
(* all is what the kernel sees to: a map that is made and then only        *)
(* updated keeps its keys' elements apart (MapsInv).                       *)
(***************************************************************************)
EXTENDS Examples, FiniteSetTheorems, WellFoundedInduction, SequenceTheorems, TLAPS

-----------------------------------------------------------------------------
(*************************************************************************)
(* The kernel's maps: a map that is made and then only updated keeps its *)
(* keys' elements apart and keeps to its max_entries, whatever is        *)
(* stored, by whichever CPU.                                             *)
(*************************************************************************)

(* No two keys share an element, and the spare ones of the CPUs are nobody's. *)
ElementsAreApart(m) ==
  LET used == Used(m) IN
    /\ used \subseteq DOMAIN m.content
    /\ \A k, l \in Stored(m) : m.element[k] = m.element[l] => k = l
    /\ m.type = "hash" =>
         \A c \in Cpus : /\ m.spare[c] \in DOMAIN m.content \ used
                         /\ \A d \in Cpus : m.spare[c] = m.spare[d] => c = d
KeepsToMax(m) == Cardinality(Stored(m)) <= m.max

(* what the elements' being apart rests on *)
WellFormed(m) ==
  /\ m = [type |-> m.type, max |-> m.max, element |-> m.element, content |-> m.content,
          spare |-> m.spare, order |-> m.order]
  /\ m.type \in {"array", "hash"} /\ m.max \in Nat
  /\ m.element \in [Keys -> Int] /\ m.spare \in [Cpus -> Int]
  /\ m.content = [e \in DOMAIN m.content |-> m.content[e]]
  /\ m.type = "hash" => DOMAIN m.content = 0 .. m.max + NCpu - 1
  /\ None \notin DOMAIN m.content

MapInv(m) == WellFormed(m) /\ ElementsAreApart(m) /\ KeepsToMax(m)

LEMMA StoredFinite ==
  ASSUME NEW m
  PROVE  IsFiniteSet(Stored(m)) /\ Cardinality(Stored(m)) \in Nat
<1>1. Stored(m) \subseteq Keys
  BY DEF Stored
<1> QED
  BY <1>1, KernelMapsAssumption, FS_Subset, FS_CardinalityType

-----------------------------------------------------------------------------
(* A new array has an element of its own for every index. *)
LEMMA NewArrayInv ==
  ASSUME NEW n \in Nat
  PROVE  MapInv(NewArray(n))
<1> DEFINE m == NewArray(n)
<1>1. WellFormed(m)
  BY KernelMapsAssumption DEF WellFormed, NewArray, None, Cpus
<1>2. \A k \in Stored(m) : k \in 0 .. n - 1 /\ m.element[k] = k
  BY DEF Stored, Has, NewArray, None
<1>3. ElementsAreApart(m)
  BY <1>2 DEF ElementsAreApart, Used, NewArray, Stored
<1>4. IsFiniteSet(0 .. n - 1) /\ Cardinality(0 .. n - 1) = n
  BY FS_Interval
<1>5. Cardinality(Stored(m)) <= n
  BY <1>2, <1>4, FS_Subset
<1> QED
  BY <1>1, <1>3, <1>5 DEF MapInv, KeepsToMax, NewArray

(* A new hash map has no key, and a spare element for every CPU. *)
LEMMA NewHashInv ==
  ASSUME NEW n \in Nat
  PROVE  MapInv(NewHash(n))
<1> DEFINE m == NewHash(n)
<1>1. WellFormed(m)
  BY KernelMapsAssumption DEF WellFormed, NewHash, None, Cpus
<1>2. Stored(m) = {}
  BY DEF Stored, Has, NewHash, None
<1>3. /\ Used(m) = {}
      /\ DOMAIN m.content = 0 .. n + NCpu - 1
      /\ \A c \in Cpus : m.spare[c] = n + c
  BY <1>2 DEF NewHash, Used
<1>4. \A c \in Cpus : n + c \in 0 .. n + NCpu - 1 /\ c \in Int
  BY KernelMapsAssumption DEF Cpus
<1>5. ElementsAreApart(m)
  <2> HIDE DEF m
  <2> QED
    BY <1>2, <1>3, <1>4 DEF ElementsAreApart
<1>6. Cardinality(Stored(m)) = 0
  BY <1>2, FS_EmptySet
<1>7. m.max = n
  BY DEF NewHash
<1> QED
  BY <1>1, <1>5, <1>6, <1>7 DEF MapInv, KeepsToMax

-----------------------------------------------------------------------------
(* A value stored in place changes no element's owner. *)
LEMMA InPlaceKeeps ==
  ASSUME NEW m, MapInv(m), NEW k, NEW v
  PROVE  MapInv(InPlace(m, k, v))
<1> DEFINE n == InPlace(m, k, v)
<1>1. n = [m EXCEPT !.content = [m.content EXCEPT ![m.element[k]] = v]]
  BY DEF InPlace
<1>2. WellFormed(m)
  BY DEF MapInv
<1>3. DOMAIN m = {"type", "max", "element", "content", "spare", "order"}
  BY <1>2 DEF WellFormed
<1> HIDE DEF n
<1>4. /\ n.element = m.element /\ n.spare = m.spare /\ n.max = m.max /\ n.type = m.type
      /\ n.content = [m.content EXCEPT ![m.element[k]] = v]
      /\ DOMAIN n = DOMAIN m
  BY <1>1, <1>3
<1>5. n = [type |-> n.type, max |-> n.max, element |-> n.element, content |-> n.content,
           spare |-> n.spare, order |-> n.order]
  BY <1>1, <1>2, <1>3, <1>4 DEF WellFormed
<1>6. DOMAIN n.content = DOMAIN m.content
  BY <1>4
<1>7. WellFormed(n)
  BY <1>2, <1>4, <1>5, <1>6 DEF WellFormed
<1>8. Stored(n) = Stored(m) /\ Used(n) = Used(m)
  BY <1>4 DEF Stored, Has, Used
<1>9. ElementsAreApart(n)
  BY <1>4, <1>6, <1>8 DEF MapInv, ElementsAreApart
<1> QED
  BY <1>4, <1>7, <1>8, <1>9 DEF MapInv, KeepsToMax, n

-----------------------------------------------------------------------------
(* In n the key k has element e, which was nobody's in m, and no CPU's now. *)
Moved(m, n, k, e) ==
  /\ m.type = "hash" /\ n.type = "hash" /\ e \in DOMAIN m.content \ Used(m)
  /\ n.element = [m.element EXCEPT ![k] = e] /\ DOMAIN n.content = DOMAIN m.content
  /\ \A c \in Cpus :
       /\ n.spare[c] \in DOMAIN m.content /\ n.spare[c] # e
       /\ n.spare[c] \notin Used(m) \/ (k \in Stored(m) /\ n.spare[c] = m.element[k])
       /\ \A d \in Cpus : n.spare[c] = n.spare[d] => c = d

(***************************************************************************)
(* A key that is given an element no key has, while what it had may become *)
(* a spare one, leaves the elements apart.                                 *)
(***************************************************************************)
LEMMA MovedApart ==
  ASSUME NEW m, MapInv(m), NEW n, WellFormed(n), NEW k, NEW e, Moved(m, n, k, e)
  PROVE  ElementsAreApart(n) /\ Stored(n) \subseteq Stored(m) \cup {k}
<1>1. m.element \in [Keys -> Int] /\ n.element \in [Keys -> Int]
  BY DEF MapInv, WellFormed
<1> USE DEF Moved
<1>2. \A l \in Keys : n.element[l] = IF l = k THEN e ELSE m.element[l]
  BY <1>1
<1>3. \A l \in Stored(n) : l \in Keys /\ (l = k \/ l \in Stored(m))
  BY <1>2 DEF Stored, Has
<1>4. \A l \in Stored(m) : l \in Keys /\ m.element[l] \in Used(m)
  BY DEF Stored, Used
<1>5. \A l \in Stored(n) : n.element[l] = IF l = k THEN e ELSE m.element[l]
  BY <1>2, <1>3
<1>6. /\ Used(m) \subseteq DOMAIN m.content
      /\ \A i, j \in Stored(m) : m.element[i] = m.element[j] => i = j
  BY DEF MapInv, ElementsAreApart
<1>7. Used(n) \subseteq DOMAIN n.content
  BY <1>3, <1>4, <1>5, <1>6 DEF Used
<1>8. \A i, j \in Stored(n) : n.element[i] = n.element[j] => i = j
  BY <1>3, <1>4, <1>5, <1>6
<1>9. ASSUME NEW c \in Cpus  PROVE n.spare[c] \notin Used(n)
  <2> SUFFICES ASSUME NEW l \in Stored(n), n.spare[c] = n.element[l]  PROVE FALSE
    BY DEF Used
  <2>1. l # k /\ n.spare[c] = m.element[l] /\ l \in Stored(m)
    BY <1>3, <1>5
  <2> QED
    BY <2>1, <1>4, <1>6
<1> QED
  BY <1>3, <1>7, <1>8, <1>9 DEF ElementsAreApart

(* What the key had becomes the spare element of the CPU. *)
LEMMA IntoSpareKeeps ==
  ASSUME NEW m, MapInv(m), m.type = "hash", NEW c \in Cpus, NEW k, Has(m, k), NEW v
  PROVE  MapInv(IntoSpare(m, c, k, v))
<1> DEFINE n == IntoSpare(m, c, k, v)
<1>1. n = [m EXCEPT !.content = [m.content EXCEPT ![m.spare[c]] = v],
                    !.element = [m.element EXCEPT ![k] = m.spare[c]],
                    !.spare = [m.spare EXCEPT ![c] = m.element[k]],
                    !.order = AtTheHead(Without(m.order, k), k)]
  BY DEF IntoSpare
<1>2. WellFormed(m) /\ ElementsAreApart(m)
  BY DEF MapInv
<1>3. DOMAIN m = {"type", "max", "element", "content", "spare", "order"}
  BY <1>2 DEF WellFormed
<1> HIDE DEF n
<1>4. /\ n.element = [m.element EXCEPT ![k] = m.spare[c]] /\ n.max = m.max /\ n.type = m.type
      /\ n.spare = [m.spare EXCEPT ![c] = m.element[k]]
      /\ n.content = [m.content EXCEPT ![m.spare[c]] = v]
      /\ DOMAIN n = DOMAIN m
  BY <1>1, <1>3
<1>5. n = [type |-> n.type, max |-> n.max, element |-> n.element, content |-> n.content,
           spare |-> n.spare, order |-> n.order]
  BY <1>1, <1>2, <1>3, <1>4 DEF WellFormed
<1>6. DOMAIN n.content = DOMAIN m.content
  BY <1>4
<1>7. m.element \in [Keys -> Int] /\ m.spare \in [Cpus -> Int] /\ k \in Keys /\ k \in Stored(m)
  BY <1>2 DEF WellFormed, Has, Stored
<1>8. n.element \in [Keys -> Int] /\ n.spare \in [Cpus -> Int]
  BY <1>4, <1>7
<1>9. WellFormed(n)
  <2>1. n.content = [e \in DOMAIN n.content |-> n.content[e]]
    BY <1>2, <1>4, <1>6 DEF WellFormed
  <2>2. /\ n.type \in {"array", "hash"} /\ n.max \in Nat /\ None \notin DOMAIN n.content
        /\ n.type = "hash" => DOMAIN n.content = 0 .. n.max + NCpu - 1
    BY <1>2, <1>4, <1>6 DEF WellFormed
  <2> QED
    BY <1>5, <1>8, <2>1, <2>2 DEF WellFormed
<1>10. m.element[k] \in Used(m) /\ Used(m) \subseteq DOMAIN m.content
  BY <1>2, <1>7 DEF Used, ElementsAreApart
<1>11. \A d \in Cpus : /\ m.spare[d] \in DOMAIN m.content \ Used(m)
                       /\ \A e \in Cpus : m.spare[d] = m.spare[e] => d = e
  BY <1>2 DEF ElementsAreApart
<1>12. \A d \in Cpus : n.spare[d] = IF d = c THEN m.element[k] ELSE m.spare[d]
  BY <1>4, <1>7
<1>13. \A d \in Cpus :
         /\ n.spare[d] \in DOMAIN m.content /\ n.spare[d] # m.spare[c]
         /\ n.spare[d] \notin Used(m) \/ (k \in Stored(m) /\ n.spare[d] = m.element[k])
         /\ \A e \in Cpus : n.spare[d] = n.spare[e] => d = e
  BY <1>7, <1>10, <1>11, <1>12
<1>14. ElementsAreApart(n) /\ Stored(n) \subseteq Stored(m) \cup {k}
  <2>1. Moved(m, n, k, m.spare[c])
    BY <1>4, <1>6, <1>11, <1>13 DEF Moved
  <2> QED
    BY <2>1, <1>9, MovedApart
<1>15. Cardinality(Stored(n)) <= Cardinality(Stored(m))
  BY <1>7, <1>14, StoredFinite, FS_Subset
<1>16. Cardinality(Stored(n)) \in Nat /\ Cardinality(Stored(m)) \in Nat
  BY StoredFinite
<1>17. Cardinality(Stored(m)) <= m.max /\ m.max \in Nat
  BY <1>2 DEF MapInv, KeepsToMax, WellFormed
<1> QED
  BY <1>4, <1>9, <1>14, <1>15, <1>16, <1>17 DEF MapInv, KeepsToMax, n

-----------------------------------------------------------------------------
(* Through a function a finite set has no more images than members. *)
LEMMA ImageFinite ==
  ASSUME NEW S, IsFiniteSet(S), NEW f
  PROVE  IsFiniteSet({f[x] : x \in S}) /\ Cardinality({f[x] : x \in S}) <= Cardinality(S)
<1> DEFINE T == {f[x] : x \in S}
           g == [x \in S |-> f[x]]
<1>1. g \in [S -> T] /\ \A t \in T : \E x \in S : g[x] = t
  OBVIOUS
<1>2. g \in Surjection(S, T)
  BY <1>1 DEF Surjection
<1> QED
  BY <1>2, FS_Surjection

(* In a hash map that is not full an element is nobody's. *)
LEMMA FreeElement ==
  ASSUME NEW m, MapInv(m), m.type = "hash", ~Full(m)
  PROVE  \E e \in DOMAIN m.content : e \notin Used(m) \cup {m.spare[c] : c \in Cpus}
<1> DEFINE spares == {m.spare[c] : c \in Cpus}
<1>1. /\ IsFiniteSet(Stored(m)) /\ Cardinality(Stored(m)) \in Nat
      /\ Cardinality(Stored(m)) <= m.max /\ m.max \in Nat /\ Cardinality(Stored(m)) # m.max
      /\ DOMAIN m.content = 0 .. m.max + NCpu - 1
  BY StoredFinite DEF MapInv, KeepsToMax, WellFormed, Full
<1>2. IsFiniteSet(Used(m)) /\ Cardinality(Used(m)) <= Cardinality(Stored(m))
  BY <1>1, ImageFinite DEF Used
<1>3. IsFiniteSet(Cpus) /\ Cardinality(Cpus) = NCpu
  BY KernelMapsAssumption, FS_Interval DEF Cpus
<1>4. IsFiniteSet(spares) /\ Cardinality(spares) <= NCpu
  BY <1>3, ImageFinite
<1>5. Cardinality(Used(m)) \in Nat /\ Cardinality(spares) \in Nat /\ NCpu \in Nat
  BY <1>2, <1>4, KernelMapsAssumption, FS_CardinalityType
<1>6. /\ IsFiniteSet(Used(m) \cup spares) /\ Cardinality(Used(m) \cap spares) \in Nat
      /\ Cardinality(Used(m) \cup spares)
           = Cardinality(Used(m)) + Cardinality(spares) - Cardinality(Used(m) \cap spares)
  BY <1>2, <1>4, FS_Union, FS_Intersection, FS_CardinalityType
<1>7. Cardinality(Used(m) \cup spares) < m.max + NCpu
  BY <1>1, <1>2, <1>4, <1>5, <1>6
<1>8. Cardinality(DOMAIN m.content) = m.max + NCpu
  <2> DEFINE last == m.max + NCpu - 1
  <2>1. last \in Int /\ 0 \in Int /\ ~(0 > last) /\ last - 0 + 1 = m.max + NCpu
    BY <1>1, KernelMapsAssumption
  <2>2. DOMAIN m.content = 0 .. last
    BY <1>1
  <2> HIDE DEF last
  <2>3. Cardinality(0 .. last) = last - 0 + 1
    BY <2>1, FS_Interval
  <2> QED
    BY <2>1, <2>2, <2>3
<1>9. Cardinality(Used(m) \cup spares) \in Nat
  BY <1>6, FS_CardinalityType
<1>10. ~(DOMAIN m.content \subseteq Used(m) \cup spares)
  <2> SUFFICES ASSUME DOMAIN m.content \subseteq Used(m) \cup spares  PROVE FALSE
    OBVIOUS
  <2>1. Cardinality(DOMAIN m.content) <= Cardinality(Used(m) \cup spares)
    BY <1>6, FS_Subset
  <2> QED
    BY <2>1, <1>1, <1>5, <1>7, <1>8, <1>9
<1> QED
  BY <1>10

(* A new key takes an element that neither a key nor a CPU has. *)
LEMMA IntoFreeKeeps ==
  ASSUME NEW m, MapInv(m), m.type = "hash", ~Full(m), NEW k, ~Has(m, k), NEW v
  PROVE  MapInv(IntoFree(m, k, v))
<1> DEFINE used == Used(m) \cup {m.spare[c] : c \in Cpus}
           free == CHOOSE e \in DOMAIN m.content : e \notin used
           n == IntoFree(m, k, v)
<1>1. n = [m EXCEPT !.content = [m.content EXCEPT ![free] = v],
                    !.element = [m.element EXCEPT ![k] = free],
                    !.order = AtTheHead(m.order, k)]
  BY DEF IntoFree
<1>2. free \in DOMAIN m.content /\ free \notin used
  BY FreeElement
<1> HIDE DEF free
<1>3. WellFormed(m) /\ ElementsAreApart(m)
  BY DEF MapInv
<1>4. DOMAIN m = {"type", "max", "element", "content", "spare", "order"}
  BY <1>3 DEF WellFormed
<1> HIDE DEF n
<1>5. /\ n.element = [m.element EXCEPT ![k] = free] /\ n.max = m.max /\ n.type = m.type
      /\ n.spare = m.spare /\ n.content = [m.content EXCEPT ![free] = v]
      /\ DOMAIN n = DOMAIN m
  BY <1>1, <1>4
<1>6. n = [type |-> n.type, max |-> n.max, element |-> n.element, content |-> n.content,
           spare |-> n.spare, order |-> n.order]
  BY <1>1, <1>3, <1>4, <1>5 DEF WellFormed
<1>7. DOMAIN n.content = DOMAIN m.content
  BY <1>5
<1>8. m.element \in [Keys -> Int] /\ free \in Int
  BY <1>2, <1>3, KernelMapsAssumption DEF WellFormed
<1>9. n.element \in [Keys -> Int]
  BY <1>5, <1>8
<1>10. WellFormed(n)
  BY <1>3, <1>5, <1>6, <1>7, <1>9 DEF WellFormed
<1>11. \A c \in Cpus :
         /\ m.spare[c] \in DOMAIN m.content \ Used(m) /\ m.spare[c] # free
         /\ \A d \in Cpus : m.spare[c] = m.spare[d] => c = d
  BY <1>2, <1>3 DEF ElementsAreApart
<1>12. ElementsAreApart(n) /\ Stored(n) \subseteq Stored(m) \cup {k}
  <2>1. Moved(m, n, k, free)
    BY <1>2, <1>5, <1>7, <1>11 DEF Moved
  <2> QED
    BY <2>1, <1>10, MovedApart
<1>13. /\ IsFiniteSet(Stored(m) \cup {k})
       /\ Cardinality(Stored(m) \cup {k}) = Cardinality(Stored(m)) + 1
  <2>1. k \notin Stored(m)
    BY DEF Stored
  <2> QED
    BY <2>1, StoredFinite, FS_AddElement
<1>14. Cardinality(Stored(n)) <= Cardinality(Stored(m)) + 1
  BY <1>12, <1>13, FS_Subset
<1>15. /\ Cardinality(Stored(n)) \in Nat /\ Cardinality(Stored(m)) \in Nat /\ m.max \in Nat
       /\ Cardinality(Stored(m)) <= m.max /\ Cardinality(Stored(m)) # m.max
  BY <1>3, StoredFinite DEF MapInv, KeepsToMax, WellFormed, Full
<1>16. Cardinality(Stored(n)) <= n.max
  BY <1>5, <1>14, <1>15
<1> QED
  BY <1>10, <1>12, <1>16 DEF MapInv, KeepsToMax, n

-----------------------------------------------------------------------------
(***************************************************************************)
(* Whatever a CPU stores under whatever key, the elements of the map stay  *)
(* apart and the map keeps to its max_entries.                             *)
(***************************************************************************)
LEMMA UpdateKeeps ==
  ASSUME NEW m, MapInv(m), NEW c \in Cpus, NEW k, NEW v, NEW flags
  PROVE  MapInv(Update(m, c, k, v, flags))
<1>1. m.type \in {"array", "hash"}
  BY DEF MapInv, WellFormed
<1>2. CASE Has(m, k)
  <2>1. CASE m.type = "array"
    BY <1>2, <2>1, InPlaceKeeps DEF Update
  <2>2. CASE m.type = "hash"
    BY <1>2, <2>2, IntoSpareKeeps DEF Update
  <2> QED
    BY <1>1, <2>1, <2>2
<1>3. CASE ~Has(m, k)
  <2>1. CASE m.type = "array" \/ flags = "BPF_EXIST" \/ Full(m)
    BY <1>3, <2>1 DEF Update
  <2>2. CASE ~(m.type = "array" \/ flags = "BPF_EXIST" \/ Full(m))
    BY <1>1, <1>3, <2>2, IntoFreeKeeps DEF Update
  <2> QED
    BY <2>1, <2>2
<1> QED
  BY <1>2, <1>3

(* A new key is stored with its value, and changes no other's. *)
LEMMA IntoFreeStores ==
  ASSUME NEW m, MapInv(m), m.type = "hash", ~Full(m), NEW k \in Keys, ~Has(m, k), NEW v
  PROVE  LET n == IntoFree(m, k, v)
         IN /\ Stored(n) = Stored(m) \cup {k} /\ At(n, k) = v
            /\ \A l \in Stored(m) : At(n, l) = At(m, l)
<1> DEFINE used == Used(m) \cup {m.spare[c] : c \in Cpus}
           free == CHOOSE e \in DOMAIN m.content : e \notin used
           n == IntoFree(m, k, v)
<1>1. n = [m EXCEPT !.content = [m.content EXCEPT ![free] = v],
                    !.element = [m.element EXCEPT ![k] = free],
                    !.order = AtTheHead(m.order, k)]
  BY DEF IntoFree
<1>2. free \in DOMAIN m.content /\ free \notin used
  BY FreeElement
<1>3. WellFormed(m) /\ WellFormed(n) /\ ElementsAreApart(m)
  BY IntoFreeKeeps DEF MapInv
<1>4. DOMAIN m = {"type", "max", "element", "content", "spare", "order"}
  BY <1>3 DEF WellFormed
<1>5. DOMAIN m.content = 0 .. m.max + NCpu - 1
  BY <1>3 DEF WellFormed
<1>6. free # None
  BY <1>2, <1>5 DEF None
<1> HIDE DEF n, free
<1>7. n.content = [m.content EXCEPT ![free] = v] /\ n.element = [m.element EXCEPT ![k] = free]
  BY <1>1, <1>4
<1>8. \A l \in Keys : n.element[l] = IF l = k THEN free ELSE m.element[l]
  BY <1>3, <1>7 DEF WellFormed
<1>9. Stored(n) = Stored(m) \cup {k}
  BY <1>6, <1>8 DEF Stored, Has
<1>10. n.content[free] = v /\ \A e \in DOMAIN m.content : e # free => n.content[e] = m.content[e]
  BY <1>2, <1>3, <1>7 DEF WellFormed
<1>11. \A l \in Stored(m) : m.element[l] \in DOMAIN m.content /\ m.element[l] # free /\ l # k
  BY <1>2, <1>3 DEF ElementsAreApart, Used, Stored
<1>12. At(n, k) = v /\ \A l \in Stored(m) : At(n, l) = At(m, l)
  BY <1>8, <1>10, <1>11 DEF At, Stored
<1> QED
  BY <1>9, <1>12 DEF n

LEMMA OnceOnly ==
  ASSUME NEW m, MapInv(m), m.type = "hash", NEW c \in Cpus, NEW k \in Keys, NEW v
  PROVE  LET n == Update(m, c, k, v, "BPF_NOEXIST")
         IN /\ n.type = "hash"
            /\ Stored(m) \subseteq Stored(n) /\ Stored(n) \subseteq Stored(m) \cup {k}
            /\ Full(m) => n = m
            /\ k \in Stored(n) \/ Full(n)
            /\ \A l \in Stored(n) : At(n, l) = IF l \in Stored(m) THEN At(m, l) ELSE v
<1> DEFINE n == Update(m, c, k, v, "BPF_NOEXIST")
<1>1. CASE Has(m, k)
  <2>1. n = m /\ k \in Stored(m)
    BY <1>1 DEF Update, Stored
  <2> HIDE DEF n
  <2> QED
    BY <2>1 DEF n
<1>2. CASE ~Has(m, k) /\ Full(m)
  <2>1. n = m
    BY <1>2 DEF Update
  <2> HIDE DEF n
  <2> QED
    BY <1>2, <2>1 DEF n
<1>3. CASE ~Has(m, k) /\ ~Full(m)
  <2>1. n = IntoFree(m, k, v)
    BY <1>3 DEF Update
  <2>2. n.type = "hash"
    <3>1. DOMAIN m = {"type", "max", "element", "content", "spare", "order"}
      BY DEF MapInv, WellFormed
    <3> QED
      BY <2>1, <3>1 DEF IntoFree
  <2>3. /\ Stored(n) = Stored(m) \cup {k} /\ At(n, k) = v
        /\ \A l \in Stored(m) : At(n, l) = At(m, l)
    BY <1>3, <2>1, IntoFreeStores
  <2>4. k \notin Stored(m)
    BY <1>3 DEF Stored
  <2> HIDE DEF n
  <2> QED
    BY <1>3, <2>2, <2>3, <2>4 DEF n
<1> QED
  BY <1>1, <1>2, <1>3

(* Storing a key that a hash map has puts its value into the spare element. *)
LEMMA IntoSpareStores ==
  ASSUME NEW m, MapInv(m), m.type = "hash", NEW c \in Cpus, NEW k, Has(m, k), NEW v
  PROVE  LET n == IntoSpare(m, c, k, v)
         IN /\ Stored(n) = Stored(m) /\ At(n, k) = v /\ n.max = m.max /\ n.type = m.type
            /\ \A l \in Keys : l # k => n.element[l] = m.element[l]
            /\ \A l \in Stored(m) : l # k => At(n, l) = At(m, l)
<1> DEFINE n == IntoSpare(m, c, k, v)
<1>1. n = [m EXCEPT !.content = [m.content EXCEPT ![m.spare[c]] = v],
                    !.element = [m.element EXCEPT ![k] = m.spare[c]],
                    !.spare = [m.spare EXCEPT ![c] = m.element[k]],
                    !.order = AtTheHead(Without(m.order, k), k)]
  BY DEF IntoSpare
<1>2. WellFormed(m) /\ ElementsAreApart(m)
  BY DEF MapInv
<1>3. DOMAIN m = {"type", "max", "element", "content", "spare", "order"}
  BY <1>2 DEF WellFormed
<1> HIDE DEF n
<1>4. /\ n.element = [m.element EXCEPT ![k] = m.spare[c]] /\ n.max = m.max /\ n.type = m.type
      /\ n.content = [m.content EXCEPT ![m.spare[c]] = v]
  BY <1>1, <1>3
<1>5. m.spare[c] \in DOMAIN m.content \ Used(m)
  BY <1>2 DEF ElementsAreApart
<1>6. m.spare[c] # None /\ k \in Keys
  BY <1>2, <1>5 DEF WellFormed, Has
<1>7. \A l \in Keys : n.element[l] = IF l = k THEN m.spare[c] ELSE m.element[l]
  BY <1>2, <1>4 DEF WellFormed
<1>8. Stored(n) = Stored(m)
  BY <1>6, <1>7 DEF Stored, Has
<1>9. /\ n.content[m.spare[c]] = v
      /\ \A e \in DOMAIN m.content : e # m.spare[c] => n.content[e] = m.content[e]
  BY <1>2, <1>4, <1>5 DEF WellFormed
<1>10. \A l \in Stored(m) : m.element[l] \in DOMAIN m.content /\ m.element[l] # m.spare[c]
  BY <1>2, <1>5 DEF ElementsAreApart, Used
<1>11. At(n, k) = v /\ \A l \in Stored(m) : l # k => At(n, l) = At(m, l)
  BY <1>6, <1>7, <1>9, <1>10 DEF At, Stored
<1> QED
  BY <1>4, <1>7, <1>8, <1>11 DEF n

(* A key's part of a map is as it was, and the map no emptier. *)
SameKey(m, n, k) ==
  /\ n.element[k] = m.element[k] /\ (Has(m, k) => At(n, k) = At(m, k))
  /\ Full(m) => Full(n)

(***************************************************************************)
(* Storing under a key, whether the map has it or not, touches no other    *)
(* key, and fails only for a new key that finds the map full.              *)
(***************************************************************************)
LEMMA StoreAny ==
  ASSUME NEW m, MapInv(m), m.type = "hash", NEW c \in Cpus, NEW k \in Keys, NEW v
  PROVE  LET n == Update(m, c, k, v, "BPF_ANY")
         IN /\ n.type = "hash" /\ (Full(m) => Full(n))
            /\ \A l \in Keys : l # k => SameKey(m, n, l)
            /\ IF Has(n, k) THEN At(n, k) = v ELSE Full(n)
            /\ Has(m, k) \/ ~Full(m) => Has(n, k)
            /\ Has(n, k) => Has(m, k) \/ ~Full(m)
<1> DEFINE n == Update(m, c, k, v, "BPF_ANY")
<1>1. CASE Has(m, k)
  <2>1. n = IntoSpare(m, c, k, v)
    BY <1>1 DEF Update
  <2>2. /\ Stored(n) = Stored(m) /\ At(n, k) = v /\ n.max = m.max /\ n.type = m.type
        /\ \A l \in Keys : l # k => n.element[l] = m.element[l]
        /\ \A l \in Stored(m) : l # k => At(n, l) = At(m, l)
    BY <1>1, <2>1, IntoSpareStores
  <2> HIDE DEF n
  <2> QED
    BY <1>1, <2>2 DEF SameKey, Stored, Full, n
<1>2. CASE ~Has(m, k) /\ Full(m)
  <2>1. n = m
    BY <1>2 DEF Update
  <2> HIDE DEF n
  <2> QED
    BY <1>2, <2>1 DEF SameKey, n
<1>3. CASE ~Has(m, k) /\ ~Full(m)
  <2>1. n = IntoFree(m, k, v)
    BY <1>3 DEF Update
  <2>2. n.type = m.type /\ \A l \in Keys : l # k => n.element[l] = m.element[l]
    <3>1. DOMAIN m = {"type", "max", "element", "content", "spare", "order"}
      BY DEF MapInv, WellFormed
    <3>2. \E e : n.element = [m.element EXCEPT ![k] = e] /\ n.type = m.type
      <4> DEFINE free == CHOOSE e \in DOMAIN m.content : e \notin Used(m) \cup {m.spare[d] : d \in Cpus}
      <4>1. n = [m EXCEPT !.content[free] = v, !.element[k] = free, !.order = AtTheHead(@, k)]
        BY <2>1 DEF IntoFree
      <4> HIDE DEF n, free
      <4> QED
        BY <3>1, <4>1
    <3> HIDE DEF n
    <3>3. m.element \in [Keys -> Int]
      BY DEF MapInv, WellFormed
    <3> QED
      BY <3>2, <3>3
  <2>3. /\ Stored(n) = Stored(m) \cup {k} /\ At(n, k) = v
        /\ \A l \in Stored(m) : At(n, l) = At(m, l)
    BY <1>3, <2>1, IntoFreeStores
  <2> HIDE DEF n
  <2> QED
    BY <1>3, <2>2, <2>3 DEF SameKey, Stored, n
<1> QED
  BY <1>1, <1>2, <1>3

-----------------------------------------------------------------------------
(*************************************************************************)
(* The maps of a program                                                 *)
(*************************************************************************)

(* the maps are a function, and each is as above *)
MapsInv ==
  /\ maps = [m \in DOMAIN maps |-> maps[m]]
  /\ \A m \in DOMAIN maps : MapInv(maps[m])

(* a program's maps are made as maps are *)
AreNew(ms) ==
  /\ ms = [m \in DOMAIN ms |-> ms[m]]
  /\ \A m \in DOMAIN ms : \E n \in Nat : ms[m] \in {NewArray(n), NewHash(n)}

LEMMA MapsAreNew ==
  ASSUME NEW p \in DOMAIN Examples
  PROVE  AreNew(Examples[p].maps)
<1>1. Hash \in {NewHash(n) : n \in Nat}
  BY ExampleAssumption DEF Hash
<1>2. \A hook, main, ms : Example(hook, main, ms).maps = ms
  BY DEF Example
<1>3. AreNew(NoMaps)
  BY DEF AreNew, NoMaps
<1>4. \A ms : ms = [m \in DOMAIN ms |-> ms[m]] /\ (\A m \in DOMAIN ms : ms[m] = Hash) => AreNew(ms)
  BY <1>1 DEF AreNew
<1>5. AreNew([start_time |-> PerThread, total_time |-> PerThread])
  BY DEF AreNew, PerThread
<1>6. AreNew([Count_Sys_Calls_Invoked |-> PerSyscall])
  BY DEF AreNew, PerSyscall
<1>7. AreNew([Example_map |-> Seven, Second_Example_map |-> Five])
  BY DEF AreNew, Seven, Five
<1>8. CASE p \in {"DiskMonitor", "NetworkMonitor", "MemoryMonitor"}
  BY <1>2, <1>4, <1>8 DEF Examples
<1>9. CASE p \in {"CpuMonitor", "CountSyscalls", "Maps"}
  BY <1>2, <1>5, <1>6, <1>7, <1>9 DEF Examples
<1>10. CASE p \in {"TrafficCounter", "ForceKill"}
  <2>1. \A hook, main, ms, map : Printing(map, Example(hook, main, ms)).maps = ms
    BY DEF Printing, Example
  <2> QED
    BY <1>4, <1>10, <2>1 DEF Examples
<1>11. CASE p \notin {"DiskMonitor", "NetworkMonitor", "MemoryMonitor", "CpuMonitor",
                     "CountSyscalls", "Maps", "TrafficCounter", "ForceKill"}
  <2>1. Examples[p].maps = NoMaps
    BY <1>2, <1>11 DEF Examples
  <2> QED
    BY <2>1, <1>3
<1> QED
  BY <1>8, <1>9, <1>10, <1>11

LEMMA NewIsSound ==
  ASSUME NEW ms, AreNew(ms), NEW m \in DOMAIN ms
  PROVE  MapInv(ms[m])
<1>1. PICK n \in Nat : ms[m] \in {NewArray(n), NewHash(n)}
  BY DEF AreNew
<1> QED
  BY <1>1, NewArrayInv, NewHashInv

LEMMA InitMaps ==
  Init => MapsInv
<1> SUFFICES ASSUME Init  PROVE MapsInv
  OBVIOUS
<1>1. program \in DOMAIN Examples /\ maps = Examples[program].maps
  BY GeneratedCAssumption DEF Init
<1>2. AreNew(maps)
  BY <1>1, MapsAreNew
<1> QED
  BY <1>2, NewIsSound DEF MapsInv, AreNew

(* StoreElem is the one statement that changes a map. *)
LEMMA StoreKeeps ==
  ASSUME MapsInv, NEW c \in Cpus, StoreElem(c)
  PROVE  MapsInv'
<1> DEFINE s == Head(todo[c])
           n == Update(maps[s.map], c, Value(c, s.k), Value(c, s.a), s.flags)
<1>1. maps' = [maps EXCEPT ![s.map] = n]
  BY DEF StoreElem
<1>2. ASSUME s.map \in DOMAIN maps  PROVE MapInv(n)
  <2>1. MapInv(maps[s.map])
    BY <1>2 DEF MapsInv
  <2> QED
    BY <2>1, UpdateKeeps
<1> HIDE DEF s, n
<1>3. /\ maps' = [m \in DOMAIN maps' |-> maps'[m]] /\ DOMAIN maps' = DOMAIN maps
      /\ \A m \in DOMAIN maps : maps'[m] = IF m = s.map THEN n ELSE maps[m]
  BY <1>1 DEF MapsInv
<1> QED
  BY <1>2, <1>3 DEF MapsInv

LEMMA NextMaps ==
  ASSUME MapsInv, [NextC]_vars
  PROVE  MapsInv'
<1>1. CASE UNCHANGED vars
  BY <1>1 DEF vars, MapsInv
<1>2. CASE \E c \in Cpus : SystemCall(c) \/ Receive(c) \/ Switch(c)
  BY <1>2 DEF SystemCall, Receive, Switch, Begin, MapsInv
<1>3. ASSUME NEW c \in Cpus, Statement(c)  PROVE MapsInv'
  <2>1. CASE StoreElem(c)
    BY <2>1, StoreKeeps
  <2>2. CASE SetInt(c) \/ ComputeInt(c) \/ CheckedOperation(c) \/ ReadClock(c)
    BY <2>2 DEF SetInt, ComputeInt, CheckedOperation, ReadClock, MapsInv
  <2>3. CASE LookupElem(c)
    BY <2>3 DEF LookupElem, MapsInv
  <2>4. CASE Follow(c) \/ Branch(c) \/ LoadField(c) \/ StoreField(c)
    BY <2>4 DEF Follow, Branch, LoadField, StoreField, MapsInv
  <2>5. CASE PrintLine(c) \/ RaiseException(c) \/ ReturnFromMain(c)
    BY <2>5 DEF PrintLine, RaiseException, ReturnFromMain, MapsInv
  <2> QED
    BY <1>3, <2>1, <2>2, <2>3, <2>4, <2>5 DEF Statement
<1>4. CASE FirstKey \/ ListingStep
  BY <1>4 DEF FirstKey, ListingStep, PrintEntry, NextEntry, Loader, MapsInv
<1> QED
  BY <1>1, <1>2, <1>3, <1>4 DEF NextC

-----------------------------------------------------------------------------
(*************************************************************************)
(* Tuples and conds                                                      *)
(*************************************************************************)

LEMMA NatSetInduction ==
  ASSUME NEW S, 0 \in S, \A n \in Nat : n \in S => n + 1 \in S
  PROVE  Nat \subseteq S
<1> DEFINE T == {n \in Nat : n \notin S}
<1> SUFFICES ASSUME T # {}  PROVE FALSE
  OBVIOUS
<1>1. T \subseteq Nat
  OBVIOUS
<1>2. PICK x \in T : \A y \in T : ~(<<y, x>> \in OpToRel(<, Nat))
  <2> HIDE DEF T
  <2> QED
    BY <1>1, NatLessThanWellFounded, WFMin, Zenon
<1>3. x # 0 /\ x - 1 \in Nat /\ x - 1 < x
  OBVIOUS
<1>4. x - 1 \notin T
  BY <1>2, <1>3 DEF OpToRel
<1> QED
  BY <1>3, <1>4

(* a cond's clauses, from the i-th on, as the ifs that they become *)
IfsOf(ifs, clauses, otherwise) ==
  /\ ifs[Len(clauses) + 1] = otherwise
  /\ \A i \in 1 .. Len(clauses) :
       ifs[i] = <<If(clauses[i].a, clauses[i].rel, clauses[i].b, clauses[i].body, ifs[i + 1])>>

LEMMA CondIsIfs ==
  ASSUME NEW clauses, Len(clauses) \in Nat, NEW otherwise
  PROVE  \E ifs : IfsOf(ifs, clauses, otherwise) /\ Cond(clauses, otherwise) = ifs[1]
<1> DEFINE n == Len(clauses)
           Ifs(f, i) == IF i > n THEN otherwise
                        ELSE <<If(clauses[i].a, clauses[i].rel, clauses[i].b, clauses[i].body,
                                  f[i + 1])>>
           Final(k) == {i \in 1 .. n + 1 : i >= n + 1 - k}
           Ks == {k \in Nat : \E f : f = [i \in Final(k) |-> Ifs(f, i)]}
<1>1. 0 \in Ks
  <2> DEFINE f == [i \in Final(0) |-> otherwise]
  <2>1. f = [i \in Final(0) |-> Ifs(f, i)]
    OBVIOUS
  <2> QED
    BY <2>1
<1>2. ASSUME NEW k \in Nat, k \in Ks  PROVE k + 1 \in Ks
  <2>1. PICK f : f = [i \in Final(k) |-> Ifs(f, i)]
    BY <1>2
  <2> DEFINE g == [i \in Final(k + 1) |-> IF i \in Final(k) THEN f[i] ELSE Ifs(f, i)]
  <2>2. \A i \in Final(k + 1) : i <= n => i + 1 \in Final(k) /\ g[i + 1] = f[i + 1]
    OBVIOUS
  <2>3. \A i \in Final(k + 1) : Ifs(g, i) = Ifs(f, i)
    BY <2>2
  <2>4. \A i \in Final(k) : f[i] = Ifs(f, i)
    BY <2>1
  <2>5. g = [i \in Final(k + 1) |-> Ifs(f, i)]
    BY <2>4
  <2>6. g = [i \in Final(k + 1) |-> Ifs(g, i)]
    BY <2>3, <2>5
  <2>7. k + 1 \in Nat
    OBVIOUS
  <2> HIDE DEF g, Last, Ifs
  <2> QED
    BY <2>6, <2>7
<1>3. n \in Ks
  <2> HIDE DEF Ks
  <2> QED
    BY <1>1, <1>2, NatSetInduction
<1>4. PICK f : f = [i \in Final(n) |-> Ifs(f, i)]
  BY <1>3
<1>5. Final(n) = 1 .. n + 1
  OBVIOUS
<1> DEFINE from == CHOOSE g : g = [i \in 1 .. n + 1 |-> Ifs(g, i)]
<1>6. from = [i \in 1 .. n + 1 |-> Ifs(from, i)]
  BY <1>4, <1>5
<1>7. Cond(clauses, otherwise) = from[1]
  BY DEF Cond
<1> HIDE DEF from
<1>8. IfsOf(from, clauses, otherwise)
  <2>1. \A i \in 1 .. n + 1 : from[i] = Ifs(from, i)
    <3> HIDE DEF Ifs
    <3> QED
      BY <1>6
  <2>2. n + 1 \in 1 .. n + 1 /\ n + 1 > n
    OBVIOUS
  <2>3. \A i \in 1 .. n : i \in 1 .. n + 1 /\ ~(i > n)
    OBVIOUS
  <2> QED
    BY <2>1, <2>2, <2>3 DEF IfsOf
<1> QED
  BY <1>7, <1>8

LEMMA CondOfOne ==
  ASSUME NEW a, NEW rel, NEW b, NEW body, NEW otherwise
  PROVE  Cond(<<Clause(a, rel, b, body)>>, otherwise) = <<If(a, rel, b, body, otherwise)>>
<1> DEFINE clauses == <<Clause(a, rel, b, body)>>
<1>1. Len(clauses) = 1 /\ clauses[1] = Clause(a, rel, b, body)
  OBVIOUS
<1> HIDE DEF clauses
<1>2. PICK ifs : IfsOf(ifs, clauses, otherwise) /\ Cond(clauses, otherwise) = ifs[1]
  BY <1>1, CondIsIfs
<1>3. ifs[2] = otherwise /\ ifs[1] = <<If(a, rel, b, body, ifs[2])>>
  BY <1>1, <1>2 DEF IfsOf, Clause
<1> QED
  BY <1>2, <1>3 DEF clauses

LEMMA CondOfTwo ==
  ASSUME NEW a, NEW rel, NEW b, NEW body, NEW a2, NEW rel2, NEW b2, NEW body2, NEW otherwise
  PROVE  Cond(<<Clause(a, rel, b, body), Clause(a2, rel2, b2, body2)>>, otherwise) =
           <<If(a, rel, b, body, <<If(a2, rel2, b2, body2, otherwise)>>)>>
<1> DEFINE clauses == <<Clause(a, rel, b, body), Clause(a2, rel2, b2, body2)>>
<1>1. /\ Len(clauses) = 2 /\ clauses[1] = Clause(a, rel, b, body)
      /\ clauses[2] = Clause(a2, rel2, b2, body2)
  OBVIOUS
<1> HIDE DEF clauses
<1>2. PICK ifs : IfsOf(ifs, clauses, otherwise) /\ Cond(clauses, otherwise) = ifs[1]
  BY <1>1, CondIsIfs
<1>3. /\ ifs[3] = otherwise /\ ifs[2] = <<If(a2, rel2, b2, body2, ifs[3])>>
      /\ ifs[1] = <<If(a, rel, b, body, ifs[2])>>
  BY <1>1, <1>2 DEF IfsOf, Clause
<1> QED
  BY <1>2, <1>3 DEF clauses

LEMMA JoinedIs ==
  ASSUME NEW S, NEW s \in Seq(S), NEW t \in Seq(S), NEW u \in Seq(S),
         Len(u) = Len(s) + Len(t),
         \A i \in 1 .. Len(s) : u[i] = s[i],
         \A i \in 1 .. Len(t) : u[Len(s) + i] = t[i]
  PROVE  s \o t = u
<1>1. /\ s \o t \in Seq(S) /\ Len(s \o t) = Len(s) + Len(t)
      /\ \A i \in 1 .. Len(s) + Len(t) :
           (s \o t)[i] = IF i <= Len(s) THEN s[i] ELSE t[i - Len(s)]
  BY ConcatProperties
<1>2. Len(s) \in Nat /\ Len(t) \in Nat
  BY LenProperties
<1>3. \A i \in 1 .. Len(u) : (s \o t)[i] = u[i]
  <2> SUFFICES ASSUME NEW i \in 1 .. Len(u)  PROVE (s \o t)[i] = u[i]
    OBVIOUS
  <2>1. CASE i <= Len(s)
    BY <2>1, <1>1, <1>2
  <2>2. CASE ~(i <= Len(s))
    <3>1. i - Len(s) \in 1 .. Len(t) /\ Len(s) + (i - Len(s)) = i
      BY <2>2, <1>2
    <3>2. (s \o t)[i] = t[i - Len(s)]
      BY <2>2, <1>1
    <3>3. u[Len(s) + (i - Len(s))] = t[i - Len(s)]
      BY <3>1
    <3> QED
      BY <3>1, <3>2, <3>3
  <2> QED
    BY <2>1, <2>2
<1> QED
  BY <1>1, <1>3, SeqEqual

LEMMA Join11 ==
  ASSUME NEW a, NEW b
  PROVE  <<a>> \o <<b>> = <<a, b>>
<1> DEFINE S == {a, b}
           s == <<a>>
           t == <<b>>
           u == <<a, b>>
<1>1. s \in Seq(S) /\ t \in Seq(S) /\ u \in Seq(S)
  OBVIOUS
<1>2. Len(s) = 1 /\ Len(t) = 1 /\ Len(u) = 2
  OBVIOUS
<1>3. /\ u[1] = s[1]
      /\ u[2] = t[1]
  OBVIOUS
<1> HIDE DEF S, s, t, u
<1>4. Len(u) = Len(s) + Len(t)
  BY <1>2
<1>5. \A i \in 1 .. Len(s) : u[i] = s[i]
  BY <1>2, <1>3
<1>6. \A i \in 1 .. Len(t) : u[Len(s) + i] = t[i]
  BY <1>2, <1>3
<1>7. s \o t = u
  BY <1>1, <1>4, <1>5, <1>6, JoinedIs, Zenon
<1> QED
  BY <1>7 DEF s, t, u

LEMMA Join21 ==
  ASSUME NEW a, NEW b, NEW c
  PROVE  <<a, b>> \o <<c>> = <<a, b, c>>
<1> DEFINE S == {a, b, c}
           s == <<a, b>>
           t == <<c>>
           u == <<a, b, c>>
<1>1. s \in Seq(S) /\ t \in Seq(S) /\ u \in Seq(S)
  OBVIOUS
<1>2. Len(s) = 2 /\ Len(t) = 1 /\ Len(u) = 3
  OBVIOUS
<1>3. /\ u[1] = s[1] /\ u[2] = s[2]
      /\ u[3] = t[1]
  OBVIOUS
<1> HIDE DEF S, s, t, u
<1>4. Len(u) = Len(s) + Len(t)
  BY <1>2
<1>5. \A i \in 1 .. Len(s) : u[i] = s[i]
  BY <1>2, <1>3
<1>6. \A i \in 1 .. Len(t) : u[Len(s) + i] = t[i]
  BY <1>2, <1>3
<1>7. s \o t = u
  BY <1>1, <1>4, <1>5, <1>6, JoinedIs, Zenon
<1> QED
  BY <1>7 DEF s, t, u

LEMMA Join13 ==
  ASSUME NEW a, NEW b, NEW c, NEW d
  PROVE  <<a>> \o <<b, c, d>> = <<a, b, c, d>>
<1> DEFINE S == {a, b, c, d}
           s == <<a>>
           t == <<b, c, d>>
           u == <<a, b, c, d>>
<1>1. s \in Seq(S) /\ t \in Seq(S) /\ u \in Seq(S)
  OBVIOUS
<1>2. Len(s) = 1 /\ Len(t) = 3 /\ Len(u) = 4
  OBVIOUS
<1>3. /\ u[1] = s[1]
      /\ u[2] = t[1] /\ u[3] = t[2] /\ u[4] = t[3]
  OBVIOUS
<1> HIDE DEF S, s, t, u
<1>4. Len(u) = Len(s) + Len(t)
  BY <1>2
<1>5. \A i \in 1 .. Len(s) : u[i] = s[i]
  BY <1>2, <1>3
<1>6. \A i \in 1 .. Len(t) : u[Len(s) + i] = t[i]
  BY <1>2, <1>3
<1>7. s \o t = u
  BY <1>1, <1>4, <1>5, <1>6, JoinedIs, Zenon
<1> QED
  BY <1>7 DEF s, t, u

LEMMA Join31 ==
  ASSUME NEW a, NEW b, NEW c, NEW d
  PROVE  <<a, b, c>> \o <<d>> = <<a, b, c, d>>
<1> DEFINE S == {a, b, c, d}
           s == <<a, b, c>>
           t == <<d>>
           u == <<a, b, c, d>>
<1>1. s \in Seq(S) /\ t \in Seq(S) /\ u \in Seq(S)
  OBVIOUS
<1>2. Len(s) = 3 /\ Len(t) = 1 /\ Len(u) = 4
  OBVIOUS
<1>3. /\ u[1] = s[1] /\ u[2] = s[2] /\ u[3] = s[3]
      /\ u[4] = t[1]
  OBVIOUS
<1> HIDE DEF S, s, t, u
<1>4. Len(u) = Len(s) + Len(t)
  BY <1>2
<1>5. \A i \in 1 .. Len(s) : u[i] = s[i]
  BY <1>2, <1>3
<1>6. \A i \in 1 .. Len(t) : u[Len(s) + i] = t[i]
  BY <1>2, <1>3
<1>7. s \o t = u
  BY <1>1, <1>4, <1>5, <1>6, JoinedIs, Zenon
<1> QED
  BY <1>7 DEF s, t, u

LEMMA Join01 ==
  ASSUME NEW a, NEW b, NEW c
  PROVE  /\ <<>> \o <<a>> = <<a>> /\ <<>> \o <<a, b>> = <<a, b>>
         /\ <<>> \o <<a, b, c>> = <<a, b, c>>
  OBVIOUS

LEMMA Firsts ==
  ASSUME NEW a, NEW b, NEW c, NEW d
  PROVE  /\ Head(<<a>>) = a /\ Head(<<a, b>>) = a /\ Head(<<a, b, c>>) = a
         /\ Head(<<a, b, c, d>>) = a
         /\ Tail(<<a>>) = <<>> /\ Tail(<<a, b>>) = <<b>> /\ Tail(<<a, b, c>>) = <<b, c>>
         /\ Tail(<<a, b, c, d>>) = <<b, c, d>>
  OBVIOUS

LEMMA NotEmpty ==
  ASSUME NEW a, NEW b, NEW c, NEW d
  PROVE  <<a>> # <<>> /\ <<a, b>> # <<>> /\ <<a, b, c>> # <<>> /\ <<a, b, c, d>> # <<>>
  OBVIOUS

-----------------------------------------------------------------------------
(*************************************************************************)
(* A step of the system, as one CPU sees it                              *)
(*************************************************************************)

LEMMA ModSmall ==
  ASSUME NEW a \in Nat, NEW b \in Nat, a < b
  PROVE  a % b = a
  OBVIOUS

LEMMA WrapOfInt ==
  ASSUME NEW n \in Int, IsInt(n)
  PROVE  Wrap(n) = n
<1>1. INT_MAX \in Nat /\ WORD \in Nat /\ n + INT_MAX + 1 \in Nat /\ n + INT_MAX + 1 < WORD
  BY GeneratedCAssumption DEF IsInt, WORD
<1>2. (n + INT_MAX + 1) % WORD = n + INT_MAX + 1
  BY <1>1, ModSmall, Zenon
<1> QED
  BY <1>1, <1>2 DEF Wrap

(* what each CPU has of its own *)
OneEach ==
  /\ todo = [c \in Cpus |-> todo[c]] /\ env = [c \in Cpus |-> env[c]]
  /\ result = [c \in Cpus |-> result[c]]

(* c does nothing *)
Waits(c) == todo'[c] = todo[c] /\ env'[c] = env[c] /\ result'[c] = result[c]

(* c begins to run the program for what an event says *)
Begins(c, says) ==
  /\ todo[c] = <<>> /\ todo'[c] = Examples[program].main /\ env'[c] = says
  /\ result'[c] = result[c]

IsEvent(says) ==
  IF Hook = "xdp" THEN says \in Inputs[program]
  ELSE IF Hook = "sched_switch"
    THEN \E t, next : says = With(With(NoVariables, "ctx.prev_pid", t), "ctx.next_pid", next)
  ELSE \E input \in Inputs[program], t \in Callers[program] :
         says = With(input, "pid_tgid", Process[t] * WORD + t)

LEMMA InitOneEach ==
  Init => OneEach
  BY DEF Init, OneEach

LEMMA NextOneEach ==
  ASSUME OneEach, [NextC]_vars
  PROVE  OneEach' /\ program' = program
<1>1. CASE UNCHANGED vars
  BY <1>1 DEF vars, cpu, OneEach
<1>2. CASE \E c \in Cpus : SystemCall(c) \/ Receive(c) \/ Switch(c)
  BY <1>2 DEF SystemCall, Receive, Switch, Begin, OneEach
<1>3. ASSUME NEW c \in Cpus, Statement(c)  PROVE OneEach' /\ program' = program
  <2> USE DEF OneEach, Elsewhere
  <2>1. CASE SetInt(c) \/ ComputeInt(c) \/ CheckedOperation(c) \/ ReadClock(c)
    BY <2>1 DEF SetInt, ComputeInt, CheckedOperation, ReadClock, Assign, GoOn, Catch
  <2>2. CASE LookupElem(c) \/ Follow(c) \/ StoreElem(c) \/ Branch(c)
    BY <2>2 DEF LookupElem, Follow, StoreElem, Branch, Assign, GoOn, Catch
  <2>3. CASE LoadField(c) \/ StoreField(c) \/ PrintLine(c) \/ RaiseException(c) \/ ReturnFromMain(c)
    BY <2>3 DEF LoadField, StoreField, PrintLine, RaiseException, ReturnFromMain, Assign, GoOn,
                Catch
  <2> QED
    BY <1>3, <2>1, <2>2, <2>3 DEF Statement
<1>4. CASE FirstKey \/ ListingStep
  BY <1>4 DEF FirstKey, ListingStep, PrintEntry, NextEntry, Loader, cpu, OneEach
<1> QED
  BY <1>1, <1>2, <1>3, <1>4 DEF NextC

(* A statement of another CPU's. *)
LEMMA OthersWait ==
  ASSUME OneEach, NEW c \in Cpus, NEW d \in Cpus, d # c, Statement(d)
  PROVE  Waits(c)
<1> USE DEF OneEach, Waits, Elsewhere
<1>1. CASE SetInt(d) \/ ComputeInt(d) \/ CheckedOperation(d) \/ ReadClock(d)
  BY <1>1 DEF SetInt, ComputeInt, CheckedOperation, ReadClock, Assign, GoOn, Catch
<1>2. CASE LookupElem(d) \/ Follow(d) \/ StoreElem(d) \/ Branch(d)
  BY <1>2 DEF LookupElem, Follow, StoreElem, Branch, Assign, GoOn, Catch
<1>3. CASE LoadField(d) \/ StoreField(d) \/ PrintLine(d) \/ RaiseException(d) \/ ReturnFromMain(d)
  BY <1>3 DEF LoadField, StoreField, PrintLine, RaiseException, ReturnFromMain, Assign, GoOn, Catch
<1> QED
  BY <1>1, <1>2, <1>3 DEF Statement

LEMMA EventsBegin ==
  ASSUME OneEach, NEW d \in Cpus, SystemCall(d) \/ Receive(d) \/ Switch(d)
  PROVE  /\ \E says : IsEvent(says) /\ Begins(d, says)
         /\ \A c \in Cpus : c # d => Waits(c)
<1>1. ASSUME NEW says, Begin(d, says)
      PROVE  Begins(d, says) /\ \A c \in Cpus : c # d => Waits(c)
  BY <1>1 DEF Begin, Begins, IsIdle, Waits, OneEach
<1>2. CASE SystemCall(d)
  BY <1>1, <1>2 DEF SystemCall, IsEvent
<1>3. CASE Receive(d)
  BY <1>1, <1>3 DEF Receive, IsEvent
<1>4. CASE Switch(d)
  BY <1>1, <1>4 DEF Switch, IsEvent
<1> QED
  BY <1>2, <1>3, <1>4

(* All that a step can be to one CPU. *)
LEMMA StepOfOne ==
  ASSUME OneEach, [NextC]_vars, NEW c \in Cpus
  PROVE  \/ Waits(c)
         \/ \E says : IsEvent(says) /\ Begins(c, says)
         \/ Statement(c)
<1>1. CASE UNCHANGED vars
  BY <1>1 DEF vars, cpu, Waits
<1>2. CASE FirstKey \/ ListingStep
  BY <1>2 DEF FirstKey, ListingStep, PrintEntry, NextEntry, Loader, cpu, Waits
<1>3. ASSUME NEW d \in Cpus, SystemCall(d) \/ Receive(d) \/ Switch(d)
      PROVE  Waits(c) \/ \E says : IsEvent(says) /\ Begins(c, says)
  BY <1>3, EventsBegin
<1>4. ASSUME NEW d \in Cpus, Statement(d)  PROVE Waits(c) \/ Statement(c)
  BY <1>4, OthersWait
<1> QED
  BY <1>1, <1>2, <1>3, <1>4 DEF NextC

-----------------------------------------------------------------------------
(*************************************************************************)
(* A statement, by its kind                                              *)
(*************************************************************************)

(* What CPU c's statement does to what it has of its own. *)
Becomes(c, q, e, r) == todo'[c] = q /\ env'[c] = e /\ result'[c] = r

(* Each statement is run by the action of its own kind. *)
LEMMA Dispatch ==
  ASSUME NEW c \in Cpus, Statement(c)
  PROVE  /\ ~IsIdle(c)
         /\ \/ SetInt(c) /\ Is(c, "set")
            \/ ComputeInt(c) /\ Is(c, "compute")
            \/ CheckedOperation(c) /\ Is(c, "checked")
            \/ ReadClock(c) /\ Is(c, "ktime")
            \/ LookupElem(c) /\ Is(c, "lookup")
            \/ Follow(c) /\ Is(c, "follow")
            \/ StoreElem(c) /\ Is(c, "store")
            \/ Branch(c) /\ Is(c, "if")
            \/ LoadField(c) /\ Is(c, "load")
            \/ StoreField(c) /\ Is(c, "storePacket")
            \/ PrintLine(c) /\ Is(c, "printk")
            \/ RaiseException(c) /\ Is(c, "raise")
            \/ ReturnFromMain(c) /\ Is(c, "return")
<1>1. /\ SetInt(c) => Is(c, "set")
      /\ ComputeInt(c) => Is(c, "compute")
      /\ CheckedOperation(c) => Is(c, "checked")
      /\ ReadClock(c) => Is(c, "ktime")
  BY DEF SetInt, ComputeInt, CheckedOperation, ReadClock
<1>2. /\ LookupElem(c) => Is(c, "lookup")
      /\ Follow(c) => Is(c, "follow")
      /\ StoreElem(c) => Is(c, "store")
      /\ Branch(c) => Is(c, "if")
  BY DEF LookupElem, Follow, StoreElem, Branch
<1>3. /\ LoadField(c) => Is(c, "load")
      /\ StoreField(c) => Is(c, "storePacket")
      /\ PrintLine(c) => Is(c, "printk")
      /\ RaiseException(c) => Is(c, "raise")
      /\ ReturnFromMain(c) => Is(c, "return")
  BY DEF LoadField, StoreField, PrintLine, RaiseException, ReturnFromMain
<1> QED
  BY <1>1, <1>2, <1>3 DEF Statement, Is

LEMMA OfSet ==
  ASSUME OneEach, NEW c \in Cpus, Statement(c), NEW x, NEW a, Head(todo[c]) = Set(x, a)
  PROVE  /\ Becomes(c, Tail(todo[c]), With(env[c], x, Wrap(Value(c, a))), result[c])
         /\ maps' = maps
<1>1. SetInt(c)
  BY Dispatch DEF Is, Set
<1> QED
  BY <1>1 DEF SetInt, Set, Assign, GoOn, OneEach, Becomes

LEMMA OfStore ==
  ASSUME OneEach, NEW c \in Cpus, Statement(c), NEW map, NEW k, NEW a, NEW flags,
         Head(todo[c]) = Store(map, k, a, flags)
  PROVE  /\ Becomes(c, Tail(todo[c]), env[c], result[c])
         /\ maps' = [maps EXCEPT ![map] = Update(maps[map], c, Value(c, k), Value(c, a), flags)]
         /\ UNCHANGED happened
<1>1. StoreElem(c)
  BY Dispatch DEF Is, Store
<1> DEFINE s == Head(todo[c])
<1>2. s.map = map /\ s.k = k /\ s.a = a /\ s.flags = flags
  BY DEF Store
<1>3. /\ maps' = [maps EXCEPT ![s.map] = Update(maps[s.map], c, Value(c, s.k), Value(c, s.a),
                                               s.flags)]
      /\ todo' = [todo EXCEPT ![c] = Tail(todo[c])]
      /\ UNCHANGED <<env, result, happened>>
  BY <1>1 DEF StoreElem, GoOn, history
<1> HIDE DEF s
<1> QED
  BY <1>2, <1>3 DEF OneEach, Becomes

LEMMA OfIf ==
  ASSUME OneEach, NEW c \in Cpus, Statement(c), NEW a, NEW rel, NEW b, NEW then, NEW else,
         Head(todo[c]) = If(a, rel, b, then, else)
  PROVE  /\ Becomes(c, (IF Holds(Value(c, a), rel, Value(c, b)) THEN then ELSE else)
                         \o Tail(todo[c]), env[c], result[c])
         /\ maps' = maps
<1>1. Branch(c)
  BY Dispatch DEF Is, If
<1> DEFINE s == Head(todo[c])
           q == (IF Holds(Value(c, a), rel, Value(c, b)) THEN then ELSE else) \o Tail(todo[c])
<1>2. s.a = a /\ s.rel = rel /\ s.b = b /\ s.then = then /\ s.else = else
  BY DEF If
<1> HIDE DEF s
<1>3. todo' = [todo EXCEPT ![c] = q] /\ UNCHANGED <<maps, env, result>>
  BY <1>1, <1>2, Zenon DEF Branch, s
<1> HIDE DEF q
<1> QED
  BY <1>3 DEF OneEach, Becomes, q

LEMMA IfGoes ==
  ASSUME OneEach, NEW c \in Cpus, Statement(c), NEW a, NEW rel, NEW b, NEW then, NEW else,
         Head(todo[c]) = If(a, rel, b, then, else)
  PROVE  /\ env'[c] = env[c]
         /\ Holds(Value(c, a), rel, Value(c, b)) => todo'[c] = then \o Tail(todo[c])
         /\ ~Holds(Value(c, a), rel, Value(c, b)) => todo'[c] = else \o Tail(todo[c])
  BY OfIf, Zenon DEF Becomes

LEMMA OfLoad ==
  ASSUME OneEach, NEW c \in Cpus, Statement(c), NEW x, NEW field, NEW end,
         Head(todo[c]) = Load(x, field, end)
  PROVE  Becomes(c, Tail(todo[c]), With(env[c], x, env[c][field]), result[c])
<1>1. LoadField(c)
  BY Dispatch DEF Is, Load
<1> QED
  BY <1>1 DEF LoadField, Load, Assign, GoOn, OneEach, Becomes

LEMMA OfStorePacket ==
  ASSUME OneEach, NEW c \in Cpus, Statement(c), NEW field, NEW end, NEW a,
         Head(todo[c]) = StorePacket(field, end, a)
  PROVE  Becomes(c, Tail(todo[c]), With(env[c], field, Value(c, a)), result[c])
<1>1. StoreField(c)
  BY Dispatch DEF Is, StorePacket
<1> QED
  BY <1>1 DEF StoreField, StorePacket, Assign, GoOn, OneEach, Becomes

LEMMA OfReturn ==
  ASSUME OneEach, NEW c \in Cpus, Statement(c), NEW n, Head(todo[c]) = Return(n)
  PROVE  /\ Becomes(c, <<>>, NoVariables, NoResult) /\ maps' = maps
         /\ happened' = With(happened, Subject(c), Times(Subject(c)) + 1)
<1>1. ReturnFromMain(c)
  BY Dispatch DEF Is, Return
<1> QED
  BY <1>1 DEF ReturnFromMain, OneEach, Becomes

LEMMA ValueOf ==
  ASSUME NEW c, NEW x, NEW n
  PROVE  Value(c, V(x)) = env[c][x] /\ Value(c, I(n)) = n
  BY DEF Value, V, I

LEMMA OnlyReturnsHappen ==
  ASSUME NEW c \in Cpus, Statement(c), Head(todo[c]).op # "return"
  PROVE  happened' = happened
<1>1. ~ReturnFromMain(c)
  BY DEF ReturnFromMain, Is
<1> USE DEF history
<1>2. CASE SetInt(c) \/ ComputeInt(c) \/ CheckedOperation(c) \/ ReadClock(c)
  BY <1>2 DEF SetInt, ComputeInt, CheckedOperation, ReadClock
<1>3. CASE LookupElem(c) \/ Follow(c) \/ StoreElem(c) \/ Branch(c)
  BY <1>3 DEF LookupElem, Follow, StoreElem, Branch
<1>4. CASE LoadField(c) \/ StoreField(c) \/ PrintLine(c) \/ RaiseException(c)
  BY <1>4 DEF LoadField, StoreField, PrintLine, RaiseException
<1> QED
  BY <1>1, <1>2, <1>3, <1>4 DEF Statement

-----------------------------------------------------------------------------
(*************************************************************************)
(* force_kill                                                            *)
(*************************************************************************)

(* The pid and the signal are C ints, and so are the keys of the map. *)
SaysKill(e) ==
  /\ {"ctx.sig", "ctx.pid"} \subseteq DOMAIN e
  /\ e["ctx.sig"] \in Int /\ IsInt(e["ctx.sig"])
  /\ e["ctx.pid"] \in Keys /\ IsInt(e["ctx.pid"])

KillsAreInts == \A input \in Inputs["ForceKill"] : SaysKill(input)
KillSet9 == If(V("sig"), "==", I(9), StoreKill("BPF_NOEXIST"), <<>>)
TheKill == Store("ForceKills", V("pid"), I(1), "BPF_NOEXIST")

KillProgram ==
  <<Set("sig", V("ctx.sig")), Set("pid", V("ctx.pid")), KillSet9, Return(0)>>

Kills == maps["ForceKills"]

(***************************************************************************)
(* Where force_kill is on a CPU that has q still to run, what it knows     *)
(* there, and, once the map m has been through its hands, that the pid is  *)
(* in it or found it full.                                                 *)
(***************************************************************************)
KillPoint(q, e, m) ==
  \/ q = <<>>
  \/ q = KillProgram /\ SaysKill(e)
  \/ /\ q = <<Set("pid", V("ctx.pid")), KillSet9, Return(0)>> /\ SaysKill(e)
     /\ "sig" \in DOMAIN e /\ e["sig"] = e["ctx.sig"]
  \/ /\ q = <<KillSet9, Return(0)>> /\ SaysKill(e)
     /\ e["sig"] = e["ctx.sig"] /\ e["pid"] = e["ctx.pid"]
  \/ /\ q = <<TheKill, Return(0)>> /\ SaysKill(e)
     /\ e["ctx.sig"] = 9 /\ e["pid"] = e["ctx.pid"]
  \/ /\ q = <<Return(0)>> /\ SaysKill(e)
     /\ e["ctx.sig"] = 9 => e["ctx.pid"] \in Stored(m) \/ Full(m)

Sig(c) == env[c]["ctx.sig"]
Pid(c) == env[c]["ctx.pid"]
Dying == {Pid(c) : c \in {d \in Cpus : ~IsIdle(d) /\ Sig(d) = 9}}

KillsInv ==
  /\ "ForceKills" \in DOMAIN maps /\ Kills.type = "hash"
  /\ \A c \in Cpus : KillPoint(todo[c], env[c], Kills)
  /\ Stored(Kills) \subseteq Killed \cup Dying
  /\ Killed \subseteq Stored(Kills) \/ Full(Kills)
  /\ \A k \in Stored(Kills) : At(Kills, k) = 1

LEMMA ForceKillIs ==
  Examples["ForceKill"].main = KillProgram /\ Examples["ForceKill"].hook = "sys_enter_kill"
<1>1. Cond(<<Clause(V("sig"), "==", I(9), StoreKill("BPF_NOEXIST"))>>, <<>>) = <<KillSet9>>
  BY CondOfOne DEF KillSet9
<1>2. ForceKill = KillProgram
  <2> DEFINE a == Set("sig", V("ctx.sig"))
             b == Set("pid", V("ctx.pid"))
             d == Return(0)
  <2>1. ForceKill = (<<a, b>> \o <<KillSet9>>) \o <<d>>
    BY <1>1 DEF ForceKill
  <2> HIDE DEF a, b, d
  <2>2. <<a, b>> \o <<KillSet9>> = <<a, b, KillSet9>>
    BY Join21
  <2>3. <<a, b, KillSet9>> \o <<d>> = <<a, b, KillSet9, d>>
    BY Join31
  <2>4. ForceKill = <<a, b, KillSet9, d>>
    BY <2>1, <2>2, <2>3
  <2> QED
    BY <2>4 DEF a, b, d, KillProgram
<1>3. Examples["ForceKill"] =
        Printing("ForceKills", Example("sys_enter_kill", ForceKill, [ForceKills |-> Hash]))
  BY DEF Examples
<1> QED
  BY <1>2, <1>3 DEF Printing, Example

(***************************************************************************)
(* What a statement of force_kill's does to its own CPU, and to the map:   *)
(* it goes on, stores the pid, or is over.                                 *)
(***************************************************************************)
Keeps(c) ==
  /\ happened' = happened /\ todo'[c] # <<>>
  /\ env'[c]["ctx.sig"] = env[c]["ctx.sig"] /\ env'[c]["ctx.pid"] = env[c]["ctx.pid"]

GoesOn(c) ==
  /\ Keeps(c) /\ maps' = maps /\ KillPoint(todo'[c], env'[c], Kills)

StoresKill(c) ==
  /\ Keeps(c) /\ env[c]["ctx.sig"] = 9 /\ env'[c] = env[c] /\ todo'[c] = <<Return(0)>>
  /\ maps' = [maps EXCEPT !["ForceKills"] =
                 Update(Kills, c, env[c]["ctx.pid"], 1, "BPF_NOEXIST")]

IsOver(c) ==
  /\ todo'[c] = <<>> /\ maps' = maps
  /\ happened' = With(happened, Subject(c), Times(Subject(c)) + 1)
  /\ env[c]["ctx.sig"] = 9 => env[c]["ctx.pid"] \in Stored(Kills) \/ Full(Kills)

LEMMA KillStatement ==
  ASSUME OneEach, NEW c \in Cpus, Statement(c), KillPoint(todo[c], env[c], Kills)
  PROVE  /\ SaysKill(env[c]) /\ todo[c] # <<>>
         /\ GoesOn(c) \/ StoresKill(c) \/ IsOver(c)
<1> USE DEF Becomes
<1>1. todo[c] # <<>> /\ SaysKill(env[c])
  BY Dispatch DEF IsIdle, KillPoint
<1>2. Wrap(env[c]["ctx.sig"]) = env[c]["ctx.sig"] /\ Wrap(env[c]["ctx.pid"]) = env[c]["ctx.pid"]
  <2>1. IsInt(env[c]["ctx.pid"]) /\ env[c]["ctx.pid"] \in Int
    BY <1>1, KernelMapsAssumption DEF SaysKill
  <2> QED
    BY <1>1, <2>1, WrapOfInt DEF SaysKill
<1> DEFINE e1 == With(env[c], "sig", env[c]["ctx.sig"])
           e2 == With(env[c], "pid", env[c]["ctx.pid"])
<1>3. /\ SaysKill(e1) /\ e1["ctx.sig"] = env[c]["ctx.sig"] /\ e1["ctx.pid"] = env[c]["ctx.pid"]
      /\ "sig" \in DOMAIN e1 /\ e1["sig"] = env[c]["ctx.sig"]
  BY <1>1 DEF SaysKill, With
<1>4. /\ SaysKill(e2) /\ e2["ctx.sig"] = env[c]["ctx.sig"] /\ e2["ctx.pid"] = env[c]["ctx.pid"]
      /\ e2["pid"] = env[c]["ctx.pid"]
      /\ "sig" \in DOMAIN env[c] => e2["sig"] = env[c]["sig"]
  BY <1>1 DEF SaysKill, With
<1> HIDE DEF e1, e2
<1>5. CASE todo[c] = KillProgram
  <2>1. /\ Head(todo[c]) = Set("sig", V("ctx.sig"))
        /\ Tail(todo[c]) = <<Set("pid", V("ctx.pid")), KillSet9, Return(0)>>
    BY <1>5 DEF KillProgram
  <2>2. Head(todo[c]).op # "return"
    BY <2>1 DEF Set
  <2>3. Becomes(c, Tail(todo[c]), With(env[c], "sig", Wrap(Value(c, V("ctx.sig")))), result[c])
        /\ maps' = maps
    BY <2>1, OfSet
  <2>4. env'[c] = e1 /\ todo'[c] = Tail(todo[c])
    BY <1>2, <2>3, ValueOf DEF e1
  <2> QED
    BY <1>1, <1>3, <2>1, <2>2, <2>3, <2>4, NotEmpty, OnlyReturnsHappen
       DEF KillPoint, GoesOn, Keeps
<1>6. CASE /\ todo[c] = <<Set("pid", V("ctx.pid")), KillSet9, Return(0)>>
           /\ "sig" \in DOMAIN env[c] /\ env[c]["sig"] = env[c]["ctx.sig"]
  <2>1. /\ Head(todo[c]) = Set("pid", V("ctx.pid")) /\ Tail(todo[c]) = <<KillSet9, Return(0)>>
    BY <1>6
  <2>2. Head(todo[c]).op # "return"
    BY <2>1 DEF Set
  <2>3. Becomes(c, Tail(todo[c]), With(env[c], "pid", Wrap(Value(c, V("ctx.pid")))), result[c])
        /\ maps' = maps
    BY <2>1, OfSet
  <2>4. env'[c] = e2 /\ todo'[c] = Tail(todo[c])
    BY <1>2, <2>3, ValueOf DEF e2
  <2> QED
    BY <1>1, <1>4, <1>6, <2>1, <2>2, <2>3, <2>4, NotEmpty, OnlyReturnsHappen
       DEF KillPoint, GoesOn, Keeps
<1>7. CASE /\ todo[c] = <<KillSet9, Return(0)>>
           /\ env[c]["sig"] = env[c]["ctx.sig"] /\ env[c]["pid"] = env[c]["ctx.pid"]
  <2>1. Head(todo[c]) = KillSet9 /\ Tail(todo[c]) = <<Return(0)>>
    BY <1>7
  <2>2. Head(todo[c]).op # "return"
    BY <2>1 DEF KillSet9, If
  <2>3. Becomes(c, (IF Holds(Value(c, V("sig")), "==", Value(c, I(9)))
                    THEN StoreKill("BPF_NOEXIST") ELSE <<>>) \o Tail(todo[c]), env[c], result[c])
        /\ maps' = maps
    BY <2>1, OfIf DEF KillSet9
  <2>4. Holds(Value(c, V("sig")), "==", Value(c, I(9))) <=> env[c]["sig"] = 9
    BY ValueOf DEF Holds
  <2>5. CASE env[c]["sig"] = 9
    <3>1. todo'[c] = <<TheKill>> \o <<Return(0)>>
      BY <2>1, <2>3, <2>4, <2>5 DEF StoreKill, TheKill
    <3>2. todo'[c] = <<TheKill, Return(0)>>
      BY <3>1, Join11, Zenon
    <3> QED
      BY <1>1, <1>7, <2>2, <2>3, <2>5, <3>2, NotEmpty, OnlyReturnsHappen
         DEF KillPoint, GoesOn, Keeps
  <2>6. CASE env[c]["sig"] # 9
    <3>1. todo'[c] = <<>> \o <<Return(0)>>
      BY <2>1, <2>3, <2>4, <2>6
    <3>2. todo'[c] = <<Return(0)>>
      BY <3>1
    <3> QED
      BY <1>1, <1>7, <2>2, <2>3, <2>6, <3>2, NotEmpty, OnlyReturnsHappen
         DEF KillPoint, GoesOn, Keeps
  <2> QED
    BY <2>5, <2>6
<1>8. CASE /\ todo[c] = <<TheKill, Return(0)>>
           /\ env[c]["ctx.sig"] = 9 /\ env[c]["pid"] = env[c]["ctx.pid"]
  <2>1. Head(todo[c]) = TheKill /\ Tail(todo[c]) = <<Return(0)>>
    BY <1>8
  <2>2. /\ Becomes(c, Tail(todo[c]), env[c], result[c])
        /\ maps' = [maps EXCEPT !["ForceKills"] =
                       Update(maps["ForceKills"], c, Value(c, V("pid")), Value(c, I(1)),
                              "BPF_NOEXIST")]
        /\ UNCHANGED happened
    BY <2>1, OfStore DEF TheKill
  <2> QED
    BY <1>1, <1>8, <2>1, <2>2, ValueOf, NotEmpty DEF StoresKill, Kills, Keeps
<1>9. CASE /\ todo[c] = <<Return(0)>>
           /\ env[c]["ctx.sig"] = 9 => env[c]["ctx.pid"] \in Stored(Kills) \/ Full(Kills)
  <2>1. Head(todo[c]) = Return(0)
    BY <1>9
  <2> QED
    BY <1>1, <1>9, <2>1, OfReturn DEF IsOver
<1> QED
  BY <1>1, <1>5, <1>6, <1>7, <1>8, <1>9, Zenon DEF KillPoint

LEMMA KillsInvIsEnough ==
  (program = "ForceKill" => KillsInv) => KillsAreKept
  BY DEF KillsInv, KillsAreKept, Kills, Dying, Sig, Pid

(* A map that has only got more keys serves a CPU no worse. *)
LEMMA KillPointStays ==
  ASSUME NEW q, NEW e, NEW m, NEW n, KillPoint(q, e, m),
         Stored(m) \subseteq Stored(n), Full(m) => Full(n)
  PROVE  KillPoint(q, e, n)
  BY DEF KillPoint

LEMMA ReturnIsPoint ==
  ASSUME NEW e, NEW m, SaysKill(e), e["ctx.pid"] \in Stored(m) \/ Full(m)
  PROVE  KillPoint(<<Return(0)>>, e, m)
  BY DEF KillPoint

LEMMA KillsInit ==
  Init /\ program = "ForceKill" => KillsInv
<1> SUFFICES ASSUME Init, program = "ForceKill"  PROVE KillsInv
  OBVIOUS
<1>1. maps = [ForceKills |-> Hash]
  BY DEF Init, Examples, Printing, Example
<1>2. "ForceKills" \in DOMAIN maps /\ Kills = NewHash(HASH_ENTRIES)
  BY <1>1 DEF Kills, Hash
<1>3. Kills.type = "hash" /\ Stored(Kills) = {}
  BY <1>2 DEF NewHash, Stored, Has, None
<1>4. \A c \in Cpus : todo[c] = <<>>
  BY DEF Init
<1>5. Killed = {}
  BY DEF Init, Killed
<1> QED
  BY <1>2, <1>3, <1>4, <1>5 DEF KillsInv, KillPoint

(* Nobody stores a pid and no call is over. *)
LEMMA KillsUntouched ==
  ASSUME KillsInv, maps' = maps, happened' = happened,
         \A c \in Cpus : KillPoint(todo'[c], env'[c], Kills),
         \A c \in Cpus : ~IsIdle(c) => todo'[c] # <<>> /\ Sig(c)' = Sig(c) /\ Pid(c)' = Pid(c)
  PROVE  KillsInv'
<1>1. Kills' = Kills /\ Killed' = Killed
  BY DEF Kills, Killed
<1>2. Dying \subseteq Dying'
  BY DEF Dying, IsIdle
<1> QED
  BY <1>1, <1>2 DEF KillsInv

LEMMA KillsNext ==
  ASSUME KillsAreInts, MapsInv, OneEach, program = "ForceKill", KillsInv, [NextC]_vars
  PROVE  KillsInv'
<1>1. Hook = "sys_enter_kill" /\ Examples[program].main = KillProgram
  BY ForceKillIs DEF Hook
<1>2. \A c \in Cpus : Waits(c) => todo'[c] = todo[c] /\ Sig(c)' = Sig(c) /\ Pid(c)' = Pid(c)
  BY DEF Waits, Sig, Pid
<1>3. CASE UNCHANGED vars \/ FirstKey \/ ListingStep
  <2>1. UNCHANGED <<maps, todo, env, happened>>
    BY <1>3 DEF vars, FirstKey, ListingStep, PrintEntry, NextEntry, Loader, cpu, history
  <2> QED
    BY <2>1, KillsUntouched DEF KillsInv, Sig, Pid, IsIdle
<1>4. ASSUME NEW d \in Cpus, SystemCall(d) \/ Receive(d) \/ Switch(d)  PROVE KillsInv'
  <2>1. maps' = maps /\ happened' = happened
    BY <1>4 DEF SystemCall, Receive, Switch, Begin, history
  <2>2. PICK says : IsEvent(says) /\ Begins(d, says)
    BY <1>4, EventsBegin
  <2>3. \A c \in Cpus : c # d => Waits(c)
    BY <1>4, EventsBegin
  <2>4. SaysKill(says)
    <3>1. PICK input \in Inputs["ForceKill"], t \in Callers["ForceKill"] :
            says = With(input, "pid_tgid", Process[t] * WORD + t)
      BY <1>1, <2>2 DEF IsEvent
    <3>2. SaysKill(input)
      BY DEF KillsAreInts
    <3> QED
      BY <3>1, <3>2 DEF SaysKill, With
  <2>5. IsIdle(d) /\ KillPoint(todo'[d], env'[d], Kills)
    BY <1>1, <2>2, <2>4 DEF Begins, IsIdle, KillPoint
  <2>6. \A c \in Cpus : KillPoint(todo'[c], env'[c], Kills)
    BY <2>3, <2>5 DEF Waits, KillsInv
  <2>7. \A c \in Cpus : ~IsIdle(c) => todo'[c] # <<>> /\ Sig(c)' = Sig(c) /\ Pid(c)' = Pid(c)
    BY <1>2, <2>3, <2>5 DEF IsIdle
  <2> QED
    BY <2>1, <2>6, <2>7, KillsUntouched
<1>5. ASSUME NEW d \in Cpus, Statement(d)  PROVE KillsInv'
  <2>1. \A c \in Cpus : c # d => Waits(c)
    BY <1>5, OthersWait
  <2>2. /\ SaysKill(env[d]) /\ todo[d] # <<>>
        /\ GoesOn(d) \/ StoresKill(d) \/ IsOver(d)
    BY <1>5, KillStatement DEF KillsInv
  <2>3. CASE GoesOn(d)
    <3>1. \A c \in Cpus : KillPoint(todo'[c], env'[c], Kills)
      BY <2>1, <2>3 DEF GoesOn, Waits, KillsInv
    <3>2. \A c \in Cpus : ~IsIdle(c) => todo'[c] # <<>> /\ Sig(c)' = Sig(c) /\ Pid(c)' = Pid(c)
      BY <1>2, <2>1, <2>3 DEF IsIdle, GoesOn, Keeps, Sig, Pid
    <3> QED
      BY <2>3, <3>1, <3>2, KillsUntouched DEF GoesOn, Keeps
  <2>4. CASE StoresKill(d)
    <3> DEFINE n == Update(Kills, d, Pid(d), 1, "BPF_NOEXIST")
    <3>1. Kills' = n /\ DOMAIN maps' = DOMAIN maps
      BY <2>4 DEF StoresKill, Kills, KillsInv, Pid
    <3>2. /\ n.type = "hash" /\ Stored(Kills) \subseteq Stored(n)
          /\ Stored(n) \subseteq Stored(Kills) \cup {Pid(d)}
          /\ Full(Kills) => n = Kills
          /\ Pid(d) \in Stored(n) \/ Full(n)
          /\ \A l \in Stored(n) : At(n, l) = IF l \in Stored(Kills) THEN At(Kills, l) ELSE 1
      BY <2>2, OnceOnly DEF KillsInv, MapsInv, Kills, SaysKill, Pid
    <3> HIDE DEF n
    <3>3. ASSUME NEW c \in Cpus  PROVE KillPoint(todo'[c], env'[c], n)
      <4>1. CASE c = d
        BY <2>2, <2>4, <3>2, <4>1, ReturnIsPoint DEF StoresKill, Keeps, Pid
      <4>2. CASE c # d
        BY <2>1, <3>2, <4>2, KillPointStays DEF Waits, KillsInv
      <4> QED
        BY <4>1, <4>2
    <3>4. Dying \subseteq Dying' /\ Pid(d) \in Dying
      BY <1>2, <2>1, <2>2, <2>4 DEF Dying, IsIdle, StoresKill, Keeps, Sig, Pid
    <3>5. Killed' = Killed
      BY <2>4 DEF StoresKill, Keeps, Killed
    <3>6. /\ Stored(Kills) \subseteq Killed \cup Dying
          /\ Killed \subseteq Stored(Kills) \/ Full(Kills)
          /\ \A k \in Stored(Kills) : At(Kills, k) = 1
          /\ "ForceKills" \in DOMAIN maps
      BY DEF KillsInv
    <3>7. Stored(n) \subseteq Killed \cup Dying'
      BY <3>2, <3>4, <3>6
    <3>8. Killed \subseteq Stored(n) \/ Full(n)
      BY <3>2, <3>6
    <3>9. \A k \in Stored(n) : At(n, k) = 1
      BY <3>2, <3>6
    <3> QED
      BY <3>1, <3>2, <3>3, <3>5, <3>6, <3>7, <3>8, <3>9 DEF KillsInv
  <2>5. CASE IsOver(d)
    <3>1. Kills' = Kills /\ maps' = maps
      BY <2>5 DEF IsOver, Kills
    <3>2. \A c \in Cpus : KillPoint(todo'[c], env'[c], Kills)
      BY <2>1, <2>5 DEF IsOver, Waits, KillsInv, KillPoint
    <3>3. Subject(d) = <<Pid(d), Sig(d)>>
      BY <1>1 DEF Subject, Pid, Sig
    <3>4. DOMAIN happened' = DOMAIN happened \cup {<<Pid(d), Sig(d)>>}
      BY <2>5, <3>3 DEF IsOver, With
    <3>5. Killed' = IF Sig(d) = 9 THEN Killed \cup {Pid(d)} ELSE Killed
      <4> DEFINE one == <<Pid(d), Sig(d)>>
                 K(S) == {e[1] : e \in {x \in S : x[2] = 9}}
      <4>1. one[1] = Pid(d) /\ one[2] = Sig(d)
        OBVIOUS
      <4> HIDE DEF one
      <4>2. \A S : K(S \cup {one}) = IF Sig(d) = 9 THEN K(S) \cup {Pid(d)} ELSE K(S)
        BY <4>1
      <4> QED
        BY <3>4, <4>2 DEF Killed, one
    <3>6. Dying \subseteq Dying' \cup (IF Sig(d) = 9 THEN {Pid(d)} ELSE {})
      BY <1>2, <2>1 DEF Dying, IsIdle
    <3>7. Sig(d) = 9 => Pid(d) \in Stored(Kills) \/ Full(Kills)
      BY <2>5 DEF IsOver, Sig, Pid
    <3>8. /\ Stored(Kills) \subseteq Killed' \cup Dying'
          /\ Killed' \subseteq Stored(Kills) \/ Full(Kills)
      BY <3>5, <3>6, <3>7 DEF KillsInv
    <3> QED
      BY <3>1, <3>2, <3>8 DEF KillsInv
  <2> QED
    BY <2>2, <2>3, <2>4, <2>5
<1> QED
  BY <1>3, <1>4, <1>5 DEF NextC

(***************************************************************************)
(* Whatever the CPUs do at once, a pid that was sent SIGKILL is in         *)
(* force_kill's map for ever, but for one that found it full, and none is  *)
(* that was not.                                                           *)
(***************************************************************************)
THEOREM KillsStayKept ==
  ASSUME KillsAreInts
  PROVE  SpecC => []KillsAreKept
<1> DEFINE Inv == /\ MapsInv /\ OneEach
                  /\ program = "ForceKill" => KillsInv
<1>1. Init => Inv
  BY InitMaps, InitOneEach, KillsInit
<1>2. Inv /\ [NextC]_vars => Inv'
  BY NextMaps, NextOneEach, KillsNext
<1>3. Inv => KillsAreKept
  BY KillsInvIsEnough
<1> QED
  BY <1>1, <1>2, <1>3, PTL DEF SpecC

-----------------------------------------------------------------------------
(*************************************************************************)
(* force_kill: a listing under kills                                     *)
(*************************************************************************)

(* A listing goes through every key of m, and through none twice. *)
Enumerates(m) ==
  /\ m.order \in Seq(Keys)
  /\ \A i, j \in 1 .. Len(m.order) : m.order[i] = m.order[j] => i = j
  /\ \A k \in Keys : k \in Stored(m) <=> \E i \in 1 .. Len(m.order) : m.order[i] = k

(* r is q with k after the first n. *)
Inserted(q, r, k, n) ==
  /\ r \in Seq(Keys) /\ Len(r) = Len(q) + 1 /\ r[n + 1] = k
  /\ \A i \in 1 .. n : r[i] = q[i]
  /\ \A i \in n + 1 .. Len(q) : r[i + 1] = q[i]

LEMMA PlacesAreFinite ==
  ASSUME NEW z \in Nat
  PROVE  IsFiniteSet(1 .. z) /\ Cardinality(1 .. z) = z
<1>1. 1 \in Int /\ z \in Int
  OBVIOUS
<1>2. IsFiniteSet(1 .. z) /\ Cardinality(1 .. z) = IF 1 > z THEN 0 ELSE z - 1 + 1
  BY <1>1, FS_Interval, Zenon
<1> QED
  BY <1>2

(* Putting a key at the head of its bucket leaves the others in their order. *)
LEMMA AtTheHeadInserts ==
  ASSUME NEW q \in Seq(Keys), NEW k \in Keys
  PROVE  \E n \in 0 .. Len(q) : Inserted(q, AtTheHead(q, k), k, n)
<1> DEFINE lower == {i \in DOMAIN q : Bucket(q[i]) < Bucket(k)}
           n == Cardinality(lower)
           left == SubSeq(q, 1, n)
           right == SubSeq(q, n + 1, Len(q))
           r == AtTheHead(q, k)
<1>1. n \in 0 .. Len(q)
  <2>1. lower \subseteq 1 .. Len(q) /\ Len(q) \in Nat
    OBVIOUS
  <2> HIDE DEF lower
  <2>2. IsFiniteSet(1 .. Len(q)) /\ Cardinality(1 .. Len(q)) = Len(q)
    BY <2>1, PlacesAreFinite, Zenon
  <2>3. IsFiniteSet(lower) /\ n <= Len(q)
    BY <2>1, <2>2, FS_Subset
  <2>4. n \in Nat
    BY <2>3, FS_CardinalityType
  <2> QED
    BY <2>1, <2>3, <2>4
<1>2. r = left \o <<k>> \o right
  BY DEF AtTheHead
<1> HIDE DEF n, r
<1>3. /\ left \in Seq(Keys) /\ Len(left) = n /\ \A i \in 1 .. n : left[i] = q[i]
  BY <1>1
<1>4. /\ right \in Seq(Keys) /\ Len(right) = Len(q) - n
      /\ \A i \in 1 .. Len(q) - n : right[i] = q[n + i]
  BY <1>1
<1> HIDE DEF left, right
<1>5. /\ left \o <<k>> \in Seq(Keys) /\ Len(left \o <<k>>) = n + 1
      /\ (left \o <<k>>)[n + 1] = k /\ \A i \in 1 .. n : (left \o <<k>>)[i] = q[i]
  BY <1>1, <1>3
<1> DEFINE some == left \o <<k>>
<1> HIDE DEF some
<1>6. /\ some \in Seq(Keys) /\ Len(some) = n + 1 /\ some[n + 1] = k
      /\ \A i \in 1 .. n : some[i] = q[i]
  BY <1>5 DEF some
<1>7. r = some \o right
  BY <1>2 DEF some
<1>8. r \in Seq(Keys) /\ Len(r) = Len(q) + 1 /\ r[n + 1] = k /\ \A i \in 1 .. n : r[i] = q[i]
  BY <1>1, <1>4, <1>6, <1>7
<1>9. ASSUME NEW i \in n + 1 .. Len(q)  PROVE r[i + 1] = q[i]
  <2>1. i - n \in 1 .. Len(q) - n /\ n + (i - n) = i /\ i + 1 = (n + 1) + (i - n)
    <3>1. Len(q) \in Nat /\ n \in Int /\ i \in Int /\ n + 1 <= i /\ i <= Len(q)
      BY <1>1
    <3> HIDE DEF lower
    <3> QED
      BY <3>1
  <2>2. r[i + 1] = right[i - n]
    BY <1>1, <1>4, <1>6, <1>7, <2>1
  <2> QED
    BY <1>4, <2>1, <2>2
<1> QED
  BY <1>1, <1>8, <1>9 DEF Inserted, r

LEMMA IntoFreeOrders ==
  ASSUME NEW m, MapInv(m), NEW k, NEW v
  PROVE  IntoFree(m, k, v).order = AtTheHead(m.order, k)
<1> DEFINE used == Used(m) \cup {m.spare[c] : c \in Cpus}
           free == CHOOSE e \in DOMAIN m.content : e \notin used
           n == IntoFree(m, k, v)
<1>1. n = [m EXCEPT !.content = [m.content EXCEPT ![free] = v],
                    !.element = [m.element EXCEPT ![k] = free],
                    !.order = AtTheHead(m.order, k)]
  BY DEF IntoFree
<1>2. DOMAIN m = {"type", "max", "element", "content", "spare", "order"}
  BY DEF MapInv, WellFormed
<1> HIDE DEF free, n
<1>3. n.order = AtTheHead(m.order, k)
  BY <1>1, <1>2
<1> QED
  BY <1>3 DEF n

(* Every place of r is k's or a place of q, moved by one if k is before it. *)
LEMMA PlacesOf ==
  ASSUME NEW q \in Seq(Keys), NEW r, NEW k, NEW n \in 0 .. Len(q), Inserted(q, r, k, n),
         NEW j \in 1 .. Len(r)
  PROVE  \/ j = n + 1 /\ r[j] = k
         \/ j \in 1 .. n /\ j \in 1 .. Len(q) /\ r[j] = q[j]
         \/ j > n + 1 /\ j - 1 \in 1 .. Len(q) /\ r[j] = q[j - 1]
<1>1. Len(q) \in Nat /\ Len(r) = Len(q) + 1 /\ n \in Nat /\ n <= Len(q)
  BY DEF Inserted
<1>2. CASE j = n + 1
  BY <1>2 DEF Inserted
<1>3. CASE j <= n
  BY <1>1, <1>3 DEF Inserted
<1>4. CASE j > n + 1
  <2>1. j - 1 \in n + 1 .. Len(q) /\ (j - 1) + 1 = j /\ j - 1 \in 1 .. Len(q)
    BY <1>1, <1>4
  <2>2. r[(j - 1) + 1] = q[j - 1]
    BY <2>1 DEF Inserted
  <2> QED
    BY <1>4, <2>1, <2>2
<1> QED
  BY <1>1, <1>2, <1>3, <1>4

LEMMA InsertedEnumerates ==
  ASSUME NEW m, Enumerates(m), NEW o, NEW k \in Keys, k \notin Stored(m),
         Stored(o) = Stored(m) \cup {k},
         NEW n \in 0 .. Len(m.order), Inserted(m.order, o.order, k, n)
  PROVE  Enumerates(o)
<1> DEFINE q == m.order
           r == o.order
<1>1. /\ q \in Seq(Keys) /\ Len(q) \in Nat /\ r \in Seq(Keys) /\ Len(r) = Len(q) + 1
      /\ n \in Nat /\ n <= Len(q)
  BY DEF Enumerates, Inserted
<1>2. \A i \in 1 .. Len(q) : q[i] # k
  BY DEF Enumerates
<1>3. \A j \in 1 .. Len(r) :
         \/ j = n + 1 /\ r[j] = k
         \/ j \in 1 .. n /\ j \in 1 .. Len(q) /\ r[j] = q[j]
         \/ j > n + 1 /\ j - 1 \in 1 .. Len(q) /\ r[j] = q[j - 1]
  <2>1. q \in Seq(Keys) /\ Inserted(q, r, k, n) /\ n \in 0 .. Len(q)
    BY <1>1
  <2> HIDE DEF q, r
  <2> QED
    BY <2>1, PlacesOf
<1>4. ASSUME NEW i \in 1 .. Len(r), NEW j \in 1 .. Len(r), r[i] = r[j]  PROVE i = j
  <2>1. \A a, b \in 1 .. Len(q) : q[a] = q[b] => a = b
    BY DEF Enumerates
  <2> HIDE DEF q, r
  <2>2. \/ i = n + 1 /\ r[i] = k
        \/ i \in 1 .. n /\ i \in 1 .. Len(q) /\ r[i] = q[i]
        \/ i > n + 1 /\ i - 1 \in 1 .. Len(q) /\ r[i] = q[i - 1]
    BY <1>3
  <2>3. \/ j = n + 1 /\ r[j] = k
        \/ j \in 1 .. n /\ j \in 1 .. Len(q) /\ r[j] = q[j]
        \/ j > n + 1 /\ j - 1 \in 1 .. Len(q) /\ r[j] = q[j - 1]
    BY <1>3
  <2> QED
    BY <1>1, <1>2, <1>4, <2>1, <2>2, <2>3
<1>5. ASSUME NEW l \in Keys, l \in Stored(o)  PROVE \E i \in 1 .. Len(r) : r[i] = l
  <2>1. CASE l = k
    <3>1. n + 1 \in 1 .. Len(r)
      BY <1>1
    <3>2. r[n + 1] = l
      BY <2>1 DEF Inserted
    <3> QED
      BY <3>1, <3>2
  <2>2. CASE l # k
    <3>1. PICK i \in 1 .. Len(q) : q[i] = l
      BY <2>2, <1>5 DEF Enumerates
    <3>2. CASE i <= n
      <4>1. i \in 1 .. n /\ i \in 1 .. Len(r)
        BY <1>1, <3>2
      <4>2. r[i] = q[i]
        BY <4>1 DEF Inserted
      <4> QED
        BY <3>1, <4>1, <4>2
    <3>3. CASE i > n
      <4>1. i \in n + 1 .. Len(q) /\ i + 1 \in 1 .. Len(r)
        BY <1>1, <3>3
      <4>2. r[i + 1] = q[i]
        BY <4>1 DEF Inserted
      <4> QED
        BY <3>1, <4>1, <4>2
    <3> QED
      BY <1>1, <3>1, <3>2, <3>3
  <2> QED
    BY <2>1, <2>2
<1>6. ASSUME NEW l \in Keys, NEW i \in 1 .. Len(r), r[i] = l  PROVE l \in Stored(o)
  <2>1. \A a \in 1 .. Len(q) : q[a] \in Stored(m)
    <3>1. \A a \in 1 .. Len(q) : q[a] \in Keys
      BY <1>1
    <3> QED
      BY <3>1 DEF Enumerates
  <2>2. \/ i = n + 1 /\ r[i] = k
        \/ i \in 1 .. n /\ i \in 1 .. Len(q) /\ r[i] = q[i]
        \/ i > n + 1 /\ i - 1 \in 1 .. Len(q) /\ r[i] = q[i - 1]
    BY <1>3
  <2> QED
    BY <1>6, <2>1, <2>2
<1> QED
  BY <1>1, <1>4, <1>5, <1>6 DEF Enumerates

-----------------------------------------------------------------------------
(***************************************************************************)
(* The listing l has been through the first n keys of q: what it has shown *)
(* is among them, and what was there when it began is shown if it is.      *)
(***************************************************************************)
BeenThrough(l, q, n) ==
  \A j \in 1 .. Len(q) :
    /\ q[j] \in l.shown => j <= n
    /\ q[j] \in l.began /\ j <= n => q[j] \in l.shown

(* where the key is that l is at *)
IsAt(l, q, n) ==
  \/ l.at = "lookup" /\ n + 1 \in 1 .. Len(q) /\ q[n + 1] = l.key
  \/ l.at = "next" /\ n \in 1 .. Len(q) /\ q[n] = l.key

ListingInv(l, m) ==
  /\ l = [at |-> l.at, key |-> l.key, shown |-> l.shown, twice |-> l.twice, began |-> l.began]
  /\ l.began \subseteq Stored(m) /\ l.shown \subseteq Stored(m) /\ ~l.twice
  /\ \/ l.at = "asleep" /\ l.shown = {}
     \/ \E n \in Nat : IsAt(l, m.order, n) /\ BeenThrough(l, m.order, n)
     \/ l.at = "ended" /\ l.began \subseteq l.shown

(***************************************************************************)
(* A new key, wherever it comes, before the one the listing is at or       *)
(* after, leaves the listing's keys in their order.                        *)
(***************************************************************************)
LEMMA NewKeyUnderListing ==
  ASSUME NEW m, Enumerates(m), NEW o, NEW k \in Keys, k \notin Stored(m),
         Stored(o) = Stored(m) \cup {k},
         NEW n \in 0 .. Len(m.order), Inserted(m.order, o.order, k, n),
         NEW l, ListingInv(l, m)
  PROVE  ListingInv(l, o)
<1> DEFINE q == m.order
           r == o.order
<1>1. /\ q \in Seq(Keys) /\ Len(q) \in Nat /\ Len(r) = Len(q) + 1
      /\ n \in Nat /\ n <= Len(q)
  BY DEF Enumerates, Inserted
<1>2. k \notin l.shown /\ k \notin l.began
  BY DEF ListingInv
<1>3. ASSUME NEW a \in Nat, IsAt(l, q, a), BeenThrough(l, q, a)
      PROVE  \E b \in Nat : IsAt(l, r, b) /\ BeenThrough(l, r, b)
  <2> DEFINE here == IF l.at = "lookup" THEN a + 1 ELSE a
             b == IF here <= n THEN a ELSE a + 1
  <2>1. /\ here \in 1 .. Len(q) /\ q[here] = l.key
        /\ \/ l.at = "lookup" /\ here = a + 1
           \/ l.at = "next" /\ here = a
    BY <1>3 DEF IsAt
  <2> HIDE DEF here
  <2>2. CASE here <= n
    <3>1. here \in 1 .. n /\ here \in 1 .. Len(r) /\ r[here] = q[here]
      BY <1>1, <2>1, <2>2 DEF Inserted
    <3>2. IsAt(l, r, a)
      BY <2>1, <3>1 DEF IsAt
    <3>3. ASSUME NEW j \in 1 .. Len(r)
          PROVE  /\ r[j] \in l.shown => j <= a
                 /\ r[j] \in l.began /\ j <= a => r[j] \in l.shown
      <4>1. \/ j = n + 1 /\ r[j] = k
            \/ j \in 1 .. n /\ j \in 1 .. Len(q) /\ r[j] = q[j]
            \/ j > n + 1 /\ j - 1 \in 1 .. Len(q) /\ r[j] = q[j - 1]
        <5>1. q \in Seq(Keys) /\ Inserted(q, r, k, n) /\ n \in 0 .. Len(q) /\ j \in 1 .. Len(r)
          BY <1>1
        <5> HIDE DEF q, r
        <5> QED
          BY <5>1, PlacesOf
      <4>2. \A i \in 1 .. Len(q) : /\ q[i] \in l.shown => i <= a
                                   /\ q[i] \in l.began /\ i <= a => q[i] \in l.shown
        BY <1>3 DEF BeenThrough
      <4> HIDE DEF q, r
      <4>3. a <= n
        BY <1>1, <2>1, <2>2
      <4>4. CASE j > n + 1
        <5>1. ~(j - 1 <= a) /\ ~(j <= a)
          BY <1>1, <4>3, <4>4
        <5> QED
          BY <1>1, <4>1, <4>2, <4>4, <5>1
      <4> QED
        BY <1>1, <1>2, <4>1, <4>2, <4>4
    <3> QED
      BY <3>2, <3>3 DEF BeenThrough
  <2>3. CASE here > n
    <3>1. here \in n + 1 .. Len(q) /\ here + 1 \in 1 .. Len(r)
      BY <1>1, <2>1, <2>3
    <3>2. r[here + 1] = q[here]
      BY <3>1 DEF Inserted
    <3>3. IsAt(l, r, a + 1)
      BY <1>1, <2>1, <3>1, <3>2 DEF IsAt
    <3>4. ASSUME NEW j \in 1 .. Len(r)
          PROVE  /\ r[j] \in l.shown => j <= a + 1
                 /\ r[j] \in l.began /\ j <= a + 1 => r[j] \in l.shown
      <4>1. \/ j = n + 1 /\ r[j] = k
            \/ j \in 1 .. n /\ j \in 1 .. Len(q) /\ r[j] = q[j]
            \/ j > n + 1 /\ j - 1 \in 1 .. Len(q) /\ r[j] = q[j - 1]
        <5>1. q \in Seq(Keys) /\ Inserted(q, r, k, n) /\ n \in 0 .. Len(q) /\ j \in 1 .. Len(r)
          BY <1>1
        <5> HIDE DEF q, r
        <5> QED
          BY <5>1, PlacesOf
      <4>2. \A i \in 1 .. Len(q) : /\ q[i] \in l.shown => i <= a
                                   /\ q[i] \in l.began /\ i <= a => q[i] \in l.shown
        BY <1>3 DEF BeenThrough
      <4> HIDE DEF q, r
      <4>3. n <= a
        BY <1>1, <2>1, <2>3
      <4>4. CASE j \in 1 .. n /\ j \in 1 .. Len(q) /\ r[j] = q[j]
        <5>1. j <= a /\ j <= a + 1
          BY <1>1, <4>3, <4>4
        <5> QED
          BY <4>2, <4>4, <5>1
      <4>5. CASE j > n + 1 /\ j - 1 \in 1 .. Len(q) /\ r[j] = q[j - 1]
        <5>1. j - 1 <= a <=> j <= a + 1
          BY <1>1
        <5> QED
          BY <4>2, <4>5, <5>1
      <4> QED
        BY <1>2, <4>1, <4>4, <4>5
    <3> QED
      BY <3>3, <3>4 DEF BeenThrough
  <2> QED
    BY <1>1, <2>1, <2>2, <2>3
<1> QED
  BY <1>3 DEF ListingInv

(* The first key, if there is any. *)
LEMMA FirstOfListing ==
  ASSUME NEW m, Enumerates(m), NEW l, ListingInv(l, m), l.at = "asleep"
  PROVE  ListingInv(Advance([l EXCEPT !.began = Stored(m)], m.order), m)
<1> DEFINE q == m.order
           a == [l EXCEPT !.began = Stored(m)]
           x == Advance(a, q)
<1>1. q \in Seq(Keys) /\ Len(q) \in Nat
  BY DEF Enumerates
<1>2. /\ l = [at |-> l.at, key |-> l.key, shown |-> l.shown, twice |-> l.twice,
              began |-> l.began]
      /\ l.shown = {} /\ ~l.twice
  BY DEF ListingInv, IsAt
<1>3. a = [at |-> l.at, key |-> l.key, shown |-> {}, twice |-> l.twice, began |-> Stored(m)]
  BY <1>2
<1> HIDE DEF a
<1>4. CASE q = <<>>
  <2>1. x = [at |-> "ended", key |-> l.key, shown |-> {}, twice |-> l.twice,
             began |-> Stored(m)]
    BY <1>3, <1>4 DEF Advance
  <2>2. Stored(m) = {}
    <3>1. Stored(m) \subseteq Keys /\ 1 .. Len(q) = {}
      BY <1>4 DEF Stored
    <3> QED
      BY <3>1 DEF Enumerates
  <2> HIDE DEF x
  <2> QED
    BY <1>2, <2>1, <2>2 DEF ListingInv, x, a
<1>5. CASE q # <<>>
  <2>1. x = [at |-> "lookup", key |-> Head(q), shown |-> {}, twice |-> l.twice,
             began |-> Stored(m)]
    BY <1>3, <1>5 DEF Advance
  <2>2. 0 + 1 \in 1 .. Len(q) /\ q[0 + 1] = Head(q)
    BY <1>1, <1>5
  <2> HIDE DEF x
  <2>3. IsAt(x, q, 0) /\ BeenThrough(x, q, 0)
    <3>1. IsAt(x, q, 0)
      BY <2>1, <2>2 DEF IsAt
    <3>2. \A j \in 1 .. Len(q) : ~(j <= 0) /\ q[j] \notin x.shown
      BY <1>1, <2>1
    <3> QED
      BY <3>1, <3>2 DEF BeenThrough
  <2> QED
    BY <1>2, <2>1, <2>3 DEF ListingInv, x, a
<1> QED
  BY <1>4, <1>5

(* A key that is looked up is there, and was not shown before. *)
LEMMA EntryOfListing ==
  ASSUME NEW m, Enumerates(m), NEW l, ListingInv(l, m), l.at = "lookup"
  PROVE  /\ Has(m, l.key)
         /\ ListingInv([l EXCEPT !.at = "next", !.shown = @ \cup {l.key},
                                 !.twice = @ \/ l.key \in l.shown], m)
<1> DEFINE q == m.order
           x == [l EXCEPT !.at = "next", !.shown = @ \cup {l.key},
                          !.twice = @ \/ l.key \in l.shown]
<1>1. q \in Seq(Keys) /\ Len(q) \in Nat
  BY DEF Enumerates
<1>2. PICK n \in Nat : IsAt(l, q, n) /\ BeenThrough(l, q, n)
  BY DEF ListingInv
<1>3. n + 1 \in 1 .. Len(q) /\ q[n + 1] = l.key
  BY <1>2 DEF IsAt
<1>4. l.key \in Keys /\ l.key \in Stored(m)
  <2>1. l.key \in Keys
    BY <1>1, <1>3
  <2> QED
    BY <1>3, <2>1 DEF Enumerates
<1>5. l.key \notin l.shown
  BY <1>2, <1>3 DEF BeenThrough
<1>6. x = [at |-> "next", key |-> l.key, shown |-> l.shown \cup {l.key},
           twice |-> l.twice \/ l.key \in l.shown, began |-> l.began]
  <2>1. DOMAIN l = {"at", "key", "shown", "twice", "began"}
    BY DEF ListingInv
  <2> DEFINE b == l.twice \/ l.key \in l.shown
  <2> HIDE DEF b
  <2>2. x = [l EXCEPT !.at = "next", !.shown = l.shown \cup {l.key}, !.twice = b]
    BY Zenon DEF b
  <2> HIDE DEF x
  <2>3. x = [at |-> "next", key |-> l.key, shown |-> l.shown \cup {l.key},
             twice |-> b, began |-> l.began]
    BY <2>1, <2>2 DEF ListingInv
  <2> QED
    BY <2>3, Zenon DEF b
<1> HIDE DEF x
<1>7. IsAt(x, q, n + 1)
  BY <1>3, <1>6 DEF IsAt
<1>8. BeenThrough(x, q, n + 1)
  <2> SUFFICES ASSUME NEW j \in 1 .. Len(q)
               PROVE  /\ q[j] \in x.shown => j <= n + 1
                      /\ q[j] \in x.began /\ j <= n + 1 => q[j] \in x.shown
    BY DEF BeenThrough
  <2>1. /\ q[j] \in l.shown => j <= n
        /\ q[j] \in l.began /\ j <= n => q[j] \in l.shown
    BY <1>2 DEF BeenThrough
  <2>2. q[j] = l.key <=> j = n + 1
    BY <1>3 DEF Enumerates
  <2>3. x.shown = l.shown \cup {l.key} /\ x.began = l.began
    BY <1>6
  <2> HIDE DEF q
  <2> QED
    BY <2>1, <2>2, <2>3
<1>9. /\ x.began \subseteq Stored(m) /\ x.shown \subseteq Stored(m) /\ ~x.twice
  BY <1>4, <1>5, <1>6 DEF ListingInv
<1>10. ListingInv(x, m)
  <2>1. x = [at |-> x.at, key |-> x.key, shown |-> x.shown, twice |-> x.twice,
             began |-> x.began]
    BY <1>6
  <2>2. n + 1 \in Nat
    OBVIOUS
  <2> QED
    BY <1>7, <1>8, <1>9, <2>1, <2>2 DEF ListingInv
<1> QED
  BY <1>4, <1>10 DEF Stored, x

(* The key after it, or the end, when all that was there is shown. *)
LEMMA NextOfListing ==
  ASSUME NEW m, Enumerates(m), NEW l, ListingInv(l, m), l.at = "next"
  PROVE  ListingInv(Advance(l, KeysAfter(m, l.key)), m)
<1> DEFINE q == m.order
           rest == KeysAfter(m, l.key)
           x == Advance(l, rest)
<1>1. q \in Seq(Keys) /\ Len(q) \in Nat
  BY DEF Enumerates
<1>2. PICK n \in Nat : IsAt(l, q, n) /\ BeenThrough(l, q, n)
  BY DEF ListingInv
<1>3. n \in 1 .. Len(q) /\ q[n] = l.key
  BY <1>2 DEF IsAt
<1>4. {i \in DOMAIN q : q[i] = l.key} = {n}
  <2>1. \A i \in 1 .. Len(q) : q[i] = q[n] => i = n
    BY <1>3 DEF Enumerates
  <2>2. DOMAIN q = 1 .. Len(q)
    BY <1>1
  <2> HIDE DEF q
  <2> QED
    BY <1>3, <2>1, <2>2
<1>5. rest = SubSeq(q, 1 + n, Len(q))
  <2>1. (CHOOSE i \in {n} : TRUE) = n
    OBVIOUS
  <2> QED
    BY <1>4, <2>1 DEF KeysAfter
<1> HIDE DEF rest
<1>6. CASE n = Len(q)
  <2>1. rest = <<>>
    BY <1>1, <1>5, <1>6
  <2>2. x = [at |-> "ended", key |-> l.key, shown |-> l.shown, twice |-> l.twice,
             began |-> l.began]
    BY <2>1 DEF Advance, ListingInv
  <2>3. l.began \subseteq l.shown
    <3> SUFFICES ASSUME NEW k \in l.began  PROVE k \in l.shown
      OBVIOUS
    <3>1. k \in Stored(m) /\ k \in Keys
      BY DEF ListingInv, Stored
    <3>2. PICK j \in 1 .. Len(q) : q[j] = k
      BY <3>1 DEF Enumerates
    <3>3. j <= n
      BY <1>6
    <3> QED
      BY <1>2, <3>2, <3>3 DEF BeenThrough
  <2> HIDE DEF x
  <2>4. x.began \subseteq Stored(m) /\ x.shown \subseteq Stored(m) /\ ~x.twice
    BY <2>2 DEF ListingInv
  <2>5. x = [at |-> x.at, key |-> x.key, shown |-> x.shown, twice |-> x.twice,
             began |-> x.began]
    BY <2>2
  <2>6. x.at = "ended" /\ x.began \subseteq x.shown
    BY <2>2, <2>3
  <2>7. ListingInv(x, m)
    BY <2>4, <2>5, <2>6 DEF ListingInv
  <2> QED
    BY <2>7 DEF x, rest
<1>7. CASE n # Len(q)
  <2>1. n + 1 \in 1 .. Len(q) /\ rest # <<>> /\ Head(rest) = q[n + 1]
    BY <1>1, <1>3, <1>5, <1>7
  <2>2. x = [at |-> "lookup", key |-> q[n + 1], shown |-> l.shown, twice |-> l.twice,
             began |-> l.began]
    BY <2>1 DEF Advance, ListingInv
  <2> HIDE DEF x
  <2>3. x.began \subseteq Stored(m) /\ x.shown \subseteq Stored(m) /\ ~x.twice
    BY <2>2 DEF ListingInv
  <2>4. x = [at |-> x.at, key |-> x.key, shown |-> x.shown, twice |-> x.twice,
             began |-> x.began]
    BY <2>2
  <2>5. IsAt(x, q, n) /\ BeenThrough(x, q, n)
    BY <1>2, <2>1, <2>2 DEF IsAt, BeenThrough
  <2>6. ListingInv(x, m)
    BY <2>3, <2>4, <2>5 DEF ListingInv
  <2> QED
    BY <2>6 DEF x, rest
<1> QED
  BY <1>6, <1>7

-----------------------------------------------------------------------------
ListsKills == Enumerates(Kills) /\ ListingInv(listing, Kills)

LEMMA ForceKillPrints ==
  Examples["ForceKill"].printed = "ForceKills"
<1>1. Examples["ForceKill"] =
        Printing("ForceKills", Example("sys_enter_kill", ForceKill, [ForceKills |-> Hash]))
  BY DEF Examples
<1> QED
  BY <1>1 DEF Printing, Example

LEMMA ListsKillsIsEnough ==
  (program = "ForceKill" => ListsKills) => KillsListed
<1> SUFFICES ASSUME program = "ForceKill", ListsKills, listing.at = "ended"
             PROVE  /\ ~listing.twice
                    /\ listing.began \subseteq listing.shown
                    /\ listing.shown \subseteq Stored(Printed)
  BY DEF KillsListed
<1>1. Printed = Kills
  BY ForceKillPrints DEF Printed, Kills
<1> QED
  BY <1>1 DEF ListsKills, ListingInv, IsAt

LEMMA ListsKillsInit ==
  Init /\ program = "ForceKill" => ListsKills
<1> SUFFICES ASSUME Init, program = "ForceKill"  PROVE ListsKills
  OBVIOUS
<1>1. maps = [ForceKills |-> Hash]
  BY DEF Init, Examples, Printing, Example
<1>2. Kills = NewHash(HASH_ENTRIES)
  BY <1>1 DEF Kills, Hash
<1>3. Kills.order = <<>> /\ Stored(Kills) = {}
  BY <1>2 DEF NewHash, Stored, Has, None
<1>4. Enumerates(Kills)
  BY <1>3 DEF Enumerates
<1>5. listing = NotListing
  BY DEF Init
<1> QED
  BY <1>4, <1>5 DEF ListsKills, ListingInv, NotListing

(* No statement touches the loader. *)
LEMMA StatementsLeaveListing ==
  ASSUME NEW c \in Cpus, Statement(c)
  PROVE  listing' = listing
<1> USE DEF Elsewhere
<1>1. CASE SetInt(c) \/ ComputeInt(c) \/ CheckedOperation(c) \/ ReadClock(c)
  BY <1>1 DEF SetInt, ComputeInt, CheckedOperation, ReadClock
<1>2. CASE LookupElem(c) \/ Follow(c) \/ StoreElem(c) \/ Branch(c)
  BY <1>2 DEF LookupElem, Follow, StoreElem, Branch
<1>3. CASE LoadField(c) \/ StoreField(c) \/ PrintLine(c) \/ RaiseException(c)
  BY <1>3 DEF LoadField, StoreField, PrintLine, RaiseException
<1>4. CASE ReturnFromMain(c)
  BY <1>4 DEF ReturnFromMain
<1> QED
  BY <1>1, <1>2, <1>3, <1>4 DEF Statement

(* BPF_NOEXIST moves no key: it puts a new one somewhere, or fails. *)
LEMMA StoringKeepsListing ==
  ASSUME NEW m, MapInv(m), m.type = "hash", Enumerates(m), NEW c \in Cpus, NEW k \in Keys,
         NEW v, NEW l, ListingInv(l, m)
  PROVE  LET o == Update(m, c, k, v, "BPF_NOEXIST")
         IN Enumerates(o) /\ ListingInv(l, o)
<1> DEFINE o == Update(m, c, k, v, "BPF_NOEXIST")
<1>1. CASE Has(m, k) \/ Full(m)
  <2>1. o = m
    BY <1>1 DEF Update
  <2> HIDE DEF o
  <2> QED
    BY <2>1 DEF o
<1>2. CASE ~Has(m, k) /\ ~Full(m)
  <2>1. o = IntoFree(m, k, v)
    BY <1>2 DEF Update
  <2>2. Stored(o) = Stored(m) \cup {k} /\ o.order = AtTheHead(m.order, k)
    BY <1>2, <2>1, IntoFreeStores, IntoFreeOrders
  <2>3. k \notin Stored(m)
    BY <1>2 DEF Stored
  <2> HIDE DEF o
  <2>4. PICK n \in 0 .. Len(m.order) : Inserted(m.order, o.order, k, n)
    BY <2>2, AtTheHeadInserts DEF Enumerates
  <2>5. Enumerates(o) /\ ListingInv(l, o)
    BY <2>2, <2>3, <2>4, InsertedEnumerates, NewKeyUnderListing
  <2> QED
    BY <2>5 DEF o
<1> QED
  BY <1>1, <1>2

LEMMA ListsKillsNext ==
  ASSUME MapsInv, OneEach, program = "ForceKill", KillsInv, ListsKills, [NextC]_vars
  PROVE  ListsKills'
<1>1. Printed = Kills /\ (maps' = maps => Kills' = Kills)
  BY ForceKillPrints DEF Printed, Kills
<1>2. CASE UNCHANGED vars
  BY <1>1, <1>2 DEF vars, ListsKills
<1>3. CASE FirstKey
  <2>1. /\ Kills' = Kills /\ listing.at = "asleep"
        /\ listing' = Advance([listing EXCEPT !.began = Stored(Kills)], Kills.order)
    BY <1>1, <1>3 DEF FirstKey, Loader
  <2>2. ListingInv(listing', Kills)
    BY <2>1, FirstOfListing DEF ListsKills
  <2> QED
    BY <2>1, <2>2 DEF ListsKills
<1>4. CASE PrintEntry
  <2>1. Kills' = Kills /\ listing.at = "lookup"
    BY <1>1, <1>4 DEF PrintEntry, Loader
  <2>2. /\ Has(Kills, listing.key)
        /\ ListingInv([listing EXCEPT !.at = "next", !.shown = @ \cup {listing.key},
                                      !.twice = @ \/ listing.key \in listing.shown], Kills)
    BY <2>1, EntryOfListing DEF ListsKills
  <2>3. listing' = [listing EXCEPT !.at = "next", !.shown = @ \cup {listing.key},
                                   !.twice = @ \/ listing.key \in listing.shown]
    BY <1>1, <1>4, <2>2 DEF PrintEntry
  <2> QED
    BY <2>1, <2>2, <2>3 DEF ListsKills
<1>5. CASE NextEntry
  <2>1. /\ Kills' = Kills /\ listing.at = "next"
        /\ listing' = Advance(listing, KeysAfter(Kills, listing.key))
    BY <1>1, <1>5 DEF NextEntry, Loader
  <2>2. ListingInv(listing', Kills)
    BY <2>1, NextOfListing DEF ListsKills
  <2> QED
    BY <2>1, <2>2 DEF ListsKills
<1>6. ASSUME NEW d \in Cpus, SystemCall(d) \/ Receive(d) \/ Switch(d)  PROVE ListsKills'
  BY <1>1, <1>6 DEF SystemCall, Receive, Switch, Begin, ListsKills
<1>7. ASSUME NEW d \in Cpus, Statement(d)  PROVE ListsKills'
  <2>1. listing' = listing
    BY <1>7, StatementsLeaveListing
  <2>2. SaysKill(env[d]) /\ (GoesOn(d) \/ StoresKill(d) \/ IsOver(d))
    BY <1>7, KillStatement DEF KillsInv
  <2>3. CASE GoesOn(d) \/ IsOver(d)
    BY <1>1, <2>1, <2>3 DEF GoesOn, IsOver, ListsKills
  <2>4. CASE StoresKill(d)
    <3>1. Kills' = Update(Kills, d, Pid(d), 1, "BPF_NOEXIST")
      BY <2>4 DEF StoresKill, Kills, KillsInv, Pid
    <3>2. MapInv(Kills) /\ Kills.type = "hash" /\ Pid(d) \in Keys
      BY <2>2 DEF MapsInv, KillsInv, Kills, SaysKill, Pid
    <3>3. Enumerates(Kills') /\ ListingInv(listing, Kills')
      BY <3>1, <3>2, StoringKeepsListing DEF ListsKills
    <3> QED
      BY <2>1, <3>3 DEF ListsKills
  <2> QED
    BY <2>2, <2>3, <2>4
<1> QED
  BY <1>2, <1>3, <1>4, <1>5, <1>6, <1>7 DEF NextC, ListingStep

(***************************************************************************)
(* However many kills are stored while force_kill's map is listed, on      *)
(* whatever CPUs and in whatever buckets, a listing that has ended has     *)
(* shown every pid that was there when it began, and none twice.           *)
(***************************************************************************)
THEOREM KillsAreListed ==
  ASSUME KillsAreInts
  PROVE  SpecC => []KillsListed
<1> DEFINE Inv == /\ MapsInv /\ OneEach
                  /\ program = "ForceKill" => KillsInv /\ ListsKills
<1>1. Init => Inv
  BY InitMaps, InitOneEach, KillsInit, ListsKillsInit
<1>2. Inv /\ [NextC]_vars => Inv'
  BY NextMaps, NextOneEach, KillsNext, ListsKillsNext
<1>3. Inv => KillsListed
  BY ListsKillsIsEnough
<1> QED
  BY <1>1, <1>2, <1>3, PTL DEF SpecC

-----------------------------------------------------------------------------
(*************************************************************************)
(* drop_udp                                                              *)
(*************************************************************************)

Pass == Return(XDP_PASS)

(* the two headers that a UDP header may follow *)
Ipv4 == [type |-> ETH_P_IP, nh |-> 34, field |-> "protocol", end |-> 24]
Ipv6 == [type |-> ETH_P_IPV6, nh |-> 54, field |-> "nexthdr", end |-> 21]
LoadProto == Load("h_proto", "h_proto", 14)
LoadNext(p) == Load("protocol", p.field, p.end)
LoadPort(p) == Load("port", "dest", p.nh + 4)
StorePort(p) == StorePacket("dest", p.nh + 4, I(3000))
IfRoom(p) == If(V("size"), ">=", I(p.nh + 8), <<StorePort(p)>>, <<>>)
IfPort3001(p) == If(V("port"), "==", I(3001), <<IfRoom(p)>>, <<>>)
IfPort3000(p) == If(V("port"), "==", I(3000), <<Return(XDP_DROP)>>, <<IfPort3001(p)>>)
UdpPart(p) == <<TooShort(p.nh + 8, 0), LoadPort(p), IfPort3000(p)>>
IfUdp(p) == If(V("protocol"), "==", I(IPPROTO_UDP), UdpPart(p), <<>>)
IpPart(p) == <<TooShort(p.nh, 0), LoadNext(p), IfUdp(p)>>
IfIpv6 == If(V("h_proto"), "==", I(ETH_P_IPV6), IpPart(Ipv6), <<Pass>>)
IfIpv4 == If(V("h_proto"), "==", I(ETH_P_IP), IpPart(Ipv4), <<IfIpv6>>)
UdpProgram == <<TooShort(14, XDP_ABORTED), LoadProto, IfIpv4, Pass>>

LEMMA DropUdpIs ==
  Examples["DropUdp"].main = UdpProgram /\ Examples["DropUdp"].hook = "xdp"
<1>1. ASSUME NEW p, p \in {Ipv4, Ipv6}  PROVE OfPort(p.nh) = UdpPart(p)
  <2> DEFINE cond == Cond(<<Clause(V("port"), "==", I(3000), <<Return(XDP_DROP)>>),
                            Clause(V("port"), "==", I(3001), Redirect(p.nh))>>, <<>>)
             a == TooShort(p.nh + 8, 0)
             b == LoadPort(p)
  <2>1. Redirect(p.nh) = <<IfRoom(p)>>
    BY DEF Redirect, IfRoom, StorePort
  <2>2. cond = <<IfPort3000(p)>>
    BY <2>1, CondOfTwo DEF IfPort3000, IfPort3001
  <2>3. OfPort(p.nh) = <<a, b>> \o cond
    BY DEF OfPort, LoadPort
  <2> HIDE DEF a, b, cond
  <2>4. OfPort(p.nh) = <<a, b, IfPort3000(p)>>
    BY <2>2, <2>3, Join21
  <2> QED
    BY <2>4 DEF UdpPart, a, b
<1>2. ASSUME NEW p, p \in {Ipv4, Ipv6}  PROVE OfProtocol(p.field, p.end, p.nh) = IpPart(p)
  BY <1>1, <1>2 DEF OfProtocol, IpPart, LoadNext, IfUdp
<1>3. /\ OfProtocol("protocol", 24, 34) = IpPart(Ipv4)
      /\ OfProtocol("nexthdr", 21, 54) = IpPart(Ipv6)
  <2>1. /\ Ipv4.field = "protocol" /\ Ipv4.end = 24 /\ Ipv4.nh = 34
        /\ Ipv6.field = "nexthdr" /\ Ipv6.end = 21 /\ Ipv6.nh = 54
    BY DEF Ipv4, Ipv6
  <2>2. /\ OfProtocol(Ipv4.field, Ipv4.end, Ipv4.nh) = IpPart(Ipv4)
        /\ OfProtocol(Ipv6.field, Ipv6.end, Ipv6.nh) = IpPart(Ipv6)
    BY <1>2
  <2> QED
    BY <2>1, <2>2
<1>4. Cond(<<Clause(V("h_proto"), "==", I(ETH_P_IP), OfProtocol("protocol", 24, 34)),
             Clause(V("h_proto"), "==", I(ETH_P_IPV6), OfProtocol("nexthdr", 21, 54))>>,
           <<Return(XDP_PASS)>>) = <<IfIpv4>>
  BY <1>3, CondOfTwo DEF IfIpv4, IfIpv6, Pass
<1>5. DropUdp = UdpProgram
  <2> DEFINE a == TooShort(14, XDP_ABORTED)
  <2>1. DropUdp = (<<a, LoadProto>> \o <<IfIpv4>>) \o <<Pass>>
    BY <1>4 DEF DropUdp, LoadProto, Pass
  <2> HIDE DEF a
  <2>2. <<a, LoadProto>> \o <<IfIpv4>> = <<a, LoadProto, IfIpv4>>
    BY Join21
  <2>3. <<a, LoadProto, IfIpv4>> \o <<Pass>> = <<a, LoadProto, IfIpv4, Pass>>
    BY Join31
  <2> QED
    BY <2>1, <2>2, <2>3 DEF a, UdpProgram
<1>6. Examples["DropUdp"] = Example("xdp", DropUdp, NoMaps)
  BY DEF Examples
<1>7. Examples["DropUdp"].main = DropUdp /\ Examples["DropUdp"].hook = "xdp"
  <2>1. \A hook, main, ms : /\ Example(hook, main, ms).main = main
                           /\ Example(hook, main, ms).hook = hook
    BY DEF Example
  <2> QED
    BY <1>6, <2>1
<1> QED
  BY <1>5, <1>7

Headers == {Ipv4, Ipv6}
IsUdp(e) == \E p \in Headers : e["h_proto"] = p.type /\ e[p.field] = IPPROTO_UDP

IsWhole(e) ==
  /\ e["size"] >= 14
  /\ \A p \in Headers : e["h_proto"] = p.type => e["size"] >= p.nh
  /\ \A p \in Headers : e["h_proto"] = p.type /\ e[p.field] = IPPROTO_UDP => e["size"] >= p.nh + 8

(* the verdict is right for the packet, and what it now says of its port *)
IsSteered(e, verdict) ==
  /\ e["size"] \in Int
  /\ verdict = XDP_ABORTED <=> ~IsWhole(e)
  /\ verdict = XDP_DROP <=> IsWhole(e) /\ IsUdp(e) /\ e["dport"] = 3000
  /\ e["dest"] = IF IsWhole(e) /\ IsUdp(e) /\ e["dport"] = 3001 THEN 3000 ELSE e["dport"]

(* a packet that nothing was written to *)
IsPacket(e) ==
  /\ {"size", "h_proto", "protocol", "nexthdr", "dest", "dport"} \subseteq DOMAIN e
  /\ e["size"] \in Int /\ e["dest"] = e["dport"]

(***************************************************************************)
(* Where drop_udp is on a CPU that has q still to run, and what it knows   *)
(* there of the packet: of a UDP header, of the header before it, and of   *)
(* the Ethernet header.                                                    *)
(***************************************************************************)
InUdp(q, e, p) ==
  /\ e["size"] >= p.nh /\ e[p.field] = IPPROTO_UDP
  /\ \/ q = <<TooShort(p.nh + 8, 0), LoadPort(p), IfPort3000(p), Pass>>
     \/ /\ e["size"] >= p.nh + 8
        /\ \/ q = <<LoadPort(p), IfPort3000(p), Pass>>
           \/ q = <<IfPort3000(p), Pass>> /\ e["port"] = e["dport"]
           \/ q = <<IfPort3001(p), Pass>> /\ e["port"] = e["dport"] /\ e["dport"] # 3000
           \/ q = <<IfRoom(p), Pass>> /\ e["dport"] = 3001
           \/ q = <<StorePort(p), Pass>> /\ e["dport"] = 3001

InIp(q, e, p) ==
  /\ e["size"] >= 14 /\ e["h_proto"] = p.type
  /\ \/ q = <<TooShort(p.nh, 0), LoadNext(p), IfUdp(p), Pass>>
     \/ q = <<LoadNext(p), IfUdp(p), Pass>> /\ e["size"] >= p.nh
     \/ q = <<IfUdp(p), Pass>> /\ e["size"] >= p.nh /\ e["protocol"] = e[p.field]
     \/ InUdp(q, e, p)

InEthernet(q, e) ==
  \/ q = UdpProgram
  \/ /\ e["size"] >= 14
     /\ \/ q = <<LoadProto, IfIpv4, Pass>>
        \/ q = <<IfIpv4, Pass>>
        \/ q = <<IfIpv6, Pass>> /\ e["h_proto"] # ETH_P_IP

UdpPoint(q, e) ==
  \/ q = <<>>
  \/ q # <<>> /\ \E n : Head(q) = Return(n) /\ IsSteered(e, n)
  \/ IsPacket(e) /\ (InEthernet(q, e) \/ \E p \in Headers : InIp(q, e, p))

LEMMA HeaderFacts ==
  /\ Ipv4.type = 2048 /\ Ipv4.nh = 34 /\ Ipv4.field = "protocol" /\ Ipv4.end = 24
  /\ Ipv6.type = 34525 /\ Ipv6.nh = 54 /\ Ipv6.field = "nexthdr" /\ Ipv6.end = 21
  BY DEF Ipv4, Ipv6, ETH_P_IP, ETH_P_IPV6

LEMMA HeldSizes ==
  ASSUME NEW c, env[c]["size"] \in Int, NEW n \in Int
  PROVE  /\ Holds(Value(c, V("size")), "<", Value(c, I(n))) <=> env[c]["size"] < n
         /\ Holds(Value(c, V("size")), ">=", Value(c, I(n))) <=> env[c]["size"] >= n
  BY ValueOf DEF Holds

LEMMA HeldEquals ==
  ASSUME NEW c, NEW x, NEW n
  PROVE  Holds(Value(c, V(x)), "==", Value(c, I(n))) <=> env[c][x] = n
  BY ValueOf DEF Holds

(* after a bounds check *)
LEMMA CheckedLength ==
  ASSUME OneEach, NEW c \in Cpus, Statement(c), NEW end \in Int, NEW verdict, NEW x, NEW y, NEW z,
         env[c]["size"] \in Int, todo[c] = <<TooShort(end, verdict), x, y, z>>
  PROVE  /\ env'[c] = env[c]
         /\ env[c]["size"] < end => todo'[c] = <<Return(verdict), x, y, z>>
         /\ env[c]["size"] >= end => todo'[c] = <<x, y, z>>
<1>1. Head(todo[c]) = TooShort(end, verdict) /\ Tail(todo[c]) = <<x, y, z>>
  BY Firsts
<1>2. Head(todo[c]) = If(V("size"), "<", I(end), <<Return(verdict)>>, <<>>)
  BY <1>1 DEF TooShort
<1>3. /\ env'[c] = env[c]
      /\ env[c]["size"] < end => todo'[c] = <<Return(verdict)>> \o <<x, y, z>>
      /\ ~(env[c]["size"] < end) => todo'[c] = <<>> \o <<x, y, z>>
  BY <1>1, <1>2, IfGoes, HeldSizes
<1> QED
  BY <1>3, Join13, Join01

(* after an if that is followed by one statement *)
LEMMA Tested ==
  ASSUME OneEach, NEW c \in Cpus, Statement(c), NEW x, NEW n, NEW then, NEW else, NEW z,
         todo[c] = <<If(V(x), "==", I(n), then, else), z>>
  PROVE  /\ env'[c] = env[c]
         /\ env[c][x] = n => todo'[c] = then \o <<z>>
         /\ env[c][x] # n => todo'[c] = else \o <<z>>
<1>1. Head(todo[c]) = If(V(x), "==", I(n), then, else) /\ Tail(todo[c]) = <<z>>
  BY Firsts
<1>2. /\ env'[c] = env[c]
      /\ Holds(Value(c, V(x)), "==", Value(c, I(n))) => todo'[c] = then \o Tail(todo[c])
      /\ ~Holds(Value(c, V(x)), "==", Value(c, I(n))) => todo'[c] = else \o Tail(todo[c])
  BY <1>1, IfGoes
<1> QED
  BY <1>1, <1>2, HeldEquals, Zenon

LEMMA Loaded ==
  ASSUME OneEach, NEW c \in Cpus, Statement(c), NEW x, NEW field, NEW end, NEW y, NEW z,
         todo[c] = <<Load(x, field, end), y, z>>
  PROVE  todo'[c] = <<y, z>> /\ env'[c] = With(env[c], x, env[c][field])
<1>1. Head(todo[c]) = Load(x, field, end) /\ Tail(todo[c]) = <<y, z>>
  BY Firsts
<1>2. Becomes(c, Tail(todo[c]), With(env[c], x, env[c][field]), result[c])
  BY <1>1, OfLoad
<1> QED
  BY <1>1, <1>2 DEF Becomes

(* In a packet of one header the other's facts do not count. *)
LEMMA OneHeader ==
  ASSUME NEW e, NEW p \in Headers, e["h_proto"] = p.type, e["size"] \in Int
  PROVE  /\ IsUdp(e) <=> e[p.field] = IPPROTO_UDP
         /\ IsWhole(e) <=> /\ e["size"] >= p.nh
                           /\ e[p.field] = IPPROTO_UDP => e["size"] >= p.nh + 8
<1>1. \A h \in Headers : h.type = p.type => h = p
  BY HeaderFacts DEF Headers
<1>2. p.nh \in Int /\ p.nh >= 14
  BY HeaderFacts DEF Headers
<1>3. IsUdp(e) <=> e[p.field] = IPPROTO_UDP
  BY <1>1 DEF IsUdp
<1>4. IsWhole(e) <=> /\ e["size"] >= p.nh
                     /\ e[p.field] = IPPROTO_UDP => e["size"] >= p.nh + 8
  BY <1>1, <1>2 DEF IsWhole
<1> QED
  BY <1>3, <1>4

LEMMA Verdicts ==
  XDP_ABORTED = 0 /\ XDP_DROP = 1 /\ XDP_PASS = 2
  BY DEF XDP_ABORTED, XDP_DROP, XDP_PASS

LEMMA ReturnsNow ==
  ASSUME NEW q, NEW e, NEW n, q # <<>>, Head(q) = Return(n), IsSteered(e, n)
  PROVE  UdpPoint(q, e)
  BY DEF UdpPoint

LEMMA InUdpSteps ==
  ASSUME OneEach, NEW c \in Cpus, Statement(c), IsPacket(env[c]), NEW p \in Headers,
         env[c]["size"] >= 14, env[c]["h_proto"] = p.type, InUdp(todo[c], env[c], p)
  PROVE  UdpPoint(todo'[c], env'[c])
<1> DEFINE e == env[c]
           q == todo[c]
<1>1. /\ p.nh \in Int /\ p.nh + 8 \in Int /\ p.nh >= 14 /\ p.field \in DOMAIN e
      /\ p.field \in {"protocol", "nexthdr"} /\ e["size"] \in Int
  BY HeaderFacts DEF Headers, IsPacket
<1>2. IsUdp(e) /\ (IsWhole(e) <=> e["size"] >= p.nh + 8)
  BY <1>1, OneHeader DEF InUdp
<1>3. ASSUME NEW r, NEW x, IsPacket(x), x["size"] >= 14, x["h_proto"] = p.type, InUdp(r, x, p)
      PROVE  UdpPoint(r, x)
  BY <1>3 DEF UdpPoint, InIp
<1>4. CASE q = <<TooShort(p.nh + 8, 0), LoadPort(p), IfPort3000(p), Pass>>
  <2>1. /\ env'[c] = e
        /\ e["size"] < p.nh + 8 => todo'[c] = <<Return(0), LoadPort(p), IfPort3000(p), Pass>>
        /\ e["size"] >= p.nh + 8 => todo'[c] = <<LoadPort(p), IfPort3000(p), Pass>>
    BY <1>1, <1>4, CheckedLength
  <2>2. CASE e["size"] < p.nh + 8
    <3>1. todo'[c] # <<>> /\ Head(todo'[c]) = Return(0)
      BY <2>1, <2>2
    <3>2. ~IsWhole(e)
      BY <1>1, <1>2, <2>2
    <3>3. IsSteered(e, 0)
      BY <3>2, Verdicts DEF IsSteered, IsPacket
    <3> QED
      BY <2>1, <3>1, <3>3, ReturnsNow
  <2>3. CASE e["size"] >= p.nh + 8
    <3>1. InUdp(todo'[c], e, p)
      BY <2>1, <2>3 DEF InUdp
    <3> QED
      BY <1>3, <2>1, <3>1
  <2> QED
    BY <1>1, <2>2, <2>3
<1>5. CASE e["size"] >= p.nh + 8 /\ q = <<LoadPort(p), IfPort3000(p), Pass>>
  <2>1. todo'[c] = <<IfPort3000(p), Pass>> /\ env'[c] = With(e, "port", e["dest"])
    BY <1>5, Loaded DEF LoadPort
  <2> DEFINE x == With(e, "port", e["dest"])
  <2>2. /\ IsPacket(x) /\ x["size"] = e["size"] /\ x["h_proto"] = e["h_proto"]
        /\ x[p.field] = e[p.field] /\ x["port"] = x["dport"]
    BY <1>1 DEF IsPacket, With
  <2> HIDE DEF x
  <2>3. InUdp(<<IfPort3000(p), Pass>>, x, p)
    BY <1>5, <2>2 DEF InUdp
  <2> QED
    BY <1>3, <2>1, <2>2, <2>3 DEF x
<1>6. CASE e["size"] >= p.nh + 8 /\ q = <<IfPort3000(p), Pass>> /\ e["port"] = e["dport"]
  <2>1. /\ env'[c] = e
        /\ e["port"] = 3000 => todo'[c] = <<Return(XDP_DROP)>> \o <<Pass>>
        /\ e["port"] # 3000 => todo'[c] = <<IfPort3001(p)>> \o <<Pass>>
    <3> DEFINE drop == <<Return(XDP_DROP)>>
               go == <<IfPort3001(p)>>
    <3>1. q = <<If(V("port"), "==", I(3000), drop, go), Pass>>
      BY <1>6 DEF IfPort3000
    <3> HIDE DEF drop, go
    <3>2. /\ env'[c] = e
          /\ e["port"] = 3000 => todo'[c] = drop \o <<Pass>>
          /\ e["port"] # 3000 => todo'[c] = go \o <<Pass>>
      BY <3>1, Tested
    <3> QED
      BY <3>2 DEF drop, go
  <2>2. CASE e["port"] = 3000
    <3>1. todo'[c] = <<Return(XDP_DROP), Pass>>
      BY <2>1, <2>2, Join11
    <3>2. IsSteered(e, XDP_DROP)
      BY <1>2, <1>6, <2>2, Verdicts DEF IsSteered, IsPacket
    <3> QED
      BY <2>1, <3>1, <3>2, ReturnsNow, Firsts, NotEmpty
  <2>3. CASE e["port"] # 3000
    <3>1. todo'[c] = <<IfPort3001(p), Pass>>
      BY <2>1, <2>3, Join11
    <3>2. InUdp(todo'[c], e, p)
      BY <1>6, <2>3, <3>1 DEF InUdp
    <3> QED
      BY <1>3, <2>1, <3>2
  <2> QED
    BY <2>2, <2>3
<1>7. CASE /\ e["size"] >= p.nh + 8 /\ q = <<IfPort3001(p), Pass>>
           /\ e["port"] = e["dport"] /\ e["dport"] # 3000
  <2>1. /\ env'[c] = e
        /\ e["port"] = 3001 => todo'[c] = <<IfRoom(p)>> \o <<Pass>>
        /\ e["port"] # 3001 => todo'[c] = <<>> \o <<Pass>>
    <3> DEFINE go == <<IfRoom(p)>>
    <3>1. q = <<If(V("port"), "==", I(3001), go, <<>>), Pass>>
      BY <1>7 DEF IfPort3001
    <3> HIDE DEF go
    <3>2. /\ env'[c] = e
          /\ e["port"] = 3001 => todo'[c] = go \o <<Pass>>
          /\ e["port"] # 3001 => todo'[c] = <<>> \o <<Pass>>
      BY <3>1, Tested
    <3> QED
      BY <3>2 DEF go
  <2>2. CASE e["port"] = 3001
    <3>1. todo'[c] = <<IfRoom(p), Pass>>
      BY <2>1, <2>2, Join11
    <3>2. InUdp(todo'[c], e, p)
      BY <1>7, <2>2, <3>1 DEF InUdp
    <3> QED
      BY <1>3, <2>1, <3>2
  <2>3. CASE e["port"] # 3001
    <3>1. todo'[c] = <<Pass>>
      BY <2>1, <2>3, Join01
    <3>2. IsSteered(e, XDP_PASS)
      BY <1>2, <1>7, <2>3, Verdicts DEF IsSteered, IsPacket
    <3> QED
      BY <2>1, <3>1, <3>2, ReturnsNow, Firsts, NotEmpty DEF Pass
  <2> QED
    BY <2>2, <2>3
<1>8. CASE e["size"] >= p.nh + 8 /\ q = <<IfRoom(p), Pass>> /\ e["dport"] = 3001
  <2>1. /\ Head(q) = If(V("size"), ">=", I(p.nh + 8), <<StorePort(p)>>, <<>>)
        /\ Tail(q) = <<Pass>>
    BY <1>8, Firsts DEF IfRoom
  <2>2. Holds(Value(c, V("size")), ">=", Value(c, I(p.nh + 8)))
    BY <1>1, <1>8, HeldSizes
  <2>3. env'[c] = e /\ todo'[c] = <<StorePort(p)>> \o <<Pass>>
    BY <2>1, <2>2, IfGoes
  <2>4. InUdp(todo'[c], e, p)
    BY <1>8, <2>3, Join11 DEF InUdp
  <2> QED
    BY <1>3, <2>3, <2>4
<1>9. CASE e["size"] >= p.nh + 8 /\ q = <<StorePort(p), Pass>> /\ e["dport"] = 3001
  <2>1. Head(q) = StorePacket("dest", p.nh + 4, I(3000)) /\ Tail(q) = <<Pass>>
    BY <1>9, Firsts DEF StorePort
  <2>2. Becomes(c, Tail(q), With(e, "dest", Value(c, I(3000))), result[c])
    BY <2>1, OfStorePacket
  <2>3. todo'[c] = <<Pass>> /\ env'[c] = With(e, "dest", 3000)
    <3>1. Value(c, I(3000)) = 3000
      BY ValueOf
    <3>2. todo'[c] = Tail(q) /\ env'[c] = With(e, "dest", Value(c, I(3000)))
      BY <2>2 DEF Becomes
    <3> QED
      BY <2>1, <3>1, <3>2
  <2> DEFINE x == With(e, "dest", 3000)
  <2>4. /\ x["size"] = e["size"] /\ x["h_proto"] = e["h_proto"] /\ x[p.field] = e[p.field]
        /\ x["dest"] = 3000 /\ x["dport"] = 3001
    BY <1>1, <1>9 DEF IsPacket, With
  <2> HIDE DEF x
  <2>5. IsUdp(x) /\ IsWhole(x)
    BY <1>1, <1>9, <2>4, OneHeader DEF InUdp
  <2>6. IsSteered(x, XDP_PASS)
    BY <1>1, <2>4, <2>5, Verdicts DEF IsSteered
  <2>7. todo'[c] # <<>> /\ Head(todo'[c]) = Return(XDP_PASS)
    BY <2>3, NotEmpty, Firsts DEF Pass
  <2> QED
    BY <2>3, <2>6, <2>7, ReturnsNow DEF x
<1> QED
  BY <1>4, <1>5, <1>6, <1>7, <1>8, <1>9 DEF InUdp

LEMMA InIpSteps ==
  ASSUME OneEach, NEW c \in Cpus, Statement(c), IsPacket(env[c]), NEW p \in Headers,
         InIp(todo[c], env[c], p)
  PROVE  UdpPoint(todo'[c], env'[c])
<1> DEFINE e == env[c]
           q == todo[c]
<1>1. /\ p.nh \in Int /\ p.nh >= 14 /\ p.field \in DOMAIN e
      /\ p.field \in {"protocol", "nexthdr"} /\ e["size"] \in Int
      /\ e["size"] >= 14 /\ e["h_proto"] = p.type
  BY HeaderFacts DEF Headers, IsPacket, InIp
<1>2. /\ IsUdp(e) <=> e[p.field] = IPPROTO_UDP
      /\ IsWhole(e) <=> /\ e["size"] >= p.nh
                        /\ e[p.field] = IPPROTO_UDP => e["size"] >= p.nh + 8
  BY <1>1, OneHeader
<1>3. ASSUME NEW r, NEW x, IsPacket(x), InIp(r, x, p)  PROVE UdpPoint(r, x)
  BY <1>3 DEF UdpPoint
<1>4. CASE q = <<TooShort(p.nh, 0), LoadNext(p), IfUdp(p), Pass>>
  <2>1. /\ env'[c] = e
        /\ e["size"] < p.nh => todo'[c] = <<Return(0), LoadNext(p), IfUdp(p), Pass>>
        /\ e["size"] >= p.nh => todo'[c] = <<LoadNext(p), IfUdp(p), Pass>>
    BY <1>1, <1>4, CheckedLength
  <2>2. CASE e["size"] < p.nh
    <3>1. todo'[c] = <<Return(0), LoadNext(p), IfUdp(p), Pass>>
      BY <2>1, <2>2
    <3>2. ~IsWhole(e)
      BY <1>1, <1>2, <2>2
    <3>3. IsSteered(e, 0)
      BY <3>2, Verdicts DEF IsSteered, IsPacket
    <3> QED
      BY <2>1, <3>1, <3>3, ReturnsNow, Firsts, NotEmpty
  <2>3. CASE e["size"] >= p.nh
    <3>1. InIp(todo'[c], e, p)
      BY <1>1, <2>1, <2>3 DEF InIp
    <3> QED
      BY <1>3, <2>1, <3>1
  <2> QED
    BY <1>1, <2>2, <2>3
<1>5. CASE q = <<LoadNext(p), IfUdp(p), Pass>> /\ e["size"] >= p.nh
  <2>1. todo'[c] = <<IfUdp(p), Pass>> /\ env'[c] = With(e, "protocol", e[p.field])
    BY <1>5, Loaded DEF LoadNext
  <2> DEFINE x == With(e, "protocol", e[p.field])
  <2>2. /\ IsPacket(x) /\ x["size"] = e["size"] /\ x["h_proto"] = e["h_proto"]
        /\ x[p.field] = e[p.field] /\ x["protocol"] = e[p.field]
    BY <1>1 DEF IsPacket, With
  <2> HIDE DEF x
  <2>3. InIp(<<IfUdp(p), Pass>>, x, p)
    BY <1>1, <1>5, <2>2 DEF InIp
  <2> QED
    BY <1>3, <2>1, <2>2, <2>3 DEF x
<1>6. CASE q = <<IfUdp(p), Pass>> /\ e["size"] >= p.nh /\ e["protocol"] = e[p.field]
  <2>1. /\ env'[c] = e
        /\ e["protocol"] = IPPROTO_UDP => todo'[c] = UdpPart(p) \o <<Pass>>
        /\ e["protocol"] # IPPROTO_UDP => todo'[c] = <<>> \o <<Pass>>
    <3> DEFINE udp == UdpPart(p)
               none == <<>>
    <3>1. q = <<If(V("protocol"), "==", I(IPPROTO_UDP), udp, none), Pass>>
      BY <1>6 DEF IfUdp
    <3> HIDE DEF udp, none
    <3>2. /\ env'[c] = e
          /\ e["protocol"] = IPPROTO_UDP => todo'[c] = udp \o <<Pass>>
          /\ e["protocol"] # IPPROTO_UDP => todo'[c] = none \o <<Pass>>
      BY <3>1, Tested
    <3> QED
      BY <3>2 DEF udp, none
  <2>2. CASE e["protocol"] = IPPROTO_UDP
    <3> DEFINE a == TooShort(p.nh + 8, 0)
    <3>1. todo'[c] = <<a, LoadPort(p), IfPort3000(p)>> \o <<Pass>>
      BY <2>1, <2>2 DEF UdpPart
    <3> HIDE DEF a
    <3>2. todo'[c] = <<a, LoadPort(p), IfPort3000(p), Pass>>
      BY <3>1, Join31
    <3>3. InUdp(todo'[c], e, p)
      BY <1>6, <2>2, <3>2 DEF InUdp, a
    <3>4. InIp(todo'[c], e, p)
      BY <1>1, <3>3 DEF InIp
    <3> QED
      BY <1>3, <2>1, <3>4
  <2>3. CASE e["protocol"] # IPPROTO_UDP
    <3>1. todo'[c] = <<Pass>>
      BY <2>1, <2>3, Join01
    <3>2. IsSteered(e, XDP_PASS)
      BY <1>2, <1>6, <2>3, Verdicts DEF IsSteered, IsPacket
    <3> QED
      BY <2>1, <3>1, <3>2, ReturnsNow, Firsts, NotEmpty DEF Pass
  <2> QED
    BY <2>2, <2>3
<1>7. CASE InUdp(q, e, p)
  BY <1>1, <1>7, InUdpSteps
<1> QED
  BY <1>4, <1>5, <1>6, <1>7 DEF InIp

LEMMA InEthernetSteps ==
  ASSUME OneEach, NEW c \in Cpus, Statement(c), IsPacket(env[c]), InEthernet(todo[c], env[c])
  PROVE  UdpPoint(todo'[c], env'[c])
<1> DEFINE e == env[c]
           q == todo[c]
<1>1. e["size"] \in Int /\ e["dest"] = e["dport"]
  BY DEF IsPacket
<1>2. ASSUME NEW r, NEW x, IsPacket(x), InEthernet(r, x)  PROVE UdpPoint(r, x)
  BY <1>2 DEF UdpPoint
<1>3. CASE q = UdpProgram
  <2>1. /\ env'[c] = e
        /\ e["size"] < 14 => todo'[c] = <<Return(XDP_ABORTED), LoadProto, IfIpv4, Pass>>
        /\ e["size"] >= 14 => todo'[c] = <<LoadProto, IfIpv4, Pass>>
    BY <1>1, <1>3, CheckedLength DEF UdpProgram
  <2>2. CASE e["size"] < 14
    <3>1. todo'[c] = <<Return(XDP_ABORTED), LoadProto, IfIpv4, Pass>>
      BY <2>1, <2>2
    <3>2. ~IsWhole(e)
      BY <1>1, <2>2 DEF IsWhole
    <3>3. IsSteered(e, XDP_ABORTED)
      BY <1>1, <3>2, Verdicts DEF IsSteered
    <3> QED
      BY <2>1, <3>1, <3>3, ReturnsNow, Firsts, NotEmpty
  <2>3. CASE e["size"] >= 14
    BY <1>2, <2>1, <2>3 DEF InEthernet
  <2> QED
    BY <1>1, <2>2, <2>3
<1>4. CASE e["size"] >= 14 /\ q = <<LoadProto, IfIpv4, Pass>>
  <2>1. todo'[c] = <<IfIpv4, Pass>> /\ env'[c] = With(e, "h_proto", e["h_proto"])
    BY <1>4, Loaded DEF LoadProto
  <2> DEFINE x == With(e, "h_proto", e["h_proto"])
  <2>2. IsPacket(x) /\ x["size"] = e["size"]
    BY DEF IsPacket, With
  <2> HIDE DEF x
  <2>3. InEthernet(<<IfIpv4, Pass>>, x)
    BY <1>4, <2>2 DEF InEthernet
  <2> QED
    BY <1>2, <2>1, <2>2, <2>3 DEF x
<1>5. ASSUME NEW p \in Headers, e["size"] >= 14, e["h_proto"] = p.type, env'[c] = e,
             todo'[c] = IpPart(p) \o <<Pass>>
      PROVE  UdpPoint(todo'[c], env'[c])
  <2> DEFINE a == TooShort(p.nh, 0)
  <2>1. todo'[c] = <<a, LoadNext(p), IfUdp(p)>> \o <<Pass>>
    BY <1>5 DEF IpPart
  <2> HIDE DEF a
  <2>2. todo'[c] = <<a, LoadNext(p), IfUdp(p), Pass>>
    BY <2>1, Join31
  <2>3. InIp(todo'[c], e, p)
    BY <1>5, <2>2 DEF InIp, a
  <2> QED
    BY <1>5, <2>3 DEF UdpPoint
<1>6. CASE e["size"] >= 14 /\ q = <<IfIpv4, Pass>>
  <2>1. /\ env'[c] = e
        /\ e["h_proto"] = ETH_P_IP => todo'[c] = IpPart(Ipv4) \o <<Pass>>
        /\ e["h_proto"] # ETH_P_IP => todo'[c] = <<IfIpv6>> \o <<Pass>>
    <3> DEFINE ip == IpPart(Ipv4)
               other == <<IfIpv6>>
    <3>1. q = <<If(V("h_proto"), "==", I(ETH_P_IP), ip, other), Pass>>
      BY <1>6 DEF IfIpv4
    <3> HIDE DEF ip, other
    <3>2. /\ env'[c] = e
          /\ e["h_proto"] = ETH_P_IP => todo'[c] = ip \o <<Pass>>
          /\ e["h_proto"] # ETH_P_IP => todo'[c] = other \o <<Pass>>
      BY <3>1, Tested
    <3> QED
      BY <3>2 DEF ip, other
  <2>2. CASE e["h_proto"] = ETH_P_IP
    BY <1>5, <1>6, <2>1, <2>2 DEF Headers, Ipv4
  <2>3. CASE e["h_proto"] # ETH_P_IP
    BY <1>2, <1>6, <2>1, <2>3, Join11 DEF InEthernet
  <2> QED
    BY <2>2, <2>3
<1>7. CASE e["size"] >= 14 /\ q = <<IfIpv6, Pass>> /\ e["h_proto"] # ETH_P_IP
  <2>1. /\ env'[c] = e
        /\ e["h_proto"] = ETH_P_IPV6 => todo'[c] = IpPart(Ipv6) \o <<Pass>>
        /\ e["h_proto"] # ETH_P_IPV6 => todo'[c] = <<Pass>> \o <<Pass>>
    <3> DEFINE ip == IpPart(Ipv6)
               other == <<Pass>>
    <3>1. q = <<If(V("h_proto"), "==", I(ETH_P_IPV6), ip, other), Pass>>
      BY <1>7 DEF IfIpv6
    <3> HIDE DEF ip, other
    <3>2. /\ env'[c] = e
          /\ e["h_proto"] = ETH_P_IPV6 => todo'[c] = ip \o <<Pass>>
          /\ e["h_proto"] # ETH_P_IPV6 => todo'[c] = other \o <<Pass>>
      BY <3>1, Tested
    <3> QED
      BY <3>2 DEF ip, other
  <2>2. CASE e["h_proto"] = ETH_P_IPV6
    BY <1>5, <1>7, <2>1, <2>2 DEF Headers, Ipv6
  <2>3. CASE e["h_proto"] # ETH_P_IPV6
    <3>1. todo'[c] = <<Pass, Pass>>
      BY <2>1, <2>3, Join11
    <3>2. \A p \in Headers : e["h_proto"] # p.type
      BY <1>7, <2>3 DEF Headers, Ipv4, Ipv6
    <3>3. IsWhole(e) /\ ~IsUdp(e)
      BY <1>7, <3>2 DEF IsWhole, IsUdp
    <3>4. IsSteered(e, XDP_PASS)
      BY <1>1, <3>3, Verdicts DEF IsSteered
    <3> QED
      BY <2>1, <3>1, <3>4, ReturnsNow, Firsts, NotEmpty DEF Pass
  <2> QED
    BY <2>2, <2>3
<1> QED
  BY <1>3, <1>4, <1>6, <1>7 DEF InEthernet

LEMMA UdpSteps ==
  ASSUME OneEach, NEW c \in Cpus, Statement(c), UdpPoint(todo[c], env[c])
  PROVE  UdpPoint(todo'[c], env'[c])
<1>1. todo[c] # <<>>
  BY Dispatch DEF IsIdle
<1>2. ASSUME NEW n, Head(todo[c]) = Return(n)  PROVE UdpPoint(todo'[c], env'[c])
  BY <1>2, OfReturn DEF UdpPoint, Becomes
<1> QED
  BY <1>1, <1>2, InEthernetSteps, InIpSteps DEF UdpPoint

(* what drop_udp may do next *)
MayDo(s, e) ==
  /\ s.op = "return" => IsSteered(e, s.n)
  /\ s.op \in {"load", "storePacket"} => s.end <= e["size"]

LEMMA UdpMayDo ==
  ASSUME NEW q, NEW e, q # <<>>, UdpPoint(q, e)
  PROVE  MayDo(Head(q), e)
<1>1. ASSUME NEW a, NEW rel, NEW b, NEW then, NEW else, Head(q) = If(a, rel, b, then, else)
      PROVE  MayDo(Head(q), e)
  BY <1>1 DEF MayDo, If
<1>2. ASSUME NEW n, Head(q) = Return(n), IsSteered(e, n)  PROVE MayDo(Head(q), e)
  BY <1>2 DEF MayDo, Return
<1>3. ASSUME NEW x, NEW field, NEW end, Head(q) = Load(x, field, end), end <= e["size"]
      PROVE  MayDo(Head(q), e)
  BY <1>3 DEF MayDo, Load
<1>4. ASSUME NEW field, NEW end, NEW a, Head(q) = StorePacket(field, end, a), end <= e["size"]
      PROVE  MayDo(Head(q), e)
  BY <1>4 DEF MayDo, StorePacket
<1>5. ASSUME NEW p \in Headers, IsPacket(e), InIp(q, e, p)  PROVE MayDo(Head(q), e)
  <2>1. e["size"] \in Int /\ p.nh \in Int /\ p.end \in Int /\ p.end <= p.nh
    BY <1>5, HeaderFacts DEF Headers, IsPacket
  <2>2. CASE q = <<TooShort(p.nh, 0), LoadNext(p), IfUdp(p), Pass>>
    BY <1>1, <2>2, Firsts DEF TooShort
  <2>3. CASE q = <<LoadNext(p), IfUdp(p), Pass>> /\ e["size"] >= p.nh
    <3>1. Head(q) = Load("protocol", p.field, p.end) /\ p.end <= e["size"]
      BY <2>1, <2>3, Firsts DEF LoadNext
    <3> QED
      BY <1>3, <3>1
  <2>4. CASE q = <<IfUdp(p), Pass>>
    BY <1>1, <2>4, Firsts DEF IfUdp
  <2>5. CASE InUdp(q, e, p)
    <3>1. CASE q = <<TooShort(p.nh + 8, 0), LoadPort(p), IfPort3000(p), Pass>>
      BY <1>1, <3>1, Firsts DEF TooShort
    <3>2. CASE e["size"] >= p.nh + 8 /\ q = <<LoadPort(p), IfPort3000(p), Pass>>
      <4>1. Head(q) = Load("port", "dest", p.nh + 4) /\ p.nh + 4 <= e["size"]
        BY <2>1, <3>2, Firsts DEF LoadPort
      <4> QED
        BY <1>3, <4>1
    <3>3. CASE q = <<IfPort3000(p), Pass>>
      BY <1>1, <3>3, Firsts DEF IfPort3000
    <3>4. CASE q = <<IfPort3001(p), Pass>>
      BY <1>1, <3>4, Firsts DEF IfPort3001
    <3>5. CASE q = <<IfRoom(p), Pass>>
      BY <1>1, <3>5, Firsts DEF IfRoom
    <3>6. CASE e["size"] >= p.nh + 8 /\ q = <<StorePort(p), Pass>>
      <4>1. Head(q) = StorePacket("dest", p.nh + 4, I(3000)) /\ p.nh + 4 <= e["size"]
        BY <2>1, <3>6, Firsts DEF StorePort
      <4> QED
        BY <1>4, <4>1
    <3> QED
      BY <2>5, <3>1, <3>2, <3>3, <3>4, <3>5, <3>6 DEF InUdp
  <2> QED
    BY <1>5, <2>2, <2>3, <2>4, <2>5 DEF InIp
<1>6. ASSUME IsPacket(e), InEthernet(q, e)  PROVE MayDo(Head(q), e)
  <2>1. CASE q = UdpProgram
    BY <1>1, <2>1, Firsts DEF UdpProgram, TooShort
  <2>2. CASE e["size"] >= 14 /\ q = <<LoadProto, IfIpv4, Pass>>
    <3>1. Head(q) = Load("h_proto", "h_proto", 14) /\ 14 <= e["size"]
      BY <1>6, <2>2, Firsts DEF LoadProto, IsPacket
    <3> QED
      BY <1>3, <3>1
  <2>3. CASE q = <<IfIpv4, Pass>>
    BY <1>1, <2>3, Firsts DEF IfIpv4
  <2>4. CASE q = <<IfIpv6, Pass>>
    BY <1>1, <2>4, Firsts DEF IfIpv6
  <2> QED
    BY <1>6, <2>1, <2>2, <2>3, <2>4 DEF InEthernet
<1> QED
  BY <1>2, <1>5, <1>6 DEF UdpPoint

(* The inputs of drop_udp are packets, whose port is what it was received with. *)
InputsArePackets == \A p \in Inputs["DropUdp"] : IsPacket(p)
UdpInv == \A c \in Cpus : UdpPoint(todo[c], env[c])

LEMMA UdpInit ==
  Init => UdpInv
  BY DEF Init, UdpInv, UdpPoint

LEMMA UdpNext ==
  ASSUME InputsArePackets, OneEach, program = "DropUdp", UdpInv, [NextC]_vars
  PROVE  UdpInv'
<1> SUFFICES ASSUME NEW c \in Cpus  PROVE UdpPoint(todo'[c], env'[c])
  BY DEF UdpInv
<1>1. UdpPoint(todo[c], env[c])
  BY DEF UdpInv
<1>2. CASE Waits(c)
  BY <1>1, <1>2 DEF Waits
<1>3. ASSUME NEW says, IsEvent(says), Begins(c, says)  PROVE UdpPoint(todo'[c], env'[c])
  <2>1. IsPacket(says)
    BY <1>3, DropUdpIs DEF IsEvent, Hook, InputsArePackets
  <2>2. todo'[c] = UdpProgram /\ env'[c] = says
    BY <1>3, DropUdpIs DEF Begins
  <2> QED
    BY <2>1, <2>2 DEF UdpPoint, InEthernet
<1>4. CASE Statement(c)
  BY <1>1, <1>4, UdpSteps
<1> QED
  BY <1>2, <1>3, <1>4, StepOfOne

LEMMA SteeredIs ==
  ASSUME NEW e, NEW n, IsSteered(e, n)
  PROVE  LET ip == e["h_proto"] \in {ETH_P_IP, ETH_P_IPV6}
             nh_off == IF e["h_proto"] = ETH_P_IP THEN 34 ELSE 54
             next == IF e["h_proto"] = ETH_P_IP THEN e["protocol"] ELSE e["nexthdr"]
             udp == ip /\ next = IPPROTO_UDP
             whole == e["size"] >= IF udp THEN nh_off + 8 ELSE IF ip THEN nh_off ELSE 14
         IN /\ n = XDP_ABORTED <=> ~whole
            /\ n = XDP_DROP <=> whole /\ udp /\ e["dport"] = 3000
            /\ e["dest"] = IF whole /\ udp /\ e["dport"] = 3001 THEN 3000 ELSE e["dport"]
<1> DEFINE ip == e["h_proto"] \in {ETH_P_IP, ETH_P_IPV6}
           nh_off == IF e["h_proto"] = ETH_P_IP THEN 34 ELSE 54
           next == IF e["h_proto"] = ETH_P_IP THEN e["protocol"] ELSE e["nexthdr"]
           udp == ip /\ next = IPPROTO_UDP
           whole == e["size"] >= IF udp THEN nh_off + 8 ELSE IF ip THEN nh_off ELSE 14
<1>1. udp <=> IsUdp(e)
  BY HeaderFacts DEF IsUdp, Headers, ETH_P_IP, ETH_P_IPV6
<1>2. whole <=> IsWhole(e)
  <2>1. CASE e["h_proto"] = ETH_P_IP
    BY <2>1, HeaderFacts DEF IsWhole, IsSteered, Headers, ETH_P_IP, ETH_P_IPV6
  <2>2. CASE e["h_proto"] = ETH_P_IPV6
    BY <2>2, HeaderFacts DEF IsWhole, IsSteered, Headers, ETH_P_IP, ETH_P_IPV6
  <2>3. CASE ~ip
    BY <2>3, HeaderFacts DEF IsWhole, IsSteered, Headers, ETH_P_IP, ETH_P_IPV6
  <2> QED
    BY <2>1, <2>2, <2>3
<1> HIDE DEF udp, whole
<1>3. /\ n = XDP_ABORTED <=> ~whole
      /\ n = XDP_DROP <=> whole /\ udp /\ e["dport"] = 3000
      /\ e["dest"] = IF whole /\ udp /\ e["dport"] = 3001 THEN 3000 ELSE e["dport"]
  BY <1>1, <1>2 DEF IsSteered
<1> QED
  BY <1>3 DEF udp, whole

(***************************************************************************)
(* Whatever packets come on whatever CPUs, drop_udp drops, redirects,      *)
(* passes and aborts those it should, and changes no other.                *)
(***************************************************************************)
THEOREM DropUdpSteers ==
  ASSUME InputsArePackets
  PROVE  SpecC => []UdpIsSteered
<1> DEFINE Inv == OneEach /\ (program = "DropUdp" => UdpInv)
<1>1. Init => Inv
  BY InitOneEach, UdpInit
<1>2. Inv /\ [NextC]_vars => Inv'
  BY NextOneEach, UdpNext
<1>3. Inv => UdpIsSteered
  <2> SUFFICES ASSUME Inv, program = "DropUdp", NEW c \in Cpus, Returns(c)
               PROVE  IsSteered(env[c], Head(todo[c]).n)
    BY SteeredIs DEF UdpIsSteered
  <2>1. todo[c] # <<>> /\ Head(todo[c]).op = "return" /\ UdpPoint(todo[c], env[c])
    BY DEF Returns, Is, IsIdle, UdpInv
  <2> QED
    BY <2>1, UdpMayDo DEF MayDo
<1> QED
  BY <1>1, <1>2, <1>3, PTL DEF SpecC

-----------------------------------------------------------------------------
(*************************************************************************)
(* The packet, in every program                                          *)
(*************************************************************************)

(***************************************************************************)
(* Statements that neither load nor store a packet's bytes, not even in    *)
(* the branches of their ifs: those of a set that has these branches, too. *)
(***************************************************************************)
Quiet(X) ==
  \A s \in X :
    /\ s.op \notin {"load", "storePacket"}
    /\ s.op = "if" => s.then \in Seq(X) /\ s.else \in Seq(X)

NoPackets(q) == \E X : Quiet(X) /\ q \in Seq(X)

LEMMA SeqOfMore ==
  ASSUME NEW X, NEW Y, X \subseteq Y, NEW q \in Seq(X)
  PROVE  q \in Seq(Y)
  OBVIOUS

LEMMA QuietUnion ==
  ASSUME NEW X, NEW Y, Quiet(X), Quiet(Y)
  PROVE  Quiet(X \cup Y)
<1>1. X \subseteq X \cup Y /\ Y \subseteq X \cup Y
  OBVIOUS
<1>2. \A q : q \in Seq(X) \/ q \in Seq(Y) => q \in Seq(X \cup Y)
  BY <1>1, SeqOfMore
<1> HIDE <1>1
<1> QED
  BY <1>2 DEF Quiet

(* no if, and nothing that touches the packet *)
IsPlain(s) == s.op \notin {"load", "storePacket", "if"}

LEMMA Plain0 ==
  NoPackets(<<>>)
<1>1. <<>> \in Seq({}) /\ Quiet({})
  BY DEF Quiet
<1> QED
  BY <1>1 DEF NoPackets

LEMMA Plain1 ==
  ASSUME NEW a, IsPlain(a)
  PROVE  NoPackets(<<a>>)
<1>1. <<a>> \in Seq({a}) /\ Quiet({a})
  BY DEF Quiet, IsPlain
<1> QED
  BY <1>1 DEF NoPackets

LEMMA QuietTuple ==
  ASSUME NEW T, NEW q \in Seq(T), \A s \in T : NoPackets(<<s>>)
  PROVE  NoPackets(q)
<1> DEFINE Of(s) == CHOOSE X : Quiet(X) /\ <<s>> \in Seq(X)
           Xs == {Of(s) : s \in T}
           Y == UNION Xs
<1>1. \A s \in T : Quiet(Of(s)) /\ <<s>> \in Seq(Of(s))
  BY DEF NoPackets
<1>2. \A X \in Xs : Quiet(X) /\ X \subseteq Y
  BY <1>1
<1>3. Quiet(Y)
  <2>1. \A X \in Xs : \A p \in Seq(X) : p \in Seq(Y)
    BY <1>2, SeqOfMore
  <2> SUFFICES ASSUME NEW s \in Y
               PROVE  /\ s.op \notin {"load", "storePacket"}
                      /\ s.op = "if" => s.then \in Seq(Y) /\ s.else \in Seq(Y)
    BY DEF Quiet
  <2>2. PICK X \in Xs : s \in X
    OBVIOUS
  <2> QED
    BY <1>2, <2>1, <2>2 DEF Quiet
<1>4. T \subseteq Y
  <2>1. \A s, X : <<s>> \in Seq(X) => s \in X
    <3> SUFFICES ASSUME NEW s, NEW X, <<s>> \in Seq(X)  PROVE s \in X
      OBVIOUS
    <3>1. Head(<<s>>) = s
      OBVIOUS
    <3> QED
      BY <3>1
  <2>2. \A s \in T : s \in Of(s) /\ Of(s) \in Xs
    BY <1>1, <2>1
  <2> QED
    BY <2>2
<1> HIDE DEF Y
<1>5. q \in Seq(Y)
  BY <1>4, SeqOfMore
<1> QED
  BY <1>3, <1>5 DEF NoPackets

LEMMA QuietJoin ==
  ASSUME NEW p, NEW q, NoPackets(p), NoPackets(q)
  PROVE  NoPackets(p \o q)
<1>1. PICK X : Quiet(X) /\ p \in Seq(X)
  BY DEF NoPackets
<1>2. PICK Y : Quiet(Y) /\ q \in Seq(Y)
  BY DEF NoPackets
<1>3. p \in Seq(X \cup Y) /\ q \in Seq(X \cup Y)
  <2>1. X \subseteq X \cup Y /\ Y \subseteq X \cup Y
    OBVIOUS
  <2> QED
    BY <1>1, <1>2, <2>1, SeqOfMore
<1>4. p \o q \in Seq(X \cup Y)
  BY <1>3
<1> QED
  BY <1>1, <1>2, <1>4, QuietUnion DEF NoPackets

LEMMA QuietIf ==
  ASSUME NEW a, NEW rel, NEW b, NEW then, NEW else, NoPackets(then), NoPackets(else)
  PROVE  NoPackets(<<If(a, rel, b, then, else)>>)
<1> DEFINE s == If(a, rel, b, then, else)
<1>1. PICK X : Quiet(X) /\ then \in Seq(X)
  BY DEF NoPackets
<1>2. PICK Y : Quiet(Y) /\ else \in Seq(Y)
  BY DEF NoPackets
<1> DEFINE Z == X \cup Y
           ZZ == Z \cup {s}
<1>3. Quiet(Z)
  BY <1>1, <1>2, QuietUnion
<1>4. X \subseteq ZZ /\ Y \subseteq ZZ /\ Z \subseteq ZZ /\ s \in ZZ
  OBVIOUS
<1>5. s.op = "if" /\ s.then = then /\ s.else = else
  BY DEF If
<1> HIDE DEF s, Z
<1> HIDE DEF ZZ
<1>6. then \in Seq(ZZ) /\ else \in Seq(ZZ) /\ \A q : q \in Seq(Z) => q \in Seq(ZZ)
  BY <1>1, <1>2, <1>4, SeqOfMore
<1>7. <<s>> \in Seq(ZZ)
  BY <1>4
<1>8. Quiet(ZZ)
  <2>1. \A r \in ZZ : r \in Z \/ r = s
    BY DEF ZZ
  <2> QED
    BY <1>3, <1>5, <1>6, <2>1 DEF Quiet
<1> QED
  BY <1>7, <1>8 DEF NoPackets, s

LEMMA QuietNext ==
  ASSUME NEW q, q # <<>>, NoPackets(q)
  PROVE  /\ Head(q).op \notin {"load", "storePacket"} /\ NoPackets(Tail(q))
         /\ Head(q).op = "if" => NoPackets(Head(q).then) /\ NoPackets(Head(q).else)
<1>1. PICK X : Quiet(X) /\ q \in Seq(X)
  BY DEF NoPackets
<1>2. Head(q) \in X /\ Tail(q) \in Seq(X)
  BY <1>1
<1> QED
  BY <1>1, <1>2 DEF NoPackets, Quiet

LEMMA QuietSteps ==
  ASSUME OneEach, NEW c \in Cpus, Statement(c), NoPackets(todo[c])
  PROVE  NoPackets(todo'[c])
<1>1. todo[c] # <<>>
  BY Dispatch DEF IsIdle
<1>2. NoPackets(Tail(todo[c])) /\ NoPackets(<<Return(0)>>)
  BY <1>1, QuietNext, Plain1 DEF IsPlain, Return
<1>3. GoOn(c) => todo'[c] = Tail(todo[c])
  BY DEF GoOn, OneEach
<1>4. Catch(c) => todo'[c] = <<Return(0)>>
  BY DEF Catch, OneEach
<1>5. CASE SetInt(c) \/ ComputeInt(c) \/ CheckedOperation(c) \/ ReadClock(c)
  <2>1. GoOn(c) \/ Catch(c)
    BY <1>5 DEF SetInt, ComputeInt, CheckedOperation, ReadClock
  <2> QED
    BY <1>2, <1>3, <1>4, <2>1
<1>6. CASE LookupElem(c)
  <2>1. CASE GoOn(c) \/ Catch(c)
    BY <1>2, <1>3, <1>4, <2>1
  <2>2. CASE \E s : s.op = "follow" /\ todo' = [todo EXCEPT ![c] = <<s>> \o Tail(@)]
    <3>1. PICK s : s.op = "follow" /\ todo' = [todo EXCEPT ![c] = <<s>> \o Tail(@)]
      BY <2>2
    <3>2. todo'[c] = <<s>> \o Tail(todo[c])
      BY <3>1 DEF OneEach
    <3>3. NoPackets(<<s>>)
      BY <3>1, Plain1 DEF IsPlain
    <3> QED
      BY <1>2, <3>2, <3>3, QuietJoin
  <2> QED
    BY <1>6, <2>1, <2>2 DEF LookupElem
<1>7. CASE Branch(c)
  <2> DEFINE s == Head(todo[c])
  <2>1. s.op = "if" /\ (todo'[c] = s.then \o Tail(todo[c]) \/ todo'[c] = s.else \o Tail(todo[c]))
    BY <1>7 DEF Branch, Is, OneEach
  <2>2. NoPackets(s.then) /\ NoPackets(s.else)
    BY <1>1, <2>1, QuietNext
  <2> HIDE DEF s
  <2> QED
    BY <1>2, <2>1, <2>2, QuietJoin
<1>8. CASE Follow(c) \/ StoreElem(c) \/ LoadField(c) \/ StoreField(c) \/ PrintLine(c)
  <2>1. GoOn(c)
    BY <1>8 DEF Follow, StoreElem, LoadField, StoreField, PrintLine
  <2> QED
    BY <1>2, <1>3, <2>1
<1>9. CASE RaiseException(c) \/ ReturnFromMain(c)
  <2>1. Catch(c) \/ todo'[c] = <<>>
    BY <1>9 DEF RaiseException, ReturnFromMain, OneEach
  <2> QED
    BY <1>2, <1>4, <2>1, Plain0
<1> QED
  BY <1>5, <1>6, <1>7, <1>8, <1>9 DEF Statement

(* a cond whose clauses are quiet *)
LEMMA QuietCond ==
  ASSUME NEW clauses, Len(clauses) \in Nat, NEW otherwise, NoPackets(otherwise),
         \A i \in 1 .. Len(clauses) : NoPackets(clauses[i].body)
  PROVE  NoPackets(Cond(clauses, otherwise))
<1> DEFINE n == Len(clauses)
<1>1. PICK ifs : IfsOf(ifs, clauses, otherwise) /\ Cond(clauses, otherwise) = ifs[1]
  BY CondIsIfs
<1> DEFINE Ks == {k \in Nat : k <= n => NoPackets(ifs[n + 1 - k])}
<1>2. 0 \in Ks
  BY <1>1 DEF IfsOf
<1>3. ASSUME NEW k \in Nat, k \in Ks  PROVE k + 1 \in Ks
  <2> SUFFICES ASSUME k + 1 <= n  PROVE NoPackets(ifs[n + 1 - (k + 1)])
    OBVIOUS
  <2> DEFINE i == n - k
  <2>1. i \in 1 .. n /\ n + 1 - (k + 1) = i /\ n + 1 - k = i + 1 /\ k <= n
    OBVIOUS
  <2>2. NoPackets(ifs[i + 1])
    BY <1>3, <2>1
  <2>3. ifs[i] = <<If(clauses[i].a, clauses[i].rel, clauses[i].b, clauses[i].body, ifs[i + 1])>>
    BY <1>1, <2>1 DEF IfsOf
  <2> HIDE DEF i, Ks
  <2>4. NoPackets(clauses[i].body)
    BY <2>1
  <2>5. NoPackets(ifs[i])
    BY <2>2, <2>3, <2>4, QuietIf
  <2> QED
    BY <2>1, <2>5
<1>4. n \in Ks
  <2> HIDE DEF Ks
  <2> QED
    BY <1>2, <1>3, NatSetInduction
<1>5. n + 1 - n = 1
  OBVIOUS
<1> QED
  BY <1>1, <1>4, <1>5

IsList(seqs, n) == seqs = [i \in 1 .. n |-> seqs[i]]

AreJoined(parts, seqs, n) ==
  /\ parts[1] = seqs[1] /\ FlattenSeq(seqs) = parts[n]
  /\ \A i \in 2 .. n : parts[i] = parts[i - 1] \o seqs[i]

LEMMA FlattenIs ==
  ASSUME NEW n \in Nat \ {0}, NEW seqs, IsList(seqs, n)
  PROVE  \E parts : AreJoined(parts, seqs, n)
<1> DEFINE Part(f, i) == IF i = 1 THEN seqs[i] ELSE f[i - 1] \o seqs[i]
           Ks == {k \in Nat : \E f : f = [i \in 1 .. k |-> Part(f, i)]}
<1>1. 0 \in Ks
  <2> DEFINE f == [i \in 1 .. 0 |-> 0]
  <2>1. f = [i \in 1 .. 0 |-> Part(f, i)]
    OBVIOUS
  <2> QED
    BY <2>1
<1>2. ASSUME NEW k \in Nat, k \in Ks  PROVE k + 1 \in Ks
  <2>1. PICK f : f = [i \in 1 .. k |-> Part(f, i)]
    BY <1>2
  <2> DEFINE g == [i \in 1 .. k + 1 |-> IF i \in 1 .. k THEN f[i] ELSE Part(f, i)]
  <2>2. \A i \in 1 .. k + 1 : i # 1 => i - 1 \in 1 .. k /\ g[i - 1] = f[i - 1]
    OBVIOUS
  <2>3. \A i \in 1 .. k + 1 : Part(g, i) = Part(f, i)
    BY <2>2
  <2>4. \A i \in 1 .. k : f[i] = Part(f, i)
    BY <2>1
  <2>5. g = [i \in 1 .. k + 1 |-> Part(f, i)]
    BY <2>4
  <2>6. g = [i \in 1 .. k + 1 |-> Part(g, i)]
    BY <2>3, <2>5
  <2>7. k + 1 \in Nat
    OBVIOUS
  <2> HIDE DEF g, Part
  <2> QED
    BY <2>6, <2>7
<1>3. n \in Ks
  <2> HIDE DEF Ks
  <2> QED
    BY <1>1, <1>2, NatSetInduction
<1>4. PICK f : f = [i \in 1 .. n |-> Part(f, i)]
  BY <1>3
<1> DEFINE flatten == CHOOSE g : g = [i \in 1 .. n |-> Part(g, i)]
<1>5. flatten = [i \in 1 .. n |-> Part(flatten, i)]
  BY <1>4
<1>6. Len(seqs) = n
  BY DEF IsList
<1>7. FlattenSeq(seqs) = flatten[n]
  BY <1>6 DEF FlattenSeq
<1> HIDE DEF flatten
<1>8. \A i \in 1 .. n : flatten[i] = Part(flatten, i)
  <2> HIDE DEF Part
  <2> QED
    BY <1>5
<1>9. 1 \in 1 .. n /\ \A i \in 2 .. n : i \in 1 .. n /\ i # 1
  OBVIOUS
<1> QED
  BY <1>7, <1>8, <1>9 DEF AreJoined

LEMMA QuietFlatten ==
  ASSUME NEW n \in Nat \ {0}, NEW seqs, IsList(seqs, n),
         \A i \in 1 .. n : NoPackets(seqs[i])
  PROVE  NoPackets(FlattenSeq(seqs))
<1>1. PICK parts : AreJoined(parts, seqs, n)
  BY FlattenIs
<1> DEFINE Ks == {k \in Nat : k + 1 <= n => NoPackets(parts[k + 1])}
<1>2. 0 \in Ks
  BY <1>1 DEF AreJoined
<1>3. ASSUME NEW k \in Nat, k \in Ks  PROVE k + 1 \in Ks
  <2> SUFFICES ASSUME k + 1 + 1 <= n  PROVE NoPackets(parts[k + 1 + 1])
    OBVIOUS
  <2> DEFINE i == k + 1 + 1
  <2>1. i \in 2 .. n /\ i \in 1 .. n /\ i - 1 = k + 1 /\ k + 1 <= n
    OBVIOUS
  <2>2. NoPackets(parts[i - 1]) /\ NoPackets(seqs[i]) /\ parts[i] = parts[i - 1] \o seqs[i]
    BY <1>1, <1>3, <2>1 DEF AreJoined
  <2> QED
    BY <2>2, QuietJoin
<1>4. n - 1 \in Ks
  <2>1. n - 1 \in Nat
    OBVIOUS
  <2> HIDE DEF Ks
  <2> QED
    BY <1>2, <1>3, <2>1, NatSetInduction
<1>5. n - 1 + 1 = n /\ n <= n
  OBVIOUS
<1> QED
  BY <1>1, <1>4, <1>5 DEF AreJoined

LEMMA Plains ==
  /\ \A x, a : IsPlain(Set(x, a))
  /\ \A x, a, op, b : IsPlain(Compute(x, a, op, b)) /\ IsPlain(Checked(x, a, op, b))
  /\ \A x, map, k : IsPlain(Lookup(x, map, k)) /\ IsPlain(LookupOr0(x, map, k))
  /\ \A map, k, a, flags : IsPlain(Store(map, k, a, flags))
  /\ \A text, args : IsPlain(Printk(text, args))
  /\ \A x : IsPlain(Ktime(x)) /\ IsPlain(Return(x))
  /\ IsPlain(Raise)
<1> USE DEF IsPlain
<1>1. \A x, a, op, b : IsPlain(Compute(x, a, op, b)) /\ IsPlain(Checked(x, a, op, b))
  BY DEF Compute, Checked
<1>2. \A x, map, k : IsPlain(Lookup(x, map, k)) /\ IsPlain(LookupOr0(x, map, k))
  BY DEF Lookup, LookupOr0
<1>3. \A map, k, a, flags : IsPlain(Store(map, k, a, flags))
  BY DEF Store
<1>4. \A text, args : IsPlain(Printk(text, args))
  BY DEF Printk
<1>5. /\ \A x, a : IsPlain(Set(x, a))
      /\ \A x : IsPlain(Ktime(x)) /\ IsPlain(Return(x))
      /\ IsPlain(Raise)
  BY DEF Set, Ktime, Return, Raise
<1> QED
  BY <1>1, <1>2, <1>3, <1>4, <1>5

LEMMA Quiet2 ==
  ASSUME NEW a, NEW b, NoPackets(<<a>>), NoPackets(<<b>>)
  PROVE  NoPackets(<<a, b>>)
<1> DEFINE T == {a, b}
           q == <<a, b>>
<1>1. q \in Seq(T) /\ \A s \in T : NoPackets(<<s>>)
  OBVIOUS
<1> HIDE DEF T, q
<1>2. NoPackets(q)
  BY <1>1, QuietTuple
<1> QED
  BY <1>2 DEF q

LEMMA Quiet3 ==
  ASSUME NEW a, NEW b, NEW c, NoPackets(<<a>>), NoPackets(<<b>>), NoPackets(<<c>>)
  PROVE  NoPackets(<<a, b, c>>)
<1> DEFINE T == {a, b, c}
           q == <<a, b, c>>
<1>1. q \in Seq(T) /\ \A s \in T : NoPackets(<<s>>)
  OBVIOUS
<1> HIDE DEF T, q
<1>2. NoPackets(q)
  BY <1>1, QuietTuple
<1> QED
  BY <1>2 DEF q

LEMMA Quiet4 ==
  ASSUME NEW a, NEW b, NEW c, NEW d,
         NoPackets(<<a>>), NoPackets(<<b>>), NoPackets(<<c>>), NoPackets(<<d>>)
  PROVE  NoPackets(<<a, b, c, d>>)
<1> DEFINE T == {a, b, c, d}
           q == <<a, b, c, d>>
<1>1. q \in Seq(T) /\ \A s \in T : NoPackets(<<s>>)
  OBVIOUS
<1> HIDE DEF T, q
<1>2. NoPackets(q)
  BY <1>1, QuietTuple
<1> QED
  BY <1>2 DEF q

LEMMA Quiet5 ==
  ASSUME NEW a, NEW b, NEW c, NEW d, NEW e, NoPackets(<<a>>), NoPackets(<<b>>),
         NoPackets(<<c>>), NoPackets(<<d>>), NoPackets(<<e>>)
  PROVE  NoPackets(<<a, b, c, d, e>>)
<1> DEFINE T == {a, b, c, d, e}
           q == <<a, b, c, d, e>>
<1>1. q \in Seq(T) /\ \A s \in T : NoPackets(<<s>>)
  OBVIOUS
<1> HIDE DEF T, q
<1>2. NoPackets(q)
  BY <1>1, QuietTuple
<1> QED
  BY <1>2 DEF q

(* a sequence of clauses whose bodies are quiet *)
QuietClauses(clauses) == \E S : clauses \in Seq(S) /\ \A cl \in S : NoPackets(cl.body)

LEMMA QuietClausesCond ==
  ASSUME NEW clauses, QuietClauses(clauses), NEW otherwise, NoPackets(otherwise)
  PROVE  NoPackets(Cond(clauses, otherwise))
<1>1. PICK S : clauses \in Seq(S) /\ \A cl \in S : NoPackets(cl.body)
  BY DEF QuietClauses
<1>2. Len(clauses) \in Nat /\ \A i \in 1 .. Len(clauses) : clauses[i] \in S
  BY <1>1
<1> QED
  BY <1>1, <1>2, QuietCond

LEMMA QuietClause ==
  ASSUME NEW a, NEW rel, NEW b, NEW body, NoPackets(body)
  PROVE  NoPackets(Clause(a, rel, b, body).body)
  BY DEF Clause

LEMMA QuietThree ==
  ASSUME NEW a, NEW b, NEW c, NoPackets(a.body), NoPackets(b.body), NoPackets(c.body)
  PROVE  QuietClauses(<<a, b, c>>)
<1> DEFINE S == {a, b, c}
           all == <<a, b, c>>
<1>1. all \in Seq(S) /\ \A cl \in S : NoPackets(cl.body)
  OBVIOUS
<1> HIDE DEF S, all
<1>2. QuietClauses(all)
  BY <1>1 DEF QuietClauses
<1> QED
  BY <1>2 DEF all

LEMMA QuietOfThread ==
  ASSUME NEW a, NEW b, NEW c, NEW d, NEW e, NEW f,
         NoPackets(a.body), NoPackets(b.body), NoPackets(c.body),
         NoPackets(d.body), NoPackets(e.body), NoPackets(f.body)
  PROVE  NoPackets(OfThread(<<a, b, c, d, e, f>>))
<1> DEFINE z == Clause(V("pid"), "==", I(0), <<>>)
           S == {z, a, b, c, d, e, f}
           all == <<z>> \o <<a, b, c, d, e, f>>
           begin == <<Set("pid", V("pid_tgid")), Set("syscall_id", V("ctx.id"))>>
<1>1. NoPackets(z.body)
  BY Plain0, QuietClause
<1>2. OfThread(<<a, b, c, d, e, f>>) = (begin \o Cond(all, <<>>)) \o <<Return(0)>>
  BY DEF OfThread
<1>3. NoPackets(begin) /\ NoPackets(<<Return(0)>>)
  BY Plains, Plain1, Quiet2
<1> HIDE DEF z
<1>4. all \in Seq(S) /\ \A cl \in S : NoPackets(cl.body)
  BY <1>1
<1> HIDE DEF all, begin, S
<1>5. QuietClauses(all)
  BY <1>4 DEF QuietClauses
<1>6. NoPackets(Cond(all, <<>>))
  BY <1>5, Plain0, QuietClausesCond
<1> QED
  BY <1>2, <1>3, <1>6, QuietJoin

LEMMA QuietCountAndAlert ==
  ASSUME NEW own, NEW other, NEW text
  PROVE  NoPackets(CountAndAlert(own, other, text))
<1> DEFINE a == LookupOr0("count", own, V("pid"))
           b == Compute("new_count", V("count"), "+", I(1))
           c == Store(own, V("pid"), V("new_count"), "BPF_ANY")
           d == LookupOr0("total", other, V("pid"))
           then == <<Store("alert_flag", V("pid"), I(1), "BPF_ANY"),
                     Printk("alert", <<"pid", "total_calls">>)>>
           else == <<Store("alert_flag", V("pid"), I(0), "BPF_ANY")>>
           f == If(V("total_calls"), ">", I(ALERT_THRESHOLD), then, else)
           g == Printk(text, <<"pid", "new_count">>)
           T == {a, b, c, d, Total, f, g}
<1>1. NoPackets(then) /\ NoPackets(else)
  BY Plains, Plain1, Quiet2
<1>2. NoPackets(<<f>>)
  <2> HIDE DEF then, else
  <2> QED
    BY <1>1, QuietIf
<1>3. /\ IsPlain(a) /\ IsPlain(b) /\ IsPlain(c) /\ IsPlain(d) /\ IsPlain(Total)
      /\ IsPlain(g)
  BY Plains DEF Total
<1>4. CountAndAlert(own, other, text) = <<a, b, c, d, Total, f, g>>
  BY DEF CountAndAlert
<1> HIDE DEF a, b, c, d, f, g
<1>5. \A s \in T : NoPackets(<<s>>)
  BY <1>2, <1>3, Plain1
<1>6. <<a, b, c, d, Total, f, g>> \in Seq(T)
  OBVIOUS
<1> HIDE DEF T
<1> QED
  BY <1>4, <1>5, <1>6, QuietTuple

LEMMA QuietSyscalls ==
  /\ \A id, own, other, text : NoPackets(OnSyscall(id, CountAndAlert(own, other, text)).body)
  /\ \A id, map, text : NoPackets(OnSyscall(id, CountOnly(map, text)).body)
<1>1. \A own, other, text : NoPackets(CountAndAlert(own, other, text))
  BY QuietCountAndAlert
<1>2. \A map, text : NoPackets(CountOnly(map, text))
  BY Plains, Plain1, Quiet4 DEF CountOnly
<1>3. \A id, body : OnSyscall(id, body).body = body
  BY DEF OnSyscall, Clause
<1> QED
  BY <1>1, <1>2, <1>3

LEMMA QuietMonitors ==
  NoPackets(DiskMonitor) /\ NoPackets(NetworkMonitor) /\ NoPackets(MemoryMonitor)
<1>1. /\ NoPackets(OnRead.body) /\ NoPackets(OnWrite.body) /\ NoPackets(OnPread64.body)
      /\ NoPackets(OnPwrite64.body) /\ NoPackets(OnReadv.body) /\ NoPackets(OnWritev.body)
  BY QuietSyscalls DEF OnRead, OnWrite, OnPread64, OnPwrite64, OnReadv, OnWritev
<1>2. /\ NoPackets(OnSendto.body) /\ NoPackets(OnSendmsg.body) /\ NoPackets(OnSendmmsg.body)
      /\ NoPackets(OnRecvfrom.body) /\ NoPackets(OnRecvmsg.body) /\ NoPackets(OnRecvmmsg.body)
  BY QuietSyscalls DEF OnSendto, OnSendmsg, OnSendmmsg, OnRecvfrom, OnRecvmsg, OnRecvmmsg
<1>3. NoPackets(OnMmap.body) /\ NoPackets(OnMunmap.body) /\ NoPackets(OnBrk.body)
  BY QuietSyscalls DEF OnMmap, OnMunmap, OnBrk
<1>4. NoPackets(DiskMonitor) /\ NoPackets(NetworkMonitor)
  BY <1>1, <1>2, QuietOfThread DEF DiskMonitor, NetworkMonitor
<1>5. NoPackets(MemoryMonitor)
  <2> DEFINE begin == <<Set("syscall_id", V("ctx.id")), Set("pid", V("pid_tgid"))>>
  <2>1. NoPackets(begin) /\ NoPackets(<<Return(0)>>)
    BY Plains, Plain1, Quiet2
  <2>2. NoPackets(Cond(<<OnMmap, OnMunmap, OnBrk>>, <<>>))
    BY <1>3, QuietThree, QuietClausesCond, Plain0
  <2>3. MemoryMonitor = (begin \o Cond(<<OnMmap, OnMunmap, OnBrk>>, <<>>)) \o <<Return(0)>>
    BY DEF MemoryMonitor
  <2> HIDE DEF begin
  <2> QED
    BY <2>1, <2>2, <2>3, QuietJoin
<1> QED
  BY <1>4, <1>5

LEMMA QuietCpuMonitor ==
  NoPackets(CpuMonitor)
<1> DEFINE begin == <<Ktime("ts"), Set("prev_pid", V("ctx.prev_pid")),
                      Set("next_pid", V("ctx.next_pid"))>>
           bad == <<Printk("Out of Bounds", <<"next_pid">>)>>
           end == <<Printk("CPU Time", <<"next_pid", "sum">>)>>
           rest == (ChargePrev \o NoteNext) \o end
           limit == I(41943040)
           cl == Clause(V("prev_pid"), ">", limit, bad)
           all == <<cl>>
<1>1. CpuMonitor = (begin \o Cond(all, rest)) \o <<Return(0)>>
  BY DEF CpuMonitor
<1> HIDE DEF limit
<1>2. NoPackets(begin) /\ NoPackets(bad) /\ NoPackets(end) /\ NoPackets(<<Return(0)>>)
  BY Plains, Plain1, Quiet3
<1>3. NoPackets(ChargePrev) /\ NoPackets(NoteNext)
  BY Plains, Plain1, Quiet5 DEF ChargePrev, NoteNext
<1>4. NoPackets(rest)
  BY <1>2, <1>3, QuietJoin
<1>5. NoPackets(cl.body)
  BY <1>2, QuietClause
<1> HIDE DEF begin, bad, end, rest, cl
<1>6. all \in Seq({cl})
  OBVIOUS
<1> HIDE DEF all
<1>7. QuietClauses(all)
  BY <1>5, <1>6 DEF QuietClauses
<1>8. NoPackets(Cond(all, rest))
  BY <1>4, <1>7, QuietClausesCond
<1> QED
  BY <1>2, <1>1, <1>8, QuietJoin

LEMMA QuietForceKill ==
  NoPackets(ForceKill)
<1> DEFINE begin == <<Set("sig", V("ctx.sig")), Set("pid", V("ctx.pid"))>>
           cl == Clause(V("sig"), "==", I(9), StoreKill("BPF_NOEXIST"))
           all == <<cl>>
<1>1. NoPackets(begin) /\ NoPackets(StoreKill("BPF_NOEXIST")) /\ NoPackets(<<Return(0)>>)
  BY Plains, Plain1, Quiet2 DEF StoreKill
<1>2. ForceKill = (begin \o Cond(all, <<>>)) \o <<Return(0)>>
  BY DEF ForceKill
<1>3. NoPackets(cl.body)
  BY <1>1, QuietClause
<1> HIDE DEF begin, cl
<1>4. all \in Seq({cl})
  OBVIOUS
<1> HIDE DEF all
<1>5. QuietClauses(all)
  BY <1>3, <1>4 DEF QuietClauses
<1>6. NoPackets(Cond(all, <<>>))
  BY <1>5, Plain0, QuietClausesCond
<1> QED
  BY <1>1, <1>2, <1>6, QuietJoin

LEMMA QuietMaps ==
  NoPackets(Maps)
<1> DEFINE T == {LookUpEntries[i] : i \in 1 .. 8}
           seqs == [i \in 1 .. 8 |-> AddEntry(i)]
<1>1. LookUpEntries \in Seq(T) /\ \A s \in T : NoPackets(<<s>>)
  <2>1. \A i \in 1 .. 8 : IsPlain(LookUpEntries[i])
    BY Plains DEF LookUpEntries
  <2>2. \A s \in T : NoPackets(<<s>>)
    BY <2>1, Plain1
  <2>3. LookUpEntries \in [1 .. 8 -> T]
    BY DEF LookUpEntries
  <2>4. LookUpEntries \in Seq(T)
    <3> HIDE DEF T
    <3>1. 8 \in Nat
      OBVIOUS
    <3> QED
      BY <2>3, <3>1, SeqDef
  <2> QED
    BY <2>2, <2>4
<1>2. NoPackets(LookUpEntries)
  <2> HIDE DEF T
  <2> QED
    BY <1>1, QuietTuple
<1>3. \A i \in 1 .. 8 : NoPackets(seqs[i])
  BY Plains, Plain1, Quiet2 DEF AddEntry
<1>4. IsList(seqs, 8)
  BY DEF IsList
<1>5. Maps = (LookUpEntries \o FlattenSeq(seqs)) \o <<Return(0)>>
  BY DEF Maps, StoreEntries
<1>6. 8 \in Nat \ {0}
  OBVIOUS
<1> HIDE DEF seqs
<1>7. NoPackets(FlattenSeq(seqs))
  BY <1>3, <1>4, <1>6, QuietFlatten
<1>8. NoPackets(<<Return(0)>>)
  BY Plains, Plain1
<1> QED
  BY <1>2, <1>5, <1>7, <1>8, QuietJoin

LEMMA QuietFact ==
  NoPackets(Fact)
<1> DEFINE q1 == <<Set("f1", I(1))>>
           q2 == <<Raise>> \o <<Checked("f1", V("x1"), "*", V("f0"))>>
           i1 == If(V("x1"), "==", I(1), q1, q2)
           s1 == Compute("x1", V("id"), "-", I(1))
           fuel1 == <<s1, i1>>
           q3 == <<Set("b", I(1))>>
           q4 == fuel1 \o <<Checked("b", V("id"), "*", V("f1"))>>
           i2 == If(V("id"), "==", I(1), q3, q4)
           begin == <<Set("id", V("ctx.id"))>>
           end == <<Checked("c", V("a"), "+", V("b")), Printk("", <<"c">>), Return(0)>>
<1>1. /\ NoPackets(q1) /\ NoPackets(q3) /\ NoPackets(begin) /\ NoPackets(<<s1>>)
      /\ NoPackets(<<Checked("b", V("id"), "*", V("f1"))>>)
  BY Plains, Plain1
<1>2. NoPackets(end) /\ NoPackets(FactOfConst)
  BY Plains, Plain1, Quiet2, Quiet3 DEF FactOfConst
<1>3. NoPackets(q2)
  BY Plains, Plain1, QuietJoin
<1>4. NoPackets(<<i1>>)
  <2> HIDE DEF q1, q2
  <2> QED
    BY <1>1, <1>3, QuietIf
<1>5. NoPackets(fuel1)
  <2> HIDE DEF i1, s1
  <2> QED
    BY <1>1, <1>4, Quiet2
<1>6. NoPackets(q4)
  <2> HIDE DEF fuel1
  <2> QED
    BY <1>1, <1>5, QuietJoin
<1>7. NoPackets(<<i2>>)
  <2> HIDE DEF q3, q4
  <2> QED
    BY <1>1, <1>6, QuietIf
<1>8. Fact = ((begin \o FactOfConst) \o <<i2>>) \o end
  BY DEF Fact, FactFuel2, FactFuel1, FactFuel0
<1> HIDE DEF begin, i2, end
<1> QED
  BY <1>1, <1>2, <1>7, <1>8, QuietJoin

LEMMA QuietListSyscalls ==
  NoPackets(ListSyscalls)
<1> DEFINE a == Clause(V("id"), "==", I(62), <<Printk("enter_kill", <<>>)>>)
           b == Clause(V("id"), "==", I(83), <<Printk("enter_mkdir", <<>>)>>)
           c == Clause(V("id"), "==", I(318), <<Printk("enter_getrandom", <<>>)>>)
           begin == <<Set("id", V("ctx.id"))>>
<1>1. NoPackets(a.body) /\ NoPackets(b.body) /\ NoPackets(c.body)
  BY Plains, Plain1, QuietClause
<1>2. NoPackets(begin) /\ NoPackets(<<Return(0)>>)
  BY Plains, Plain1
<1>3. ListSyscalls = (begin \o Cond(<<a, b, c>>, <<>>)) \o <<Return(0)>>
  BY DEF ListSyscalls
<1> HIDE DEF a, b, c, begin
<1>4. NoPackets(Cond(<<a, b, c>>, <<>>))
  BY <1>1, Plain0, QuietThree, QuietClausesCond
<1> QED
  BY <1>2, <1>3, <1>4, QuietJoin

LEMMA QuietPrograms ==
  ASSUME NEW p \in DOMAIN Examples, p \notin {"DropUdp", "TrafficCounter"}
  PROVE  NoPackets(Examples[p].main)
<1>1. \A hook, main, ms : Example(hook, main, ms).main = main
  BY DEF Example
<1>2. \A map, hook, main, ms : Printing(map, Example(hook, main, ms)).main = main
  BY DEF Example, Printing
<1>3. CASE p \in {"DiskMonitor", "NetworkMonitor", "MemoryMonitor"}
  <2>1. Examples[p].main \in {DiskMonitor, NetworkMonitor, MemoryMonitor}
    BY <1>1, <1>3 DEF Examples
  <2> QED
    BY <2>1, QuietMonitors
<1>4. CASE p \in {"CpuMonitor", "ForceKill", "Maps", "Fact", "ListSyscalls"}
  <2>1. Examples[p].main \in {CpuMonitor, ForceKill, Maps, Fact, ListSyscalls}
    BY <1>1, <1>2, <1>4 DEF Examples
  <2> QED
    BY <2>1, QuietCpuMonitor, QuietForceKill, QuietMaps, QuietFact, QuietListSyscalls
<1>5. CASE p \in {"CountSyscalls", "CtxAccess", "GetPid", "HelloWorld", "Case"}
  <2>1. Examples[p].main \in {CountSyscalls, CtxAccess, GetPid, HelloWorld, Case}
    BY <1>1, <1>5 DEF Examples
  <2>2. NoPackets(CountSyscalls)
    BY Plains, Plain1, Quiet5 DEF CountSyscalls
  <2>3. NoPackets(CtxAccess) /\ NoPackets(GetPid)
    BY Plains, Plain1, Quiet4 DEF CtxAccess, GetPid
  <2>4. NoPackets(HelloWorld) /\ NoPackets(Case)
    BY Plains, Plain1, Quiet2, Quiet3 DEF HelloWorld, Case
  <2> QED
    BY <2>1, <2>2, <2>3, <2>4
<1>6. CASE p \in {"Cond", "IfThenElse", "Cp", "Dce", "Basic"}
  <2>1. Examples[p].main \in {CondExample, IfThenElse, Cp, Dce, Basic}
    BY <1>1, <1>6 DEF Examples
  <2>2. NoPackets(CondExample) /\ NoPackets(IfThenElse)
    BY Plains, Plain1, Quiet2 DEF CondExample, IfThenElse
  <2>3. NoPackets(Cp) /\ NoPackets(Dce) /\ NoPackets(Basic)
    BY Plains, Plain1 DEF Cp, Dce, Basic
  <2> QED
    BY <2>1, <2>2, <2>3
<1>7. DOMAIN Examples =
        {"DiskMonitor", "NetworkMonitor", "MemoryMonitor", "CpuMonitor", "CountSyscalls",
         "TrafficCounter", "ForceKill", "Maps", "DropUdp", "Fact", "ListSyscalls", "CtxAccess",
         "GetPid", "HelloWorld", "Case", "Cond", "IfThenElse", "Cp", "Dce", "Basic"}
  BY DEF Examples
<1> QED
  BY <1>3, <1>4, <1>5, <1>6, <1>7

(***************************************************************************)
(* Where traffic_counter is: it has not read the address yet, or it is     *)
(* past the one place where it touches the packet.                         *)
(***************************************************************************)
LoadMac == Load("src", "h_source", 10)
FirstTest == TooShort(14, XDP_ABORTED)
SecondTest == TooShort(14, XDP_PASS)
GetCount == LookupOr0("count", "TrafficCount", V("src"))
AddFrame == Compute("count", V("count"), "+", I(1))
PutCount == Store("TrafficCount", V("src"), V("count"), "BPF_ANY")
FromGet == <<GetCount, AddFrame, PutCount, Return(XDP_PASS)>>
FromLoad == <<LoadMac, GetCount, AddFrame, PutCount, Return(XDP_PASS)>>
FromSecond == <<SecondTest, LoadMac, GetCount, AddFrame, PutCount, Return(XDP_PASS)>>

FramePoint(q, e) ==
  \/ NoPackets(q)
  \/ q # <<>> /\ Head(q).op = "return"
  \/ /\ e["size"] \in Int
     /\ q = TrafficCounter \/ (e["size"] >= 14 /\ q \in {FromSecond, FromLoad})

LEMMA FirstOfJoin ==
  ASSUME NEW S, NEW q \in Seq(S), NEW s
  PROVE  <<s>> \o q # <<>> /\ Head(<<s>> \o q) = s /\ <<>> \o q = q
  OBVIOUS

LEMMA FrameParts ==
  /\ Head(TrafficCounter) = FirstTest /\ Tail(TrafficCounter) = FromSecond
  /\ Head(FromSecond) = SecondTest /\ Tail(FromSecond) = FromLoad
  /\ Head(FromLoad) = LoadMac /\ Tail(FromLoad) = FromGet
  /\ \E S : FromSecond \in Seq(S)
  /\ \E S : FromLoad \in Seq(S)
<1>1. TrafficCounter =
        <<FirstTest, SecondTest, LoadMac, GetCount, AddFrame, PutCount, Return(XDP_PASS)>>
  BY DEF TrafficCounter, FirstTest, SecondTest, LoadMac, GetCount, AddFrame, PutCount
<1>2. Head(TrafficCounter) = FirstTest /\ Tail(TrafficCounter) = FromSecond
  BY <1>1 DEF FromSecond
<1>3. Head(FromSecond) = SecondTest /\ Tail(FromSecond) = FromLoad
  BY DEF FromSecond, FromLoad
<1>4. Head(FromLoad) = LoadMac /\ Tail(FromLoad) = FromGet
  BY DEF FromLoad, FromGet
<1> DEFINE S == {SecondTest, LoadMac, GetCount, AddFrame, PutCount, Return(XDP_PASS)}
<1>5. FromSecond \in Seq(S) /\ FromLoad \in Seq(S)
  BY DEF FromSecond, FromLoad
<1> HIDE DEF S
<1> QED
  BY <1>2, <1>3, <1>4, <1>5

LEMMA FrameSteps ==
  ASSUME OneEach, NEW c \in Cpus, Statement(c), FramePoint(todo[c], env[c])
  PROVE  FramePoint(todo'[c], env'[c])
<1> DEFINE e == env[c]
           q == todo[c]
<1>1. CASE NoPackets(q)
  BY <1>1, QuietSteps DEF FramePoint
<1>2. CASE q # <<>> /\ Head(q).op = "return"
  <2>1. ReturnFromMain(c)
    BY <1>2, Dispatch DEF Is
  <2>2. todo'[c] = <<>>
    BY <2>1 DEF ReturnFromMain, OneEach
  <2> QED
    BY <2>2, Plain0 DEF FramePoint
<1>3. ASSUME NEW S, Tail(q) \in Seq(S), NEW verdict, Head(q) = TooShort(14, verdict),
             e["size"] \in Int
      PROVE  /\ env'[c] = e
             /\ \/ todo'[c] # <<>> /\ Head(todo'[c]).op = "return"
                \/ e["size"] >= 14 /\ todo'[c] = Tail(q)
  <2> DEFINE ret == <<Return(verdict)>>
             none == <<>>
             r == Tail(q)
  <2>1. Head(q) = If(V("size"), "<", I(14), ret, none)
    BY <1>3 DEF TooShort
  <2>2. Return(verdict).op = "return"
    BY DEF Return
  <2>3. none \o r = r /\ ret \o r # <<>> /\ Head(ret \o r) = Return(verdict)
    <3> HIDE DEF r
    <3> QED
      BY <1>3, FirstOfJoin DEF ret, none, r
  <2> HIDE DEF ret, none
  <2>4. /\ env'[c] = e
        /\ Holds(Value(c, V("size")), "<", Value(c, I(14))) => todo'[c] = ret \o r
        /\ ~Holds(Value(c, V("size")), "<", Value(c, I(14))) => todo'[c] = none \o r
    BY <2>1, IfGoes
  <2>5. Holds(Value(c, V("size")), "<", Value(c, I(14))) <=> e["size"] < 14
    BY <1>3, HeldSizes
  <2> HIDE DEF r
  <2>6. /\ env'[c] = e
        /\ e["size"] < 14 => todo'[c] = ret \o r
        /\ ~(e["size"] < 14) => todo'[c] = none \o r
    BY <2>4, <2>5, Zenon DEF r
  <2>7. e["size"] >= 14 \/ e["size"] < 14
    BY <1>3
  <2> QED
    BY <2>2, <2>3, <2>6, <2>7 DEF r
<1>4. CASE e["size"] \in Int /\ q = TrafficCounter
  <2>1. PICK S : Tail(q) \in Seq(S)
    BY <1>4, FrameParts
  <2>2. Head(q) = TooShort(14, XDP_ABORTED) /\ Tail(q) = FromSecond
    BY <1>4, FrameParts DEF FirstTest
  <2>3. /\ env'[c] = e
        /\ \/ todo'[c] # <<>> /\ Head(todo'[c]).op = "return"
           \/ e["size"] >= 14 /\ todo'[c] = Tail(q)
    BY <1>3, <1>4, <2>1, <2>2
  <2> QED
    BY <1>4, <2>2, <2>3 DEF FramePoint
<1>5. CASE e["size"] \in Int /\ e["size"] >= 14 /\ q = FromSecond
  <2>1. PICK S : Tail(q) \in Seq(S)
    BY <1>5, FrameParts
  <2>2. Head(q) = TooShort(14, XDP_PASS) /\ Tail(q) = FromLoad
    BY <1>5, FrameParts DEF SecondTest
  <2>3. /\ env'[c] = e
        /\ \/ todo'[c] # <<>> /\ Head(todo'[c]).op = "return"
           \/ e["size"] >= 14 /\ todo'[c] = Tail(q)
    BY <1>3, <1>5, <2>1, <2>2
  <2> QED
    BY <1>5, <2>2, <2>3 DEF FramePoint
<1>6. CASE q = FromLoad
  <2>1. Head(q) = Load("src", "h_source", 10) /\ Tail(q) = FromGet
    BY <1>6, FrameParts DEF LoadMac
  <2>2. Becomes(c, Tail(q), With(e, "src", e["h_source"]), result[c])
    BY <2>1, OfLoad
  <2>3. NoPackets(FromGet)
    BY Plains, Plain1, Quiet4 DEF FromGet, GetCount, AddFrame, PutCount
  <2> QED
    BY <2>1, <2>2, <2>3 DEF FramePoint, Becomes
<1> QED
  BY <1>1, <1>2, <1>4, <1>5, <1>6 DEF FramePoint

LEMMA FrameInBounds ==
  ASSUME NEW q, NEW e, q # <<>>, FramePoint(q, e), Head(q).op \in {"load", "storePacket"}
  PROVE  Head(q).end <= e["size"]
<1>2. CASE NoPackets(q)
  BY <1>2, QuietNext
<1>3. CASE q = TrafficCounter \/ q = FromSecond
  <2>1. Head(q) = TooShort(14, XDP_ABORTED) \/ Head(q) = TooShort(14, XDP_PASS)
    BY <1>3, FrameParts DEF FirstTest, SecondTest
  <2> QED
    BY <2>1 DEF TooShort, If
<1>4. CASE e["size"] \in Int /\ e["size"] >= 14 /\ q = FromLoad
  <2>1. Head(q).end = 10
    BY <1>4, FrameParts DEF LoadMac, Load
  <2> QED
    BY <1>4, <2>1
<1> QED
  BY <1>2, <1>3, <1>4 DEF FramePoint

(* What comes to traffic_counter are frames, of some length. *)
InputsAreFrames == \A p \in Inputs["TrafficCounter"] : p["size"] \in Int

BoundsInv ==
  /\ program \in DOMAIN Examples
  /\ IF program = "DropUdp" THEN UdpInv
     ELSE \A c \in Cpus : FramePoint(todo[c], env[c])

LEMMA BoundsInit ==
  Init => BoundsInv
  BY UdpInit, Plain0, GeneratedCAssumption DEF Init, BoundsInv, FramePoint

LEMMA BoundsNext ==
  ASSUME InputsArePackets, InputsAreFrames, OneEach, BoundsInv, [NextC]_vars
  PROVE  BoundsInv'
<1>1. program' = program
  BY NextOneEach
<1>2. CASE program = "DropUdp"
  BY <1>1, <1>2, UdpNext DEF BoundsInv
<1>3. CASE program # "DropUdp"
  <2> SUFFICES ASSUME NEW c \in Cpus  PROVE FramePoint(todo'[c], env'[c])
    BY <1>1, <1>3 DEF BoundsInv
  <2>1. FramePoint(todo[c], env[c])
    BY <1>3 DEF BoundsInv
  <2>2. CASE Waits(c)
    BY <2>1, <2>2 DEF Waits
  <2>3. ASSUME NEW says, IsEvent(says), Begins(c, says)  PROVE FramePoint(todo'[c], env'[c])
    <3>1. todo'[c] = Examples[program].main /\ env'[c] = says
      BY <2>3 DEF Begins
    <3>2. CASE program = "TrafficCounter"
      <4>1. /\ Examples["TrafficCounter"].main = TrafficCounter
            /\ Examples["TrafficCounter"].hook = "xdp"
        BY DEF Examples, Printing, Example
      <4>2. says["size"] \in Int
        BY <2>3, <3>2, <4>1 DEF IsEvent, Hook, InputsAreFrames
      <4> QED
        BY <3>1, <3>2, <4>1, <4>2 DEF FramePoint
    <3>3. CASE program # "TrafficCounter"
      BY <1>3, <3>1, <3>3, QuietPrograms DEF BoundsInv, FramePoint
    <3> QED
      BY <3>2, <3>3
  <2>4. CASE Statement(c)
    BY <2>1, <2>4, FrameSteps
  <2> QED
    BY <2>2, <2>3, <2>4, StepOfOne
<1> QED
  BY <1>2, <1>3

(***************************************************************************)
(* Whatever its length and whatever it says, no program of examples/ reads *)
(* or writes a byte after the packet's last one.                           *)
(***************************************************************************)
THEOREM NothingPastPackets ==
  ASSUME InputsArePackets, InputsAreFrames
  PROVE  SpecC => []PacketInBounds
<1> DEFINE Inv == OneEach /\ BoundsInv
<1>1. Init => Inv
  BY InitOneEach, BoundsInit
<1>2. Inv /\ [NextC]_vars => Inv'
  BY NextOneEach, BoundsNext
<1>3. Inv => PacketInBounds
  <2> SUFFICES ASSUME Inv, NEW c \in Cpus, Is(c, "load") \/ Is(c, "storePacket")
               PROVE  Head(todo[c]).end <= env[c]["size"]
    BY DEF PacketInBounds
  <2>1. todo[c] # <<>> /\ Head(todo[c]).op \in {"load", "storePacket"}
    BY DEF Is, IsIdle
  <2>2. UdpPoint(todo[c], env[c]) \/ FramePoint(todo[c], env[c])
    BY DEF BoundsInv, UdpInv
  <2> QED
    BY <2>1, <2>2, UdpMayDo, FrameInBounds DEF MayDo
<1> QED
  BY <1>1, <1>2, <1>3, PTL DEF SpecC

-----------------------------------------------------------------------------
(*************************************************************************)
(* More statements, by their kind, and tuples of more of them            *)
(*************************************************************************)

LEMMA OfCompute ==
  ASSUME OneEach, NEW c \in Cpus, Statement(c), NEW x, NEW a, NEW op, NEW b,
         Head(todo[c]) = Compute(x, a, op, b)
  PROVE  /\ \E n : /\ n \in {Apply(Value(c, a), op, Value(c, b)),
                             Wrap(Apply(Value(c, a), op, Value(c, b)))}
                   /\ Becomes(c, Tail(todo[c]), With(env[c], x, n), result[c])
         /\ maps' = maps
<1>1. ComputeInt(c)
  BY Dispatch DEF Is, Compute
<1> QED
  BY <1>1 DEF ComputeInt, Compute, Assign, GoOn, OneEach, Becomes

LEMMA OfChecked ==
  ASSUME OneEach, NEW c \in Cpus, Statement(c), NEW x, NEW a, NEW op, NEW b,
         Head(todo[c]) = Checked(x, a, op, b), IsInt(Apply(Value(c, a), op, Value(c, b)))
  PROVE  Becomes(c, Tail(todo[c]), With(env[c], x, Apply(Value(c, a), op, Value(c, b))), result[c])
<1>1. CheckedOperation(c)
  BY Dispatch DEF Is, Checked
<1> DEFINE s == Head(todo[c])
           n == Apply(Value(c, a), op, Value(c, b))
<1>2. s.x = x /\ s.a = a /\ s.f = op /\ s.b = b
  BY DEF Checked
<1> HIDE DEF s
<1>3. /\ todo' = [todo EXCEPT ![c] = Tail(todo[c])]
      /\ env' = [env EXCEPT ![c] = With(env[c], x, n)] /\ result' = result
  BY <1>1, <1>2, Zenon DEF CheckedOperation, Assign, GoOn, s
<1> HIDE DEF n
<1> QED
  BY <1>3 DEF OneEach, Becomes, n

LEMMA OfPrintk ==
  ASSUME OneEach, NEW c \in Cpus, Statement(c), NEW text, NEW args,
         Head(todo[c]) = Printk(text, args)
  PROVE  /\ todo'[c] = Tail(todo[c]) /\ env'[c] = env[c] /\ maps' = maps
         /\ result[c] = NoResult =>
              /\ result'[c].printed = <<Line(text, [i \in DOMAIN args |-> env[c][args[i]]])>>
              /\ result'[c].raised = FALSE
<1>1. PrintLine(c)
  BY Dispatch DEF Is, Printk
<1> DEFINE s == Head(todo[c])
<1>2. s.text = text /\ s.args = args
  BY DEF Printk
<1> HIDE DEF s
<1> DEFINE line == Line(text, [i \in DOMAIN args |-> env[c][args[i]]])
<1>3. result' = [result EXCEPT ![c].printed = Append(@, line)]
  BY <1>1, <1>2, Zenon DEF PrintLine, Line, s
<1>4. /\ todo' = [todo EXCEPT ![c] = Tail(todo[c])] /\ UNCHANGED <<maps, env>>
  BY <1>1 DEF PrintLine, GoOn
<1> HIDE DEF line
<1>5. result[c] = NoResult => result'[c].printed = <<line>> /\ result'[c].raised = FALSE
  BY <1>3 DEF OneEach, NoResult
<1>6. todo'[c] = Tail(todo[c]) /\ env'[c] = env[c] /\ maps' = maps
  BY <1>4 DEF OneEach
<1> QED
  BY <1>5, <1>6, Zenon DEF line

LEMMA OfRaise ==
  ASSUME OneEach, NEW c \in Cpus, Statement(c), Head(todo[c]) = Raise
  PROVE  Becomes(c, <<Return(0)>>, env[c], [result[c] EXCEPT !.raised = TRUE])
<1>1. RaiseException(c)
  BY Dispatch DEF Is, Raise
<1>2. /\ todo' = [todo EXCEPT ![c] = <<Return(0)>>] /\ UNCHANGED env
      /\ result' = [result EXCEPT ![c].raised = TRUE]
  BY <1>1 DEF RaiseException, Catch
<1> QED
  BY <1>2 DEF OneEach, Becomes

LEMMA Join12 ==
  ASSUME NEW a, NEW b, NEW c
  PROVE  <<a>> \o <<b, c>> = <<a, b, c>>
<1> DEFINE S == {a, b, c}
           s == <<a>>
           t == <<b, c>>
           u == <<a, b, c>>
<1>1. s \in Seq(S) /\ t \in Seq(S) /\ u \in Seq(S)
  OBVIOUS
<1>2. Len(s) = 1 /\ Len(t) = 2 /\ Len(u) = 3
  OBVIOUS
<1>3. /\ u[1] = s[1]
      /\ u[2] = t[1] /\ u[3] = t[2]
  OBVIOUS
<1> HIDE DEF S, s, t, u
<1>4. Len(u) = Len(s) + Len(t)
  BY <1>2
<1>5. \A i \in 1 .. Len(s) : u[i] = s[i]
  BY <1>2, <1>3
<1>6. \A i \in 1 .. Len(t) : u[Len(s) + i] = t[i]
  BY <1>2, <1>3
<1>7. s \o t = u
  BY <1>1, <1>4, <1>5, <1>6, JoinedIs, Zenon
<1> QED
  BY <1>7 DEF s, t, u

LEMMA Join14 ==
  ASSUME NEW a, NEW b, NEW c, NEW d, NEW e
  PROVE  <<a>> \o <<b, c, d, e>> = <<a, b, c, d, e>>
<1> DEFINE S == {a, b, c, d, e}
           s == <<a>>
           t == <<b, c, d, e>>
           u == <<a, b, c, d, e>>
<1>1. s \in Seq(S) /\ t \in Seq(S) /\ u \in Seq(S)
  OBVIOUS
<1>2. Len(s) = 1 /\ Len(t) = 4 /\ Len(u) = 5
  OBVIOUS
<1>3. /\ u[1] = s[1]
      /\ u[2] = t[1] /\ u[3] = t[2] /\ u[4] = t[3] /\ u[5] = t[4]
  OBVIOUS
<1> HIDE DEF S, s, t, u
<1>4. Len(u) = Len(s) + Len(t)
  BY <1>2
<1>5. \A i \in 1 .. Len(s) : u[i] = s[i]
  BY <1>2, <1>3
<1>6. \A i \in 1 .. Len(t) : u[Len(s) + i] = t[i]
  BY <1>2, <1>3
<1>7. s \o t = u
  BY <1>1, <1>4, <1>5, <1>6, JoinedIs, Zenon
<1> QED
  BY <1>7 DEF s, t, u

LEMMA Join24 ==
  ASSUME NEW a, NEW b, NEW c, NEW d, NEW e, NEW f
  PROVE  <<a, b>> \o <<c, d, e, f>> = <<a, b, c, d, e, f>>
<1> DEFINE S == {a, b, c, d, e, f}
           s == <<a, b>>
           t == <<c, d, e, f>>
           u == <<a, b, c, d, e, f>>
<1>1. s \in Seq(S) /\ t \in Seq(S) /\ u \in Seq(S)
  OBVIOUS
<1>2. Len(s) = 2 /\ Len(t) = 4 /\ Len(u) = 6
  OBVIOUS
<1>3. /\ u[1] = s[1] /\ u[2] = s[2]
      /\ u[3] = t[1] /\ u[4] = t[2] /\ u[5] = t[3] /\ u[6] = t[4]
  OBVIOUS
<1> HIDE DEF S, s, t, u
<1>4. Len(u) = Len(s) + Len(t)
  BY <1>2
<1>5. \A i \in 1 .. Len(s) : u[i] = s[i]
  BY <1>2, <1>3
<1>6. \A i \in 1 .. Len(t) : u[Len(s) + i] = t[i]
  BY <1>2, <1>3
<1>7. s \o t = u
  BY <1>1, <1>4, <1>5, <1>6, JoinedIs, Zenon
<1> QED
  BY <1>7 DEF s, t, u

LEMMA Join33 ==
  ASSUME NEW a, NEW b, NEW c, NEW d, NEW e, NEW f
  PROVE  <<a, b, c>> \o <<d, e, f>> = <<a, b, c, d, e, f>>
<1> DEFINE S == {a, b, c, d, e, f}
           s == <<a, b, c>>
           t == <<d, e, f>>
           u == <<a, b, c, d, e, f>>
<1>1. s \in Seq(S) /\ t \in Seq(S) /\ u \in Seq(S)
  OBVIOUS
<1>2. Len(s) = 3 /\ Len(t) = 3 /\ Len(u) = 6
  OBVIOUS
<1>3. /\ u[1] = s[1] /\ u[2] = s[2] /\ u[3] = s[3]
      /\ u[4] = t[1] /\ u[5] = t[2] /\ u[6] = t[3]
  OBVIOUS
<1> HIDE DEF S, s, t, u
<1>4. Len(u) = Len(s) + Len(t)
  BY <1>2
<1>5. \A i \in 1 .. Len(s) : u[i] = s[i]
  BY <1>2, <1>3
<1>6. \A i \in 1 .. Len(t) : u[Len(s) + i] = t[i]
  BY <1>2, <1>3
<1>7. s \o t = u
  BY <1>1, <1>4, <1>5, <1>6, JoinedIs, Zenon
<1> QED
  BY <1>7 DEF s, t, u

LEMMA Join43 ==
  ASSUME NEW a, NEW b, NEW c, NEW d, NEW e, NEW f, NEW g
  PROVE  <<a, b, c, d>> \o <<e, f, g>> = <<a, b, c, d, e, f, g>>
<1> DEFINE S == {a, b, c, d, e, f, g}
           s == <<a, b, c, d>>
           t == <<e, f, g>>
           u == <<a, b, c, d, e, f, g>>
<1>1. s \in Seq(S) /\ t \in Seq(S) /\ u \in Seq(S)
  OBVIOUS
<1>2. Len(s) = 4 /\ Len(t) = 3 /\ Len(u) = 7
  OBVIOUS
<1>3. /\ u[1] = s[1] /\ u[2] = s[2] /\ u[3] = s[3] /\ u[4] = s[4]
      /\ u[5] = t[1] /\ u[6] = t[2] /\ u[7] = t[3]
  OBVIOUS
<1> HIDE DEF S, s, t, u
<1>4. Len(u) = Len(s) + Len(t)
  BY <1>2
<1>5. \A i \in 1 .. Len(s) : u[i] = s[i]
  BY <1>2, <1>3
<1>6. \A i \in 1 .. Len(t) : u[Len(s) + i] = t[i]
  BY <1>2, <1>3
<1>7. s \o t = u
  BY <1>1, <1>4, <1>5, <1>6, JoinedIs, Zenon
<1> QED
  BY <1>7 DEF s, t, u

LEMMA LongFirsts ==
  ASSUME NEW a, NEW b, NEW c, NEW d, NEW e, NEW f, NEW g
  PROVE  /\ Head(<<a, b, c, d, e>>) = a /\ Tail(<<a, b, c, d, e>>) = <<b, c, d, e>>
         /\ Head(<<a, b, c, d, e, f>>) = a /\ Tail(<<a, b, c, d, e, f>>) = <<b, c, d, e, f>>
         /\ Head(<<a, b, c, d, e, f, g>>) = a
         /\ Tail(<<a, b, c, d, e, f, g>>) = <<b, c, d, e, f, g>>
  OBVIOUS

-----------------------------------------------------------------------------
(*************************************************************************)
(* The programs without maps                                             *)
(*************************************************************************)

(* the variable x has the value n *)
Bound(e, x, n) == x \in DOMAIN e /\ e[x] = n

LEMMA BoundWith ==
  ASSUME NEW e, NEW x, NEW n
  PROVE  /\ Bound(With(e, x, n), x, n)
         /\ \A y, m : y # x /\ Bound(e, y, m) => Bound(With(e, x, n), y, m)
  BY DEF Bound, With

LEMMA ValueBound ==
  ASSUME NEW c, NEW x, NEW n, Bound(env[c], x, n)
  PROVE  Value(c, V(x)) = n
  BY ValueOf DEF Bound

(***************************************************************************)
(* Statements that compute what fits an int.                               *)
(***************************************************************************)
LEMMA SetsTo ==
  ASSUME OneEach, NEW c \in Cpus, Statement(c), NEW x, NEW a, Head(todo[c]) = Set(x, a),
         NEW n \in Int, Value(c, a) = n, IsInt(n)
  PROVE  Becomes(c, Tail(todo[c]), With(env[c], x, n), result[c])
<1>1. Wrap(n) = n
  BY WrapOfInt
<1>2. Becomes(c, Tail(todo[c]), With(env[c], x, Wrap(Value(c, a))), result[c])
  BY OfSet
<1> QED
  BY <1>1, <1>2, Zenon

LEMMA ComputesTo ==
  ASSUME OneEach, NEW c \in Cpus, Statement(c), NEW x, NEW a, NEW op, NEW b,
         Head(todo[c]) = Compute(x, a, op, b),
         NEW n \in Int, Apply(Value(c, a), op, Value(c, b)) = n, IsInt(n)
  PROVE  Becomes(c, Tail(todo[c]), With(env[c], x, n), result[c])
<1>1. Wrap(n) = n
  BY WrapOfInt
<1>2. \E r : /\ r \in {Apply(Value(c, a), op, Value(c, b)),
                       Wrap(Apply(Value(c, a), op, Value(c, b)))}
             /\ Becomes(c, Tail(todo[c]), With(env[c], x, r), result[c])
  BY OfCompute
<1>3. PICK r \in {n, Wrap(n)} : Becomes(c, Tail(todo[c]), With(env[c], x, r), result[c])
  BY <1>2, Zenon
<1>4. r = n
  BY <1>1, <1>3
<1> QED
  BY <1>3, <1>4, Zenon

(* Where main is about to return, and where it is about to print first. *)
IsEnd(q, r, o) ==
  \E n : q = <<Return(n)>> /\ Outcome(r.printed, r.raised, n) = o
IsPrint(q, e, o) ==
  \E text, args : /\ q = <<Printk(text, args), Return(0)>>
                  /\ o = Outcome(<<Line(text, [i \in DOMAIN args |-> e[args[i]]])>>, FALSE, 0)

LEMMA Prints ==
  ASSUME OneEach, NEW c \in Cpus, Statement(c), NEW o,
         result[c] = NoResult, IsPrint(todo[c], env[c], o)
  PROVE  env'[c] = env[c] /\ IsEnd(todo'[c], result'[c], o)
<1>1. PICK text, args :
        /\ todo[c] = <<Printk(text, args), Return(0)>>
        /\ o = Outcome(<<Line(text, [i \in DOMAIN args |-> env[c][args[i]]])>>, FALSE, 0)
  BY DEF IsPrint
<1> DEFINE line == Line(text, [i \in DOMAIN args |-> env[c][args[i]]])
           print == Printk(text, args)
<1>2. Head(todo[c]) = print /\ Tail(todo[c]) = <<Return(0)>>
  <2>1. todo[c] = <<print, Return(0)>>
    BY <1>1
  <2> HIDE DEF print
  <2> QED
    BY <2>1
<1>3. todo'[c] = Tail(todo[c]) /\ env'[c] = env[c]
  BY <1>2, OfPrintk
<1>4. result'[c].printed = <<line>> /\ result'[c].raised = FALSE
  BY <1>2, OfPrintk, Zenon
<1> HIDE DEF line
<1>5. o = Outcome(<<line>>, FALSE, 0)
  BY <1>1 DEF line
<1>6. Outcome(result'[c].printed, result'[c].raised, 0) = o
  BY <1>4, <1>5, Zenon
<1> QED
  BY <1>2, <1>3, <1>6, Zenon DEF IsEnd


(* a C int that the event's context says *)
Tells(e, x, n) == n \in Int /\ IsInt(n) /\ Bound(e, x, n)

TakeId == Set("id", V("ctx.id"))
ShowGetrandom == Printk("enter_getrandom", <<>>)
ShowMkdir == Printk("enter_mkdir", <<>>)
ShowKill == Printk("enter_kill", <<>>)
IfGetrandom == If(V("id"), "==", I(318), <<ShowGetrandom>>, <<>>)
IfMkdir == If(V("id"), "==", I(83), <<ShowMkdir>>, <<IfGetrandom>>)
IfKill == If(V("id"), "==", I(62), <<ShowKill>>, <<IfMkdir>>)
ListProgram == <<TakeId, IfKill, Return(0)>>

LEMMA ListSyscallsIs ==
  ListSyscalls = ListProgram
<1> DEFINE clauses == <<Clause(V("id"), "==", I(62), <<ShowKill>>),
                        Clause(V("id"), "==", I(83), <<ShowMkdir>>),
                        Clause(V("id"), "==", I(318), <<ShowGetrandom>>)>>
           none == <<>>
<1>1. /\ Len(clauses) = 3
      /\ clauses[1] = Clause(V("id"), "==", I(62), <<ShowKill>>)
      /\ clauses[2] = Clause(V("id"), "==", I(83), <<ShowMkdir>>)
      /\ clauses[3] = Clause(V("id"), "==", I(318), <<ShowGetrandom>>)
  OBVIOUS
<1>2. ListSyscalls = (<<TakeId>> \o Cond(clauses, none)) \o <<Return(0)>>
  BY DEF ListSyscalls, TakeId, ShowKill, ShowMkdir, ShowGetrandom
<1> HIDE DEF clauses, none
<1>3. PICK ifs : IfsOf(ifs, clauses, none) /\ Cond(clauses, none) = ifs[1]
  BY <1>1, CondIsIfs
<1>4. /\ ifs[4] = none
      /\ ifs[3] = <<If(V("id"), "==", I(318), <<ShowGetrandom>>, ifs[4])>>
      /\ ifs[2] = <<If(V("id"), "==", I(83), <<ShowMkdir>>, ifs[3])>>
      /\ ifs[1] = <<If(V("id"), "==", I(62), <<ShowKill>>, ifs[2])>>
  BY <1>1, <1>3 DEF IfsOf, Clause
<1>5. ifs[1] = <<IfKill>>
  BY <1>4 DEF none, IfKill, IfMkdir, IfGetrandom
<1>6. ListSyscalls = (<<TakeId>> \o <<IfKill>>) \o <<Return(0)>>
  BY <1>2, <1>3, <1>5
<1>7. <<TakeId>> \o <<IfKill>> = <<TakeId, IfKill>>
  BY Join11
<1>8. <<TakeId, IfKill>> \o <<Return(0)>> = <<TakeId, IfKill, Return(0)>>
  BY Join21
<1> QED
  BY <1>6, <1>7, <1>8, Zenon DEF ListProgram

SetCallee == Set("callee", V("pid_tgid"))
PrintPids == Printk("PIDs", <<"callee", "targetid">>)
PrintPid == Printk("Current PID", <<"callee", "five">>)

(* What p means where it is about to end. *)
IsMeant(p, e, o) ==
  \/ p = "Fact" /\ \E id : Tells(e, "ctx.id", id) /\ o = MeaningOfFact(id)
  \/ p = "ListSyscalls" /\ \E id : Tells(e, "ctx.id", id) /\ o = MeaningOfListSyscalls(id)
  \/ /\ p = "CtxAccess"
     /\ o = Outcome(<<Line("PIDs", <<Wrap(e["pid_tgid"]), e["ctx.pid"]>>)>>, FALSE, 0)
  \/ p = "GetPid" /\ o = Outcome(<<Line("Current PID", <<Wrap(e["pid_tgid"]), 5>>)>>, FALSE, 0)
  \/ p = "HelloWorld" /\ o = Outcome(<<Line("Hello World", <<>>)>>, FALSE, 0)
  \/ p = "Case" /\ o = Outcome(<<Line("Result", <<3>>)>>, FALSE, 0)
  \/ p = "Cond" /\ o = Outcome(<<Line("Is 32.", <<>>)>>, FALSE, 0)
  \/ p = "IfThenElse" /\ o = Outcome(<<Line("True", <<>>)>>, FALSE, 0)
  \/ p = "Cp" /\ o = Outcome(<<>>, FALSE, 18)
  \/ p = "Basic" /\ o = Outcome(<<>>, FALSE, 1)

(* Where list_syscalls is, and the three that are but a few statements. *)
ListPoint(q, e, id) ==
  /\ Tells(e, "ctx.id", id)
  /\ \/ q = ListProgram
     \/ /\ Bound(e, "id", id)
        /\ \/ q = <<IfKill, Return(0)>>
           \/ q = <<IfMkdir, Return(0)>> /\ id # 62
           \/ q = <<IfGetrandom, Return(0)>> /\ id # 62 /\ id # 83

StraightPoint(p, q, e) ==
  \/ /\ p = "CtxAccess"
     /\ \E n, pid : /\ Bound(e, "pid_tgid", n) /\ Tells(e, "ctx.pid", pid)
                    /\ \/ q = CtxAccess
                       \/ q = <<SetCallee, PrintPids, Return(0)>> /\ Bound(e, "targetid", pid)
  \/ /\ p = "GetPid"
     /\ \E n : /\ Bound(e, "pid_tgid", n)
               /\ \/ q = GetPid
                  \/ /\ q = <<Set("five", I(5)), PrintPid, Return(0)>>
                     /\ Bound(e, "callee", Wrap(n))
  \/ p = "Case" /\ q = Case

-----------------------------------------------------------------------------
(* The system call is named, or nothing is printed. *)
LEMMA NamesAre ==
  /\ MeaningOfListSyscalls(62) = Outcome(<<Line("enter_kill", <<>>)>>, FALSE, 0)
  /\ MeaningOfListSyscalls(83) = Outcome(<<Line("enter_mkdir", <<>>)>>, FALSE, 0)
  /\ MeaningOfListSyscalls(318) = Outcome(<<Line("enter_getrandom", <<>>)>>, FALSE, 0)
  /\ \A id : id \notin {62, 83, 318} => MeaningOfListSyscalls(id) = Outcome(<<>>, FALSE, 0)
<1>1. \A name : [i \in DOMAIN <<name>> |-> Line(<<name>>[i], <<>>)] = <<Line(name, <<>>)>>
  OBVIOUS
<1>2. [i \in DOMAIN <<>> |-> Line(<<>>[i], <<>>)] = <<>>
  OBVIOUS
<1>3. MeaningOfListSyscalls(62) =
        Outcome([i \in DOMAIN <<"enter_kill">> |-> Line(<<"enter_kill">>[i], <<>>)], FALSE, 0)
  BY DEF MeaningOfListSyscalls
<1>4. MeaningOfListSyscalls(83) =
        Outcome([i \in DOMAIN <<"enter_mkdir">> |-> Line(<<"enter_mkdir">>[i], <<>>)], FALSE, 0)
  BY DEF MeaningOfListSyscalls
<1>5. MeaningOfListSyscalls(318) =
        Outcome([i \in DOMAIN <<"enter_getrandom">> |-> Line(<<"enter_getrandom">>[i], <<>>)],
                FALSE, 0)
  BY DEF MeaningOfListSyscalls
<1>6. ASSUME NEW id, id \notin {62, 83, 318}
      PROVE  MeaningOfListSyscalls(id) =
               Outcome([i \in DOMAIN <<>> |-> Line(<<>>[i], <<>>)], FALSE, 0)
  BY <1>6 DEF MeaningOfListSyscalls
<1> QED
  BY <1>1, <1>2, <1>3, <1>4, <1>5, <1>6

LEMMA PrintsName ==
  ASSUME NEW text, NEW e
  PROVE  IsPrint(<<Printk(text, <<>>), Return(0)>>, e, Outcome(<<Line(text, <<>>)>>, FALSE, 0))
<1>1. [i \in DOMAIN <<>> |-> e[<<>>[i]]] = <<>>
  OBVIOUS
<1>2. Outcome(<<Line(text, <<>>)>>, FALSE, 0) =
        Outcome(<<Line(text, [i \in DOMAIN <<>> |-> e[<<>>[i]]])>>, FALSE, 0)
  BY <1>1
<1> QED
  BY <1>2 DEF IsPrint

LEMMA EndsAt ==
  ASSUME NEW n
  PROVE  IsEnd(<<Return(n)>>, NoResult, Outcome(<<>>, FALSE, n))
  BY DEF IsEnd, NoResult

(* a test of a variable for a number *)
LEMMA TestsFor ==
  ASSUME OneEach, NEW c \in Cpus, Statement(c), NEW x, NEW n, NEW m, NEW then, NEW else,
         Head(todo[c]) = If(V(x), "==", I(m), then, else), Bound(env[c], x, n)
  PROVE  /\ env'[c] = env[c] /\ result'[c] = result[c]
         /\ n = m => todo'[c] = then \o Tail(todo[c])
         /\ n # m => todo'[c] = else \o Tail(todo[c])
<1>1. Becomes(c, (IF Holds(Value(c, V(x)), "==", Value(c, I(m))) THEN then ELSE else)
                   \o Tail(todo[c]), env[c], result[c])
  BY OfIf
<1>2. Value(c, V(x)) = n /\ Value(c, I(m)) = m
  BY ValueBound, ValueOf
<1>3. Holds(n, "==", m) <=> n = m
  BY DEF Holds
<1> QED
  BY <1>1, <1>2, <1>3, Zenon DEF Becomes

LEMMA ListSteps ==
  ASSUME OneEach, NEW c \in Cpus, Statement(c), result[c] = NoResult,
         NEW id, ListPoint(todo[c], env[c], id)
  PROVE  \/ result'[c] = NoResult /\ ListPoint(todo'[c], env'[c], id)
         \/ \E o : /\ IsMeant("ListSyscalls", env'[c], o) /\ result'[c] = NoResult
                   /\ IsPrint(todo'[c], env'[c], o) \/ IsEnd(todo'[c], result'[c], o)
<1>0. id \in Int /\ IsInt(id) /\ Bound(env[c], "ctx.id", id)
  BY DEF ListPoint, Tells
<1>1. CASE todo[c] = ListProgram
  <2>1. Head(todo[c]) = TakeId /\ Tail(todo[c]) = <<IfKill, Return(0)>>
    BY <1>1, Firsts DEF ListProgram
  <2>2. Value(c, V("ctx.id")) = id
    BY <1>0, ValueBound
  <2>3. Becomes(c, Tail(todo[c]), With(env[c], "id", id), result[c])
    BY <1>0, <2>1, <2>2, SetsTo DEF TakeId
  <2>4. Bound(env'[c], "id", id) /\ Bound(env'[c], "ctx.id", id)
    BY <1>0, <2>3, BoundWith DEF Becomes
  <2> QED
    BY <1>0, <2>1, <2>3, <2>4 DEF ListPoint, Tells, Becomes
<1>2. ASSUME NEW m, NEW text, NEW rest,
             todo[c] = <<If(V("id"), "==", I(m), <<Printk(text, <<>>)>>, rest), Return(0)>>,
             Bound(env[c], "id", id),
             MeaningOfListSyscalls(m) = Outcome(<<Line(text, <<>>)>>, FALSE, 0)
      PROVE  /\ env'[c] = env[c] /\ result'[c] = NoResult
             /\ id = m => \E o : /\ IsMeant("ListSyscalls", env'[c], o)
                                 /\ IsPrint(todo'[c], env'[c], o)
             /\ id # m => todo'[c] = rest \o <<Return(0)>>
  <2> DEFINE show == <<Printk(text, <<>>)>>
             test == If(V("id"), "==", I(m), show, rest)
  <2>1. Head(todo[c]) = test /\ Tail(todo[c]) = <<Return(0)>>
    <3>1. todo[c] = <<test, Return(0)>>
      BY <1>2
    <3> HIDE DEF test
    <3> QED
      BY <3>1
  <2>2. /\ env'[c] = env[c] /\ result'[c] = result[c]
        /\ id = m => todo'[c] = show \o <<Return(0)>>
        /\ id # m => todo'[c] = rest \o <<Return(0)>>
    <3> HIDE DEF show
    <3> QED
      BY <1>2, <2>1, TestsFor
  <2>3. show \o <<Return(0)>> = <<Printk(text, <<>>), Return(0)>>
    BY Join11
  <2>4. ASSUME id = m
        PROVE \E o : IsMeant("ListSyscalls", env'[c], o) /\ IsPrint(todo'[c], env'[c], o)
    <3>1. IsMeant("ListSyscalls", env'[c], MeaningOfListSyscalls(id))
      BY <1>0, <2>2, Zenon DEF IsMeant, Tells
    <3>2. IsPrint(todo'[c], env'[c], MeaningOfListSyscalls(id))
      BY <1>2, <2>2, <2>3, <2>4, PrintsName
    <3> QED
      BY <3>1, <3>2
  <2> QED
    BY <2>2, <2>4
<1>3. CASE todo[c] = <<IfKill, Return(0)>> /\ Bound(env[c], "id", id)
  <2>0. /\ todo[c] = <<If(V("id"), "==", I(62), <<Printk("enter_kill", <<>>)>>, <<IfMkdir>>), Return(0)>>
        /\ Bound(env[c], "id", id)
        /\ MeaningOfListSyscalls(62) = Outcome(<<Line("enter_kill", <<>>)>>, FALSE, 0)
    BY <1>3, NamesAre, Zenon DEF IfKill, ShowKill
  <2>1. /\ env'[c] = env[c] /\ result'[c] = NoResult
        /\ id = 62 => \E o : IsMeant("ListSyscalls", env'[c], o) /\ IsPrint(todo'[c], env'[c], o)
        /\ id # 62 => todo'[c] = <<IfMkdir>> \o <<Return(0)>>
    BY <1>2, <2>0, Zenon
  <2>2. CASE id = 62
    BY <2>1, <2>2
  <2>3. CASE id # 62
    <3>1. todo'[c] = <<IfMkdir, Return(0)>>
      BY <2>1, <2>3, Join11
    <3> QED
      BY <1>0, <1>3, <2>1, <2>3, <3>1 DEF ListPoint, Tells
  <2> QED
    BY <2>2, <2>3
<1>4. CASE todo[c] = <<IfMkdir, Return(0)>> /\ Bound(env[c], "id", id) /\ id # 62
  <2>0. /\ todo[c] = <<If(V("id"), "==", I(83), <<Printk("enter_mkdir", <<>>)>>, <<IfGetrandom>>), Return(0)>>
        /\ Bound(env[c], "id", id)
        /\ MeaningOfListSyscalls(83) = Outcome(<<Line("enter_mkdir", <<>>)>>, FALSE, 0)
    BY <1>4, NamesAre, Zenon DEF IfMkdir, ShowMkdir
  <2>1. /\ env'[c] = env[c] /\ result'[c] = NoResult
        /\ id = 83 => \E o : IsMeant("ListSyscalls", env'[c], o) /\ IsPrint(todo'[c], env'[c], o)
        /\ id # 83 => todo'[c] = <<IfGetrandom>> \o <<Return(0)>>
    BY <1>2, <2>0, Zenon
  <2>2. CASE id = 83
    BY <2>1, <2>2
  <2>3. CASE id # 83
    <3>1. todo'[c] = <<IfGetrandom, Return(0)>>
      BY <2>1, <2>3, Join11
    <3> QED
      BY <1>0, <1>4, <2>1, <2>3, <3>1 DEF ListPoint, Tells
  <2> QED
    BY <2>2, <2>3
<1>5. CASE todo[c] = <<IfGetrandom, Return(0)>> /\ Bound(env[c], "id", id) /\ id # 62 /\ id # 83
  <2> DEFINE getrandom == 318
  <2>0. /\ todo[c] = <<If(V("id"), "==", I(getrandom), <<Printk("enter_getrandom", <<>>)>>, <<>>),
                      Return(0)>>
        /\ Bound(env[c], "id", id)
        /\ MeaningOfListSyscalls(getrandom) = Outcome(<<Line("enter_getrandom", <<>>)>>, FALSE, 0)
    BY <1>5, NamesAre, Zenon DEF IfGetrandom, ShowGetrandom
  <2>1. /\ env'[c] = env[c] /\ result'[c] = NoResult
        /\ id = getrandom =>
             \E o : IsMeant("ListSyscalls", env'[c], o) /\ IsPrint(todo'[c], env'[c], o)
        /\ id # getrandom => todo'[c] = <<>> \o <<Return(0)>>
    <3> HIDE DEF getrandom
    <3> QED
      BY <1>2, <2>0, Zenon
  <2>2. CASE id = 318
    BY <2>1, <2>2
  <2>3. CASE id # 318
    <3>1. todo'[c] = <<Return(0)>>
      BY <2>1, <2>3, Join01
    <3>2. MeaningOfListSyscalls(id) = Outcome(<<>>, FALSE, 0)
      BY <1>5, <2>3, NamesAre
    <3>3. IsEnd(todo'[c], result'[c], MeaningOfListSyscalls(id))
      BY <2>1, <3>1, <3>2, EndsAt
    <3>4. IsMeant("ListSyscalls", env'[c], MeaningOfListSyscalls(id))
      BY <1>0, <2>1, Zenon DEF IsMeant, Tells
    <3> QED
      BY <2>1, <3>3, <3>4
  <2> QED
    BY <2>2, <2>3
<1> QED
  BY <1>1, <1>3, <1>4, <1>5, Zenon DEF ListPoint


(* The programs' own numbers are C ints: 8 is the largest that fact can print. *)
IntsAreWide == INT_MAX >= 8

LEMMA SmallInts ==
  ASSUME IntsAreWide
  PROVE  \A n \in 0 .. 8 : IsInt(n) /\ n \in Int
<1>1. INT_MAX \in Nat
  BY GeneratedCAssumption
<1> QED
  BY <1>1 DEF IntsAreWide, IsInt

LEMMA CtxSteps ==
  ASSUME OneEach, NEW c \in Cpus, Statement(c), result[c] = NoResult,
         StraightPoint("CtxAccess", todo[c], env[c])
  PROVE  /\ result'[c] = NoResult
         /\ \/ StraightPoint("CtxAccess", todo'[c], env'[c])
            \/ \E o : IsMeant("CtxAccess", env'[c], o) /\ IsPrint(todo'[c], env'[c], o)
<1>0. PICK n, pid :
        /\ Bound(env[c], "pid_tgid", n) /\ Tells(env[c], "ctx.pid", pid)
        /\ \/ todo[c] = CtxAccess
           \/ todo[c] = <<SetCallee, PrintPids, Return(0)>> /\ Bound(env[c], "targetid", pid)
  BY Zenon DEF StraightPoint
<1>1. CASE todo[c] = CtxAccess
  <2>1. /\ Head(todo[c]) = Set("targetid", V("ctx.pid"))
        /\ Tail(todo[c]) = <<SetCallee, PrintPids, Return(0)>>
    <3>1. todo[c] = <<Set("targetid", V("ctx.pid")), SetCallee, PrintPids, Return(0)>>
      BY <1>1 DEF CtxAccess, SetCallee, PrintPids
    <3> QED
      BY <3>1, Firsts
  <2>2. Value(c, V("ctx.pid")) = pid
    BY <1>0, ValueBound DEF Tells
  <2>3. Becomes(c, Tail(todo[c]), With(env[c], "targetid", pid), result[c])
    BY <1>0, <2>1, <2>2, SetsTo DEF Tells
  <2>4. /\ Bound(env'[c], "targetid", pid) /\ Bound(env'[c], "pid_tgid", n)
        /\ Tells(env'[c], "ctx.pid", pid)
    BY <1>0, <2>3, BoundWith DEF Becomes, Tells
  <2> QED
    BY <2>1, <2>3, <2>4 DEF Becomes, StraightPoint
<1>2. CASE todo[c] = <<SetCallee, PrintPids, Return(0)>> /\ Bound(env[c], "targetid", pid)
  <2>1. Head(todo[c]) = SetCallee /\ Tail(todo[c]) = <<PrintPids, Return(0)>>
    BY <1>2, Firsts
  <2>2. Value(c, V("pid_tgid")) = n
    BY <1>0, ValueBound
  <2>3. Becomes(c, Tail(todo[c]), With(env[c], "callee", Wrap(n)), result[c])
    BY <2>1, <2>2, OfSet DEF SetCallee
  <2>4. /\ Bound(env'[c], "callee", Wrap(n)) /\ Bound(env'[c], "targetid", pid)
        /\ Bound(env'[c], "pid_tgid", n) /\ Bound(env'[c], "ctx.pid", pid)
    BY <1>0, <1>2, <2>3, BoundWith DEF Becomes, Tells
  <2> DEFINE args == <<"callee", "targetid">>
             e == env'[c]
             o == Outcome(<<Line("PIDs", <<Wrap(e["pid_tgid"]), e["ctx.pid"]>>)>>, FALSE, 0)
  <2>5. [i \in DOMAIN args |-> e[args[i]]] = <<e["callee"], e["targetid"]>>
    OBVIOUS
  <2>6. [i \in DOMAIN args |-> e[args[i]]] = <<Wrap(e["pid_tgid"]), e["ctx.pid"]>>
    BY <2>4, <2>5 DEF Bound
  <2>7. o = Outcome(<<Line("PIDs", [i \in DOMAIN args |-> e[args[i]]])>>, FALSE, 0)
    BY <2>6, Zenon
  <2>8. todo'[c] = <<Printk("PIDs", args), Return(0)>>
    BY <2>1, <2>3 DEF Becomes, PrintPids
  <2>9. IsPrint(todo'[c], e, o)
    <3> HIDE DEF args, o, e
    <3> QED
      BY <2>7, <2>8 DEF IsPrint
  <2>10. IsMeant("CtxAccess", e, o)
    BY DEF IsMeant
  <2> QED
    BY <2>3, <2>9, <2>10 DEF Becomes
<1> QED
  BY <1>0, <1>1, <1>2

LEMMA GetSteps ==
  ASSUME IntsAreWide, OneEach, NEW c \in Cpus, Statement(c), result[c] = NoResult,
         StraightPoint("GetPid", todo[c], env[c])
  PROVE  /\ result'[c] = NoResult
         /\ \/ StraightPoint("GetPid", todo'[c], env'[c])
            \/ \E o : IsMeant("GetPid", env'[c], o) /\ IsPrint(todo'[c], env'[c], o)
<1>0. PICK n :
        /\ Bound(env[c], "pid_tgid", n)
        /\ \/ todo[c] = GetPid
           \/ /\ todo[c] = <<Set("five", I(5)), PrintPid, Return(0)>>
              /\ Bound(env[c], "callee", Wrap(n))
  BY Zenon DEF StraightPoint
<1>1. CASE todo[c] = GetPid
  <2>1. /\ Head(todo[c]) = Set("callee", V("pid_tgid"))
        /\ Tail(todo[c]) = <<Set("five", I(5)), PrintPid, Return(0)>>
    <3>1. todo[c] = <<Set("callee", V("pid_tgid")), Set("five", I(5)), PrintPid, Return(0)>>
      BY <1>1 DEF GetPid, PrintPid
    <3> QED
      BY <3>1, Firsts
  <2>2. Value(c, V("pid_tgid")) = n
    BY <1>0, ValueBound
  <2>3. Becomes(c, Tail(todo[c]), With(env[c], "callee", Wrap(n)), result[c])
    BY <2>1, <2>2, OfSet
  <2>4. Bound(env'[c], "callee", Wrap(n)) /\ Bound(env'[c], "pid_tgid", n)
    BY <1>0, <2>3, BoundWith DEF Becomes
  <2> QED
    BY <2>1, <2>3, <2>4 DEF Becomes, StraightPoint
<1>2. CASE /\ todo[c] = <<Set("five", I(5)), PrintPid, Return(0)>>
           /\ Bound(env[c], "callee", Wrap(n))
  <2>1. Head(todo[c]) = Set("five", I(5)) /\ Tail(todo[c]) = <<PrintPid, Return(0)>>
    BY <1>2, Firsts
  <2>2. Value(c, I(5)) = 5 /\ IsInt(5)
    BY ValueOf, SmallInts
  <2>3. Becomes(c, Tail(todo[c]), With(env[c], "five", 5), result[c])
    BY <2>1, <2>2, SetsTo
  <2>4. /\ Bound(env'[c], "five", 5) /\ Bound(env'[c], "callee", Wrap(n))
        /\ Bound(env'[c], "pid_tgid", n)
    BY <1>0, <1>2, <2>3, BoundWith DEF Becomes
  <2> DEFINE args == <<"callee", "five">>
             e == env'[c]
             o == Outcome(<<Line("Current PID", <<Wrap(e["pid_tgid"]), 5>>)>>, FALSE, 0)
  <2>5. [i \in DOMAIN args |-> e[args[i]]] = <<e["callee"], e["five"]>>
    OBVIOUS
  <2>6. [i \in DOMAIN args |-> e[args[i]]] = <<Wrap(e["pid_tgid"]), 5>>
    BY <2>4, <2>5 DEF Bound
  <2>7. o = Outcome(<<Line("Current PID", [i \in DOMAIN args |-> e[args[i]]])>>, FALSE, 0)
    BY <2>6, Zenon
  <2>8. todo'[c] = <<Printk("Current PID", args), Return(0)>>
    BY <2>1, <2>3 DEF Becomes, PrintPid
  <2>9. IsPrint(todo'[c], e, o)
    <3> HIDE DEF args, o, e
    <3> QED
      BY <2>7, <2>8 DEF IsPrint
  <2>10. IsMeant("GetPid", e, o)
    BY DEF IsMeant
  <2> QED
    BY <2>3, <2>9, <2>10 DEF Becomes
<1> QED
  BY <1>0, <1>1, <1>2

LEMMA CaseSteps ==
  ASSUME IntsAreWide, OneEach, NEW c \in Cpus, Statement(c), result[c] = NoResult,
         StraightPoint("Case", todo[c], env[c])
  PROVE  /\ result'[c] = NoResult
         /\ \E o : IsMeant("Case", env'[c], o) /\ IsPrint(todo'[c], env'[c], o)
<1> DEFINE args == <<"return">>
           e == env'[c]
           o == Outcome(<<Line("Result", <<3>>)>>, FALSE, 0)
           show == Printk("Result", args)
<1>1. Head(todo[c]) = Set("return", I(3)) /\ Tail(todo[c]) = <<show, Return(0)>>
  <2>1. todo[c] = <<Set("return", I(3)), show, Return(0)>>
    BY DEF StraightPoint, Case
  <2> HIDE DEF show
  <2> QED
    BY <2>1, Firsts
<1>2. Value(c, I(3)) = 3 /\ IsInt(3)
  BY ValueOf, SmallInts
<1>3. Becomes(c, Tail(todo[c]), With(env[c], "return", 3), result[c])
  BY <1>1, <1>2, SetsTo
<1>4. Bound(e, "return", 3)
  BY <1>3, BoundWith DEF Becomes
<1>5. [i \in DOMAIN args |-> e[args[i]]] = <<3>>
  BY <1>4 DEF Bound
<1>6. o = Outcome(<<Line("Result", [i \in DOMAIN args |-> e[args[i]]])>>, FALSE, 0)
  BY <1>5, Zenon
<1>7. todo'[c] = <<show, Return(0)>>
  BY <1>1, <1>3 DEF Becomes
<1>8. IsPrint(todo'[c], e, o)
  <2> HIDE DEF args, o, e
  <2> QED
    BY <1>6, <1>7 DEF IsPrint
<1>9. IsMeant("Case", e, o)
  BY DEF IsMeant
<1> QED
  BY <1>3, <1>8, <1>9 DEF Becomes


(***************************************************************************)
(* fact                                                                    *)
(***************************************************************************)

(***************************************************************************)
(* There is a function as factorial is defined: each of its values needs   *)
(* no others than those before it.                                         *)
(***************************************************************************)
LEMMA FactorialIs ==
  factorial = [n \in Nat |-> IF n = 0 THEN 1 ELSE n * factorial[n - 1]]
<1> DEFINE Product(f, n) == IF n = 0 THEN 1 ELSE n * f[n - 1]
           IsUpTo(f, k) == f = [n \in 0 .. k |-> Product(f, n)]
           Ks == {k \in Nat : \E f : IsUpTo(f, k)}
<1>1. 0 \in Ks
  <2> DEFINE f == [n \in 0 .. 0 |-> 1]
  <2>1. f = [n \in 0 .. 0 |-> Product(f, n)]
    OBVIOUS
  <2> QED
    BY <2>1
<1>2. ASSUME NEW k \in Nat, k \in Ks  PROVE k + 1 \in Ks
  <2>1. PICK f : IsUpTo(f, k)
    BY <1>2
  <2> DEFINE g == [n \in 0 .. k + 1 |-> Product(f, n)]
  <2>2. \A n \in 0 .. k : f[n] = Product(f, n)
    BY <2>1
  <2>3. \A n \in 0 .. k + 1 : n # 0 => n - 1 \in 0 .. k /\ n - 1 \in 0 .. k + 1
    OBVIOUS
  <2>4. \A n \in 0 .. k + 1 : n # 0 => g[n - 1] = f[n - 1]
    BY <2>2, <2>3
  <2>5. \A n \in 0 .. k + 1 : Product(g, n) = Product(f, n)
    <3> HIDE DEF g
    <3> QED
      BY <2>4
  <2> HIDE DEF Product
  <2>6. IsUpTo(g, k + 1)
    BY <2>5
  <2>7. k + 1 \in Nat
    OBVIOUS
  <2> HIDE DEF g, IsUpTo
  <2> QED
    BY <2>6, <2>7
<1>3. \A k \in Nat : k \in Ks
  <2> HIDE DEF Ks
  <2> QED
    BY <1>1, <1>2, NatSetInduction
<1>4. ASSUME NEW k \in Nat, NEW l \in Nat, NEW f, NEW g, IsUpTo(f, k), IsUpTo(g, l)
      PROVE  \A n \in Nat : n <= k /\ n <= l => f[n] = g[n]
  <2> DEFINE Same == {n \in Nat : n <= k /\ n <= l => f[n] = g[n]}
  <2>1. (\A n \in 0 .. k : f[n] = Product(f, n)) /\ (\A n \in 0 .. l : g[n] = Product(g, n))
    BY <1>4
  <2>2. 0 \in Same
    BY <2>1
  <2>3. ASSUME NEW n \in Nat, n \in Same  PROVE n + 1 \in Same
    <3> SUFFICES ASSUME n + 1 <= k, n + 1 <= l  PROVE f[n + 1] = g[n + 1]
      OBVIOUS
    <3>1. f[n] = g[n]
      BY <2>3
    <3>2. (n + 1) - 1 = n /\ n + 1 # 0 /\ n + 1 \in 0 .. k /\ n + 1 \in 0 .. l
      OBVIOUS
    <3> QED
      BY <2>1, <3>1, <3>2
  <2>4. Nat \subseteq Same
    <3> HIDE DEF Same
    <3> QED
      BY <2>2, <2>3, NatSetInduction
  <2> QED
    BY <2>4
<1> DEFINE upTo == [k \in Nat |-> CHOOSE f : IsUpTo(f, k)]
           all == [n \in Nat |-> upTo[n][n]]
<1>5. \A k \in Nat : IsUpTo(upTo[k], k)
  <2> HIDE DEF IsUpTo
  <2> QED
    BY <1>3
<1>6. ASSUME NEW n \in Nat  PROVE all[n] = Product(all, n)
  <2>1. upTo[n][n] = Product(upTo[n], n)
    <3>1. IsUpTo(upTo[n], n)
      <4> HIDE DEF upTo, IsUpTo
      <4> QED
        BY <1>5
    <3>2. n \in 0 .. n
      OBVIOUS
    <3> HIDE DEF upTo, Product
    <3> QED
      BY <3>1, <3>2
  <2>2. CASE n = 0
    BY <2>1, <2>2
  <2>3. CASE n # 0
    <3>1. n - 1 \in Nat /\ n - 1 <= n /\ n - 1 <= n - 1
      BY <2>3
    <3>2. upTo[n][n - 1] = upTo[n - 1][n - 1]
      <4>1. IsUpTo(upTo[n], n) /\ IsUpTo(upTo[n - 1], n - 1)
        BY <1>5, <3>1
      <4> HIDE DEF IsUpTo, upTo
      <4> QED
        BY <1>4, <3>1, <4>1
    <3>3. all[n - 1] = upTo[n - 1][n - 1]
      BY <3>1
    <3> HIDE DEF upTo, all
    <3>4. Product(all, n) = Product(upTo[n], n)
      BY <3>2, <3>3
    <3> QED
      BY <2>1, <3>4 DEF all
  <2> QED
    BY <2>2, <2>3
<1>7. all = [n \in Nat |-> Product(all, n)]
  <2> HIDE DEF Product, upTo
  <2> QED
    BY <1>6
<1> DEFINE it == CHOOSE f : f = [n \in Nat |-> Product(f, n)]
<1>8. it = [n \in Nat |-> Product(it, n)]
  <2> HIDE DEF all, Product
  <2> QED
    BY <1>7
<1>9. factorial = it
  BY DEF factorial
<1> HIDE DEF it
<1> QED
  BY <1>8, <1>9

LEMMA FirstFactorials ==
  factorial[1] = 1 /\ factorial[2] = 2
<1>1. \A n \in Nat : factorial[n] = IF n = 0 THEN 1 ELSE n * factorial[n - 1]
  <2> DEFINE Product(n) == IF n = 0 THEN 1 ELSE n * factorial[n - 1]
  <2>1. factorial = [n \in Nat |-> Product(n)]
    BY FactorialIs
  <2> HIDE DEF factorial, Product
  <2>2. \A n \in Nat : factorial[n] = Product(n)
    BY <2>1
  <2> QED
    BY <2>2 DEF Product
<1> HIDE DEF factorial
<1>2. factorial[0] = 1
  BY <1>1
<1>3. factorial[1] = 1 * factorial[0]
  BY <1>1
<1>4. factorial[2] = 2 * factorial[1]
  BY <1>1
<1> QED
  BY <1>2, <1>3, <1>4

Times2 == Compute("t", I(2), "*", I(1))
Times3 == Compute("a", I(3), "*", V("t"))
LessOne == Compute("x1", V("id"), "-", I(1))
TimesF0 == Checked("f1", V("x1"), "*", V("f0"))
TimesF1 == Checked("b", V("id"), "*", V("f1"))
IfOneLess == If(V("x1"), "==", I(1), <<Set("f1", I(1))>>, <<Raise, TimesF0>>)
IfOne == If(V("id"), "==", I(1), <<Set("b", I(1))>>, <<LessOne, IfOneLess, TimesF1>>)
AddBoth == Checked("c", V("a"), "+", V("b"))
PrintSum == Printk("", <<"c">>)
FactProgram == <<TakeId, Times2, Times3, IfOne, AddBoth, PrintSum, Return(0)>>

LEMMA FactIs ==
  Fact = FactProgram
<1>1. <<Raise>> \o <<TimesF0>> = <<Raise, TimesF0>>
  BY Join11
<1>2. FactFuel1 = <<LessOne, IfOneLess>>
  BY <1>1 DEF FactFuel1, FactFuel0, LessOne, IfOneLess, TimesF0
<1>3. <<LessOne, IfOneLess>> \o <<TimesF1>> = <<LessOne, IfOneLess, TimesF1>>
  BY Join21
<1>4. FactFuel2 = IfOne
  BY <1>2, <1>3 DEF FactFuel2, IfOne, TimesF1
<1>5. Fact = ((<<TakeId>> \o <<Times2, Times3>>) \o <<IfOne>>) \o <<AddBoth, PrintSum, Return(0)>>
  BY <1>4 DEF Fact, FactOfConst, TakeId, Times2, Times3, AddBoth, PrintSum
<1>6. <<TakeId>> \o <<Times2, Times3>> = <<TakeId, Times2, Times3>>
  BY Join12
<1>7. <<TakeId, Times2, Times3>> \o <<IfOne>> = <<TakeId, Times2, Times3, IfOne>>
  BY Join31
<1>8. <<TakeId, Times2, Times3, IfOne>> \o <<AddBoth, PrintSum, Return(0)>> = FactProgram
  BY Join43 DEF FactProgram
<1> QED
  BY <1>5, <1>6, <1>7, <1>8, Zenon

(* Where fact is, once a is 3! and until the event is found to be too far. *)
FactInside(q, e, id) ==
  /\ Bound(e, "id", id) /\ Bound(e, "a", 6)
  /\ \/ q = <<IfOne, AddBoth, PrintSum, Return(0)>>
     \/ q = <<Set("b", I(1)), AddBoth, PrintSum, Return(0)>> /\ id = 1
     \/ q = <<LessOne, IfOneLess, TimesF1, AddBoth, PrintSum, Return(0)>> /\ id # 1
     \/ /\ q = <<IfOneLess, TimesF1, AddBoth, PrintSum, Return(0)>> /\ id # 1
        /\ \E n : Bound(e, "x1", n) /\ (n = 1 <=> id = 2)
     \/ q = <<Set("f1", I(1)), TimesF1, AddBoth, PrintSum, Return(0)>> /\ id = 2
     \/ q = <<TimesF1, AddBoth, PrintSum, Return(0)>> /\ id = 2 /\ Bound(e, "f1", 1)
     \/ q = <<Raise, TimesF0, TimesF1, AddBoth, PrintSum, Return(0)>> /\ id \notin 1 .. 2
     \/ /\ q = <<AddBoth, PrintSum, Return(0)>> /\ id \in 1 .. 2
        /\ Bound(e, "b", id)

FactPoint(q, e, id) ==
  /\ Tells(e, "ctx.id", id)
  /\ \/ q = FactProgram
     \/ q = <<Times2, Times3, IfOne, AddBoth, PrintSum, Return(0)>> /\ Bound(e, "id", id)
     \/ /\ q = <<Times3, IfOne, AddBoth, PrintSum, Return(0)>>
        /\ Bound(e, "id", id) /\ Bound(e, "t", 2)
     \/ FactInside(q, e, id)

(* Euclid's division is unique. *)
LEMMA ModOfMultiple ==
  ASSUME NEW n \in Int, NEW w \in Nat, w > 0, NEW r \in 0 .. w - 1
  PROVE  (n * w + r) % w = r
<1> DEFINE a == n * w + r
           d == a \div w
           m == a % w
<1>1. a \in Int
  OBVIOUS
<1> HIDE DEF a
<1>2. d \in Int /\ m \in 0 .. w - 1 /\ a = w * d + m
  BY <1>1
<1> HIDE DEF d, m
<1>3. n * w + r = w * d + m
  BY <1>2 DEF a
<1>4. w * (n - d) = m - r
  <2>1. w * (n - d) = n * w - w * d
    BY <1>2
  <2> QED
    BY <1>2, <1>3, <2>1
<1>5. n - d \in Int /\ -w < m - r /\ m - r < w
  BY <1>2
<1>6. \A i \in Int : (i >= 1 => w * i >= w) /\ (i <= -1 => w * i <= -w)
  <2> SUFFICES ASSUME NEW i \in Int PROVE (i >= 1 => w * i >= w) /\ (i <= -1 => w * i <= -w)
    OBVIOUS
  <2>1. w * i = w + w * (i - 1) /\ w * i = w * (i + 1) - w
    OBVIOUS
  <2>2. i >= 1 => w * (i - 1) >= 0
    OBVIOUS
  <2>3. i <= -1 => w * (i + 1) <= 0
    OBVIOUS
  <2> QED
    BY <2>1, <2>2, <2>3
<1>7. n - d = 0
  BY <1>4, <1>5, <1>6
<1>8. m = r
  BY <1>2, <1>4, <1>7
<1> QED
  BY <1>8 DEF m, a

(* id - 1, whether it was computed in a register that is wider than an int or not *)
LEMMA LessOneIs ==
  ASSUME IntsAreWide, NEW id \in Int, IsInt(id), NEW n \in {id - 1, Wrap(id - 1)}
  PROVE  n = 1 <=> id = 2
<1>1. INT_MAX \in Nat /\ INT_MAX >= 8
  BY GeneratedCAssumption DEF IntsAreWide
<1>2. CASE IsInt(id - 1)
  <2>1. Wrap(id - 1) = id - 1
    BY <1>2, WrapOfInt
  <2> QED
    BY <2>1
<1>3. CASE ~IsInt(id - 1)
  <2>1. id = -INT_MAX - 1
    BY <1>1, <1>3 DEF IsInt
  <2>2. WORD \in Nat /\ WORD > 0 /\ WORD - 1 \in 0 .. WORD - 1 /\ WORD - 1 = 2 * INT_MAX + 1
    BY <1>1 DEF WORD
  <2>3. ((-1) * WORD + (WORD - 1)) % WORD = WORD - 1
    <3>1. -1 \in Int
      OBVIOUS
    <3> QED
      BY <2>2, <3>1, ModOfMultiple
  <2>4. (-1) * WORD + (WORD - 1) = (id - 1) + INT_MAX + 1
    BY <1>1, <2>1, <2>2
  <2>5. Wrap(id - 1) = INT_MAX
    <3> HIDE DEF WORD
    <3> QED
      BY <1>1, <2>2, <2>3, <2>4 DEF Wrap
  <2> QED
    BY <1>1, <2>1, <2>5
<1> QED
  BY <1>2, <1>3

LEMMA FactBegins ==
  ASSUME IntsAreWide, OneEach, NEW c \in Cpus, Statement(c), result[c] = NoResult,
         NEW id, FactPoint(todo[c], env[c], id), ~FactInside(todo[c], env[c], id)
  PROVE  result'[c] = NoResult /\ FactPoint(todo'[c], env'[c], id)
<1>0. id \in Int /\ IsInt(id) /\ Bound(env[c], "ctx.id", id)
  BY DEF FactPoint, Tells
<1>1. CASE todo[c] = FactProgram
  <2>1. /\ Head(todo[c]) = TakeId
        /\ Tail(todo[c]) = <<Times2, Times3, IfOne, AddBoth, PrintSum, Return(0)>>
    BY <1>1, LongFirsts DEF FactProgram
  <2>2. Value(c, V("ctx.id")) = id
    BY <1>0, ValueBound
  <2>3. Becomes(c, Tail(todo[c]), With(env[c], "id", id), result[c])
    BY <1>0, <2>1, <2>2, SetsTo DEF TakeId
  <2>4. Bound(env'[c], "id", id) /\ Bound(env'[c], "ctx.id", id)
    BY <1>0, <2>3, BoundWith DEF Becomes
  <2> QED
    BY <1>0, <2>1, <2>3, <2>4 DEF FactPoint, Tells, Becomes
<1>2. CASE /\ todo[c] = <<Times2, Times3, IfOne, AddBoth, PrintSum, Return(0)>>
           /\ Bound(env[c], "id", id)
  <2>1. /\ Head(todo[c]) = Times2
        /\ Tail(todo[c]) = <<Times3, IfOne, AddBoth, PrintSum, Return(0)>>
    BY <1>2, LongFirsts
  <2>2. Apply(Value(c, I(2)), "*", Value(c, I(1))) = 2 /\ IsInt(2)
    BY ValueOf, SmallInts DEF Apply
  <2>3. Becomes(c, Tail(todo[c]), With(env[c], "t", 2), result[c])
    BY <2>1, <2>2, ComputesTo DEF Times2
  <2>4. Bound(env'[c], "t", 2) /\ Bound(env'[c], "id", id) /\ Bound(env'[c], "ctx.id", id)
    BY <1>0, <1>2, <2>3, BoundWith DEF Becomes
  <2> QED
    BY <1>0, <2>1, <2>3, <2>4 DEF FactPoint, Tells, Becomes
<1>3. CASE /\ todo[c] = <<Times3, IfOne, AddBoth, PrintSum, Return(0)>>
           /\ Bound(env[c], "id", id) /\ Bound(env[c], "t", 2)
  <2>1. Head(todo[c]) = Times3 /\ Tail(todo[c]) = <<IfOne, AddBoth, PrintSum, Return(0)>>
    BY <1>3, LongFirsts
  <2>2. Value(c, V("t")) = 2
    BY <1>3, ValueBound
  <2>3. Apply(Value(c, I(3)), "*", Value(c, V("t"))) = 6 /\ IsInt(6)
    BY <2>2, ValueOf, SmallInts DEF Apply
  <2>4. Becomes(c, Tail(todo[c]), With(env[c], "a", 6), result[c])
    BY <2>1, <2>3, ComputesTo DEF Times3
  <2>5. Bound(env'[c], "a", 6) /\ Bound(env'[c], "id", id) /\ Bound(env'[c], "ctx.id", id)
    BY <1>0, <1>3, <2>4, BoundWith DEF Becomes
  <2>6. FactInside(todo'[c], env'[c], id)
    BY <2>1, <2>4, <2>5 DEF FactInside, Becomes
  <2> QED
    BY <1>0, <2>4, <2>5, <2>6 DEF FactPoint, Tells, Becomes
<1> QED
  BY <1>1, <1>2, <1>3, Zenon DEF FactPoint

(* Inside, each statement but the last goes to the next place, raises, or  *)
(* has the sum to print.                                                   *)
LEMMA FactInsideSteps ==
  ASSUME IntsAreWide, OneEach, NEW c \in Cpus, Statement(c), result[c] = NoResult,
         NEW id, Tells(env[c], "ctx.id", id), FactInside(todo[c], env[c], id)
  PROVE  /\ Tells(env'[c], "ctx.id", id)
         /\ \/ result'[c] = NoResult /\ FactInside(todo'[c], env'[c], id)
            \/ result'[c] = NoResult /\ IsPrint(todo'[c], env'[c], MeaningOfFact(id))
            \/ IsEnd(todo'[c], result'[c], MeaningOfFact(id))
<1>0. /\ id \in Int /\ IsInt(id) /\ Bound(env[c], "ctx.id", id)
      /\ Bound(env[c], "id", id) /\ Bound(env[c], "a", 6)
  BY DEF FactInside, Tells
<1>w. ASSUME NEW x, NEW n, x \notin {"ctx.id", "id", "a"}, env'[c] = With(env[c], x, n)
      PROVE  /\ Tells(env'[c], "ctx.id", id) /\ Bound(env'[c], x, n)
             /\ Bound(env'[c], "id", id) /\ Bound(env'[c], "a", 6)
  BY <1>0, <1>w, BoundWith DEF Tells
<1>1. CASE todo[c] = <<IfOne, AddBoth, PrintSum, Return(0)>>
  <2> DEFINE yes == <<Set("b", I(1))>>
             no  == <<LessOne, IfOneLess, TimesF1>>
  <2>1. Head(todo[c]) = IfOne /\ Tail(todo[c]) = <<AddBoth, PrintSum, Return(0)>>
    BY <1>1, Firsts
  <2>2. /\ env'[c] = env[c] /\ result'[c] = result[c]
        /\ id = 1 => todo'[c] = yes \o Tail(todo[c])
        /\ id # 1 => todo'[c] = no \o Tail(todo[c])
    <3>1. Head(todo[c]) = If(V("id"), "==", I(1), yes, no)
      BY <2>1 DEF IfOne
    <3> HIDE DEF yes, no
    <3>2. ASSUME NEW m, Head(todo[c]) = If(V("id"), "==", I(m), yes, no)
          PROVE  /\ env'[c] = env[c] /\ result'[c] = result[c]
                 /\ id = m => todo'[c] = yes \o Tail(todo[c])
                 /\ id # m => todo'[c] = no \o Tail(todo[c])
      <4>1. Bound(env[c], "id", id)
        BY <1>0
      <4> QED
        BY <3>2, <4>1, TestsFor
    <3> QED
      BY <3>1, <3>2, Zenon
  <2>3. yes \o <<AddBoth, PrintSum, Return(0)>> = <<Set("b", I(1)), AddBoth, PrintSum, Return(0)>>
    BY Join13
  <2>4. no \o <<AddBoth, PrintSum, Return(0)>> =
          <<LessOne, IfOneLess, TimesF1, AddBoth, PrintSum, Return(0)>>
    BY Join33
  <2>5. \/ id = 1 /\ todo'[c] = <<Set("b", I(1)), AddBoth, PrintSum, Return(0)>>
        \/ id # 1 /\ todo'[c] = <<LessOne, IfOneLess, TimesF1, AddBoth, PrintSum, Return(0)>>
    BY <2>1, <2>2, <2>3, <2>4, Zenon
  <2>6. FactInside(todo'[c], env'[c], id)
    BY <1>0, <2>2, <2>5 DEF FactInside
  <2> QED
    BY <2>2, <2>6
<1>2. CASE todo[c] = <<Set("b", I(1)), AddBoth, PrintSum, Return(0)>> /\ id = 1
  <2>1. Head(todo[c]) = Set("b", I(1)) /\ Tail(todo[c]) = <<AddBoth, PrintSum, Return(0)>>
    BY <1>2, Firsts
  <2>2. Value(c, I(1)) = 1 /\ IsInt(1)
    BY ValueOf, SmallInts
  <2>3. Becomes(c, Tail(todo[c]), With(env[c], "b", 1), result[c])
    BY <2>1, <2>2, SetsTo
  <2> QED
    BY <1>2, <1>w, <2>1, <2>3 DEF FactInside, Becomes
<1>3. CASE todo[c] = <<LessOne, IfOneLess, TimesF1, AddBoth, PrintSum, Return(0)>> /\ id # 1
  <2>1. /\ Head(todo[c]) = LessOne
        /\ Tail(todo[c]) = <<IfOneLess, TimesF1, AddBoth, PrintSum, Return(0)>>
    BY <1>3, LongFirsts
  <2>2. Apply(Value(c, V("id")), "-", Value(c, I(1))) = id - 1
    BY <1>0, ValueBound, ValueOf DEF Apply
  <2>3. PICK n \in {id - 1, Wrap(id - 1)} :
          Becomes(c, Tail(todo[c]), With(env[c], "x1", n), result[c])
    BY <2>1, <2>2, OfCompute DEF LessOne
  <2>4. n = 1 <=> id = 2
    BY <1>0, LessOneIs
  <2> QED
    BY <1>3, <1>w, <2>1, <2>3, <2>4 DEF FactInside, Becomes
<1>4. CASE /\ todo[c] = <<IfOneLess, TimesF1, AddBoth, PrintSum, Return(0)>> /\ id # 1
           /\ \E n : Bound(env[c], "x1", n) /\ (n = 1 <=> id = 2)
  <2> DEFINE yes == <<Set("f1", I(1))>>
             no  == <<Raise, TimesF0>>
  <2>0. PICK n : Bound(env[c], "x1", n) /\ (n = 1 <=> id = 2)
    BY <1>4
  <2>1. Head(todo[c]) = IfOneLess /\ Tail(todo[c]) = <<TimesF1, AddBoth, PrintSum, Return(0)>>
    BY <1>4, LongFirsts
  <2>2. /\ env'[c] = env[c] /\ result'[c] = result[c]
        /\ n = 1 => todo'[c] = yes \o Tail(todo[c])
        /\ n # 1 => todo'[c] = no \o Tail(todo[c])
    <3>1. Head(todo[c]) = If(V("x1"), "==", I(1), yes, no)
      BY <2>1 DEF IfOneLess
    <3> HIDE DEF yes, no
    <3>2. ASSUME NEW m, Head(todo[c]) = If(V("x1"), "==", I(m), yes, no)
          PROVE  /\ env'[c] = env[c] /\ result'[c] = result[c]
                 /\ n = m => todo'[c] = yes \o Tail(todo[c])
                 /\ n # m => todo'[c] = no \o Tail(todo[c])
      <4>1. Bound(env[c], "x1", n)
        BY <2>0
      <4> QED
        BY <3>2, <4>1, TestsFor
    <3> QED
      BY <3>1, <3>2, Zenon
  <2>3. yes \o <<TimesF1, AddBoth, PrintSum, Return(0)>> =
          <<Set("f1", I(1)), TimesF1, AddBoth, PrintSum, Return(0)>>
    BY Join14
  <2>4. no \o <<TimesF1, AddBoth, PrintSum, Return(0)>> =
          <<Raise, TimesF0, TimesF1, AddBoth, PrintSum, Return(0)>>
    BY Join24
  <2>5. \/ n = 1 /\ todo'[c] = <<Set("f1", I(1)), TimesF1, AddBoth, PrintSum, Return(0)>>
        \/ n # 1 /\ todo'[c] = <<Raise, TimesF0, TimesF1, AddBoth, PrintSum, Return(0)>>
    BY <2>1, <2>2, <2>3, <2>4, Zenon
  <2>6. n # 1 => id \notin 1 .. 2
    BY <1>0, <1>4, <2>0
  <2>7. FactInside(todo'[c], env'[c], id)
    BY <1>0, <2>0, <2>2, <2>5, <2>6 DEF FactInside
  <2> QED
    BY <2>2, <2>7
<1>5. CASE todo[c] = <<Set("f1", I(1)), TimesF1, AddBoth, PrintSum, Return(0)>> /\ id = 2
  <2>1. Head(todo[c]) = Set("f1", I(1)) /\ Tail(todo[c]) = <<TimesF1, AddBoth, PrintSum, Return(0)>>
    BY <1>5, LongFirsts
  <2>2. Value(c, I(1)) = 1 /\ IsInt(1)
    BY ValueOf, SmallInts
  <2>3. Becomes(c, Tail(todo[c]), With(env[c], "f1", 1), result[c])
    BY <2>1, <2>2, SetsTo
  <2> QED
    BY <1>5, <1>w, <2>1, <2>3 DEF FactInside, Becomes
<1>6. CASE todo[c] = <<TimesF1, AddBoth, PrintSum, Return(0)>> /\ id = 2 /\ Bound(env[c], "f1", 1)
  <2>1. Head(todo[c]) = TimesF1 /\ Tail(todo[c]) = <<AddBoth, PrintSum, Return(0)>>
    BY <1>6, Firsts
  <2>2. Apply(Value(c, V("id")), "*", Value(c, V("f1"))) = 2 /\ IsInt(2)
    BY <1>0, <1>6, ValueBound, SmallInts DEF Apply
  <2>3. Becomes(c, Tail(todo[c]), With(env[c], "b", 2), result[c])
    BY <2>1, <2>2, OfChecked DEF TimesF1
  <2> QED
    BY <1>6, <1>w, <2>1, <2>3 DEF FactInside, Becomes
<1>7. CASE todo[c] = <<Raise, TimesF0, TimesF1, AddBoth, PrintSum, Return(0)>> /\ id \notin 1 .. 2
  <2>1. Head(todo[c]) = Raise
    BY <1>7, LongFirsts
  <2>2. Becomes(c, <<Return(0)>>, env[c], [result[c] EXCEPT !.raised = TRUE])
    BY <2>1, OfRaise
  <2>3. result'[c].printed = <<>> /\ result'[c].raised = TRUE
    BY <2>2 DEF Becomes, NoResult
  <2>4. MeaningOfFact(id) = Outcome(<<>>, TRUE, 0)
    BY <1>7 DEF MeaningOfFact
  <2>5. IsEnd(todo'[c], result'[c], MeaningOfFact(id))
    BY <2>2, <2>3, <2>4 DEF IsEnd, Becomes
  <2> QED
    BY <2>2, <2>5 DEF Becomes
<1>8. CASE /\ todo[c] = <<AddBoth, PrintSum, Return(0)>> /\ id \in 1 .. 2
           /\ Bound(env[c], "b", id)
  <2>1. Head(todo[c]) = AddBoth /\ Tail(todo[c]) = <<PrintSum, Return(0)>>
    BY <1>8, Firsts
  <2>2. Apply(Value(c, V("a")), "+", Value(c, V("b"))) = 6 + id /\ IsInt(6 + id)
    <3>1. 6 + id \in 0 .. 8
      BY <1>8
    <3>2. Value(c, V("a")) = 6 /\ Value(c, V("b")) = id
      BY <1>0, <1>8, ValueBound
    <3> QED
      BY <3>1, <3>2, SmallInts DEF Apply
  <2>3. Becomes(c, Tail(todo[c]), With(env[c], "c", 6 + id), result[c])
    BY <2>1, <2>2, OfChecked DEF AddBoth
  <2> DEFINE args == <<"c">>
             e == env'[c]
             o == MeaningOfFact(id)
  <2>4. Tells(e, "ctx.id", id) /\ Bound(e, "c", 6 + id)
    BY <1>w, <2>3 DEF Becomes
  <2>5. [i \in DOMAIN args |-> e[args[i]]] = <<6 + id>>
    BY <2>4 DEF Bound
  <2>6. factorial[id] = id
    <3> HIDE DEF factorial
    <3> QED
      BY <1>8, FirstFactorials
  <2>7. o = Outcome(<<Line("", <<6 + id>>)>>, FALSE, 0)
    <3>1. o = Outcome(<<Line("", <<6 + factorial[id]>>)>>, FALSE, 0)
      <4> HIDE DEF factorial
      <4> QED
        BY <1>8 DEF MeaningOfFact
    <3> HIDE DEF o, factorial
    <3> QED
      BY <2>6, <3>1, Zenon
  <2>8. o = Outcome(<<Line("", [i \in DOMAIN args |-> e[args[i]]])>>, FALSE, 0)
    <3> HIDE DEF o
    <3> QED
      BY <2>5, <2>7, Zenon
  <2>9. todo'[c] = <<Printk("", args), Return(0)>>
    BY <2>1, <2>3 DEF Becomes, PrintSum
  <2>10. IsPrint(todo'[c], e, o)
    <3> HIDE DEF args, o, e
    <3> QED
      BY <2>8, <2>9 DEF IsPrint
  <2> QED
    BY <2>3, <2>4, <2>10 DEF Becomes
<1> QED
  BY <1>1, <1>2, <1>3, <1>4, <1>5, <1>6, <1>7, <1>8, Zenon DEF FactInside


(* What the events say to the programs that read their context are C ints. *)
ArgumentsAreInts ==
  /\ \A p \in {"Fact", "ListSyscalls"} :
       \A input \in Inputs[p] : \E id : Tells(input, "ctx.id", id)
  /\ \A input \in Inputs["CtxAccess"] : \E pid : Tells(input, "ctx.pid", pid)

Computing == {"Fact", "ListSyscalls"} \cup Constant

(* where p is on a CPU *)
MeaningPoint(p, q, e, r) ==
  \/ q = <<>> /\ r = NoResult
  \/ \E o : IsMeant(p, e, o) /\ (IsEnd(q, r, o) \/ (r = NoResult /\ IsPrint(q, e, o)))
  \/ r = NoResult /\ p = "Fact" /\ \E id : FactPoint(q, e, id)
  \/ r = NoResult /\ p = "ListSyscalls" /\ \E id : ListPoint(q, e, id)
  \/ r = NoResult /\ StraightPoint(p, q, e)

MeaningInv ==
  program \in Computing => \A c \in Cpus : MeaningPoint(program, todo[c], env[c], result[c])

LEMMA ComputingIs ==
  /\ \A p \in Computing : Examples[p].hook \in {"sys_enter", "sys_enter_kill", "sys_enter_write"}
  /\ Examples["Fact"].main = FactProgram
  /\ Examples["ListSyscalls"].main = ListProgram
  /\ Examples["CtxAccess"].main = CtxAccess
  /\ Examples["GetPid"].main = GetPid
  /\ Examples["HelloWorld"].main = <<Printk("Hello World", <<>>), Return(0)>>
  /\ Examples["Case"].main = Case
  /\ Examples["Cond"].main = <<Printk("Is 32.", <<>>), Return(0)>>
  /\ Examples["IfThenElse"].main = <<Printk("True", <<>>), Return(0)>>
  /\ Examples["Cp"].main = <<Return(18)>>
  /\ Examples["Basic"].main = <<Return(1)>>
<1>1. \A hook, main, ms : Example(hook, main, ms).main = main /\ Example(hook, main, ms).hook = hook
  BY DEF Example
<1>2. /\ Examples["Fact"] = Example("sys_enter", Fact, NoMaps)
      /\ Examples["ListSyscalls"] = Example("sys_enter", ListSyscalls, NoMaps)
      /\ Examples["CtxAccess"] = Example("sys_enter_kill", CtxAccess, NoMaps)
      /\ Examples["GetPid"] = Example("sys_enter_kill", GetPid, NoMaps)
      /\ Examples["HelloWorld"] = Example("sys_enter_write", HelloWorld, NoMaps)
  BY DEF Examples
<1>3. /\ Examples["Case"] = Example("sys_enter", Case, NoMaps)
      /\ Examples["Cond"] = Example("sys_enter", CondExample, NoMaps)
      /\ Examples["IfThenElse"] = Example("sys_enter", IfThenElse, NoMaps)
      /\ Examples["Cp"] = Example("sys_enter_kill", Cp, NoMaps)
      /\ Examples["Basic"] = Example("sys_enter", Basic, NoMaps)
  BY DEF Examples
<1>4. \A p \in Computing : Examples[p].hook \in {"sys_enter", "sys_enter_kill", "sys_enter_write"}
  BY <1>1, <1>2, <1>3 DEF Computing, Constant
<1>5. /\ Examples["Fact"].main = Fact /\ Examples["ListSyscalls"].main = ListSyscalls
      /\ Examples["CtxAccess"].main = CtxAccess /\ Examples["GetPid"].main = GetPid
      /\ Examples["HelloWorld"].main = HelloWorld
  <2>1. Examples["Fact"].main = Fact /\ Examples["ListSyscalls"].main = ListSyscalls
    BY <1>1, <1>2
  <2>2. Examples["CtxAccess"].main = CtxAccess /\ Examples["GetPid"].main = GetPid
    BY <1>1, <1>2
  <2>3. Examples["HelloWorld"].main = HelloWorld
    BY <1>1, <1>2
  <2> QED
    BY <2>1, <2>2, <2>3
<1>6. /\ Examples["Case"].main = Case /\ Examples["Cond"].main = CondExample
      /\ Examples["IfThenElse"].main = IfThenElse
      /\ Examples["Cp"].main = Cp /\ Examples["Basic"].main = Basic
  <2>1. Examples["Case"].main = Case /\ Examples["Cond"].main = CondExample
    BY <1>1, <1>3
  <2>2. Examples["IfThenElse"].main = IfThenElse
    BY <1>1, <1>3
  <2>3. Examples["Cp"].main = Cp /\ Examples["Basic"].main = Basic
    BY <1>1, <1>3
  <2> QED
    BY <2>1, <2>2, <2>3
<1> QED
  BY <1>4, <1>5, <1>6, FactIs, ListSyscallsIs, Zenon
     DEF HelloWorld, CondExample, IfThenElse, Cp, Basic

LEMMA MeaningBegins ==
  ASSUME ArgumentsAreInts, NEW p \in Computing, NEW input \in Inputs[p], NEW n
  PROVE  MeaningPoint(p, Examples[p].main, With(input, "pid_tgid", n), NoResult)
<1> DEFINE e == With(input, "pid_tgid", n)
<1>1. Bound(e, "pid_tgid", n) /\ \A x, m : x # "pid_tgid" /\ Bound(input, x, m) => Bound(e, x, m)
  BY BoundWith
<1> HIDE DEF e
<1>2. CASE p \in {"Fact", "ListSyscalls"}
  <2>1. PICK id : Tells(input, "ctx.id", id)
    BY <1>2 DEF ArgumentsAreInts
  <2>2. Tells(e, "ctx.id", id)
    BY <1>1, <2>1 DEF Tells
  <2> QED
    BY <1>2, <2>2, ComputingIs DEF MeaningPoint, FactPoint, ListPoint, e
<1>3. CASE p = "CtxAccess"
  <2>1. PICK pid : Tells(input, "ctx.pid", pid)
    BY <1>3 DEF ArgumentsAreInts
  <2>2. Tells(e, "ctx.pid", pid)
    BY <1>1, <2>1 DEF Tells
  <2> QED
    BY <1>1, <1>3, <2>2, ComputingIs DEF MeaningPoint, StraightPoint, e
<1>4. CASE p \in {"GetPid", "Case"}
  BY <1>1, <1>4, ComputingIs DEF MeaningPoint, StraightPoint, e
<1>5. ASSUME NEW text,
             Examples[p].main = <<Printk(text, <<>>), Return(0)>>,
             IsMeant(p, e, Outcome(<<Line(text, <<>>)>>, FALSE, 0))
      PROVE  MeaningPoint(p, Examples[p].main, e, NoResult)
  <2>1. IsPrint(Examples[p].main, e, Outcome(<<Line(text, <<>>)>>, FALSE, 0))
    BY <1>5, PrintsName
  <2> QED
    BY <1>5, <2>1 DEF MeaningPoint
<1>6. CASE p \in {"HelloWorld", "Cond", "IfThenElse"}
  <2>1. /\ p = "HelloWorld" => IsMeant(p, e, Outcome(<<Line("Hello World", <<>>)>>, FALSE, 0))
        /\ p = "Cond" => IsMeant(p, e, Outcome(<<Line("Is 32.", <<>>)>>, FALSE, 0))
        /\ p = "IfThenElse" => IsMeant(p, e, Outcome(<<Line("True", <<>>)>>, FALSE, 0))
    BY DEF IsMeant
  <2>2. \E text : /\ Examples[p].main = <<Printk(text, <<>>), Return(0)>>
                  /\ IsMeant(p, e, Outcome(<<Line(text, <<>>)>>, FALSE, 0))
    <3>1. CASE p = "HelloWorld"
      BY <2>1, <3>1, ComputingIs, Zenon
    <3>2. CASE p = "Cond"
      BY <2>1, <3>2, ComputingIs, Zenon
    <3>3. CASE p = "IfThenElse"
      BY <2>1, <3>3, ComputingIs, Zenon
    <3> QED
      BY <1>6, <3>1, <3>2, <3>3
  <2>3. MeaningPoint(p, Examples[p].main, e, NoResult)
    <3>1. PICK text : /\ Examples[p].main = <<Printk(text, <<>>), Return(0)>>
                      /\ IsMeant(p, e, Outcome(<<Line(text, <<>>)>>, FALSE, 0))
      BY <2>2
    <3> QED
      BY <1>5, <3>1
  <2> QED
    BY <2>3 DEF e
<1>7. CASE p \in {"Cp", "Basic"}
  <2>1. /\ p = "Cp" => IsMeant(p, e, Outcome(<<>>, FALSE, 18))
        /\ p = "Basic" => IsMeant(p, e, Outcome(<<>>, FALSE, 1))
    BY DEF IsMeant
  <2>2. /\ p = "Cp" => IsEnd(Examples[p].main, NoResult, Outcome(<<>>, FALSE, 18))
        /\ p = "Basic" => IsEnd(Examples[p].main, NoResult, Outcome(<<>>, FALSE, 1))
    BY ComputingIs, EndsAt
  <2> QED
    BY <1>7, <2>1, <2>2 DEF MeaningPoint, e
<1> QED
  BY <1>2, <1>3, <1>4, <1>6, <1>7 DEF Computing, Constant

LEMMA MeaningSteps ==
  ASSUME IntsAreWide, OneEach, NEW c \in Cpus, Statement(c),
         NEW p, MeaningPoint(p, todo[c], env[c], result[c])
  PROVE  MeaningPoint(p, todo'[c], env'[c], result'[c])
<1>1. todo[c] # <<>>
  BY Dispatch DEF IsIdle
<1>2. ASSUME NEW o, IsMeant(p, env[c], o), IsEnd(todo[c], result[c], o)
      PROVE  MeaningPoint(p, todo'[c], env'[c], result'[c])
  <2>1. PICK n : todo[c] = <<Return(n)>>
    BY <1>2 DEF IsEnd
  <2>2. Head(todo[c]) = Return(n)
    BY <2>1
  <2>3. Becomes(c, <<>>, NoVariables, NoResult)
    BY <2>2, OfReturn
  <2> QED
    BY <2>3 DEF Becomes, MeaningPoint
<1>3. ASSUME NEW o, IsMeant(p, env[c], o), result[c] = NoResult, IsPrint(todo[c], env[c], o)
      PROVE  MeaningPoint(p, todo'[c], env'[c], result'[c])
  BY <1>3, Prints DEF MeaningPoint
<1>4. ASSUME NEW id, p = "Fact", result[c] = NoResult, FactPoint(todo[c], env[c], id)
      PROVE  MeaningPoint(p, todo'[c], env'[c], result'[c])
  <2>1. CASE ~FactInside(todo[c], env[c], id)
    BY <1>4, <2>1, FactBegins DEF MeaningPoint
  <2>2. CASE FactInside(todo[c], env[c], id)
    <3>1. Tells(env[c], "ctx.id", id)
      BY <1>4 DEF FactPoint
    <3>2. /\ Tells(env'[c], "ctx.id", id)
          /\ \/ result'[c] = NoResult /\ FactInside(todo'[c], env'[c], id)
             \/ result'[c] = NoResult /\ IsPrint(todo'[c], env'[c], MeaningOfFact(id))
             \/ IsEnd(todo'[c], result'[c], MeaningOfFact(id))
      BY <1>4, <2>2, <3>1, FactInsideSteps
    <3>3. IsMeant(p, env'[c], MeaningOfFact(id))
      BY <1>4, <3>2, Zenon DEF IsMeant
    <3>4. FactInside(todo'[c], env'[c], id) => FactPoint(todo'[c], env'[c], id)
      BY <3>2, Zenon DEF FactPoint
    <3> QED
      BY <1>4, <3>2, <3>3, <3>4, Zenon DEF MeaningPoint
  <2> QED
    BY <2>1, <2>2
<1>5. ASSUME NEW id, p = "ListSyscalls", result[c] = NoResult, ListPoint(todo[c], env[c], id)
      PROVE  MeaningPoint(p, todo'[c], env'[c], result'[c])
  BY <1>5, ListSteps DEF MeaningPoint
<1>6. ASSUME result[c] = NoResult, StraightPoint(p, todo[c], env[c])
      PROVE  MeaningPoint(p, todo'[c], env'[c], result'[c])
  <2>1. p \in {"CtxAccess", "GetPid", "Case"}
    BY <1>6 DEF StraightPoint
  <2> QED
    BY <1>6, <2>1, CtxSteps, GetSteps, CaseSteps DEF MeaningPoint
<1> QED
  BY <1>1, <1>2, <1>3, <1>4, <1>5, <1>6, Zenon DEF MeaningPoint

LEMMA MeaningInit ==
  Init => MeaningInv
  BY DEF Init, MeaningInv, MeaningPoint

LEMMA MeaningNext ==
  ASSUME IntsAreWide, ArgumentsAreInts, OneEach, MeaningInv, [NextC]_vars
  PROVE  MeaningInv'
<1>1. program' = program
  BY NextOneEach
<1> SUFFICES ASSUME program \in Computing, NEW c \in Cpus
             PROVE  MeaningPoint(program, todo'[c], env'[c], result'[c])
  BY <1>1 DEF MeaningInv
<1>2. MeaningPoint(program, todo[c], env[c], result[c])
  BY DEF MeaningInv
<1>3. CASE Waits(c)
  BY <1>2, <1>3 DEF Waits
<1>4. CASE Statement(c)
  BY <1>2, <1>4, MeaningSteps
<1>5. ASSUME NEW says, IsEvent(says), Begins(c, says)
      PROVE  MeaningPoint(program, todo'[c], env'[c], result'[c])
  <2>1. Hook # "xdp" /\ Hook # "sched_switch"
    BY ComputingIs DEF Hook
  <2>2. \E input \in Inputs[program] : \E n : says = With(input, "pid_tgid", n)
    BY <1>5, <2>1 DEF IsEvent
  <2>3. result[c] = NoResult
    <3>1. todo[c] = <<>>
      BY <1>5 DEF Begins
    <3>2. \A o : ~IsEnd(<<>>, result[c], o) /\ ~IsPrint(<<>>, env[c], o)
      BY DEF IsEnd, IsPrint
    <3> QED
      BY <1>2, <3>1, <3>2 DEF MeaningPoint
  <2> QED
    BY <1>5, <2>2, <2>3, MeaningBegins DEF Begins
<1> QED
  BY <1>3, <1>4, <1>5, StepOfOne

(* Nowhere but at its end does a program return. *)
LEMMA ReturnsAtEnd ==
  ASSUME NEW p, NEW q, NEW e, NEW r, MeaningPoint(p, q, e, r),
         q # <<>>, Head(q).op = "return"
  PROVE  \E o : IsMeant(p, e, o) /\ IsEnd(q, r, o)
<1>1. ASSUME NEW o, IsPrint(q, e, o)  PROVE FALSE
  BY <1>1 DEF IsPrint, Printk
<1>2. ASSUME NEW id, FactPoint(q, e, id)  PROVE FALSE
  <2>1. Head(q) \in {TakeId, Times2, Times3, IfOne, LessOne, IfOneLess, Set("b", I(1)),
                     Set("f1", I(1)), TimesF1, Raise, AddBoth}
    BY <1>2, LongFirsts, Firsts DEF FactPoint, FactInside, FactProgram
  <2>2. Head(q).op # "return"
    BY <2>1 DEF TakeId, Times2, Times3, IfOne, LessOne, IfOneLess, TimesF1, Raise, AddBoth,
                Set, Compute, If, Checked
  <2> QED
    BY <2>2
<1>3. ASSUME NEW id, ListPoint(q, e, id)  PROVE FALSE
  <2>1. Head(q) \in {TakeId, IfKill, IfMkdir, IfGetrandom}
    BY <1>3, Firsts DEF ListPoint, ListProgram
  <2>2. Head(q).op # "return"
    BY <2>1 DEF TakeId, IfKill, IfMkdir, IfGetrandom, Set, If
  <2> QED
    BY <2>2
<1>4. ASSUME StraightPoint(p, q, e)  PROVE FALSE
  <2>1. \/ q \in {CtxAccess, GetPid, Case}
        \/ Head(q) \in {SetCallee, Set("five", I(5))}
    BY <1>4, Firsts DEF StraightPoint
  <2>2. \E x, a : Head(q) = Set(x, a)
    <3>1. /\ Head(CtxAccess) = Set("targetid", V("ctx.pid"))
          /\ Head(GetPid) = Set("callee", V("pid_tgid"))
      BY DEF CtxAccess, GetPid
    <3>2. Head(Case) = Set("return", I(3))
      BY DEF Case
    <3>3. CASE q \in {CtxAccess, GetPid, Case}
      BY <3>1, <3>2, <3>3
    <3>4. CASE Head(q) \in {SetCallee, Set("five", I(5))}
      BY <3>4 DEF SetCallee
    <3> QED
      BY <2>1, <3>3, <3>4
  <2>3. Head(q).op # "return"
    BY <2>2 DEF Set
  <2> QED
    BY <2>3
<1> QED
  BY <1>1, <1>2, <1>3, <1>4, Zenon DEF MeaningPoint

LEMMA MeantIs ==
  ASSUME NEW e, NEW o, IsMeant(program, e, o)
  PROVE  /\ program = "Fact" => o = MeaningOfFact(e["ctx.id"])
         /\ program = "ListSyscalls" => o = MeaningOfListSyscalls(e["ctx.id"])
         /\ program \in Constant => o = MeaningOfOther(e)
<1>1. CASE program \in {"Fact", "ListSyscalls"}
  BY <1>1 DEF IsMeant, Tells, Bound, Constant
<1>2. CASE program \in {"CtxAccess", "GetPid"}
  BY <1>2 DEF IsMeant, MeaningOfOther
<1>3. CASE program \in {"HelloWorld", "Case", "Cond", "IfThenElse"}
  BY <1>3 DEF IsMeant, MeaningOfOther
<1>4. CASE program \in {"Cp", "Basic"}
  <2>1. 5 + 6 + 2 + 4 + 1 = 18
    OBVIOUS
  <2> QED
    BY <1>4, <2>1 DEF IsMeant, MeaningOfOther
<1> QED
  BY <1>1, <1>2, <1>3, <1>4 DEF Constant

LEMMA MeaningInvIsEnough ==
  MeaningInv => ElixirMeaning
<1> SUFFICES ASSUME MeaningInv, NEW c \in Cpus, Returns(c), program \in Computing,
                    NEW outcome,
                    outcome = Outcome(result[c].printed, result[c].raised, Head(todo[c]).n)
             PROVE  /\ program = "Fact" => outcome = MeaningOfFact(env[c]["ctx.id"])
                    /\ program = "ListSyscalls" =>
                         outcome = MeaningOfListSyscalls(env[c]["ctx.id"])
                    /\ program \in Constant => outcome = MeaningOfOther(env[c])
  BY DEF ElixirMeaning, Computing, Constant
<1>1. PICK o : IsMeant(program, env[c], o) /\ IsEnd(todo[c], result[c], o)
  BY ReturnsAtEnd DEF MeaningInv, Returns, Is, IsIdle
<1>2. PICK n : todo[c] = <<Return(n)>> /\ Outcome(result[c].printed, result[c].raised, n) = o
  BY <1>1 DEF IsEnd
<1>3. Head(todo[c]).n = n
  BY <1>2 DEF Return
<1>4. outcome = o
  BY <1>2, <1>3, Zenon
<1> QED
  BY <1>1, <1>4, MeantIs

(***************************************************************************)
(* Whatever the CPUs run at once, the programs that only compute end as    *)
(* their Elixir source says.                                               *)
(***************************************************************************)
THEOREM ComputedAsMeant ==
  ASSUME IntsAreWide, ArgumentsAreInts
  PROVE  SpecC => []ElixirMeaning
<1>1. Init => OneEach /\ MeaningInv
  BY InitOneEach, MeaningInit
<1>2. OneEach /\ MeaningInv /\ [NextC]_vars => (OneEach /\ MeaningInv)'
  BY NextOneEach, MeaningNext
<1> QED
  BY <1>1, <1>2, MeaningInvIsEnough, PTL DEF SpecC
=============================================================================
