---------------------------- MODULE EventCounters ----------------------------
(***************************************************************************)
(* What a program that looks a key up and stores the value plus one        *)
(* promises: each counter tells how many of its events there were.  An     *)
(* event may go uncounted only while its counter has never counted any,    *)
(* because the map has no room for the counter or no entry to start from.  *)
(***************************************************************************)
EXTENDS Integers

CONSTANT Counters

VARIABLES counts, events

InitCounters ==
  /\ counts = [x \in Counters |-> 0]
  /\ events = [x \in Counters |-> 0]

Count(x) ==
  /\ events' = [events EXCEPT ![x] = @ + 1]
  /\ counts' = [counts EXCEPT ![x] = @ + 1]

Miss(x) ==
  /\ counts[x] = 0
  /\ events' = [events EXCEPT ![x] = @ + 1]
  /\ UNCHANGED counts

NextCounters == \E x \in Counters : Count(x) \/ Miss(x)

counted == <<counts, events>>
SpecCounters == InitCounters /\ [][NextCounters]_counted
=============================================================================
