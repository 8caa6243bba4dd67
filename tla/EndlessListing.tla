--------------------------- MODULE EndlessListing ---------------------------
(***************************************************************************)
(* A listing by output_opt among events that go on for as long as it does: *)
(* the machine of GeneratedC, which, of some programs, forgets how often   *)
(* what has happened did, so that any number of events fits.               *)
(***************************************************************************)
EXTENDS Examples

CONSTANT Forever  (* the programs whose events go on *)

ASSUME EndlessAssumption == Forever \subseteq Programs

VARIABLE moved  (* history: the keys that stores may have moved meanwhile *)

endless == <<vars, moved>>

InitEndless == Init /\ moved = {}

(***************************************************************************)
(* Before and during the listing, the events may begin again.  That        *)
(* something has happened is not forgotten; no statement reads either.     *)
(***************************************************************************)
StartOver ==
  /\ program \in Forever /\ listing.at # "ended"
  /\ events = MaxEvents[program] /\ events' = 0
  /\ happened' = [e \in DOMAIN happened |-> 1]
  /\ UNCHANGED <<program, maps, cpu, thread, clock, listing, since, ran, moved>>

Listing == listing.at \in {"lookup", "next"}

(* BPF_NOEXIST stores a key that is not there, and moves none. *)
MovedBy(c) ==
  IF Listing /\ Is(c, "store") /\ Head(todo[c]).flags # "BPF_NOEXIST"
    THEN {Value(c, Head(todo[c]).k)} ELSE {}

Run(c) == Statement(c) /\ moved' = moved \cup MovedBy(c)
List == ListingStep /\ UNCHANGED moved

NextEndless ==
  \/ \E c \in Cpus : (SystemCall(c) \/ Receive(c) \/ Switch(c)) /\ UNCHANGED moved
  \/ \E c \in Cpus : Run(c)
  \/ FirstKey /\ UNCHANGED moved
  \/ List
  \/ StartOver

(* Every CPU goes on with its program, and the loader with its listing. *)
SpecEndless ==
  InitEndless /\ [][NextEndless]_endless
              /\ \A c \in Cpus : WF_endless(Run(c))
              /\ WF_endless(List)

-----------------------------------------------------------------------------
(***************************************************************************)
(* force_kill and traffic_counter: a listing shows every key that was      *)
(* there when it began and was not moved meanwhile, however the keys       *)
(* around it move.                                                         *)
(***************************************************************************)
UnmovedListed == listing.at = "ended" => listing.began \ moved \subseteq listing.shown

(***************************************************************************)
(* A listing of force_kill's map ends although kills go on: the map takes  *)
(* no more than max_entries pids, and one that it has does not move.  Of   *)
(* traffic_counter's map a listing may go round for ever: the packets of   *)
(* two addresses put one, then the other, at the head of their bucket.     *)
(***************************************************************************)
KillsListingEnds == program = "ForceKill" /\ Listing ~> listing.at = "ended"
=============================================================================
