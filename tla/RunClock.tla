------------------------------- MODULE RunClock -------------------------------
(***************************************************************************)
(* The clock the owner's tools name their files by.  A run_id is           *)
(* datetime.now() to the second, so two runs of a tool can have the same   *)
(* one (build_pilot_output.py, run_collector_pilot.py, run_habr_pilot.py). *)
(***************************************************************************)
EXTENDS Naturals

CONSTANT MaxStamp      (* Bound: seconds in which something is stamped.    *)

ASSUME ClockAssumption == MaxStamp \in Nat \ {0}

Stamps == 1 .. MaxStamp

VARIABLE clock         (* the second it is                                 *)

(* Something is stamped, and an earlier second never comes back. *)
Stamp(stamp) ==
  /\ stamp \in Stamps
  /\ clock <= stamp /\ stamp <= clock + 1
  /\ clock' = stamp

==============================================================================
