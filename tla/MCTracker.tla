----------------------------- MODULE MCTracker -----------------------------
(* Small instances of Tracker for TLC. *)
EXTENDS Tracker, TLC

CONSTANTS p, r
CONSTANTS Edits, Retries, Recomputes, Deletes, Crashes

MCLimit == [edit |-> Edits, retry |-> Retries, recompute |-> Recomputes,
            delete |-> Deletes, crash |-> Crashes]

(* Recording 1 passes every waypoint set at p.  A second recording passes *)
(* those at r, and under the second algorithm those at p as well.         *)
MCReach ==
  [a \in Algos |-> [f \in Files |->
     IF f = 1 THEN {p} ELSE IF a = 1 THEN {r} ELSE {p, r}]]

MCBackups == {<<p, p>>}

Symmetric == Permutations(Tasks) \cup Permutations(TripIds)
=============================================================================
