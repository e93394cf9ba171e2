------------------------------- MODULE Route -------------------------------
(***************************************************************************)
(* The single active route as the rest of the tracker sees it: a list of   *)
(* waypoints in canonical order and a version that rises with every        *)
(* committed edit.                                                         *)
(*                                                                         *)
(* Each action is one transaction of internal/storage/templates.go seen    *)
(* from outside.  RouteStore models the rows, the sequence numbers and the *)
(* queries behind these actions and is shown to implement this module;     *)
(* Tracker composes these actions with the importer.                       *)
(*                                                                         *)
(* A waypoint keeps its identity while its place changes.  A place stands  *)
(* for everything an edit may change and the matcher looks at: position,   *)
(* radius and optionality.                                                 *)
(***************************************************************************)
EXTENDS Integers, SequencesExt

CONSTANTS
  Places,   \* what a waypoint can be set to
  Backups   \* routes a CSV backup can hold, as sequences of places

ASSUME BackupsAssumption == Backups \subseteq Seq(Places)

VARIABLES
  version,  \* route_templates.version of the active row, 0 while there is none
  wps,      \* the active route's waypoints, in order of seq
  nextId    \* identities below this one have been given out (domain.NewID)

routeVars == <<version, wps, nextId>>

Waypoint == [id : Nat, place : Places]

(* The identities of a route's waypoints. *)
IdsOf(w) == {w[i].id : i \in DOMAIN w}

RouteTypeOK ==
  /\ version \in Nat
  /\ wps \in Seq(Waypoint)
  /\ nextId \in Nat

RouteInit ==
  /\ version = 0
  /\ wps = <<>>
  /\ nextId = 0

(***************************************************************************)
(* EnsureActiveTemplate: the first request to add a waypoint creates the   *)
(* route, empty and at version 1, before its form has been validated.      *)
(***************************************************************************)
CreateRoute ==
  /\ version = 0
  /\ version' = 1
  /\ UNCHANGED <<wps, nextId>>

(* AddWaypoint appends. *)
AddWaypoint(p) ==
  /\ version > 0
  /\ wps' = Append(wps, [id |-> nextId, place |-> p])
  /\ nextId' = nextId + 1
  /\ version' = version + 1

(* UpdateWaypoint changes a waypoint in place and keeps its identity. *)
UpdateWaypoint(i, p) ==
  /\ i \in DOMAIN wps
  /\ wps' = [wps EXCEPT ![i].place = p]
  /\ version' = version + 1
  /\ UNCHANGED nextId

(* DeleteWaypoint closes the gap it leaves. *)
DeleteWaypoint(i) ==
  /\ i \in DOMAIN wps
  /\ wps' = RemoveAt(wps, i)
  /\ version' = version + 1
  /\ UNCHANGED nextId

(* MoveWaypoint exchanges two neighbours.  *)
MoveWaypoint(i, delta) ==
  /\ i \in DOMAIN wps
  /\ i + delta \in DOMAIN wps
  /\ wps' = [wps EXCEPT ![i] = wps[i + delta], ![i + delta] = wps[i]]
  /\ version' = version + 1
  /\ UNCHANGED nextId

(***************************************************************************)
(* ReplaceRoute installs a backup: every waypoint is deleted and inserted  *)
(* again under a fresh identity.  A route created on the way is inserted   *)
(* at version 1 and bumped like any other, so it comes out at version 2.   *)
(***************************************************************************)
ReplaceRoute(places) ==
  /\ version' = IF version = 0 THEN 2 ELSE version + 1
  /\ wps' = [i \in DOMAIN places |-> [id |-> nextId + i - 1, place |-> places[i]]]
  /\ nextId' = nextId + Len(places)

EditRoute ==
  \/ \E p \in Places : AddWaypoint(p)
  \/ \E i \in DOMAIN wps, p \in Places : UpdateWaypoint(i, p)
  \/ \E i \in DOMAIN wps : DeleteWaypoint(i)
  \/ \E i \in DOMAIN wps, delta \in {-1, 1} : MoveWaypoint(i, delta)
  \/ \E places \in Backups : ReplaceRoute(places)

RouteNext == CreateRoute \/ EditRoute

RouteSpec == RouteInit /\ [][RouteNext]_routeVars
=============================================================================
