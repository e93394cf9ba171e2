-------------------------------- MODULE Maps --------------------------------
(***************************************************************************)
(* The two maps in the browser: the waypoint editor of the route page      *)
(* (static/route-map.js) and the drawing of one trip (static/trip-map.js). *)
(*                                                                         *)
(* Both fetch the recorded line of a trip and draw it when the answer      *)
(* arrives.  An answer is a callback: whatever the user did in the         *)
(* meantime has been done.  The server answers with the line or, once the  *)
(* trip has been deleted, with an error; a deletion between the answer and *)
(* its arrival is no different from one just after.  The network may lose  *)
(* a request.  Reloading a page drops its layers and pending callbacks.    *)
(***************************************************************************)
EXTENDS Integers, FiniteSets

CONSTANTS
  Trips,     \* the trips offered as a backdrop
  NoTrip,    \* the empty choice
  Points,    \* where the user clicks or types
  NoPoint,
  MaxPicks,  \* bound on the choices made on one page, and on clicks
  MaxLost    \* bound on the requests lost

ASSUME MapsAssumptions ==
  /\ NoTrip \notin Trips
  /\ NoPoint \notin Points
  /\ MaxPicks \in Nat /\ MaxLost \in Nat

VARIABLES
  stored,      \* the trips whose line the server has
  lost,        \* how many requests the network has lost
  offered,     \* the route page: the trips in the list when it was loaded
  picker,      \* the one chosen
  picks,       \* how many choices were made since the page was loaded
  fetching,    \* its requests in flight
  backdrop,    \* the layer the script remembers, or NoLayer
  lines,       \* the layers drawn on the map
  form,        \* the coordinates in the form below the map
  pending,     \* the provisional marker the script remembers
  markers,     \* the provisional markers drawn
  clicks,
  overlapped,  \* history: a choice was made while a request was in flight
  missed,      \* history: the request of the latest choice was lost
  tripPage     \* the trip page: [trip, waypoints, fetch, line, view]

server == <<stored, lost>>
picking == <<offered, picker, picks, fetching, backdrop, lines, overlapped, missed>>
placing == <<form, pending, markers, clicks>>
routePage == <<picking, placing>>
vars == <<server, routePage, tripPage>>

(* A line on the map, or the request for it: of which choice it is. *)
Layer == [pick : 1 .. MaxPicks, trip : Trips]
NoLayer == [trip |-> NoTrip]

NoTripPage == [trip |-> NoTrip]
TripPage ==
  [trip : Trips, waypoints : BOOLEAN, fetch : {"flying", "answered", "lost"},
   line : BOOLEAN, view : {"none", "fitted", "world"}]

TypeOK ==
  /\ stored \subseteq Trips /\ offered \subseteq Trips
  /\ lost \in 0 .. MaxLost
  /\ picker \in Trips \cup {NoTrip}
  /\ picks \in 0 .. MaxPicks
  /\ fetching \subseteq Layer
  /\ \A l \in fetching \cup lines : l.pick <= picks
  /\ backdrop \in Layer \cup {NoLayer}
  /\ lines \subseteq Layer
  /\ form \in Points \cup {NoPoint}
  /\ pending \in Points \cup {NoPoint}
  /\ markers \subseteq Points
  /\ clicks \in 0 .. MaxPicks
  /\ overlapped \in BOOLEAN /\ missed \in BOOLEAN
  /\ tripPage \in TripPage \cup {NoTripPage}

(* A script starts on a page just loaded. *)
Init ==
  /\ stored = Trips /\ offered = Trips
  /\ lost = 0
  /\ picker = NoTrip /\ picks = 0
  /\ fetching = {} /\ backdrop = NoLayer /\ lines = {}
  /\ form = NoPoint /\ pending = NoPoint /\ markers = {} /\ clicks = 0
  /\ overlapped = FALSE /\ missed = FALSE
  /\ tripPage = NoTripPage

-----------------------------------------------------------------------------
(* The server *)

(* Somebody deletes a trip; a page that lists it does not learn of it. *)
DeleteTrip(t) ==
  /\ t \in stored
  /\ stored' = stored \ {t}
  /\ UNCHANGED <<lost, routePage, tripPage>>

-----------------------------------------------------------------------------
(* The route page *)

(* Fault: the line of the last choice stays on the map. *)
WithoutNone(layers, layer) == layers

Without(layers, layer) == layers \ {layer}

(***************************************************************************)
(* The change handler of the list: the line it knows of is taken off and,  *)
(* unless the empty choice was made, the next one is asked for.  A request *)
(* in flight is left alone.                                                *)
(***************************************************************************)
Pick(t) ==
  /\ picks < MaxPicks
  /\ t \in (offered \cup {NoTrip}) \ {picker}
  /\ picker' = t
  /\ picks' = picks + 1
  /\ lines' = Without(lines, backdrop)
  /\ backdrop' = NoLayer
  /\ fetching' = IF t = NoTrip THEN fetching
                 ELSE fetching \cup {[pick |-> picks + 1, trip |-> t]}
  /\ overlapped' = (overlapped \/ fetching # {})
  /\ missed' = FALSE
  /\ UNCHANGED <<server, offered, placing, tripPage>>

(* Fault: a line is drawn only while there is none. *)
DrawnIfFree(f) == f.trip \in stored /\ backdrop = NoLayer

(* Nothing is drawn for an answer that is not ok. *)
Drawn(f) == f.trip \in stored

(* The answer to f arrives, whatever has been chosen since. *)
Answer(f) ==
  /\ f \in fetching
  /\ fetching' = fetching \ {f}
  /\ IF Drawn(f)
     THEN backdrop' = f /\ lines' = lines \cup {f}
     ELSE UNCHANGED <<backdrop, lines>>
  /\ UNCHANGED <<server, offered, picker, picks, overlapped, missed, placing, tripPage>>

(* The network loses f: the promise is rejected and nobody handles it. *)
Lose(f) ==
  /\ f \in fetching
  /\ lost < MaxLost
  /\ lost' = lost + 1
  /\ fetching' = fetching \ {f}
  /\ missed' = (missed \/ f.pick = picks)
  /\ UNCHANGED <<stored, offered, picker, picks, backdrop, lines, overlapped, placing, tripPage>>

(* Fault: the marker of the click before stays. *)
Alongside(shown, at) == shown \cup {at}

(* The marker of the click before is replaced. *)
Replacing(shown, at) == (shown \ {pending}) \cup {at}

(* The click handler of the map fills in the form and marks the place. *)
Click(at) ==
  /\ clicks < MaxPicks
  /\ clicks' = clicks + 1
  /\ form' = at
  /\ pending' = at
  /\ markers' = Replacing(markers, at)
  /\ UNCHANGED <<server, picking, tripPage>>

(* Coordinates can be typed as well; no handler listens. *)
TypeCoordinates(at) ==
  /\ clicks < MaxPicks
  /\ clicks' = clicks + 1
  /\ form' = at
  /\ UNCHANGED <<server, picking, pending, markers, tripPage>>

(* Fault: the requests of the page before are answered on the new one. *)
LoadUnderRequests ==
  /\ picks > 0 \/ clicks > 0
  /\ offered' = stored
  /\ picker' = NoTrip /\ picks' = 0
  /\ backdrop' = NoLayer /\ lines' = {}
  /\ overlapped' = FALSE /\ missed' = FALSE
  /\ form' = NoPoint /\ pending' = NoPoint /\ markers' = {} /\ clicks' = 0
  /\ UNCHANGED <<server, fetching, tripPage>>

(* Adding, saving, moving or reloading loads the page anew. *)
LoadRoutePage ==
  /\ picks > 0 \/ clicks > 0
  /\ offered' = stored
  /\ picker' = NoTrip /\ picks' = 0
  /\ fetching' = {} /\ backdrop' = NoLayer /\ lines' = {}
  /\ overlapped' = FALSE /\ missed' = FALSE
  /\ form' = NoPoint /\ pending' = NoPoint /\ markers' = {} /\ clicks' = 0
  /\ UNCHANGED <<server, tripPage>>

-----------------------------------------------------------------------------
(* The trip page *)

(* The waypoints are drawn at once, the line is asked for. *)
OpenTripPage(t) ==
  /\ t \in stored
  /\ tripPage = NoTripPage
  /\ \E waypoints \in BOOLEAN :
       tripPage' = [trip |-> t, waypoints |-> waypoints, fetch |-> "flying",
                    line |-> FALSE, view |-> "none"]
  /\ UNCHANGED <<server, routePage>>

(* Fault: without a line the map is left as it is. *)
FitOnlyLine(line, waypoints) == IF line THEN "fitted" ELSE "none"

(* Where the map is centred once the answer is there. *)
Fit(line, waypoints) == IF line \/ waypoints THEN "fitted" ELSE "world"

TripAnswer ==
  /\ tripPage # NoTripPage /\ tripPage.fetch = "flying"
  /\ LET line == tripPage.trip \in stored
     IN  tripPage' = [tripPage EXCEPT !.fetch = "answered", !.line = line,
                                      !.view = Fit(line, tripPage.waypoints)]
  /\ UNCHANGED <<server, routePage>>

(* The catch: the waypoints are shown without the line, if there are any. *)
TripLost ==
  /\ tripPage # NoTripPage /\ tripPage.fetch = "flying"
  /\ lost < MaxLost
  /\ lost' = lost + 1
  /\ tripPage' = [tripPage EXCEPT !.fetch = "lost",
                                  !.view = IF tripPage.waypoints THEN "fitted" ELSE @]
  /\ UNCHANGED <<stored, routePage>>

LeaveTripPage ==
  /\ tripPage # NoTripPage
  /\ tripPage' = NoTripPage
  /\ UNCHANGED <<server, routePage>>

-----------------------------------------------------------------------------

Network ==
  \/ \E f \in fetching : Answer(f) \/ Lose(f)
  \/ TripAnswer
  \/ TripLost

User ==
  \/ \E t \in Trips : DeleteTrip(t) \/ OpenTripPage(t)
  \/ \E t \in Trips \cup {NoTrip} : Pick(t)
  \/ \E at \in Points : Click(at) \/ TypeCoordinates(at)
  \/ LoadRoutePage
  \/ LeaveTripPage

Next == Network \/ User

(* A browser settles every fetch, one way or the other. *)
FetchesSettle ==
  /\ \A p \in 1 .. MaxPicks, t \in Trips :
       LET f == [pick |-> p, trip |-> t] IN WF_vars(Answer(f) \/ Lose(f))
  /\ WF_vars(TripAnswer \/ TripLost)

Spec == Init /\ [][Next]_vars

FairSpec == Spec /\ FetchesSettle

-----------------------------------------------------------------------------
(* Properties *)

DrawnTrips == {l.trip : l \in lines}

(***************************************************************************)
(* As long as no choice is made while an earlier one is still being        *)
(* fetched, at most one line is drawn, it is the one the script remembers  *)
(* and can take off, and it is the trip chosen.                            *)
(***************************************************************************)
BackdropIsTheChoice ==
  ~ overlapped =>
    /\ lines = {backdrop} \ {NoLayer}
    /\ DrawnTrips \subseteq {picker}

(***************************************************************************)
(* Whatever the order of the answers, and whatever has been left on the    *)
(* map, the line of the trip finally chosen is drawn - unless the trip has *)
(* gone or its request was lost.                                           *)
(***************************************************************************)
ChoiceIsDrawn ==
  \A t \in Trips :
    picker = t ~> \/ t \in DrawnTrips
                  \/ picker # t
                  \/ missed
                  \/ t \notin stored

(***************************************************************************)
(* The map shows one provisional marker at most, where the last click was, *)
(* however clicks and typing alternate.                                    *)
(***************************************************************************)
OneProvisionalMarker == markers = {pending} \ {NoPoint}

(***************************************************************************)
(* Once the line of a trip has been fetched, or has turned out to be gone  *)
(* or lost, its map shows some place: it has a view whenever there was     *)
(* anything to show and whenever the server answered.                      *)
(***************************************************************************)
TripMapIsPlaced ==
  (tripPage # NoTripPage /\ tripPage.fetch # "flying") =>
    /\ tripPage.view = "none" => tripPage.fetch = "lost" /\ ~ tripPage.waypoints
    /\ tripPage.line \/ tripPage.waypoints => tripPage.view = "fitted"

(***************************************************************************)
(* "a past trip can be drawn underneath" (route-map.js): one, and the one  *)
(* chosen.  Two answers that cross leave a line that nothing remembers.    *)
(***************************************************************************)
OnlyTheChoiceIsDrawn == fetching = {} => DrawnTrips \subseteq {picker}

(* "A provisional marker showing where the next waypoint would go"         *)
(* (route-map.js): typing leaves it where it was.                          *)
MarkerShowsTheForm == pending # NoPoint => pending = form
=============================================================================
