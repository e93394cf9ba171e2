--------------------------------- MODULE Gpx ---------------------------------
(***************************************************************************)
(* From a GPX document to the track that is measured: Parse and filter in  *)
(* internal/gpx/gpx.go.                                                    *)
(*                                                                         *)
(* A document is the list of its track points, segment after segment.  Of  *)
(* a point only four things matter: the instant it carries, if it carries  *)
(* one; whether it is the first of its segment; whether its precision is   *)
(* acceptable; and which of two places it is at.  The places are so far    *)
(* apart that only a car faster than MaxSpeedKPH gets from one to the      *)
(* other between neighbouring instants.                                    *)
(***************************************************************************)
EXTENDS Integers, FiniteSets, SequencesExt

CONSTANTS
  MaxPoints,  \* bound on the points of a document
  MaxTime     \* bound on the instants they carry

ASSUME GpxAssumptions == MaxPoints \in Nat /\ MaxTime \in Nat \ {0}

VARIABLES
  points,   \* the document
  left,     \* its points with a time that filter has not come to yet
  track,    \* the fixes filter has kept
  pending,  \* a break in the recording that no fix marks yet
  result    \* of Parse: "track" or "error", once it has returned

vars == <<points, left, track, pending, result>>

NoTime == 0
Nowhere == "noisy"
Places == {"here", "there"}

(* A fix whose precision is poor is discarded wherever it is. *)
Fix == [time : {NoTime} \cup 1 .. MaxTime, opens : BOOLEAN, place : Places \cup {Nowhere}]

Documents ==
  {doc \in UNION {[1 .. n -> Fix] : n \in 0 .. MaxPoints} :
     doc # <<>> => doc[1].opens}

Timed(doc) == {n \in DOMAIN doc : doc[n].time # NoTime}

Init ==
  /\ points \in Documents
  /\ left = Timed(points)
  /\ track = <<>>
  /\ pending = FALSE
  /\ result = "none"

(* A document without one point that has a time is refused; one of which   *)
(* the filter leaves nothing is not.                                       *)
Refuse ==
  /\ result = "none" /\ Timed(points) = {}
  /\ result' = "error"
  /\ UNCHANGED <<points, left, track, pending>>

-----------------------------------------------------------------------------
(* filter, one step per point *)

(* The order of sort.SliceStable: by time, and then as in the document. *)
Before(a, b) == points[a].time < points[b].time \/ (points[a].time = points[b].time /\ a < b)

TooFast(p, q) == p.place # q.place /\ q.time - p.time < 2

(* Faults: no speed is too high; a break does not exempt the fix after it. *)
RejectedAtNoSpeed(kept, p, opens) ==
  p.place = Nowhere \/ (kept # <<>> /\ p.time <= Last(kept).time)

RejectedOverBreaks(kept, p, opens) ==
  \/ p.place = Nowhere
  \/ kept # <<>> /\ (p.time <= Last(kept).time \/ TooFast(Last(kept), p))

(* What the filter discards: an imprecise fix, one that repeats an         *)
(* instant, and one no car could have reached - unless it opens a stretch  *)
(* of recording, as the speed across a break means nothing.                *)
Rejected(kept, p, opens) ==
  \/ p.place = Nowhere
  \/ /\ kept # <<>>
     /\ \/ p.time <= Last(kept).time
        \/ ~ opens /\ TooFast(Last(kept), p)

(* Fault: a discarded fix takes the break it opened with it. *)
DiscardWithBreak(opens) == pending' = FALSE /\ UNCHANGED track

(* A break is carried forward to the next fix that survives. *)
Discard(opens) == pending' = opens /\ UNCHANGED track

Keep(n, opens) ==
  /\ track' = Append(track, [time |-> points[n].time, opens |-> opens,
                             place |-> points[n].place, at |-> n])
  /\ pending' = FALSE

NextPoint ==
  \E n \in left :
    /\ \A m \in left : m = n \/ Before(n, m)
    /\ LET opens == pending \/ points[n].opens
       IN  IF Rejected(track, points[n], opens) THEN Discard(opens) ELSE Keep(n, opens)
    /\ left' = left \ {n}
    /\ UNCHANGED <<points, result>>

(* The first fix of a track always opens it. *)
Finish ==
  /\ result = "none" /\ left = {} /\ Timed(points) # {}
  /\ track' = (IF track = <<>> THEN track ELSE [track EXCEPT ![1].opens = TRUE])
  /\ result' = "track"
  /\ UNCHANGED <<points, left, pending>>

Next == Refuse \/ NextPoint \/ Finish

Spec == Init /\ [][Next]_vars

-----------------------------------------------------------------------------
(* Properties *)

TypeOK ==
  /\ points \in Documents
  /\ left \subseteq Timed(points)
  /\ track \in Seq([time : 1 .. MaxTime, opens : BOOLEAN, place : Places,
                    at : Timed(points)])
  /\ pending \in BOOLEAN
  /\ result \in {"none", "error", "track"}

(* Each fix that is kept, with the one kept before it. *)
Steps == {<<track[k], track[k + 1]>> : k \in 1 .. Len(track) - 1}

(***************************************************************************)
(* Time moves on from each fix to the next, whatever order the document    *)
(* has its points in, and within a stretch of continuous recording no fix  *)
(* that is kept implies a speed no car can reach: matching interpolates    *)
(* between neighbours.                                                     *)
(***************************************************************************)
PlausibleTravel ==
  \A s \in Steps : /\ s[1].time < s[2].time
                   /\ s[2].opens \/ ~ TooFast(s[1], s[2])

(***************************************************************************)
(* A break in the recording survives the loss of the fix that opened it:   *)
(* a fix is marked as opening a stretch exactly when a segment began       *)
(* between the fix kept before it and itself.                              *)
(***************************************************************************)
BreaksSurvive ==
  /\ (result = "track" /\ track # <<>>) => track[1].opens
  /\ \A s \in Steps :
       s[2].opens <=> \E n \in Timed(points) :
                        /\ points[n].opens
                        /\ Before(s[1].at, n)
                        /\ n = s[2].at \/ Before(n, s[2].at)

(***************************************************************************)
(* A clean recording is kept whole: if every point is precise and has a    *)
(* time, later than the one before it and no further than a car can get    *)
(* unless recording was paused, nothing is discarded.                      *)
(***************************************************************************)
Clean(doc) ==
  /\ \A n \in DOMAIN doc : doc[n].time # NoTime /\ doc[n].place # Nowhere
  /\ \A n \in 1 .. Len(doc) - 1 :
       /\ doc[n].time < doc[n + 1].time
       /\ doc[n + 1].opens \/ ~ TooFast(doc[n], doc[n + 1])

CleanIsKeptWhole ==
  (result # "none" /\ Clean(points)) => Len(track) = Len(points)

(***************************************************************************)
(* "The boundaries between them are preserved on the resulting points":    *)
(* in a document recorded in order, a fix is never joined to one of        *)
(* another segment.                                                        *)
(***************************************************************************)
SegmentOf(n) == Cardinality({m \in 1 .. n : points[m].opens})

RecordedInOrder == \A a, b \in Timed(points) : a < b => points[a].time < points[b].time

BoundariesPreserved ==
  RecordedInOrder =>
    \A s \in Steps : SegmentOf(s[1].at) # SegmentOf(s[2].at) => s[2].opens
=============================================================================
