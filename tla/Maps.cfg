CONSTANTS
  Trips = {t1, t2}
  NoTrip = NoTrip
  Points = {p1, p2}
  NoPoint = NoPoint
  MaxPicks = 3
  MaxLost = 1
SPECIFICATION FairSpec
INVARIANTS TypeOK BackdropIsTheChoice OneProvisionalMarker TripMapIsPlaced
PROPERTIES ChoiceIsDrawn
