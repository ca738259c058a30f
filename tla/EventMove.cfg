SPECIFICATION Spec
CONSTANTS
  hall = hall
  club = club
  Events = {e1, e2}
  Venues = {hall, club}
  MaxCapacity <- VenueCapacity
  Capacities = {1}
  Slots = {0, 1, 2}
  Buffer = 1
  MaxDuration = 3
  Changes <- VenueOnly
  Sessions = {p1}
  MaxUpdates = 2
SYMMETRY Symmetry
INVARIANT NoDoubleBooking
