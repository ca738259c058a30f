SPECIFICATION Spec
CONSTANTS
  hall = hall
  club = club
  Events = {e1, e2}
  Venues = {hall, club}
  MaxCapacity <- VenueCapacity
  Capacities = {1, 3}
  Slots = {0, 1, 2, 3}
  Buffer = 1
  MaxDuration = 2
  Changes <- AllChanges
  Sessions = {p1, p2}
  MaxUpdates = 2
SYMMETRY Symmetry
INVARIANTS
  CapacityFitsSomewhere
  BookableIsListed
PROPERTIES
  DoubleBookingNeedsARace
  DisorderNeedsAStaleRow
