SPECIFICATION Spec
CONSTANTS
  hall = hall
  club = club
  Events = {e1}
  Venues = {hall, club}
  MaxCapacity <- VenueCapacity
  Capacities = {0, 1, 2}
  Slots = {0, 1}
  Buffer = 1
  MaxDuration = 3
  Changes <- CapacityChange
  Sessions = {p1}
  MaxUpdates = 2
SYMMETRY Symmetry
INVARIANT CapacityFits
