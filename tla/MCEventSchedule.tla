-------------------------- MODULE MCEventSchedule --------------------------
(* Instances of EventSchedule for TLC.                                     *)
EXTENDS EventSchedule, TLC

CONSTANTS hall, club     \* a large venue and a small one

VenueCapacity == [v \in Venues |-> IF v = hall THEN 2 ELSE 1]

\* Update requests that set a date, move an event with or without a date, or set
\* the capacity.
AllChanges == {{"start"}, {"end"}, {"venue"}, {"venue", "start"}, {"capacity"}}
CapacityChange == {{"capacity"}, {"venue", "start", "end"}}
VenueOnly == {{"venue"}}
OneDate   == {{"start"}, {"end"}}
NoChanges == {}

Symmetry == Permutations(Events) \cup Permutations(Sessions)

=============================================================================
