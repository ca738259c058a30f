-------------------------- MODULE MCSeatAllocator --------------------------
(* Instances of SeatAllocator for TLC.                                     *)
EXTENDS SeatAllocator, TLC

CONSTANTS s1, s2     \* two seats of one event

OneSeat == {<<s1>>}

\* A single seat, two seats in both orders, and a seat named twice.
TwoSeats == {<<s1>>, <<s1, s2>>, <<s2, s1>>, <<s1, s1>>}

\* Every seat list is at most this long.
MaxSeatsPerList == 2

\* What distinguishes two sessions or two reservations is only their name.
Symmetry == Permutations(Sessions) \cup Permutations(Reservations)

\* Lines 61-70: with no other call running meanwhile, the allocator keeps the
\* promise of TicketLedger: a row is settled once and for all, by a
\* confirmation that takes the whole reservation or by the cleanup job.
Ledger == INSTANCE TicketLedger WITH
            Rows   <- LedgerRows(MaxSeatsPerList),
            status <- LedgerStatus(MaxSeatsPerList)
ImplementsLedger == Ledger!LedgerSpec

=============================================================================
