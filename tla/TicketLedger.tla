---------------------------- MODULE TicketLedger ----------------------------
(***************************************************************************)
(* What TicketAllocator promises about ticket rows (the docstrings of      *)
(* services/events/ticket_allocator.py, lines 61-70 and 223-230), with     *)
(* Redis, transactions and time left out: rows appear as pending, each is  *)
(* confirmed or released once, a confirmation takes every pending row of   *)
(* its reservation, and no row stays pending.                              *)
(***************************************************************************)
CONSTANT Rows           \* every row that can be inserted, with its rid

VARIABLE status         \* "absent" until the row is inserted

Pending == {x \in Rows : status[x] = "pending_payment"}

LedgerInit == status = [x \in Rows |-> "absent"]

Set(S, to) == status' = [x \in Rows |-> IF x \in S THEN to ELSE status[x]]

\* A checkout inserts the rows of one reservation.
Insert == \E S \in SUBSET {x \in Rows : status[x] = "absent"} :
            /\ \A x, y \in S : x.rid = y.rid
            /\ Set(S, "pending_payment")

\* The payment webhook confirms a reservation.
ConfirmAll(r) == /\ \E x \in Pending : x.rid = r
                 /\ Set({x \in Pending : x.rid = r}, "confirmed")

\* The cleanup job gives up on some rows.
Release == \E S \in SUBSET Pending : Set(S, "released")

LedgerNext == Insert \/ Release \/ \E x \in Pending : ConfirmAll(x.rid)

\* Whatever ends it, no row is pending for ever.
EveryRowSettles == \A x \in Rows : (x \in Pending) ~> (x \notin Pending)

LedgerSafety == LedgerInit /\ [][LedgerNext]_status

LedgerSpec == LedgerSafety /\ EveryRowSettles

=============================================================================
