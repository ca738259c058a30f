--------------------------- MODULE SeatAllocator ---------------------------
(***************************************************************************)
(* TicketAllocator, services/events/ticket_allocator.py: seat locks in     *)
(* Redis, ticket rows in PostgreSQL, and the four coroutines that relate   *)
(* them.                                                                   *)
(*                                                                         *)
(*   lock_seats                      SET NX EX on one key per seat         *)
(*   transition_to_pending_payment   GET every key, then insert the rows   *)
(*   confirm_reservation             SELECT, UPDATE, DEL the keys, COMMIT  *)
(*   cleanup_abandoned_reservations  SELECT, UPDATE, DEL the keys, COMMIT  *)
(*                                                                         *)
(* Every "await" of the code is a place where another session may run, so  *)
(* every Redis command and every SQL statement is a step of its own.       *)
(* Sessions are PostgreSQL transactions at READ COMMITTED: what a session  *)
(* has flushed is locked against other writers and invisible to readers    *)
(* until its caller commits.                                               *)
(*                                                                         *)
(* Time is counted in ticks (300 s of the code in the checked instances).  *)
(* A key keeps the ticks it has left, a row the ticks since its locked_at. *)
(***************************************************************************)
EXTENDS Naturals, Sequences

CONSTANTS
  Seats,           \* the (event_id, seat_id) pairs: one Redis key each
  Reservations,    \* the uuid4 values lock_seats can draw
  NoReservation,   \* the absence of a key
  SeatLists,       \* the seat_ids arguments clients send
  Sessions,        \* the requests and jobs that can be running at one time
  LockTTL,         \* SEAT_LOCK_TTL_SECONDS, in ticks
  PendingExpiry,   \* PENDING_PAYMENT_EXPIRY_SECONDS, in ticks
  MaxCheckouts,    \* bound: transition_to_pending_payment calls per reservation
  MaxCrashes       \* bound: calls that die half way (crash, lost connection)

ASSUME ReservationAssumption == NoReservation \notin Reservations
ASSUME SeatListAssumption    == SeatLists \subseteq Seq(Seats) \ {<<>>}
ASSUME TTLAssumption         == /\ LockTTL \in Nat \ {0}
                                /\ PendingExpiry \in Nat
                                /\ LockTTL <= PendingExpiry
ASSUME BoundAssumption       == MaxCheckouts \in Nat /\ MaxCrashes \in Nat

VARIABLES
  holder,     \* Redis: the reservation in the value of each seat key
  ttl,        \* Redis: ticks until the key of each seat expires
  tickets,    \* PostgreSQL: the committed ticket rows
  outcome,    \* what lock_seats answered for each reservation id
  checkouts,  \* checkouts started per reservation (numbers the rows)
  session,    \* where each running call is, with its local variables
  crashes     \* calls that died so far

vars == <<holder, ttl, tickets, outcome, checkouts, session, crashes>>

-----------------------------------------------------------------------------
TicketStatus == {"pending_payment", "confirmed", "released"}

Ages == 0 .. (PendingExpiry + 1)      \* anything older is cleaned up alike

Ticket == [rid: Reservations, call: Nat, pos: Nat, seat: Seats,
           status: TicketStatus, age: Ages]

\* The columns of a row that never change: its identity, and the seat whose
\* key a session that has loaded the row will delete.
TicketRef == [rid: Reservations, call: Nat, pos: Nat, seat: Seats]
Ref(t) == [rid |-> t.rid, call |-> t.call, pos |-> t.pos, seat |-> t.seat]

Idle == [pc |-> "idle"]

LockCall   == [pc: {"locking", "unlocking"}, rid: Reservations,
               list: SeatLists, n: Nat]
CheckCall  == [pc: {"checking"}, rid: Reservations, call: Nat,
               list: SeatLists, n: Nat]
InsertCall == [pc: {"inserting"}, rid: Reservations, call: Nat,
               list: SeatLists, age: Ages]
SettleCall == [pc: {"flushing", "releasing", "committing"},
               rows: SUBSET TicketRef,
               to: {"confirmed", "released"}]

TypeOK ==
  /\ holder \in [Seats -> Reservations \cup {NoReservation}]
  /\ ttl \in [Seats -> 0 .. LockTTL]
  /\ tickets \subseteq Ticket
  /\ outcome \in [Reservations ->
                    {"unused", "locking", "granted", "conflict", "failed"}]
  /\ checkouts \in [Reservations -> Nat]
  /\ session \in [Sessions -> {Idle} \cup LockCall \cup CheckCall
                                \cup InsertCall \cup SettleCall]
  /\ crashes \in Nat

Init ==
  /\ holder = [s \in Seats |-> NoReservation]
  /\ ttl = [s \in Seats |-> 0]
  /\ tickets = {}
  /\ outcome = [r \in Reservations |-> "unused"]
  /\ checkouts = [r \in Reservations |-> 0]
  /\ session = [p \in Sessions |-> Idle]
  /\ crashes = 0

-----------------------------------------------------------------------------
(* Redis                                                                   *)

\* SET key ... EX: the key of seat s now names reservation r.
SetKey(s, r) ==
  holder' = [holder EXCEPT ![s] = r] /\ ttl' = [ttl EXCEPT ![s] = LockTTL]

\* DEL of a set of seat keys, whoever's reservation they hold.
Delete(seats) ==
  /\ holder' = [s \in Seats |-> IF s \in seats THEN NoReservation ELSE holder[s]]
  /\ ttl' = [s \in Seats |-> IF s \in seats THEN 0 ELSE ttl[s]]

-----------------------------------------------------------------------------
(* lock_seats                                                              *)

Acquired_AllButLast(c) == {c.list[i] : i \in 1 .. (c.n - 1)}

\* The seats a call has locked so far: its first n.
Acquired(c) == {c.list[i] : i \in 1 .. c.n}

\* A request passes the checks and draws a fresh reservation id.
LockSeats(p) ==
  /\ session[p] = Idle
  /\ \E r \in Reservations, l \in SeatLists :
       /\ outcome[r] = "unused"
       /\ outcome' = [outcome EXCEPT ![r] = "locking"]
       /\ session' = [session EXCEPT
                        ![p] = [pc |-> "locking", rid |-> r, list |-> l, n |-> 0]]
  /\ UNCHANGED <<holder, ttl, tickets, checkouts, crashes>>

\* SET NX EX succeeds; after the last seat the reservation id is returned.
AcquireSeat(p) ==
  LET c == session[p]
      s == c.list[c.n + 1]
  IN  /\ c.pc = "locking"
      /\ holder[s] = NoReservation
      /\ SetKey(s, c.rid)
      /\ IF c.n + 1 = Len(c.list)
           THEN /\ outcome' = [outcome EXCEPT ![c.rid] = "granted"]
                /\ session' = [session EXCEPT ![p] = Idle]
           ELSE /\ session' = [session EXCEPT ![p] = [c EXCEPT !.n = c.n + 1]]
                /\ UNCHANGED outcome
      /\ UNCHANGED <<tickets, checkouts, crashes>>

\* SET NX finds the key: ConflictError. With nothing acquired it propagates
\* at once, otherwise the handler has locks to release first.
SeatTaken(p) ==
  LET c == session[p]
  IN  /\ c.pc = "locking"
      /\ holder[c.list[c.n + 1]] # NoReservation
      /\ IF c.n = 0
           THEN /\ outcome' = [outcome EXCEPT ![c.rid] = "conflict"]
                /\ session' = [session EXCEPT ![p] = Idle]
           ELSE /\ session' = [session EXCEPT ![p] = [c EXCEPT !.pc = "unlocking"]]
                /\ UNCHANGED outcome
      /\ UNCHANGED <<holder, ttl, tickets, checkouts, crashes>>

\* The except branch: DEL what this attempt acquired, then re-raise.
RollBack(p) ==
  LET c == session[p]
  IN  /\ c.pc = "unlocking"
      /\ Delete(Acquired(c))
      /\ outcome' = [outcome EXCEPT ![c.rid] = "conflict"]
      /\ session' = [session EXCEPT ![p] = Idle]
      /\ UNCHANGED <<tickets, checkouts, crashes>>

-----------------------------------------------------------------------------
(* transition_to_pending_payment                                           *)

\* A client that holds a reservation id checks out. The seat list is whatever
\* the client sends; the id is one lock_seats returned.
Checkout(p) ==
  /\ session[p] = Idle
  /\ \E r \in Reservations, l \in SeatLists :
       /\ outcome[r] = "granted"
       /\ checkouts[r] < MaxCheckouts
       /\ checkouts' = [checkouts EXCEPT ![r] = @ + 1]
       /\ session' = [session EXCEPT
                        ![p] = [pc |-> "checking", rid |-> r,
                                call |-> checkouts[r] + 1, list |-> l, n |-> 0]]
  /\ UNCHANGED <<holder, ttl, tickets, outcome, crashes>>

\* GET of the next key returns this reservation. After the last seat the
\* Ticket objects are built, with locked_at = now.
CheckSeat(p) ==
  LET c == session[p]
  IN  /\ c.pc = "checking"
      /\ holder[c.list[c.n + 1]] = c.rid
      /\ session' = [session EXCEPT
           ![p] = IF c.n + 1 = Len(c.list)
                    THEN [pc |-> "inserting", rid |-> c.rid, call |-> c.call,
                          list |-> c.list, age |-> 0]
                    ELSE [c EXCEPT !.n = c.n + 1]]
      /\ UNCHANGED <<holder, ttl, tickets, outcome, checkouts, crashes>>

\* GET returns nothing or another reservation: ConflictError, nothing written.
CheckFails(p) ==
  LET c == session[p]
  IN  /\ c.pc = "checking"
      /\ holder[c.list[c.n + 1]] # c.rid
      /\ session' = [session EXCEPT ![p] = Idle]
      /\ UNCHANGED <<holder, ttl, tickets, outcome, checkouts, crashes>>

NewRows(c) ==
  {[rid |-> c.rid, call |-> c.call, pos |-> i, seat |-> c.list[i],
    status |-> "pending_payment", age |-> c.age] : i \in 1 .. Len(c.list)}

\* The INSERTs are flushed and the caller commits. Inserts lock no existing
\* row, so the two are one step.
InsertRows(p) ==
  LET c == session[p]
  IN  /\ c.pc = "inserting"
      /\ tickets' = tickets \cup NewRows(c)
      /\ session' = [session EXCEPT ![p] = Idle]
      /\ UNCHANGED <<holder, ttl, outcome, checkouts, crashes>>

-----------------------------------------------------------------------------
(* confirm_reservation and cleanup_abandoned_reservations                  *)

PendingOf_AnyStatus(r) == {t \in tickets : t.rid = r}

PendingOf(r) == {t \in tickets : t.rid = r /\ t.status = "pending_payment"}

StaleTickets_NoCutoff == {t \in tickets : t.status = "pending_payment"}

StaleTickets_WrongSide == {t \in tickets : /\ t.status = "pending_payment"
                                           /\ t.age < PendingExpiry}

StaleTickets == {t \in tickets : /\ t.status = "pending_payment"
                                 /\ t.age > PendingExpiry}

\* A session has read the rows it is going to set to status "to".
StartSettling(p, read, to) ==
  /\ session[p] = Idle
  /\ read # {}
  /\ session' = [session EXCEPT
       ![p] = [pc |-> "flushing", rows |-> {Ref(t) : t \in read}, to |-> to]]
  /\ UNCHANGED <<holder, ttl, tickets, outcome, checkouts, crashes>>

\* The SELECT of confirm_reservation, called for the payment webhook. With no
\* pending row it raises NotFoundError, which changes nothing.
Confirm(p) == \E r \in Reservations : StartSettling(p, PendingOf(r), "confirmed")

\* The SELECT of the periodic cleanup job.
Cleanup(p) == StartSettling(p, StaleTickets, "released")

\* The session has flushed updates its caller has not committed yet.
Uncommitted(q) == session[q].pc \in {"releasing", "committing"}

Flush_WaitsForReaders(p) ==
  LET c == session[p]
  IN  /\ c.pc = "flushing"
      /\ \A q \in Sessions \ {p} :
            (Uncommitted(q) \/ session[q].pc = "flushing")
              => c.rows \cap session[q].rows = {}
      /\ session' = [session EXCEPT ![p] = [c EXCEPT !.pc = "releasing"]]
      /\ UNCHANGED <<holder, ttl, tickets, outcome, checkouts, crashes>>

\* db.flush(): UPDATE ... WHERE id = ..., blocked while another session has
\* an uncommitted update of one of the rows. The status is not tested again.
Flush(p) ==
  LET c == session[p]
  IN  /\ c.pc = "flushing"
      /\ \A q \in Sessions \ {p} :
            Uncommitted(q) => c.rows \cap session[q].rows = {}
      /\ session' = [session EXCEPT ![p] = [c EXCEPT !.pc = "releasing"]]
      /\ UNCHANGED <<holder, ttl, tickets, outcome, checkouts, crashes>>

\* redis.delete(*keys_to_release)
ReleaseLocks(p) ==
  LET c == session[p]
  IN  /\ c.pc = "releasing"
      /\ Delete({x.seat : x \in c.rows})
      /\ session' = [session EXCEPT ![p] = [c EXCEPT !.pc = "committing"]]
      /\ UNCHANGED <<tickets, outcome, checkouts, crashes>>

\* The caller of the coroutine commits its transaction.
Commit(p) ==
  LET c == session[p]
  IN  /\ c.pc = "committing"
      /\ tickets' = {IF Ref(t) \in c.rows THEN [t EXCEPT !.status = c.to] ELSE t
                       : t \in tickets}
      /\ session' = [session EXCEPT ![p] = Idle]
      /\ UNCHANGED <<holder, ttl, outcome, checkouts, crashes>>

-----------------------------------------------------------------------------
(* The environment                                                         *)

\* A call dies: the process crashes or a connection is lost. Its transaction
\* is rolled back; the Redis keys it has set stay. lock_seats releases what it
\* acquired on ConflictError only.
Crash(p) ==
  /\ session[p] # Idle
  /\ crashes < MaxCrashes
  /\ crashes' = crashes + 1
  /\ session' = [session EXCEPT ![p] = Idle]
  /\ outcome' = IF session[p].pc \in {"locking", "unlocking"}
                  THEN [outcome EXCEPT ![session[p].rid] = "failed"]
                  ELSE outcome
  /\ UNCHANGED <<holder, ttl, tickets, checkouts>>

Older(a) == IF a > PendingExpiry THEN a ELSE a + 1

\* One tick passes: keys at the end of their TTL disappear, rows grow older.
Tick ==
  /\ ttl' = [s \in Seats |-> IF ttl[s] = 0 THEN 0 ELSE ttl[s] - 1]
  /\ holder' = [s \in Seats |-> IF ttl[s] <= 1 THEN NoReservation ELSE holder[s]]
  /\ tickets' = {[t EXCEPT !.age = Older(t.age)] : t \in tickets}
  /\ session' = [p \in Sessions |->
                   IF session[p].pc = "inserting"
                     THEN [session[p] EXCEPT !.age = Older(session[p].age)]
                     ELSE session[p]]
  /\ UNCHANGED <<outcome, checkouts, crashes>>

-----------------------------------------------------------------------------
\* What a running call does next without anybody asking again.
Continue(p) ==
  \/ AcquireSeat(p) \/ SeatTaken(p) \/ RollBack(p)
  \/ CheckSeat(p) \/ CheckFails(p) \/ InsertRows(p)
  \/ Flush(p) \/ ReleaseLocks(p) \/ Commit(p)

Next ==
  \/ \E p \in Sessions : \/ LockSeats(p) \/ Checkout(p)
                         \/ Confirm(p) \/ Cleanup(p)
                         \/ Continue(p) \/ Crash(p)
  \/ Tick

Spec == Init /\ [][Next]_vars

\* Time passes, a call that is running is scheduled again, and Celery beat
\* keeps starting the cleanup job. Clients and webhooks owe nothing.
Fairness ==
  /\ WF_vars(Tick)
  /\ \A p \in Sessions : WF_vars(Continue(p))
  /\ WF_vars(\E p \in Sessions : Cleanup(p))

FairSpec == Spec /\ Fairness

-----------------------------------------------------------------------------
(* The refinement mapping to TicketLedger: rows by identity, with a status  *)

LedgerRows(n) == [rid: Reservations, call: 1 .. MaxCheckouts, pos: 1 .. n,
                  seat: Seats]

LedgerStatus(n) ==
  [x \in LedgerRows(n) |->
     IF \E t \in tickets : Ref(t) = x
       THEN (CHOOSE t \in tickets : Ref(t) = x).status
       ELSE "absent"]

-----------------------------------------------------------------------------
(* Properties the code has                                                 *)

\* All or nothing: once lock_seats has answered ConflictError, no key is left
\* that names the reservation it had drawn (lines 121-125).
ConflictReleasesAll ==
  \A s \in Seats : holder[s] # NoReservation => outcome[holder[s]] # "conflict"

\* The cleanup job is past the life of every lock: when it deletes the key of
\* a row it has released, that key never is the row's own reservation's. What
\* the job does delete is a later reservation's lock (lines 247-256).
CleanupNeverFreesOwnLock ==
  \A p \in Sessions :
    (session[p].pc = "releasing" /\ session[p].to = "released")
      => \A x \in session[p].rows : holder[x.seat] # x.rid

\* Line 195 and 223-230: a paid reservation is found pending for all of the
\* PendingExpiry after its checkout. No row is released before that, although
\* the cleanup writes by primary key what it read some steps earlier.
GracePeriodKept ==
  \A t \in tickets : t.status = "released" => t.age > PendingExpiry

\* Lines 195-211 and 223-246, whatever calls overlap: a checkout whose rows were all
\* confirmed while none had reached PendingExpiry is never released again. Only of
\* later confirmations may a cleanup job hold the rows already: ConfirmedIsFinal.
RowsOf(r, k) == {t \in tickets : t.rid = r /\ t.call = k}

IsConfirmed(r, k) ==
  RowsOf(r, k) # {} /\ \A t \in RowsOf(r, k) : t.status = "confirmed"

ConfirmedInTime(r, k) ==
  IsConfirmed(r, k) /\ \A t \in RowsOf(r, k) : t.age <= PendingExpiry

StaysConfirmed(r, k) == [](ConfirmedInTime(r, k) => []IsConfirmed(r, k))

ConfirmedInTimeIsFinal ==
  \A r \in Reservations, k \in 1 .. MaxCheckouts : StaysConfirmed(r, k)

\* No pending row lasts: the webhook confirms it or the cleanup job releases
\* it, whatever calls die on the way (lines 223-230).
HasPending(r, k) == \E t \in PendingOf(r) : t.call = k
EveryPendingTicketSettles ==
  \A r \in Reservations, k \in 1 .. MaxCheckouts :
    HasPending(r, k) ~> ~HasPending(r, k)

\* Every call returns: no session waits for ever for the row locks another
\* one holds from its flush to its commit.
EverySessionReturns ==
  \A p \in Sessions : (session[p] # Idle) ~> (session[p] = Idle)

-----------------------------------------------------------------------------
(* The inductive invariant behind ConflictReleasesAll and                   *)
(* CleanupNeverFreesOwnLock                                                 *)

IsLocking(p) == session[p].pc \in {"locking", "unlocking"}

\* A reservation id is being worked on by the one call that drew it.
OneLocker ==
  /\ \A p \in Sessions : IsLocking(p) => outcome[session[p].rid] = "locking"
  /\ \A p, q \in Sessions :
       (IsLocking(p) /\ IsLocking(q) /\ session[p].rid = session[q].rid) => p = q

\* A key that names a reservation still being locked is in its call's list of
\* acquired keys; no key names an unused or refused reservation.
KeysAccountedFor ==
  \A s \in Seats : holder[s] # NoReservation =>
    /\ outcome[holder[s]] \notin {"unused", "conflict"}
    /\ outcome[holder[s]] = "locking" =>
         \E p \in Sessions : /\ IsLocking(p)
                              /\ session[p].rid = holder[s]
                              /\ s \in Acquired(session[p])

\* Checkouts, rows and loaded rows belong to reservations that were granted.
OnlyGranted ==
  /\ \A p \in Sessions : session[p].pc \in {"checking", "inserting"} =>
       outcome[session[p].rid] = "granted"
  /\ \A t \in tickets : outcome[t.rid] = "granted"
  /\ \A p \in Sessions : session[p].pc \in {"flushing", "releasing"} =>
       \A x \in session[p].rows : outcome[x.rid] = "granted"

\* A row and its reservation's key share one LockTTL: what the key has left and
\* the age of the row never exceed it together.
KeysOutlastNoRow ==
  /\ \A t \in tickets : holder[t.seat] = t.rid => t.age + ttl[t.seat] <= LockTTL
  /\ \A p \in Sessions : session[p].pc = "inserting" =>
       \A i \in 1 .. Len(session[p].list) :
         holder[session[p].list[i]] = session[p].rid
           => session[p].age + ttl[session[p].list[i]] <= LockTTL

\* Rows the cleanup job has loaded have outlived their reservation's key.
CleanupIsLate ==
  \A p \in Sessions :
    (session[p].pc \in {"flushing", "releasing"} /\ session[p].to = "released")
      => \A x \in session[p].rows : holder[x.seat] # x.rid

InCheckout(p) == session[p].pc \in {"checking", "inserting"}

\* A running checkout has a number of its own: no other one, and no row, of the
\* reservation has it, and the number is among those given out. Number and
\* position identify a row of a reservation.
FreshCalls ==
  /\ \A p \in Sessions : InCheckout(p) =>
       /\ session[p].call <= checkouts[session[p].rid]
       /\ \A t \in tickets : t.rid = session[p].rid => t.call # session[p].call
  /\ \A p, q \in Sessions :
       (/\ InCheckout(p) /\ InCheckout(q)
        /\ session[p].rid = session[q].rid /\ session[p].call = session[q].call) => p = q
  /\ \A t \in tickets : t.call <= checkouts[t.rid]
  /\ \A t, u \in tickets : Ref(t) = Ref(u) => t = u

\* So a loaded row is a committed one, the only one of its identity, and the
\* rows loaded to be released stay past the expiry.
Settling(p) == session[p].pc \in {"flushing", "releasing", "committing"}
ReleaseIsLate ==
  \A p \in Sessions : Settling(p) =>
    \A x \in session[p].rows :
      /\ \E t \in tickets : Ref(t) = x
      /\ session[p].to = "released" =>
           \A t \in tickets : Ref(t) = x => t.age > PendingExpiry

IInv == /\ TypeOK /\ OneLocker /\ KeysAccountedFor /\ OnlyGranted
        /\ KeysOutlastNoRow /\ CleanupIsLate
        /\ FreshCalls /\ ReleaseIsLate /\ GracePeriodKept

-----------------------------------------------------------------------------
(* What one call at a time adds to IInv, for the refinement of TicketLedger *)

\* Every row has its place in the ledger, and the next checkout will have one.
RowsHavePlaces(n) ==
  /\ \A r \in Reservations : checkouts[r] <= MaxCheckouts
  /\ \A p \in Sessions : InCheckout(p) => session[p].call \in 1 .. MaxCheckouts
  /\ \A t \in tickets : Ref(t) \in LedgerRows(n)

\* What a session has loaded is what it would load now: all the pending rows of a
\* reservation, or pending rows.
ReadsAreCurrent ==
  \A p \in Sessions : Settling(p) =>
    \/ /\ session[p].to = "confirmed" /\ session[p].rows # {}
       /\ \E r \in Reservations : session[p].rows = {Ref(t) : t \in PendingOf(r)}
    \/ /\ session[p].to = "released"
       /\ \A x \in session[p].rows :
            \E t \in tickets : Ref(t) = x /\ t.status = "pending_payment"

SerialIInv(n) == IInv /\ RowsHavePlaces(n) /\ ReadsAreCurrent

-----------------------------------------------------------------------------
(* Properties the repository states and the code does not have             *)

\* README.md:13, "Atomic seat reservation ... to prevent overselling": two
\* reservations never have confirmed tickets for the same seat.
NoOversell ==
  \A t, u \in tickets :
    (t.seat = u.seat /\ t.status = "confirmed" /\ u.status = "confirmed")
      => t.rid = u.rid

\* Lines 147-149: the pending row closes the race where the TTL expires
\* "and another user could grab the same seats".
PendingSeatStaysHeld ==
  \A t \in tickets :
    t.status = "pending_payment" => holder[t.seat] \in {t.rid, NoReservation}

\* Lines 67-70: the cleanup releases seats whose confirmation did not arrive,
\* so a row that was confirmed is never released.
ConfirmedIsFinal ==
  [][\A t \in tickets : t.status = "confirmed" =>
       \E u \in tickets' : Ref(u) = Ref(t) /\ u.status = "confirmed"]_vars

\* Line 122, "Release any locks we already grabbed in this attempt": a lock that a
\* refused call deletes is its own, or gone.
RollBackFreesOwnLocks ==
  \A p \in Sessions : session[p].pc = "unlocking" =>
    \A s \in Acquired(session[p]) : holder[s] \in {session[p].rid, NoReservation}

\* Lines 186 and 212: confirmation releases the reservation's locks, which
\* "may have already expired"; it deletes no other reservation's lock.
ConfirmFreesOwnLocks ==
  \A p \in Sessions :
    (session[p].pc = "releasing" /\ session[p].to = "confirmed")
      => \A x \in session[p].rows : holder[x.seat] \in {x.rid, NoReservation}

=============================================================================
