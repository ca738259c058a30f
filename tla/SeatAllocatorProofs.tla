------------------------ MODULE SeatAllocatorProofs ------------------------
(***************************************************************************)
(* Theorems about SeatAllocator, for any seats, reservations, sessions,    *)
(* seat lists and times that satisfy the assumptions of that module.       *)
(***************************************************************************)
EXTENDS SeatAllocator, TLAPS

CONSTANT MaxSeatsPerList     \* every seat list of a client is at most this long

Ledger == INSTANCE TicketLedger WITH
            Rows   <- LedgerRows(MaxSeatsPerList),
            status <- LedgerStatus(MaxSeatsPerList)

\* Which kind of call a session is running follows from its pc.
LEMMA SessionKinds ==
  ASSUME TypeOK, NEW p \in Sessions
  PROVE  /\ session[p].pc \in {"locking", "unlocking"} => session[p] \in LockCall
         /\ session[p].pc = "checking"  => session[p] \in CheckCall
         /\ session[p].pc = "inserting" => session[p] \in InsertCall
         /\ session[p].pc \in {"flushing", "releasing", "committing"}
              => session[p] \in SettleCall
         /\ session[p].pc # "idle" => session[p] # Idle
  BY DEF TypeOK, Idle, LockCall, CheckCall, InsertCall, SettleCall

LEMMA InitType == Init => TypeOK
  BY ReservationAssumption, TTLAssumption DEF Init, TypeOK

\* A session that moves on keeps the type of all sessions.
LEMMA SessionUpdate ==
  ASSUME TypeOK, NEW p \in Sessions, NEW c,
         c \in {Idle} \cup LockCall \cup CheckCall \cup InsertCall \cup SettleCall
  PROVE  [session EXCEPT ![p] = c] \in
           [Sessions -> {Idle} \cup LockCall \cup CheckCall
                          \cup InsertCall \cup SettleCall]
  BY DEF TypeOK

LEMMA DeleteType ==
  ASSUME TypeOK, NEW S, Delete(S)
  PROVE  /\ holder' \in [Seats -> Reservations \cup {NoReservation}]
         /\ ttl' \in [Seats -> 0 .. LockTTL]
  BY TTLAssumption DEF TypeOK, Delete

\* Every step keeps the types.
LEMMA NextType == TypeOK /\ [Next]_vars => TypeOK'
<1> SUFFICES ASSUME TypeOK, [Next]_vars PROVE TypeOK'
  OBVIOUS
<1> USE TTLAssumption, SeatListAssumption
<1>1. ASSUME NEW p \in Sessions, LockSeats(p) PROVE TypeOK'
  <2> PICK r \in Reservations, l \in SeatLists :
        /\ outcome' = [outcome EXCEPT ![r] = "locking"]
        /\ session' = [session EXCEPT
                        ![p] = [pc |-> "locking", rid |-> r, list |-> l, n |-> 0]]
    BY <1>1 DEF LockSeats
  <2>1. [pc |-> "locking", rid |-> r, list |-> l, n |-> 0] \in LockCall
    BY DEF LockCall
  <2> QED BY <1>1, <2>1, SessionUpdate DEF LockSeats, TypeOK
<1>2. ASSUME NEW p \in Sessions, AcquireSeat(p) PROVE TypeOK'
  <2>1. session[p] \in LockCall
    BY <1>2, SessionKinds DEF AcquireSeat
  <2>2. [session[p] EXCEPT !.n = session[p].n + 1] \in LockCall
    BY <2>1 DEF LockCall
  <2>3. session[p].rid \in Reservations
    BY <2>1 DEF LockCall
  <2>4. session' \in [Sessions -> {Idle} \cup LockCall \cup CheckCall
                          \cup InsertCall \cup SettleCall]
    BY <1>2, <2>2, SessionUpdate DEF AcquireSeat
  <2> DEFINE s == session[p].list[session[p].n + 1]
  <2>5. SetKey(s, session[p].rid)
    BY <1>2 DEF AcquireSeat
  <2> HIDE DEF s
  <2>6. /\ holder' \in [Seats -> Reservations \cup {NoReservation}]
        /\ ttl' \in [Seats -> 0 .. LockTTL]
    <3>1. LockTTL \in 0 .. LockTTL
      OBVIOUS
    <3>2. ttl' \in [Seats -> 0 .. LockTTL]
      BY <2>5, <3>1, Zenon DEF SetKey, TypeOK
    <3>3. holder' \in [Seats -> Reservations \cup {NoReservation}]
      BY <2>3, <2>5, Zenon DEF SetKey, TypeOK
    <3> QED BY <3>2, <3>3
  <2>7. outcome' \in [Reservations ->
                        {"unused", "locking", "granted", "conflict", "failed"}]
    BY <1>2, Zenon DEF AcquireSeat, TypeOK
  <2>8. UNCHANGED <<tickets, checkouts, crashes>>
    BY <1>2 DEF AcquireSeat
  <2> QED BY <2>4, <2>6, <2>7, <2>8 DEF TypeOK
<1>3. ASSUME NEW p \in Sessions, SeatTaken(p) PROVE TypeOK'
  <2>1. session[p] \in LockCall
    BY <1>3, SessionKinds DEF SeatTaken
  <2>2. [session[p] EXCEPT !.pc = "unlocking"] \in LockCall
    BY <2>1 DEF LockCall
  <2>3. session' \in [Sessions -> {Idle} \cup LockCall \cup CheckCall
                          \cup InsertCall \cup SettleCall]
    BY <1>3, <2>2, SessionUpdate DEF SeatTaken
  <2> QED BY <1>3, <2>3 DEF SeatTaken, TypeOK
<1>4. ASSUME NEW p \in Sessions, RollBack(p) PROVE TypeOK'
  BY <1>4, DeleteType, SessionUpdate DEF RollBack, TypeOK
<1>5. ASSUME NEW p \in Sessions, Checkout(p) PROVE TypeOK'
  <2> PICK r \in Reservations, l \in SeatLists :
        /\ checkouts' = [checkouts EXCEPT ![r] = @ + 1]
        /\ session' = [session EXCEPT
                        ![p] = [pc |-> "checking", rid |-> r,
                                call |-> checkouts[r] + 1, list |-> l, n |-> 0]]
    BY <1>5 DEF Checkout
  <2>1. [pc |-> "checking", rid |-> r, call |-> checkouts[r] + 1,
         list |-> l, n |-> 0] \in CheckCall
    BY DEF CheckCall, TypeOK
  <2> QED BY <1>5, <2>1, SessionUpdate DEF Checkout, TypeOK
<1>6. ASSUME NEW p \in Sessions, CheckSeat(p) PROVE TypeOK'
  <2>1. session[p] \in CheckCall
    BY <1>6, SessionKinds DEF CheckSeat
  <2>2. [session[p] EXCEPT !.n = session[p].n + 1] \in CheckCall
    BY <2>1 DEF CheckCall
  <2>3. [pc |-> "inserting", rid |-> session[p].rid, call |-> session[p].call,
         list |-> session[p].list, age |-> 0] \in InsertCall
    BY <2>1 DEF CheckCall, InsertCall, Ages
  <2>4. session' \in [Sessions -> {Idle} \cup LockCall \cup CheckCall
                          \cup InsertCall \cup SettleCall]
    BY <1>6, <2>2, <2>3, SessionUpdate DEF CheckSeat
  <2> QED BY <1>6, <2>4 DEF CheckSeat, TypeOK
<1>7. ASSUME NEW p \in Sessions, CheckFails(p) PROVE TypeOK'
  BY <1>7, SessionUpdate DEF CheckFails, TypeOK
<1>8. ASSUME NEW p \in Sessions, InsertRows(p) PROVE TypeOK'
  <2>1. session[p] \in InsertCall
    BY <1>8, SessionKinds DEF InsertRows
  <2>2. NewRows(session[p]) \subseteq Ticket
    BY <2>1 DEF NewRows, InsertCall, Ticket, TicketStatus
  <2> QED BY <1>8, <2>2, SessionUpdate DEF InsertRows, TypeOK
<1>9. ASSUME NEW p \in Sessions, NEW read, read \subseteq tickets,
             NEW to \in {"confirmed", "released"}, StartSettling(p, read, to)
      PROVE  TypeOK'
  <2>1. {Ref(t) : t \in read} \subseteq TicketRef
    BY <1>9 DEF Ref, TicketRef, TypeOK, Ticket
  <2>2. [pc |-> "flushing", rows |-> {Ref(t) : t \in read}, to |-> to]
          \in SettleCall
    BY <2>1 DEF SettleCall
  <2> QED BY <1>9, <2>2, SessionUpdate DEF StartSettling, TypeOK
<1>10. ASSUME NEW p \in Sessions, Confirm(p) \/ Cleanup(p) PROVE TypeOK'
  BY <1>9, <1>10 DEF Confirm, Cleanup, PendingOf, StaleTickets
<1>11. ASSUME NEW p \in Sessions, Flush(p) PROVE TypeOK'
  <2>1. [session[p] EXCEPT !.pc = "releasing"] \in SettleCall
    BY <1>11, SessionKinds DEF Flush, SettleCall
  <2> QED BY <1>11, <2>1, SessionUpdate DEF Flush, TypeOK
<1>12. ASSUME NEW p \in Sessions, ReleaseLocks(p) PROVE TypeOK'
  <2>1. [session[p] EXCEPT !.pc = "committing"] \in SettleCall
    BY <1>12, SessionKinds DEF ReleaseLocks, SettleCall
  <2> QED BY <1>12, <2>1, SessionUpdate, DeleteType DEF ReleaseLocks, TypeOK
<1>13. ASSUME NEW p \in Sessions, Commit(p) PROVE TypeOK'
  <2>1. session[p].to \in TicketStatus
    BY <1>13, SessionKinds DEF Commit, SettleCall, TicketStatus
  <2>2. \A t \in tickets : [t EXCEPT !.status = session[p].to] \in Ticket
    BY <2>1 DEF TypeOK, Ticket
  <2>3. tickets' \subseteq Ticket
    BY <1>13, <2>2 DEF Commit, TypeOK
  <2> QED BY <1>13, <2>3, SessionUpdate DEF Commit, TypeOK
<1>14. ASSUME NEW p \in Sessions, Crash(p) PROVE TypeOK'
  <2>1. session[p].pc \in {"locking", "unlocking"} => session[p].rid \in Reservations
    BY SessionKinds DEF LockCall
  <2>2. outcome' \in [Reservations ->
                        {"unused", "locking", "granted", "conflict", "failed"}]
    BY <1>14, <2>1 DEF Crash, TypeOK
  <2> QED BY <1>14, <2>2, SessionUpdate DEF Crash, TypeOK
<1>15. ASSUME Tick PROVE TypeOK'
  <2>1. \A a \in Ages : Older(a) \in Ages
    BY DEF Ages, Older
  <2>2. tickets' \subseteq Ticket
    <3>1. \A t \in tickets : [t EXCEPT !.age = Older(t.age)] \in Ticket
      BY <2>1 DEF TypeOK, Ticket
    <3> QED BY <1>15, <3>1 DEF Tick
  <2>3. \A p \in Sessions : session[p].pc = "inserting" =>
          [session[p] EXCEPT !.age = Older(session[p].age)] \in InsertCall
    BY <2>1, SessionKinds DEF InsertCall
  <2>4. session' \in [Sessions -> {Idle} \cup LockCall \cup CheckCall
                          \cup InsertCall \cup SettleCall]
    BY <1>15, <2>3 DEF Tick, TypeOK
  <2>5. ttl' \in [Seats -> 0 .. LockTTL]
    <3>1. \A s \in Seats :
            (IF ttl[s] = 0 THEN 0 ELSE ttl[s] - 1) \in 0 .. LockTTL
      BY DEF TypeOK
    <3> QED BY <1>15, <3>1 DEF Tick
  <2>6. holder' \in [Seats -> Reservations \cup {NoReservation}]
    BY <1>15 DEF Tick, TypeOK
  <2>7. UNCHANGED <<outcome, checkouts, crashes>>
    BY <1>15 DEF Tick
  <2> QED BY <2>2, <2>4, <2>5, <2>6, <2>7 DEF TypeOK
<1>16. CASE UNCHANGED vars
  BY <1>16 DEF vars, TypeOK
<1> QED BY <1>1, <1>2, <1>3, <1>4, <1>5, <1>6, <1>7, <1>8, <1>10, <1>11,
           <1>12, <1>13, <1>14, <1>15, <1>16 DEF Next, Continue

\* In every reachable state the variables have their types: the keys, rows and
\* running calls of SeatAllocator are of the kinds the code creates.
THEOREM TypeCorrect == Spec => []TypeOK
  BY InitType, NextType, PTL DEF Spec

-----------------------------------------------------------------------------
(* The inductive invariant                                                 *)

LEMMA InitIInv == Init => IInv
  BY InitType DEF Init, IInv, OneLocker, KeysAccountedFor, OnlyGranted,
                  KeysOutlastNoRow, CleanupIsLate, IsLocking, Idle, FreshCalls,
                  ReleaseIsLate, GracePeriodKept, InCheckout, Settling

\* What a step of one session does to the others: nothing.
LEMMA OthersStay ==
  ASSUME TypeOK, NEW p \in Sessions,
         LockSeats(p) \/ Checkout(p) \/ Confirm(p) \/ Cleanup(p)
           \/ Continue(p) \/ Crash(p)
  PROVE  \A q \in Sessions \ {p} : session'[q] = session[q]
  BY DEF TypeOK, LockSeats, Checkout, Confirm, Cleanup, StartSettling, Continue,
         AcquireSeat, SeatTaken, RollBack, CheckSeat, CheckFails, InsertRows,
         Flush, ReleaseLocks, Commit, Crash

\* Calls other than lock_seats touch no outcome and start no locking.
LEMMA NotLocking ==
  ASSUME TypeOK, NEW p \in Sessions,
         \/ Checkout(p) \/ Confirm(p) \/ Cleanup(p)
         \/ CheckSeat(p) \/ CheckFails(p) \/ InsertRows(p)
         \/ Flush(p) \/ ReleaseLocks(p) \/ Commit(p)
  PROVE  ~IsLocking(p) /\ ~IsLocking(p)' /\ outcome' = outcome
<1>1. CASE Checkout(p) \/ Confirm(p) \/ Cleanup(p)
  BY <1>1 DEF TypeOK, IsLocking, Idle, Checkout, Confirm, Cleanup, StartSettling
<1>2. CASE CheckSeat(p) \/ CheckFails(p) \/ InsertRows(p)
  BY <1>2, SessionKinds
     DEF TypeOK, IsLocking, Idle, CheckCall, CheckSeat, CheckFails, InsertRows
<1>3. CASE Flush(p) \/ ReleaseLocks(p) \/ Commit(p)
  BY <1>3, SessionKinds
     DEF TypeOK, IsLocking, Idle, SettleCall, Flush, ReleaseLocks, Commit
<1> QED BY <1>1, <1>2, <1>3

LEMMA OneLockerStep == IInv /\ [Next]_vars => OneLocker'
<1> SUFFICES ASSUME IInv, [Next]_vars PROVE OneLocker'
  OBVIOUS
<1> USE DEF IInv, IsLocking, OneLocker
<1>1. ASSUME NEW p \in Sessions, LockSeats(p) PROVE OneLocker'
  <2> PICK r \in Reservations, l \in SeatLists :
        /\ outcome[r] = "unused"
        /\ outcome' = [outcome EXCEPT ![r] = "locking"]
        /\ session' = [session EXCEPT
                        ![p] = [pc |-> "locking", rid |-> r, list |-> l, n |-> 0]]
    BY <1>1 DEF LockSeats
  <2> QED BY SessionKinds DEF TypeOK, LockCall
<1>2. ASSUME NEW p \in Sessions, AcquireSeat(p) PROVE OneLocker'
  <2>1. session[p] \in LockCall /\ session[p].pc = "locking"
    BY <1>2, SessionKinds DEF AcquireSeat
  <2>2. CASE /\ outcome' = [outcome EXCEPT ![session[p].rid] = "granted"]
             /\ session' = [session EXCEPT ![p] = Idle]
    BY <2>1, <2>2, SessionKinds DEF TypeOK, LockCall, Idle
  <2>3. CASE /\ session' = [session EXCEPT
                              ![p] = [session[p] EXCEPT !.n = session[p].n + 1]]
             /\ outcome' = outcome
    <3>1. session'[p].pc = "locking" /\ session'[p].rid = session[p].rid
      BY <2>1, <2>3 DEF TypeOK, LockCall
    <3>2. \A q \in Sessions \ {p} : session'[q] = session[q]
      BY <2>3 DEF TypeOK
    <3> QED BY <2>1, <2>3, <3>1, <3>2
  <2> QED BY <1>2, <2>2, <2>3 DEF AcquireSeat
<1>3. ASSUME NEW p \in Sessions, SeatTaken(p) PROVE OneLocker'
  BY <1>3, SessionKinds DEF SeatTaken, TypeOK, LockCall, Idle
<1>4. ASSUME NEW p \in Sessions, RollBack(p) PROVE OneLocker'
  BY <1>4, SessionKinds DEF RollBack, TypeOK, LockCall, Idle
<1>5. ASSUME NEW p \in Sessions, Crash(p) PROVE OneLocker'
  BY <1>5, SessionKinds DEF Crash, TypeOK, LockCall, Idle
<1>6. ASSUME NEW p \in Sessions,
             \/ Checkout(p) \/ Confirm(p) \/ Cleanup(p)
             \/ CheckSeat(p) \/ CheckFails(p) \/ InsertRows(p)
             \/ Flush(p) \/ ReleaseLocks(p) \/ Commit(p)
      PROVE  OneLocker'
  BY <1>6, NotLocking, OthersStay DEF Continue
<1>7. ASSUME Tick PROVE OneLocker'
  BY <1>7 DEF Tick, TypeOK
<1>8. CASE UNCHANGED vars
  BY <1>8 DEF vars
<1> QED BY <1>1, <1>2, <1>3, <1>4, <1>5, <1>6, <1>7, <1>8 DEF Next, Continue

\* Everybody but lock_seats leaves the keys alone, deletes some, or lets them
\* expire: a key that is there afterwards was there before.
LEMMA KeysOnlyGo ==
  ASSUME TypeOK,
         \/ Tick
         \/ \E p \in Sessions :
              \/ LockSeats(p) \/ SeatTaken(p) \/ RollBack(p) \/ Crash(p)
              \/ Checkout(p) \/ Confirm(p) \/ Cleanup(p)
              \/ CheckSeat(p) \/ CheckFails(p) \/ InsertRows(p)
              \/ Flush(p) \/ ReleaseLocks(p) \/ Commit(p)
  PROVE  \A s \in Seats :
           /\ holder'[s] \in {holder[s], NoReservation}
           /\ holder'[s] # NoReservation => ttl'[s] <= ttl[s]
<1>1. CASE Tick
  BY <1>1, TTLAssumption DEF Tick, TypeOK
<1>2. ASSUME NEW p \in Sessions, RollBack(p) \/ ReleaseLocks(p)
      PROVE  \E S : Delete(S)
  BY <1>2 DEF RollBack, ReleaseLocks
<1>3. ASSUME NEW S, Delete(S)
      PROVE  \A s \in Seats :
               /\ holder'[s] \in {holder[s], NoReservation}
               /\ holder'[s] # NoReservation => ttl'[s] <= ttl[s]
  BY <1>3, TTLAssumption DEF Delete, TypeOK
<1>4. ASSUME NEW p \in Sessions,
             \/ LockSeats(p) \/ SeatTaken(p) \/ Crash(p)
             \/ Checkout(p) \/ Confirm(p) \/ Cleanup(p)
             \/ CheckSeat(p) \/ CheckFails(p) \/ InsertRows(p)
             \/ Flush(p) \/ Commit(p)
      PROVE  holder' = holder /\ ttl' = ttl
  BY <1>4 DEF LockSeats, SeatTaken, Crash, Checkout, Confirm, Cleanup,
              StartSettling, CheckSeat, CheckFails, InsertRows, Flush, Commit
<1>5. ASSUME holder' = holder, ttl' = ttl
      PROVE  \A s \in Seats :
               /\ holder'[s] \in {holder[s], NoReservation}
               /\ holder'[s] # NoReservation => ttl'[s] <= ttl[s]
  BY <1>5, TTLAssumption DEF TypeOK
<1> QED BY <1>1, <1>2, <1>3, <1>4, <1>5

LEMMA KeysAccountedForStep == IInv /\ [Next]_vars => KeysAccountedFor'
<1> SUFFICES ASSUME IInv, [Next]_vars PROVE KeysAccountedFor'
  OBVIOUS
<1> USE ReservationAssumption DEF IInv, IsLocking
<1>1. ASSUME NEW p \in Sessions, LockSeats(p) PROVE KeysAccountedFor'
  <2> PICK r \in Reservations, l \in SeatLists :
        /\ outcome[r] = "unused"
        /\ outcome' = [outcome EXCEPT ![r] = "locking"]
    BY <1>1 DEF LockSeats
  <2>1. holder' = holder /\ session[p] = Idle
    BY <1>1 DEF LockSeats
  <2>2. \A s \in Seats : holder[s] # r
    BY DEF KeysAccountedFor
  <2> QED BY <1>1, <2>1, <2>2, OthersStay, SessionKinds
          DEF KeysAccountedFor, Acquired, TypeOK, Idle
<1>2. ASSUME NEW p \in Sessions, AcquireSeat(p) PROVE KeysAccountedFor'
  <2> DEFINE c == session[p]
             s == c.list[c.n + 1]
  <2>1. c \in LockCall /\ c.pc = "locking" /\ outcome[c.rid] = "locking"
    BY <1>2, SessionKinds DEF AcquireSeat, OneLocker
  <2>2. \A q \in Sessions \ {p} : session'[q] = session[q]
    BY <1>2, OthersStay DEF Continue
  <2>3. \A x \in Seats : x # s => holder'[x] = holder[x]
    BY <1>2 DEF AcquireSeat, SetKey, TypeOK
  <2>4. \A x \in Seats : x = s => holder'[x] = c.rid
    BY <1>2 DEF AcquireSeat, SetKey, TypeOK
  <2>5. CASE /\ outcome' = [outcome EXCEPT ![c.rid] = "granted"]
             /\ session' = [session EXCEPT ![p] = Idle]
    <3>1. outcome'[c.rid] = "granted"
      BY <2>1, <2>5 DEF TypeOK, LockCall
    <3>2. \A r \in Reservations \ {c.rid} : outcome'[r] = outcome[r]
      BY <2>5 DEF TypeOK
    <3> QED BY <2>1, <2>2, <2>3, <2>4, <3>1, <3>2
            DEF KeysAccountedFor, OneLocker, TypeOK, LockCall, Acquired
  <2>6. CASE /\ session' = [session EXCEPT ![p] = [c EXCEPT !.n = c.n + 1]]
             /\ outcome' = outcome
    <3>1. /\ session'[p].pc = "locking" /\ session'[p].rid = c.rid
          /\ session'[p].list = c.list /\ session'[p].n = c.n + 1
      BY <2>1, <2>6 DEF TypeOK, LockCall
    <3>2. Acquired(c) \cup {s} \subseteq Acquired(session'[p])
      BY <2>1, <3>1 DEF Acquired, LockCall
    <3> QED BY <2>1, <2>2, <2>3, <2>4, <2>6, <3>1, <3>2
            DEF KeysAccountedFor, OneLocker, TypeOK, LockCall
  <2> QED BY <1>2, <2>5, <2>6 DEF AcquireSeat
<1>3. ASSUME NEW p \in Sessions, SeatTaken(p) PROVE KeysAccountedFor'
  <2> DEFINE c == session[p]
  <2>1. c \in LockCall /\ c.pc = "locking" /\ holder' = holder
    BY <1>3, SessionKinds DEF SeatTaken
  <2>2. \A q \in Sessions \ {p} : session'[q] = session[q]
    BY <1>3, OthersStay DEF Continue
  <2>3. CASE /\ c.n = 0
             /\ outcome' = [outcome EXCEPT ![c.rid] = "conflict"]
    <3>1. Acquired(c) = {}
      BY <2>3 DEF Acquired
    <3>2. \A s \in Seats : holder[s] # c.rid
      BY <2>1, <3>1 DEF KeysAccountedFor, OneLocker, LockCall
    <3> QED BY <2>1, <2>2, <2>3, <3>2 DEF KeysAccountedFor, OneLocker, TypeOK
  <2>4. CASE /\ session' = [session EXCEPT ![p] = [c EXCEPT !.pc = "unlocking"]]
             /\ outcome' = outcome
    <3>1. /\ session'[p].pc = "unlocking" /\ session'[p].rid = c.rid
          /\ Acquired(session'[p]) = Acquired(c)
      BY <2>1, <2>4 DEF TypeOK, LockCall, Acquired
    <3> QED BY <2>1, <2>2, <2>4, <3>1 DEF KeysAccountedFor
  <2> QED BY <1>3, <2>3, <2>4 DEF SeatTaken
<1>4. ASSUME NEW p \in Sessions, RollBack(p) PROVE KeysAccountedFor'
  <2> DEFINE c == session[p]
  <2>1. c \in LockCall /\ c.pc = "unlocking" /\ outcome[c.rid] = "locking"
    BY <1>4, SessionKinds DEF RollBack, OneLocker
  <2>2. \A q \in Sessions \ {p} : session'[q] = session[q]
    BY <1>4, OthersStay DEF Continue
  <2>3. /\ \A s \in Acquired(c) \cap Seats : holder'[s] = NoReservation
        /\ \A s \in Seats : holder'[s] \in {holder[s], NoReservation}
        /\ outcome' = [outcome EXCEPT ![c.rid] = "conflict"]
    BY <1>4 DEF RollBack, Delete
  <2>4. \A s \in Seats : holder'[s] # c.rid
    BY <2>1, <2>3 DEF KeysAccountedFor, OneLocker, LockCall
  <2> QED BY <2>1, <2>2, <2>3, <2>4 DEF KeysAccountedFor, OneLocker, TypeOK
<1>5. ASSUME NEW p \in Sessions, Crash(p) PROVE KeysAccountedFor'
  <2>1. holder' = holder /\ session' = [session EXCEPT ![p] = Idle]
    BY <1>5 DEF Crash
  <2>2. CASE ~IsLocking(p)
    BY <1>5, <2>1, <2>2 DEF KeysAccountedFor, Crash, TypeOK
  <2>3. CASE /\ IsLocking(p)
             /\ outcome' = [outcome EXCEPT ![session[p].rid] = "failed"]
    BY <2>1, <2>3 DEF KeysAccountedFor, OneLocker, TypeOK
  <2> QED BY <1>5, <2>2, <2>3 DEF Crash
<1>6. ASSUME NEW p \in Sessions,
             \/ Checkout(p) \/ Confirm(p) \/ Cleanup(p)
             \/ CheckSeat(p) \/ CheckFails(p) \/ InsertRows(p)
             \/ Flush(p) \/ ReleaseLocks(p) \/ Commit(p)
      PROVE  KeysAccountedFor'
  <2>1. ~IsLocking(p) /\ outcome' = outcome
    BY <1>6, NotLocking
  <2>2. \A q \in Sessions \ {p} : session'[q] = session[q]
    BY <1>6, OthersStay DEF Continue
  <2>3. \A s \in Seats : holder'[s] \in {holder[s], NoReservation}
    BY <1>6, KeysOnlyGo
  <2> QED BY <2>1, <2>2, <2>3 DEF KeysAccountedFor
<1>7. ASSUME Tick PROVE KeysAccountedFor'
  <2>1. \A s \in Seats : holder'[s] \in {holder[s], NoReservation}
    BY <1>7, KeysOnlyGo
  <2>2. \A q \in Sessions : IsLocking(q) => session'[q] = session[q]
    BY <1>7 DEF Tick, TypeOK
  <2> QED BY <1>7, <2>1, <2>2 DEF KeysAccountedFor, Tick
<1>8. CASE UNCHANGED vars
  BY <1>8 DEF vars, KeysAccountedFor, Acquired
<1> QED BY <1>1, <1>2, <1>3, <1>4, <1>5, <1>6, <1>7, <1>8 DEF Next, Continue

\* The only outcomes a step changes belong to a fresh reservation or to one
\* that is being locked: a grant is for ever.
LEMMA GrantIsForEver ==
  ASSUME IInv, [Next]_vars, NEW r \in Reservations, outcome[r] = "granted"
  PROVE  outcome'[r] = "granted"
<1> USE DEF IInv, TypeOK
<1>1. ASSUME NEW p \in Sessions, LockSeats(p) PROVE outcome'[r] = "granted"
  BY <1>1 DEF LockSeats
<1>2. ASSUME NEW p \in Sessions,
             AcquireSeat(p) \/ SeatTaken(p) \/ RollBack(p) \/ Crash(p)
      PROVE  outcome'[r] = "granted"
  <2>1. \/ outcome' = outcome
        \/ /\ IsLocking(p)
           /\ \E o \in {"granted", "conflict", "failed"} :
                outcome' = [outcome EXCEPT ![session[p].rid] = o]
    BY <1>2 DEF AcquireSeat, SeatTaken, RollBack, Crash, IsLocking
  <2> QED BY <2>1 DEF OneLocker
<1>3. ASSUME NEW p \in Sessions,
             \/ Checkout(p) \/ Confirm(p) \/ Cleanup(p)
             \/ CheckSeat(p) \/ CheckFails(p) \/ InsertRows(p)
             \/ Flush(p) \/ ReleaseLocks(p) \/ Commit(p)
      PROVE  outcome'[r] = "granted"
  BY <1>3, NotLocking
<1>4. CASE Tick \/ UNCHANGED vars
  BY <1>4 DEF Tick, vars
<1> QED BY <1>1, <1>2, <1>3, <1>4 DEF Next, Continue

\* A reservation that was granted gets no more keys: its keys only go.
LEMMA GrantedKeysOnlyGo ==
  ASSUME IInv, [Next]_vars, NEW r \in Reservations, outcome[r] = "granted",
         NEW s \in Seats, holder'[s] = r
  PROVE  holder[s] = r /\ ttl'[s] <= ttl[s] /\ (Tick => ttl'[s] = ttl[s] - 1)
<1> USE ReservationAssumption, TTLAssumption DEF IInv
<1>1. ASSUME NEW p \in Sessions, AcquireSeat(p) PROVE holder[s] = r /\ ttl'[s] <= ttl[s]
  <2>1. session[p].rid # r
    BY <1>1 DEF AcquireSeat, OneLocker, IsLocking
  <2> DEFINE d == session[p].list[session[p].n + 1]
  <2>2. /\ holder' = [holder EXCEPT ![d] = session[p].rid]
        /\ ttl' = [ttl EXCEPT ![d] = LockTTL]
    BY <1>1 DEF AcquireSeat, SetKey
  <2> HIDE DEF d
  <2>3. s # d
    BY <2>1, <2>2 DEF TypeOK
  <2>4. holder'[s] = holder[s] /\ ttl'[s] = ttl[s]
    BY <2>2, <2>3 DEF TypeOK
  <2> QED BY <2>4 DEF TypeOK
<1>2. ASSUME UNCHANGED vars PROVE holder[s] = r /\ ttl'[s] <= ttl[s]
  <2>1. holder' = holder /\ ttl' = ttl
    BY <1>2 DEF vars
  <2>2. ttl[s] \in Nat
    BY DEF TypeOK
  <2> QED BY <2>1, <2>2
<1>3. CASE Tick
  <2>1. holder[s] = r /\ ttl[s] > 1
    BY <1>3 DEF Tick, TypeOK
  <2> QED BY <1>3, <2>1 DEF Tick, TypeOK
<1>4. ASSUME NEW p \in Sessions,
              \/ LockSeats(p) \/ SeatTaken(p) \/ RollBack(p) \/ Crash(p)
              \/ Checkout(p) \/ Confirm(p) \/ Cleanup(p)
              \/ CheckSeat(p) \/ CheckFails(p) \/ InsertRows(p)
              \/ Flush(p) \/ ReleaseLocks(p) \/ Commit(p)
      PROVE holder[s] = r /\ ttl'[s] <= ttl[s]
  BY <1>4, KeysOnlyGo
<1>5. Tick => ttl'[s] = ttl[s] - 1
  BY <1>3
<1> QED BY <1>1, <1>2, <1>3, <1>4, <1>5 DEF Next, Continue

\* Which phase each action leaves its session in.
LEMMA MovesOn ==
  ASSUME TypeOK, NEW p \in Sessions
  PROVE  /\ LockSeats(p) => session'[p].pc = "locking"
         /\ AcquireSeat(p) => session'[p].pc \in {"idle", "locking"}
         /\ SeatTaken(p) => session'[p].pc \in {"idle", "unlocking"}
         /\ RollBack(p) \/ CheckFails(p) \/ InsertRows(p) \/ Commit(p) \/ Crash(p)
              => session'[p].pc = "idle"
         /\ Checkout(p) => session'[p].pc = "checking"
         /\ CheckSeat(p) => session'[p].pc \in {"checking", "inserting"}
         /\ Confirm(p) \/ Cleanup(p) => session'[p].pc = "flushing"
         /\ Flush(p) => session'[p].pc = "releasing"
         /\ ReleaseLocks(p) => session'[p].pc = "committing"
<1> USE DEF TypeOK, Idle
<1>1. LockSeats(p) => session'[p].pc = "locking"
  BY DEF LockSeats
<1>2. AcquireSeat(p) => session'[p].pc \in {"idle", "locking"}
  BY SessionKinds DEF AcquireSeat, LockCall
<1>3. SeatTaken(p) => session'[p].pc \in {"idle", "unlocking"}
  BY SessionKinds DEF SeatTaken, LockCall
<1>4. RollBack(p) \/ CheckFails(p) \/ InsertRows(p) \/ Commit(p) \/ Crash(p)
        => session'[p].pc = "idle"
  BY DEF RollBack, CheckFails, InsertRows, Commit, Crash
<1>5. Checkout(p) => session'[p].pc = "checking"
  BY DEF Checkout
<1>6. CheckSeat(p) => session'[p].pc \in {"checking", "inserting"}
  BY SessionKinds DEF CheckSeat, CheckCall
<1>7. Confirm(p) \/ Cleanup(p) => session'[p].pc = "flushing"
  BY DEF Confirm, Cleanup, StartSettling
<1>8. Flush(p) => session'[p].pc = "releasing"
  BY SessionKinds DEF Flush, SettleCall
<1>9. ReleaseLocks(p) => session'[p].pc = "committing"
  BY SessionKinds DEF ReleaseLocks, SettleCall
<1> QED BY <1>1, <1>2, <1>3, <1>4, <1>5, <1>6, <1>7, <1>8, <1>9

LEMMA OnlyGrantedStep == IInv /\ [Next]_vars => OnlyGranted'
<1> SUFFICES ASSUME IInv, [Next]_vars PROVE OnlyGranted'
  OBVIOUS
<1> USE DEF IInv
<1>1. \A r \in Reservations : outcome[r] = "granted" => outcome'[r] = "granted"
  BY GrantIsForEver
<1>2. \A t \in tickets' : outcome'[t.rid] = "granted"
  <2>1. ASSUME NEW p \in Sessions, InsertRows(p)
        PROVE  \A t \in tickets' : outcome'[t.rid] = "granted"
    BY <1>1, <2>1, SessionKinds
       DEF InsertRows, NewRows, OnlyGranted, TypeOK, Ticket, InsertCall
  <2>2. ASSUME NEW p \in Sessions, Commit(p)
        PROVE  \A t \in tickets' : \E u \in tickets : t.rid = u.rid
    <3>1. \A t \in tickets : [t EXCEPT !.status = session[p].to].rid = t.rid
      BY DEF TypeOK, Ticket
    <3> QED BY <2>2, <3>1 DEF Commit
  <2>3. ASSUME Tick PROVE \A t \in tickets' : \E u \in tickets : t.rid = u.rid
    <3>1. \A t \in tickets : [t EXCEPT !.age = Older(t.age)].rid = t.rid
      BY DEF TypeOK, Ticket
    <3> QED BY <2>3, <3>1 DEF Tick
  <2>4. ASSUME \A t \in tickets' : \E u \in tickets : t.rid = u.rid
        PROVE  \A t \in tickets' : outcome'[t.rid] = "granted"
    BY <1>1, <2>4 DEF OnlyGranted, TypeOK, Ticket
  <2>5. \/ tickets' = tickets \/ Tick
        \/ \E p \in Sessions : InsertRows(p) \/ Commit(p)
    BY DEF Next, Continue, vars, LockSeats, Checkout, Confirm, Cleanup,
           StartSettling, Crash, AcquireSeat, SeatTaken, RollBack, CheckSeat,
           CheckFails, Flush, ReleaseLocks
  <2> QED BY <2>1, <2>2, <2>3, <2>4, <2>5
<1>3. ASSUME NEW p \in Sessions, session'[p].pc \in {"checking", "inserting"}
      PROVE  outcome'[session'[p].rid] = "granted"
  <2>1. CASE /\ session[p].pc \in {"checking", "inserting"}
             /\ session'[p].rid = session[p].rid
    BY <1>1, <2>1, SessionKinds DEF OnlyGranted, CheckCall, InsertCall
  <2>2. CASE Checkout(p)
    BY <1>1, <2>2 DEF Checkout, TypeOK
  <2>3. CASE CheckSeat(p)
    BY <2>1, <2>3, SessionKinds DEF CheckSeat, TypeOK, CheckCall
  <2>4. CASE Tick
    BY <1>3, <2>1, <2>4, SessionKinds DEF Tick, TypeOK, InsertCall
  <2>5. CASE session'[p] = session[p]
    BY <1>3, <2>1, <2>5
  <2>6. CASE LockSeats(p) \/ Confirm(p) \/ Cleanup(p)
    BY <1>3, <2>6, MovesOn
  <2>7. CASE \/ AcquireSeat(p) \/ SeatTaken(p) \/ RollBack(p) \/ CheckFails(p)
             \/ InsertRows(p) \/ Flush(p) \/ ReleaseLocks(p) \/ Commit(p)
             \/ Crash(p)
    BY <1>3, <2>7, MovesOn
  <2> QED BY <2>2, <2>3, <2>4, <2>5, <2>6, <2>7, OthersStay
          DEF Next, Continue, vars
<1>4. ASSUME NEW p \in Sessions, session'[p].pc \in {"flushing", "releasing"}
      PROVE  \A x \in session'[p].rows : outcome'[x.rid] = "granted"
  <2>1. CASE /\ session[p].pc \in {"flushing", "releasing"}
             /\ session'[p].rows = session[p].rows
    BY <1>1, <2>1, SessionKinds DEF OnlyGranted, SettleCall, TicketRef
  <2>2. CASE Confirm(p) \/ Cleanup(p)
    <3>1. ASSUME NEW read \in SUBSET tickets, NEW to, StartSettling(p, read, to)
          PROVE  session'[p].rows = {Ref(t) : t \in read}
      BY <3>1 DEF StartSettling, TypeOK
    <3>2. \E read \in SUBSET tickets : session'[p].rows = {Ref(t) : t \in read}
      BY <2>2, <3>1 DEF Confirm, Cleanup, PendingOf, StaleTickets
    <3> QED BY <1>1, <3>2 DEF OnlyGranted, TypeOK, Ticket, Ref
  <2>3. CASE Flush(p)
    BY <2>1, <2>3, SessionKinds DEF Flush, TypeOK, SettleCall
  <2>4. CASE session'[p] = session[p]
    BY <1>4, <2>1, <2>4
  <2>5. CASE Tick
    BY <1>4, <2>4, <2>5, SessionKinds DEF Tick, TypeOK, InsertCall
  <2>6. CASE \/ AcquireSeat(p) \/ SeatTaken(p) \/ RollBack(p) \/ CheckFails(p)
             \/ InsertRows(p) \/ ReleaseLocks(p) \/ Commit(p) \/ Crash(p)
             \/ LockSeats(p) \/ Checkout(p) \/ CheckSeat(p)
    BY <1>4, <2>6, MovesOn
  <2> QED BY <2>2, <2>3, <2>4, <2>5, <2>6, OthersStay DEF Next, Continue, vars
<1> QED BY <1>2, <1>3, <1>4 DEF OnlyGranted

\* The rows after a step, seen from the rows before it.
LEMMA RowsStay ==
  ASSUME TypeOK, [Next]_vars, \A p \in Sessions : ~InsertRows(p)
  PROVE  \A t \in tickets' : \E u \in tickets :
           /\ t.seat = u.seat /\ t.rid = u.rid
           /\ t.age = IF Tick THEN Older(u.age) ELSE u.age
<1> USE DEF TypeOK
<1>1. CASE Tick
  <2> DEFINE Aged(u) == [u EXCEPT !.age = Older(u.age)]
  <2>1. \A u \in tickets : /\ Aged(u).seat = u.seat /\ Aged(u).rid = u.rid
                           /\ Aged(u).age = Older(u.age)
    BY DEF Ticket
  <2>2. tickets' = {Aged(u) : u \in tickets}
    BY <1>1 DEF Tick
  <2> HIDE DEF Aged
  <2> QED BY <1>1, <2>1, <2>2
<1>2. ASSUME NEW p \in Sessions, Commit(p), ~Tick
      PROVE  \A t \in tickets' : \E u \in tickets :
               t.seat = u.seat /\ t.rid = u.rid /\ t.age = u.age
  <2> DEFINE Set(u) == [u EXCEPT !.status = session[p].to]
  <2>1. \A u \in tickets : /\ Set(u).seat = u.seat /\ Set(u).rid = u.rid
                           /\ Set(u).age = u.age
    BY DEF Ticket
  <2>2. \A t \in tickets' : \E u \in tickets : t = u \/ t = Set(u)
    BY <1>2 DEF Commit
  <2> HIDE DEF Set
  <2> QED BY <2>1, <2>2
<1>3. \/ tickets' = tickets \/ Tick
      \/ \E p \in Sessions : InsertRows(p) \/ Commit(p)
  BY DEF Next, Continue, vars, LockSeats, Checkout, Confirm, Cleanup,
         StartSettling, Crash, AcquireSeat, SeatTaken, RollBack, CheckSeat,
         CheckFails, Flush, ReleaseLocks
<1> QED BY <1>1, <1>2, <1>3

\* A tick takes from the key what it adds to the row; nothing else adds.
LEMMA SharedTTL ==
  ASSUME IInv, [Next]_vars, NEW s \in Seats, NEW r \in Reservations,
         outcome[r] = "granted", NEW a \in Ages,
         holder[s] = r => a + ttl[s] <= LockTTL
  PROVE  holder'[s] = r =>
           (IF Tick THEN Older(a) ELSE a) + ttl'[s] <= LockTTL
<1> SUFFICES ASSUME holder'[s] = r
             PROVE  (IF Tick THEN Older(a) ELSE a) + ttl'[s] <= LockTTL
  OBVIOUS
<1>1. holder[s] = r /\ ttl'[s] <= ttl[s] /\ (Tick => ttl'[s] = ttl[s] - 1)
  BY GrantedKeysOnlyGo
<1>2. ttl[s] \in Nat /\ ttl'[s] \in Nat
  BY NextType, TTLAssumption DEF IInv, TypeOK
<1>3. Older(a) \in {a, a + 1} /\ a \in Nat /\ LockTTL \in Nat
  BY TTLAssumption DEF Older, Ages
<1> QED BY <1>1, <1>2, <1>3

LEMMA KeysOutlastNoRowStep == IInv /\ [Next]_vars => KeysOutlastNoRow'
<1> SUFFICES ASSUME IInv, [Next]_vars PROVE KeysOutlastNoRow'
  OBVIOUS
<1> USE DEF IInv
<1>1. ASSUME NEW t \in tickets', holder'[t.seat] = t.rid
      PROVE  t.age + ttl'[t.seat] <= LockTTL
  <2>1. CASE \A p \in Sessions : ~InsertRows(p)
    <3> PICK u \in tickets :
               /\ t.seat = u.seat /\ t.rid = u.rid
               /\ t.age = IF Tick THEN Older(u.age) ELSE u.age
      BY <2>1, RowsStay
    <3>1. /\ u.seat \in Seats /\ u.rid \in Reservations /\ u.age \in Ages
          /\ outcome[u.rid] = "granted"
          /\ holder[u.seat] = u.rid => u.age + ttl[u.seat] <= LockTTL
      BY DEF TypeOK, Ticket, OnlyGranted, KeysOutlastNoRow
    <3> QED BY <1>1, <3>1, SharedTTL
  <2>2. ASSUME NEW p \in Sessions, InsertRows(p)
        PROVE  t.age + ttl'[t.seat] <= LockTTL
    <3>1. holder' = holder /\ ttl' = ttl /\ session[p].pc = "inserting"
      BY <2>2 DEF InsertRows
    <3>2. CASE t \in tickets
      BY <1>1, <3>1, <3>2 DEF KeysOutlastNoRow
    <3>3. CASE t \in NewRows(session[p])
      BY <1>1, <3>1, <3>3 DEF KeysOutlastNoRow, NewRows
    <3> QED BY <2>2, <3>2, <3>3 DEF InsertRows
  <2> QED BY <2>1, <2>2
<1>2. ASSUME NEW p \in Sessions, session'[p].pc = "inserting",
             NEW i \in 1 .. Len(session'[p].list),
             holder'[session'[p].list[i]] = session'[p].rid
      PROVE  session'[p].age + ttl'[session'[p].list[i]] <= LockTTL
  <2> DEFINE c == session[p]
  <2>1. CASE CheckSeat(p)
    <3>1. /\ session'[p].age = 0 /\ ttl' = ttl /\ session'[p].list = c.list
          /\ c \in CheckCall
      BY <1>2, <2>1, SessionKinds DEF CheckSeat, CheckCall, TypeOK
    <3>2. c.list[i] \in Seats
      BY <1>2, <3>1, SeatListAssumption DEF CheckCall
    <3> QED BY <3>1, <3>2, TTLAssumption DEF TypeOK
  <2>2. ASSUME ~CheckSeat(p)
        PROVE  /\ c.pc = "inserting"
               /\ session'[p].rid = c.rid /\ session'[p].list = c.list
               /\ session'[p].age = IF Tick THEN Older(c.age) ELSE c.age
    <3>1. CASE session'[p] = session[p] /\ ~Tick
      BY <1>2, <3>1
    <3>2. CASE Tick
      <4>1. session'[p] = IF session[p].pc = "inserting"
                            THEN [session[p] EXCEPT !.age = Older(session[p].age)]
                            ELSE session[p]
        BY <3>2 DEF Tick
      <4>2. c \in InsertCall
        BY <1>2, <4>1, SessionKinds
      <4> QED BY <3>2, <4>1, <4>2 DEF InsertCall
    <3>3. ~Tick => session'[p] = session[p]
      BY <1>2, <2>2, MovesOn, OthersStay DEF Next, Continue, vars
    <3> QED BY <3>1, <3>2, <3>3
  <2>3. CASE ~CheckSeat(p)
    <3>1. /\ c.pc = "inserting" /\ c \in InsertCall
          /\ session'[p].rid = c.rid /\ session'[p].list = c.list
          /\ session'[p].age = IF Tick THEN Older(c.age) ELSE c.age
      BY <2>2, <2>3, SessionKinds
    <3>2. /\ c.rid \in Reservations /\ c.age \in Ages /\ c.list[i] \in Seats
      BY <1>2, <3>1, SeatListAssumption DEF InsertCall
    <3>3. /\ outcome[c.rid] = "granted"
          /\ holder[c.list[i]] = c.rid => c.age + ttl[c.list[i]] <= LockTTL
      BY <1>2, <3>1 DEF OnlyGranted, KeysOutlastNoRow
    <3> QED BY <1>2, <3>1, <3>2, <3>3, SharedTTL
  <2> QED BY <2>1, <2>3
<1> QED BY <1>1, <1>2 DEF KeysOutlastNoRow

LEMMA CleanupIsLateStep == IInv /\ [Next]_vars => CleanupIsLate'
<1> SUFFICES ASSUME IInv, [Next]_vars,
                    NEW p \in Sessions,
                    session'[p].pc \in {"flushing", "releasing"},
                    session'[p].to = "released",
                    NEW x \in session'[p].rows
             PROVE  holder'[x.seat] # x.rid
  BY DEF CleanupIsLate
<1> USE DEF IInv
<1>1. ASSUME x \in TicketRef, outcome[x.rid] = "granted", holder[x.seat] # x.rid
      PROVE  holder'[x.seat] # x.rid
  BY <1>1, GrantedKeysOnlyGo DEF TicketRef
<1>2. CASE Cleanup(p)
  <2>1. session'[p].rows = {Ref(t) : t \in StaleTickets}
    BY <1>2 DEF Cleanup, StartSettling, TypeOK
  <2> PICK t \in StaleTickets : x = Ref(t)
    BY <2>1
  <2>2. /\ t \in tickets /\ t.age \in Nat /\ t.age > PendingExpiry
        /\ t.seat \in Seats /\ ttl[t.seat] \in Nat
    BY TTLAssumption DEF StaleTickets, TypeOK, Ticket, Ages
  <2>3. holder[t.seat] # t.rid
    BY <2>2, TTLAssumption DEF KeysOutlastNoRow
  <2> QED BY <1>2, <2>3 DEF Ref, Cleanup, StartSettling
<1>3. CASE Confirm(p)
  BY <1>3 DEF Confirm, StartSettling, TypeOK
<1>4. ASSUME /\ session[p].pc \in {"flushing", "releasing"}
             /\ session[p].to = "released" /\ x \in session[p].rows
      PROVE  holder'[x.seat] # x.rid
  BY <1>1, <1>4, SessionKinds DEF CleanupIsLate, OnlyGranted, SettleCall
<1>5. CASE Flush(p)
  BY <1>4, <1>5, SessionKinds DEF Flush, TypeOK, SettleCall
<1>6. CASE session'[p] = session[p]
  BY <1>4, <1>6
<1>7. CASE Tick
  BY <1>4, <1>7, SessionKinds DEF Tick, InsertCall
<1> QED BY <1>2, <1>3, <1>5, <1>6, <1>7, MovesOn, OthersStay
        DEF Next, Continue, vars

-----------------------------------------------------------------------------
(* The identity of rows, and the grace period                              *)

LEMMA OlderAge ==
  ASSUME NEW a \in Ages
  PROVE  Older(a) \in Ages /\ Older(a) >= a /\ a \in Nat
  BY TTLAssumption DEF Older, Ages

\* A row after a step is a row of before, as old or older, with its status or
\* with the one a commit gave it.
LEMMA RowHistory ==
  ASSUME TypeOK, [Next]_vars, \A p \in Sessions : ~InsertRows(p),
         NEW t \in tickets'
  PROVE  \E u \in tickets :
           /\ Ref(t) = Ref(u) /\ t.age >= u.age /\ u.age \in Nat /\ t.age \in Nat
           /\ t.status = u.status \/ (\E p \in Sessions : /\ Commit(p)
                                        /\ Ref(u) \in session[p].rows
                                        /\ t.status = session[p].to)
<1> USE DEF TypeOK, Ticket, Ref
<1>1. CASE Tick
  <2> PICK u \in tickets : t = [u EXCEPT !.age = Older(u.age)]
    BY <1>1 DEF Tick
  <2>1. u \in Ticket /\ u.age \in Ages
    OBVIOUS
  <2> QED BY <2>1, OlderAge
<1>2. ASSUME NEW p \in Sessions, Commit(p)
      PROVE  \E u \in tickets :
           /\ Ref(t) = Ref(u) /\ t.age >= u.age /\ u.age \in Nat /\ t.age \in Nat
           /\ t.status = u.status \/ (/\ Ref(u) \in session[p].rows
                                      /\ t.status = session[p].to)
  <2> PICK u \in tickets :
        t = IF Ref(u) \in session[p].rows THEN [u EXCEPT !.status = session[p].to] ELSE u
    BY <1>2 DEF Commit
  <2>1. u \in Ticket /\ u.age \in Nat
    BY OlderAge
  <2> QED BY <2>1
<1>3. CASE tickets' = tickets
  <2>1. t \in Ticket /\ t.age \in Nat
    BY <1>3, OlderAge
  <2> QED BY <1>3, <2>1
<1>4. \/ tickets' = tickets \/ Tick
      \/ \E p \in Sessions : Commit(p)
  BY DEF Next, Continue, vars, LockSeats, Checkout, Confirm, Cleanup,
         StartSettling, Crash, AcquireSeat, SeatTaken, RollBack, CheckSeat,
         CheckFails, Flush, ReleaseLocks
<1> QED BY <1>1, <1>2, <1>3, <1>4

\* No row ever goes, and none changes its identity.
LEMMA RowsRemain ==
  ASSUME TypeOK, [Next]_vars, NEW u \in tickets
  PROVE  \E t \in tickets' : Ref(t) = Ref(u)
<1> USE DEF TypeOK, Ticket, Ref
<1>1. CASE Tick
  <2> DEFINE t == [u EXCEPT !.age = Older(u.age)]
  <2>1. t \in tickets'
    BY <1>1 DEF Tick
  <2>2. Ref(t) = Ref(u)
    OBVIOUS
  <2> QED BY <2>1, <2>2
<1>2. ASSUME NEW p \in Sessions, Commit(p) PROVE \E t \in tickets' : Ref(t) = Ref(u)
  <2> DEFINE t == IF Ref(u) \in session[p].rows
                    THEN [u EXCEPT !.status = session[p].to] ELSE u
  <2>1. t \in tickets'
    BY <1>2 DEF Commit
  <2>2. Ref(t) = Ref(u)
    OBVIOUS
  <2> QED BY <2>1, <2>2
<1>3. \/ tickets \subseteq tickets' \/ Tick
      \/ \E p \in Sessions : Commit(p)
  BY DEF Next, Continue, vars, LockSeats, Checkout, Confirm, Cleanup,
         StartSettling, Crash, AcquireSeat, SeatTaken, RollBack, CheckSeat,
         CheckFails, InsertRows, Flush, ReleaseLocks
<1> QED BY <1>1, <1>2, <1>3

\* Checkouts are numbered upwards.
LEMMA NumbersGrow ==
  ASSUME TypeOK, [Next]_vars, NEW r \in Reservations
  PROVE  checkouts[r] \in Nat /\ checkouts'[r] \in Nat /\ checkouts[r] <= checkouts'[r]
<1>1. checkouts' = checkouts \/ \E p \in Sessions : Checkout(p)
  BY DEF Next, Continue, vars, LockSeats, Confirm, Cleanup, Tick, Commit,
         StartSettling, Crash, AcquireSeat, SeatTaken, RollBack, CheckSeat,
         CheckFails, InsertRows, Flush, ReleaseLocks
<1> QED BY <1>1 DEF TypeOK, Checkout

\* A running checkout keeps its reservation and its number.
LEMMA CheckoutGoesOn ==
  ASSUME TypeOK, [Next]_vars, NEW p \in Sessions, InCheckout(p)', ~Checkout(p)
  PROVE  /\ InCheckout(p) /\ ~InsertRows(p)
         /\ session'[p].rid = session[p].rid /\ session'[p].call = session[p].call
         /\ session[p].rid \in Reservations /\ session[p].call \in Nat
<1>1. InCheckout(p) => session[p].rid \in Reservations /\ session[p].call \in Nat
  BY SessionKinds DEF InCheckout, CheckCall, InsertCall
<1>2. CASE session'[p] = session[p]
  BY <1>1, <1>2, MovesOn DEF InCheckout
<1>3. CASE CheckSeat(p)
  BY <1>1, <1>3, SessionKinds DEF CheckSeat, InCheckout, TypeOK, CheckCall, InsertRows
<1>4. CASE Tick
  <2>1. ~InsertRows(p)
    BY MovesOn DEF InCheckout
  <2>2. CASE session[p].pc = "inserting"
    <3>1. session'[p] = [session[p] EXCEPT !.age = Older(session[p].age)]
      BY <1>4, <2>2 DEF Tick
    <3>2. session[p] \in InsertCall
      BY <2>2, SessionKinds
    <3> QED BY <1>1, <2>1, <2>2, <3>1, <3>2 DEF InCheckout, InsertCall
  <2>3. CASE session[p].pc # "inserting"
    BY <1>2, <1>4, <2>3 DEF Tick
  <2> QED BY <2>2, <2>3
<1>5. CASE \/ LockSeats(p) \/ Confirm(p) \/ Cleanup(p) \/ AcquireSeat(p)
           \/ SeatTaken(p) \/ RollBack(p) \/ CheckFails(p) \/ InsertRows(p)
           \/ Flush(p) \/ ReleaseLocks(p) \/ Commit(p) \/ Crash(p)
  BY <1>5, MovesOn DEF InCheckout
<1> QED BY <1>2, <1>3, <1>4, <1>5, OthersStay DEF Next, Continue, vars

\* The number a checkout takes is a new one.
LEMMA CheckoutStarts ==
  ASSUME TypeOK, NEW p \in Sessions, Checkout(p)
  PROVE  /\ InCheckout(p)' /\ session'[p].rid \in Reservations
         /\ session'[p].call = checkouts[session'[p].rid] + 1
         /\ checkouts'[session'[p].rid] = checkouts[session'[p].rid] + 1
         /\ tickets' = tickets
  BY DEF TypeOK, Checkout, InCheckout

LEMMA FreshCallsStep == IInv /\ [Next]_vars => FreshCalls'
<1> SUFFICES ASSUME IInv, [Next]_vars PROVE FreshCalls'
  OBVIOUS
<1> USE DEF IInv
\* What an insert adds has the number of the checkout, which nobody else has.
<1>1. ASSUME NEW q \in Sessions, InsertRows(q), NEW t \in tickets', t \notin tickets
      PROVE  /\ InCheckout(q) /\ t.rid = session[q].rid /\ t.call = session[q].call
             /\ t.rid \in Reservations /\ t.call \in Nat
             /\ t.pos \in 1 .. Len(session[q].list)
             /\ t = [rid |-> session[q].rid, call |-> session[q].call, pos |-> t.pos,
                     seat |-> session[q].list[t.pos], status |-> "pending_payment",
                     age |-> session[q].age]
  <2>1. session[q] \in InsertCall /\ session[q].pc = "inserting"
    BY <1>1, SessionKinds DEF InsertRows
  <2>2. t \in NewRows(session[q])
    BY <1>1 DEF InsertRows
  <2> QED BY <2>1, <2>2 DEF NewRows, InCheckout, InsertCall
<1>2. ASSUME NEW p \in Sessions, InCheckout(p)'
      PROVE  /\ session'[p].call <= checkouts'[session'[p].rid]
             /\ \A t \in tickets' : t.rid = session'[p].rid => t.call # session'[p].call
  <2>1. CASE Checkout(p)
    <3>1. \A t \in tickets : t.rid = session'[p].rid =>
             t.call <= checkouts[session'[p].rid] /\ t.call \in Nat
      BY DEF FreshCalls, TypeOK, Ticket
    <3> QED BY <2>1, <3>1, CheckoutStarts, NumbersGrow
  <2>2. ASSUME ~Checkout(p), NEW t \in tickets', t.rid = session'[p].rid
        PROVE  t.call # session'[p].call
    <3>1. CASE \A q \in Sessions : ~InsertRows(q)
      <4> PICK u \in tickets : Ref(t) = Ref(u)
        BY <3>1, RowHistory
      <4>1. u.rid = t.rid /\ u.call = t.call
        BY DEF Ref
      <4> QED BY <1>2, <2>2, <4>1, CheckoutGoesOn DEF FreshCalls
    <3>2. ASSUME NEW q \in Sessions, InsertRows(q) PROVE t.call # session'[p].call
      BY <1>1, <1>2, <2>2, <3>2, CheckoutGoesOn DEF FreshCalls
    <3> QED BY <3>1, <3>2
  <2>3. ASSUME ~Checkout(p) PROVE session'[p].call <= checkouts'[session'[p].rid]
    BY <1>2, <2>3, CheckoutGoesOn, NumbersGrow DEF FreshCalls
  <2> QED BY <2>1, <2>2, <2>3
<1>3. ASSUME NEW p \in Sessions, NEW q \in Sessions, InCheckout(p)', InCheckout(q)',
             session'[p].rid = session'[q].rid, session'[p].call = session'[q].call,
             p # q
      PROVE  FALSE
  <2>1. ASSUME NEW a \in Sessions, NEW b \in Sessions, a # b, Checkout(a),
               InCheckout(b)', session'[b].rid = session'[a].rid
        PROVE  session'[b].call # session'[a].call
    <3>1. session'[b] = session[b]
      BY <2>1, OthersStay
    <3>2. InCheckout(b) /\ session[b].rid \in Reservations /\ session[b].call \in Nat
      BY <2>1, <3>1, SessionKinds DEF InCheckout, CheckCall, InsertCall
    <3>3. session[b].call <= checkouts[session[b].rid]
      BY <3>2 DEF FreshCalls
    <3> QED BY <2>1, <3>1, <3>2, <3>3, CheckoutStarts, NumbersGrow
  <2>2. CASE ~Checkout(p) /\ ~Checkout(q)
    BY <1>3, <2>2, CheckoutGoesOn DEF FreshCalls
  <2> QED BY <1>3, <2>1, <2>2
<1>4. ASSUME NEW t \in tickets' PROVE t.call <= checkouts'[t.rid]
  <2>1. CASE \A q \in Sessions : ~InsertRows(q)
    <3> PICK u \in tickets : Ref(t) = Ref(u)
      BY <2>1, RowHistory
    <3>1. u.rid \in Reservations /\ u.call \in Nat /\ u.call <= checkouts[u.rid]
      BY DEF TypeOK, Ticket, FreshCalls
    <3> QED BY <3>1, NumbersGrow DEF Ref
  <2>2. ASSUME NEW q \in Sessions, InsertRows(q) PROVE t.call <= checkouts'[t.rid]
    <3>1. checkouts' = checkouts
      BY <2>2 DEF InsertRows
    <3> QED BY <1>1, <2>2, <3>1 DEF FreshCalls
  <2> QED BY <2>1, <2>2
<1>5. ASSUME NEW t \in tickets', NEW u \in tickets', Ref(t) = Ref(u) PROVE t = u
  <2>1. CASE Tick
    <3> PICK s \in tickets : t = [s EXCEPT !.age = Older(s.age)]
      BY <2>1 DEF Tick
    <3> PICK v \in tickets : u = [v EXCEPT !.age = Older(v.age)]
      BY <2>1 DEF Tick
    <3>1. Ref(s) = Ref(v)
      BY <1>5 DEF Ref, TypeOK, Ticket
    <3> QED BY <3>1 DEF FreshCalls
  <2>2. ASSUME NEW p \in Sessions, Commit(p) PROVE t = u
    <3> DEFINE Set(s) == IF Ref(s) \in session[p].rows
                           THEN [s EXCEPT !.status = session[p].to] ELSE s
    <3>1. tickets' = {Set(s) : s \in tickets}
      BY <2>2 DEF Commit
    <3>2. \A s \in tickets : Ref(Set(s)) = Ref(s)
      BY DEF Ref, TypeOK, Ticket
    <3> HIDE DEF Set
    <3>3. PICK s \in tickets : t = Set(s)
      BY <3>1
    <3>4. PICK v \in tickets : u = Set(v)
      BY <3>1
    <3>5. s = v
      BY <1>5, <3>2, <3>3, <3>4 DEF FreshCalls
    <3> QED BY <3>3, <3>4, <3>5
  <2>3. ASSUME NEW q \in Sessions, InsertRows(q) PROVE t = u
    <3>1. CASE t \in tickets /\ u \in tickets
      BY <1>5, <3>1 DEF FreshCalls
    <3>2. CASE t \notin tickets /\ u \notin tickets
      BY <1>1, <1>5, <2>3, <3>2 DEF Ref
    <3>3. ASSUME NEW a \in tickets, NEW b \in tickets', b \notin tickets
          PROVE  Ref(a) # Ref(b)
      BY <1>1, <2>3, <3>3 DEF Ref, FreshCalls
    <3> QED BY <1>5, <3>1, <3>2, <3>3
  <2>4. CASE tickets' = tickets
    BY <1>5, <2>4 DEF FreshCalls
  <2>5. \/ tickets' = tickets \/ Tick
        \/ \E p \in Sessions : InsertRows(p) \/ Commit(p)
    BY DEF Next, Continue, vars, LockSeats, Checkout, Confirm, Cleanup,
           StartSettling, Crash, AcquireSeat, SeatTaken, RollBack, CheckSeat,
           CheckFails, Flush, ReleaseLocks
  <2> QED BY <2>1, <2>2, <2>3, <2>4, <2>5
<1> QED BY <1>2, <1>3, <1>4, <1>5 DEF FreshCalls

\* A session that is settling rows keeps them and what it sets them to.
LEMMA SettlingGoesOn ==
  ASSUME TypeOK, [Next]_vars, NEW p \in Sessions, Settling(p)',
         ~Confirm(p), ~Cleanup(p)
  PROVE  /\ Settling(p)
         /\ session'[p].rows = session[p].rows /\ session'[p].to = session[p].to
<1>1. CASE session'[p] = session[p]
  BY <1>1 DEF Settling
<1>2. CASE Flush(p) \/ ReleaseLocks(p)
  BY <1>2, SessionKinds DEF Flush, ReleaseLocks, Settling, TypeOK, SettleCall
<1>3. CASE Tick
  BY <1>3, SessionKinds DEF Tick, Settling, TypeOK, InsertCall
<1>4. CASE \/ LockSeats(p) \/ AcquireSeat(p) \/ SeatTaken(p) \/ RollBack(p)
           \/ Checkout(p) \/ CheckSeat(p) \/ CheckFails(p) \/ InsertRows(p)
           \/ Commit(p) \/ Crash(p)
  BY <1>4, MovesOn DEF Settling
<1> QED BY <1>1, <1>2, <1>3, <1>4, OthersStay DEF Next, Continue, vars

LEMMA ReleaseIsLateStep == IInv /\ [Next]_vars => ReleaseIsLate'
<1> SUFFICES ASSUME IInv, [Next]_vars, NEW p \in Sessions, Settling(p)',
                    NEW x \in session'[p].rows
             PROVE  /\ \E t \in tickets' : Ref(t) = x
                    /\ session'[p].to = "released" =>
                         \A t \in tickets' : Ref(t) = x => t.age > PendingExpiry
  BY DEF ReleaseIsLate
<1> USE DEF IInv
<1>1. CASE Confirm(p) \/ Cleanup(p)
  <2>1. CASE Cleanup(p)
    <3>1. session'[p].rows = {Ref(t) : t \in StaleTickets} /\ tickets' = tickets
      BY <2>1 DEF Cleanup, StartSettling, TypeOK
    <3> PICK u \in StaleTickets : x = Ref(u)
      BY <3>1
    <3>2. u \in tickets /\ u.age > PendingExpiry
      BY DEF StaleTickets
    <3>3. \A t \in tickets : Ref(t) = x => t = u
      BY <3>2 DEF FreshCalls
    <3> QED BY <3>1, <3>2, <3>3
  <2>2. CASE Confirm(p)
    BY <2>2 DEF Confirm, StartSettling, TypeOK, PendingOf
  <2> QED BY <1>1, <2>1, <2>2
<1>2. CASE ~Confirm(p) /\ ~Cleanup(p)
  <2>1. /\ Settling(p) /\ x \in session[p].rows /\ session'[p].to = session[p].to
    BY <1>2, SettlingGoesOn
  <2> PICK u \in tickets : Ref(u) = x
    BY <2>1 DEF ReleaseIsLate
  <2>2. \E t \in tickets' : Ref(t) = x
    BY RowsRemain
  <2>3. ASSUME session[p].to = "released", NEW t \in tickets', Ref(t) = x
        PROVE  t.age > PendingExpiry
    <3>1. CASE \A q \in Sessions : ~InsertRows(q)
      <4> PICK v \in tickets : Ref(t) = Ref(v) /\ t.age >= v.age
                                 /\ v.age \in Nat /\ t.age \in Nat
        BY <3>1, RowHistory
      <4>1. v.age > PendingExpiry
        BY <2>1, <2>3 DEF ReleaseIsLate
      <4> QED BY <4>1, TTLAssumption
    <3>2. ASSUME NEW q \in Sessions, InsertRows(q) PROVE t.age > PendingExpiry
      <4>1. CASE t \in tickets
        BY <2>1, <2>3, <4>1 DEF ReleaseIsLate
      <4>2. CASE t \notin tickets
        <5>1. t \in NewRows(session[q]) /\ session[q].pc = "inserting"
          BY <3>2, <4>2 DEF InsertRows
        <5>2. t.rid = session[q].rid /\ t.call = session[q].call
          BY <5>1 DEF NewRows
        <5>3. u.rid = t.rid /\ u.call = t.call
          BY <2>3 DEF Ref
        <5> QED BY <5>1, <5>2, <5>3 DEF FreshCalls, InCheckout
      <4> QED BY <4>1, <4>2
    <3> QED BY <3>1, <3>2
  <2> QED BY <2>1, <2>2, <2>3
<1> QED BY <1>1, <1>2

LEMMA GracePeriodKeptStep == IInv /\ [Next]_vars => GracePeriodKept'
<1> SUFFICES ASSUME IInv, [Next]_vars, NEW t \in tickets', t.status = "released"
             PROVE  t.age > PendingExpiry
  BY DEF GracePeriodKept
<1> USE DEF IInv
<1>1. CASE \A q \in Sessions : ~InsertRows(q)
  <2> PICK u \in tickets :
        /\ Ref(t) = Ref(u) /\ t.age >= u.age /\ u.age \in Nat /\ t.age \in Nat
        /\ t.status = u.status \/ (\E p \in Sessions : /\ Commit(p)
                                     /\ Ref(u) \in session[p].rows
                                     /\ t.status = session[p].to)
    BY <1>1, RowHistory
  <2>1. u.age > PendingExpiry
    BY DEF GracePeriodKept, ReleaseIsLate, Commit, Settling
  <2> QED BY <2>1, TTLAssumption
<1>2. ASSUME NEW q \in Sessions, InsertRows(q) PROVE t.age > PendingExpiry
  BY <1>2 DEF InsertRows, NewRows, GracePeriodKept
<1> QED BY <1>1, <1>2

-----------------------------------------------------------------------------
LEMMA Inductive == Spec => []IInv
<1>1. IInv /\ [Next]_vars => IInv'
  BY NextType, OneLockerStep, KeysAccountedForStep, OnlyGrantedStep,
     KeysOutlastNoRowStep, CleanupIsLateStep, FreshCallsStep, ReleaseIsLateStep,
     GracePeriodKeptStep DEF IInv
<1> QED BY InitIInv, <1>1, PTL DEF Spec

\* lock_seats is all or nothing: a refused request leaves none of its keys.
THEOREM RefusedLeavesNoKey == Spec => []ConflictReleasesAll
<1>1. IInv => ConflictReleasesAll
  BY DEF IInv, KeysAccountedFor, ConflictReleasesAll
<1> QED BY Inductive, <1>1, PTL

\* The cleanup job never deletes the key of the reservation it releases: with
\* LockTTL <= PendingExpiry that key has expired long before.
THEOREM CleanupComesLate == Spec => []CleanupNeverFreesOwnLock
<1>1. IInv => CleanupNeverFreesOwnLock
  BY DEF IInv, CleanupIsLate, CleanupNeverFreesOwnLock
<1> QED BY Inductive, <1>1, PTL

\* A reservation that was checked out stays pending or confirmed for all of the
\* PendingExpiry: the cleanup job releases no row before, in any interleaving.
THEOREM PaidInTimeIsFound == Spec => []GracePeriodKept
<1>1. IInv => GracePeriodKept
  BY DEF IInv
<1> QED BY Inductive, <1>1, PTL

-----------------------------------------------------------------------------
(* What is confirmed in time is never released, whatever calls overlap        *)

\* No session is about to release a row of the checkout.
NobodyReleases(r, k) ==
  \A p \in Sessions : Settling(p) /\ session[p].to = "released" =>
    \A x \in session[p].rows : ~(x.rid = r /\ x.call = k)

SafelyConfirmed(r, k) == IsConfirmed(r, k) /\ NobodyReleases(r, k)

\* A row loaded to be released is older than any that was confirmed in time.
LEMMA InTimeIsSafe ==
  ASSUME IInv, NEW r, NEW k, ConfirmedInTime(r, k)
  PROVE  SafelyConfirmed(r, k)
<1> SUFFICES ASSUME NEW p \in Sessions, Settling(p), session[p].to = "released",
                    NEW x \in session[p].rows, x.rid = r, x.call = k
             PROVE  FALSE
  BY DEF SafelyConfirmed, NobodyReleases, ConfirmedInTime
<1>1. PICK t \in tickets : Ref(t) = x /\ t.age > PendingExpiry
  BY DEF IInv, ReleaseIsLate
<1>2. t.rid = r /\ t.call = k
  BY <1>1 DEF Ref
<1>3. t.age <= PendingExpiry /\ t.age \in Nat
  BY <1>2, TTLAssumption DEF ConfirmedInTime, RowsOf, IInv, TypeOK, Ticket, Ages
<1> QED BY <1>1, <1>3, TTLAssumption

\* A checkout that is safely confirmed gets no more rows, loses none, and the
\* cleanup job does not find it.
LEMMA SafeStaysSafe ==
  ASSUME IInv, [Next]_vars, NEW r, NEW k, SafelyConfirmed(r, k)
  PROVE  SafelyConfirmed(r, k)'
<1> USE DEF IInv
<1>1. PICK t0 \in tickets : t0.rid = r /\ t0.call = k
  BY DEF SafelyConfirmed, IsConfirmed, RowsOf
<1>2. PICK u0 \in tickets' : u0.rid = r /\ u0.call = k
  <2>1. PICK u0 \in tickets' : Ref(u0) = Ref(t0)
    BY RowsRemain
  <2> QED BY <1>1, <2>1 DEF Ref
<1>3. ASSUME NEW t \in tickets', t.rid = r, t.call = k
      PROVE  t.status = "confirmed"
  <2>1. CASE t \in tickets
    BY <1>3, <2>1 DEF SafelyConfirmed, IsConfirmed, RowsOf
  <2>2. ASSUME NEW q \in Sessions, InsertRows(q), t \notin tickets PROVE FALSE
    <3>1. t \in NewRows(session[q]) /\ session[q].pc = "inserting"
      BY <2>2 DEF InsertRows
    <3>2. t.rid = session[q].rid /\ t.call = session[q].call
      BY <3>1 DEF NewRows
    <3> QED BY <1>1, <1>3, <3>1, <3>2 DEF FreshCalls, InCheckout
  <2>3. CASE \A q \in Sessions : ~InsertRows(q)
    <3>1. PICK u \in tickets :
            /\ Ref(t) = Ref(u)
            /\ t.status = u.status \/ (\E q \in Sessions : /\ Commit(q)
                                         /\ Ref(u) \in session[q].rows
                                         /\ t.status = session[q].to)
      BY <2>3, RowHistory
    <3>2. u.rid = r /\ u.call = k
      BY <1>3, <3>1 DEF Ref
    <3>3. u.status = "confirmed"
      BY <3>2 DEF SafelyConfirmed, IsConfirmed, RowsOf
    <3>4. ASSUME NEW q \in Sessions, Commit(q), Ref(u) \in session[q].rows
          PROVE  session[q].to = "confirmed"
      <4>1. Settling(q) /\ session[q] \in SettleCall
        BY <3>4, SessionKinds DEF Commit, Settling
      <4>2. session[q].to # "released"
        BY <3>2, <3>4, <4>1 DEF SafelyConfirmed, NobodyReleases, Ref
      <4> QED BY <4>1, <4>2 DEF SettleCall
    <3> QED BY <3>1, <3>3, <3>4
  <2> QED BY <2>1, <2>2, <2>3
<1>4. ASSUME NEW p \in Sessions, Settling(p)', session'[p].to = "released",
             NEW x \in session'[p].rows, x.rid = r, x.call = k
      PROVE  FALSE
  <2>1. CASE Cleanup(p)
    <3>1. session'[p].rows = {Ref(t) : t \in StaleTickets}
      BY <2>1 DEF Cleanup, StartSettling, TypeOK
    <3>2. PICK t \in StaleTickets : x = Ref(t)
      BY <1>4, <3>1
    <3>3. t \in tickets /\ t.status = "pending_payment" /\ t.rid = r /\ t.call = k
      BY <1>4, <3>2 DEF StaleTickets, Ref
    <3> QED BY <3>3 DEF SafelyConfirmed, IsConfirmed, RowsOf
  <2>2. CASE Confirm(p)
    <3>1. session'[p].to = "confirmed"
      BY <2>2 DEF Confirm, StartSettling, TypeOK
    <3> QED BY <1>4, <3>1
  <2>3. CASE ~Confirm(p) /\ ~Cleanup(p)
    <3>1. /\ Settling(p) /\ session'[p].rows = session[p].rows
          /\ session'[p].to = session[p].to
      BY <1>4, <2>3, SettlingGoesOn
    <3> QED BY <1>4, <3>1 DEF SafelyConfirmed, NobodyReleases
  <2> QED BY <2>1, <2>2, <2>3
<1>5. IsConfirmed(r, k)'
  BY <1>2, <1>3 DEF IsConfirmed, RowsOf
<1>6. NobodyReleases(r, k)'
  BY <1>4 DEF NobodyReleases
<1> QED BY <1>5, <1>6 DEF SafelyConfirmed

\* Lines 195-211 and 223-246: in any interleaving of confirmations, cleanups,
\* checkouts and crashes, a checkout that was confirmed before its rows reached
\* PendingExpiry stays confirmed.
THEOREM InTimeIsForGood == Spec => ConfirmedInTimeIsFinal
<1>1. ASSUME NEW r \in Reservations, NEW k \in 1 .. MaxCheckouts
      PROVE  Spec => StaysConfirmed(r, k)
  <2>1. IInv /\ ConfirmedInTime(r, k) => SafelyConfirmed(r, k)
    BY InTimeIsSafe
  <2>2. IInv /\ SafelyConfirmed(r, k) /\ [Next]_vars => SafelyConfirmed(r, k)'
    BY SafeStaysSafe
  <2>3. SafelyConfirmed(r, k) => IsConfirmed(r, k)
    BY DEF SafelyConfirmed
  <2> QED BY Inductive, <2>1, <2>2, <2>3, PTL DEF Spec, StaysConfirmed
<1> QED BY <1>1 DEF ConfirmedInTimeIsFinal

-----------------------------------------------------------------------------
(* With one call at a time, and seat lists of a bounded length, SeatAllocator *)
(* implements TicketLedger                                                  *)

OneCall == \A p, q \in Sessions : p = q
ListsFit == MaxSeatsPerList \in Nat /\ \A l \in SeatLists : Len(l) <= MaxSeatsPerList

LEMMA InitSerial == Init => SerialIInv(MaxSeatsPerList)
  BY InitIInv, BoundAssumption
     DEF Init, SerialIInv, RowsHavePlaces, ReadsAreCurrent, InCheckout, Settling, Idle

\* What an insert adds.
LEMMA InsertedRow ==
  ASSUME TypeOK, NEW p \in Sessions, InsertRows(p), NEW t \in NewRows(session[p])
  PROVE  /\ InCheckout(p) /\ session[p] \in InsertCall
         /\ t.rid = session[p].rid /\ t.call = session[p].call
         /\ t.status = "pending_payment"
         /\ t.pos \in 1 .. Len(session[p].list) /\ t.seat = session[p].list[t.pos]
         /\ Ref(t) = [rid |-> t.rid, call |-> t.call, pos |-> t.pos, seat |-> t.seat]
         /\ t.seat \in Seats /\ t.rid \in Reservations
<1>1. session[p] \in InsertCall /\ session[p].pc = "inserting"
  BY SessionKinds DEF InsertRows
<1>2. PICK i \in 1 .. Len(session[p].list) :
        t = [rid |-> session[p].rid, call |-> session[p].call, pos |-> i,
             seat |-> session[p].list[i], status |-> "pending_payment",
             age |-> session[p].age]
  BY DEF NewRows
<1>3. session[p].list[i] \in Seats
  BY <1>1, SeatListAssumption DEF InsertCall
<1> QED BY <1>1, <1>2, <1>3 DEF InCheckout, InsertCall, Ref

LEMMA RowsHavePlacesStep ==
  ASSUME ListsFit, SerialIInv(MaxSeatsPerList), [Next]_vars
  PROVE  RowsHavePlaces(MaxSeatsPerList)'
<1> USE DEF SerialIInv, IInv
<1>1. ASSUME NEW r \in Reservations PROVE checkouts'[r] <= MaxCheckouts
  <2>1. checkouts[r] <= MaxCheckouts /\ checkouts[r] \in Nat
    BY DEF RowsHavePlaces, TypeOK
  <2>2. CASE checkouts' = checkouts
    BY <2>1, <2>2
  <2>3. ASSUME NEW p \in Sessions, Checkout(p) PROVE checkouts'[r] <= MaxCheckouts
    BY <2>1, <2>3, BoundAssumption DEF Checkout, TypeOK
  <2>4. checkouts' = checkouts \/ \E p \in Sessions : Checkout(p)
    BY DEF Next, Continue, vars, LockSeats, Confirm, Cleanup, Tick, Commit,
           StartSettling, Crash, AcquireSeat, SeatTaken, RollBack, CheckSeat,
           CheckFails, InsertRows, Flush, ReleaseLocks
  <2> QED BY <2>2, <2>3, <2>4
<1>2. ASSUME NEW p \in Sessions, InCheckout(p)'
      PROVE  session'[p].call \in 1 .. MaxCheckouts
  <2>1. CASE Checkout(p)
    <3>1. PICK r \in Reservations : r = session'[p].rid
      BY <2>1, CheckoutStarts
    <3>2. session'[p].call = checkouts'[r] /\ checkouts[r] \in Nat
          /\ checkouts'[r] = checkouts[r] + 1
      BY <2>1, <3>1, CheckoutStarts DEF TypeOK
    <3> QED BY <1>1, <3>2, BoundAssumption
  <2>2. CASE ~Checkout(p)
    BY <1>2, <2>2, CheckoutGoesOn DEF RowsHavePlaces
  <2> QED BY <2>1, <2>2
<1>3. ASSUME NEW t \in tickets' PROVE Ref(t) \in LedgerRows(MaxSeatsPerList)
  <2>1. CASE \A q \in Sessions : ~InsertRows(q)
    <3> PICK u \in tickets : Ref(t) = Ref(u)
      BY <2>1, RowHistory
    <3> QED BY DEF RowsHavePlaces
  <2>2. ASSUME NEW q \in Sessions, InsertRows(q), t \notin tickets
        PROVE  Ref(t) \in LedgerRows(MaxSeatsPerList)
    <3>1. t \in NewRows(session[q])
      BY <2>2 DEF InsertRows
    <3>2. /\ InCheckout(q) /\ session[q] \in InsertCall
          /\ t.rid \in Reservations /\ t.call = session[q].call /\ t.seat \in Seats
          /\ t.pos \in 1 .. Len(session[q].list)
          /\ Ref(t) = [rid |-> t.rid, call |-> t.call, pos |-> t.pos, seat |-> t.seat]
      BY <2>2, <3>1, InsertedRow
    <3>3. t.call \in 1 .. MaxCheckouts
      BY <3>2 DEF RowsHavePlaces
    <3>4. session[q].list \in SeatLists /\ Len(session[q].list) \in Nat
          /\ Len(session[q].list) <= MaxSeatsPerList
      BY <3>2, SeatListAssumption DEF InsertCall, ListsFit
    <3>5. t.pos \in 1 .. MaxSeatsPerList
      BY <3>2, <3>4 DEF ListsFit
    <3> QED BY <3>2, <3>3, <3>5 DEF LedgerRows
  <2>3. CASE t \in tickets
    BY <2>3 DEF RowsHavePlaces
  <2> QED BY <2>1, <2>2, <2>3
<1> QED BY <1>1, <1>2, <1>3 DEF RowsHavePlaces, LedgerRows

\* A tick leaves every row its identity and its status.
LEMMA TickKeepsStatus ==
  ASSUME TypeOK, Tick
  PROVE  /\ \A t \in tickets : \E u \in tickets' :
              Ref(u) = Ref(t) /\ u.status = t.status /\ u.rid = t.rid
         /\ \A u \in tickets' : \E t \in tickets :
              Ref(u) = Ref(t) /\ u.status = t.status /\ u.rid = t.rid
<1> DEFINE Aged(t) == [t EXCEPT !.age = Older(t.age)]
<1>1. tickets' = {Aged(t) : t \in tickets}
  BY DEF Tick
<1>2. \A t \in tickets : /\ Ref(Aged(t)) = Ref(t) /\ Aged(t).status = t.status
                         /\ Aged(t).rid = t.rid
  BY DEF TypeOK, Ticket, Ref
<1> HIDE DEF Aged
<1> QED BY <1>1, <1>2

\* Only inserts, commits and ticks change rows.
LEMMA WhoChangesRows ==
  ASSUME [Next]_vars
  PROVE  \/ tickets' = tickets \/ Tick
         \/ \E p \in Sessions : InsertRows(p) \/ Commit(p)
BY DEF Next, Continue, vars, LockSeats, Checkout, Confirm, Cleanup, StartSettling,
       Crash, AcquireSeat, SeatTaken, RollBack, CheckSeat, CheckFails, Flush,
       ReleaseLocks

LEMMA ReadsAreCurrentStep ==
  ASSUME OneCall, SerialIInv(MaxSeatsPerList), [Next]_vars
  PROVE  ReadsAreCurrent'
<1> USE DEF SerialIInv, IInv
<1> SUFFICES ASSUME NEW p \in Sessions, Settling(p)'
             PROVE  \/ /\ session'[p].to = "confirmed" /\ session'[p].rows # {}
                       /\ \E r \in Reservations :
                            session'[p].rows = {Ref(t) : t \in PendingOf(r)'}
                    \/ /\ session'[p].to = "released"
                       /\ \A x \in session'[p].rows :
                            \E t \in tickets' : Ref(t) = x /\ t.status = "pending_payment"
  BY DEF ReadsAreCurrent
<1>1. CASE Confirm(p)
  <2>1. PICK r \in Reservations : StartSettling(p, PendingOf(r), "confirmed")
    BY <1>1 DEF Confirm
  <2>2. /\ session'[p] = [pc |-> "flushing", rows |-> {Ref(t) : t \in PendingOf(r)},
                          to |-> "confirmed"]
        /\ PendingOf(r) # {} /\ tickets' = tickets
    BY <2>1 DEF StartSettling, TypeOK
  <2>3. PendingOf(r)' = PendingOf(r)
    BY <2>2 DEF PendingOf
  <2> QED BY <2>2, <2>3
<1>2. CASE Cleanup(p)
  <2>1. /\ session'[p] = [pc |-> "flushing", rows |-> {Ref(t) : t \in StaleTickets},
                          to |-> "released"]
        /\ tickets' = tickets
    BY <1>2 DEF Cleanup, StartSettling, TypeOK
  <2>2. \A t \in StaleTickets : t \in tickets /\ t.status = "pending_payment"
    BY DEF StaleTickets
  <2> QED BY <2>1, <2>2
<1>3. CASE ~Confirm(p) /\ ~Cleanup(p)
  <2>1. Settling(p) /\ session'[p].rows = session[p].rows /\ session'[p].to = session[p].to
    BY <1>3, SettlingGoesOn
  <2>2. tickets' = tickets \/ Tick
    <3>1. \A q \in Sessions : InsertRows(q) \/ Commit(q) => ~Settling(q)'
      BY MovesOn DEF Settling
    <3> QED BY <3>1, WhoChangesRows DEF OneCall
  <2>3. ASSUME NEW r \in Reservations
        PROVE  {Ref(t) : t \in PendingOf(r)'} = {Ref(t) : t \in PendingOf(r)}
    <3>1. CASE tickets' = tickets
      BY <3>1 DEF PendingOf
    <3>2. CASE Tick
      BY <3>2, TickKeepsStatus DEF PendingOf
    <3> QED BY <2>2, <3>1, <3>2
  <2>4. ASSUME NEW t \in tickets
        PROVE  \E u \in tickets' : Ref(u) = Ref(t) /\ u.status = t.status
    BY <2>2, TickKeepsStatus
  <2>5. CASE /\ session[p].to = "confirmed" /\ session[p].rows # {}
             /\ \E r \in Reservations : session[p].rows = {Ref(t) : t \in PendingOf(r)}
    <3>1. PICK r \in Reservations : session[p].rows = {Ref(t) : t \in PendingOf(r)}
      BY <2>5
    <3>2. session'[p].rows = {Ref(t) : t \in PendingOf(r)'}
      BY <2>1, <2>3, <3>1
    <3> QED BY <2>1, <2>5, <3>2
  <2>6. CASE /\ session[p].to = "released"
             /\ \A x \in session[p].rows :
                  \E t \in tickets : Ref(t) = x /\ t.status = "pending_payment"
    BY <2>1, <2>4, <2>6
  <2> QED BY <2>1, <2>5, <2>6 DEF ReadsAreCurrent
<1> QED BY <1>1, <1>2, <1>3

LEMMA SerialInductive ==
  ASSUME OneCall, ListsFit
  PROVE  Spec => []SerialIInv(MaxSeatsPerList)
<1>1. SerialIInv(MaxSeatsPerList) /\ [Next]_vars => SerialIInv(MaxSeatsPerList)'
  <2> SUFFICES ASSUME SerialIInv(MaxSeatsPerList), [Next]_vars
               PROVE  SerialIInv(MaxSeatsPerList)'
    OBVIOUS
  <2>1. IInv'
    BY NextType, OneLockerStep, KeysAccountedForStep, OnlyGrantedStep,
       KeysOutlastNoRowStep, CleanupIsLateStep, FreshCallsStep, ReleaseIsLateStep,
       GracePeriodKeptStep DEF IInv, SerialIInv
  <2> QED BY <2>1, RowsHavePlacesStep, ReadsAreCurrentStep DEF SerialIInv
<1> QED BY InitSerial, <1>1, PTL DEF Spec

\* The state of the ledger, of any set of rows.
Places == LedgerRows(MaxSeatsPerList)
StatusIn(T) == [x \in Places |-> IF \E t \in T : Ref(t) = x
                                   THEN (CHOOSE t \in T : Ref(t) = x).status
                                   ELSE "absent"]

LEMMA StatusOfRows ==
  ASSUME NEW T, \A t, u \in T : Ref(t) = Ref(u) => t = u
  PROVE  /\ \A t \in T : Ref(t) \in Places => StatusIn(T)[Ref(t)] = t.status
         /\ \A x \in Places : (\A t \in T : Ref(t) # x) => StatusIn(T)[x] = "absent"
         /\ StatusIn(T) = [x \in Places |-> StatusIn(T)[x]]
<1>1. ASSUME NEW t \in T, Ref(t) \in Places PROVE StatusIn(T)[Ref(t)] = t.status
  <2>1. (CHOOSE u \in T : Ref(u) = Ref(t)) = t
    OBVIOUS
  <2> QED BY <1>1, <2>1 DEF StatusIn
<1>2. ASSUME NEW x \in Places, \A t \in T : Ref(t) # x PROVE StatusIn(T)[x] = "absent"
  BY <1>2 DEF StatusIn
<1>3. StatusIn(T) = [x \in Places |-> StatusIn(T)[x]]
  BY DEF StatusIn
<1> QED BY <1>1, <1>2, <1>3

\* Rows U follow rows T: those of the identities in S have the status "to", all
\* others are as they were.
SingleRows(T) == \A t, u \in T : Ref(t) = Ref(u) => t = u

Follows(T, U, S, to) ==
  /\ \A u \in U : /\ Ref(u) \in Places
                  /\ Ref(u) \in S => u.status = to
                  /\ Ref(u) \notin S => \E t \in T : Ref(t) = Ref(u) /\ t.status = u.status
  /\ \A t \in T : \E u \in U : Ref(u) = Ref(t)
  /\ \A x \in S : \E u \in U : Ref(u) = x

LEMMA StatusAfter ==
  ASSUME NEW T, SingleRows(T), NEW U, SingleRows(U), NEW S, NEW to, Follows(T, U, S, to)
  PROVE  StatusIn(U) = [x \in Places |-> IF x \in S THEN to ELSE StatusIn(T)[x]]
<1> USE DEF SingleRows, Follows
<1>1. ASSUME NEW x \in Places
      PROVE  StatusIn(U)[x] = IF x \in S THEN to ELSE StatusIn(T)[x]
  <2>1. ASSUME NEW u \in U, Ref(u) = x PROVE StatusIn(U)[x] = IF x \in S THEN to ELSE StatusIn(T)[x]
    <3>1. StatusIn(U)[x] = u.status
      BY <2>1, StatusOfRows
    <3>2. CASE x \in S
      BY <2>1, <3>1, <3>2
    <3>3. CASE x \notin S
      <4>1. PICK t \in T : Ref(t) = x /\ t.status = u.status
        BY <2>1, <3>3
      <4>2. StatusIn(T)[x] = t.status
        BY <4>1, StatusOfRows
      <4> QED BY <3>1, <3>3, <4>1, <4>2
    <3> QED BY <3>2, <3>3
  <2>2. ASSUME \A u \in U : Ref(u) # x PROVE StatusIn(U)[x] = IF x \in S THEN to ELSE StatusIn(T)[x]
    <3>1. x \notin S /\ \A t \in T : Ref(t) # x
      BY <2>2
    <3>2. StatusIn(U)[x] = "absent" /\ StatusIn(T)[x] = "absent"
      BY <2>2, <3>1, StatusOfRows
    <3> QED BY <3>1, <3>2
  <2> QED BY <2>1, <2>2
<1>2. StatusIn(U) = [x \in Places |-> StatusIn(U)[x]]
  BY StatusOfRows
<1> QED BY <1>1, <1>2

LEMMA MappedState ==
  /\ LedgerStatus(MaxSeatsPerList) = StatusIn(tickets)
  /\ LedgerStatus(MaxSeatsPerList)' = StatusIn(tickets')
  /\ LedgerRows(MaxSeatsPerList) = Places
BY DEF LedgerStatus, StatusIn, Places

\* Every step of the allocator is a step of the ledger or none.
LEMMA LedgerStep ==
  ASSUME OneCall, SerialIInv(MaxSeatsPerList), SerialIInv(MaxSeatsPerList)', [Next]_vars
  PROVE  [Ledger!LedgerNext]_(LedgerStatus(MaxSeatsPerList))
<1>1. /\ \A t, u \in tickets : Ref(t) = Ref(u) => t = u
      /\ \A t, u \in tickets' : Ref(t) = Ref(u) => t = u
      /\ \A t \in tickets : Ref(t) \in Places
      /\ \A t \in tickets' : Ref(t) \in Places
  BY DEF SerialIInv, IInv, FreshCalls, RowsHavePlaces, Places
<1>2. TypeOK
  BY DEF SerialIInv, IInv
<1>3. SingleRows(tickets) /\ SingleRows(tickets')
  BY <1>1 DEF SingleRows
<1> DEFINE old == StatusIn(tickets)
           new == StatusIn(tickets')
<1>4. CASE tickets' = tickets
  BY <1>4, MappedState
<1>5. CASE Tick
  <2>1. Follows(tickets, tickets', {}, "absent")
    BY <1>1, <1>2, <1>5, TickKeepsStatus DEF Follows
  <2>2. new = [x \in Places |-> IF x \in {} THEN "absent" ELSE old[x]]
    BY <1>3, <2>1, StatusAfter
  <2>3. old = [x \in Places |-> old[x]]
    BY <1>1, StatusOfRows
  <2> HIDE DEF old, new
  <2>4. new = old
    BY <2>2, <2>3
  <2> QED BY <2>4, MappedState DEF old, new
<1>6. ASSUME NEW p \in Sessions, InsertRows(p) PROVE Ledger!Insert
  <2> DEFINE S == {Ref(t) : t \in NewRows(session[p])}
  <2>1. tickets' = tickets \cup NewRows(session[p])
    BY <1>6 DEF InsertRows
  <2>2. \A t \in NewRows(session[p]) :
          /\ t.status = "pending_payment" /\ Ref(t).rid = session[p].rid
          /\ Ref(t) \in Places /\ t \in tickets'
          /\ \A u \in tickets : Ref(u) # Ref(t)
    <3> TAKE t \in NewRows(session[p])
    <3>1. /\ InCheckout(p) /\ t.status = "pending_payment"
          /\ t.rid = session[p].rid /\ t.call = session[p].call
          /\ Ref(t) = [rid |-> t.rid, call |-> t.call, pos |-> t.pos, seat |-> t.seat]
      BY <1>2, <1>6, InsertedRow
    <3>2. \A u \in tickets : ~(u.rid = t.rid /\ u.call = t.call)
      BY <3>1 DEF SerialIInv, IInv, FreshCalls
    <3>3. \A u \in tickets : Ref(u) # Ref(t)
      BY <3>2 DEF Ref
    <3> QED BY <1>1, <2>1, <3>1, <3>3
  <2>3. new = [x \in Places |-> IF x \in S THEN "pending_payment" ELSE old[x]]
    <3>1. \A u \in tickets' : Ref(u) \in S => u.status = "pending_payment"
      BY <1>1, <2>1, <2>2
    <3>2. \A u \in tickets' : Ref(u) \notin S =>
            \E t \in tickets : Ref(t) = Ref(u) /\ t.status = u.status
      BY <2>1
    <3>3. \A x \in S : \E u \in tickets' : Ref(u) = x
      BY <2>1
    <3>4. \A t \in tickets : \E u \in tickets' : Ref(u) = Ref(t)
      BY <2>1
    <3> HIDE DEF S
    <3>5. Follows(tickets, tickets', S, "pending_payment")
      BY <1>1, <3>1, <3>2, <3>3, <3>4 DEF Follows
    <3> QED BY <1>3, <3>5, StatusAfter
  <2>4. \A x \in S : x \in Places /\ old[x] = "absent" /\ x.rid = session[p].rid
    <3> SUFFICES ASSUME NEW t \in NewRows(session[p])
                 PROVE  /\ Ref(t) \in Places /\ old[Ref(t)] = "absent"
                        /\ Ref(t).rid = session[p].rid
      OBVIOUS
    <3> HIDE DEF S
    <3> QED BY <1>1, <2>2, StatusOfRows
  <2> HIDE DEF S, old, new
  <2>5. S \in SUBSET {x \in Places : old[x] = "absent"} /\ \A x, y \in S : x.rid = y.rid
    BY <2>4
  <2>6. /\ LedgerStatus(MaxSeatsPerList) = old /\ LedgerStatus(MaxSeatsPerList)' = new
        /\ LedgerRows(MaxSeatsPerList) = Places
    BY MappedState DEF old, new
  <2> QED BY <2>3, <2>5, <2>6 DEF Ledger!Insert, Ledger!Set
<1>7. ASSUME NEW p \in Sessions, Commit(p)
      PROVE  Ledger!Release \/ \E x \in Ledger!Pending : Ledger!ConfirmAll(x.rid)
  <2> DEFINE S == session[p].rows
             to == session[p].to
  <2>1. Settling(p) /\ session[p] \in SettleCall
    BY <1>2, <1>7, SessionKinds DEF Commit, Settling
  <2>2. tickets' = {IF Ref(t) \in S THEN [t EXCEPT !.status = to] ELSE t : t \in tickets}
    BY <1>7 DEF Commit
  <2>3. \A x \in S : \E t \in tickets : Ref(t) = x
    BY <2>1 DEF SerialIInv, IInv, ReleaseIsLate
  <2>4. new = [x \in Places |-> IF x \in S THEN to ELSE old[x]]
    <3> DEFINE Put(t) == IF Ref(t) \in S THEN [t EXCEPT !.status = to] ELSE t
    <3>1. \A t \in tickets : /\ Ref(Put(t)) = Ref(t)
                             /\ Ref(t) \in S => Put(t).status = to
                             /\ Ref(t) \notin S => Put(t) = t
      BY <1>2 DEF Ref, TypeOK, Ticket
    <3>2. tickets' = {Put(t) : t \in tickets}
      BY <2>2
    <3> HIDE DEF Put, S, to
    <3>3. \A t \in tickets : \E u \in tickets' : Ref(u) = Ref(t)
      BY <3>1, <3>2
    <3>4. \A x \in S : \E u \in tickets' : Ref(u) = x
      BY <2>3, <3>3
    <3>5. ASSUME NEW u \in tickets'
          PROVE  /\ Ref(u) \in S => u.status = to
                 /\ Ref(u) \notin S => \E t \in tickets : Ref(t) = Ref(u) /\ t.status = u.status
      <4>1. PICK t \in tickets : u = Put(t)
        BY <3>2
      <4> QED BY <3>1, <4>1
    <3>6. Follows(tickets, tickets', S, to)
      BY <1>1, <3>3, <3>4, <3>5 DEF Follows
    <3> QED BY <1>3, <3>6, StatusAfter
  <2>5. \A t \in tickets : old[Ref(t)] = t.status
    BY <1>1, StatusOfRows
  <2>6. \A x \in Places : (\A t \in tickets : Ref(t) # x) => old[x] = "absent"
    BY <1>1, StatusOfRows
  <2>7. /\ LedgerStatus(MaxSeatsPerList) = old /\ LedgerStatus(MaxSeatsPerList)' = new
        /\ LedgerRows(MaxSeatsPerList) = Places
    BY MappedState
  <2> DEFINE P == {x \in Places : old[x] = "pending_payment"}
  <2>8. Ledger!Pending = P
    BY <2>7 DEF Ledger!Pending
  <2>9. \A x \in P : \E t \in tickets : Ref(t) = x /\ t.status = "pending_payment"
    BY <2>5, <2>6
  <2>10. CASE to = "confirmed" /\ S # {}
              /\ \E r \in Reservations : S = {Ref(t) : t \in PendingOf(r)}
    <3>1. PICK r \in Reservations : S = {Ref(t) : t \in PendingOf(r)}
      BY <2>10
    <3>2. S = {x \in P : x.rid = r}
      <4>1. ASSUME NEW t \in tickets PROVE Ref(t).rid = t.rid /\ Ref(t) \in Places
        BY <1>1 DEF Ref
      <4>2. ASSUME NEW x \in S PROVE x \in P /\ x.rid = r
        <5>1. PICK t \in tickets : x = Ref(t) /\ t.rid = r /\ t.status = "pending_payment"
          BY <3>1 DEF PendingOf
        <5> QED BY <2>5, <4>1, <5>1
      <4>3. ASSUME NEW x \in P, x.rid = r PROVE x \in S
        <5>1. PICK t \in tickets : Ref(t) = x /\ t.status = "pending_payment"
          BY <2>9
        <5> QED BY <3>1, <4>1, <4>3, <5>1 DEF PendingOf
      <4> QED BY <4>2, <4>3
    <3>3. PICK y \in P : y.rid = r
      BY <2>10, <3>2
    <3> HIDE DEF S, to, P, old, new
    <3>4. Ledger!ConfirmAll(y.rid)
      BY <2>4, <2>7, <2>8, <2>10, <3>2, <3>3 DEF Ledger!ConfirmAll, Ledger!Set
    <3> QED BY <2>8, <3>3, <3>4
  <2>11. CASE to = "released" /\ \A x \in S : \E t \in tickets :
                                   Ref(t) = x /\ t.status = "pending_payment"
    <3>1. S \in SUBSET P
      BY <1>1, <2>5, <2>11
    <3> HIDE DEF S, to, P, old, new
    <3> QED BY <2>4, <2>7, <2>8, <2>11, <3>1 DEF Ledger!Release, Ledger!Set
  <2> QED BY <2>1, <2>10, <2>11 DEF SerialIInv, ReadsAreCurrent
<1> QED BY <1>4, <1>5, <1>6, <1>7, WhoChangesRows DEF Ledger!LedgerNext

\* Lines 61-70 and 223-230: calls that do not overlap keep the promise of
\* TicketLedger for any seats, reservations, times, crashes and number of calls:
\* a row appears once, as pending, with rows of its reservation only; it is
\* confirmed together with all pending rows of its reservation or released; and
\* what is confirmed or released stays so.
THEOREM SerialCallsKeepTheLedger ==
  ASSUME OneCall, ListsFit
  PROVE  Spec => Ledger!LedgerSafety
<1>1. Init => Ledger!LedgerInit
  BY DEF Init, Ledger!LedgerInit, LedgerStatus
<1>2. /\ SerialIInv(MaxSeatsPerList) /\ SerialIInv(MaxSeatsPerList)' /\ [Next]_vars
      => [Ledger!LedgerNext]_(LedgerStatus(MaxSeatsPerList))
  BY LedgerStep
<1>3. Spec => []SerialIInv(MaxSeatsPerList)
  BY SerialInductive
<1> QED BY <1>1, <1>2, <1>3, PTL DEF Spec, Ledger!LedgerSafety

-----------------------------------------------------------------------------
(* The safety part of the liveness properties                              *)

\* The steps a running call has left, at most.
Left(c) ==
  CASE c.pc = "idle" -> 0
    [] c.pc \in {"locking", "checking"} -> Len(c.list) - c.n + 2
    [] c.pc \in {"unlocking", "inserting", "committing"} -> 1
    [] c.pc = "releasing" -> 2
    [] c.pc = "flushing" -> 3

\* What EverySessionReturns needs besides fairness: each step of a call uses up
\* one of a bounded number, whatever keys and rows it meets, and nothing
\* another session does gives any of them back.
CallsRunOut ==
  [][\A p \in Sessions : session[p] # Idle =>
       /\ Left(session'[p]) \in 0 .. Left(session[p])
       /\ Continue(p) => Left(session'[p]) # Left(session[p])]_vars

\* Left, pc by pc.
LEMMA LeftValues ==
  ASSUME NEW c
  PROVE  /\ c.pc = "idle" => Left(c) = 0
         /\ c.pc \in {"locking", "checking"} => Left(c) = Len(c.list) - c.n + 2
         /\ c.pc \in {"unlocking", "inserting", "committing"} => Left(c) = 1
         /\ c.pc = "releasing" => Left(c) = 2
         /\ c.pc = "flushing" => Left(c) = 3
BY DEF Left

\* lock_seats and the checkout have a seat left to look at.
InList ==
  \A p \in Sessions : session[p].pc \in {"locking", "checking"} =>
    session[p].n < Len(session[p].list)

LEMMA LengthOfLists ==
  ASSUME NEW l \in SeatLists
  PROVE  Len(l) \in Nat \ {0}
BY SeatListAssumption

\* A call that goes on has fewer steps left, and stays in its list.
LEMMA ContinueUsesAStep ==
  ASSUME TypeOK, InList, NEW p \in Sessions, Continue(p)
  PROVE  /\ Left(session[p]) \in Nat
         /\ Left(session'[p]) \in 0 .. Left(session[p])
         /\ Left(session'[p]) # Left(session[p])
         /\ session'[p].pc \in {"locking", "checking"} =>
              session'[p].n < Len(session'[p].list)
<1> USE LeftValues DEF TypeOK, Idle
<1>1. CASE AcquireSeat(p)
  <2>1. session[p] \in LockCall /\ session[p].pc = "locking"
    BY <1>1, SessionKinds DEF AcquireSeat
  <2>2. Len(session[p].list) \in Nat /\ session[p].n \in Nat
    BY <2>1, LengthOfLists DEF LockCall
  <2>3. CASE session[p].n + 1 = Len(session[p].list)
    BY <1>1, <2>1, <2>2, <2>3 DEF AcquireSeat
  <2>4. CASE session[p].n + 1 # Len(session[p].list)
    <3>1. session'[p] = [session[p] EXCEPT !.n = session[p].n + 1]
      BY <1>1, <2>4 DEF AcquireSeat
    <3>2. /\ session'[p].pc = "locking" /\ session'[p].list = session[p].list
          /\ session'[p].n = session[p].n + 1
      BY <2>1, <3>1 DEF LockCall
    <3>3. session[p].n < Len(session[p].list)
      BY <2>1 DEF InList
    <3>4. /\ Left(session[p]) = Len(session[p].list) - session[p].n + 2
          /\ Left(session'[p]) = Len(session[p].list) - (session[p].n + 1) + 2
      BY <2>1, <3>2
    <3> HIDE DEF TypeOK
    <3> QED BY <2>2, <2>4, <3>2, <3>3, <3>4
  <2> QED BY <2>3, <2>4
<1>2. CASE SeatTaken(p)
  <2>1. session[p] \in LockCall /\ session[p].pc = "locking"
    BY <1>2, SessionKinds DEF SeatTaken
  <2>2. Len(session[p].list) \in Nat /\ session[p].n \in Nat
    BY <2>1, LengthOfLists DEF LockCall
  <2>3. session'[p].pc \in {"idle", "unlocking"}
    BY <1>2, <2>1 DEF SeatTaken, LockCall
  <2> QED BY <2>1, <2>2, <2>3 DEF InList
<1>3. CASE CheckSeat(p)
  <2>1. session[p] \in CheckCall /\ session[p].pc = "checking"
    BY <1>3, SessionKinds DEF CheckSeat
  <2>2. Len(session[p].list) \in Nat /\ session[p].n \in Nat
    BY <2>1, LengthOfLists DEF CheckCall
  <2>3. CASE session[p].n + 1 = Len(session[p].list)
    <3>1. session'[p].pc = "inserting"
      BY <1>3, <2>3 DEF CheckSeat
    <3> QED BY <2>1, <2>2, <2>3, <3>1
  <2>4. CASE session[p].n + 1 # Len(session[p].list)
    <3>1. session'[p] = [session[p] EXCEPT !.n = session[p].n + 1]
      BY <1>3, <2>4 DEF CheckSeat
    <3>2. /\ session'[p].pc = "checking" /\ session'[p].list = session[p].list
          /\ session'[p].n = session[p].n + 1
      BY <2>1, <3>1 DEF CheckCall
    <3>3. session[p].n < Len(session[p].list)
      BY <2>1 DEF InList
    <3>4. /\ Left(session[p]) = Len(session[p].list) - session[p].n + 2
          /\ Left(session'[p]) = Len(session[p].list) - (session[p].n + 1) + 2
      BY <2>1, <3>2
    <3> HIDE DEF TypeOK
    <3> QED BY <2>2, <2>4, <3>2, <3>3, <3>4
  <2> QED BY <2>3, <2>4
<1>4. CASE CheckFails(p)
  <2>1. session[p] \in CheckCall /\ session[p].pc = "checking"
    BY <1>4, SessionKinds DEF CheckFails
  <2>2. Len(session[p].list) \in Nat /\ session[p].n \in Nat
    BY <2>1, LengthOfLists DEF CheckCall
  <2> QED BY <1>4, <2>1, <2>2 DEF CheckFails, InList
<1>5. CASE RollBack(p) \/ InsertRows(p) \/ Commit(p)
  <2>1. session'[p].pc = "idle"
    BY <1>5 DEF RollBack, InsertRows, Commit
  <2>2. session[p].pc \in {"unlocking", "inserting", "committing"}
    BY <1>5 DEF RollBack, InsertRows, Commit
  <2> QED BY <2>1, <2>2
<1>6. CASE Flush(p)
  <2>1. session[p].pc = "flushing" /\ session'[p].pc = "releasing"
    BY <1>6, SessionKinds DEF Flush, SettleCall
  <2> QED BY <2>1
<1>7. CASE ReleaseLocks(p)
  <2>1. session[p].pc = "releasing" /\ session'[p].pc = "committing"
    BY <1>7, SessionKinds DEF ReleaseLocks, SettleCall
  <2> QED BY <2>1
<1> QED BY <1>1, <1>2, <1>3, <1>4, <1>5, <1>6, <1>7 DEF Continue

\* A step that leaves a call where it is, or ends it, leaves it no more steps.
LEMMA StepsLeft ==
  ASSUME TypeOK, InList, NEW p \in Sessions
  PROVE  Left(session[p]) \in Nat
<1>1. CASE session[p].pc \in {"locking", "checking"}
  <2>1. Len(session[p].list) \in Nat /\ session[p].n \in Nat
    BY <1>1, SessionKinds, LengthOfLists DEF LockCall, CheckCall
  <2> QED BY <1>1, <2>1, LeftValues DEF InList
<1>2. CASE session[p].pc \notin {"locking", "checking"}
  <2>1. session[p].pc \in {"idle", "unlocking", "inserting", "committing",
                           "releasing", "flushing"}
    BY <1>2 DEF TypeOK, Idle, LockCall, CheckCall, InsertCall, SettleCall
  <2> QED BY <2>1, LeftValues
<1> QED BY <1>1, <1>2

\* Time ages the rows a checkout is about to insert, and moves no call.
LEMMA TickMovesNobody ==
  ASSUME TypeOK, Tick, NEW p \in Sessions
  PROVE  \/ session'[p] = session[p]
         \/ session[p].pc = "inserting" /\ session'[p].pc = "inserting"
BY SessionKinds DEF TypeOK, Tick, InsertCall

LEMMA InListStep == TypeOK /\ InList /\ [Next]_vars => InList'
<1> SUFFICES ASSUME TypeOK, InList, [Next]_vars, NEW p \in Sessions,
                    session'[p].pc \in {"locking", "checking"}
             PROVE  session'[p].n < Len(session'[p].list)
  BY DEF InList
<1>1. CASE Continue(p)
  BY <1>1, ContinueUsesAStep
<1>2. CASE session'[p] = session[p]
  BY <1>2 DEF InList
<1>3. CASE LockSeats(p) \/ Checkout(p)
  <2>1. session'[p].n = 0 /\ session'[p].list \in SeatLists
    BY <1>3 DEF TypeOK, LockSeats, Checkout
  <2> QED BY <2>1, LengthOfLists
<1>4. CASE Confirm(p) \/ Cleanup(p) \/ Crash(p)
  BY <1>4 DEF TypeOK, Confirm, Cleanup, StartSettling, Crash, Idle
<1>5. CASE Tick
  BY <1>2, <1>5, TickMovesNobody
<1>6. CASE UNCHANGED vars
  BY <1>2, <1>6 DEF vars
<1> QED BY <1>1, <1>2, <1>3, <1>4, <1>5, <1>6, OthersStay DEF Next

\* Lines 84-260: no call of the allocator goes on for ever. It makes at most as
\* many steps as Left says, in any interleaving.
THEOREM NoCallGoesOnForEver == Spec => CallsRunOut
<1>1. Init => InList
  BY DEF Init, InList, Idle
<1>2. ASSUME TypeOK, InList, Next, NEW p \in Sessions, session[p] # Idle
      PROVE  /\ Left(session'[p]) \in 0 .. Left(session[p])
             /\ Continue(p) => Left(session'[p]) # Left(session[p])
  <2>1. Left(session[p]) \in Nat
    BY <1>2, StepsLeft
  <2>2. CASE Continue(p)
    BY <1>2, <2>2, ContinueUsesAStep
  <2>3. CASE Left(session'[p]) = Left(session[p]) /\ ~Continue(p)
    BY <2>1, <2>3
  <2>4. ASSUME session'[p] = session[p] PROVE Left(session'[p]) = Left(session[p])
    BY <2>4
  <2>5. CASE Crash(p)
    <3>1. session'[p].pc = "idle"
      BY <1>2, <2>5 DEF TypeOK, Crash, Idle
    <3> QED BY <2>1, <2>2, <3>1, LeftValues
  <2>6. CASE Tick
    <3>1. CASE session[p].pc = "inserting" /\ session'[p].pc = "inserting"
      <4>1. Left(session'[p]) = Left(session[p])
        BY <3>1, LeftValues
      <4> QED BY <2>2, <2>3, <4>1
    <3> QED BY <1>2, <2>2, <2>3, <2>4, <2>6, <3>1, TickMovesNobody
  <2>7. ~(LockSeats(p) \/ Checkout(p) \/ Confirm(p) \/ Cleanup(p))
    BY <1>2 DEF LockSeats, Checkout, Confirm, Cleanup, StartSettling
  <2> QED BY <1>2, <2>2, <2>3, <2>4, <2>5, <2>6, <2>7, OthersStay DEF Next
<1>3. TypeOK /\ InList /\ [Next]_vars
        => [\A p \in Sessions : session[p] # Idle =>
              /\ Left(session'[p]) \in 0 .. Left(session[p])
              /\ Continue(p) => Left(session'[p]) # Left(session[p])]_vars
  BY <1>2
<1> QED BY <1>1, <1>3, InListStep, TypeCorrect, PTL DEF Spec, CallsRunOut

\* What EveryPendingTicketSettles needs besides fairness: rows only grow older,
\* and one that was confirmed or released is never pending again.
RowsNeverReopen ==
  [][\A t \in tickets : \E u \in tickets' :
       /\ Ref(u) = Ref(t) /\ u.age >= t.age
       /\ u.status = "pending_payment" => t.status = "pending_payment"]_vars

\* Lines 189-212 and 232-260: whatever confirmations and cleanups overlap, a row
\* a customer was told about does not fall back to pending, nor vanish.
THEOREM SettledRowsStaySettled == Spec => RowsNeverReopen
<1>1. ASSUME TypeOK, [Next]_vars, NEW t \in tickets
      PROVE  \E u \in tickets' :
               /\ Ref(u) = Ref(t) /\ u.age >= t.age
               /\ u.status = "pending_payment" => t.status = "pending_payment"
  <2> USE DEF TypeOK, Ticket, Ref
  <2>1. t \in Ticket /\ t.age \in Ages
    BY <1>1
  <2>2. t.age >= t.age
    BY <2>1, OlderAge
  <2>3. CASE Tick
    <3> DEFINE u == [t EXCEPT !.age = Older(t.age)]
    <3>1. u \in tickets'
      BY <2>3 DEF Tick
    <3>2. Ref(u) = Ref(t) /\ u.status = t.status /\ u.age = Older(t.age)
      BY <2>1
    <3> QED BY <2>1, <3>1, <3>2, OlderAge
  <2>4. ASSUME NEW p \in Sessions, Commit(p)
        PROVE  \E u \in tickets' :
                 /\ Ref(u) = Ref(t) /\ u.age >= t.age
                 /\ u.status = "pending_payment" => t.status = "pending_payment"
    <3>1. session[p].to \in {"confirmed", "released"}
      BY <1>1, <2>4, SessionKinds DEF Commit, SettleCall
    <3> DEFINE u == IF Ref(t) \in session[p].rows
                      THEN [t EXCEPT !.status = session[p].to] ELSE t
    <3>2. u \in tickets'
      BY <2>4 DEF Commit
    <3>3. Ref(u) = Ref(t) /\ u.age = t.age /\ u.status \in {t.status, session[p].to}
      BY <2>1
    <3> QED BY <2>1, <2>2, <3>1, <3>2, <3>3
  <2>5. CASE tickets \subseteq tickets'
    BY <2>1, <2>2, <2>5
  <2>6. tickets \subseteq tickets' \/ Tick \/ \E p \in Sessions : Commit(p)
    BY <1>1, WhoChangesRows DEF InsertRows
  <2> QED BY <2>3, <2>4, <2>5, <2>6
<1>2. TypeOK /\ [Next]_vars
        => [\A t \in tickets : \E u \in tickets' :
              /\ Ref(u) = Ref(t) /\ u.age >= t.age
              /\ u.status = "pending_payment" => t.status = "pending_payment"]_vars
  BY <1>1
<1> QED BY <1>2, TypeCorrect, PTL DEF Spec, RowsNeverReopen

=============================================================================
