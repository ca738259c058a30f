------------------------ MODULE EventScheduleProofs -------------------------
(***************************************************************************)
(* Proofs about EventSchedule, for any events, venues, capacities, slots   *)
(* and buffer, and for any number of concurrent requests.                  *)
(***************************************************************************)
EXTENDS EventSchedule, TLAPS

States == {Idle} \cup Creating \cup Updating

\* What the program counter says of the record it is part of.
LEMMA ShapeOfStates ==
  ASSUME NEW s \in States
  PROVE  /\ s.pc = "creating" => s \in Creating
         /\ s.pc \in {"loaded", "writing"} => s \in Updating
         /\ s # Idle => s.pc \in {"creating", "loaded", "writing"}
BY DEF States, Idle, Creating, Updating

LEMMA RowsAreNotNone == NoRow \notin Row
BY DEF NoRow, Row

\* A booking is a function on the fields.
LEMMA BookingOfFields ==
  ASSUME NEW b \in Booking, NEW c \in Booking, NEW S \in SUBSET Fields
  PROVE  [x \in Fields |-> IF x \in S THEN b[x] ELSE c[x]] \in Booking
<1> DEFINE d == [x \in Fields |-> IF x \in S THEN b[x] ELSE c[x]]
<1>1. d = [venue |-> d.venue, start |-> d.start, end |-> d.end, capacity |-> d.capacity]
  BY DEF Fields
<1>2. /\ d.venue \in Venues /\ d.start \in Slots /\ d.end \in Slots
      /\ d.capacity \in Capacities
  BY DEF Fields, Booking
<1> HIDE DEF d
<1>3. d \in Booking
  BY <1>1, <1>2 DEF Booking
<1> QED BY <1>3 DEF d

-----------------------------------------------------------------------------
(* Type correctness                                                        *)

LEMMA TypeInit == Init => TypeOK
BY BoundAssumption DEF Init, TypeOK

\* The history and the number of updates.
LEMMA HistoryType ==
  ASSUME TypeOK, [Next]_vars
  PROVE  missed' \in [Sessions -> SUBSET Events] /\ updates' \in 0 .. MaxUpdates
<1>1. ASSUME NEW p \in Sessions, NEW e \in Events, Wrote(p, e)
      PROVE  missed' \in [Sessions -> SUBSET Events]
  BY <1>1 DEF Wrote, TypeOK
<1>2. CASE UNCHANGED vars
  BY <1>2 DEF vars, TypeOK
<1>3. ASSUME NEW p \in Sessions, CreateInserts(p) \/ UpdateWrites(p)
      PROVE  missed' \in [Sessions -> SUBSET Events] /\ updates' \in 0 .. MaxUpdates
  <2>1. UpdateWrites(p) => session[p].event \in Events
    BY ShapeOfStates DEF UpdateWrites, TypeOK, States, Updating
  <2> QED BY <1>1, <1>3, <2>1 DEF CreateInserts, UpdateWrites, TypeOK
<1>4. ASSUME NEW p \in Sessions, CreateChecks(p) \/ RollBack(p) \/ UpdateChecks(p)
      PROVE  missed' \in [Sessions -> SUBSET Events] /\ updates' \in 0 .. MaxUpdates
  BY <1>4 DEF CreateChecks, RollBack, UpdateChecks, TypeOK
<1>5. ASSUME NEW p \in Sessions, UpdateLoads(p)
      PROVE  missed' \in [Sessions -> SUBSET Events] /\ updates' \in 0 .. MaxUpdates
  BY <1>5, BoundAssumption DEF UpdateLoads, TypeOK
<1>6. ASSUME NEW e \in Events, Cancel(e)
      PROVE  missed' \in [Sessions -> SUBSET Events] /\ updates' \in 0 .. MaxUpdates
  BY <1>6 DEF Cancel, TypeOK
<1> QED BY <1>2, <1>3, <1>4, <1>5, <1>6 DEF Next

\* What UpdateWrites makes of the row of its event.
Written(s) == [events[s.event] EXCEPT !.book =
                 [x \in Fields |-> IF x \in s.dirty THEN s.want[x]
                                   ELSE events[s.event].book[x]]]

LEMMA WriteOfRow ==
  ASSUME TypeOK, NEW p \in Sessions, UpdateWrites(p), Exists(session[p].event)
  PROVE  /\ session[p] \in Updating
         /\ events[session[p].event] \in Row
         /\ Written(session[p]) \in Row
         /\ Written(session[p]).status = events[session[p].event].status
         /\ events' = [events EXCEPT ![session[p].event] = Written(session[p])]
         /\ session' = [session EXCEPT ![p] = Idle]
<1> DEFINE s == session[p]
<1>1. s \in Updating
  BY ShapeOfStates DEF UpdateWrites, TypeOK, States
<1>2. events[s.event] \in Row
  BY <1>1 DEF TypeOK, Exists, Updating
<1>3. /\ s.want \in Booking /\ events[s.event].book \in Booking
      /\ s.dirty \in SUBSET Fields
  BY <1>1, <1>2 DEF Updating, Row
<1>4. [x \in Fields |-> IF x \in s.dirty THEN s.want[x]
                        ELSE events[s.event].book[x]] \in Booking
  BY <1>3, BookingOfFields
<1>5. Written(s) \in Row /\ Written(s).status = events[s.event].status
  BY <1>2, <1>4 DEF Written, Row
<1>6. /\ events' = [events EXCEPT ![s.event] = Written(s)]
      /\ session' = [session EXCEPT ![p] = Idle]
  BY DEF UpdateWrites, Written
<1> QED BY <1>1, <1>2, <1>5, <1>6

\* The event of a request that loaded one exists: rows are never removed.
LoadedExist ==
  \A p \in Sessions :
    session[p].pc \in {"loaded", "writing"} => Exists(session[p].event)

Typed == TypeOK /\ LoadedExist

LEMMA TypedNext == Typed /\ [Next]_vars => Typed'
<1> SUFFICES ASSUME Typed, [Next]_vars PROVE Typed'
  OBVIOUS
<1> USE DEF Typed
<1>1. \A p \in Sessions : session[p] \in States
  BY DEF TypeOK, States
<1>0. missed' \in [Sessions -> SUBSET Events] /\ updates' \in 0 .. MaxUpdates
  BY HistoryType
<1>2. ASSUME NEW p \in Sessions, CreateChecks(p) PROVE Typed'
  <2>1. PICK b \in Booking :
          session' = [session EXCEPT ![p] = [pc |-> "creating", want |-> b]]
    BY <1>2 DEF CreateChecks
  <2>2. [pc |-> "creating", want |-> b] \in Creating
    BY DEF Creating
  <2>3. TypeOK'
    BY <1>0, <1>2, <2>1, <2>2 DEF CreateChecks, TypeOK
  <2>4. LoadedExist'
    BY <1>2, <2>1 DEF CreateChecks, TypeOK, LoadedExist, Exists
  <2> QED BY <2>3, <2>4
<1>3. ASSUME NEW p \in Sessions, CreateInserts(p) PROVE Typed'
  <2>1. session[p].want \in Booking
    BY <1>1, <1>3, ShapeOfStates DEF CreateInserts, Creating
  <2>2. PICK e \in Events :
          events' = [events EXCEPT
                       ![e] = [status |-> "draft", book |-> session[p].want]]
    BY <1>3 DEF CreateInserts
  <2>3. [status |-> "draft", book |-> session[p].want] \in Row
    BY <2>1 DEF Row
  <2>4. TypeOK'
    BY <1>0, <1>3, <2>2, <2>3 DEF CreateInserts, TypeOK
  <2>5. \A f \in Events : Exists(f) => Exists(f)'
    BY <2>2, <2>3, RowsAreNotNone DEF Exists, TypeOK
  <2>6. LoadedExist'
    <3>1. ASSUME NEW q \in Sessions, session'[q].pc \in {"loaded", "writing"}
          PROVE  session'[q] = session[q] /\ session[q] \in Updating
      BY <1>1, <1>3, <3>1, ShapeOfStates DEF CreateInserts, TypeOK, Idle
    <3> QED BY <2>5, <3>1 DEF LoadedExist, Updating
  <2> QED BY <2>4, <2>6
<1>4. ASSUME NEW p \in Sessions, RollBack(p) PROVE Typed'
  <2>1. TypeOK'
    BY <1>0, <1>4 DEF RollBack, TypeOK
  <2>2. LoadedExist'
    BY <1>4 DEF RollBack, TypeOK, LoadedExist, Exists, Idle
  <2> QED BY <2>1, <2>2
<1>5. ASSUME NEW p \in Sessions, UpdateLoads(p) PROVE Typed'
  <2>1. PICK e \in Events, f \in Changes, b \in Booking :
          /\ Exists(e)
          /\ session' = [session EXCEPT
               ![p] = [pc |-> "loaded", event |-> e, set |-> f, want |-> b,
                       dirty |-> {x \in f : b[x] # events[e].book[x]}]]
    BY <1>5 DEF UpdateLoads
  <2>2. [pc |-> "loaded", event |-> e, set |-> f, want |-> b,
         dirty |-> {x \in f : b[x] # events[e].book[x]}] \in Updating
    BY ChangeAssumption DEF Updating
  <2>3. TypeOK'
    BY <1>0, <1>5, <2>1, <2>2 DEF UpdateLoads, TypeOK
  <2>4. LoadedExist'
    BY <1>5, <2>1 DEF UpdateLoads, TypeOK, LoadedExist, Exists
  <2> QED BY <2>3, <2>4
<1>6. ASSUME NEW p \in Sessions, UpdateChecks(p) PROVE Typed'
  <2>1. session[p] \in Updating
    BY <1>1, <1>6, ShapeOfStates DEF UpdateChecks
  <2>2. /\ [session[p] EXCEPT !.pc = "writing"] \in Updating
        /\ [session[p] EXCEPT !.pc = "writing"].event = session[p].event
    BY <2>1 DEF Updating
  <2>3. \/ session' = [session EXCEPT ![p] = Idle]
        \/ session' = [session EXCEPT ![p] = [session[p] EXCEPT !.pc = "writing"]]
    BY <1>6 DEF UpdateChecks
  <2>6. UNCHANGED events /\ session[p].pc = "loaded"
    BY <1>6 DEF UpdateChecks
  <2>4. TypeOK'
    BY <1>0, <1>6, <2>2, <2>3 DEF UpdateChecks, TypeOK
  <2>5. LoadedExist'
    <3>1. PICK t : session' = [session EXCEPT ![p] = t] /\ (t = Idle \/ t.event = session[p].event)
      BY <2>2, <2>3
    <3>2. ASSUME NEW q \in Sessions, session'[q].pc \in {"loaded", "writing"}
          PROVE  events'[session'[q].event] # NoRow
      <4>1. CASE q = p
        <5>1. session'[q] = t /\ t.event = session[p].event
          BY <3>1, <3>2, <4>1 DEF TypeOK, Idle
        <5>2. Exists(session[p].event)
          BY <2>6 DEF LoadedExist
        <5> QED BY <2>6, <5>1, <5>2 DEF Exists
      <4>2. CASE q # p
        <5>1. session'[q] = session[q]
          BY <3>1, <4>2 DEF TypeOK
        <5> QED BY <2>6, <3>2, <5>1 DEF LoadedExist, Exists
      <4> QED BY <4>1, <4>2
    <3> QED BY <3>2 DEF LoadedExist, Exists
  <2> QED BY <2>4, <2>5
<1>7. ASSUME NEW p \in Sessions, UpdateWrites(p) PROVE Typed'
  <2>1. Exists(session[p].event)
    BY <1>7 DEF UpdateWrites, LoadedExist
  <2>2. TypeOK'
    BY <1>0, <1>7, <2>1, WriteOfRow DEF TypeOK
  <2>3. \A f \in Events : Exists(f) => Exists(f)'
    BY <1>7, <2>1, WriteOfRow, RowsAreNotNone DEF Exists, TypeOK
  <2>4. LoadedExist'
    <3>1. ASSUME NEW q \in Sessions, session'[q].pc \in {"loaded", "writing"}
          PROVE  session'[q] = session[q] /\ session[q] \in Updating
      BY <1>1, <1>7, <3>1, ShapeOfStates DEF UpdateWrites, TypeOK, Idle
    <3> QED BY <2>3, <3>1 DEF LoadedExist, Updating
  <2> QED BY <2>2, <2>4
<1>8. ASSUME NEW e \in Events, Cancel(e) PROVE Typed'
  <2>1. [events[e] EXCEPT !.status = "cancelled"] \in Row
    BY <1>8 DEF Cancel, Live, Exists, TypeOK, Row
  <2>2. events' = [events EXCEPT ![e] = [events[e] EXCEPT !.status = "cancelled"]]
    BY <1>8 DEF Cancel
  <2>3. TypeOK'
    BY <1>0, <1>8, <2>1, <2>2 DEF Cancel, TypeOK
  <2>4. \A f \in Events : Exists(f) => Exists(f)'
    BY <2>1, <2>2, RowsAreNotNone DEF Exists, TypeOK
  <2>5. LoadedExist'
    <3>1. ASSUME NEW q \in Sessions, session[q].pc \in {"loaded", "writing"}
          PROVE  session[q] \in Updating
      BY <1>1, <3>1, ShapeOfStates
    <3> QED BY <1>8, <2>4, <3>1 DEF Cancel, LoadedExist, Updating
  <2> QED BY <2>3, <2>5
<1>9. CASE UNCHANGED vars
  BY <1>9 DEF vars, TypeOK, LoadedExist, Exists
<1> QED BY <1>2, <1>3, <1>4, <1>5, <1>6, <1>7, <1>8, <1>9 DEF Next

LEMMA TypedInit == Init => Typed
BY TypeInit DEF Init, Typed, LoadedExist, Idle

\* The rows and the running requests always have their types.
THEOREM TypeCorrect == Spec => []TypeOK
<1>1. Spec => []Typed
  BY TypedInit, TypedNext, PTL DEF Spec
<1>2. Typed => TypeOK
  BY DEF Typed
<1> QED BY <1>1, <1>2, PTL

-----------------------------------------------------------------------------
(* Capacities                                                              *)

LEMMA CapacityInit == Init => CapacityInv
BY DEF Init, CapacityInv, Exists, Settled, Idle

LEMMA CapacityNext == Typed /\ CapacityInv /\ [Next]_vars => CapacityInv'
<1> SUFFICES ASSUME Typed, CapacityInv, [Next]_vars PROVE CapacityInv'
  OBVIOUS
<1> USE DEF Typed
<1> DEFINE Rows     == \A e \in Events : Exists(e) => Fits(events[e].book.capacity)
           Requests == \A p \in Sessions :
                         Settled(session[p]) => Fits(session[p].want.capacity)
<1>1. Rows /\ Requests
  BY DEF CapacityInv
<1>2. \A p \in Sessions : session[p] \in States
  BY DEF TypeOK, States
<1>3. \A b \in Booking : ValidCapacity(b) => Fits(b.capacity)
  BY DEF Booking, ValidCapacity, Fits
<1>4. ASSUME NEW p \in Sessions, CreateChecks(p) PROVE CapacityInv'
  <2>1. PICK b \in Booking :
          /\ ValidCapacity(b)
          /\ session' = [session EXCEPT ![p] = [pc |-> "creating", want |-> b]]
    BY <1>4 DEF CreateChecks
  <2>2. Fits(b.capacity)
    BY <1>3, <2>1
  <2>3. Requests'
    BY <1>1, <2>1, <2>2 DEF TypeOK, Fits, Settled
  <2>4. Rows'
    BY <1>1, <1>4 DEF CreateChecks, Exists, Fits
  <2> QED BY <2>3, <2>4 DEF CapacityInv
<1>5. ASSUME NEW p \in Sessions, session' = [session EXCEPT ![p] = Idle]
      PROVE  Requests'
  BY <1>1, <1>5 DEF TypeOK, Fits, Settled, Idle
<1>6. ASSUME NEW p \in Sessions, CreateInserts(p) PROVE CapacityInv'
  <2>1. PICK e \in Events :
          events' = [events EXCEPT
                       ![e] = [status |-> "draft", book |-> session[p].want]]
    BY <1>6 DEF CreateInserts
  <2>2. Fits(session[p].want.capacity)
    BY <1>1, <1>6 DEF CreateInserts, Settled
  <2>3. Rows'
    BY <1>1, <2>1, <2>2 DEF TypeOK, Exists, Fits
  <2>4. Requests'
    BY <1>5, <1>6 DEF CreateInserts
  <2> QED BY <2>3, <2>4 DEF CapacityInv
<1>7. ASSUME NEW p \in Sessions, RollBack(p) PROVE CapacityInv'
  <2>1. Rows' /\ Requests'
    BY <1>1, <1>5, <1>7 DEF RollBack, Exists, Fits
  <2> QED BY <2>1 DEF CapacityInv
<1>8. ASSUME NEW p \in Sessions, UpdateLoads(p) PROVE CapacityInv'
  <2>1. PICK e \in Events, f \in Changes, b \in Booking :
          /\ Exists(e)
          /\ \A x \in Fields \ f : b[x] = events[e].book[x]
          /\ session' = [session EXCEPT
               ![p] = [pc |-> "loaded", event |-> e, set |-> f, want |-> b,
                       dirty |-> {x \in f : b[x] # events[e].book[x]}]]
    BY <1>8 DEF UpdateLoads
  <2>2. "capacity" \notin f => Fits(b.capacity)
    <3>1. "capacity" \notin f => b.capacity = events[e].book.capacity
      BY <2>1 DEF Fields
    <3> QED BY <1>1, <2>1, <3>1
  <2>3. Requests'
    BY <1>1, <2>1, <2>2 DEF TypeOK, Fits, Settled
  <2>4. Rows'
    BY <1>1, <1>8 DEF UpdateLoads, Exists, Fits
  <2> QED BY <2>3, <2>4 DEF CapacityInv
<1>9. ASSUME NEW p \in Sessions, UpdateChecks(p) PROVE CapacityInv'
  <2> DEFINE s == session[p]
             t == [session[p] EXCEPT !.pc = "writing"]
  <2>1. s \in Updating /\ s.pc = "loaded"
    BY <1>2, <1>9, ShapeOfStates DEF UpdateChecks
  <2>2. s.want \in Booking /\ t.want = s.want
    BY <2>1 DEF Updating
  <2>3. ASSUME UpdatePasses(p) PROVE Fits(s.want.capacity)
    <3>1. CASE "capacity" \notin s.set
      BY <1>1, <2>1, <3>1 DEF Settled
    <3>2. CASE "capacity" \in s.set /\ s.want.capacity # 0
      BY <1>3, <2>2, <2>3, <3>2 DEF UpdatePasses
    <3>3. CASE s.want.capacity = 0
      <4>1. s.want.venue \in Venues /\ MaxCapacity[s.want.venue] \in Nat
        BY <2>2, CapacityAssumption DEF Booking
      <4> QED BY <3>3, <4>1 DEF Fits
    <3> QED BY <3>1, <3>2, <3>3
  <2>4. Rows'
    BY <1>1, <1>9 DEF UpdateChecks, Exists, Fits
  <2>5. CASE UpdatePasses(p)
    <3>1. session' = [session EXCEPT ![p] = t]
      BY <1>9, <2>5 DEF UpdateChecks
    <3>2. Fits(t.want.capacity)
      BY <2>2, <2>3, <2>5
    <3> HIDE DEF t
    <3>3. Requests'
      BY <1>1, <3>1, <3>2 DEF TypeOK, Fits, Settled
    <3> QED BY <2>4, <3>3 DEF CapacityInv
  <2>6. CASE ~UpdatePasses(p)
    <3>1. Requests'
      BY <1>5, <1>9, <2>6 DEF UpdateChecks
    <3> QED BY <2>4, <3>1 DEF CapacityInv
  <2> QED BY <2>5, <2>6
<1>10. ASSUME NEW p \in Sessions, UpdateWrites(p) PROVE CapacityInv'
  <2> DEFINE s == session[p]
  <2>1. Exists(s.event)
    BY <1>10 DEF UpdateWrites, LoadedExist
  <2>2. s \in Updating /\ events' = [events EXCEPT ![s.event] = Written(s)]
    BY <1>10, <2>1, WriteOfRow
  <2>3. Written(s).book.capacity \in {s.want.capacity, events[s.event].book.capacity}
    BY <1>10, <2>1, WriteOfRow DEF Written, Fields, Row
  <2>4. Fits(Written(s).book.capacity)
    BY <1>1, <1>10, <2>1, <2>2, <2>3 DEF UpdateWrites, Settled, Updating
  <2>5. Rows'
    BY <1>1, <2>2, <2>4 DEF TypeOK, Exists, Fits
  <2>6. Requests'
    BY <1>5, <1>10 DEF UpdateWrites
  <2> QED BY <2>5, <2>6 DEF CapacityInv
<1>11. ASSUME NEW e \in Events, Cancel(e) PROVE CapacityInv'
  <2>1. \A f \in Events : Exists(f)' => Exists(f) /\ events'[f].book = events[f].book
    BY <1>11 DEF Cancel, Live, Exists, TypeOK, Row
  <2>2. Rows'
    BY <1>1, <2>1 DEF Fits
  <2>3. Requests'
    BY <1>1, <1>11 DEF Cancel, Fits, Settled
  <2> QED BY <2>2, <2>3 DEF CapacityInv
<1>12. CASE UNCHANGED vars
  BY <1>12 DEF vars, CapacityInv, Exists, Fits, Settled
<1> QED BY <1>4, <1>6, <1>7, <1>8, <1>9, <1>10, <1>11, <1>12 DEF Next

\* Lines 69-74 and 164-166: for any concurrent creations and updates, no event has
\* a capacity that no venue could hold.
THEOREM CapacitiesWereChecked == Spec => []CapacityFitsSomewhere
<1>1. Init => Typed /\ CapacityInv
  BY TypedInit, CapacityInit
<1>2. (Typed /\ CapacityInv) /\ [Next]_vars => (Typed /\ CapacityInv)'
  BY TypedNext, CapacityNext
<1>3. CapacityInv => CapacityFitsSomewhere
  BY DEF CapacityInv, CapacityFitsSomewhere, Fits
<1> QED BY <1>1, <1>2, <1>3, PTL DEF Spec

-----------------------------------------------------------------------------
(* The search                                                              *)

LEMMA WiderGap ==
  ASSUME NEW a \in Booking, NEW b \in Booking, Overlap(a, b, 0)
  PROVE  Overlap(a, b, Buffer)
<1>1. /\ a.start \in Int /\ a.end \in Int /\ b.start \in Int /\ b.end \in Int
      /\ Buffer \in Nat
  BY SlotAssumption DEF Booking
<1> QED BY <1>1 DEF Overlap

\* venue_search.py:115-133: for any events and concurrent requests, the search
\* hides no venue that create_event would accept.
THEOREM SearchHidesNothing == Spec => []BookableIsListed
<1>1. ASSUME TypeOK PROVE BookableIsListed
  <2> SUFFICES ASSUME NEW b \in Booking, \A e \in Events : ~Conflicts(e, b),
                      NEW e \in Events, Live(e), events[e].book.venue = b.venue,
                      Overlap(events[e].book, [start |-> b.start, end |-> b.end], 0)
               PROVE  FALSE
    BY DEF BookableIsListed, IsAvailable
  <2>1. events[e].book \in Booking
    BY <1>1 DEF TypeOK, Live, Exists, Row
  <2>2. Overlap(events[e].book, b, 0)
    BY DEF Overlap
  <2> QED BY <2>1, <2>2, WiderGap DEF Conflicts
<1>2. TypeOK => BookableIsListed
  BY <1>1
<1> QED BY <1>2, TypeCorrect, PTL
-----------------------------------------------------------------------------
(* Dates and bookings                                                      *)

LEMMA OverlapSymmetric ==
  ASSUME NEW a \in Booking, NEW b \in Booking, Overlap(a, b, Buffer)
  PROVE  Overlap(b, a, Buffer)
<1>1. /\ a.start \in Int /\ a.end \in Int /\ b.start \in Int /\ b.end \in Int
      /\ Buffer \in Nat
  BY SlotAssumption DEF Booking
<1> QED BY <1>1 DEF Overlap

LEMMA IdleIsFine == \A m : StillLoaded(Idle, m)' /\ StillFree(Idle, m)'
BY DEF StillLoaded, StillFree, Idle

\* One request goes on and no row changes.
LEMMA RequestGoesOn ==
  ASSUME TypeOK, RequestInv, NEW p \in Sessions, NEW s, NEW m, UNCHANGED events,
         session' = [session EXCEPT ![p] = s], missed' = [missed EXCEPT ![p] = m],
         StillLoaded(s, m), StillFree(s, m)
  PROVE  RequestInv'
<1> SUFFICES ASSUME NEW q \in Sessions
             PROVE  StillLoaded(session[q], missed[q])' /\ StillFree(session[q], missed[q])'
  BY DEF RequestInv
<1>1. PICK t, n : t = session'[q] /\ n = missed'[q]
  OBVIOUS
<1>2. StillLoaded(t, n) /\ StillFree(t, n)
  BY <1>1 DEF TypeOK, RequestInv
<1> QED BY <1>1, <1>2 DEF StillLoaded, StillFree, Conflicts, Live, Exists

\* One request writes a row and ends: the others have missed it, and what they rely
\* on is about other rows.
LEMMA RowIsWritten ==
  ASSUME Typed, RequestInv, NEW p \in Sessions, NEW e \in Events, NEW row \in Row,
         events' = [events EXCEPT ![e] = row], Wrote(p, e),
         session' = [session EXCEPT ![p] = Idle]
  PROVE  RequestInv'
<1> SUFFICES ASSUME NEW q \in Sessions
             PROVE  StillLoaded(session[q], missed[q])' /\ StillFree(session[q], missed[q])'
  BY DEF RequestInv
<1>1. \A f \in Events \ {e} : events'[f] = events[f]
  BY DEF Typed, TypeOK
<1>2. CASE session'[q] = Idle
  BY <1>2, IdleIsFine DEF StillLoaded, StillFree, Idle
<1>3. CASE session'[q] # Idle
  <2>1. PICK s, n, m : s = session[q] /\ n = missed[q] /\ m = missed'[q]
    OBVIOUS
  <2>2. s = session'[q] /\ m = n \cup {e}
    BY <1>3, <2>1 DEF Wrote, Typed, TypeOK
  <2>3. s \in States /\ StillLoaded(s, n) /\ StillFree(s, n)
    BY <2>1 DEF Typed, TypeOK, States, RequestInv
  <2>4. s.pc \in {"loaded", "writing"} => s.event \in Events
    BY <2>3, ShapeOfStates DEF Updating
  <2>5. StillLoaded(s, m)'
    BY <1>1, <2>2, <2>3, <2>4 DEF StillLoaded
  <2>6. \A f \in Events \ {e} : Conflicts(f, s.want)' => Conflicts(f, s.want)
    BY <1>1 DEF Conflicts, Live, Exists
  <2>7. StillFree(s, m)'
    BY <2>2, <2>3, <2>6 DEF StillFree
  <2> QED BY <2>1, <2>2, <2>5, <2>7 DEF StillLoaded, StillFree, Conflicts, Live, Exists
<1> QED BY <1>2, <1>3

LEMMA RequestInit == Init => RequestInv
BY DEF Init, RequestInv, StillLoaded, StillFree, Idle

LEMMA RequestNext == Typed /\ RequestInv /\ [Next]_vars => RequestInv'
<1> SUFFICES ASSUME Typed, RequestInv, [Next]_vars PROVE RequestInv'
  OBVIOUS
<1>1. TypeOK /\ \A p \in Sessions : session[p] \in States
  BY DEF Typed, TypeOK, States
<1>2. \A m : StillLoaded(Idle, m) /\ StillFree(Idle, m)
  BY DEF StillLoaded, StillFree, Idle
<1>3. \A p \in Sessions : missed = [missed EXCEPT ![p] = missed[p]]
  BY <1>1 DEF TypeOK
<1>4. ASSUME NEW p \in Sessions, CreateChecks(p) PROVE RequestInv'
  <2>1. PICK b \in Booking :
          /\ ValidDates(b) /\ \A e \in Events : ~Conflicts(e, b)
          /\ session' = [session EXCEPT ![p] = [pc |-> "creating", want |-> b]]
    BY <1>4 DEF CreateChecks
  <2>2. PICK s, m : s = [pc |-> "creating", want |-> b] /\ m = missed[p]
    OBVIOUS
  <2>3. StillLoaded(s, m) /\ StillFree(s, m)
    BY <2>1, <2>2 DEF StillLoaded, StillFree
  <2>4. UNCHANGED events /\ missed' = [missed EXCEPT ![p] = m]
    BY <1>3, <1>4, <2>2 DEF CreateChecks
  <2> QED BY <1>1, <2>1, <2>2, <2>3, <2>4, RequestGoesOn
<1>5. ASSUME NEW p \in Sessions, CreateInserts(p) PROVE RequestInv'
  <2>1. PICK e \in Events :
          /\ events' = [events EXCEPT ![e] = [status |-> "draft", book |-> session[p].want]]
          /\ Wrote(p, e)
    BY <1>5 DEF CreateInserts
  <2>2. [status |-> "draft", book |-> session[p].want] \in Row
    BY <1>1, <1>5, ShapeOfStates DEF CreateInserts, Creating, Row
  <2>3. session' = [session EXCEPT ![p] = Idle]
    BY <1>5 DEF CreateInserts
  <2> QED BY <2>1, <2>2, <2>3, RowIsWritten
<1>6. ASSUME NEW p \in Sessions, RollBack(p) PROVE RequestInv'
  BY <1>1, <1>2, <1>6, RequestGoesOn DEF RollBack
<1>7. ASSUME NEW p \in Sessions, UpdateLoads(p) PROVE RequestInv'
  <2>1. PICK e \in Events, f \in Changes, b \in Booking :
          /\ \A x \in Fields \ f : b[x] = events[e].book[x]
          /\ session' = [session EXCEPT
               ![p] = [pc |-> "loaded", event |-> e, set |-> f, want |-> b,
                       dirty |-> {x \in f : b[x] # events[e].book[x]}]]
    BY <1>7 DEF UpdateLoads
  <2>2. PICK D : D = {x \in f : b[x] # events[e].book[x]}
    OBVIOUS
  <2>3. D \subseteq f /\ \A x \in Fields \ D : b[x] = events[e].book[x]
    BY <2>1, <2>2
  <2>4. PICK s, m : /\ s = [pc |-> "loaded", event |-> e, set |-> f, want |-> b, dirty |-> D]
                    /\ m = missed[p]
    OBVIOUS
  <2>5. session' = [session EXCEPT ![p] = s]
    BY <2>1, <2>2, <2>4
  <2>6. StillLoaded(s, m) /\ StillFree(s, m)
    BY <2>3, <2>4 DEF StillLoaded, StillFree
  <2>7. UNCHANGED events /\ missed' = [missed EXCEPT ![p] = m]
    BY <1>3, <1>7, <2>4 DEF UpdateLoads
  <2> QED BY <1>1, <2>5, <2>6, <2>7, RequestGoesOn
<1>8. ASSUME NEW p \in Sessions, UpdateChecks(p) PROVE RequestInv'
  <2>1. UNCHANGED events /\ session[p].pc = "loaded" /\ session[p] \in Updating
    BY <1>1, <1>8, ShapeOfStates DEF UpdateChecks
  <2>2. CASE ~UpdatePasses(p)
    BY <1>1, <1>2, <1>8, <2>1, <2>2, RequestGoesOn DEF UpdateChecks
  <2>3. CASE UpdatePasses(p)
    <3>1. PICK s, t, m :
            /\ s = session[p] /\ t = [s EXCEPT !.pc = "writing"]
            /\ m = IF s.set \cap {"start", "end"} # {} THEN missed[p] \cap {s.event}
                   ELSE missed[p]
      OBVIOUS
    <3>2. /\ session' = [session EXCEPT ![p] = t]
          /\ missed' = [missed EXCEPT ![p] = m]
      BY <1>1, <1>8, <2>3, <3>1 DEF UpdateChecks, TypeOK
    <3>3. /\ t.pc = "writing" /\ t.event = s.event /\ t.set = s.set
          /\ t.dirty = s.dirty /\ t.want = s.want
      BY <2>1, <3>1 DEF Updating
    <3>4. StillLoaded(s, missed[p]) /\ s.pc = "loaded"
      BY <2>1, <3>1 DEF RequestInv
    <3>5. s.event \notin m => s.event \notin missed[p]
      BY <3>1
    <3>6. StillLoaded(t, m)
      BY <3>3, <3>4, <3>5 DEF StillLoaded
    <3>7. s.set \cap {"start", "end"} # {} =>
            ValidDates(s.want) /\ \A e \in Events \ {s.event} : ~Conflicts(e, s.want)
      BY <2>3, <3>1 DEF UpdatePasses
    <3>8. StillFree(t, m)
      BY <3>3, <3>7 DEF StillFree
    <3> QED BY <1>1, <2>1, <3>2, <3>6, <3>8, RequestGoesOn
  <2> QED BY <2>2, <2>3
<1>9. ASSUME NEW p \in Sessions, UpdateWrites(p) PROVE RequestInv'
  <2>1. Exists(session[p].event)
    BY <1>9 DEF UpdateWrites, Typed, LoadedExist
  <2>2. /\ Written(session[p]) \in Row /\ session[p].event \in Events
        /\ events' = [events EXCEPT ![session[p].event] = Written(session[p])]
        /\ session' = [session EXCEPT ![p] = Idle]
    BY <1>1, <1>9, <2>1, WriteOfRow DEF Updating
  <2>3. Wrote(p, session[p].event)
    BY <1>9 DEF UpdateWrites
  <2> QED BY <2>2, <2>3, RowIsWritten
<1>10. ASSUME NEW e \in Events, Cancel(e) PROVE RequestInv'
  <2>1. /\ UNCHANGED <<session, missed>> /\ Live(e)
        /\ events' = [events EXCEPT ![e] = [events[e] EXCEPT !.status = "cancelled"]]
    BY <1>10 DEF Cancel
  <2>2. events[e] \in Row
    BY <1>1, <2>1 DEF Live, Exists, TypeOK
  <2>3. /\ \A f \in Events : events'[f].book = events[f].book
        /\ \A f \in Events : Live(f)' => Live(f)
    BY <1>1, <2>1, <2>2, RowsAreNotNone DEF Live, Exists, TypeOK, Row
  <2>4. ASSUME NEW p \in Sessions
        PROVE  StillLoaded(session[p], missed[p])' /\ StillFree(session[p], missed[p])'
    <3>1. PICK s, m : s = session[p] /\ m = missed[p]
      OBVIOUS
    <3>2. StillLoaded(s, m) /\ StillFree(s, m) /\ s \in States
      BY <1>1, <3>1 DEF RequestInv
    <3>3. s.pc \in {"loaded", "writing"} => s.event \in Events
      BY <3>2, ShapeOfStates DEF Updating
    <3>4. StillLoaded(s, m)'
      BY <2>3, <3>2, <3>3 DEF StillLoaded
    <3>5. \A f \in Events : Conflicts(f, s.want)' => Conflicts(f, s.want)
      BY <2>3 DEF Conflicts
    <3>6. StillFree(s, m)'
      BY <3>2, <3>5 DEF StillFree
    <3> QED BY <2>1, <3>1, <3>4, <3>6
              DEF StillLoaded, StillFree, Conflicts, Live, Exists
  <2> QED BY <2>4 DEF RequestInv
<1>11. CASE UNCHANGED vars
  BY <1>11 DEF vars, RequestInv, StillLoaded, StillFree, Conflicts, Live, Exists
<1> QED BY <1>4, <1>5, <1>6, <1>7, <1>8, <1>9, <1>10, <1>11 DEF Next

LEMMA RequestsAlways == Spec => [](Typed /\ RequestInv)
<1>1. Init => Typed /\ RequestInv
  BY TypedInit, RequestInit
<1>2. (Typed /\ RequestInv) /\ [Next]_vars => (Typed /\ RequestInv)'
  BY TypedNext, RequestNext
<1> QED BY <1>1, <1>2, PTL DEF Spec

\* What an update that has missed neither row, and does not set the venue alone,
\* writes of the dates and the venue: what it checked, or what was there.
LEMMA WritesWhatItChecked ==
  ASSUME Typed, RequestInv, NEW p \in Sessions, UpdateWrites(p),
         NEW s, s = session[p], s.event \notin missed[p], ~BareMove(s),
         NEW old, old = events[s.event].book, NEW new, new = events'[s.event].book
  PROVE  \/ /\ ValidDates(new)
            /\ \A f \in Events \ (missed[p] \cup {s.event}) : ~Conflicts(f, new)
         \/ new.venue = old.venue /\ new.start = old.start /\ new.end = old.end
<1>1. s.pc = "writing" /\ Exists(s.event)
  BY DEF UpdateWrites, Typed, LoadedExist
<1>2. /\ s \in Updating /\ s.event \in Events /\ Written(s) \in Row
      /\ events[s.event] \in Row /\ events'[s.event] = Written(s)
  BY <1>1, WriteOfRow DEF Typed, TypeOK, Updating
<1>3. new = [x \in Fields |-> IF x \in s.dirty THEN s.want[x] ELSE old[x]]
  BY <1>2 DEF Written, Row
<1>4. s.dirty \subseteq s.set /\ \A x \in Fields \ s.dirty : s.want[x] = old[x]
  BY <1>1 DEF RequestInv, StillLoaded
<1>5. CASE s.set \cap {"start", "end"} # {}
  <2>1. /\ ValidDates(s.want)
        /\ \A f \in Events \ (missed[p] \cup {s.event}) : ~Conflicts(f, s.want)
    BY <1>1, <1>5 DEF RequestInv, StillFree
  <2>2. new.venue = s.want.venue /\ new.start = s.want.start /\ new.end = s.want.end
    BY <1>3, <1>4 DEF Fields
  <2> QED BY <2>1, <2>2 DEF ValidDates, Conflicts, Overlap
<1>6. CASE s.set \cap {"start", "end"} = {}
  <2>1. "venue" \notin s.dirty /\ "start" \notin s.dirty /\ "end" \notin s.dirty
    BY <1>1, <1>4, <1>6 DEF BareMove
  <2> QED BY <1>3, <2>1 DEF Fields
<1> QED BY <1>5, <1>6

\* The request whose write makes the two events clash.
Racer(p, e, f) ==
  /\ session[p].pc \in {"creating", "writing"} /\ session'[p] = Idle
  /\ missed[p] \cap {e, f} # {} \/ BareMove(session[p])

LEMMA ClashHasARacer ==
  ASSUME Typed, RequestInv, [Next]_vars, NEW e \in Events, NEW f \in Events,
         e # f, ~Clash(e, f), Clash(e, f)'
  PROVE  \E p \in Sessions : Racer(p, e, f)
<1>1. TypeOK /\ \A p \in Sessions : session[p] \in States
  BY DEF Typed, TypeOK, States
<1>2. PICK a, b : a = events'[e] /\ b = events'[f]
  OBVIOUS
<1>3. /\ a # NoRow /\ a.status # "cancelled" /\ b # NoRow /\ b.status # "cancelled"
      /\ a.book.venue = b.book.venue /\ Overlap(a.book, b.book, Buffer)
  BY <1>2 DEF Clash, Live, Exists, Conflicts
<1>4. a # events[e] \/ b # events[f]
  BY <1>3 DEF Clash, Live, Exists, Conflicts
<1>5. a \in Row /\ b \in Row /\ Overlap(b.book, a.book, Buffer)
  <2>1. Typed'
    BY TypedNext
  <2>2. a \in Row /\ b \in Row
    BY <1>2, <1>3, <2>1 DEF Typed, TypeOK
  <2> QED BY <1>3, <2>2, OverlapSymmetric DEF Row
<1>6. ASSUME NEW p \in Sessions, CreateInserts(p) PROVE Racer(p, e, f)
  <2>1. PICK s : s = session[p]
    OBVIOUS
  <2>7. PICK row : row = [status |-> "draft", book |-> s.want]
    OBVIOUS
  <2>2. PICK g \in Events : events' = [events EXCEPT ![g] = row] /\ row.book = s.want
    BY <1>6, <2>1, <2>7 DEF CreateInserts
  <2>3. s.pc = "creating" /\ session'[p] = Idle
    BY <1>1, <1>6, <2>1 DEF CreateInserts, TypeOK
  <2>4. \A h \in Events \ missed[p] : ~Conflicts(h, s.want)
    BY <2>1, <2>3 DEF RequestInv, StillFree
  <2>5. CASE g = e
    <3>1. a.book = s.want /\ b = events[f]
      BY <1>1, <1>2, <2>2, <2>5 DEF TypeOK
    <3>2. Conflicts(f, s.want)
      BY <1>3, <1>5, <3>1 DEF Conflicts, Live, Exists
    <3> QED BY <2>1, <2>3, <2>4, <3>2 DEF Racer
  <2>6. CASE g = f
    <3>1. b.book = s.want /\ a = events[e]
      BY <1>1, <1>2, <2>2, <2>6 DEF TypeOK
    <3>2. Conflicts(e, s.want)
      BY <1>3, <3>1 DEF Conflicts, Live, Exists
    <3> QED BY <2>1, <2>3, <2>4, <3>2 DEF Racer
  <2> QED BY <1>1, <1>2, <1>4, <2>2, <2>5, <2>6 DEF TypeOK
<1>7. ASSUME NEW p \in Sessions, UpdateWrites(p) PROVE Racer(p, e, f)
  <2>1. PICK s : s = session[p]
    OBVIOUS
  <2>2. s.pc = "writing" /\ session'[p] = Idle /\ Exists(s.event)
    BY <1>1, <1>7, <2>1 DEF UpdateWrites, TypeOK, Typed, LoadedExist
  <2>3. /\ s.event \in Events /\ events[s.event] \in Row
        /\ events' = [events EXCEPT ![s.event] = Written(s)]
        /\ Written(s).status = events[s.event].status
    BY <1>1, <1>7, <2>1, <2>2, WriteOfRow DEF Updating
  <2>4. CASE missed[p] \cap {e, f} # {} \/ BareMove(s)
    BY <2>1, <2>2, <2>4 DEF Racer
  <2>5. CASE e \notin missed[p] /\ f \notin missed[p] /\ ~BareMove(s)
    <3>1. CASE s.event = e
      <4>1. b = events[f] /\ a.status = events[e].status
        BY <1>1, <1>2, <2>3, <3>1 DEF TypeOK
      <4>2. ~Conflicts(f, a.book) \/ (/\ a.book.venue = events[e].book.venue
                                     /\ a.book.start = events[e].book.start
                                     /\ a.book.end = events[e].book.end)
        BY <1>2, <1>7, <2>1, <2>5, <3>1, WritesWhatItChecked
      <4>3. Conflicts(f, a.book)
        BY <1>3, <1>5, <4>1 DEF Conflicts, Live, Exists
      <4>4. Clash(e, f)
        BY <1>3, <2>2, <3>1, <4>1, <4>2, <4>3 DEF Clash, Conflicts, Live, Exists, Overlap
      <4> QED BY <4>4
    <3>2. CASE s.event = f
      <4>1. a = events[e] /\ b.status = events[f].status
        BY <1>1, <1>2, <2>3, <3>2 DEF TypeOK
      <4>2. ~Conflicts(e, b.book) \/ (/\ b.book.venue = events[f].book.venue
                                     /\ b.book.start = events[f].book.start
                                     /\ b.book.end = events[f].book.end)
        BY <1>2, <1>7, <2>1, <2>5, <3>2, WritesWhatItChecked
      <4>3. Conflicts(e, b.book)
        BY <1>3, <4>1 DEF Conflicts, Live, Exists
      <4>4. Clash(e, f)
        BY <1>3, <2>2, <3>2, <4>1, <4>2, <4>3 DEF Clash, Conflicts, Live, Exists, Overlap
      <4> QED BY <4>4
    <3>3. CASE s.event \notin {e, f}
      BY <1>1, <1>2, <1>4, <2>3, <3>3 DEF TypeOK
    <3> QED BY <3>1, <3>2, <3>3
  <2> QED BY <2>4, <2>5
<1>8. ASSUME NEW g \in Events, Cancel(g) PROVE FALSE
  <2>1. events[g] \in Row
    BY <1>1, <1>8 DEF Cancel, Live, Exists, TypeOK
  <2>2. /\ events' = [events EXCEPT ![g] = [events[g] EXCEPT !.status = "cancelled"]]
        /\ [events[g] EXCEPT !.status = "cancelled"].status = "cancelled"
    BY <1>8, <2>1 DEF Cancel, Row
  <2> QED BY <1>1, <1>2, <1>3, <1>4, <2>2 DEF TypeOK
<1>9. CASE UNCHANGED events
  BY <1>2, <1>4, <1>9
<1> QED
  BY <1>6, <1>7, <1>8, <1>9
     DEF Next, vars, CreateChecks, RollBack, UpdateLoads, UpdateChecks

\* Lines 76-107: for any concurrent requests, a step that makes two events clash is
\* the write of a request that had missed a write of one of them, or that moves an
\* event without a date.
THEOREM DoubleBookingsAreRaces == Spec => DoubleBookingNeedsARace
<1>1. (Typed /\ RequestInv) /\ [Next]_vars =>
        [\A e, f \in Events :
           (e # f /\ ~Clash(e, f) /\ Clash(e, f)') =>
             \E p \in Sessions :
               /\ session[p].pc \in {"creating", "writing"} /\ session'[p] = Idle
               /\ missed[p] \cap {e, f} # {} \/ BareMove(session[p])]_vars
  BY ClashHasARacer DEF Racer
<1> QED BY <1>1, RequestsAlways, PTL DEF Spec, DoubleBookingNeedsARace

\* The request whose write puts the dates of an event out of order.
Stale(p, e) ==
  /\ session[p].pc = "writing" /\ session[p].event = e /\ session'[p] = Idle
  /\ \E x \in {"start", "end"} \ session[p].dirty :
       session[p].want[x] # events[e].book[x]

LEMMA DisorderIsStale ==
  ASSUME Typed, RequestInv, [Next]_vars, NEW e \in Events,
         Exists(e)', ~ValidDates(events'[e].book),
         Exists(e) => ValidDates(events[e].book)
  PROVE  \E p \in Sessions : Stale(p, e)
<1>1. TypeOK /\ \A p \in Sessions : session[p] \in States
  BY DEF Typed, TypeOK, States
<1>2. PICK a : a = events'[e] /\ a # NoRow /\ ~ValidDates(a.book)
  BY DEF Exists
<1>3. a # events[e]
  BY <1>2 DEF Exists
<1>4. ASSUME NEW p \in Sessions, CreateInserts(p) PROVE FALSE
  <2>0. PICK row : row = [status |-> "draft", book |-> session[p].want]
    OBVIOUS
  <2>1. PICK g \in Events : /\ events' = [events EXCEPT ![g] = row]
                           /\ row.book = session[p].want
    BY <1>4, <2>0 DEF CreateInserts
  <2>2. a.book = session[p].want
    BY <1>1, <1>2, <1>3, <2>1 DEF TypeOK
  <2>3. ValidDates(session[p].want)
    BY <1>4 DEF CreateInserts, RequestInv, StillFree
  <2> QED BY <1>2, <2>2, <2>3 DEF ValidDates
<1>5. ASSUME NEW p \in Sessions, UpdateWrites(p) PROVE Stale(p, e)
  <2>1. PICK s : s = session[p]
    OBVIOUS
  <2>2. s.pc = "writing" /\ session'[p] = Idle /\ Exists(s.event)
    BY <1>1, <1>5, <2>1 DEF UpdateWrites, TypeOK, Typed, LoadedExist
  <2>3. /\ s \in Updating /\ events[s.event] \in Row /\ Written(s) \in Row
        /\ events' = [events EXCEPT ![s.event] = Written(s)]
    BY <1>1, <1>5, <2>1, <2>2, WriteOfRow
  <2>4. s.event = e /\ a = Written(s)
    BY <1>1, <1>2, <1>3, <2>3 DEF TypeOK, Updating
  <2>5. a.book = [x \in Fields |-> IF x \in s.dirty THEN s.want[x] ELSE events[e].book[x]]
    BY <2>3, <2>4 DEF Written, Row
  <2>6. s.dirty \subseteq s.set
    BY <2>1, <2>2 DEF RequestInv, StillLoaded
  <2>7. CASE s.set \cap {"start", "end"} = {}
    <3>1. "start" \notin s.dirty /\ "end" \notin s.dirty
      BY <2>6, <2>7
    <3>2. a.book.start = events[e].book.start /\ a.book.end = events[e].book.end
      BY <2>5, <3>1 DEF Fields
    <3> QED BY <1>2, <2>2, <2>4, <3>2 DEF ValidDates
  <2>8. CASE s.set \cap {"start", "end"} # {}
    <3>1. ValidDates(s.want)
      BY <2>1, <2>2, <2>8 DEF RequestInv, StillFree
    <3>2. a.book.start # s.want.start \/ a.book.end # s.want.end
      BY <1>2, <3>1 DEF ValidDates
    <3>3. \E x \in {"start", "end"} \ s.dirty : s.want[x] # events[e].book[x]
      BY <2>5, <3>2 DEF Fields
    <3> QED BY <2>1, <2>2, <2>4, <3>3 DEF Stale
  <2> QED BY <2>7, <2>8
<1>6. ASSUME NEW g \in Events, Cancel(g) PROVE FALSE
  <2>1. events[g] \in Row /\ Exists(g)
    BY <1>1, <1>6 DEF Cancel, Live, Exists, TypeOK
  <2>2. /\ events' = [events EXCEPT ![g] = [events[g] EXCEPT !.status = "cancelled"]]
        /\ [events[g] EXCEPT !.status = "cancelled"].book = events[g].book
    BY <1>6, <2>1 DEF Cancel, Row
  <2>3. a.book = events[e].book /\ Exists(e)
    BY <1>1, <1>2, <1>3, <2>1, <2>2 DEF TypeOK
  <2> QED BY <1>2, <2>3
<1>7. CASE UNCHANGED events
  BY <1>2, <1>3, <1>7
<1> QED
  BY <1>4, <1>5, <1>6, <1>7
     DEF Next, vars, CreateChecks, RollBack, UpdateLoads, UpdateChecks

\* Lines 55-63: for any concurrent requests, a step that puts the dates of an event
\* out of order writes one of them, checked against another value of the other.
THEOREM DisordersAreStale == Spec => DisorderNeedsAStaleRow
<1>1. (Typed /\ RequestInv) /\ [Next]_vars =>
        [\A e \in Events :
           (/\ Exists(e)' /\ ~ValidDates(events'[e].book)
            /\ Exists(e) => ValidDates(events[e].book)) =>
             \E p \in Sessions :
               /\ session[p].pc = "writing" /\ session[p].event = e /\ session'[p] = Idle
               /\ \E x \in {"start", "end"} \ session[p].dirty :
                    session[p].want[x] # events[e].book[x]]_vars
  BY DisorderIsStale DEF Stale
<1> QED BY <1>1, RequestsAlways, PTL DEF Spec, DisorderNeedsAStaleRow

=============================================================================
