--------------------------- MODULE EventSchedule ---------------------------
(***************************************************************************)
(* EventService, services/events/event_service.py: creating, updating and  *)
(* cancelling events, with the conflict check on the venue; and the        *)
(* availability filter of services/events/venue_search.py.                 *)
(*                                                                         *)
(* A request is a PostgreSQL transaction at READ COMMITTED. It loads and   *)
(* checks first and writes later; other requests run in between. An UPDATE *)
(* writes the columns that got a new value, and only those.                *)
(* Titles, descriptions and categories touch nothing here and are left out,*)
(* and so is the clock: all the slots are more than an hour ahead.         *)
(* Nothing locks a row between its SELECT and its UPDATE. missed is a      *)
(* history variable, which no action reads: it says of each request which  *)
(* rows others have written since it read them.                            *)
(***************************************************************************)
EXTENDS Integers

CONSTANTS
  Events,        \* the ids events can get
  Venues,
  MaxCapacity,   \* max_capacity of each venue
  Capacities,    \* the capacities clients ask for
  Slots,         \* points in time, as numbers of minutes, hours...
  Buffer,        \* VENUE_BUFFER_MINUTES in that unit
  MaxDuration,   \* 14 days in that unit
  Changes,       \* the sets of fields that update requests set
  Sessions,      \* the requests that can be running at one time
  MaxUpdates     \* bound: update requests

Fields == {"venue", "start", "end", "capacity"}

ASSUME SlotAssumption == /\ Slots \subseteq Int
                         /\ Buffer \in Nat /\ MaxDuration \in Nat
ASSUME CapacityAssumption == /\ Capacities \subseteq Nat
                             /\ MaxCapacity \in [Venues -> Nat]
ASSUME ChangeAssumption == Changes \subseteq SUBSET Fields
ASSUME BoundAssumption == MaxUpdates \in Nat

VARIABLES
  events,    \* the committed rows
  session,   \* where each running request is, with its local variables
  missed,    \* history: the rows others wrote since the request read them
  updates    \* update requests so far

vars == <<events, session, missed, updates>>

Booking == [venue: Venues, start: Slots, end: Slots, capacity: Capacities]
Row     == [status: {"draft", "cancelled"}, book: Booking]

NoRow == [status |-> "none"]
Idle  == [pc |-> "idle"]

Creating == [pc: {"creating"}, want: Booking]
Updating == [pc: {"loaded", "writing"}, event: Events, set: Changes,
             want: Booking,          \* the loaded row with the new values in it
             dirty: SUBSET Fields]   \* the columns whose value is a new one

TypeOK ==
  /\ events \in [Events -> {NoRow} \cup Row]
  /\ session \in [Sessions -> {Idle} \cup Creating \cup Updating]
  /\ missed \in [Sessions -> SUBSET Events]
  /\ updates \in 0 .. MaxUpdates

Init ==
  /\ events = [e \in Events |-> NoRow]
  /\ session = [p \in Sessions |-> Idle]
  /\ missed = [p \in Sessions |-> {}]
  /\ updates = 0

Exists(e) == events[e] # NoRow
Live(e) == Exists(e) /\ events[e].status # "cancelled"

\* Request p writes row e and ends: the others that run have missed it.
Wrote(p, e) ==
  missed' = [q \in Sessions |-> IF q = p \/ session[q] = Idle THEN {}
                                ELSE missed[q] \cup {e}]

-----------------------------------------------------------------------------
(* The checks                                                              *)

\* _validate_dates
ValidDates(b) == b.start < b.end /\ b.end - b.start <= MaxDuration

\* _validate_capacity
ValidCapacity(b) == 1 <= b.capacity /\ b.capacity <= MaxCapacity[b.venue]

\* Two half-open periods overlap when one is widened by gap on both sides.
Overlap(a, b, gap) == a.start < b.end + gap /\ b.start - gap < a.end

\* _check_venue_conflict: event e is in the way of booking b.
Conflicts(e, b) ==
  Live(e) /\ events[e].book.venue = b.venue /\ Overlap(events[e].book, b, Buffer)

-----------------------------------------------------------------------------
(* create_event                                                            *)

\* Every check passes; a request that fails one raises and changes nothing.
CreateChecks(p) ==
  /\ session[p] = Idle
  /\ \E b \in Booking :
       /\ ValidDates(b)
       /\ ValidCapacity(b)
       /\ \A e \in Events : ~Conflicts(e, b)
       /\ session' = [session EXCEPT ![p] = [pc |-> "creating", want |-> b]]
  /\ UNCHANGED <<events, missed, updates>>

\* The row is inserted and the caller commits.
CreateInserts(p) ==
  /\ session[p].pc = "creating"
  /\ \E e \in Events :
       /\ ~Exists(e)
       /\ events' = [events EXCEPT
                       ![e] = [status |-> "draft", book |-> session[p].want]]
       /\ Wrote(p, e)
  /\ session' = [session EXCEPT ![p] = Idle]
  /\ UNCHANGED updates

\* IntegrityError, or a crash: the transaction is rolled back.
RollBack(p) ==
  /\ session[p] # Idle
  /\ session' = [session EXCEPT ![p] = Idle]
  /\ missed' = [missed EXCEPT ![p] = {}]
  /\ UNCHANGED <<events, updates>>

-----------------------------------------------------------------------------
(* update_event and delete_event                                           *)

\* The organizer's event is loaded; the payload sets some of its fields.
UpdateLoads(p) ==
  /\ session[p] = Idle
  /\ updates < MaxUpdates
  /\ updates' = updates + 1
  /\ \E e \in Events, f \in Changes, b \in Booking :
       /\ Exists(e)
       /\ \A x \in Fields \ f : b[x] = events[e].book[x]
       /\ session' = [session EXCEPT
                        ![p] = [pc |-> "loaded", event |-> e, set |-> f, want |-> b,
                                dirty |-> {x \in f : b[x] # events[e].book[x]}]]
  /\ UNCHANGED <<events, missed>>

UpdatePasses_DatesOnly(p) ==
  LET s == session[p]
  IN  /\ s.set \cap {"start", "end"} # {} => ValidDates(s.want)
      /\ ("capacity" \in s.set /\ s.want.capacity # 0) => ValidCapacity(s.want)

UpdatePasses_NoDates(p) ==
  LET s == session[p]
  IN  /\ s.set \cap {"start", "end"} # {} =>
           \A e \in Events \ {s.event} : ~Conflicts(e, s.want)
      /\ ("capacity" \in s.set /\ s.want.capacity # 0) => ValidCapacity(s.want)

UpdatePasses_NoCapacity(p) ==
  LET s == session[p]
  IN  s.set \cap {"start", "end"} # {} =>
        /\ ValidDates(s.want)
        /\ \A e \in Events \ {s.event} : ~Conflicts(e, s.want)

\* Dates and conflicts are looked at when a date is set, the capacity when one
\* is set that is not 0 ("if payload.capacity").
UpdatePasses(p) ==
  LET s == session[p]
  IN  /\ s.set \cap {"start", "end"} # {} =>
           /\ ValidDates(s.want)
           /\ \A e \in Events \ {s.event} : ~Conflicts(e, s.want)
      /\ ("capacity" \in s.set /\ s.want.capacity # 0) => ValidCapacity(s.want)

\* The conflict check reads the other rows again, its own is read but once.
UpdateChecks(p) ==
  LET s == session[p]
  IN  /\ s.pc = "loaded"
      /\ \/ /\ UpdatePasses(p)
            /\ session' = [session EXCEPT ![p] = [s EXCEPT !.pc = "writing"]]
            /\ missed' = [missed EXCEPT ![p] = IF s.set \cap {"start", "end"} # {}
                                               THEN @ \cap {s.event} ELSE @]
         \/ /\ ~UpdatePasses(p)
            /\ session' = [session EXCEPT ![p] = Idle]
            /\ missed' = [missed EXCEPT ![p] = {}]
      /\ UNCHANGED <<events, updates>>

\* UPDATE of the columns that got another value, and the caller commits.
UpdateWrites(p) ==
  LET s == session[p]
  IN  /\ s.pc = "writing"
      /\ events' = [events EXCEPT ![s.event].book =
                      [x \in Fields |-> IF x \in s.dirty THEN s.want[x] ELSE @[x]]]
      /\ Wrote(p, s.event)
      /\ session' = [session EXCEPT ![p] = Idle]
      /\ UNCHANGED updates

\* delete_event: the row stays, marked as cancelled.
Cancel(e) ==
  /\ Live(e)
  /\ events' = [events EXCEPT ![e].status = "cancelled"]
  /\ UNCHANGED <<session, missed, updates>>

-----------------------------------------------------------------------------
Next ==
  \/ \E p \in Sessions : \/ CreateChecks(p) \/ CreateInserts(p) \/ RollBack(p)
                         \/ UpdateLoads(p) \/ UpdateChecks(p) \/ UpdateWrites(p)
  \/ \E e \in Events : Cancel(e)

Spec == Init /\ [][Next]_vars

-----------------------------------------------------------------------------
(* VenueSearchService.search, the availability filter                       *)

IsAvailable_AnyStatus(v, from, to) ==
  ~\E e \in Events : /\ Exists(e) /\ events[e].book.venue = v
                     /\ Overlap(events[e].book, [start |-> from, end |-> to], 0)

\* No live event of venue v overlaps the period asked for.
IsAvailable(v, from, to) ==
  ~\E e \in Events : /\ Live(e) /\ events[e].book.venue = v
                     /\ Overlap(events[e].book, [start |-> from, end |-> to], 0)

-----------------------------------------------------------------------------
(* Properties                                                              *)

\* Two live events at a venue are less than Buffer apart.
Clash(e, f) == Live(e) /\ Live(f) /\ Conflicts(e, events[f].book)

\* An update of the venue alone, which is not checked against other events.
BareMove(s) ==
  s.pc = "writing" /\ "venue" \in s.set /\ s.set \cap {"start", "end"} = {}

\* Lines 76-107, whatever requests run at a time: two events come to clash only by
\* the write of a request that had read one of them before another request wrote
\* it, or of an update of the venue alone. The checks leave no third way.
DoubleBookingNeedsARace ==
  [][\A e, f \in Events :
       (e # f /\ ~Clash(e, f) /\ Clash(e, f)') =>
         \E p \in Sessions :
           /\ session[p].pc \in {"creating", "writing"} /\ session'[p] = Idle
           /\ missed[p] \cap {e, f} # {} \/ BareMove(session[p])]_vars

\* Lines 55-63, whatever requests run at a time: an event gets dates out of order
\* only from a request that writes one of them and checked it against a value of
\* the other that its row no longer has.
DisorderNeedsAStaleRow ==
  [][\A e \in Events :
       (/\ Exists(e)' /\ ~ValidDates(events'[e].book)
        /\ Exists(e) => ValidDates(events[e].book)) =>
         \E p \in Sessions :
           /\ session[p].pc = "writing" /\ session[p].event = e /\ session'[p] = Idle
           /\ \E x \in {"start", "end"} \ session[p].dirty :
                session[p].want[x] # events[e].book[x]]_vars

\* Lines 69-74, the capacity is "at least 1" and at most the venue's.
CapacityFits == \A e \in Events : Exists(e) => ValidCapacity(events[e].book)

\* Line 71, as far as it goes: whatever requests run at a time, no event has a
\* capacity that no venue could ever hold. (That of its own venue it may exceed.)
CapacityFitsSomewhere ==
  \A e \in Events : Exists(e) =>
    \E v \in Venues : events[e].book.capacity <= MaxCapacity[v]

\* The search lists every venue that create_event would accept for a period.
BookableIsListed ==
  \A b \in Booking :
    (ValidDates(b) /\ \A e \in Events : ~Conflicts(e, b))
      => IsAvailable(b.venue, b.start, b.end)

-----------------------------------------------------------------------------
(* The inductive invariants behind these properties                        *)

Fits(capacity) == \E v \in Venues : capacity <= MaxCapacity[v]

\* The request has, or will have, a capacity that is written as it is.
Settled(s) == \/ s.pc \in {"creating", "writing"}
              \/ s.pc = "loaded" /\ "capacity" \notin s.set

CapacityInv ==
  /\ \A e \in Events : Exists(e) => Fits(events[e].book.capacity)
  /\ \A p \in Sessions : Settled(session[p]) => Fits(session[p].want.capacity)

\* What a request relies on when it writes, of the rows it has not missed: what it
\* loaded and what it found free is so still. The dates it checked do not change.
StillLoaded(s, unread) ==
  s.pc \in {"loaded", "writing"} =>
    /\ s.dirty \subseteq s.set
    /\ s.event \notin unread =>
         \A x \in Fields \ s.dirty : s.want[x] = events[s.event].book[x]

StillFree(s, unread) ==
  /\ s.pc = "creating" =>
       ValidDates(s.want) /\ \A f \in Events \ unread : ~Conflicts(f, s.want)
  /\ (s.pc = "writing" /\ s.set \cap {"start", "end"} # {}) =>
       /\ ValidDates(s.want)
       /\ \A f \in Events \ (unread \cup {s.event}) : ~Conflicts(f, s.want)

RequestInv ==
  \A p \in Sessions :
    StillLoaded(session[p], missed[p]) /\ StillFree(session[p], missed[p])

-----------------------------------------------------------------------------
(* Properties the repository states and the code does not have             *)

\* Line 83, "Ensure no overlapping events exist at the venue (with buffer)": two
\* live events of a venue are at least Buffer apart.
NoDoubleBooking == \A e, f \in Events : e # f => ~Clash(e, f)

\* Line 57, "Event end time must be after start time".
DatesInOrder == \A e \in Events : Exists(e) => ValidDates(events[e].book)

\* venue_search.py:85-86, "Availability is checked": what the search lists as
\* available for a period can be booked for it.
ListedIsBookable ==
  \A b \in Booking :
    (ValidDates(b) /\ IsAvailable(b.venue, b.start, b.end))
      => \A e \in Events : ~Conflicts(e, b)

=============================================================================
