--------------------------- MODULE StripeWebhook ---------------------------
(***************************************************************************)
(* StripeWebhookHandler, services/payments/stripe_webhook.py: deliveries   *)
(* of Stripe events, the signature's timestamp check, the Redis record of  *)
(* processed events, and the dispatch to the services.                     *)
(*                                                                         *)
(* handle_webhook is synchronous code that many workers run at a time. It  *)
(* reads Redis (exists), calls another service, and writes Redis (setex):  *)
(* each is a step, and other workers run in between. Parsing, the HMAC and *)
(* the clock reading touch nothing shared and go with the exists.          *)
(*                                                                         *)
(* Stripe is external: it sends an event again, with a new timestamp, until*)
(* it has seen a 2xx answer or its retry window is over. The network loses,*)
(* delays and duplicates requests, and loses answers.                      *)
(***************************************************************************)
EXTENDS Integers, FiniteSets

CONSTANTS
  Events,         \* Stripe event ids
  Type,           \* the type field of each event
  Workers,        \* the processes that run handle_webhook
  Tolerance,      \* WEBHOOK_TOLERANCE_SECONDS, in ticks
  ProcessedTTL,   \* PROCESSED_EVENT_TTL, in ticks
  RetryWindow,    \* Stripe's maximum retry window, in ticks
  Skew,           \* the clock drift between Stripe and the workers
  MaxInFlight,    \* bound: requests on their way at a time
  MaxFaults,      \* bound: failures of the services dispatched to
  MaxCrashes      \* bound: workers that die, or lose Redis, in mid-request

TicketTypes == {"payment_intent.succeeded", "charge.refunded"}
NotifyTypes == {"payment_intent.payment_failed", "charge.dispute.created"}

ASSUME TypeAssumption ==
  Type \in [Events -> TicketTypes \cup NotifyTypes \cup {"unhandled"}]
\* Lines 58-60, with what they leave out: a request sent at the end of the
\* retry window is accepted for as long as its timestamp is.
ASSUME WindowAssumption ==
  /\ {Tolerance, ProcessedTTL, RetryWindow, Skew} \subseteq Nat
  /\ RetryWindow + Tolerance + Skew < ProcessedTTL
ASSUME LimitAssumption == /\ {MaxInFlight, MaxFaults, MaxCrashes} \subseteq Nat
                          /\ IsFiniteSet(Workers)

VARIABLES
  age,        \* ticks since Stripe created each event
  acked,      \* the events Stripe has seen a 2xx answer for
  requests,   \* requests on their way: an event and the ticks since signing
  processed,  \* Redis: ticks left of each webhook:processed:<id> key
  worker,     \* where each worker is
  effects,    \* how often TicketService has carried out each event
  marked,     \* history: the events ever marked as processed
  failed,     \* history: the events some dispatch of which raised
  faults,     \* failures of the called services so far
  crashes     \* crashes so far

vars == <<age, acked, requests, processed, worker, effects, marked, failed,
          faults, crashes>>

\* Signatures and events older than this are all alike.
TooOld == Tolerance + Skew + 1
AgeCap == RetryWindow + TooOld

Request == [event: Events, signed: 0 .. TooOld]

Free == [pc |-> "free"]
Busy == [pc: {"dispatching", "marking"}, event: Events]

TypeOK ==
  /\ age \in [Events -> 0 .. AgeCap]
  /\ acked \subseteq Events
  /\ requests \subseteq Request
  /\ processed \in [Events -> 0 .. ProcessedTTL]
  /\ worker \in [Workers -> {Free} \cup Busy]
  /\ effects \in [Events -> Nat]
  /\ marked \subseteq Events
  /\ failed \subseteq Events
  /\ faults \in Nat
  /\ crashes \in Nat

Init ==
  /\ age = [e \in Events |-> 0]
  /\ acked = {}
  /\ requests = {}
  /\ processed = [e \in Events |-> 0]
  /\ worker = [w \in Workers |-> Free]
  /\ effects = [e \in Events |-> 0]
  /\ marked = {}
  /\ failed = {}
  /\ faults = 0
  /\ crashes = 0

-----------------------------------------------------------------------------
(* Stripe and the network                                                  *)

\* Stripe sends an event it has no 2xx answer for, signed with the time.
Send(e) ==
  /\ e \notin acked
  /\ age[e] <= RetryWindow
  /\ Cardinality(requests) < MaxInFlight
  /\ requests' = requests \cup {[event |-> e, signed |-> 0]}
  /\ UNCHANGED <<age, acked, processed, worker, effects, marked, failed,
                 faults, crashes>>

Lose(m) ==
  /\ requests' = requests \ {m}
  /\ UNCHANGED <<age, acked, processed, worker, effects, marked, failed,
                 faults, crashes>>

\* A 2xx answer for event e, which may be lost.
Answer(e) == acked' \in {acked, acked \cup {e}}

-----------------------------------------------------------------------------
(* handle_webhook                                                          *)

Abs(n) == IF n < 0 THEN -n ELSE n

\* What the worker's clock makes of the age of a signature.
Drifted(m) == {m.signed + d : d \in (-Skew) .. Skew}

\* _verify_signature, step 4.
WithinTolerance(m) == \E d \in Drifted(m) : Abs(d) <= Tolerance

IsAlreadyProcessed_Never(e) == FALSE

\* _is_already_processed: EXISTS.
IsAlreadyProcessed(e) == processed[e] > 0

\* A worker takes a request (the network may deliver a copy later), accepts
\* its timestamp, and looks the event up in Redis.
Receive(w, m) ==
  /\ worker[w] = Free
  /\ WithinTolerance(m)
  /\ requests' \in {requests, requests \ {m}}
  /\ IF IsAlreadyProcessed(m.event)
       THEN Answer(m.event) /\ UNCHANGED worker
       ELSE /\ worker' = [worker EXCEPT
                            ![w] = [pc |-> "dispatching", event |-> m.event]]
            /\ UNCHANGED acked
  /\ UNCHANGED <<age, processed, effects, marked, failed, faults, crashes>>

\* The timestamp is out of tolerance: WebhookSignatureError, no 2xx.
Reject(w, m) ==
  /\ worker[w] = Free
  /\ \E d \in Drifted(m) : Abs(d) > Tolerance
  /\ Lose(m)

Carried(e) == effects' = [effects EXCEPT ![e] = @ + 1]

Succeeds(w) == worker' = [worker EXCEPT ![w].pc = "marking"]

Raises_LogsOnly(w) == /\ worker' = [worker EXCEPT ![w].pc = "marking"]
                      /\ failed' = failed \cup {worker[w].event}

\* WebhookProcessingError: no 2xx, nothing marked.
Raises(w) == /\ worker' = [worker EXCEPT ![w] = Free]
             /\ failed' = failed \cup {worker[w].event}

\* _dispatch_event to TicketService (not in the repository: external).
DispatchTicket(w) ==
  /\ worker[w].pc = "dispatching"
  /\ Type[worker[w].event] \in TicketTypes
  /\ Carried(worker[w].event)
  /\ Succeeds(w)
  /\ UNCHANGED <<age, acked, requests, processed, marked, failed, faults, crashes>>

\* TicketService fails, before or after it has done its work.
DispatchFault(w) ==
  /\ worker[w].pc = "dispatching"
  /\ Type[worker[w].event] \in TicketTypes
  /\ faults < MaxFaults
  /\ faults' = faults + 1
  /\ Carried(worker[w].event) \/ UNCHANGED effects
  /\ Raises(w)
  /\ UNCHANGED <<age, acked, requests, processed, marked, crashes>>

\* services/notifications exports no NotificationService: the import raises.
DispatchNotify(w) ==
  /\ worker[w].pc = "dispatching"
  /\ Type[worker[w].event] \in NotifyTypes
  /\ Raises(w)
  /\ UNCHANGED <<age, acked, requests, processed, effects, marked, faults, crashes>>

\* No handler for the type: nothing to do, and the event counts as processed.
DispatchUnhandled(w) ==
  /\ worker[w].pc = "dispatching"
  /\ Type[worker[w].event] = "unhandled"
  /\ Succeeds(w)
  /\ UNCHANGED <<age, acked, requests, processed, effects, marked, failed,
                 faults, crashes>>

SetProcessed_RetryWindow(e) == processed' = [processed EXCEPT ![e] = RetryWindow]

\* _mark_as_processed: SETEX.
SetProcessed(e) == processed' = [processed EXCEPT ![e] = ProcessedTTL]

Mark(w) ==
  LET e == worker[w].event
  IN  /\ worker[w].pc = "marking"
      /\ SetProcessed(e)
      /\ marked' = marked \cup {e}
      /\ Answer(e)
      /\ worker' = [worker EXCEPT ![w] = Free]
      /\ UNCHANGED <<age, requests, effects, failed, faults, crashes>>

\* The worker dies, or Redis does not answer the setex: no 2xx.
Crash(w) ==
  /\ worker[w] # Free
  /\ crashes < MaxCrashes
  /\ crashes' = crashes + 1
  /\ worker' = [worker EXCEPT ![w] = Free]
  /\ UNCHANGED <<age, acked, requests, processed, effects, marked, failed, faults>>

Capped(n, cap) == IF n < cap THEN n + 1 ELSE cap

Tick ==
  /\ age' = [e \in Events |-> Capped(age[e], AgeCap)]
  /\ requests' = {[m EXCEPT !.signed = Capped(m.signed, TooOld)] : m \in requests}
  /\ processed' = [e \in Events |-> IF processed[e] = 0 THEN 0 ELSE processed[e] - 1]
  /\ UNCHANGED <<acked, worker, effects, marked, failed, faults, crashes>>

-----------------------------------------------------------------------------
Handle(w) ==
  \/ \E m \in requests : Receive(w, m) \/ Reject(w, m)
  \/ DispatchTicket(w) \/ DispatchFault(w) \/ DispatchNotify(w)
  \/ DispatchUnhandled(w) \/ Mark(w) \/ Crash(w)

Next ==
  \/ \E e \in Events : Send(e)
  \/ \E m \in requests : Lose(m)
  \/ \E w \in Workers : Handle(w)
  \/ Tick

Spec == Init /\ [][Next]_vars

-----------------------------------------------------------------------------
(* Properties the code has                                                 *)

Done(e) == Type[e] = "unhandled" \/ effects[e] > 0

\* Lines 98-111: Stripe stops sending only what was carried out. An event that
\* got a 2xx answer has no handler or has had its effect; in particular no
\* dispute or failed payment, whose handlers raise, is ever acknowledged,
\* however its redeliveries, duplicates and crashes interleave.
AckedIsDone == \A e \in acked : Done(e)

Dispatching(w, e) == worker[w].pc = "dispatching" /\ worker[w].event = e

\* Lines 58-60: once an event is marked, the Redis key outlives every request
\* that could still be accepted, so no worker ever starts on the event again.
MarkedIsNeverRedone ==
  [][\A w \in Workers, e \in marked : Dispatching(w, e)' => Dispatching(w, e)]_vars

\* The two facts behind it. A request whose timestamp is still good was sent
\* in the retry window; and the key of a marked event lasts until no such
\* request can be left.
RequestsInWindow ==
  \A m \in requests : m.signed < TooOld => age[m.event] <= RetryWindow + m.signed
KeysCoverWindow ==
  \A e \in marked : age[e] = AgeCap \/ processed[e] + age[e] >= ProcessedTTL

\* The facts behind AckedIsDone: what is about to be marked is done, and so is
\* what Redis has a key for.
MarkedIsDone ==
  /\ \A w \in Workers : worker[w].pc = "marking" => Done(worker[w].event)
  /\ \A e \in Events : processed[e] > 0 => Done(e)


\* Lines 42-45, "skip duplicates", as far as it goes: an event is carried out
\* again only by a worker that was already past the exists when it was marked,
\* or because a service or a worker failed after the effect and before the mark.
RepeatsAreAccountedFor ==
  \A e \in Events : effects[e] <= Cardinality(Workers) + faults + crashes

\* The count behind it. Until an event is marked, each effect has a worker that
\* is about to mark it, a failure or a crash. At the mark the workers still
\* dispatching it are others than those; afterwards they become no more.
Doing(e, pc) == {w \in Workers : worker[w].pc = pc /\ worker[w].event = e}
EffectsCounted ==
  \A e \in Events :
    IF e \in marked
      THEN effects[e] + Cardinality(Doing(e, "dispatching"))
             <= Cardinality(Workers) + faults + crashes
      ELSE effects[e] <= Cardinality(Doing(e, "marking")) + faults + crashes

IInv == /\ TypeOK /\ RequestsInWindow /\ KeysCoverWindow
        /\ MarkedIsDone /\ AckedIsDone /\ EffectsCounted

-----------------------------------------------------------------------------
(* Properties the repository states and the code does not have             *)

\* Lines 42-45, "we store the event ID in Redis and skip duplicates": an event
\* is carried out at most once.
CarriedOutOnce == \A e \in Events : effects[e] <= 1

\* Lines 282-286, "we immediately ... alert the ops team": the dispatch of a
\* dispute does not raise while the services it calls are well.
DisputeAlertsOps ==
  \A e \in failed : Type[e] = "charge.dispute.created" => faults > 0

=============================================================================
