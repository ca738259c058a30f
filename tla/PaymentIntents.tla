--------------------------- MODULE PaymentIntents ---------------------------
(***************************************************************************)
(* PaymentService, services/payments/payment_service.py: the cache of      *)
(* idempotency keys in Redis, the retry loop around the Stripe calls, and  *)
(* create_payment_intent, process_payment and confirm_payment.             *)
(*                                                                         *)
(* Stripe is external: it remembers the request of every idempotency key,  *)
(* answers the same request with the same intent, refuses another request  *)
(* under the same key, and charges a PaymentIntent once.                   *)
(*                                                                         *)
(* The model covers the first 24 hours of a purchase, during which neither *)
(* the cache (IDEMPOTENCY_KEY_TTL) nor Stripe forgets a key. A tick is the *)
(* end of a calendar minute.                                               *)
(***************************************************************************)
EXTENDS Naturals, FiniteSets

CONSTANTS
  Purchases,    \* the (user_id, event_id, amount_cents) tuples
  Bodies,       \* currency and metadata: what else a request carries
  Callers,      \* the processes that call PaymentService
  NoKey,        \* the absence of a cached key
  MAX_RETRIES,  \* attempts of one Stripe call
  LastMinute,   \* bound: the minutes that pass
  MaxCalls,     \* bound: service calls started
  MaxFaults     \* bound: lost answers, rate limits, outages, declined cards

Minutes == 0 .. LastMinute

\* _generate_idempotency_key: a digest of the tuple and the calendar minute.
Key == [purchase: Purchases, minute: Minutes]

ASSUME KeyAssumption == NoKey \notin Key
ASSUME RetryAssumption == MAX_RETRIES \in Nat \ {0}
ASSUME BoundAssumption == /\ {LastMinute, MaxCalls, MaxFaults} \subseteq Nat
                          /\ IsFiniteSet(Callers)

VARIABLES
  minute,     \* the calendar minute
  cache,      \* Redis: the idem:<user>:<event>:<amount> keys
  intents,    \* Stripe: the PaymentIntents, by key and request body
  charged,    \* Stripe: the keys whose PaymentIntent has succeeded
  caller,     \* where each caller is
  answered,   \* history: what process_payment and confirm_payment told
  calls,      \* service calls so far
  faults      \* faults so far

vars == <<minute, cache, intents, charged, caller, answered, calls, faults>>

Intent == [key: Key, body: Bodies]
Answer == {"succeeded", "declined", "failed", "idempotency_error"}

Idle == [pc |-> "idle"]
Caching  == [pc: {"caching"}, purchase: Purchases, missed: Minutes, body: Bodies,
             pays: BOOLEAN]
Creating == [pc: {"creating"}, key: Key, body: Bodies, pays: BOOLEAN,
             attempt: 0 .. (MAX_RETRIES - 1)]
Paying   == [pc: {"confirming"}, key: Key, attempt: 0 .. (MAX_RETRIES - 1)]

TypeOK ==
  /\ minute \in Minutes
  /\ cache \in [Purchases -> Key \cup {NoKey}]
  /\ intents \subseteq Intent
  /\ charged \subseteq Key
  /\ caller \in [Callers -> {Idle} \cup Caching \cup Creating \cup Paying]
  /\ answered \subseteq (Key \X Answer)
  /\ calls \in Nat
  /\ faults \in Nat

Init ==
  /\ minute = 0
  /\ cache = [u \in Purchases |-> NoKey]
  /\ intents = {}
  /\ charged = {}
  /\ caller = [c \in Callers |-> Idle]
  /\ answered = {}
  /\ calls = 0
  /\ faults = 0

Goto(c, state) == caller' = [caller EXCEPT ![c] = state]
Fault == faults < MaxFaults /\ faults' = faults + 1

-----------------------------------------------------------------------------
(* _get_or_set_idempotency_key                                             *)

\* create_payment_intent, or process_payment ("pays"), starts with the GET.
\* A cached key is used at once; without one a key has to be generated.
GetKey(c) ==
  /\ caller[c] = Idle
  /\ calls < MaxCalls
  /\ calls' = calls + 1
  /\ \E u \in Purchases, b \in Bodies, pays \in BOOLEAN :
       IF cache[u] # NoKey
         THEN Goto(c, [pc |-> "creating", key |-> cache[u], body |-> b,
                       pays |-> pays, attempt |-> 0])
         ELSE Goto(c, [pc |-> "caching", purchase |-> u, missed |-> minute,
                       body |-> b, pays |-> pays])
  /\ UNCHANGED <<minute, cache, intents, charged, answered, faults>>

Cached_NotStored(key) == UNCHANGED cache

\* SETEX: whatever is cached is overwritten.
Cached(key) == cache' = [cache EXCEPT ![key.purchase] = key]

\* _generate_idempotency_key read the clock between the GET and the SETEX.
NewKeys(s) == [purchase: {s.purchase}, minute: s.missed .. minute]

SetKey(c) ==
  LET s == caller[c]
  IN  /\ s.pc = "caching"
      /\ \E key \in NewKeys(s) :
           /\ Cached(key)
           /\ Goto(c, [pc |-> "creating", key |-> key, body |-> s.body,
                       pays |-> s.pays, attempt |-> 0])
      /\ UNCHANGED <<minute, intents, charged, answered, calls, faults>>

-----------------------------------------------------------------------------
(* _call_stripe_with_retry                                                 *)

Tell(c, result) == answered' = answered \cup {<<caller[c].key, result>>}

Retry_Uncounted(c) == UNCHANGED <<caller, answered>>

\* RateLimitError or another StripeError: back off and try again, or give up
\* with PaymentProcessingError after the last attempt.
Retry(c) ==
  LET s == caller[c]
  IN  IF s.attempt + 1 < MAX_RETRIES
        THEN Goto(c, [s EXCEPT !.attempt = s.attempt + 1]) /\ UNCHANGED answered
        ELSE Goto(c, Idle) /\ Tell(c, "failed")

Known(key) == {i \in intents : i.key = key}

\* Stripe, PaymentIntent.create: a new intent, or the one the key stands for.
Accepts(key, body) == \A i \in Known(key) : i.body = body
Creates(key, body) == intents' = intents \cup {[key |-> key, body |-> body]}

\* The create call is answered: go on to the confirmation, or return.
CreateAnswered(c) ==
  LET s == caller[c]
  IN  /\ s.pc = "creating"
      /\ Accepts(s.key, s.body)
      /\ Creates(s.key, s.body)
      /\ Goto(c, IF s.pays THEN [pc |-> "confirming", key |-> s.key, attempt |-> 0]
                           ELSE Idle)
      /\ UNCHANGED <<minute, cache, charged, answered, calls, faults>>

\* The create call fails in a way that is retried: before it reached Stripe
\* (rate limit, outage) or after Stripe acted on it (time-out).
CreateFails(c) ==
  LET s == caller[c]
  IN  /\ s.pc = "creating"
      /\ Fault
      /\ \/ UNCHANGED intents
         \/ Accepts(s.key, s.body) /\ Creates(s.key, s.body)
      /\ Retry(c)
      /\ UNCHANGED <<minute, cache, charged, calls>>

\* IdempotencyError: the key was used with another body. Not retried.
CreateMismatch(c) ==
  LET s == caller[c]
  IN  /\ s.pc = "creating"
      /\ ~Accepts(s.key, s.body)
      /\ Goto(c, Idle)
      /\ Tell(c, "idempotency_error")
      /\ UNCHANGED <<minute, cache, intents, charged, calls, faults>>

-----------------------------------------------------------------------------
(* process_payment (after the intent is created) and confirm_payment       *)

\* confirm_payment of an intent some create call returned.
ConfirmPayment(c) ==
  /\ caller[c] = Idle
  /\ calls < MaxCalls
  /\ calls' = calls + 1
  /\ \E i \in intents :
       Goto(c, [pc |-> "confirming", key |-> i.key, attempt |-> 0])
  /\ UNCHANGED <<minute, cache, intents, charged, answered, faults>>

\* The loop goes on after an answer, for want of a return.
ConfirmAnswered_LoopGoesOn(c) ==
  LET s == caller[c]
  IN  /\ s.pc = "confirming"
      /\ s.key \notin charged
      /\ charged' = charged \cup {s.key}
      /\ Retry(c)
      /\ UNCHANGED <<minute, cache, intents, calls, faults>>

\* Stripe charges the card and the answer arrives.
ConfirmAnswered(c) ==
  LET s == caller[c]
  IN  /\ s.pc = "confirming"
      /\ s.key \notin charged
      /\ charged' = charged \cup {s.key}
      /\ Goto(c, Idle)
      /\ Tell(c, "succeeded")
      /\ UNCHANGED <<minute, cache, intents, calls, faults>>

\* CardError: not retried.
ConfirmDeclined(c) ==
  LET s == caller[c]
  IN  /\ s.pc = "confirming"
      /\ s.key \notin charged
      /\ Fault
      /\ Goto(c, Idle)
      /\ Tell(c, "declined")
      /\ UNCHANGED <<minute, cache, intents, charged, calls>>

\* Rate limit or outage before the charge, time-out after it.
ConfirmFails(c) ==
  LET s == caller[c]
  IN  /\ s.pc = "confirming"
      /\ Fault
      /\ charged' \in {charged, charged \cup {s.key}}
      /\ Retry(c)
      /\ UNCHANGED <<minute, cache, intents, calls>>

\* The intent has succeeded already: Stripe refuses to confirm it again, which
\* is a StripeError like any other and is retried.
ConfirmRefused(c) ==
  LET s == caller[c]
  IN  /\ s.pc = "confirming"
      /\ s.key \in charged
      /\ Retry(c)
      /\ UNCHANGED <<minute, cache, intents, charged, calls, faults>>

-----------------------------------------------------------------------------
\* The process dies in the middle of a call; Redis and Stripe stay.
Crash(c) ==
  /\ caller[c] # Idle
  /\ Fault
  /\ Goto(c, Idle)
  /\ UNCHANGED <<minute, cache, intents, charged, answered, calls>>

\* The calendar minute rolls over.
NextMinute ==
  /\ minute < LastMinute
  /\ minute' = minute + 1
  /\ UNCHANGED <<cache, intents, charged, caller, answered, calls, faults>>

Proceed(c) ==
  \/ SetKey(c) \/ CreateAnswered(c) \/ CreateFails(c) \/ CreateMismatch(c)
  \/ ConfirmAnswered(c) \/ ConfirmDeclined(c) \/ ConfirmFails(c)
  \/ ConfirmRefused(c)

Next ==
  \/ \E c \in Callers : GetKey(c) \/ ConfirmPayment(c) \/ Proceed(c) \/ Crash(c)
  \/ NextMinute

Spec == Init /\ [][Next]_vars

\* A call that is running goes on.
FairSpec == Spec /\ \A c \in Callers : WF_vars(Proceed(c))

-----------------------------------------------------------------------------
(* Properties the code has                                                 *)

IntentsOf(u) == {i \in intents : i.key.purchase = u}

\* Lines 113-116, the primary defense, as far as it goes: a key is generated
\* only by a call that missed the cache before the first key was stored there.
\* Retries, crashes and later calls add none, so a purchase never has more
\* intents than there are callers (one, if calls do not overlap).
OverlapBoundsDuplicates ==
  \A u \in Purchases : Cardinality(IntentsOf(u)) <= Cardinality(Callers)

Told(k) == <<k, "succeeded">> \in answered
Untold == {k \in charged : ~Told(k)}

\* Lines 221-232 and 256-294: a charge nobody was told of is due to a lost answer
\* or to a call that died. Whatever callers do at a time, each of those leaves
\* one such charge at most; retries, refusals and other calls add none.
UntoldChargesNeedFaults == Cardinality(Untold) <= faults

\* Every call returns: each Stripe error either ends it or uses up one of the
\* MAX_RETRIES attempts (lines 256-294).
EveryCallReturns ==
  \A c \in Callers : (caller[c] # Idle) ~> (caller[c] = Idle)

-----------------------------------------------------------------------------
(* The inductive invariant behind OverlapBoundsDuplicates and              *)
(* UntoldChargesNeedFaults                                                 *)

\* Stripe has one intent for a key.
OneBody == \A i, j \in intents : i.key = j.key => i = j

CacheMatches == \A u \in Purchases : cache[u] # NoKey => cache[u].purchase = u

Using(c, k) == caller[c].pc \in {"creating", "confirming"} /\ caller[c].key = k

\* The keys in use for a purchase, and the callers that are about to add one:
\* together they are never more than the callers, because nobody misses a
\* cache that was ever filled.
KeysOf(u) ==
  {k \in [purchase: {u}, minute: Minutes] :
     k = cache[u] \/ (\E i \in intents : i.key = k) \/ \E c \in Callers : Using(c, k)}
Missed(u) == {c \in Callers : caller[c].pc = "caching" /\ caller[c].purchase = u}
KeysCounted ==
  \A u \in Purchases :
    /\ cache[u] = NoKey => KeysOf(u) = {}
    /\ Cardinality(KeysOf(u)) + Cardinality(Missed(u)) <= Cardinality(Callers)

UntoldCounted == IsFiniteSet(Untold) /\ UntoldChargesNeedFaults

IInv == TypeOK /\ OneBody /\ CacheMatches /\ KeysCounted /\ UntoldCounted

-----------------------------------------------------------------------------
(* Properties the repository states and the code does not have             *)

\* Lines 44-50 and 113-116: calls for one purchase within 24 hours reuse one
\* key, even when the minute rolls over, so it has one PaymentIntent.
OneIntentPerPurchase == \A u \in Purchases : Cardinality(IntentsOf(u)) <= 1

\* Lines 270-271: the same key is never sent with another request body.
NoBodyMismatch == \A a \in answered : a[2] # "idempotency_error"

\* exceptions.py:5, PaymentProcessingError, "Raised when a payment operation
\* fails after exhausting retries": a payment that was reported as failed, and
\* never as succeeded, took no money.
FailedMeansUnpaid ==
  \A k \in charged : <<k, "failed">> \in answered => <<k, "succeeded">> \in answered

=============================================================================
