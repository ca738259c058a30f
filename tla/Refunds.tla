------------------------------ MODULE Refunds ------------------------------
(***************************************************************************)
(* RefundProcessor, services/payments/refund_processor.py, for the refunds *)
(* of one charge: initiate_refund with its currency conversion, and        *)
(* check_refund_status with its time limit for each card network.          *)
(*                                                                         *)
(* initiate_refund makes three calls to Stripe in a row: it retrieves the  *)
(* payment, creates the refund, and retrieves the charge to learn the card *)
(* network, from which it estimates the days the refund will take. Other   *)
(* requests, status checks and days pass in between. Amounts are integers  *)
(* in the minor unit of their currency; a rate is a fraction.              *)
(*                                                                         *)
(* Days are calendar days, the unit in which line 210 measures the age of  *)
(* a refund. The table of windows is in business days (line 39), but both  *)
(* the caller and line 210 use its numbers as they are: so does the model, *)
(* and WarnedInBusinessDays says what line 39 asks for.                    *)
(***************************************************************************)
EXTENDS Integers, Sequences, FiniteSets, FiniteSetsExt

CONSTANTS
  ChargeAmount,     \* what the payment captured, in the original currency
  OriginalCurrency,
  Networks,         \* what the charge says of its card network: see network
  Currencies,       \* what callers pass for currency
  Amounts,          \* what callers pass for amount_cents, beside None
  Rates,            \* rows of exchange_rates: <<numerator, denominator>>
  Processes,        \* callers of initiate_refund
  DaysPerTick,      \* bound: how fast time passes
  MaxRefunds,       \* bound: refunds of the charge
  MaxLost           \* bound: answers that do not reach their caller

ASSUME AmountAssumption == ChargeAmount \in Nat \ {0} /\ Amounts \subseteq Nat
ASSUME RateAssumption == Rates \subseteq (Nat \ {0}) \X (Nat \ {0})
ASSUME ProcessAssumption == IsFiniteSet(Processes)
ASSUME BoundAssumption ==
  MaxRefunds \in Nat /\ MaxLost \in Nat /\ DaysPerTick \in Nat \ {0}

None == -1        \* no amount: a refund of the whole charge
NoRate == <<0, 1>>
NoNetwork == "null"
NotTold == "not told"

ASSUME NetworkAssumption == NotTold \notin Networks

ZERO_DECIMAL_CURRENCIES ==
  {"bif", "clp", "djf", "gnf", "jpy", "kmf", "krw", "mga",
   "pyg", "rwf", "ugx", "vnd", "vuv", "xaf", "xof", "xpf"}

\* max_days; min_days is only told to the caller.
NETWORK_PROCESSING_WINDOWS ==
  [visa |-> 10, mastercard |-> 5, amex |-> 30, discover |-> 10]

Window(network) ==
  IF network \in DOMAIN NETWORK_PROCESSING_WINDOWS
    THEN NETWORK_PROCESSING_WINDOWS[network] ELSE 10

\* Bound: older than every window, so older refunds are all alike.
MaxAge == 30 + DaysPerTick

VARIABLES
  network,   \* Stripe: the card network of the charge, "unknown" for a charge
             \* without that key, NoNetwork for one where its value is null
  refunds,   \* Stripe: the refunds of the charge, in the order of creation
  process,   \* where each caller is
  lost       \* answers that did not reach their caller so far

vars == <<network, refunds, process, lost>>

Idle == [pc |-> "idle"]
Asked == {None} \cup Amounts

Refund == [asked: Asked, amount: 1 .. ChargeAmount,
           status: {"pending", "succeeded", "failed"}, age: 0 .. MaxAge,
           told: Networks \cup {"unknown", NotTold}, warned: BOOLEAN]
Creating == [pc: {"creating"}, asked: Asked, amount: {None} \cup Nat]
Estimating == [pc: {"estimating"}, refund: 1 .. MaxRefunds]

TypeOK ==
  /\ network \in Networks
  /\ refunds \in Seq(Refund)
  /\ Len(refunds) <= MaxRefunds
  /\ process \in [Processes -> {Idle} \cup Creating \cup Estimating]
  /\ lost \in 0 .. MaxLost

Init ==
  /\ network \in Networks
  /\ refunds = << >>
  /\ process = [p \in Processes |-> Idle]
  /\ lost = 0

Goto(p, state) == process' = [process EXCEPT ![p] = state]

-----------------------------------------------------------------------------
(* Conversion                                                              *)

\* Minor units in one unit of the currency.
Scale(currency) == IF currency \in ZERO_DECIMAL_CURRENCIES THEN 1 ELSE 100

HalfUp(num, den) == (2 * num + den) \div (2 * den)

Convert_NoScale(amount, from, to, r) == HalfUp(amount * r[1], r[2])

\* _convert_refund_currency with a rate: into units, times the rate, into the
\* minor units of the other currency, ROUND_HALF_UP.
Convert(amount, from, to, r) ==
  HalfUp(amount * r[1] * Scale(to), Scale(from) * r[2])

\* What initiate_refund asks Stripe for. `amount_cents or intent["amount"]`
\* takes 0 for no amount; without a rate that amount is not converted.
RefundAmount(asked, currency, rate) ==
  LET amount == IF asked \in {None, 0} THEN ChargeAmount ELSE asked
  IN  IF currency = OriginalCurrency THEN asked
      ELSE IF rate = NoRate THEN amount
      ELSE Convert(amount, OriginalCurrency, currency, rate)

-----------------------------------------------------------------------------
(* initiate_refund                                                         *)

\* Until the amount is known. The caller that omits currency passes the
\* original one. The rate is that of the newest row when the refund is asked
\* for, whatever it was when the customer paid, or none.
InitiateRefund(p) ==
  /\ process[p] = Idle
  /\ \E asked \in Asked, currency \in Currencies \cup {OriginalCurrency},
        rate \in Rates \cup {NoRate} :
       Goto(p, [pc |-> "creating", asked |-> asked,
                amount |-> RefundAmount(asked, currency, rate)])
  /\ UNCHANGED <<network, refunds, lost>>

\* Stripe: what has not been refunded yet.
Remaining ==
  ChargeAmount - MapThenSumSet(LAMBDA r : refunds[r].amount,
                               {r \in DOMAIN refunds : refunds[r].status # "failed"})

\* Stripe: Refund.create makes a refund in the currency of the charge, of the
\* given amount or of all that remains.
Created(p) ==
  LET s == process[p]
      amount == IF s.amount = None THEN Remaining ELSE s.amount
  IN  /\ s.pc = "creating"
      /\ amount \in 1 .. Remaining
      /\ Len(refunds) < MaxRefunds
      /\ refunds' = Append(refunds,
           [asked |-> s.asked, amount |-> amount, status |-> "pending", age |-> 0,
            told |-> NotTold, warned |-> FALSE])

CreateRefund(p) ==
  /\ Created(p)
  /\ Goto(p, [pc |-> "estimating", refund |-> Len(refunds) + 1])
  /\ UNCHANGED <<network, lost>>

\* RefundError: Stripe refuses or cannot be reached.
RefundError(p) ==
  /\ process[p].pc = "creating"
  /\ Goto(p, Idle)
  /\ UNCHANGED <<network, refunds, lost>>

\* RefundError too: Stripe created the refund, its answer was lost.
AnswerLost(p) ==
  /\ lost < MaxLost
  /\ lost' = lost + 1
  /\ Created(p)
  /\ Goto(p, Idle)
  /\ UNCHANGED network

\* _get_card_network: "unknown" if Stripe does not answer.
CardNetworks == {network, "unknown"}

Estimate_Raises(p) ==
  LET r == process[p].refund
  IN  /\ process[p].pc = "estimating"
      /\ network # NoNetwork
      /\ \/ refunds' = [refunds EXCEPT ![r].told = network]
         \/ UNCHANGED refunds
      /\ Goto(p, Idle)
      /\ UNCHANGED <<network, lost>>

\* The caller is told of the refund, of the card network and of its window.
Estimate(p) ==
  LET r == process[p].refund
  IN  /\ process[p].pc = "estimating"
      /\ \E n \in CardNetworks \ {NoNetwork} :
           refunds' = [refunds EXCEPT ![r].told = n]
      /\ Goto(p, Idle)
      /\ UNCHANGED <<network, lost>>

\* card_network.lower() of a null network: AttributeError, for a refund that
\* Stripe has made.
EstimateRaises(p) ==
  /\ process[p].pc = "estimating"
  /\ network = NoNetwork
  /\ Goto(p, Idle)
  /\ UNCHANGED <<network, refunds, lost>>

\* The process dies before it answers.
Crash(p) ==
  /\ process[p].pc = "estimating"
  /\ lost < MaxLost
  /\ lost' = lost + 1
  /\ Goto(p, Idle)
  /\ UNCHANGED <<network, refunds>>

-----------------------------------------------------------------------------
(* check_refund_status                                                     *)

Overdue_AmexOnly(refund) ==
  refund.status = "pending" /\ network = "amex" /\ refund.age > Window("amex")

Overdue_FromTheDay(refund) ==
  refund.status = "pending" /\ refund.age >= Window(network)

Overdue(refund) == refund.status = "pending" /\ refund.age > Window(network)

\* The answer has a timeout_warning, for amex or for another network. There is no
\* answer, and nothing changes, when Stripe cannot be reached or the network is
\* null: that raises at the same .lower().
CheckRefundStatus(r) ==
  /\ r \in DOMAIN refunds
  /\ network # NoNetwork
  /\ refunds' = [refunds EXCEPT ![r].warned = @ \/ Overdue(refunds[r])]
  /\ UNCHANGED <<network, process, lost>>

-----------------------------------------------------------------------------
(* The environment                                                         *)

\* The network settles the refund or refuses it; some it never does.
Settle(r) ==
  /\ r \in DOMAIN refunds
  /\ refunds[r].status = "pending"
  /\ \E status \in {"succeeded", "failed"} :
       refunds' = [refunds EXCEPT ![r].status = status]
  /\ UNCHANGED <<network, process, lost>>

\* Days pass.
Tick ==
  /\ refunds' = [r \in DOMAIN refunds |->
                  [refunds[r] EXCEPT !.age = IF @ + DaysPerTick <= MaxAge THEN @ + DaysPerTick ELSE @]]
  /\ UNCHANGED <<network, process, lost>>

Next ==
  \/ \E p \in Processes :
       \/ InitiateRefund(p) \/ CreateRefund(p) \/ RefundError(p) \/ AnswerLost(p)
       \/ Estimate(p) \/ EstimateRaises(p) \/ Crash(p)
  \/ \E r \in 1 .. MaxRefunds : CheckRefundStatus(r) \/ Settle(r)
  \/ Tick

Spec == Init /\ [][Next]_vars

\* Days pass, and the daily refund_reconciler job (lines 201-203) checks every
\* refund. Nothing is assumed about callers, Stripe or the card network.
FairSpec ==
  /\ Spec
  /\ WF_vars(Tick)
  /\ \A r \in 1 .. MaxRefunds : WF_vars(CheckRefundStatus(r))

-----------------------------------------------------------------------------
(* Properties the code has                                                 *)

\* Lines 123-162: of every refund Stripe made, its caller is told or is about
\* to be, unless an answer was lost or the process died: that the lookup of the
\* card network fails, or finds none, is no reason to raise. Not so for a charge
\* whose network is null: EveryCallerIsAnswered.
Untold == {r \in DOMAIN refunds : refunds[r].told = NotTold}
Estimators == {p \in Processes : process[p].pc = "estimating"}

CallersAreTold ==
  network # NoNetwork => Cardinality(Untold) <= Cardinality(Estimators) + lost

\* Lines 136-148 and 209-213: the two uses of the table, the estimate and the
\* warning, can only disagree in one way. A warning in the calendar days that the
\* caller was told to wait means that the caller was told "unknown", because the
\* lookup failed then, of a network whose window is shorter.
Early(refund) ==
  refund.warned /\ refund.told # NotTold /\ refund.age <= Window(refund.told)

EarlyWarningsNeedAFailedLookup ==
  \A r \in DOMAIN refunds :
    Early(refunds[r]) => /\ refunds[r].told = "unknown" /\ network # "unknown"
                         /\ Window(network) < Window("unknown")

\* What these rest on: a caller that still has to learn the days is the only one
\* to do so for its refund, and a warning was given after the network's window.
EstimatesPending ==
  /\ \A p \in Processes :
       process[p].pc = "estimating" =>
         /\ process[p].refund \in DOMAIN refunds
         /\ refunds[process[p].refund].told = NotTold
  /\ \A p, q \in Processes :
       /\ process[p].pc = "estimating" /\ process[q].pc = "estimating"
       /\ process[p].refund = process[q].refund
       => p = q

WarnedAreOverdue ==
  \A r \in DOMAIN refunds : refunds[r].warned => refunds[r].age > Window(network)

\* And callers are told what the lookup can find.
ToldTheNetwork ==
  \A r \in DOMAIN refunds : refunds[r].told \in {NotTold, network, "unknown"}

IInv ==
  /\ TypeOK /\ EstimatesPending /\ CallersAreTold /\ WarnedAreOverdue /\ ToldTheNetwork

\* Lines 194-203: a refund that the network neither settles nor refuses is
\* warned about in the end, of any network that is not null.
Unresolved(r) ==
  /\ r \in DOMAIN refunds /\ network # NoNetwork
  /\ refunds[r].status = "pending" /\ ~refunds[r].warned

EveryStuckRefundIsWarnedOf ==
  \A r \in 1 .. MaxRefunds : Unresolved(r) ~> ~Unresolved(r)

\* The converted amount is within half a minor unit of the exact value, and a
\* half is rounded up.
WithinHalfUnit(amount, from, to, r) ==
  LET exact == amount * r[1] * Scale(to)
      den   == Scale(from) * r[2]
      twice == 2 * (Convert(amount, from, to, r) * den - exact)
  IN  -den < twice /\ twice <= den

-----------------------------------------------------------------------------
(* Properties the repository states and the code does not have             *)

\* Lines 87 and 270: a caller that gives no amount gets the whole charge
\* refunded, "to ensure the customer gets back what they paid".
WholeChargeGoesBack ==
  refunds # << >> /\ refunds[1].asked = None => refunds[1].amount = ChargeAmount

\* Line 87: only "None" is a full refund. Nothing is refunded for nothing.
NothingAskedNothingRefunded ==
  \A r \in DOMAIN refunds : refunds[r].asked # 0

\* Lines 92-93, "Returns: Dict with refund details and estimated processing
\* window": CallersAreTold for any charge. A null network raises after the refund.
EveryCallerIsAnswered ==
  Cardinality(Untold) <= Cardinality(Estimators) + lost

\* Line 191, a warning means that a refund "has exceeded the expected processing
\* window": also the one its caller was told to expect (line 93, "estimated
\* processing window"). After a failed lookup that is not the network's.
WarnedAfterTheWindowTold == \A r \in DOMAIN refunds : ~Early(refunds[r])

\* Line 39, "(in business days)": the window the caller was told is over in that
\* unit too, whatever the weekday on which the refund was made.
BusinessDays(weekday, days) ==
  Cardinality({d \in weekday + 1 .. weekday + days : d % 7 < 5})

WarnedInBusinessDays ==
  \A r \in DOMAIN refunds, weekday \in 0 .. 6 :
    refunds[r].warned /\ refunds[r].told = network =>
      BusinessDays(weekday, refunds[r].age) > Window(network)

=============================================================================
