---------------------------- MODULE SlidingWindow ----------------------------
(***************************************************************************)
(* The sliding-window limiter of utils/rate_limiter.py (RateLimiter.check) *)
(* and of services/notifications/sms_service.py (_check_rate_limit in      *)
(* _send), for one key: one client and one endpoint prefix, or one user.   *)
(*                                                                         *)
(* A check reads the clock of its process and then has Redis run, as one   *)
(* transaction: ZREMRANGEBYSCORE, ZCARD, ZADD, EXPIRE. The clock keeps     *)
(* going in between, and other processes check the same key. An admitted   *)
(* check goes on to the work it guards: the request, or the Twilio call.   *)
(*                                                                         *)
(* A tick is the resolution of time.time(). The clocks of the processes    *)
(* agree with Redis's.                                                     *)
(***************************************************************************)
EXTENDS Integers, FiniteSets

CONSTANTS
  Processes,     \* the server and worker processes
  MaxRequests,   \* max_requests, SMS_RATE_LIMIT_PER_USER_PER_HOUR
  Window,        \* window_seconds, in ticks
  MaxDelay,      \* ticks a check's transaction can come after its clock reading
  LastTick       \* bound: how long the clock runs

ASSUME LimitAssumption ==
  /\ MaxRequests \in Nat \ {0}
  /\ Window \in Nat \ {0}
  /\ MaxDelay \in Nat
  /\ LastTick \in Nat \ {0}

Ticks == 1 .. LastTick

VARIABLES
  clock,      \* the time
  members,    \* Redis: the sorted set; a member is its own score
  expires,    \* Redis: when the key expires
  process,    \* where each process is
  last,       \* the time each process read last
  attempts,   \* history: the times the checks have recorded
  admitted,   \* history: the checks that were admitted
  done        \* history: when guarded work has succeeded

vars == <<clock, members, expires, process, last, attempts, admitted, done>>

Idle    == [pc |-> "idle"]
Running == [pc: {"checking", "working"}, now: Ticks]

TypeOK ==
  /\ clock \in Ticks
  /\ members \subseteq Ticks
  /\ expires \in Nat
  /\ process \in [Processes -> {Idle} \cup Running]
  /\ last \in [Processes -> Ticks \cup {0}]
  /\ attempts \subseteq Ticks
  /\ admitted \subseteq Processes \X Ticks
  /\ done \subseteq Ticks

Init ==
  /\ clock = 1
  /\ members = {}
  /\ expires = 0
  /\ process = [p \in Processes |-> Idle]
  /\ last = [p \in Processes |-> 0]
  /\ attempts = {}
  /\ admitted = {}
  /\ done = {}

-----------------------------------------------------------------------------
\* now = time.time(). There is a round trip to Redis between two checks of a
\* process, so it never reads the same time twice.
ReadClock(p) ==
  /\ process[p] = Idle
  /\ clock > last[p]
  /\ last' = [last EXCEPT ![p] = clock]
  /\ process' = [process EXCEPT ![p] = [pc |-> "checking", now |-> clock]]
  /\ UNCHANGED <<clock, members, expires, attempts, admitted, done>>

Live_Untrimmed(now) == members

\* ZREMRANGEBYSCORE: what it leaves in the set.
Live(now) == {m \in members : m > now - Window}

Allowed_LimitIncluded(now) == Cardinality(Live(now)) <= MaxRequests

\* ZCARD, compared with the limit: this check is not counted yet.
Allowed(now) == Cardinality(Live(now)) < MaxRequests

Lifetime_OneTickLess == Window - 1

\* EXPIRE
Lifetime == Window

\* ZADD: the time is both member and score, so equal times are one member.
Recorded(now) == {now}

\* The Redis transaction and the answer. A refused check is recorded as well.
Check(p) ==
  LET now == process[p].now
  IN  /\ process[p].pc = "checking"
      /\ members' = Live(now) \cup Recorded(now)
      /\ expires' = clock + Lifetime
      /\ attempts' = attempts \cup {now}
      /\ IF Allowed(now)
           THEN /\ process' = [process EXCEPT ![p].pc = "working"]
                /\ admitted' = admitted \cup {<<p, now>>}
           ELSE /\ process' = [process EXCEPT ![p] = Idle]
                /\ UNCHANGED admitted
      /\ UNCHANGED <<clock, last, done>>

\* The request is served, or Twilio accepts the message.
Succeed(p) ==
  /\ process[p].pc = "working"
  /\ done' = done \cup {clock}
  /\ process' = [process EXCEPT ![p] = Idle]
  /\ UNCHANGED <<clock, members, expires, last, attempts, admitted>>

\* The request fails, Twilio refuses (TwilioRestException), or the process
\* dies after its check.
Fail(p) ==
  /\ process[p].pc = "working"
  /\ process' = [process EXCEPT ![p] = Idle]
  /\ UNCHANGED <<clock, members, expires, last, attempts, admitted, done>>

\* RateLimiter.reset: DEL. The history starts anew with the key.
Reset ==
  /\ members' = {}
  /\ attempts' = {}
  /\ admitted' = {}
  /\ UNCHANGED <<clock, expires, process, last, done>>

\* Time passes, and Redis drops the key at the end of its life.
Tick ==
  /\ clock < LastTick
  /\ \A p \in Processes :
       process[p].pc = "checking" => clock < process[p].now + MaxDelay
  /\ clock' = clock + 1
  /\ members' = IF clock' >= expires THEN {} ELSE members
  /\ UNCHANGED <<expires, process, last, attempts, admitted, done>>

Next ==
  \/ \E p \in Processes : ReadClock(p) \/ Check(p) \/ Succeed(p) \/ Fail(p)
  \/ Reset
  \/ Tick

Spec == Init /\ [][Next]_vars

-----------------------------------------------------------------------------
(* Properties the code has                                                 *)

\* rate_limiter.py:86-91, trimming and expiry take away only what is out of
\* the window: every check of the last Window ticks is in the set, whatever
\* process made it and however late its transaction ran.
NothingForgotten == \A a \in attempts : a > clock - Window => a \in members

Since(from, times) == {t \in times : t > from}

\* What it rests on: the set holds times of the past, and the key lives until
\* the last of them is out of the window.
NoFutureTimes ==
  /\ \A m \in members : m <= clock
  /\ \A p \in Processes : process[p].pc = "checking" => process[p].now <= clock
KeyCoversWindow == \A m \in members : m + Window <= expires

IInv == TypeOK /\ NoFutureTimes /\ KeyCoversWindow /\ NothingForgotten

\* rate_limiter.py:95, nobody is refused early: a refusal means that there
\* were MaxRequests checks in the window before it.
RefusedOnlyAtLimit ==
  [][\A p \in Processes :
       (process[p].pc = "checking" /\ process'[p] = Idle)
         => Cardinality(Since(process[p].now - Window, attempts)) >= MaxRequests]_vars

\* The admitted checks in the window that ends at t, shortened by the delay
\* that can pass between a clock reading and its transaction.
AdmittedUpTo(t) ==
  {a \in admitted : t - (Window - MaxDelay) < a[2] /\ a[2] <= t}

\* rate_limiter.py:89-95, "a true sliding window", as far as it goes: wherever
\* the window is put, the admitted checks in it have at most MaxRequests
\* different times, however the transactions of the processes are delayed.
TimesWithinLimit ==
  \A t \in Ticks : Cardinality({a[2] : a \in AdmittedUpTo(t)}) <= MaxRequests

\* What these two rest on besides: the set holds only what checks recorded, every
\* admitted check was recorded, and no check is later than MaxDelay.
RecordsAgree == members \subseteq attempts /\ \A a \in admitted : a[2] \in attempts
DelaysBounded ==
  \A p \in Processes : process[p].pc = "checking" => clock <= process[p].now + MaxDelay

LimitInv == IInv /\ RecordsAgree /\ DelaysBounded /\ TimesWithinLimit

-----------------------------------------------------------------------------
(* Properties the repository states and the code does not have             *)

\* rate_limiter.py:16-17, "a true sliding window with no burst at the
\* boundary": no window has more than MaxRequests admitted checks. True of one
\* process; two can read the same time, and one member then stands for both.
NeverOverLimit == \A t \in Ticks : Cardinality(AdmittedUpTo(t)) <= MaxRequests

\* sms_service.py:156, "each member is a send timestamp": a message is dropped
\* only if MaxRequests messages have been sent in the last hour.
DroppedOnlyAfterSends ==
  [][\A p \in Processes :
       (process[p].pc = "checking" /\ process'[p] = Idle)
         => Cardinality(Since(process[p].now - Window, done)) >= MaxRequests]_vars

=============================================================================
