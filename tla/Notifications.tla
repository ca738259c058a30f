---------------------------- MODULE Notifications ---------------------------
(***************************************************************************)
(* The package services/notifications: the e-mails of email_service.py,    *)
(* queued for Celery workers that call SendGrid, and the validation of     *)
(* phone numbers in sms_service.py, cached in Redis. (The rate limit of    *)
(* text messages is in SlidingWindow.)                                     *)
(*                                                                         *)
(* An e-mail is a task. A run of the task ends well, raises because        *)
(* SendGrid refused, or raises although SendGrid took the message (a lost  *)
(* answer); Celery runs a task that raised again until max_retries. With   *)
(* Celery's defaults the message of a task is acknowledged when its run    *)
(* begins: a worker that dies takes the task along. How long a retry waits *)
(* is left out.                                                            *)
(*                                                                         *)
(* A validation reads the cache, asks Twilio and stores the answer, with   *)
(* other processes in between; a number may become valid or invalid.       *)
(***************************************************************************)
EXTENDS Naturals

CONSTANTS
  Mails,               \* calls of the public methods of EmailService
  MAX_RETRY_ATTEMPTS,  \* max_retries of the task
  Numbers,             \* phone numbers that match the E.164 pattern
  Processes,           \* the processes that send text messages
  CacheTTL,            \* _PHONE_VALIDATION_CACHE_TTL, in ticks
  MaxDelay,            \* bound: ticks from Twilio's answer to the SETEX
  MaxCount,            \* bound: where the counts per e-mail stop
  MaxChanges           \* bound: changes of the validity of numbers

ASSUME RetryAssumption == MAX_RETRY_ATTEMPTS \in Nat
ASSUME TTLAssumption == CacheTTL \in Nat \ {0} /\ MaxDelay \in Nat
ASSUME BoundAssumption == MaxCount > MAX_RETRY_ATTEMPTS + 1 /\ {MaxCount, MaxChanges} \subseteq Nat

VARIABLES
  task,       \* the state of its task
  retries,    \* self.request.retries of its task
  delivered,  \* SendGrid: how often each e-mail went out
  faults,     \* history: the runs of each task that raised
  lost,       \* history: those of them whose message SendGrid had taken
  cache,      \* Redis: the phone_valid keys, with the ticks they have left
  lookup,     \* where the validation of each process is
  valid,      \* Twilio: whether each number is valid
  changed,    \* history: ticks since that changed
  changes     \* changes so far

mailVars  == <<task, retries, delivered, faults, lost>>
phoneVars == <<cache, lookup, valid, changed, changes>>
vars == <<mailVars, phoneVars>>

-----------------------------------------------------------------------------
NoEntry == [left |-> 0]
Entry == [left: 1 .. CacheTTL, answer: BOOLEAN]
Idle == [pc |-> "idle"]
Asking  == [pc: {"asking"}, number: Numbers]
Storing == [pc: {"storing"}, number: Numbers, answer: BOOLEAN, age: 0 .. MaxDelay]

ChangedCap == CacheTTL + MaxDelay + 1

TypeOK ==
  /\ task \in [Mails -> {"unsent", "queued", "running", "sent", "failed", "dropped"}]
  /\ retries \in [Mails -> 0 .. MAX_RETRY_ATTEMPTS]
  /\ {delivered, faults, lost} \subseteq [Mails -> Nat]
  /\ cache \in [Numbers -> {NoEntry} \cup Entry]
  /\ lookup \in [Processes -> {Idle} \cup Asking \cup Storing]
  /\ valid \in [Numbers -> BOOLEAN]
  /\ changed \in [Numbers -> 0 .. ChangedCap]
  /\ changes \in Nat

Init ==
  /\ task = [m \in Mails |-> "unsent"]
  /\ retries = [m \in Mails |-> 0] /\ delivered = retries
  /\ faults = retries /\ lost = retries
  /\ cache = [n \in Numbers |-> NoEntry]
  /\ lookup = [p \in Processes |-> Idle]
  /\ valid \in [Numbers -> BOOLEAN]
  /\ changed = [n \in Numbers |-> ChangedCap]
  /\ changes = 0

-----------------------------------------------------------------------------
(* EmailService                                                            *)

\* No task runs often enough to reach MaxCount.
CountedUp(f, m) == [f EXCEPT ![m] = IF @ < MaxCount THEN @ + 1 ELSE @]

MoveTask(m, from, to) == task[m] = from /\ task' = [task EXCEPT ![m] = to]

\* A public method calls _send_email_task.delay.
Queue(m) ==
  /\ MoveTask(m, "unsent", "queued")
  /\ UNCHANGED <<retries, delivered, faults, lost, phoneVars>>

\* A worker takes the task and begins to run it.
StartTask(m) ==
  /\ MoveTask(m, "queued", "running")
  /\ UNCHANGED <<retries, delivered, faults, lost, phoneVars>>

\* SendGrid takes the message.
Deliver(m) == delivered' = CountedUp(delivered, m)

Accepted_OkOnly == {200, 201}

\* The status codes that end a task well.
Accepted == {200, 201, 202}

Retry_OnceLess(m) ==
  IF retries[m] + 1 < MAX_RETRY_ATTEMPTS
    THEN /\ MoveTask(m, "running", "queued")
         /\ retries' = [retries EXCEPT ![m] = @ + 1]
    ELSE MoveTask(m, "running", "failed") /\ UNCHANGED retries

Retry_Forever(m) == MoveTask(m, "running", "queued") /\ UNCHANGED retries

\* autoretry_for: a task that raised is queued again, up to max_retries times.
Retry(m) ==
  IF retries[m] < MAX_RETRY_ATTEMPTS
    THEN /\ MoveTask(m, "running", "queued")
         /\ retries' = [retries EXCEPT ![m] = @ + 1]
    ELSE MoveTask(m, "running", "failed") /\ UNCHANGED retries

\* client.send returns: SendGrid answers 202 to what it takes.
SendAccepted(m) ==
  /\ Deliver(m)
  /\ IF 202 \in Accepted THEN MoveTask(m, "running", "sent") /\ UNCHANGED retries
                         ELSE Retry(m)
  /\ UNCHANGED <<faults, lost, phoneVars>>

Raise(m) == faults' = CountedUp(faults, m) /\ Retry(m)

\* Another status, or no connection.
SendRefused(m) ==
  /\ Raise(m)
  /\ UNCHANGED <<delivered, lost, phoneVars>>

\* SendGrid took the message, and its answer did not arrive.
AnswerLost(m) ==
  /\ Raise(m)
  /\ Deliver(m)
  /\ lost' = CountedUp(lost, m)
  /\ UNCHANGED phoneVars

\* The worker dies, before or after the call.
WorkerDies(m) ==
  /\ MoveTask(m, "running", "dropped")
  /\ Deliver(m) \/ UNCHANGED delivered
  /\ UNCHANGED <<retries, faults, lost, phoneVars>>

-----------------------------------------------------------------------------
(* SMSService._validate_phone_number                                       *)

Look(p, state) == lookup' = [lookup EXCEPT ![p] = state]

Hit_Refreshes(n) == cache' = [cache EXCEPT ![n].left = CacheTTL]

\* A cached answer is returned; reading does not change the entry.
Hit(n) == UNCHANGED cache

\* The GET: the answer is there, or Twilio has to be asked.
GetCached(p) ==
  /\ lookup[p] = Idle
  /\ \E n \in Numbers :
       IF cache[n] # NoEntry
         THEN Hit(n) /\ UNCHANGED lookup
         ELSE Look(p, [pc |-> "asking", number |-> n]) /\ UNCHANGED cache
  /\ UNCHANGED <<mailVars, valid, changed, changes>>

\* Twilio answers.
Fetch(p) ==
  /\ lookup[p].pc = "asking"
  /\ Look(p, [pc |-> "storing", number |-> lookup[p].number,
              answer |-> valid[lookup[p].number], age |-> 0])
  /\ UNCHANGED <<mailVars, cache, valid, changed, changes>>

\* TwilioRestException: the message is let through, nothing is stored.
FetchFails(p) ==
  /\ lookup[p].pc = "asking"
  /\ Look(p, Idle)
  /\ UNCHANGED <<mailVars, cache, valid, changed, changes>>

\* SETEX, over whatever another process has stored since.
Store(p) ==
  LET c == lookup[p]
  IN  /\ c.pc = "storing"
      /\ cache' = [cache EXCEPT ![c.number] = [left |-> CacheTTL, answer |-> c.answer]]
      /\ Look(p, Idle)
      /\ UNCHANGED <<mailVars, valid, changed, changes>>

\* A number is given up, or given to somebody.
Change(n) ==
  /\ changes < MaxChanges
  /\ changes' = changes + 1
  /\ valid' = [valid EXCEPT ![n] = ~@]
  /\ changed' = [changed EXCEPT ![n] = 0]
  /\ UNCHANGED <<mailVars, cache, lookup>>

\* Time passes, entries expire; no answer waits longer than MaxDelay.
Tick ==
  /\ \A p \in Processes : lookup[p].pc = "storing" => lookup[p].age < MaxDelay
  /\ cache' = [n \in Numbers |-> IF cache[n].left <= 1 THEN NoEntry
                                 ELSE [cache[n] EXCEPT !.left = @ - 1]]
  /\ lookup' = [p \in Processes |->
                  IF lookup[p].pc = "storing"
                    THEN [lookup[p] EXCEPT !.age = @ + 1] ELSE lookup[p]]
  /\ changed' = [n \in Numbers |->
                   IF changed[n] < ChangedCap THEN changed[n] + 1 ELSE ChangedCap]
  /\ UNCHANGED <<mailVars, valid, changes>>

-----------------------------------------------------------------------------
RunTask(m) == \/ StartTask(m) \/ SendAccepted(m) \/ SendRefused(m)
              \/ AnswerLost(m) \/ WorkerDies(m)

Next ==
  \/ \E m \in Mails : Queue(m) \/ RunTask(m)
  \/ \E p \in Processes : GetCached(p) \/ Fetch(p) \/ FetchFails(p) \/ Store(p)
  \/ \E n \in Numbers : Change(n)
  \/ Tick

Spec == Init /\ [][Next]_vars

\* Workers take what is queued and go on with what they run.
FairSpec == Spec /\ \A m \in Mails : WF_vars(RunTask(m))

-----------------------------------------------------------------------------
(* Properties the code has                                                 *)

\* A retry sends an e-mail a second time only if the answer to an earlier run
\* was lost: what SendGrid reports as taken is not sent again (lines 202-218).
DuplicatesNeedLostAnswers ==
  \A m \in Mails : delivered[m] <= lost[m] + (IF task[m] \in {"sent", "dropped"}
                                                THEN 1 ELSE 0)

\* Lines 46-47 and 157-164: an e-mail is given up only when MAX_RETRY_ATTEMPTS
\* runs have raised, and one more.
GivenUpAfterAllAttempts ==
  \A m \in Mails : task[m] = "failed" => faults[m] = MAX_RETRY_ATTEMPTS + 1

\* A queued e-mail does not stay in the queue, or in a loop of retries.
EveryMailEnds ==
  \A m \in Mails : (task[m] = "queued")
                     ~> (task[m] \in {"sent", "failed", "dropped"})

\* sms_service.py:37-38: a number is treated by a cached answer that has become
\* wrong only until the 30 days from that answer are over, however often it
\* is used and whatever other processes store.
CachedAnswerIsRecent ==
  \A n \in Numbers :
    (cache[n] # NoEntry /\ cache[n].answer # valid[n])
      => changed[n] <= (CacheTTL - cache[n].left) + MaxDelay

-----------------------------------------------------------------------------
(* The inductive invariant behind the three invariants                     *)

\* Each run that raised was followed by a retry or ended the task, so the counts
\* never reach MaxCount.
RunsCounted ==
  \A m \in Mails :
    /\ faults[m] = retries[m] + (IF task[m] = "failed" THEN 1 ELSE 0)
    /\ task[m] = "failed" => retries[m] = MAX_RETRY_ATTEMPTS
    /\ lost[m] <= faults[m]

\* An answer that is about to be stored was right when it was fetched.
AnswersAreRecent ==
  \A p \in Processes :
    LET c == lookup[p]
    IN  (c.pc = "storing" /\ c.answer # valid[c.number]) => changed[c.number] <= c.age

IInv == /\ TypeOK /\ RunsCounted /\ DuplicatesNeedLostAnswers
        /\ AnswersAreRecent /\ CachedAnswerIsRecent

-----------------------------------------------------------------------------
(* Properties the repository states and the code does not have             *)

\* Line 13, "max 4 attempts": no e-mail has more runs than that.
FourAttempts == \A m \in Mails : faults[m] <= MAX_RETRY_ATTEMPTS

=============================================================================
