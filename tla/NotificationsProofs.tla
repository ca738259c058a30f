------------------------ MODULE NotificationsProofs -------------------------
(***************************************************************************)
(* Proofs about Notifications, for any e-mails, numbers and processes, any *)
(* number of attempts, any life of the cache and any delay.                *)
(***************************************************************************)
EXTENDS Notifications, TLAPS

States == {Idle} \cup Asking \cup Storing

\* What the program counter says of the record it is part of.
LEMMA ShapeOfStates ==
  ASSUME NEW s \in States
  PROVE  /\ s.pc = "asking" => s \in Asking
         /\ s.pc = "storing" => s \in Storing
BY DEF States, Idle, Asking, Storing

LEMMA ShapeOfEntries ==
  ASSUME NEW x \in {NoEntry} \cup Entry
  PROVE  /\ x.left \in 0 .. CacheTTL
         /\ x # NoEntry <=> x.left # 0
         /\ x # NoEntry => x \in Entry
BY TTLAssumption DEF NoEntry, Entry

-----------------------------------------------------------------------------
(* Type correctness                                                        *)

MailTypes ==
  /\ task \in [Mails -> {"unsent", "queued", "running", "sent", "failed", "dropped"}]
  /\ retries \in [Mails -> 0 .. MAX_RETRY_ATTEMPTS]
  /\ delivered \in [Mails -> Nat]
  /\ faults \in [Mails -> Nat]
  /\ lost \in [Mails -> Nat]

PhoneTypes ==
  /\ cache \in [Numbers -> {NoEntry} \cup Entry]
  /\ lookup \in [Processes -> States]
  /\ valid \in [Numbers -> BOOLEAN]
  /\ changed \in [Numbers -> 0 .. ChangedCap]
  /\ changes \in Nat

LEMMA TypeParts == TypeOK <=> MailTypes /\ PhoneTypes
BY DEF TypeOK, MailTypes, PhoneTypes, States

LEMMA TypeInit == Init => TypeOK
BY RetryAssumption, TTLAssumption DEF Init, TypeOK, ChangedCap

LEMMA CountedUpType ==
  ASSUME NEW f \in [Mails -> Nat], NEW m \in Mails
  PROVE  CountedUp(f, m) \in [Mails -> Nat]
BY BoundAssumption DEF CountedUp

LEMMA RetryType ==
  ASSUME MailTypes, NEW m \in Mails, Retry(m)
  PROVE  /\ task' \in [Mails -> {"unsent", "queued", "running", "sent", "failed", "dropped"}]
         /\ retries' \in [Mails -> 0 .. MAX_RETRY_ATTEMPTS]
<1> USE RetryAssumption DEF MailTypes
<1>1. CASE retries[m] < MAX_RETRY_ATTEMPTS
  <2>1. retries[m] + 1 \in 0 .. MAX_RETRY_ATTEMPTS
    BY <1>1
  <2> QED BY <1>1, <2>1 DEF Retry, MoveTask
<1>2. CASE ~(retries[m] < MAX_RETRY_ATTEMPTS)
  BY <1>2 DEF Retry, MoveTask
<1> QED BY <1>1, <1>2

LEMMA MailTypesNext == MailTypes /\ [Next]_vars => MailTypes'
<1> SUFFICES ASSUME MailTypes, [Next]_vars PROVE MailTypes'
  OBVIOUS
<1>1. ASSUME NEW m \in Mails, Queue(m) \/ StartTask(m) PROVE MailTypes'
  BY <1>1 DEF Queue, StartTask, MoveTask, MailTypes
<1>2. ASSUME NEW m \in Mails, SendAccepted(m) PROVE MailTypes'
  BY <1>2, CountedUpType DEF SendAccepted, Deliver, Accepted, MoveTask, MailTypes
<1>3. ASSUME NEW m \in Mails, SendRefused(m) PROVE MailTypes'
  BY <1>3, RetryType, CountedUpType DEF SendRefused, Raise, MailTypes
<1>4. ASSUME NEW m \in Mails, AnswerLost(m) PROVE MailTypes'
  BY <1>4, RetryType, CountedUpType DEF AnswerLost, Raise, Deliver, MailTypes
<1>5. ASSUME NEW m \in Mails, WorkerDies(m) PROVE MailTypes'
  BY <1>5, CountedUpType DEF WorkerDies, Deliver, MoveTask, MailTypes
<1>6. ASSUME UNCHANGED mailVars PROVE MailTypes'
  BY <1>6 DEF mailVars, MailTypes
<1> QED BY <1>1, <1>2, <1>3, <1>4, <1>5, <1>6 DEF Next, RunTask, GetCached, Fetch,
          FetchFails, Store, Change, Tick, vars

LEMMA PhoneTypesNext == PhoneTypes /\ [Next]_vars => PhoneTypes'
<1> SUFFICES ASSUME PhoneTypes, [Next]_vars PROVE PhoneTypes'
  OBVIOUS
<1> USE TTLAssumption, BoundAssumption DEF PhoneTypes
<1>1. ASSUME NEW p \in Processes, GetCached(p) PROVE PhoneTypes'
  <2>1. PICK n \in Numbers :
          IF cache[n] # NoEntry
            THEN Hit(n) /\ UNCHANGED lookup
            ELSE Look(p, [pc |-> "asking", number |-> n]) /\ UNCHANGED cache
    BY <1>1 DEF GetCached
  <2>2. [pc |-> "asking", number |-> n] \in States
    BY DEF States, Asking
  <2> QED BY <1>1, <2>1, <2>2 DEF GetCached, Hit, Look
<1>2. ASSUME NEW p \in Processes, Fetch(p) PROVE PhoneTypes'
  <2>1. lookup[p].number \in Numbers
    BY <1>2, ShapeOfStates DEF Fetch, Asking
  <2>2. [pc |-> "storing", number |-> lookup[p].number,
         answer |-> valid[lookup[p].number], age |-> 0] \in States
    BY <2>1 DEF States, Storing
  <2> QED BY <1>2, <2>2 DEF Fetch, Look
<1>3. ASSUME NEW p \in Processes, FetchFails(p) PROVE PhoneTypes'
  BY <1>3 DEF FetchFails, Look, States
<1>4. ASSUME NEW p \in Processes, Store(p) PROVE PhoneTypes'
  <2>1. lookup[p].number \in Numbers /\ lookup[p].answer \in BOOLEAN
    BY <1>4, ShapeOfStates DEF Store, Storing
  <2>2. [left |-> CacheTTL, answer |-> lookup[p].answer] \in Entry
    BY <2>1 DEF Entry
  <2> QED BY <1>4, <2>1, <2>2 DEF Store, Look, States
<1>5. ASSUME NEW n \in Numbers, Change(n) PROVE PhoneTypes'
  <2>1. 0 \in 0 .. ChangedCap /\ changes + 1 \in Nat
    BY DEF ChangedCap
  <2>2. valid' \in [Numbers -> BOOLEAN]
    BY <1>5, Zenon DEF Change
  <2> QED BY <1>5, <2>1, <2>2 DEF Change
<1>6. CASE Tick
  <2>1. ASSUME NEW n \in Numbers
        PROVE  (IF cache[n].left <= 1 THEN NoEntry ELSE [cache[n] EXCEPT !.left = @ - 1])
                 \in {NoEntry} \cup Entry
    <3>1. CASE cache[n].left <= 1
      BY <3>1
    <3>2. CASE ~(cache[n].left <= 1)
      <4>1. cache[n] \in Entry /\ cache[n].left - 1 \in 1 .. CacheTTL
        BY <3>2, ShapeOfEntries
      <4>2. [cache[n] EXCEPT !.left = cache[n].left - 1] \in Entry
        BY <4>1 DEF Entry
      <4> QED BY <3>2, <4>2
    <3> QED BY <3>1, <3>2
  <2>2. ASSUME NEW p \in Processes
        PROVE  (IF lookup[p].pc = "storing" THEN [lookup[p] EXCEPT !.age = @ + 1]
                                            ELSE lookup[p]) \in States
    <3>1. CASE lookup[p].pc = "storing"
      <4>1. lookup[p] \in Storing /\ lookup[p].age < MaxDelay
        BY <1>6, <3>1, ShapeOfStates DEF Tick
      <4>2. lookup[p].age + 1 \in 0 .. MaxDelay
        BY <4>1 DEF Storing
      <4>3. [lookup[p] EXCEPT !.age = lookup[p].age + 1] \in Storing
        BY <4>1, <4>2 DEF Storing
      <4> QED BY <3>1, <4>3 DEF States
    <3>2. CASE lookup[p].pc # "storing"
      BY <3>2
    <3> QED BY <3>1, <3>2
  <2>3. ASSUME NEW n \in Numbers
        PROVE  (IF changed[n] < ChangedCap THEN changed[n] + 1 ELSE ChangedCap)
                 \in 0 .. ChangedCap
    BY DEF ChangedCap
  <2>4. cache' \in [Numbers -> {NoEntry} \cup Entry]
    BY <1>6, <2>1 DEF Tick
  <2>5. lookup' \in [Processes -> States]
    BY <1>6, <2>2 DEF Tick
  <2>6. changed' \in [Numbers -> 0 .. ChangedCap]
    BY <1>6, <2>3 DEF Tick
  <2> QED BY <1>6, <2>4, <2>5, <2>6 DEF Tick
<1>7. ASSUME UNCHANGED phoneVars PROVE PhoneTypes'
  BY <1>7 DEF phoneVars
<1> QED BY <1>1, <1>2, <1>3, <1>4, <1>5, <1>6, <1>7 DEF Next, RunTask, Queue, StartTask,
          SendAccepted, SendRefused, AnswerLost, WorkerDies, vars

LEMMA TypeNext == TypeOK /\ [Next]_vars => TypeOK'
BY TypeParts, MailTypesNext, PhoneTypesNext DEF TypeOK, MailTypes, PhoneTypes, States

\* The tasks, the counts, the cache and the lookups always have their types.
THEOREM TypeCorrect == Spec => []TypeOK
BY TypeInit, TypeNext, PTL DEF Spec

-----------------------------------------------------------------------------
(* E-mails                                                                 *)

\* The part of the invariant that is about one e-mail.
MailInv(m) ==
  /\ faults[m] = retries[m] + (IF task[m] = "failed" THEN 1 ELSE 0)
  /\ task[m] = "failed" => retries[m] = MAX_RETRY_ATTEMPTS
  /\ lost[m] <= faults[m]
  /\ delivered[m] <= lost[m] + (IF task[m] \in {"sent", "dropped"} THEN 1 ELSE 0)

\* A run that raises uses up an attempt, and the count of its faults goes up.
LEMMA RaiseCounts ==
  ASSUME MailTypes, NEW m \in Mails, MailInv(m), Raise(m)
  PROVE  /\ task[m] = "running" /\ task'[m] \in {"queued", "failed"}
         /\ faults'[m] = faults[m] + 1
         /\ faults'[m] = retries'[m] + (IF task'[m] = "failed" THEN 1 ELSE 0)
         /\ task'[m] = "failed" => retries'[m] = MAX_RETRY_ATTEMPTS
<1> USE DEF MailTypes
<1>1. task[m] = "running"
  BY DEF Raise, Retry, MoveTask
<1>2. faults[m] = retries[m] /\ retries[m] \in 0 .. MAX_RETRY_ATTEMPTS
  BY <1>1 DEF MailInv
<1>3. faults'[m] = faults[m] + 1
  BY <1>2, RetryAssumption, BoundAssumption DEF Raise, CountedUp
<1>4. CASE retries[m] < MAX_RETRY_ATTEMPTS
  BY <1>1, <1>2, <1>3, <1>4 DEF Raise, Retry, MoveTask
<1>5. CASE ~(retries[m] < MAX_RETRY_ATTEMPTS)
  BY <1>1, <1>2, <1>3, <1>5, RetryAssumption DEF Raise, Retry, MoveTask
<1> QED BY <1>1, <1>3, <1>4, <1>5

LEMMA MailInvNext ==
  ASSUME MailTypes, NEW m \in Mails, MailInv(m), [Next]_vars
  PROVE  MailInv(m)'
<1> USE DEF MailTypes
<1> DEFINE Same == /\ task'[m] = task[m] /\ retries'[m] = retries[m]
                   /\ faults'[m] = faults[m] /\ lost'[m] = lost[m]
                   /\ delivered'[m] = delivered[m]
<1>1. ASSUME Same PROVE MailInv(m)'
  BY <1>1 DEF MailInv
<1>2. ASSUME NEW n \in Mails, n # m, Queue(n) \/ RunTask(n) PROVE Same
  BY <1>2 DEF Queue, RunTask, StartTask, SendAccepted, SendRefused, AnswerLost,
              WorkerDies, Raise, Retry, Deliver, CountedUp, MoveTask
<1>3. CASE Queue(m) \/ StartTask(m)
  BY <1>3 DEF Queue, StartTask, MoveTask, MailInv
<1>4. ASSUME NEW f \in [Mails -> Nat] PROVE CountedUp(f, m)[m] \in {f[m], f[m] + 1}
  BY DEF CountedUp
<1>5. CASE SendAccepted(m)
  <2>1. /\ task[m] = "running" /\ task'[m] = "sent"
        /\ retries' = retries /\ faults' = faults /\ lost' = lost
    BY <1>5 DEF SendAccepted, Accepted, MoveTask
  <2>2. delivered'[m] \in {delivered[m], delivered[m] + 1}
    BY <1>4, <1>5 DEF SendAccepted, Deliver
  <2> QED BY <2>1, <2>2 DEF MailInv
<1>6. CASE SendRefused(m)
  <2>1. lost' = lost /\ delivered' = delivered /\ Raise(m)
    BY <1>6 DEF SendRefused
  <2> QED BY <2>1, RaiseCounts DEF MailInv
<1>7. CASE AnswerLost(m)
  <2>1. Raise(m)
    BY <1>7 DEF AnswerLost
  <2>2. lost[m] <= MAX_RETRY_ATTEMPTS
    BY <2>1, RaiseCounts, RetryAssumption DEF MailInv
  <2>3. lost'[m] = lost[m] + 1
    BY <1>7, <2>2, RetryAssumption, BoundAssumption DEF AnswerLost, CountedUp
  <2>4. delivered'[m] \in {delivered[m], delivered[m] + 1}
    BY <1>4, <1>7 DEF AnswerLost, Deliver
  <2> QED BY <2>1, <2>3, <2>4, RaiseCounts DEF MailInv
<1>8. CASE WorkerDies(m)
  <2>1. /\ task[m] = "running" /\ task'[m] = "dropped"
        /\ retries' = retries /\ faults' = faults /\ lost' = lost
    BY <1>8 DEF WorkerDies, MoveTask
  <2>2. delivered'[m] \in {delivered[m], delivered[m] + 1}
    BY <1>4, <1>8 DEF WorkerDies, Deliver
  <2> QED BY <2>1, <2>2 DEF MailInv
<1>9. ASSUME UNCHANGED mailVars PROVE Same
  BY <1>9 DEF mailVars
<1> QED BY <1>1, <1>2, <1>3, <1>5, <1>6, <1>7, <1>8, <1>9 DEF Next, RunTask,
          GetCached, Fetch, FetchFails, Store, Change, Tick, vars

-----------------------------------------------------------------------------
(* Phone numbers                                                           *)

LEMMA PhonesNext ==
  ASSUME PhoneTypes, AnswersAreRecent, CachedAnswerIsRecent, [Next]_vars
  PROVE  AnswersAreRecent' /\ CachedAnswerIsRecent'
<1> USE TTLAssumption DEF PhoneTypes
<1>1. ASSUME NEW p \in Processes, UNCHANGED <<cache, valid, changed>>,
             \/ UNCHANGED lookup
             \/ \E t : lookup' = [lookup EXCEPT ![p] = t] /\ t.pc # "storing"
      PROVE  AnswersAreRecent' /\ CachedAnswerIsRecent'
  BY <1>1 DEF AnswersAreRecent, CachedAnswerIsRecent
<1>2. ASSUME NEW p \in Processes, GetCached(p)
      PROVE  AnswersAreRecent' /\ CachedAnswerIsRecent'
  <2>1. PICK n \in Numbers :
          IF cache[n] # NoEntry
            THEN Hit(n) /\ UNCHANGED lookup
            ELSE Look(p, [pc |-> "asking", number |-> n]) /\ UNCHANGED cache
    BY <1>2 DEF GetCached
  <2>2. [pc |-> "asking", number |-> n].pc # "storing"
    OBVIOUS
  <2>3. UNCHANGED <<cache, valid, changed>>
    BY <1>2, <2>1 DEF GetCached, Hit
  <2>4. \/ UNCHANGED lookup
        \/ lookup' = [lookup EXCEPT ![p] = [pc |-> "asking", number |-> n]]
    BY <2>1 DEF Look
  <2> QED BY <1>1, <2>2, <2>3, <2>4
<1>3. ASSUME NEW p \in Processes, FetchFails(p)
      PROVE  AnswersAreRecent' /\ CachedAnswerIsRecent'
  <2>1. Idle.pc # "storing"
    BY DEF Idle
  <2>2. UNCHANGED <<cache, valid, changed>> /\ lookup' = [lookup EXCEPT ![p] = Idle]
    BY <1>3 DEF FetchFails, Look
  <2> QED BY <1>1, <2>1, <2>2
<1>4. ASSUME NEW p \in Processes, Fetch(p)
      PROVE  AnswersAreRecent' /\ CachedAnswerIsRecent'
  <2>1. UNCHANGED <<cache, valid, changed>>
    BY <1>4 DEF Fetch
  <2>2. /\ lookup'[p].answer = valid[lookup'[p].number]
        /\ \A q \in Processes \ {p} : lookup'[q] = lookup[q]
    BY <1>4 DEF Fetch, Look
  <2> QED BY <2>1, <2>2 DEF AnswersAreRecent, CachedAnswerIsRecent
<1>5. ASSUME NEW p \in Processes, Store(p)
      PROVE  AnswersAreRecent' /\ CachedAnswerIsRecent'
  <2> DEFINE c == lookup[p]
  <2>1. c \in Storing /\ c.number \in Numbers
    BY <1>5, ShapeOfStates DEF Store, Storing
  <2>2. c.answer # valid[c.number] => changed[c.number] <= MaxDelay
    BY <1>5, <2>1 DEF Store, AnswersAreRecent, Storing
  <2>3. /\ cache'[c.number] = [left |-> CacheTTL, answer |-> c.answer]
        /\ \A n \in Numbers \ {c.number} : cache'[n] = cache[n]
        /\ UNCHANGED <<valid, changed>>
    BY <1>5, <2>1 DEF Store
  <2>4. CachedAnswerIsRecent'
    BY <2>2, <2>3 DEF CachedAnswerIsRecent
  <2>5. AnswersAreRecent'
    BY <1>5, <2>3 DEF Store, Look, AnswersAreRecent, Idle
  <2> QED BY <2>4, <2>5
<1>6. ASSUME NEW n \in Numbers, Change(n)
      PROVE  AnswersAreRecent' /\ CachedAnswerIsRecent'
  <2>1. /\ changed'[n] = 0 /\ UNCHANGED <<cache, lookup>>
        /\ \A k \in Numbers \ {n} : changed'[k] = changed[k] /\ valid'[k] = valid[k]
    BY <1>6 DEF Change
  <2>2. ASSUME NEW p \in Processes, lookup[p].pc = "storing"
        PROVE  lookup[p].number \in Numbers /\ lookup[p].age \in 0 .. MaxDelay
    BY <2>2, ShapeOfStates DEF Storing
  <2>3. AnswersAreRecent'
    BY <2>1, <2>2 DEF AnswersAreRecent
  <2>4. ASSUME NEW k \in Numbers, cache[k] # NoEntry
        PROVE  0 <= (CacheTTL - cache[k].left) + MaxDelay
    BY <2>4, ShapeOfEntries
  <2>5. CachedAnswerIsRecent'
    BY <2>1, <2>4 DEF CachedAnswerIsRecent
  <2> QED BY <2>3, <2>5
<1>7. CASE Tick
  <2>1. ASSUME NEW n \in Numbers PROVE changed'[n] <= changed[n] + 1
    <3>1. changed[n] \in 0 .. ChangedCap /\ ChangedCap \in Nat
      BY DEF ChangedCap
    <3>2. changed'[n] = IF changed[n] < ChangedCap THEN changed[n] + 1 ELSE ChangedCap
      BY <1>7 DEF Tick
    <3> QED BY <3>1, <3>2
  <2>2. UNCHANGED valid
    BY <1>7 DEF Tick
  <2>3. ASSUME NEW n \in Numbers, cache'[n] # NoEntry
        PROVE  /\ cache[n] # NoEntry
               /\ cache'[n].left = cache[n].left - 1
               /\ cache'[n].answer = cache[n].answer
               /\ cache[n].left \in 0 .. CacheTTL
    <3>1. ~(cache[n].left <= 1) /\ cache'[n] = [cache[n] EXCEPT !.left = @ - 1]
      BY <1>7, <2>3 DEF Tick
    <3>2. cache[n] \in Entry
      BY <3>1, ShapeOfEntries DEF NoEntry
    <3> QED BY <3>1, <3>2, ShapeOfEntries DEF Entry
  <2>4. CachedAnswerIsRecent'
    <3> SUFFICES ASSUME NEW n \in Numbers, cache'[n] # NoEntry,
                        cache'[n].answer # valid'[n]
                 PROVE  changed'[n] <= (CacheTTL - cache'[n].left) + MaxDelay
      BY DEF CachedAnswerIsRecent
    <3>1. changed[n] <= (CacheTTL - cache[n].left) + MaxDelay
      BY <2>2, <2>3 DEF CachedAnswerIsRecent
    <3>2. changed[n] \in Nat /\ changed'[n] \in Nat
      BY PhoneTypesNext
    <3> QED BY <2>1, <2>3, <3>1, <3>2
  <2>5. AnswersAreRecent'
    <3> SUFFICES ASSUME NEW p \in Processes, lookup'[p].pc = "storing",
                        lookup'[p].answer # valid'[lookup'[p].number]
                 PROVE  changed'[lookup'[p].number] <= lookup'[p].age
      BY DEF AnswersAreRecent
    <3>1. /\ lookup[p] \in Storing /\ lookup'[p] = [lookup[p] EXCEPT !.age = @ + 1]
      <4>1. lookup[p].pc = "storing"
        BY <1>7 DEF Tick
      <4> QED BY <1>7, <4>1, ShapeOfStates DEF Tick
    <3>2. /\ lookup'[p].number = lookup[p].number /\ lookup[p].number \in Numbers
          /\ lookup'[p].answer = lookup[p].answer
          /\ lookup'[p].age = lookup[p].age + 1 /\ lookup[p].age \in Nat
      BY <3>1 DEF Storing
    <3>3. changed[lookup[p].number] <= lookup[p].age
      BY <2>2, <3>1, <3>2 DEF AnswersAreRecent, Storing
    <3>4. changed[lookup[p].number] \in Nat /\ changed'[lookup[p].number] \in Nat
      BY <3>2, PhoneTypesNext
    <3> QED BY <2>1, <3>2, <3>3, <3>4
  <2> QED BY <2>4, <2>5
<1>8. ASSUME UNCHANGED phoneVars PROVE AnswersAreRecent' /\ CachedAnswerIsRecent'
  BY <1>8 DEF phoneVars, AnswersAreRecent, CachedAnswerIsRecent
<1> QED BY <1>2, <1>3, <1>4, <1>5, <1>6, <1>7, <1>8 DEF Next, RunTask, Queue, StartTask,
          SendAccepted, SendRefused, AnswerLost, WorkerDies, vars

-----------------------------------------------------------------------------
(* The invariant and the theorems                                          *)

LEMMA MailParts ==
  RunsCounted /\ DuplicatesNeedLostAnswers <=> \A m \in Mails : MailInv(m)
BY DEF RunsCounted, DuplicatesNeedLostAnswers, MailInv

LEMMA InvInit == Init => IInv
<1> SUFFICES ASSUME Init PROVE IInv
  OBVIOUS
<1>1. TypeOK
  BY TypeInit
<1>2. \A m \in Mails : MailInv(m)
  <2> SUFFICES ASSUME NEW m \in Mails PROVE MailInv(m)
    OBVIOUS
  <2>1. task[m] = "unsent" /\ retries[m] = 0
    BY DEF Init
  <2>2. delivered[m] = 0 /\ faults[m] = 0 /\ lost[m] = 0
    BY <2>1 DEF Init
  <2> QED BY <2>1, <2>2 DEF MailInv
<1>3. AnswersAreRecent /\ CachedAnswerIsRecent
  BY DEF Init, AnswersAreRecent, CachedAnswerIsRecent, Idle
<1> QED BY <1>1, <1>2, <1>3, MailParts DEF IInv

LEMMA InvNext == IInv /\ [Next]_vars => IInv'
<1> SUFFICES ASSUME IInv, [Next]_vars PROVE IInv'
  OBVIOUS
<1>1. TypeOK' /\ MailTypes /\ PhoneTypes
  BY TypeNext, TypeParts DEF IInv
<1>2. ASSUME NEW m \in Mails PROVE MailInv(m)'
  BY <1>1, MailInvNext, MailParts DEF IInv
<1>3. AnswersAreRecent' /\ CachedAnswerIsRecent'
  BY <1>1, PhonesNext DEF IInv
<1>4. RunsCounted' /\ DuplicatesNeedLostAnswers'
  BY <1>2 DEF RunsCounted, DuplicatesNeedLostAnswers, MailInv
<1> QED BY <1>1, <1>3, <1>4 DEF IInv

LEMMA InvAlways == Spec => []IInv
BY InvInit, InvNext, PTL DEF Spec

\* Lines 202-218: no retry sends an e-mail again unless an answer was lost.
THEOREM NoNeedlessDuplicates == Spec => []DuplicatesNeedLostAnswers
<1>1. IInv => DuplicatesNeedLostAnswers
  BY DEF IInv
<1> QED BY <1>1, InvAlways, PTL

\* Lines 46-47 and 157-164: no e-mail is given up before all its attempts raised.
THEOREM NotGivenUpEarly == Spec => []GivenUpAfterAllAttempts
<1>1. IInv => GivenUpAfterAllAttempts
  BY DEF IInv, RunsCounted, GivenUpAfterAllAttempts
<1> QED BY <1>1, InvAlways, PTL

\* sms_service.py:135-150: a cached answer that has become wrong ends with its 30
\* days, whatever the processes store over one another.
THEOREM WrongAnswersEnd == Spec => []CachedAnswerIsRecent
<1>1. IInv => CachedAnswerIsRecent
  BY DEF IInv
<1> QED BY <1>1, InvAlways, PTL

-----------------------------------------------------------------------------
(* The safety part of EveryMailEnds                                        *)

\* The steps the task of an e-mail has left, at most.
Left(m) ==
  CASE task[m] = "unsent" -> 2 * MAX_RETRY_ATTEMPTS + 3
    [] task[m] = "queued" -> 2 * (MAX_RETRY_ATTEMPTS - retries[m]) + 2
    [] task[m] = "running" -> 2 * (MAX_RETRY_ATTEMPTS - retries[m]) + 1
    [] OTHER -> 0

\* What EveryMailEnds needs besides fairness: each step of a worker uses up one of
\* a bounded number, and none is ever given back.
TasksRunOut ==
  [][\A m \in Mails : /\ Left(m)' \in 0 .. Left(m)
                      /\ RunTask(m) => Left(m)' # Left(m)]_vars

LEMMA StepsLeft ==
  ASSUME MailTypes, NEW m \in Mails
  PROVE  Left(m) \in Nat
<1>1. retries[m] \in 0 .. MAX_RETRY_ATTEMPTS
  BY DEF MailTypes
<1> QED BY <1>1, RetryAssumption DEF Left

LEMMA RetryUsesAStep ==
  ASSUME MailTypes, NEW m \in Mails, Retry(m)
  PROVE  Left(m)' < Left(m) /\ Left(m)' \in Nat
<1>1. retries[m] \in 0 .. MAX_RETRY_ATTEMPTS /\ task[m] = "running"
  BY DEF MailTypes, Retry, MoveTask
<1>2. CASE retries[m] < MAX_RETRY_ATTEMPTS
  <2>1. task'[m] = "queued" /\ retries'[m] = retries[m] + 1
    BY <1>2 DEF MailTypes, Retry, MoveTask
  <2> QED BY <1>1, <1>2, <2>1, RetryAssumption DEF Left
<1>3. CASE ~(retries[m] < MAX_RETRY_ATTEMPTS)
  <2>1. task'[m] = "failed"
    BY <1>3 DEF MailTypes, Retry, MoveTask
  <2> QED BY <1>1, <2>1, RetryAssumption DEF Left
<1> QED BY <1>2, <1>3

\* So does every other step of a worker.
LEMMA RunUsesAStep ==
  ASSUME MailTypes, NEW m \in Mails, RunTask(m)
  PROVE  Left(m)' < Left(m) /\ Left(m)' \in Nat
<1>1. retries[m] \in 0 .. MAX_RETRY_ATTEMPTS
  BY DEF MailTypes
<1>2. CASE StartTask(m)
  <2>1. /\ task[m] = "queued" /\ task'[m] = "running"
        /\ retries'[m] = retries[m]
    BY <1>2 DEF MailTypes, StartTask, MoveTask
  <2> QED BY <1>1, <2>1, RetryAssumption DEF Left
<1>3. CASE SendAccepted(m) \/ WorkerDies(m)
  <2>1. task[m] = "running" /\ task'[m] \in {"sent", "dropped"}
    BY <1>3 DEF MailTypes, SendAccepted, WorkerDies, Accepted, MoveTask
  <2> QED BY <1>1, <2>1, RetryAssumption DEF Left
<1>4. CASE SendRefused(m) \/ AnswerLost(m)
  BY <1>4, RetryUsesAStep DEF SendRefused, AnswerLost, Raise
<1> QED BY <1>2, <1>3, <1>4 DEF RunTask

\* Lines 157-164: no e-mail is in the queue, or with a worker, more often than its
\* attempts allow, whatever SendGrid answers and however workers die.
THEOREM NoTaskGoesOnForEver == Spec => TasksRunOut
<1>1. ASSUME MailTypes, Next, NEW m \in Mails
      PROVE  /\ Left(m)' \in 0 .. Left(m)
             /\ RunTask(m) => Left(m)' # Left(m)
  <2>1. Left(m) \in Nat
    BY <1>1, StepsLeft
  <2>2. CASE RunTask(m)
    BY <1>1, <2>1, <2>2, RunUsesAStep
  <2>3. CASE Left(m)' = Left(m) /\ ~RunTask(m)
    BY <2>1, <2>3
  <2>4. CASE Queue(m)
    <3>1. /\ task[m] = "unsent" /\ task'[m] = "queued"
          /\ retries'[m] = retries[m] /\ retries[m] \in 0 .. MAX_RETRY_ATTEMPTS
      BY <1>1, <2>4 DEF MailTypes, Queue, MoveTask
    <3>2. Left(m)' < Left(m) /\ Left(m)' \in Nat
      BY <3>1, RetryAssumption DEF Left
    <3> QED BY <2>1, <3>2
  <2>5. ASSUME task'[m] = task[m], retries'[m] = retries[m] PROVE Left(m)' = Left(m)
    BY <2>5 DEF Left
  <2>6. ASSUME NEW n \in Mails, n # m, Queue(n) \/ RunTask(n)
        PROVE  task'[m] = task[m] /\ retries'[m] = retries[m]
    BY <1>1, <2>6 DEF MailTypes, Queue, RunTask, StartTask, SendAccepted, SendRefused,
           AnswerLost, WorkerDies, Raise, Retry, MoveTask
  <2>7. ASSUME UNCHANGED mailVars PROVE task'[m] = task[m] /\ retries'[m] = retries[m]
    BY <2>7 DEF mailVars
  <2>8. \/ \E n \in Mails : Queue(n) \/ RunTask(n)
        \/ UNCHANGED mailVars
    BY <1>1 DEF Next, GetCached, Fetch, FetchFails, Store, Change, Tick
  <2> QED BY <2>2, <2>3, <2>4, <2>5, <2>6, <2>7, <2>8
<1>2. MailTypes /\ [Next]_vars
        => [\A m \in Mails : /\ Left(m)' \in 0 .. Left(m)
                             /\ RunTask(m) => Left(m)' # Left(m)]_vars
  BY <1>1
<1>3. Spec => []MailTypes
  BY TypeCorrect, TypeParts, PTL
<1> QED BY <1>2, <1>3, PTL DEF Spec, TasksRunOut

=============================================================================
