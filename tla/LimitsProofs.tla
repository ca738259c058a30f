---------------------------- MODULE LimitsProofs ----------------------------
(***************************************************************************)
(* Theorems about the two limiters, whose modules have no name in common:  *)
(* LoginAttempts, for any users, addresses and servers, any limit and any  *)
(* window; then SlidingWindow, for any number of processes.                *)
(***************************************************************************)
EXTENDS LoginAttempts, SlidingWindow, FiniteSetTheorems, TLAPS

-----------------------------------------------------------------------------
(* LoginAttempts: states and types                                         *)

States == {Free} \cup Attempt \cup Session

\* What the program counter says of the record it is part of.
LEMMA ShapeOfStates ==
  ASSUME NEW s \in States
  PROVE  /\ s.pc \in {"testing", "counting"} => s \in Attempt
         /\ s.pc \in {"verifying", "expiring"} => s \in Session
         /\ s # Free => s \in Attempt \cup Session
BY DEF States, Free, Attempt, Session

\* The limiter is only called with keys of the two maps.
LEMMA IdentifierType ==
  ASSUME NEW s \in Attempt
  PROVE  Identifier(s) \in Identifiers
BY DEF Identifier, Attempt, Identifiers

LEMMA TypeInit == LoginInit => LoginTypeOK
BY LoginLimitAssumption DEF LoginInit, LoginTypeOK

LEMMA TypeNext == LoginTypeOK /\ [LoginNext]_loginVars => LoginTypeOK'
<1> SUFFICES ASSUME LoginTypeOK, [LoginNext]_loginVars PROVE LoginTypeOK'
  OBVIOUS
<1> USE LoginLimitAssumption DEF LoginTypeOK
<1>1. \A p \in Servers : server[p] \in States
  BY DEF States
<1>2. ASSUME NEW p \in Servers, Login(p) PROVE LoginTypeOK'
  BY <1>2 DEF Login, Goto, Attempt
<1>3. ASSUME NEW p \in Servers, Refuse(p) PROVE LoginTypeOK'
  BY <1>3 DEF Refuse, Goto
<1>4. ASSUME NEW p \in Servers, Admit(p) PROVE LoginTypeOK'
  <2>1. server[p] \in Attempt
    BY <1>1, <1>4, ShapeOfStates DEF Admit
  <2>2. [server[p] EXCEPT !.pc = "counting"] \in Attempt
    BY <2>1 DEF Attempt
  <2> QED BY <1>4, <2>2 DEF Admit, Goto
<1>5. ASSUME NEW p \in Servers, Count(p) PROVE LoginTypeOK'
  <2>1. server[p] \in Attempt
    BY <1>1, <1>5, ShapeOfStates DEF Count
  <2>2. Identifier(server[p]) \in Identifiers
    BY <2>1, IdentifierType
  <2>3. /\ [server[p] EXCEPT !.pc = "testing", !.at = "address"] \in Attempt
        /\ [pc |-> "verifying", user |-> server[p].user] \in Session
    BY <2>1 DEF Attempt, Session
  <2>4. server' \in [Servers -> {Free} \cup Attempt \cup Session]
    BY <1>5, <2>3 DEF Count, Goto
  <2>5. count' \in [Identifiers -> Nat] /\ ttl' \in [Identifiers -> 0 .. LOGIN_RATE_WINDOW]
    BY <1>5, <2>2 DEF Count
  <2> QED BY <1>5, <2>4, <2>5 DEF Count
<1>6. ASSUME NEW p \in Servers, WithoutSession(p) PROVE LoginTypeOK'
  BY <1>6 DEF WithoutSession, Goto
<1>7. ASSUME NEW p \in Servers, CreateSession(p) PROVE LoginTypeOK'
  <2>1. server[p] \in Session
    BY <1>1, <1>7, ShapeOfStates DEF CreateSession
  <2>2. [server[p] EXCEPT !.pc = "expiring"] \in Session
    BY <2>1 DEF Session
  <2> QED BY <1>7, <2>1, <2>2 DEF CreateSession, Goto, Session
<1>8. ASSUME NEW p \in Servers, ExpireSession(p) PROVE LoginTypeOK'
  BY <1>8 DEF ExpireSession, Goto
<1>9. ASSUME NEW u \in Users, Logout(u) \/ SessionEnds(u) PROVE LoginTypeOK'
  BY <1>9 DEF Logout, SessionEnds
<1>10. ASSUME NEW p \in Servers, Crash(p) PROVE LoginTypeOK'
  BY <1>10 DEF Crash, Goto
<1>11. CASE TimePasses
  BY <1>11 DEF TimePasses
<1>12. CASE UNCHANGED loginVars
  BY <1>12 DEF loginVars
<1> QED
  BY <1>2, <1>3, <1>4, <1>5, <1>6, <1>7, <1>8, <1>9, <1>10, <1>11, <1>12 DEF LoginNext

\* Every value has its type in every reachable state.
THEOREM LoginTypeCorrect == LoginSpec => []LoginTypeOK
BY TypeInit, TypeNext, PTL DEF LoginSpec

-----------------------------------------------------------------------------
(* LoginAttempts, sessions: the property is inductive as it stands         *)

LEMMA SessionNext ==
  LoginTypeOK /\ SessionsGetAnEnd /\ [LoginNext]_loginVars => SessionsGetAnEnd'
<1> SUFFICES ASSUME LoginTypeOK, SessionsGetAnEnd, [LoginNext]_loginVars,
                    NEW u \in Users, sessions'[u] = "endless"
             PROVE  \/ \E p \in Servers : /\ server'[p].pc = "expiring"
                                            /\ server'[p].user = u
                    \/ crashes' > 0
  BY DEF SessionsGetAnEnd
<1> DEFINE Goal == \/ \E p \in Servers : /\ server'[p].pc = "expiring"
                                           /\ server'[p].user = u
                   \/ crashes' > 0
<1>1. \A p \in Servers : server[p] \in States
  BY DEF LoginTypeOK, States
\* A step that leaves the sessions and every expiring process alone.
<1>2. ASSUME UNCHANGED <<sessions, crashes>>,
             \A p \in Servers : server[p].pc = "expiring" => server'[p] = server[p]
      PROVE  Goal
  BY <1>2 DEF SessionsGetAnEnd
<1>3. ASSUME NEW p \in Servers,
             Login(p) \/ Refuse(p) \/ Admit(p) \/ Count(p) \/ WithoutSession(p)
      PROVE  Goal
  <2>1. server[p].pc # "expiring"
    BY <1>3 DEF Login, Refuse, Admit, Count, WithoutSession, Free
  <2>2. /\ UNCHANGED <<sessions, crashes>>
        /\ \A q \in Servers : q # p => server'[q] = server[q]
    BY <1>3 DEF Login, Refuse, Admit, Count, WithoutSession, Goto, LoginTypeOK
  <2> QED BY <1>2, <2>1, <2>2
<1>4. ASSUME NEW p \in Servers, CreateSession(p) PROVE Goal
  <2>1. server[p] \in Session
    BY <1>1, <1>4, ShapeOfStates DEF CreateSession
  <2>2. server'[p].pc = "expiring" /\ server'[p].user = server[p].user
    BY <1>4, <2>1 DEF CreateSession, Goto, Session, LoginTypeOK
  <2>3. CASE u = server[p].user
    BY <2>2, <2>3
  <2>4. CASE u # server[p].user
    <3>1. sessions[u] = "endless" /\ crashes' = crashes
      BY <1>4, <2>1, <2>4 DEF CreateSession, Session, LoginTypeOK
    <3>2. \A q \in Servers : q # p => server'[q] = server[q]
      BY <1>4 DEF CreateSession, Goto, LoginTypeOK
    <3>3. server[p].pc # "expiring"
      BY <1>4 DEF CreateSession
    <3> QED BY <3>1, <3>2, <3>3 DEF SessionsGetAnEnd
  <2> QED BY <2>3, <2>4
<1>5. ASSUME NEW p \in Servers, ExpireSession(p) PROVE Goal
  <2>1. server[p] \in Session
    BY <1>1, <1>5, ShapeOfStates DEF ExpireSession
  <2>2. u # server[p].user /\ sessions[u] = "endless" /\ crashes' = crashes
    BY <1>5, <2>1 DEF ExpireSession, Session, LoginTypeOK
  <2>3. \A q \in Servers : q # p => server'[q] = server[q]
    BY <1>5 DEF ExpireSession, Goto, LoginTypeOK
  <2> QED BY <2>2, <2>3 DEF SessionsGetAnEnd
<1>6. ASSUME NEW v \in Users, Logout(v) \/ SessionEnds(v) PROVE Goal
  <2>1. sessions[u] = "endless" /\ UNCHANGED <<server, crashes>>
    BY <1>6 DEF Logout, SessionEnds, LoginTypeOK
  <2> QED BY <2>1 DEF SessionsGetAnEnd
<1>7. ASSUME NEW p \in Servers, Crash(p) PROVE Goal
  BY <1>7 DEF Crash, LoginTypeOK
<1>8. CASE TimePasses
  BY <1>2, <1>8 DEF TimePasses
<1>9. CASE UNCHANGED loginVars
  BY <1>2, <1>9 DEF loginVars
<1> QED BY <1>3, <1>4, <1>5, <1>6, <1>7, <1>8, <1>9 DEF LoginNext

\* Lines 126-132: without a crash, every session that a login writes gets its
\* end, whatever other logins and logouts of that user do in between.
THEOREM SessionsAlwaysGetAnEnd == LoginSpec => []SessionsGetAnEnd
<1>1. LoginInit => SessionsGetAnEnd
  BY DEF LoginInit, SessionsGetAnEnd
<1> QED BY <1>1, SessionNext, LoginTypeCorrect, PTL DEF LoginSpec

-----------------------------------------------------------------------------
(* LoginAttempts, the limiter. CountBounded is not inductive: an attempt    *)
(* that was admitted is not counted yet. What is: AdmittedBounded.          *)

LEMMA CountingFinite ==
  ASSUME NEW k
  PROVE  /\ IsFiniteSet(CountingAt(k))
         /\ Cardinality(CountingAt(k)) \in Nat
         /\ Cardinality(CountingAt(k)) <= Cardinality(Servers)
         /\ Cardinality(Servers) \in Nat
<1>1. CountingAt(k) \subseteq Servers
  BY DEF CountingAt
<1> QED BY <1>1, ServerAssumption, FS_Subset, FS_CardinalityType

\* A step that lets nobody start to count at k and does not count at k.
LEMMA FewerCounting ==
  ASSUME LoginTypeOK, AdmittedBounded, NEW k \in Identifiers,
         CountingAt(k)' \subseteq CountingAt(k),
         count'[k] \in Nat, count'[k] <= count[k]
  PROVE  count'[k] + Cardinality(CountingAt(k)')
           <= LOGIN_RATE_LIMIT + Cardinality(Servers) - 1
<1>1. /\ Cardinality(CountingAt(k)') \in Nat
      /\ Cardinality(CountingAt(k)') <= Cardinality(CountingAt(k))
  BY CountingFinite, FS_Subset, FS_CardinalityType
<1>2. count[k] \in Nat /\ Cardinality(CountingAt(k)) \in Nat
  BY CountingFinite DEF LoginTypeOK
<1> QED BY <1>1, <1>2, CountingFinite, LoginLimitAssumption DEF AdmittedBounded

LEMMA AdmittedNext ==
  LoginTypeOK /\ AdmittedBounded /\ [LoginNext]_loginVars => AdmittedBounded'
<1> SUFFICES ASSUME LoginTypeOK, AdmittedBounded, [LoginNext]_loginVars, NEW k \in Identifiers
             PROVE  count'[k] + Cardinality(CountingAt(k)')
                      <= LOGIN_RATE_LIMIT + Cardinality(Servers) - 1
  BY DEF AdmittedBounded
<1> DEFINE Goal == count'[k] + Cardinality(CountingAt(k)')
                     <= LOGIN_RATE_LIMIT + Cardinality(Servers) - 1
<1>1. \A p \in Servers : server[p] \in States
  BY DEF LoginTypeOK, States
<1>2. count[k] \in Nat /\ Cardinality(CountingAt(k)) \in Nat /\ Cardinality(Servers) \in Nat
  BY CountingFinite DEF LoginTypeOK
\* Most steps: the process that moves is not about to count, the others stay.
<1>3. ASSUME NEW p \in Servers, server'[p].pc # "counting", count' = count,
             \A q \in Servers : q # p => server'[q] = server[q]
      PROVE  Goal
  <2>1. CountingAt(k)' \subseteq CountingAt(k)
    BY <1>3 DEF CountingAt, Identifier
  <2> QED BY <1>2, <1>3, <2>1, FewerCounting
<1>4. ASSUME NEW p \in Servers, Login(p) PROVE Goal
  <2>1. server'[p].pc = "testing"
    BY <1>4 DEF Login, Goto, LoginTypeOK
  <2>2. count' = count /\ \A q \in Servers : q # p => server'[q] = server[q]
    BY <1>4 DEF Login, Goto, LoginTypeOK
  <2> QED BY <1>3, <2>1, <2>2
<1>5. ASSUME NEW p \in Servers,
             Refuse(p) \/ WithoutSession(p) \/ ExpireSession(p) \/ Crash(p)
      PROVE  Goal
  <2>1. server'[p].pc = "idle"
    BY <1>5 DEF Refuse, WithoutSession, ExpireSession, Crash, Goto, Free, LoginTypeOK
  <2>2. count' = count /\ \A q \in Servers : q # p => server'[q] = server[q]
    BY <1>5 DEF Refuse, WithoutSession, ExpireSession, Crash, Goto, LoginTypeOK
  <2> QED BY <1>3, <2>1, <2>2
<1>6. ASSUME NEW p \in Servers, CreateSession(p) PROVE Goal
  <2>1. server[p] \in Session
    BY <1>1, <1>6, ShapeOfStates DEF CreateSession
  <2>2. server'[p].pc = "expiring"
    BY <1>6, <2>1 DEF CreateSession, Goto, Session, LoginTypeOK
  <2>3. count' = count /\ \A q \in Servers : q # p => server'[q] = server[q]
    BY <1>6 DEF CreateSession, Goto, LoginTypeOK
  <2> QED BY <1>3, <2>2, <2>3
\* Admit at k: the count is below the limit, and at most all are counting.
<1>7. ASSUME NEW p \in Servers, Admit(p) PROVE Goal
  <2>1. server[p] \in Attempt /\ count' = count
    BY <1>1, <1>7, ShapeOfStates DEF Admit
  <2>2. /\ server'[p] = [server[p] EXCEPT !.pc = "counting"]
        /\ \A q \in Servers : q # p => server'[q] = server[q]
    BY <1>7 DEF Admit, Goto, LoginTypeOK
  <2>3. CASE Identifier(server[p]) = k
    <3>1. count[k] < LOGIN_RATE_LIMIT
      BY <1>2, <1>7, <2>3, LoginLimitAssumption DEF Admit, AtLimit
    <3>2. /\ Cardinality(CountingAt(k)') \in Nat
          /\ Cardinality(CountingAt(k)') <= Cardinality(Servers)
      <4>1. CountingAt(k)' \subseteq Servers
        BY DEF CountingAt
      <4> QED BY <4>1, ServerAssumption, FS_Subset, FS_CardinalityType
    <3> QED BY <1>2, <2>1, <3>1, <3>2, LoginLimitAssumption
  <2>4. CASE Identifier(server[p]) # k
    <3>1. Identifier(server'[p]) = Identifier(server[p])
      BY <2>1, <2>2 DEF Identifier, Attempt
    <3>2. CountingAt(k)' \subseteq CountingAt(k)
      BY <2>2, <2>4, <3>1 DEF CountingAt, Identifier
    <3> QED BY <1>2, <2>1, <3>2, FewerCounting
  <2> QED BY <2>3, <2>4
\* Count at k: one more is counted, one fewer is about to be.
<1>8. ASSUME NEW p \in Servers, Count(p) PROVE Goal
  <2>1. server[p] \in Attempt
    BY <1>1, <1>8, ShapeOfStates DEF Count
  <2>2. server'[p].pc # "counting"
    BY <1>8, <2>1 DEF Count, Goto, Attempt, LoginTypeOK
  <2>3. \A q \in Servers : q # p => server'[q] = server[q]
    BY <1>8 DEF Count, Goto, LoginTypeOK
  <2>4. CountingAt(k)' \subseteq CountingAt(k)
    BY <2>2, <2>3 DEF CountingAt, Identifier
  <2>5. CASE Identifier(server[p]) # k
    <3>1. count'[k] = count[k]
      BY <1>8, <2>5 DEF Count, LoginTypeOK
    <3> QED BY <1>2, <2>4, <3>1, FewerCounting
  <2>6. CASE Identifier(server[p]) = k
    <3>1. count'[k] = count[k] + 1
      BY <1>8, <2>6 DEF Count, LoginTypeOK
    <3>2. p \in CountingAt(k) /\ p \notin CountingAt(k)'
      BY <1>8, <2>2, <2>6 DEF Count, CountingAt
    <3>3. CountingAt(k)' \subseteq CountingAt(k) \ {p}
      BY <2>4, <3>2
    <3>4. /\ IsFiniteSet(CountingAt(k) \ {p})
          /\ Cardinality(CountingAt(k) \ {p}) = Cardinality(CountingAt(k)) - 1
      BY <3>2, CountingFinite, FS_RemoveElement
    <3>5. /\ Cardinality(CountingAt(k)') \in Nat
          /\ Cardinality(CountingAt(k)') <= Cardinality(CountingAt(k)) - 1
      BY <3>3, <3>4, FS_Subset, FS_CardinalityType
    <3> QED BY <1>2, <3>1, <3>5, LoginLimitAssumption DEF AdmittedBounded
  <2> QED BY <2>5, <2>6
<1>9. CASE TimePasses
  <2>1. CountingAt(k)' = CountingAt(k)
    BY <1>9 DEF TimePasses, CountingAt, Identifier
  <2>2. count'[k] \in Nat /\ count'[k] <= count[k]
    BY <1>2, <1>9 DEF TimePasses
  <2> QED BY <2>1, <2>2, FewerCounting
<1>10. CASE UNCHANGED <<count, server>>
  <2>1. CountingAt(k)' = CountingAt(k)
    BY <1>10 DEF CountingAt, Identifier
  <2> QED BY <1>2, <1>10, <2>1, FewerCounting
<1>11. ASSUME NEW u \in Users, Logout(u) \/ SessionEnds(u) PROVE Goal
  BY <1>10, <1>11 DEF Logout, SessionEnds
<1> QED
  BY <1>4, <1>5, <1>6, <1>7, <1>8, <1>9, <1>10, <1>11 DEF LoginNext, loginVars

\* Lines 63-72: however the GETs and the INCRs of concurrent logins interleave,
\* a counter exceeds the limit by less than one attempt for each process.
THEOREM LimitExceededByConcurrencyOnly == LoginSpec => []CountBounded
<1>1. LoginInit => AdmittedBounded
  <2> SUFFICES ASSUME LoginInit, NEW k \in Identifiers
               PROVE  count[k] + Cardinality(CountingAt(k))
                        <= LOGIN_RATE_LIMIT + Cardinality(Servers) - 1
    BY DEF AdmittedBounded
  <2>1. count[k] = 0
    BY DEF LoginInit
  <2>2. CountingAt(k) = {}
    BY DEF LoginInit, Free, CountingAt
  <2>3. Cardinality(CountingAt(k)) = 0
    BY <2>2, FS_EmptySet
  <2> QED BY <2>1, <2>3, CountingFinite, LoginLimitAssumption
<1>2. LoginTypeOK /\ AdmittedBounded => CountBounded
  <2> SUFFICES ASSUME LoginTypeOK, AdmittedBounded, NEW k \in Identifiers
               PROVE  count[k] <= LOGIN_RATE_LIMIT + Cardinality(Servers) - 1
    BY DEF CountBounded
  <2> QED BY CountingFinite, LoginLimitAssumption DEF LoginTypeOK, AdmittedBounded
<1> QED BY <1>1, <1>2, AdmittedNext, LoginTypeCorrect, PTL DEF LoginSpec

\* What EveryLockoutEnds needs besides the passage of time: while an identifier is
\* locked out nobody is admitted, so the attempts that were admitted before and
\* are not counted yet only become fewer. The time to the end of the lock-out
\* grows only by one of those, and every tick takes one from it.
LockoutsRunDown ==
  [][\A k \in Identifiers : AtLimit(k) /\ AtLimit(k)' =>
       /\ CountingAt(k)' \subseteq CountingAt(k)
       /\ CountingAt(k)' = CountingAt(k) => ttl'[k] <= ttl[k]
       /\ TimePasses => ttl'[k] < ttl[k]]_loginVars

\* Lines 63-72: refused attempts, however many, do not prolong a lock-out.
THEOREM RefusalsProlongNoLockout == LoginSpec => LockoutsRunDown
<1>1. ASSUME LoginTypeOK, LoginNext, NEW k \in Identifiers, AtLimit(k), AtLimit(k)'
      PROVE  /\ CountingAt(k)' \subseteq CountingAt(k)
             /\ CountingAt(k)' = CountingAt(k) => ttl'[k] <= ttl[k]
             /\ TimePasses => ttl'[k] < ttl[k]
  <2> DEFINE Goal == /\ CountingAt(k)' \subseteq CountingAt(k)
                     /\ CountingAt(k)' = CountingAt(k) => ttl'[k] <= ttl[k]
                     /\ TimePasses => ttl'[k] < ttl[k]
  <2>1. /\ \A p \in Servers : server[p] \in States
        /\ ttl[k] \in Nat
    BY <1>1 DEF LoginTypeOK, States
  <2>2. CASE TimePasses
    <3>1. ttl[k] # 0 /\ ttl'[k] = ttl[k] - 1
      BY <1>1, <2>1, <2>2, LoginLimitAssumption DEF TimePasses, AtLimit
    <3>2. CountingAt(k)' = CountingAt(k)
      BY <2>2 DEF TimePasses, CountingAt, Identifier
    <3> QED BY <2>1, <3>1, <3>2
  <2>3. ASSUME ~TimePasses, ttl' = ttl, NEW p \in Servers,
               p \in CountingAt(k)' => p \in CountingAt(k),
               \A q \in Servers : q # p => server'[q] = server[q]
        PROVE  Goal
    <3>1. CountingAt(k)' \subseteq CountingAt(k)
      BY <2>3 DEF CountingAt
    <3> QED BY <2>1, <2>3, <3>1
  <2>4. ASSUME ~TimePasses, NEW p \in Servers,
               \/ Login(p) \/ Refuse(p) \/ WithoutSession(p) \/ CreateSession(p)
               \/ ExpireSession(p) \/ Crash(p)
        PROVE  Goal
    <3>1. ttl' = ttl /\ \A q \in Servers : q # p => server'[q] = server[q]
      BY <1>1, <2>4 DEF LoginTypeOK, Login, Refuse, WithoutSession, CreateSession,
             ExpireSession, Crash, Goto
    <3>2. CASE CreateSession(p)
      <4>1. server[p] \in Session
        BY <2>1, <3>2, ShapeOfStates DEF CreateSession
      <4>2. server'[p].pc = "expiring"
        BY <1>1, <3>2, <4>1 DEF CreateSession, Goto, Session, LoginTypeOK
      <4> QED BY <2>3, <2>4, <3>1, <4>2 DEF CountingAt
    <3>3. CASE ~CreateSession(p)
      <4>1. server'[p].pc \in {"testing", "idle"}
        BY <1>1, <2>4, <3>3 DEF LoginTypeOK, Login, Refuse, WithoutSession, ExpireSession,
               Crash, Goto, Free
      <4> QED BY <2>3, <2>4, <3>1, <4>1 DEF CountingAt
    <3> QED BY <3>2, <3>3
\* Whoever is admitted calls the limiter with another identifier.
  <2>5. ASSUME ~TimePasses, NEW p \in Servers, Admit(p) PROVE Goal
    <3>1. server[p] \in Attempt /\ Identifier(server[p]) # k
      BY <1>1, <2>1, <2>5, ShapeOfStates DEF Admit
    <3>2. /\ server'[p] = [server[p] EXCEPT !.pc = "counting"] /\ ttl' = ttl
          /\ \A q \in Servers : q # p => server'[q] = server[q]
      BY <1>1, <2>5 DEF Admit, Goto, LoginTypeOK
    <3>3. Identifier(server'[p]) # k
      BY <3>1, <3>2 DEF Identifier, Attempt
    <3> QED BY <2>3, <2>5, <3>2, <3>3 DEF CountingAt
  <2>6. ASSUME ~TimePasses, NEW p \in Servers, Count(p) PROVE Goal
    <3>1. server[p] \in Attempt
      BY <2>1, <2>6, ShapeOfStates DEF Count
    <3>2. /\ server'[p].pc # "counting"
          /\ \A q \in Servers : q # p => server'[q] = server[q]
      BY <1>1, <2>6, <3>1 DEF Count, Goto, Attempt, LoginTypeOK
    <3>3. CountingAt(k)' \subseteq CountingAt(k) /\ p \notin CountingAt(k)'
      BY <3>2 DEF CountingAt
    <3>4. CASE Identifier(server[p]) = k
      <4>1. p \in CountingAt(k)
        BY <2>6, <3>4 DEF Count, CountingAt
      <4> QED BY <2>6, <3>3, <4>1
    <3>5. CASE Identifier(server[p]) # k
      <4>1. ttl'[k] = ttl[k]
        BY <1>1, <2>6, <3>5 DEF Count, LoginTypeOK
      <4> QED BY <2>1, <2>6, <3>3, <4>1
    <3> QED BY <3>4, <3>5
  <2>7. ASSUME ~TimePasses, NEW u \in Users, Logout(u) \/ SessionEnds(u) PROVE Goal
    <3>1. ttl' = ttl /\ server' = server
      BY <2>7 DEF Logout, SessionEnds
    <3>2. CountingAt(k)' = CountingAt(k)
      BY <3>1 DEF CountingAt
    <3> QED BY <2>1, <2>7, <3>1, <3>2
  <2> QED BY <1>1, <2>2, <2>4, <2>5, <2>6, <2>7 DEF LoginNext
<1>2. LoginTypeOK /\ [LoginNext]_loginVars
        => [\A k \in Identifiers : AtLimit(k) /\ AtLimit(k)' =>
              /\ CountingAt(k)' \subseteq CountingAt(k)
              /\ CountingAt(k)' = CountingAt(k) => ttl'[k] <= ttl[k]
              /\ TimePasses => ttl'[k] < ttl[k]]_loginVars
  BY <1>1
<1> QED BY <1>2, LoginTypeCorrect, PTL DEF LoginSpec, LockoutsRunDown

-----------------------------------------------------------------------------
(* SlidingWindow: what is remembered                                       *)

USE LimitAssumption DEF Ticks

\* The initial state satisfies the inductive invariant.
LEMMA InitIInv == Init => IInv
BY DEF Init, IInv, TypeOK, NoFutureTimes, KeyCoversWindow, NothingForgotten, Idle

\* A process that is not idle has read the clock.
LEMMA RunningProcess ==
  ASSUME TypeOK, NEW p \in Processes, process[p] # Idle
  PROVE  process[p] \in Running
BY DEF TypeOK

\* What the arithmetic of the proofs needs of the types.
LEMMA Numbers ==
  ASSUME TypeOK
  PROVE  /\ clock \in Int /\ expires \in Int /\ Window \in Int
         /\ \A m \in members : m \in Int
         /\ \A a \in attempts : a \in Int
BY DEF TypeOK

\* Reading the clock adds nothing to the set.
LEMMA ReadClockIInv == ASSUME IInv, NEW p \in Processes, ReadClock(p) PROVE IInv'
<1>1. [pc |-> "checking", now |-> clock] \in Running
  BY DEF IInv, TypeOK, Running
<1>2. TypeOK'
  BY <1>1 DEF IInv, TypeOK, ReadClock
<1>3. NoFutureTimes'
  BY DEF IInv, TypeOK, NoFutureTimes, ReadClock, Idle, Running
<1>4. KeyCoversWindow' /\ NothingForgotten'
  BY DEF IInv, KeyCoversWindow, NothingForgotten, ReadClock
<1> QED BY <1>2, <1>3, <1>4 DEF IInv

\* A check trims by a time that is not in the future, records that time, and
\* gives the key a whole window to live.
LEMMA CheckIInv == ASSUME IInv, NEW p \in Processes, Check(p) PROVE IInv'
<1> DEFINE now == process[p].now
<1>1. /\ process[p] \in Running
      /\ now \in Ticks
      /\ now <= clock
  BY RunningProcess DEF IInv, TypeOK, NoFutureTimes, Check, Idle, Running
<1>2. /\ members' = Live(now) \cup {now}
      /\ expires' = clock + Window
      /\ attempts' = attempts \cup {now}
      /\ clock' = clock
  BY DEF Check, Lifetime, Recorded
<1>3. Live(now) \subseteq members
  BY DEF Live
<1>4. TypeOK'
  <2>1. [process[p] EXCEPT !.pc = "working"] \in Running
    BY <1>1 DEF Running
  <2>2. process' \in [Processes -> {Idle} \cup Running]
    BY <2>1 DEF IInv, TypeOK, Check
  <2>3. admitted' \subseteq Processes \X Ticks
    BY <1>1 DEF IInv, TypeOK, Check
  <2>4. members' \subseteq Ticks /\ attempts' \subseteq Ticks /\ expires' \in Nat
    <3>1. clock + Window \in Nat
      BY DEF IInv, TypeOK
    <3>2. members \subseteq Ticks /\ attempts \subseteq Ticks
      BY DEF IInv, TypeOK
    <3> QED BY <1>1, <1>2, <1>3, <3>1, <3>2
  <2> QED BY <1>2, <2>2, <2>3, <2>4 DEF IInv, TypeOK, Check
<1>5. NoFutureTimes'
  <2>1. \A m \in members' : m <= clock'
    BY <1>1, <1>2, <1>3 DEF IInv, NoFutureTimes
  <2>2. \A q \in Processes : process'[q].pc = "checking" => process'[q] = process[q]
    BY DEF IInv, TypeOK, Check, Idle, Running
  <2> QED BY <1>2, <2>1, <2>2 DEF IInv, NoFutureTimes
<1>6. KeyCoversWindow'
  <2>1. \A m \in members' : m \in Int /\ m <= clock
    BY <1>1, <1>2, <1>3, Numbers DEF IInv, NoFutureTimes
  <2> QED BY <1>2, <2>1, Numbers DEF IInv, KeyCoversWindow
<1>7. NothingForgotten'
  <2>1. now \in Int
    BY <1>1
  <2> QED BY <1>1, <1>2, <2>1, Numbers DEF IInv, NothingForgotten, Live
<1> QED BY <1>4, <1>5, <1>6, <1>7 DEF IInv

\* Work that ends, well or badly, leaves the limiter alone.
LEMMA WorkIInv ==
  ASSUME IInv, NEW p \in Processes, Succeed(p) \/ Fail(p)
  PROVE  IInv'
<1>1. /\ process' = [process EXCEPT ![p] = Idle]
      /\ UNCHANGED <<clock, members, expires, last, attempts, admitted>>
      /\ done' \subseteq done \cup {clock}
  BY DEF Succeed, Fail
<1>2. TypeOK'
  <2>1. process' \in [Processes -> {Idle} \cup Running]
    BY <1>1 DEF IInv, TypeOK
  <2>2. done' \subseteq Ticks
    BY <1>1 DEF IInv, TypeOK
  <2> QED BY <1>1, <2>1, <2>2 DEF IInv, TypeOK
<1>3. NoFutureTimes'
  BY <1>1 DEF IInv, TypeOK, NoFutureTimes, Idle
<1>4. KeyCoversWindow' /\ NothingForgotten'
  BY <1>1 DEF IInv, KeyCoversWindow, NothingForgotten
<1> QED BY <1>2, <1>3, <1>4 DEF IInv

\* When the key expires, every time in it is out of the window.
LEMMA TickIInv == ASSUME IInv, Tick PROVE IInv'
<1>1. TypeOK'
  <2>1. clock' \in Ticks
    <3>1. clock \in Int /\ 1 <= clock /\ clock < LastTick /\ clock' = clock + 1
      BY DEF IInv, TypeOK, Tick
    <3> QED BY <3>1
  <2>2. members' \subseteq Ticks
    BY DEF IInv, TypeOK, Tick
  <2> QED BY <2>1, <2>2 DEF IInv, TypeOK, Tick
<1>2. NoFutureTimes'
  <2>1. /\ process' = process /\ clock' = clock + 1
        /\ members' \subseteq members
    BY DEF Tick
  <2>2. \A q \in Processes : process[q].pc = "checking" => process[q].now \in Int
    BY DEF IInv, TypeOK, Idle, Running
  <2>3. \A m \in members' : m <= clock'
    BY <2>1, Numbers DEF IInv, NoFutureTimes
  <2>4. \A q \in Processes :
          process'[q].pc = "checking" => process'[q].now <= clock'
    BY <2>1, <2>2, Numbers DEF IInv, NoFutureTimes
  <2> QED BY <2>3, <2>4 DEF NoFutureTimes
<1>3. KeyCoversWindow'
  BY DEF IInv, KeyCoversWindow, Tick
<1>4. NothingForgotten'
  <2>1. /\ clock' = clock + 1 /\ attempts' = attempts
        /\ members' = IF clock' >= expires THEN {} ELSE members
    BY DEF Tick
  <2>2. ASSUME NEW a \in attempts, a > clock' - Window PROVE a \in members'
    <3>1. a \in members
      BY <2>1, <2>2, Numbers DEF IInv, NothingForgotten
    <3>2. a + Window <= expires
      BY <3>1 DEF IInv, KeyCoversWindow
    <3>3. ~(clock' >= expires)
      BY <2>1, <2>2, <3>2, Numbers DEF IInv
    <3> QED BY <2>1, <3>1, <3>3
  <2> QED BY <2>1, <2>2 DEF NothingForgotten
<1> QED BY <1>1, <1>2, <1>3, <1>4 DEF IInv

\* Every step keeps the inductive invariant.
LEMMA NextIInv == IInv /\ [Next]_vars => IInv'
<1> SUFFICES ASSUME IInv, [Next]_vars PROVE IInv'
  OBVIOUS
<1>1. CASE \E p \in Processes : ReadClock(p)
  BY <1>1, ReadClockIInv
<1>2. CASE \E p \in Processes : Check(p)
  BY <1>2, CheckIInv
<1>3. CASE \E p \in Processes : Succeed(p) \/ Fail(p)
  BY <1>3, WorkIInv
<1>4. CASE Reset
  BY <1>4 DEF IInv, TypeOK, NoFutureTimes, KeyCoversWindow, NothingForgotten, Reset
<1>5. CASE Tick
  BY <1>5, TickIInv
<1>6. CASE UNCHANGED vars
  BY <1>6 DEF IInv, TypeOK, NoFutureTimes, KeyCoversWindow, NothingForgotten, vars
<1> QED BY <1>1, <1>2, <1>3, <1>4, <1>5, <1>6 DEF Next

\* The inductive invariant holds in every behaviour.
THEOREM Invariance == Spec => []IInv
BY InitIInv, NextIInv, PTL DEF Spec

\* The key, the processes and the histories always have their types.
THEOREM TypeCorrect == Spec => []TypeOK
<1>1. IInv => TypeOK
  BY DEF IInv
<1> QED BY <1>1, Invariance, PTL

\* The limiter forgets nothing: each check of the last Window ticks is counted,
\* whatever the number of processes and however late their transactions run.
THEOREM ChecksAreRemembered == Spec => []NothingForgotten
<1>1. IInv => NothingForgotten
  BY DEF IInv
<1> QED BY <1>1, Invariance, PTL

-----------------------------------------------------------------------------
(* SlidingWindow: the limit                                                *)

Times(t) == {a[2] : a \in AdmittedUpTo(t)}

LEMMA TicksAreFinite == \A S : S \subseteq Ticks => IsFiniteSet(S)
<1>1. 1 \in Int /\ LastTick \in Int
  OBVIOUS
<1>2. IsFiniteSet(1 .. LastTick)
  BY <1>1, FS_Interval
<1> QED BY <1>2, FS_Subset

\* A refused check is the only one that sends its process back.
LEMMA RefusalIsACheck ==
  ASSUME TypeOK, [Next]_vars, NEW p \in Processes,
         process[p].pc = "checking", process'[p] = Idle
  PROVE  Check(p) /\ ~Allowed(process[p].now)
<1>1. process[p] \in Running /\ process[p] # Idle
  BY RunningProcess DEF Idle
<1>2. ASSUME NEW q \in Processes, ReadClock(q) \/ Succeed(q) \/ Fail(q) PROVE FALSE
  BY <1>1, <1>2 DEF ReadClock, Succeed, Fail, TypeOK, Idle
<1>3. ASSUME NEW q \in Processes, Check(q) PROVE Check(p) /\ ~Allowed(process[p].now)
  <2>1. q = p
    BY <1>1, <1>3 DEF Check, TypeOK
  <2>2. [process[p] EXCEPT !.pc = "working"].pc = "working"
    BY <1>1 DEF Running
  <2> QED BY <1>3, <2>1, <2>2 DEF Check, TypeOK, Idle
<1> QED BY <1>1, <1>2, <1>3 DEF Next, Reset, Tick, vars

\* rate_limiter.py:95: a check is refused only after MaxRequests others.
THEOREM RefusalsAreJustified == Spec => RefusedOnlyAtLimit
<1>1. Init => RecordsAgree
  BY DEF Init, RecordsAgree
<1>2. IInv /\ RecordsAgree /\ [Next]_vars => RecordsAgree'
  BY DEF RecordsAgree, Next, ReadClock, Check, Live, Recorded, Succeed, Fail, Reset, Tick, vars
<1>3. ASSUME IInv, RecordsAgree, [Next]_vars, NEW p \in Processes,
             process[p].pc = "checking", process'[p] = Idle
      PROVE  Cardinality(Since(process[p].now - Window, attempts)) >= MaxRequests
  <2> DEFINE now == process[p].now
             S == Since(now - Window, attempts)
  <2>1. ~Allowed(now)
    BY <1>3, RefusalIsACheck DEF IInv
  <2>2. Live(now) \subseteq S
    BY <1>3 DEF RecordsAgree, Live, Since
  <2>3. S \subseteq Ticks
    BY <1>3 DEF IInv, TypeOK, Since
  <2> HIDE DEF S
  <2>4. IsFiniteSet(S)
    BY <2>3, TicksAreFinite
  <2>5. IsFiniteSet(Live(now)) /\ Cardinality(Live(now)) <= Cardinality(S)
    BY <2>2, <2>4, FS_Subset
  <2>6. Cardinality(Live(now)) \in Nat /\ Cardinality(S) \in Nat
    BY <2>4, <2>5, FS_CardinalityType
  <2> QED BY <2>1, <2>5, <2>6 DEF Allowed, S
<1>4. IInv /\ RecordsAgree /\ [Next]_vars =>
        [\A p \in Processes : (process[p].pc = "checking" /\ process'[p] = Idle)
           => Cardinality(Since(process[p].now - Window, attempts)) >= MaxRequests]_vars
  BY <1>3
<1> QED BY <1>1, <1>2, <1>4, Invariance, PTL DEF Spec, RefusedOnlyAtLimit

\* An admitted check finds, among the times it counts, all the admitted ones of
\* every window that it falls in.
LEMMA AdmittedAreLive ==
  ASSUME LimitInv, NEW p \in Processes, process[p].pc = "checking",
         NEW t \in Ticks, process[p].now <= t
  PROVE  Times(t) \subseteq Live(process[p].now)
<1> DEFINE now == process[p].now
<1>1. /\ now \in Ticks /\ now <= clock /\ clock <= now + MaxDelay
      /\ clock \in Ticks
  BY RunningProcess DEF LimitInv, IInv, TypeOK, NoFutureTimes, DelaysBounded, Idle, Running
<1> SUFFICES ASSUME NEW a \in AdmittedUpTo(t) PROVE a[2] \in Live(now)
  BY DEF Times
<1>2. a \in admitted /\ t - (Window - MaxDelay) < a[2] /\ a[2] <= t
  BY DEF AdmittedUpTo
<1>3. a[2] \in attempts /\ a[2] \in Ticks
  BY <1>2 DEF LimitInv, IInv, TypeOK, RecordsAgree
<1>4. a[2] > clock - Window /\ a[2] > now - Window
  BY <1>1, <1>2, <1>3
<1>5. a[2] \in members
  BY <1>3, <1>4 DEF LimitInv, IInv, NothingForgotten
<1> QED BY <1>4, <1>5 DEF Live

LEMMA CheckLimit ==
  ASSUME LimitInv, NEW p \in Processes, Check(p) PROVE TimesWithinLimit'
<1> DEFINE now == process[p].now
<1>1. process[p].pc = "checking" /\ now \in Ticks
  BY RunningProcess DEF LimitInv, IInv, TypeOK, Check, Idle, Running
<1> SUFFICES ASSUME NEW t \in Ticks PROVE Cardinality(Times(t)') <= MaxRequests
  BY DEF TimesWithinLimit, Times, AdmittedUpTo
<1>2. Times(t) \subseteq Ticks
  BY DEF LimitInv, IInv, TypeOK, Times, AdmittedUpTo
<1>3. IsFiniteSet(Times(t)) /\ Cardinality(Times(t)) \in Nat
  BY <1>2, TicksAreFinite, FS_CardinalityType
<1>4. Cardinality(Times(t)) <= MaxRequests
  BY DEF LimitInv, TimesWithinLimit, Times
<1>5. CASE Times(t)' = Times(t)
  BY <1>4, <1>5
<1>6. CASE Times(t)' # Times(t)
  <2>1. Allowed(now) /\ admitted' = admitted \cup {<<p, now>>} /\ now <= t
    BY <1>1, <1>6 DEF Check, Times, AdmittedUpTo
  <2>2. Times(t)' \subseteq Times(t) \cup {now}
    BY <2>1 DEF Times, AdmittedUpTo
  <2>3. Times(t) \subseteq Live(now)
    BY <1>1, <2>1, AdmittedAreLive
  <2>4. IsFiniteSet(Live(now)) /\ Cardinality(Live(now)) \in Nat
    <3>1. Live(now) \subseteq Ticks
      BY DEF LimitInv, IInv, TypeOK, Live
    <3> QED BY <3>1, TicksAreFinite, FS_CardinalityType
  <2>5. Cardinality(Times(t)) < MaxRequests
    <3>1. Cardinality(Times(t)) <= Cardinality(Live(now))
      BY <2>3, <2>4, FS_Subset
    <3> QED BY <1>3, <2>1, <2>4, <3>1 DEF Allowed
  <2>6. /\ IsFiniteSet(Times(t) \cup {now})
        /\ Cardinality(Times(t) \cup {now}) <= Cardinality(Times(t)) + 1
    BY <1>3, FS_AddElement
  <2>7. /\ IsFiniteSet(Times(t)')
        /\ Cardinality(Times(t)') <= Cardinality(Times(t) \cup {now})
    BY <2>2, <2>6, FS_Subset
  <2>8. Cardinality(Times(t)') \in Nat /\ Cardinality(Times(t) \cup {now}) \in Nat
    BY <2>6, <2>7, FS_CardinalityType
  <2> QED BY <1>3, <2>5, <2>6, <2>7, <2>8
<1> QED BY <1>5, <1>6

LEMMA LimitInit == Init => LimitInv
<1> SUFFICES ASSUME Init PROVE LimitInv
  OBVIOUS
<1>1. RecordsAgree /\ DelaysBounded
  BY DEF Init, RecordsAgree, DelaysBounded, Idle
<1>2. ASSUME NEW t \in Ticks PROVE Cardinality({a[2] : a \in AdmittedUpTo(t)}) <= MaxRequests
  <2>1. {a[2] : a \in AdmittedUpTo(t)} = {}
    BY DEF Init, AdmittedUpTo
  <2> QED BY <2>1, FS_EmptySet
<1> QED BY <1>1, <1>2, InitIInv DEF LimitInv, TimesWithinLimit

LEMMA LimitNext == LimitInv /\ [Next]_vars => LimitInv'
<1> SUFFICES ASSUME LimitInv, [Next]_vars PROVE LimitInv'
  OBVIOUS
<1>1. IInv'
  BY NextIInv DEF LimitInv
<1>2. RecordsAgree'
  BY DEF LimitInv, RecordsAgree, Next, ReadClock, Check, Live, Recorded, Succeed, Fail,
         Reset, Tick, vars
<1>3. DelaysBounded'
  <2>1. ASSUME NEW p \in Processes, ReadClock(p) PROVE DelaysBounded'
    BY <2>1 DEF LimitInv, IInv, TypeOK, DelaysBounded, ReadClock
  <2>2. ASSUME NEW p \in Processes, Check(p) \/ Succeed(p) \/ Fail(p) PROVE DelaysBounded'
    <3>1. \A q \in Processes : process'[q].pc = "checking" => process'[q] = process[q]
      BY <2>2 DEF LimitInv, IInv, TypeOK, Check, Succeed, Fail, Idle, Running
    <3>2. clock' = clock
      BY <2>2 DEF Check, Succeed, Fail
    <3> QED BY <3>1, <3>2 DEF LimitInv, DelaysBounded
  <2>3. CASE Tick
    <3>1. ASSUME NEW q \in Processes, process[q].pc = "checking"
          PROVE  clock + 1 <= process[q].now + MaxDelay
      <4>1. process[q].now \in Int /\ clock \in Int
        BY <3>1, RunningProcess, Numbers DEF LimitInv, IInv, Idle, Running
      <4> QED BY <2>3, <3>1, <4>1 DEF Tick
    <3> QED BY <2>3, <3>1 DEF Tick, DelaysBounded
  <2>4. CASE Reset \/ UNCHANGED vars
    BY <2>4 DEF LimitInv, DelaysBounded, Reset, vars
  <2> QED BY <2>1, <2>2, <2>3, <2>4 DEF Next
<1>4. TimesWithinLimit'
  <2>1. ASSUME NEW p \in Processes, Check(p) PROVE TimesWithinLimit'
    BY <2>1, CheckLimit
  <2>2. CASE Reset
    <3>1. ASSUME NEW t \in Ticks PROVE Cardinality({a[2] : a \in AdmittedUpTo(t)'}) <= MaxRequests
      <4>1. {a[2] : a \in AdmittedUpTo(t)'} = {}
        BY <2>2 DEF Reset, AdmittedUpTo
      <4> QED BY <4>1, FS_EmptySet
    <3> QED BY <3>1 DEF TimesWithinLimit
  <2>3. ASSUME UNCHANGED admitted PROVE TimesWithinLimit'
    BY <2>3 DEF LimitInv, TimesWithinLimit, AdmittedUpTo
  <2> QED BY <2>1, <2>2, <2>3 DEF Next, ReadClock, Succeed, Fail, Tick, vars
<1> QED BY <1>1, <1>2, <1>3, <1>4 DEF LimitInv

\* rate_limiter.py:89-95: in no window, shortened by the delay of a transaction,
\* have the admitted checks more than MaxRequests different times.
THEOREM WindowsAreLimited == Spec => []TimesWithinLimit
<1>1. LimitInv => TimesWithinLimit
  BY DEF LimitInv
<1> QED BY <1>1, LimitInit, LimitNext, PTL DEF Spec

=============================================================================
