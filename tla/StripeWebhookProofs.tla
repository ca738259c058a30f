------------------------ MODULE StripeWebhookProofs ------------------------
(***************************************************************************)
(* Theorems about StripeWebhook, for any events, types, workers, windows   *)
(* and bounds that satisfy the assumptions of that module.                 *)
(***************************************************************************)
EXTENDS StripeWebhook, FiniteSetTheorems, TLAPS

\* What is known of the constants, in the form the solver wants.
LEMMA Windows ==
  /\ Tolerance \in Nat /\ ProcessedTTL \in Nat /\ RetryWindow \in Nat
  /\ Skew \in Nat /\ RetryWindow + Tolerance + Skew < ProcessedTTL
  /\ TooOld \in Nat /\ AgeCap \in Nat
  BY WindowAssumption DEF TooOld, AgeCap

\* A request that passes the timestamp check is not too old.
LEMMA AcceptedIsRecent ==
  ASSUME NEW m \in Request, WithinTolerance(m)
  PROVE  m.signed < TooOld /\ m.signed <= Tolerance + Skew
<1> PICK d \in (-Skew) .. Skew : Abs(m.signed + d) <= Tolerance
  BY DEF WithinTolerance, Drifted
<1>1. m.signed \in Nat
  BY Windows DEF Request
<1>2. m.signed + d <= Tolerance
  BY <1>1, Windows DEF Abs
<1> QED BY <1>1, <1>2, Windows DEF TooOld

LEMMA CappedType ==
  ASSUME NEW cap \in Nat, NEW n \in 0 .. cap
  PROVE  /\ Capped(n, cap) \in 0 .. cap
         /\ Capped(n, cap) < cap => Capped(n, cap) = n + 1
         /\ Capped(n, cap) \in {n + 1, cap} /\ Capped(n, cap) <= n + 1
  BY DEF Capped

\* Workers that work on an event are finitely many, and do one thing at a time.
LEMMA DoingCount ==
  ASSUME NEW e
  PROVE  /\ \A pc : IsFiniteSet(Doing(e, pc)) /\ Cardinality(Doing(e, pc)) \in Nat
         /\ Cardinality(Doing(e, "dispatching")) + Cardinality(Doing(e, "marking"))
              <= Cardinality(Workers)
         /\ Cardinality(Workers) \in Nat
<1> DEFINE D == Doing(e, "dispatching")
           M == Doing(e, "marking")
<1>1. IsFiniteSet(Workers) /\ Cardinality(Workers) \in Nat
  BY LimitAssumption, FS_CardinalityType
<1>2. ASSUME NEW pc PROVE IsFiniteSet(Doing(e, pc)) /\ Cardinality(Doing(e, pc)) \in Nat
  <2>1. Doing(e, pc) \in SUBSET Workers
    BY DEF Doing
  <2>2. IsFiniteSet(Doing(e, pc))
    BY <1>1, <2>1, FS_Subset
  <2> QED BY <2>2, FS_CardinalityType
<1>3. D \cap M = {} /\ D \cup M \in SUBSET Workers
  BY DEF Doing
<1>4. Cardinality(D \cup M) <= Cardinality(Workers)
  BY <1>1, <1>3, FS_Subset
<1>5. Cardinality(D \cup M) = Cardinality(D) + Cardinality(M) - 0
  BY <1>2, <1>3, FS_Union, FS_EmptySet
<1>6. Cardinality(D) \in Nat /\ Cardinality(M) \in Nat
  BY <1>2
<1> HIDE DEF D, M
<1>7. Cardinality(D) + Cardinality(M) <= Cardinality(Workers)
  BY <1>4, <1>5, <1>6
<1> QED BY <1>1, <1>2, <1>7 DEF D, M

LEMMA InitIInv == Init => IInv
<1> SUFFICES ASSUME Init PROVE IInv
  OBVIOUS
<1>1. TypeOK /\ RequestsInWindow /\ KeysCoverWindow /\ MarkedIsDone /\ AckedIsDone
  BY Windows DEF Init, TypeOK, RequestsInWindow, KeysCoverWindow, Free,
                 MarkedIsDone, AckedIsDone
<1>2. EffectsCounted
  <2>1. \A e \in Events : e \notin marked /\ effects[e] = 0 /\ faults = 0 /\ crashes = 0
    BY DEF Init
  <2>2. \A e \in Events : Cardinality(Doing(e, "marking")) \in Nat
    BY DoingCount
  <2> QED BY <2>1, <2>2 DEF EffectsCounted
<1> QED BY <1>1, <1>2 DEF IInv

\* A worker that is at work has a request's event in hand.
LEMMA BusyWorker ==
  ASSUME TypeOK, NEW w \in Workers, worker[w].pc \in {"dispatching", "marking"}
  PROVE  /\ worker[w] \in Busy /\ worker[w].event \in Events
         /\ [worker EXCEPT ![w].pc = "marking"] \in [Workers -> {Free} \cup Busy]
         /\ [worker EXCEPT ![w] = Free] \in [Workers -> {Free} \cup Busy]
  BY DEF TypeOK, Free, Busy

LEMMA NextType == TypeOK /\ [Next]_vars => TypeOK'
<1> SUFFICES ASSUME TypeOK, [Next]_vars PROVE TypeOK'
  OBVIOUS
<1> USE Windows
<1>1. ASSUME NEW e \in Events, Send(e) PROVE TypeOK'
  <2>1. [event |-> e, signed |-> 0] \in Request
    BY DEF Request
  <2> QED BY <1>1, <2>1 DEF Send, TypeOK
<1>2. ASSUME NEW m \in requests, Lose(m) PROVE TypeOK'
  BY <1>2 DEF Lose, TypeOK
<1>3. ASSUME NEW w \in Workers, NEW m \in requests, Receive(w, m) PROVE TypeOK'
  <2>1. m.event \in Events
    BY DEF TypeOK, Request
  <2>2. [pc |-> "dispatching", event |-> m.event] \in Busy
    BY <2>1 DEF Busy
  <2>3. /\ worker' \in [Workers -> {Free} \cup Busy]
        /\ acked' \subseteq Events
        /\ requests' \subseteq Request
    BY <1>3, <2>1, <2>2 DEF Receive, Answer, TypeOK
  <2> QED BY <1>3, <2>3 DEF Receive, TypeOK
<1>4. ASSUME NEW w \in Workers, NEW m \in requests, Reject(w, m) PROVE TypeOK'
  BY <1>4 DEF Reject, Lose, TypeOK
<1>5. ASSUME NEW e \in Events, Carried(e) PROVE effects' \in [Events -> Nat]
  BY <1>5 DEF Carried, TypeOK
<1>6. ASSUME NEW w \in Workers, DispatchTicket(w) PROVE TypeOK'
  BY <1>5, <1>6, BusyWorker DEF DispatchTicket, Succeeds, TypeOK
<1>7. ASSUME NEW w \in Workers, DispatchFault(w) PROVE TypeOK'
  <2>1. worker[w].event \in Events /\ worker' \in [Workers -> {Free} \cup Busy]
    BY <1>7, BusyWorker DEF DispatchFault, Raises
  <2>2. effects' \in [Events -> Nat]
    BY <1>5, <1>7, <2>1 DEF DispatchFault, TypeOK
  <2>3. failed' \subseteq Events /\ faults' \in Nat
    BY <1>7, <2>1 DEF DispatchFault, Raises, TypeOK
  <2> QED BY <1>7, <2>1, <2>2, <2>3 DEF DispatchFault, TypeOK
<1>8. ASSUME NEW w \in Workers, DispatchNotify(w) PROVE TypeOK'
  BY <1>8, BusyWorker DEF DispatchNotify, Raises, TypeOK
<1>9. ASSUME NEW w \in Workers, DispatchUnhandled(w) PROVE TypeOK'
  BY <1>9, BusyWorker DEF DispatchUnhandled, Succeeds, TypeOK
<1>10. ASSUME NEW w \in Workers, Mark(w) PROVE TypeOK'
  <2>1. worker[w].event \in Events /\ worker' \in [Workers -> {Free} \cup Busy]
    BY <1>10, BusyWorker DEF Mark
  <2>2. processed' \in [Events -> 0 .. ProcessedTTL]
    BY <1>10, <2>1 DEF Mark, SetProcessed, TypeOK
  <2>3. acked' \subseteq Events /\ marked' \subseteq Events
    BY <1>10, <2>1 DEF Mark, Answer, TypeOK
  <2> QED BY <1>10, <2>1, <2>2, <2>3 DEF Mark, TypeOK
<1>11. ASSUME NEW w \in Workers, Crash(w) PROVE TypeOK'
  BY <1>11 DEF Crash, TypeOK
<1>12. CASE Tick
  <2>1. age' \in [Events -> 0 .. AgeCap]
    BY <1>12, CappedType DEF Tick, TypeOK
  <2>2. \A m \in requests : [m EXCEPT !.signed = Capped(m.signed, TooOld)] \in Request
    BY CappedType DEF TypeOK, Request
  <2>3. requests' \subseteq Request
    BY <1>12, <2>2 DEF Tick
  <2>4. processed' \in [Events -> 0 .. ProcessedTTL]
    <3>1. \A e \in Events :
            (IF processed[e] = 0 THEN 0 ELSE processed[e] - 1) \in 0 .. ProcessedTTL
      BY DEF TypeOK
    <3> QED BY <1>12, <3>1 DEF Tick
  <2> QED BY <1>12, <2>1, <2>3, <2>4 DEF Tick, TypeOK
<1>13. CASE UNCHANGED vars
  BY <1>13 DEF vars, TypeOK
<1> QED BY <1>1, <1>2, <1>3, <1>4, <1>6, <1>7, <1>8, <1>9, <1>10, <1>11,
           <1>12, <1>13 DEF Next, Handle

\* What a step of one worker does to the others: nothing.
LEMMA OtherWorkers ==
  ASSUME TypeOK, NEW w \in Workers, NEW v \in Workers \ {w}, Handle(v)
  PROVE  worker'[w] = worker[w]
  BY DEF Handle, Receive, Reject, Lose, DispatchTicket, DispatchFault,
         DispatchNotify, DispatchUnhandled, Mark, Crash, Succeeds, Raises, TypeOK

\* A worker that takes a request for a marked event finds its key.
LEMMA NotStartedAgain ==
  ASSUME IInv, NEW w \in Workers, NEW m \in requests, Receive(w, m),
         ~IsAlreadyProcessed(m.event)
  PROVE  m.event \notin marked
<1> SUFFICES ASSUME m.event \in marked PROVE FALSE
  OBVIOUS
<1> DEFINE e == m.event
<1>1. m \in Request /\ e \in Events /\ m.signed \in Nat
  BY Windows DEF IInv, TypeOK, Request
<1>2. m.signed < TooOld /\ m.signed <= Tolerance + Skew
  BY <1>1, AcceptedIsRecent DEF Receive
<1>3. age[e] <= RetryWindow + m.signed
  BY <1>2 DEF IInv, RequestsInWindow
<1>4. age[e] \in Nat /\ processed[e] \in Nat
  BY <1>1, Windows DEF IInv, TypeOK
<1>5. age[e] = AgeCap \/ processed[e] + age[e] >= ProcessedTTL
  BY DEF IInv, KeysCoverWindow
<1> QED BY <1>1, <1>2, <1>3, <1>4, <1>5, Windows DEF IsAlreadyProcessed, AgeCap, TooOld

LEMMA RequestsInWindowStep == IInv /\ [Next]_vars => RequestsInWindow'
<1> SUFFICES ASSUME IInv, [Next]_vars, NEW m \in requests', m.signed < TooOld
             PROVE  age'[m.event] <= RetryWindow + m.signed
  BY DEF RequestsInWindow
<1> USE Windows DEF IInv
<1>1. CASE Tick
  <2> PICK o \in requests : m = [o EXCEPT !.signed = Capped(o.signed, TooOld)]
    BY <1>1 DEF Tick
  <2>1. /\ o.event \in Events /\ o.signed \in 0 .. TooOld
        /\ m.event = o.event /\ m.signed = Capped(o.signed, TooOld)
    BY DEF TypeOK, Request
  <2>2. m.signed = o.signed + 1 /\ o.signed < TooOld
    BY <2>1, CappedType
  <2>3. age[o.event] \in 0 .. AgeCap /\ age[o.event] <= RetryWindow + o.signed
    BY <2>1, <2>2 DEF TypeOK, RequestsInWindow
  <2>4. age'[m.event] <= age[o.event] + 1 /\ age'[m.event] \in Int
    BY <1>1, <2>1, <2>3, CappedType DEF Tick
  <2> QED BY <2>1, <2>2, <2>3, <2>4
<1>2. ASSUME NEW e \in Events, Send(e)
      PROVE  age'[m.event] <= RetryWindow + m.signed
  BY <1>2 DEF Send, RequestsInWindow, TypeOK
<1>3. \/ age' = age /\ m \in requests
     \/ Tick
     \/ \E e \in Events : Send(e)
  BY DEF Next, Handle, Lose, Receive, Reject, DispatchTicket, DispatchFault,
         DispatchNotify, DispatchUnhandled, Mark, Crash, vars
<1> QED BY <1>1, <1>2, <1>3 DEF RequestsInWindow

LEMMA KeysCoverWindowStep == IInv /\ [Next]_vars => KeysCoverWindow'
<1> SUFFICES ASSUME IInv, [Next]_vars, NEW e \in marked'
             PROVE  age'[e] = AgeCap \/ processed'[e] + age'[e] >= ProcessedTTL
  BY DEF KeysCoverWindow
<1> USE Windows DEF IInv
<1>1. CASE Tick
  <2>1. /\ e \in marked /\ e \in Events
        /\ age[e] \in 0 .. AgeCap /\ processed[e] \in 0 .. ProcessedTTL
        /\ age'[e] = Capped(age[e], AgeCap)
        /\ processed'[e] = IF processed[e] = 0 THEN 0 ELSE processed[e] - 1
    BY <1>1 DEF Tick, TypeOK
  <2>2. age[e] = AgeCap \/ processed[e] + age[e] >= ProcessedTTL
    BY <2>1 DEF KeysCoverWindow
  <2> QED BY <2>1, <2>2 DEF Capped, AgeCap, TooOld
<1>2. ASSUME NEW w \in Workers, Mark(w)
      PROVE  age'[e] = AgeCap \/ processed'[e] + age'[e] >= ProcessedTTL
  <2>1. CASE e = worker[w].event
    <3>1. e \in Events /\ processed'[e] = ProcessedTTL /\ age' = age
      BY <1>2, <2>1, BusyWorker DEF Mark, SetProcessed, TypeOK
    <3>2. age[e] \in Nat
      BY <3>1 DEF TypeOK
    <3> QED BY <3>1, <3>2
  <2>2. CASE e # worker[w].event
    <3>1. e \in marked /\ e \in Events
      BY <1>2, <2>2 DEF Mark, TypeOK
    <3>2. processed'[e] = processed[e] /\ age' = age
      BY <1>2, <2>2, <3>1 DEF Mark, SetProcessed, TypeOK
    <3> QED BY <3>1, <3>2 DEF KeysCoverWindow
  <2> QED BY <2>1, <2>2
<1>3. \/ UNCHANGED <<age, processed, marked>>
      \/ Tick \/ \E w \in Workers : Mark(w)
  BY DEF Next, Handle, Send, Lose, Receive, Reject, DispatchTicket,
         DispatchFault, DispatchNotify, DispatchUnhandled, Crash, vars
<1> QED BY <1>1, <1>2, <1>3 DEF KeysCoverWindow

LEMMA MarkedIsDoneStep == IInv /\ [Next]_vars => MarkedIsDone'
<1> SUFFICES ASSUME IInv, [Next]_vars PROVE MarkedIsDone'
  OBVIOUS
<1> USE DEF IInv
<1>1. \A e \in Events : Done(e) => Done(e)'
  <2>1. \A e \in Events : effects[e] \in Nat /\ effects'[e] \in Nat
    BY NextType DEF TypeOK
  <2>2. effects' = effects \/ \E w \in Workers : /\ worker[w].pc = "dispatching"
                                                /\ Carried(worker[w].event)
    BY DEF Next, Handle, Send, Lose, Receive, Reject, DispatchTicket, DispatchFault,
           DispatchNotify, DispatchUnhandled, Mark, Crash, Tick, vars
  <2> QED BY <2>1, <2>2 DEF Done, Carried, TypeOK
<1>2. ASSUME NEW w \in Workers, worker'[w].pc = "marking"
      PROVE  Done(worker[w].event)'
  <2>1. CASE worker'[w] = worker[w]
    BY <1>1, <1>2, <2>1, BusyWorker DEF MarkedIsDone
  <2>2. CASE DispatchTicket(w)
    <3>1. worker[w].event \in Events /\ worker'[w].event = worker[w].event
      BY <2>2, BusyWorker DEF DispatchTicket, Succeeds, TypeOK, Busy
    <3>2. effects'[worker[w].event] = effects[worker[w].event] + 1
      BY <2>2, <3>1 DEF DispatchTicket, Carried, TypeOK
    <3> QED BY <3>1, <3>2 DEF Done, TypeOK
  <2>3. CASE DispatchUnhandled(w)
    <3>1. worker[w].event \in Events /\ worker'[w].event = worker[w].event
      BY <2>3, BusyWorker DEF DispatchUnhandled, Succeeds, TypeOK, Busy
    <3> QED BY <2>3, <3>1 DEF Done, DispatchUnhandled
  <2>4. ASSUME \/ DispatchFault(w) \/ DispatchNotify(w) \/ Mark(w) \/ Crash(w)
               \/ \E m \in requests : Receive(w, m) /\ worker' # worker
        PROVE  worker'[w].pc # "marking"
    BY <2>4, BusyWorker DEF DispatchFault, DispatchNotify, Mark, Crash, Raises,
           Receive, TypeOK, Free
  <2>5. \/ worker'[w] = worker[w]
        \/ \E m \in requests : Receive(w, m) /\ worker' # worker
        \/ DispatchTicket(w) \/ DispatchFault(w) \/ DispatchNotify(w)
        \/ DispatchUnhandled(w) \/ Mark(w) \/ Crash(w)
    BY OtherWorkers DEF Next, Handle, Send, Lose, Reject, Tick, vars
  <2> QED BY <1>2, <2>1, <2>2, <2>3, <2>4, <2>5
<1>3. ASSUME NEW e \in Events, processed'[e] > 0 PROVE Done(e)'
  <2>1. CASE processed[e] > 0
    BY <1>1, <2>1 DEF MarkedIsDone
  <2>2. ASSUME NEW w \in Workers, Mark(w), worker[w].event = e PROVE Done(e)'
    BY <1>1, <2>2 DEF Mark, MarkedIsDone
  <2>3. ASSUME NEW w \in Workers, Mark(w), worker[w].event # e
        PROVE  processed'[e] = processed[e]
    BY <2>3 DEF Mark, SetProcessed, TypeOK
  <2>4. CASE Tick
    <3>1. processed[e] \in Nat /\ processed'[e] = IF processed[e] = 0 THEN 0
                                                  ELSE processed[e] - 1
      BY <2>4, Windows DEF Tick, TypeOK
    <3> QED BY <1>3, <2>1, <3>1
  <2>5. processed' = processed \/ Tick \/ \E w \in Workers : Mark(w)
    BY DEF Next, Handle, Send, Lose, Receive, Reject, DispatchTicket, DispatchFault,
           DispatchNotify, DispatchUnhandled, Crash, vars
  <2> QED BY <1>3, <2>1, <2>2, <2>3, <2>4, <2>5
<1> QED BY <1>2, <1>3 DEF MarkedIsDone

LEMMA AckedIsDoneStep == IInv /\ [Next]_vars => AckedIsDone'
<1> SUFFICES ASSUME IInv, [Next]_vars, NEW e \in acked' PROVE Done(e)'
  BY DEF AckedIsDone
<1> USE DEF IInv
<1>1. e \in Events
  BY NextType DEF TypeOK
<1>2. Done(e)
  <2>1. CASE e \in acked
    BY <2>1 DEF AckedIsDone
  <2>2. ASSUME NEW w \in Workers, NEW m \in requests, Receive(w, m), e \notin acked
        PROVE  Done(e)
    <3>1. e = m.event /\ processed[e] > 0
      BY <2>2 DEF Receive, Answer, IsAlreadyProcessed
    <3> QED BY <1>1, <3>1 DEF MarkedIsDone
  <2>3. ASSUME NEW w \in Workers, Mark(w), e \notin acked PROVE Done(e)
    BY <2>3 DEF Mark, Answer, MarkedIsDone
  <2>4. \/ acked' = acked \/ \E w \in Workers : Mark(w)
        \/ \E w \in Workers : \E m \in requests : Receive(w, m)
    BY DEF Next, Handle, Send, Lose, Reject, DispatchTicket, DispatchFault,
           DispatchNotify, DispatchUnhandled, Crash, Tick, vars
  <2> QED BY <2>1, <2>2, <2>3, <2>4
<1>3. effects[e] \in Nat /\ effects'[e] \in Nat
  BY <1>1, NextType DEF TypeOK
<1>4. effects' = effects \/ \E w \in Workers : /\ worker[w].pc = "dispatching"
                                              /\ Carried(worker[w].event)
  BY DEF Next, Handle, Send, Lose, Receive, Reject, DispatchTicket, DispatchFault,
         DispatchNotify, DispatchUnhandled, Mark, Crash, Tick, vars
<1> QED BY <1>1, <1>2, <1>3, <1>4 DEF Done, Carried, TypeOK

\* The count of the workers on an event changes only by the one that moves.
LEMMA OneMoves ==
  ASSUME NEW w \in Workers, \A v \in Workers \ {w} : worker'[v] = worker[v],
         NEW e, NEW pc
  PROVE  Cardinality(Doing(e, pc)') =
           (Cardinality(Doing(e, pc)) - (IF w \in Doing(e, pc) THEN 1 ELSE 0))
             + (IF w \in Doing(e, pc)' THEN 1 ELSE 0)
<1> DEFINE A == Doing(e, pc)
           B == Doing(e, pc)'
<1>1. IsFiniteSet(A) /\ IsFiniteSet(B)
  <2>1. IsFiniteSet(A)
    BY DoingCount
  <2>2. B \in SUBSET Workers
    BY DEF Doing
  <2> QED BY <2>1, <2>2, FS_Subset, LimitAssumption
<1>2. A \ {w} = B \ {w}
  BY DEF Doing
<1> HIDE DEF A, B
<1>3. Cardinality(A) \in Nat /\ Cardinality(B) \in Nat
  BY <1>1, FS_CardinalityType
<1>4. Cardinality(A \ {w}) = IF w \in A THEN Cardinality(A) - 1 ELSE Cardinality(A)
  BY <1>1, FS_RemoveElement
<1>5. Cardinality(B \ {w}) = IF w \in B THEN Cardinality(B) - 1 ELSE Cardinality(B)
  BY <1>1, FS_RemoveElement
<1> QED BY <1>2, <1>3, <1>4, <1>5 DEF A, B

LEMMA EffectsCountedStep == IInv /\ [Next]_vars => EffectsCounted'
<1> SUFFICES ASSUME IInv, [Next]_vars, NEW e \in Events
             PROVE  IF e \in marked'
                      THEN effects'[e] + Cardinality(Doing(e, "dispatching")')
                             <= Cardinality(Workers) + faults' + crashes'
                      ELSE effects'[e] <= Cardinality(Doing(e, "marking")')
                                            + faults' + crashes'
  BY DEF EffectsCounted
<1> USE DEF IInv
<1> DEFINE D == Cardinality(Doing(e, "dispatching"))
           M == Cardinality(Doing(e, "marking"))
           Dp == Cardinality(Doing(e, "dispatching")')
           Mp == Cardinality(Doing(e, "marking")')
           N == Cardinality(Workers)
           Goal == IF e \in marked' THEN effects'[e] + Dp <= N + faults' + crashes'
                                    ELSE effects'[e] <= Mp + faults' + crashes'
<1>1. /\ D \in Nat /\ M \in Nat /\ N \in Nat /\ D + M <= N
      /\ effects[e] \in Nat /\ faults \in Nat /\ crashes \in Nat
  BY DoingCount DEF TypeOK
<1>2. IF e \in marked THEN effects[e] + D <= N + faults + crashes
                      ELSE effects[e] <= M + faults + crashes
  BY DEF EffectsCounted
<1>3. ASSUME UNCHANGED <<worker, effects, marked, faults, crashes>> PROVE Goal
  <2>1. Dp = D /\ Mp = M
    BY <1>3 DEF Doing
  <2> QED BY <1>2, <1>3, <2>1
\* The moves of one worker: what they do to the two counts.
<1>4. ASSUME NEW w \in Workers, \A v \in Workers \ {w} : worker'[v] = worker[v]
      PROVE  /\ Dp = (D - (IF w \in Doing(e, "dispatching") THEN 1 ELSE 0))
                       + (IF w \in Doing(e, "dispatching")' THEN 1 ELSE 0)
             /\ Mp = (M - (IF w \in Doing(e, "marking") THEN 1 ELSE 0))
                       + (IF w \in Doing(e, "marking")' THEN 1 ELSE 0)
  BY <1>4, OneMoves
<1> HIDE DEF D, M, Dp, Mp, N
<1>5. ASSUME NEW w \in Workers, DispatchTicket(w) PROVE Goal
  <2>1. /\ \A v \in Workers \ {w} : worker'[v] = worker[v]
        /\ worker[w].pc = "dispatching" /\ worker'[w].pc = "marking"
        /\ worker'[w].event = worker[w].event /\ worker[w].event \in Events
    BY <1>5, BusyWorker DEF DispatchTicket, Succeeds, TypeOK, Busy
  <2>2. /\ w \notin Doing(e, "marking") /\ w \notin Doing(e, "dispatching")'
        /\ w \in Doing(e, "dispatching") <=> worker[w].event = e
        /\ w \in Doing(e, "marking")' <=> worker[w].event = e
    BY <2>1 DEF Doing
  <2>3. effects'[e] = IF worker[w].event = e THEN effects[e] + 1 ELSE effects[e]
    BY <1>5, <2>1 DEF DispatchTicket, Carried, TypeOK
  <2>4. UNCHANGED <<marked, faults, crashes>>
    BY <1>5 DEF DispatchTicket
  <2>5. /\ Dp = IF worker[w].event = e THEN D - 1 ELSE D
        /\ Mp = IF worker[w].event = e THEN M + 1 ELSE M
    BY <1>1, <1>4, <2>1, <2>2
  <2> QED BY <1>1, <1>2, <2>3, <2>4, <2>5
<1>6. ASSUME NEW w \in Workers, DispatchFault(w) PROVE Goal
  <2>1. /\ \A v \in Workers \ {w} : worker'[v] = worker[v]
        /\ worker[w].pc = "dispatching" /\ worker'[w].pc = "free"
        /\ worker[w].event \in Events
    BY <1>6, BusyWorker DEF DispatchFault, Raises, TypeOK, Free
  <2>2. /\ w \notin Doing(e, "marking") /\ w \notin Doing(e, "dispatching")'
        /\ w \notin Doing(e, "marking")'
    BY <2>1 DEF Doing
  <2>3. effects'[e] \in {effects[e], effects[e] + 1}
    BY <1>6, <2>1 DEF DispatchFault, Carried, TypeOK
  <2>4. UNCHANGED <<marked, crashes>> /\ faults' = faults + 1
    BY <1>6 DEF DispatchFault
  <2>5. Dp <= D /\ Dp \in Int /\ Mp = M
    BY <1>1, <1>4, <2>1, <2>2
  <2> QED BY <1>1, <1>2, <2>3, <2>4, <2>5
<1>7. ASSUME NEW w \in Workers, DispatchNotify(w) \/ DispatchUnhandled(w) PROVE Goal
  <2>1. /\ \A v \in Workers \ {w} : worker'[v] = worker[v]
        /\ worker[w].pc = "dispatching" /\ worker'[w].pc # "dispatching"
    BY <1>7, BusyWorker
       DEF DispatchNotify, DispatchUnhandled, Raises, Succeeds, TypeOK, Free, Busy
  <2>2. w \notin Doing(e, "marking") /\ w \notin Doing(e, "dispatching")'
    BY <2>1 DEF Doing
  <2>3. UNCHANGED <<effects, marked, faults, crashes>>
    BY <1>7 DEF DispatchNotify, DispatchUnhandled
  <2>4. Dp <= D /\ Dp \in Int /\ M <= Mp /\ Mp \in Int
    BY <1>1, <1>4, <2>1, <2>2
  <2> QED BY <1>1, <1>2, <2>3, <2>4
<1>8. ASSUME NEW w \in Workers, Mark(w) PROVE Goal
  <2>1. /\ \A v \in Workers \ {w} : worker'[v] = worker[v]
        /\ worker[w].pc = "marking" /\ worker'[w].pc = "free"
    BY <1>8, BusyWorker DEF Mark, TypeOK, Free
  <2>2. /\ w \notin Doing(e, "dispatching") /\ w \notin Doing(e, "dispatching")'
        /\ w \notin Doing(e, "marking")'
        /\ w \in Doing(e, "marking") <=> worker[w].event = e
    BY <2>1 DEF Doing
  <2>3. Dp = D /\ Mp = IF worker[w].event = e THEN M - 1 ELSE M
    BY <1>1, <1>4, <2>1, <2>2
  <2>4. UNCHANGED <<effects, faults, crashes>> /\ marked' = marked \cup {worker[w].event}
    BY <1>8 DEF Mark
  <2> QED BY <1>1, <1>2, <2>3, <2>4
<1>9. ASSUME NEW w \in Workers, Crash(w) PROVE Goal
  <2>1. \A v \in Workers \ {w} : worker'[v] = worker[v]
    BY <1>9 DEF Crash, TypeOK
  <2>2. w \notin Doing(e, "dispatching")' /\ w \notin Doing(e, "marking")'
    BY <1>9 DEF Crash, TypeOK, Free, Doing
  <2>3. Dp <= D /\ Dp \in Int /\ Mp + 1 >= M /\ Mp \in Int
    BY <1>1, <1>4, <2>1, <2>2
  <2>4. UNCHANGED <<effects, faults, marked>> /\ crashes' = crashes + 1
    BY <1>9 DEF Crash
  <2> QED BY <1>1, <1>2, <2>3, <2>4
<1>10. ASSUME NEW w \in Workers, NEW m \in requests, Receive(w, m) PROVE Goal
  <2>1. UNCHANGED <<effects, marked, faults, crashes>>
    BY <1>10 DEF Receive
  <2>2. CASE worker' = worker
    BY <1>3, <2>1, <2>2
  <2>3. CASE /\ worker' = [worker EXCEPT ![w] = [pc |-> "dispatching", event |-> m.event]]
             /\ ~IsAlreadyProcessed(m.event)
    <3>1. worker[w].pc = "free" /\ worker'[w] = [pc |-> "dispatching", event |-> m.event]
      BY <1>10, <2>3 DEF Receive, Free, TypeOK
    <3>2. \A v \in Workers \ {w} : worker'[v] = worker[v]
      BY <2>3 DEF TypeOK
    <3>3. /\ w \notin Doing(e, "dispatching") /\ w \notin Doing(e, "marking")
          /\ w \notin Doing(e, "marking")'
          /\ w \in Doing(e, "dispatching")' => m.event = e
      BY <3>1 DEF Doing
    <3>4. e \in marked => m.event # e
      BY <1>10, <2>3, NotStartedAgain
    <3>5. Mp = M /\ (e \in marked => Dp = D)
      BY <1>1, <1>4, <3>2, <3>3, <3>4
    <3> QED BY <1>2, <2>1, <3>5
  <2> QED BY <1>10, <2>2, <2>3 DEF Receive
<1>11. \/ UNCHANGED <<worker, effects, marked, faults, crashes>>
       \/ \E w \in Workers :
            \/ \E m \in requests : Receive(w, m)
            \/ DispatchTicket(w) \/ DispatchFault(w) \/ DispatchNotify(w)
            \/ DispatchUnhandled(w) \/ Mark(w) \/ Crash(w)
  BY DEF Next, Handle, Send, Lose, Reject, Tick, vars
<1>12. Goal
  BY <1>3, <1>5, <1>6, <1>7, <1>8, <1>9, <1>10, <1>11
<1> QED BY <1>12 DEF Dp, Mp, N

LEMMA Inductive == Spec => []IInv
<1>1. IInv /\ [Next]_vars => IInv'
  BY NextType, RequestsInWindowStep, KeysCoverWindowStep, MarkedIsDoneStep,
     AckedIsDoneStep, EffectsCountedStep DEF IInv
<1> QED BY InitIInv, <1>1, PTL DEF Spec

-----------------------------------------------------------------------------
\* In every reachable state the variables have their types.
THEOREM TypeCorrect == Spec => []TypeOK
<1>1. IInv => TypeOK
  BY DEF IInv
<1> QED BY Inductive, <1>1, PTL

\* The deduplication record outlives every redelivery: whatever the network,
\* the clocks (within Skew) and the workers do, no worker starts to dispatch an
\* event that was ever marked as processed.
THEOREM MarkedStaysDone == Spec => MarkedIsNeverRedone
<1>1. ASSUME IInv, [Next]_vars, NEW w \in Workers, NEW e \in marked,
             Dispatching(w, e)'
      PROVE  Dispatching(w, e)
  <2>2. ASSUME NEW m \in requests, Receive(w, m) PROVE Dispatching(w, e)
    BY <1>1, <2>2, NotStartedAgain DEF Receive, Dispatching, IInv, TypeOK, Busy, Free
  <2>3. CASE worker'[w] = worker[w]
    BY <1>1, <2>3 DEF Dispatching
  <2>4. ASSUME \/ DispatchTicket(w) \/ DispatchFault(w) \/ DispatchNotify(w)
               \/ DispatchUnhandled(w) \/ Mark(w) \/ Crash(w)
        PROVE  FALSE
    <3>1. worker'[w].pc \in {"marking", "free"}
      BY <1>1, <2>4, BusyWorker
         DEF DispatchTicket, DispatchFault, DispatchNotify, DispatchUnhandled,
             Mark, Crash, Succeeds, Raises, IInv, TypeOK, Free, Busy
    <3> QED BY <1>1, <3>1 DEF Dispatching
  <2>5. \/ worker'[w] = worker[w]
        \/ \E m \in requests : Receive(w, m)
        \/ DispatchTicket(w) \/ DispatchFault(w) \/ DispatchNotify(w)
        \/ DispatchUnhandled(w) \/ Mark(w) \/ Crash(w)
    BY <1>1, OtherWorkers DEF IInv, Next, Handle, Send, Lose, Reject, Tick, vars
  <2> QED BY <2>2, <2>3, <2>4, <2>5
<1>2. IInv /\ [Next]_vars =>
        [\A w \in Workers, e \in marked : Dispatching(w, e)' => Dispatching(w, e)]_vars
  BY <1>1
<1> QED BY Inductive, <1>2, PTL DEF Spec, MarkedIsNeverRedone

\* What Stripe was told is done is done: an acknowledged event has no handler or
\* has had its effect, in any interleaving of deliveries, workers and crashes.
THEOREM AcknowledgedIsDone == Spec => []AckedIsDone
<1>1. IInv => AckedIsDone
  BY DEF IInv
<1> QED BY Inductive, <1>1, PTL

\* How often an event can be carried out: once for each worker that may be past
\* the exists at the mark, and once for each failure or crash.
THEOREM RepeatsHaveACause == Spec => []RepeatsAreAccountedFor
<1>1. ASSUME IInv, NEW e \in Events
      PROVE  effects[e] <= Cardinality(Workers) + faults + crashes
  <2> DEFINE D == Cardinality(Doing(e, "dispatching"))
             M == Cardinality(Doing(e, "marking"))
             N == Cardinality(Workers)
  <2>1. D \in Nat /\ M \in Nat /\ N \in Nat /\ D + M <= N
    BY DoingCount
  <2>2. effects[e] \in Nat /\ faults \in Nat /\ crashes \in Nat
    BY <1>1 DEF IInv, TypeOK
  <2>3. IF e \in marked THEN effects[e] + D <= N + faults + crashes
                        ELSE effects[e] <= M + faults + crashes
    BY <1>1 DEF IInv, EffectsCounted
  <2> HIDE DEF D, M, N
  <2>4. effects[e] <= N + faults + crashes
    BY <2>1, <2>2, <2>3
  <2> QED BY <2>4 DEF N
<1>2. IInv => RepeatsAreAccountedFor
  BY <1>1 DEF RepeatsAreAccountedFor
<1> QED BY Inductive, <1>2, PTL

=============================================================================
