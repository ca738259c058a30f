------------------------ MODULE PaymentIntentsProofs ------------------------
(***************************************************************************)
(* Proofs about PaymentIntents, for any purchases, request bodies and      *)
(* callers, any number of attempts, minutes, calls and faults.             *)
(***************************************************************************)
EXTENDS PaymentIntents, FiniteSetTheorems, TLAPS

States == {Idle} \cup Caching \cup Creating \cup Paying

\* What the program counter says of the record it is part of.
LEMMA ShapeOfStates ==
  ASSUME NEW s \in States
  PROVE  /\ s.pc = "caching" => s \in Caching
         /\ s.pc = "creating" => s \in Creating
         /\ s.pc = "confirming" => s \in Paying
BY DEF States, Idle, Caching, Creating, Paying

LEMMA CallersFinite == /\ IsFiniteSet(Callers)
                       /\ Cardinality(Callers) \in Nat
BY BoundAssumption, FS_CardinalityType

-----------------------------------------------------------------------------
(* Type correctness                                                        *)

LEMMA TypeInit == Init => TypeOK
BY BoundAssumption DEF Init, TypeOK, Minutes

\* What Retry does to the caller and to the answers.
LEMMA RetryType ==
  ASSUME TypeOK, NEW c \in Callers, Retry(c),
         caller[c] \in Creating \cup Paying
  PROVE  /\ caller' \in [Callers -> States]
         /\ answered' \subseteq (Key \X Answer)
<1> DEFINE s == caller[c]
<1> USE RetryAssumption DEF TypeOK, States
<1>1. s.key \in Key /\ s.attempt \in 0 .. (MAX_RETRIES - 1)
  BY DEF Creating, Paying
<1>2. CASE s.attempt + 1 < MAX_RETRIES
  <2>1. s.attempt + 1 \in 0 .. (MAX_RETRIES - 1)
    BY <1>1, <1>2
  <2>2. [s EXCEPT !.attempt = s.attempt + 1] \in Creating \cup Paying
    BY <2>1 DEF Creating, Paying
  <2> QED BY <1>2, <2>2 DEF Retry, Goto
<1>3. CASE ~(s.attempt + 1 < MAX_RETRIES)
  BY <1>1, <1>3 DEF Retry, Goto, Tell, Answer
<1> QED BY <1>2, <1>3

LEMMA TypeNext == TypeOK /\ [Next]_vars => TypeOK'
<1> SUFFICES ASSUME TypeOK, [Next]_vars PROVE TypeOK'
  OBVIOUS
<1> USE RetryAssumption, BoundAssumption DEF TypeOK
<1>1. \A c \in Callers : caller[c] \in States
  BY DEF States
<1>2. ASSUME NEW c \in Callers, GetKey(c) PROVE TypeOK'
  <2>1. PICK u \in Purchases, b \in Bodies, pays \in BOOLEAN :
          IF cache[u] # NoKey
            THEN Goto(c, [pc |-> "creating", key |-> cache[u], body |-> b,
                          pays |-> pays, attempt |-> 0])
            ELSE Goto(c, [pc |-> "caching", purchase |-> u, missed |-> minute,
                          body |-> b, pays |-> pays])
    BY <1>2 DEF GetKey
  <2>2. CASE cache[u] # NoKey
    <3>1. cache[u] \in Key
      BY <2>2
    <3>2. [pc |-> "creating", key |-> cache[u], body |-> b,
           pays |-> pays, attempt |-> 0] \in Creating
      BY <3>1 DEF Creating
    <3> QED BY <1>2, <2>1, <2>2, <3>2 DEF GetKey, Goto
  <2>3. CASE cache[u] = NoKey
    <3>1. [pc |-> "caching", purchase |-> u, missed |-> minute,
           body |-> b, pays |-> pays] \in Caching
      BY DEF Caching
    <3> QED BY <1>2, <2>1, <2>3, <3>1 DEF GetKey, Goto
  <2> QED BY <2>2, <2>3
<1>3. ASSUME NEW c \in Callers, ConfirmPayment(c) PROVE TypeOK'
  <2>1. PICK i \in intents :
          Goto(c, [pc |-> "confirming", key |-> i.key, attempt |-> 0])
    BY <1>3 DEF ConfirmPayment
  <2>2. [pc |-> "confirming", key |-> i.key, attempt |-> 0] \in Paying
    BY DEF Intent, Paying
  <2> QED BY <1>3, <2>1, <2>2 DEF ConfirmPayment, Goto
<1>4. ASSUME NEW c \in Callers, SetKey(c) PROVE TypeOK'
  <2>1. caller[c] \in Caching
    BY <1>1, <1>4, ShapeOfStates DEF SetKey
  <2>2. PICK key \in NewKeys(caller[c]) :
          /\ Cached(key)
          /\ Goto(c, [pc |-> "creating", key |-> key, body |-> caller[c].body,
                      pays |-> caller[c].pays, attempt |-> 0])
    BY <1>4 DEF SetKey
  <2>3. key \in Key
    BY <2>1 DEF NewKeys, Key, Caching, Minutes
  <2>4. [pc |-> "creating", key |-> key, body |-> caller[c].body,
         pays |-> caller[c].pays, attempt |-> 0] \in Creating
    BY <2>1, <2>3 DEF Caching, Creating
  <2>5. key.purchase \in Purchases
    BY <2>3 DEF Key
  <2> QED BY <1>4, <2>2, <2>3, <2>4, <2>5 DEF SetKey, Cached, Goto
<1>5. ASSUME NEW c \in Callers, CreateAnswered(c) PROVE TypeOK'
  <2>1. caller[c] \in Creating
    BY <1>1, <1>5, ShapeOfStates DEF CreateAnswered
  <2>2. /\ [key |-> caller[c].key, body |-> caller[c].body] \in Intent
        /\ [pc |-> "confirming", key |-> caller[c].key, attempt |-> 0] \in Paying
    BY <2>1 DEF Creating, Intent, Paying
  <2> QED BY <1>5, <2>2 DEF CreateAnswered, Creates, Goto
<1>6. ASSUME NEW c \in Callers, CreateFails(c) PROVE TypeOK'
  <2>1. caller[c] \in Creating
    BY <1>1, <1>6, ShapeOfStates DEF CreateFails
  <2>2. [key |-> caller[c].key, body |-> caller[c].body] \in Intent
    BY <2>1 DEF Creating, Intent
  <2>3. intents' \subseteq Intent
    BY <1>6, <2>2 DEF CreateFails, Creates
  <2>4. /\ caller' \in [Callers -> States]
        /\ answered' \subseteq (Key \X Answer)
    BY <1>6, <2>1, RetryType DEF CreateFails
  <2> QED BY <1>6, <2>3, <2>4 DEF CreateFails, Fault, States
<1>7. ASSUME NEW c \in Callers, CreateMismatch(c) PROVE TypeOK'
  <2>1. caller[c].key \in Key
    BY <1>1, <1>7, ShapeOfStates DEF CreateMismatch, Creating
  <2> QED BY <1>7, <2>1 DEF CreateMismatch, Goto, Tell, Answer
<1>8. ASSUME NEW c \in Callers, ConfirmAnswered(c) PROVE TypeOK'
  <2>1. caller[c].key \in Key
    BY <1>1, <1>8, ShapeOfStates DEF ConfirmAnswered, Paying
  <2> QED BY <1>8, <2>1 DEF ConfirmAnswered, Goto, Tell, Answer
<1>9. ASSUME NEW c \in Callers, ConfirmDeclined(c) PROVE TypeOK'
  <2>1. caller[c].key \in Key
    BY <1>1, <1>9, ShapeOfStates DEF ConfirmDeclined, Paying
  <2> QED BY <1>9, <2>1 DEF ConfirmDeclined, Goto, Tell, Answer, Fault
<1>10. ASSUME NEW c \in Callers, ConfirmFails(c) PROVE TypeOK'
  <2>1. caller[c] \in Paying
    BY <1>1, <1>10, ShapeOfStates DEF ConfirmFails
  <2>2. /\ caller' \in [Callers -> States]
        /\ answered' \subseteq (Key \X Answer)
    BY <1>10, <2>1, RetryType DEF ConfirmFails
  <2>3. charged' \subseteq Key
    BY <1>10, <2>1 DEF ConfirmFails, Paying
  <2> QED BY <1>10, <2>2, <2>3 DEF ConfirmFails, Fault, States
<1>11. ASSUME NEW c \in Callers, ConfirmRefused(c) PROVE TypeOK'
  <2>1. caller[c] \in Paying
    BY <1>1, <1>11, ShapeOfStates DEF ConfirmRefused
  <2>2. /\ caller' \in [Callers -> States]
        /\ answered' \subseteq (Key \X Answer)
    BY <1>11, <2>1, RetryType DEF ConfirmRefused
  <2> QED BY <1>11, <2>2 DEF ConfirmRefused, States
<1>12. ASSUME NEW c \in Callers, Crash(c) PROVE TypeOK'
  BY <1>12 DEF Crash, Goto, Fault
<1>13. CASE NextMinute
  BY <1>13 DEF NextMinute, Minutes
<1>14. CASE UNCHANGED vars
  BY <1>14 DEF vars
<1> QED BY <1>2, <1>3, <1>4, <1>5, <1>6, <1>7, <1>8, <1>9, <1>10, <1>11, <1>12,
          <1>13, <1>14 DEF Next, Proceed

\* The cache, the intents, the callers and the answers always have their types.
THEOREM TypeCorrect == Spec => []TypeOK
<1>1. Init => TypeOK
  BY TypeInit
<1>2. TypeOK /\ [Next]_vars => TypeOK'
  BY TypeNext
<1> QED BY <1>1, <1>2, PTL DEF Spec
-----------------------------------------------------------------------------
(* One key is cached per purchase and one intent made per key              *)

LEMMA OneBodyNext ==
  ASSUME TypeOK, OneBody, Next
  PROVE  OneBody'
<1>1. ASSUME NEW key, NEW body, Accepts(key, body), Creates(key, body)
      PROVE  OneBody'
  <2> DEFINE new == [key |-> key, body |-> body]
  <2>1. ASSUME NEW i \in intents, i.key = key PROVE i = new
    <3>1. i = [key |-> i.key, body |-> i.body]
      BY DEF TypeOK, Intent
    <3> QED BY <1>1, <2>1, <3>1 DEF Accepts, Known
  <2>2. new.key = key
    OBVIOUS
  <2> HIDE DEF new
  <2>3. intents' = intents \cup {new}
    BY <1>1 DEF Creates, new
  <2> QED BY <2>1, <2>2, <2>3 DEF OneBody
<1>2. ASSUME UNCHANGED intents PROVE OneBody'
  BY <1>2 DEF OneBody
<1>3. ASSUME NEW c \in Callers, CreateAnswered(c) PROVE OneBody'
  BY <1>1, <1>3 DEF CreateAnswered
<1>4. ASSUME NEW c \in Callers, CreateFails(c) PROVE OneBody'
  BY <1>1, <1>2, <1>4 DEF CreateFails
<1> QED BY <1>2, <1>3, <1>4 DEF Next, Proceed, GetKey, ConfirmPayment, SetKey,
          CreateMismatch, ConfirmAnswered, ConfirmDeclined, ConfirmFails,
          ConfirmRefused, Crash, NextMinute

LEMMA CacheMatchesNext ==
  ASSUME TypeOK, CacheMatches, Next
  PROVE  CacheMatches'
<1>1. ASSUME UNCHANGED cache PROVE CacheMatches'
  BY <1>1 DEF CacheMatches
<1>2. ASSUME NEW c \in Callers, SetKey(c) PROVE CacheMatches'
  <2>1. PICK key \in NewKeys(caller[c]) : Cached(key)
    BY <1>2 DEF SetKey
  <2> QED BY <2>1 DEF Cached, NewKeys, CacheMatches, TypeOK
<1> QED BY <1>1, <1>2 DEF Next, Proceed, GetKey, ConfirmPayment, CreateAnswered,
          CreateFails, CreateMismatch, ConfirmAnswered, ConfirmDeclined,
          ConfirmFails, ConfirmRefused, Crash, NextMinute

-----------------------------------------------------------------------------
(* The keys of a purchase and the callers that are about to add one        *)

LEMMA KeysFinite ==
  ASSUME NEW u
  PROVE  IsFiniteSet([purchase : {u}, minute : Minutes])
<1> DEFINE T == [purchase : {u}, minute : Minutes]
           f == [n \in Minutes |-> [purchase |-> u, minute |-> n]]
<1>1. IsFiniteSet(Minutes)
  BY BoundAssumption, FS_Interval DEF Minutes
<1>2. f \in Surjection(Minutes, T)
  BY DEF Surjection
<1> QED BY <1>1, <1>2, FS_Surjection

LEMMA CountShrinks ==
  ASSUME NEW K, NEW M, IsFiniteSet(K), IsFiniteSet(M),
         Cardinality(K) + Cardinality(M) <= Cardinality(Callers),
         NEW K2 \in SUBSET K, NEW M2 \in SUBSET M
  PROVE  Cardinality(K2) + Cardinality(M2) <= Cardinality(Callers)
<1>1. /\ Cardinality(K) \in Nat /\ Cardinality(M) \in Nat
      /\ IsFiniteSet(K2) /\ IsFiniteSet(M2)
      /\ Cardinality(K2) <= Cardinality(K) /\ Cardinality(M2) <= Cardinality(M)
  BY FS_CardinalityType, FS_Subset
<1>2. Cardinality(K2) \in Nat /\ Cardinality(M2) \in Nat
  BY <1>1, FS_CardinalityType
<1> QED BY <1>1, <1>2, CallersFinite

\* A caller that leaves M pays for the key that is added to K.
LEMMA CountMoves ==
  ASSUME NEW K, NEW M, IsFiniteSet(K), IsFiniteSet(M),
         Cardinality(K) + Cardinality(M) <= Cardinality(Callers),
         NEW key, NEW c \in M,
         NEW K2 \in SUBSET (K \cup {key}), NEW M2 \in SUBSET (M \ {c})
  PROVE  Cardinality(K2) + Cardinality(M2) <= Cardinality(Callers)
<1>1. Cardinality(K) \in Nat /\ Cardinality(M) \in Nat
  BY FS_CardinalityType
<1>2. /\ IsFiniteSet(K \cup {key})
      /\ Cardinality(K \cup {key}) <= Cardinality(K) + 1
  <2>1. /\ IsFiniteSet(K \cup {key})
        /\ Cardinality(K \cup {key}) =
             IF key \in K THEN Cardinality(K) ELSE Cardinality(K) + 1
    BY FS_AddElement
  <2> QED BY <1>1, <2>1
<1>3. /\ IsFiniteSet(M \ {c})
      /\ Cardinality(M \ {c}) = Cardinality(M) - 1
  BY FS_RemoveElement
<1>4. Cardinality(K \cup {key}) \in Nat /\ Cardinality(M \ {c}) \in Nat
  BY <1>2, <1>3, FS_CardinalityType
<1>5. Cardinality(K \cup {key}) + Cardinality(M \ {c}) <= Cardinality(Callers)
  BY <1>1, <1>2, <1>3, <1>4, CallersFinite
<1> QED BY <1>2, <1>3, <1>5, CountShrinks

LEMMA SetsFinite ==
  ASSUME NEW u
  PROVE  IsFiniteSet(KeysOf(u)) /\ IsFiniteSet(Missed(u))
<1>1. KeysOf(u) \subseteq [purchase : {u}, minute : Minutes]
  BY DEF KeysOf
<1>2. Missed(u) \subseteq Callers
  BY DEF Missed
<1> QED BY <1>1, <1>2, KeysFinite, CallersFinite, FS_Subset

\* A step that shrinks both sets keeps the count.
LEMMA ShrinkKeepsCount ==
  ASSUME KeysCounted, NEW u \in Purchases, cache'[u] = cache[u],
         KeysOf(u)' \subseteq KeysOf(u), Missed(u)' \subseteq Missed(u)
  PROVE  /\ cache'[u] = NoKey => KeysOf(u)' = {}
         /\ Cardinality(KeysOf(u)') + Cardinality(Missed(u)') <= Cardinality(Callers)
BY SetsFinite, CountShrinks DEF KeysCounted

\* Caller c goes on without a new key, and Stripe gets no other intent than
\* for the key that c was using.
LEMMA QuietStep ==
  ASSUME KeysCounted, NEW c \in Callers, cache' = cache,
         \A d \in Callers \ {c} : caller'[d] = caller[d],
         caller'[c].pc # "caching",
         \A k : Using(c, k)' => Using(c, k) \/ \E i \in intents : i.key = k,
         \A i \in intents' : i \in intents \/ Using(c, i.key)
  PROVE  KeysCounted'
<1> SUFFICES ASSUME NEW u \in Purchases
             PROVE  /\ cache'[u] = NoKey => KeysOf(u)' = {}
                    /\ Cardinality(KeysOf(u)') + Cardinality(Missed(u)')
                         <= Cardinality(Callers)
  BY DEF KeysCounted
<1>1. Missed(u)' \subseteq Missed(u)
  BY DEF Missed
<1>2. KeysOf(u)' \subseteq KeysOf(u)
  <2>1. \A k : \A d \in Callers \ {c} : Using(d, k)' <=> Using(d, k)
    BY DEF Using
  <2>2. ASSUME NEW k, NEW d \in Callers, Using(d, k)'
        PROVE  Using(d, k) \/ \E i \in intents : i.key = k
    BY <2>1, <2>2
  <2>3. ASSUME NEW i \in intents'
        PROVE  (\E j \in intents : j.key = i.key) \/ Using(c, i.key)
    BY <2>3
  <2>4. ASSUME NEW k \in KeysOf(u)' PROVE k \in KeysOf(u)
    <3>1. k \in [purchase : {u}, minute : Minutes]
      BY <2>4 DEF KeysOf
    <3>2. CASE k = cache'[u]
      BY <3>1, <3>2 DEF KeysOf
    <3>3. CASE \E i \in intents' : i.key = k
      BY <2>3, <3>1, <3>3 DEF KeysOf
    <3>4. CASE \E d \in Callers : Using(d, k)'
      BY <2>2, <3>1, <3>4 DEF KeysOf
    <3> QED BY <2>4, <3>2, <3>3, <3>4 DEF KeysOf
  <2> QED BY <2>4
<1> QED BY <1>1, <1>2, ShrinkKeepsCount

\* A caller that retries, or gives up, keeps to the key it has.
LEMMA RetryUses ==
  ASSUME TypeOK, NEW c \in Callers, Retry(c),
         caller[c] \in Creating \cup Paying
  PROVE  /\ \A d \in Callers \ {c} : caller'[d] = caller[d]
         /\ caller'[c].pc # "caching"
         /\ \A k : Using(c, k)' => Using(c, k)
<1>1. \/ caller' = [caller EXCEPT ![c] = Idle]
      \/ caller' = [caller EXCEPT ![c] = [caller[c] EXCEPT !.attempt = caller[c].attempt + 1]]
  BY DEF Retry, Goto
<1>2. /\ caller[c].pc \in {"creating", "confirming"}
      /\ [caller[c] EXCEPT !.attempt = caller[c].attempt + 1].pc = caller[c].pc
      /\ [caller[c] EXCEPT !.attempt = caller[c].attempt + 1].key = caller[c].key
  BY DEF Creating, Paying
<1>3. \A d \in Callers \ {c} : caller'[d] = caller[d]
  BY <1>1 DEF TypeOK
<1>4. \/ caller'[c] = Idle
      \/ caller'[c].pc = caller[c].pc /\ caller'[c].key = caller[c].key
  BY <1>1, <1>2 DEF TypeOK
<1> QED BY <1>2, <1>3, <1>4 DEF Using, Idle

LEMMA KeysCountedNext ==
  ASSUME TypeOK, CacheMatches, KeysCounted, Next
  PROVE  KeysCounted'
<1>1. \A c \in Callers : caller[c] \in States
  BY DEF TypeOK, States
<1>2. ASSUME NEW c \in Callers, GetKey(c) PROVE KeysCounted'
  <2>1. PICK u \in Purchases, b \in Bodies, pays \in BOOLEAN :
          IF cache[u] # NoKey
            THEN Goto(c, [pc |-> "creating", key |-> cache[u], body |-> b,
                          pays |-> pays, attempt |-> 0])
            ELSE Goto(c, [pc |-> "caching", purchase |-> u, missed |-> minute,
                          body |-> b, pays |-> pays])
    BY <1>2 DEF GetKey
  <2>2. UNCHANGED <<cache, intents>>
    BY <1>2 DEF GetKey
  <2> SUFFICES ASSUME NEW w \in Purchases
               PROVE  /\ cache'[w] = NoKey => KeysOf(w)' = {}
                      /\ Cardinality(KeysOf(w)') + Cardinality(Missed(w)')
                           <= Cardinality(Callers)
    BY DEF KeysCounted
  <2>3. CASE cache[u] # NoKey
    <3>1. /\ caller'[c].pc = "creating" /\ caller'[c].key = cache[u]
          /\ \A d \in Callers \ {c} : caller'[d] = caller[d]
      BY <2>1, <2>3 DEF Goto, TypeOK
    <3>2. Missed(w)' \subseteq Missed(w)
      BY <3>1 DEF Missed
    <3>3. ASSUME NEW k \in KeysOf(w)' PROVE k \in KeysOf(w)
      <4>1. k \in [purchase : {w}, minute : Minutes]
        BY <3>3 DEF KeysOf
      <4>2. CASE Using(c, k)'
        <5>1. k = cache[u]
          BY <3>1, <4>2 DEF Using
        <5>2. k = cache[w]
          BY <2>3, <4>1, <5>1 DEF CacheMatches
        <5> QED BY <4>1, <5>2 DEF KeysOf
      <4>3. CASE ~Using(c, k)'
        BY <2>2, <3>1, <3>3, <4>3 DEF KeysOf, Using
      <4> QED BY <4>2, <4>3
    <3> QED BY <2>2, <3>2, <3>3, ShrinkKeepsCount
  <2>4. CASE cache[u] = NoKey
    <3>1. /\ caller'[c].pc = "caching" /\ caller'[c].purchase = u
          /\ \A d \in Callers \ {c} : caller'[d] = caller[d]
      BY <2>1, <2>4 DEF Goto, TypeOK
    <3>2. KeysOf(w)' \subseteq KeysOf(w)
      BY <2>2, <3>1 DEF KeysOf, Using
    <3>3. CASE w = u
      <4>1. KeysOf(w)' = {}
        BY <2>4, <3>2, <3>3 DEF KeysCounted
      <4>2. Missed(w)' \subseteq Callers
        BY DEF Missed
      <4>3. Cardinality(Missed(w)') \in Nat /\ Cardinality(Missed(w)') <= Cardinality(Callers)
        BY <4>2, CallersFinite, FS_Subset, FS_CardinalityType
      <4> QED BY <4>1, <4>3, CallersFinite, FS_EmptySet
    <3>4. CASE w # u
      <4>1. Missed(w)' \subseteq Missed(w)
        BY <3>1, <3>4 DEF Missed
      <4> QED BY <2>2, <3>2, <4>1, ShrinkKeepsCount
    <3> QED BY <3>3, <3>4
  <2> QED BY <2>3, <2>4
<1>3. ASSUME NEW c \in Callers, SetKey(c) PROVE KeysCounted'
  <2> DEFINE s == caller[c]
  <2>1. s \in Caching
    BY <1>1, <1>3, ShapeOfStates DEF SetKey
  <2>2. PICK key \in NewKeys(s) :
          /\ Cached(key)
          /\ Goto(c, [pc |-> "creating", key |-> key, body |-> s.body,
                      pays |-> s.pays, attempt |-> 0])
    BY <1>3 DEF SetKey
  <2>3. UNCHANGED intents
    BY <1>3 DEF SetKey
  <2>4. key \in Key /\ key.purchase = s.purchase /\ s.purchase \in Purchases
    BY <2>1, BoundAssumption DEF NewKeys, Key, Caching, Minutes, TypeOK
  <2>5. /\ caller'[c].pc = "creating" /\ caller'[c].key = key
        /\ \A d \in Callers \ {c} : caller'[d] = caller[d]
        /\ cache' = [cache EXCEPT ![s.purchase] = key]
    BY <2>2, <2>4 DEF Goto, Cached, TypeOK
  <2> SUFFICES ASSUME NEW w \in Purchases
               PROVE  /\ cache'[w] = NoKey => KeysOf(w)' = {}
                      /\ Cardinality(KeysOf(w)') + Cardinality(Missed(w)')
                           <= Cardinality(Callers)
    BY DEF KeysCounted
  <2>6. CASE w = s.purchase
    <3>1. cache'[w] = key /\ key # NoKey
      BY <2>4, <2>5, <2>6, KeyAssumption DEF TypeOK
    <3>2. KeysOf(w)' \subseteq KeysOf(w) \cup {key}
      BY <2>3, <2>5, <3>1 DEF KeysOf, Using
    <3>3. c \in Missed(w) /\ Missed(w)' \subseteq Missed(w) \ {c}
      BY <2>1, <2>5, <2>6 DEF Missed, Caching
    <3>4. Cardinality(KeysOf(w)) + Cardinality(Missed(w)) <= Cardinality(Callers)
      BY DEF KeysCounted
    <3>5. Cardinality(KeysOf(w)') + Cardinality(Missed(w)') <= Cardinality(Callers)
      BY <3>2, <3>3, <3>4, SetsFinite, CountMoves
    <3> QED BY <3>1, <3>5
  <2>7. CASE w # s.purchase
    <3>1. cache'[w] = cache[w]
      BY <2>5, <2>7 DEF TypeOK
    <3>2. KeysOf(w)' \subseteq KeysOf(w)
      <4>1. ASSUME NEW k \in KeysOf(w)' PROVE k # key
        BY <2>4, <2>7, <4>1 DEF KeysOf
      <4> QED BY <2>3, <2>5, <3>1, <4>1 DEF KeysOf, Using
    <3>3. Missed(w)' \subseteq Missed(w)
      BY <2>5 DEF Missed
    <3> QED BY <3>1, <3>2, <3>3, ShrinkKeepsCount
  <2> QED BY <2>6, <2>7
<1>4. ASSUME NEW c \in Callers, ConfirmPayment(c) PROVE KeysCounted'
  <2>1. PICK i \in intents :
          Goto(c, [pc |-> "confirming", key |-> i.key, attempt |-> 0])
    BY <1>4 DEF ConfirmPayment
  <2>2. /\ caller'[c].pc = "confirming" /\ caller'[c].key = i.key
        /\ \A d \in Callers \ {c} : caller'[d] = caller[d]
    BY <2>1 DEF Goto, TypeOK
  <2>3. \A k : Using(c, k)' => \E j \in intents : j.key = k
    BY <2>2 DEF Using
  <2> QED BY <1>4, <2>2, <2>3, QuietStep DEF ConfirmPayment
<1>5. ASSUME NEW c \in Callers, CreateAnswered(c) PROVE KeysCounted'
  <2>1. /\ \/ caller'[c] = Idle
           \/ caller'[c].pc = "confirming" /\ caller'[c].key = caller[c].key
        /\ \A d \in Callers \ {c} : caller'[d] = caller[d]
    BY <1>5 DEF CreateAnswered, Goto, TypeOK
  <2>2. \A k : Using(c, k)' => Using(c, k)
    BY <1>5, <2>1 DEF CreateAnswered, Using, Idle
  <2>3. \A i \in intents' : i \in intents \/ Using(c, i.key)
    BY <1>5 DEF CreateAnswered, Creates, Using
  <2> QED BY <1>5, <2>1, <2>2, <2>3, QuietStep DEF CreateAnswered, Idle
<1>6. ASSUME NEW c \in Callers, CreateFails(c) PROVE KeysCounted'
  <2>1. caller[c] \in Creating
    BY <1>1, <1>6, ShapeOfStates DEF CreateFails
  <2>2. \A i \in intents' : i \in intents \/ Using(c, i.key)
    BY <1>6 DEF CreateFails, Creates, Using
  <2> QED BY <1>6, <2>1, <2>2, RetryUses, QuietStep DEF CreateFails
<1>7. ASSUME NEW c \in Callers, caller'= [caller EXCEPT ![c] = Idle],
             UNCHANGED <<cache, intents>>
      PROVE  KeysCounted'
  <2>1. caller'[c] = Idle /\ \A d \in Callers \ {c} : caller'[d] = caller[d]
    BY <1>7 DEF TypeOK
  <2> QED BY <1>7, <2>1, QuietStep DEF Using, Idle
<1>8. ASSUME NEW c \in Callers, ConfirmFails(c) \/ ConfirmRefused(c) PROVE KeysCounted'
  <2>1. caller[c] \in Paying
    BY <1>1, <1>8, ShapeOfStates DEF ConfirmFails, ConfirmRefused
  <2>2. Retry(c) /\ UNCHANGED <<cache, intents>>
    BY <1>8 DEF ConfirmFails, ConfirmRefused
  <2> QED BY <2>1, <2>2, RetryUses, QuietStep
<1>9. CASE NextMinute
  <2>1. UNCHANGED <<cache, intents, caller>>
    BY <1>9 DEF NextMinute
  <2>2. \A u \in Purchases : KeysOf(u)' = KeysOf(u) /\ Missed(u)' = Missed(u)
    BY <2>1 DEF KeysOf, Missed, Using
  <2> QED BY <2>1, <2>2 DEF KeysCounted
<1> QED BY <1>2, <1>3, <1>4, <1>5, <1>6, <1>7, <1>8, <1>9 DEF Next, Proceed,
          CreateMismatch, ConfirmAnswered, ConfirmDeclined, Crash, Goto

-----------------------------------------------------------------------------
(* Charges nobody was told of                                              *)

LEMMA NoMoreUntold ==
  ASSUME UntoldCounted, faults \in Nat, faults' \in Nat, faults <= faults',
         Untold' \subseteq Untold
  PROVE  UntoldCounted'
<1>1. IsFiniteSet(Untold') /\ Cardinality(Untold') <= Cardinality(Untold)
  BY FS_Subset DEF UntoldCounted
<1>2. Cardinality(Untold') \in Nat /\ Cardinality(Untold) \in Nat
  BY <1>1, FS_CardinalityType DEF UntoldCounted
<1> QED BY <1>1, <1>2 DEF UntoldCounted, UntoldChargesNeedFaults

LEMMA OneMoreUntold ==
  ASSUME UntoldCounted, faults \in Nat, faults' = faults + 1,
         NEW key, Untold' \subseteq Untold \cup {key}
  PROVE  UntoldCounted'
<1>1. /\ IsFiniteSet(Untold \cup {key}) /\ Cardinality(Untold) \in Nat
      /\ Cardinality(Untold \cup {key}) <= Cardinality(Untold) + 1
  BY FS_AddElement, FS_CardinalityType DEF UntoldCounted
<1>2. /\ IsFiniteSet(Untold')
      /\ Cardinality(Untold') <= Cardinality(Untold \cup {key})
  BY <1>1, FS_Subset
<1>3. Cardinality(Untold') \in Nat /\ Cardinality(Untold \cup {key}) \in Nat
  BY <1>1, <1>2, FS_CardinalityType
<1> QED BY <1>1, <1>2, <1>3 DEF UntoldCounted, UntoldChargesNeedFaults

LEMMA UntoldNext ==
  ASSUME TypeOK, TypeOK', UntoldCounted, Next
  PROVE  UntoldCounted'
<1> USE DEF TypeOK
<1>1. answered \subseteq answered' /\ faults <= faults'
  <2>1. ASSUME NEW c \in Callers, Retry(c) PROVE answered \subseteq answered'
    BY <2>1 DEF Retry, Tell
  <2>2. answered \subseteq answered'
    BY <2>1 DEF Next, Proceed, GetKey, ConfirmPayment, SetKey, CreateAnswered,
         CreateFails, CreateMismatch, ConfirmAnswered, ConfirmDeclined, ConfirmFails,
         ConfirmRefused, Crash, NextMinute, Tell
  <2>3. faults' = faults \/ faults' = faults + 1
    BY DEF Next, Proceed, GetKey, ConfirmPayment, SetKey, CreateAnswered,
         CreateFails, CreateMismatch, ConfirmAnswered, ConfirmDeclined, ConfirmFails,
         ConfirmRefused, Crash, NextMinute, Fault
  <2> QED BY <2>2, <2>3
<1>2. ASSUME NEW c \in Callers, ConfirmAnswered(c) PROVE UntoldCounted'
  <2>1. Untold' \subseteq Untold
    BY <1>2 DEF ConfirmAnswered, Tell, Untold, Told
  <2> QED BY <1>1, <2>1, NoMoreUntold
<1>3. ASSUME NEW c \in Callers, ConfirmFails(c) PROVE UntoldCounted'
  <2>1. Untold' \subseteq Untold \cup {caller[c].key}
    BY <1>1, <1>3 DEF ConfirmFails, Untold, Told
  <2> QED BY <1>3, <2>1, OneMoreUntold DEF ConfirmFails, Fault
<1>4. ASSUME UNCHANGED charged PROVE UntoldCounted'
  <2>1. Untold' \subseteq Untold
    BY <1>1, <1>4 DEF Untold, Told
  <2> QED BY <1>1, <2>1, NoMoreUntold
<1> QED BY <1>2, <1>3, <1>4 DEF Next, Proceed, GetKey, ConfirmPayment, SetKey,
          CreateAnswered, CreateFails, CreateMismatch, ConfirmDeclined,
          ConfirmRefused, Crash, NextMinute

-----------------------------------------------------------------------------
(* The invariant and the theorems                                          *)

LEMMA InvInit == Init => IInv
<1> SUFFICES ASSUME Init PROVE IInv
  OBVIOUS
<1>1. TypeOK
  BY TypeInit
<1>2. OneBody /\ CacheMatches
  BY DEF Init, OneBody, CacheMatches
<1>3. \A u \in Purchases : KeysOf(u) = {} /\ Missed(u) = {}
  <2> SUFFICES ASSUME NEW u \in Purchases PROVE KeysOf(u) = {} /\ Missed(u) = {}
    OBVIOUS
  <2>1. \A c \in Callers : caller[c].pc = "idle"
    BY DEF Init, Idle
  <2>2. \A k \in [purchase : {u}, minute : Minutes] : k # cache[u]
    BY KeyAssumption DEF Init, Key
  <2> QED BY <2>1, <2>2 DEF Init, KeysOf, Missed, Using
<1>4. KeysCounted
  BY <1>3, CallersFinite, FS_EmptySet DEF KeysCounted
<1>5. Untold = {} /\ faults = 0
  BY DEF Init, Untold
<1>6. UntoldCounted
  BY <1>5, FS_EmptySet DEF UntoldCounted, UntoldChargesNeedFaults
<1> QED BY <1>1, <1>2, <1>4, <1>6 DEF IInv

LEMMA InvNext == IInv /\ [Next]_vars => IInv'
<1> SUFFICES ASSUME IInv, [Next]_vars PROVE IInv'
  OBVIOUS
<1>1. TypeOK'
  BY TypeNext DEF IInv
<1>2. CASE Next
  BY <1>1, <1>2, OneBodyNext, CacheMatchesNext, KeysCountedNext, UntoldNext DEF IInv
<1>3. CASE UNCHANGED vars
  <2>1. OneBody' /\ CacheMatches'
    BY <1>3 DEF vars, IInv, OneBody, CacheMatches
  <2>2. \A u \in Purchases : KeysOf(u)' = KeysOf(u) /\ Missed(u)' = Missed(u)
    BY <1>3 DEF vars, KeysOf, Missed, Using
  <2>3. KeysCounted'
    BY <1>3, <2>2 DEF vars, IInv, KeysCounted
  <2>4. Untold' = Untold
    BY <1>3 DEF vars, Untold, Told
  <2>5. UntoldCounted'
    BY <1>3, <2>4 DEF vars, IInv, UntoldCounted, UntoldChargesNeedFaults
  <2> QED BY <1>1, <2>1, <2>3, <2>5 DEF IInv
<1> QED BY <1>2, <1>3

\* The intents of a purchase have different keys, all of them counted.
LEMMA InvBoundsIntents == IInv => OverlapBoundsDuplicates
<1> SUFFICES ASSUME IInv, NEW u \in Purchases
             PROVE  Cardinality(IntentsOf(u)) <= Cardinality(Callers)
  BY DEF OverlapBoundsDuplicates
<1> DEFINE f == [i \in IntentsOf(u) |-> i.key]
<1>1. ASSUME NEW i \in IntentsOf(u) PROVE i.key \in KeysOf(u)
  BY <1>1 DEF IInv, TypeOK, IntentsOf, KeysOf, Intent, Key
<1>2. f \in Injection(IntentsOf(u), KeysOf(u))
  BY <1>1 DEF Injection, IsInjective, IInv, OneBody, IntentsOf
<1>3. IsFiniteSet(IntentsOf(u)) /\ Cardinality(IntentsOf(u)) <= Cardinality(KeysOf(u))
  BY <1>2, SetsFinite, FS_Injection
<1>4. Cardinality(KeysOf(u)) + Cardinality(Missed(u)) <= Cardinality(Callers)
  BY DEF IInv, KeysCounted
<1>5. /\ Cardinality(IntentsOf(u)) \in Nat /\ Cardinality(KeysOf(u)) \in Nat
      /\ Cardinality(Missed(u)) \in Nat
  BY <1>3, SetsFinite, FS_CardinalityType
<1> QED BY <1>3, <1>4, <1>5, CallersFinite

\* Lines 113-116: however often a purchase is retried, and whatever crashes, it
\* has no more PaymentIntents than there are callers.
THEOREM DuplicatesNeedOverlap == Spec => []OverlapBoundsDuplicates
<1>1. Spec => []IInv
  BY InvInit, InvNext, PTL DEF Spec
<1> QED BY <1>1, InvBoundsIntents, PTL

\* Lines 221-232 and 256-294: each charge nobody was told of has a fault of its
\* own, a lost answer or a call that died.
THEOREM UntoldHasACause == Spec => []UntoldChargesNeedFaults
<1>1. Spec => []IInv
  BY InvInit, InvNext, PTL DEF Spec
<1>2. IInv => UntoldChargesNeedFaults
  BY DEF IInv, UntoldCounted
<1> QED BY <1>1, <1>2, PTL

-----------------------------------------------------------------------------
(* The safety part of EveryCallReturns                                     *)

\* The steps a running call has left, at most.
Left(s) ==
  CASE s.pc = "idle" -> 0
    [] s.pc = "caching" -> 2 * MAX_RETRIES + 1
    [] s.pc = "creating" -> 2 * MAX_RETRIES - s.attempt
    [] s.pc = "confirming" -> MAX_RETRIES - s.attempt

\* What EveryCallReturns needs besides fairness: every answer and every error of
\* Stripe uses up one of a bounded number of steps, and no other caller, fault
\* or turn of the minute gives any of them back.
CallsRunOut ==
  [][\A c \in Callers : caller[c] # Idle =>
       /\ Left(caller'[c]) \in 0 .. Left(caller[c])
       /\ Proceed(c) => Left(caller'[c]) # Left(caller[c])]_vars

LEMMA StepsLeft ==
  ASSUME TypeOK, NEW c \in Callers
  PROVE  /\ Left(caller[c]) \in Nat
         /\ caller[c] # Idle => Left(caller[c]) > 0
<1>1. caller[c] \in States
  BY DEF TypeOK, States
<1>2. CASE caller[c] = Idle
  BY <1>2 DEF Left, Idle
<1>3. CASE caller[c] \in Caching
  BY <1>3, RetryAssumption DEF Left, Caching
<1>4. CASE caller[c] \in Creating
  BY <1>4, RetryAssumption DEF Left, Creating
<1>5. CASE caller[c] \in Paying
  BY <1>5, RetryAssumption DEF Left, Paying
<1> QED BY <1>1, <1>2, <1>3, <1>4, <1>5 DEF States

\* A retry takes one attempt more, the last error ends the call.
LEMMA RetryUsesAStep ==
  ASSUME TypeOK, NEW c \in Callers, Retry(c),
         caller[c] \in Creating \cup Paying
  PROVE  Left(caller'[c]) < Left(caller[c]) /\ Left(caller'[c]) \in Nat
<1> DEFINE s == caller[c]
<1>1. /\ s.attempt \in 0 .. (MAX_RETRIES - 1) /\ MAX_RETRIES \in Nat \ {0}
      /\ s.pc \in {"creating", "confirming"}
  BY RetryAssumption DEF Creating, Paying
<1>2. CASE s.attempt + 1 < MAX_RETRIES
  <2>1. caller'[c] = [s EXCEPT !.attempt = s.attempt + 1]
    BY <1>2 DEF Retry, Goto, TypeOK
  <2>2. caller'[c].pc = s.pc /\ caller'[c].attempt = s.attempt + 1
    BY <2>1 DEF Creating, Paying
  <2> QED BY <1>1, <1>2, <2>2 DEF Left
<1>3. CASE ~(s.attempt + 1 < MAX_RETRIES)
  <2>1. caller'[c].pc = "idle"
    BY <1>3 DEF Retry, Goto, TypeOK, Idle
  <2> QED BY <1>1, <2>1 DEF Left
<1> QED BY <1>2, <1>3

\* So does every step of a call.
LEMMA ProceedUsesAStep ==
  ASSUME TypeOK, NEW c \in Callers, Proceed(c)
  PROVE  Left(caller'[c]) < Left(caller[c]) /\ Left(caller'[c]) \in Nat
<1>1. caller[c] \in States
  BY DEF TypeOK, States
<1>2. CASE SetKey(c)
  <2>1. caller[c].pc = "caching"
    BY <1>2 DEF SetKey
  <2>2. caller'[c].pc = "creating" /\ caller'[c].attempt = 0
    BY <1>2 DEF SetKey, Goto, TypeOK
  <2> QED BY <2>1, <2>2, RetryAssumption DEF Left
<1>3. CASE CreateAnswered(c)
  <2>1. caller[c].pc = "creating" /\ caller[c].attempt \in 0 .. (MAX_RETRIES - 1)
    BY <1>1, <1>3, ShapeOfStates DEF CreateAnswered, Creating
  <2>2. \/ caller'[c].pc = "confirming" /\ caller'[c].attempt = 0
        \/ caller'[c].pc = "idle"
    BY <1>3 DEF CreateAnswered, Goto, TypeOK, Idle
  <2> QED BY <2>1, <2>2, RetryAssumption DEF Left
<1>4. CASE CreateMismatch(c) \/ ConfirmAnswered(c) \/ ConfirmDeclined(c)
  <2>1. caller[c].pc \in {"creating", "confirming"}
    BY <1>4 DEF CreateMismatch, ConfirmAnswered, ConfirmDeclined
  <2>2. caller'[c].pc = "idle"
    BY <1>4 DEF CreateMismatch, ConfirmAnswered, ConfirmDeclined, Goto, TypeOK, Idle
  <2>3. Left(caller'[c]) = 0
    BY <2>2 DEF Left
  <2> QED BY <2>1, <2>3, StepsLeft DEF Idle
<1>5. CASE CreateFails(c) \/ ConfirmFails(c) \/ ConfirmRefused(c)
  <2>1. Retry(c) /\ caller[c].pc \in {"creating", "confirming"}
    BY <1>5 DEF CreateFails, ConfirmFails, ConfirmRefused
  <2> QED BY <1>1, <2>1, ShapeOfStates, RetryUsesAStep
<1> QED BY <1>2, <1>3, <1>4, <1>5 DEF Proceed

\* Lines 256-294: no call of PaymentService goes on for ever. It makes at most as
\* many steps as Left says, whatever Stripe answers and whatever others do.
THEOREM NoCallGoesOnForEver == Spec => CallsRunOut
<1>1. ASSUME TypeOK, Next, NEW c \in Callers, caller[c] # Idle
      PROVE  /\ Left(caller'[c]) \in 0 .. Left(caller[c])
             /\ Proceed(c) => Left(caller'[c]) # Left(caller[c])
  <2>1. Left(caller[c]) \in Nat
    BY <1>1, StepsLeft
  <2>2. CASE Proceed(c)
    BY <1>1, <2>1, <2>2, ProceedUsesAStep
  <2>3. CASE caller'[c] = caller[c] /\ ~Proceed(c)
    BY <2>1, <2>3
  <2>4. CASE Crash(c)
    <3>1. Left(caller'[c]) = 0
      BY <1>1, <2>4 DEF Crash, Goto, TypeOK, Idle, Left
    <3>2. Left(caller[c]) > 0
      BY <1>1, StepsLeft
    <3> QED BY <2>1, <3>1, <3>2
  <2>5. ~(GetKey(c) \/ ConfirmPayment(c))
    BY <1>1 DEF GetKey, ConfirmPayment
  <2>6. ASSUME NEW d \in Callers, d # c,
               GetKey(d) \/ ConfirmPayment(d) \/ Proceed(d) \/ Crash(d)
        PROVE  caller'[c] = caller[c]
    BY <1>1, <2>6 DEF TypeOK, GetKey, ConfirmPayment, Proceed, Crash, SetKey, CreateAnswered,
           CreateFails, CreateMismatch, ConfirmAnswered, ConfirmDeclined, ConfirmFails,
           ConfirmRefused, Retry, Goto
  <2>7. NextMinute => caller' = caller
    BY DEF NextMinute
  <2> QED BY <1>1, <2>2, <2>3, <2>4, <2>5, <2>6, <2>7 DEF Next
<1>2. TypeOK /\ [Next]_vars
        => [\A c \in Callers : caller[c] # Idle =>
              /\ Left(caller'[c]) \in 0 .. Left(caller[c])
              /\ Proceed(c) => Left(caller'[c]) # Left(caller[c])]_vars
  BY <1>1
<1> QED BY <1>2, TypeCorrect, PTL DEF Spec, CallsRunOut

=============================================================================
