--------------------------- MODULE NodeAuthProofs ---------------------------
(***************************************************************************)
(* What NodeAuth keeps for every burst, window, wait and number of         *)
(* requests, threads and keys.                                             *)
(***************************************************************************)
EXTENDS NodeAuth, SequenceTheorems, TLAPS

\* A request a thread has let through came within its clock window, and not
\* long ago.
ThreadInv == \A t \in Threads : thread[t] # Free =>
    /\ thread[t].request \in Requests
    /\ request[thread[t].request].key # NoKey
    /\ now - thread[t].since <= Patience
    /\ thread[t].since < (request[thread[t].request].stamp + Window + 1) * Second

\* A request is signed with a key the server has or had.
KeysInv ==
    /\ \A r \in Requests : request[r] = Unsigned \/ request[r].key \in 1..nodeKey
    /\ rotating => previous = current /\ current < MaxKey
    /\ ~rotating => previous = current - 1

IInv == TypeOK /\ ThreadInv /\ KeysInv

\* Until its time is over, the nonce of a request let through is in the cache.
CacheInv == \A r \in Requests : accepted[r].times >= 1 =>
    /\ request[r] # Unsigned
    /\ seen[r] >= accepted[r].first + NonceTtl \/ accepted[r].first + NonceTtl <= now

\* What the bucket holds is what the charges since any of them have left.
BucketInv == \A i \in 1..Len(charges) :
    tokens + (Len(charges) - i + 1) * TokenTicks <= Burst * TokenTicks + (last - charges[i])

-----------------------------------------------------------------------------

\* Whole seconds are counted downwards.
LEMMA SecondsRoundDown ==
    ASSUME NEW n \in Nat, NEW s \in Nat \ {0}
    PROVE  n \div s \in Nat /\ n < (n \div s + 1) * s
OBVIOUS

\* Products grow with their factors.
LEMMA ProductGrows ==
    ASSUME NEW m \in Int, NEW n \in Int, NEW s \in Nat, m <= n
    PROVE  m * s \in Int /\ m * s <= n * s
OBVIOUS

\* A request within the window now is stamped no earlier than a window ago.
LEMMA WindowBounds ==
    ASSUME now \in Nat, NEW r \in Requests, request[r].stamp \in Nat, InWindow(r)
    PROVE  now < (request[r].stamp + Window + 1) * Second
<1> DEFINE stamp == request[r].stamp
<1>1. WallSecond \in Nat /\ now < (WallSecond + 1) * Second
  BY AuthAssumption, SecondsRoundDown DEF WallSecond
<1>2. WallSecond + 1 <= stamp + Window + 1
  BY <1>1, AuthAssumption DEF InWindow, Abs
<1>3. (WallSecond + 1) * Second <= (stamp + Window + 1) * Second
  <2> DEFINE m == WallSecond + 1
             n == stamp + Window + 1
  <2>1. m \in Int /\ n \in Int /\ m <= n /\ Second \in Nat
    BY <1>1, <1>2, AuthAssumption
  <2> HIDE DEF m, n
  <2>2. m * Second <= n * Second
    BY <2>1, ProductGrows
  <2> QED
    BY <2>2 DEF m, n
<1> QED
  BY <1>1, <1>3, AuthAssumption

\* What comes back never overfills the bucket.
LEMMA RefilledInRange ==
    ASSUME TypeOK
    PROVE  /\ Refilled \in Nat
           /\ Refilled <= Burst * TokenTicks
           /\ Refilled <= tokens + (now - last)
<1>1. Burst * TokenTicks \in Nat
  BY AuthAssumption
<1> QED
  BY <1>1, AuthAssumption DEF TypeOK, Refilled, Least

-----------------------------------------------------------------------------

\* The products of the constants are numbers.
LEMMA ProductsAreNumbers == Burst * TokenTicks \in Nat /\ NonceTtl \in Nat
BY AuthAssumption

\* The invariant holds of a server that has just been started.
LEMMA InvInitial == Init => IInv
<1> SUFFICES ASSUME Init PROVE IInv
  OBVIOUS
<1> USE AuthAssumption, ProductsAreNumbers
<1>1. /\ now \in 0..MaxTime /\ last \in 0..now
      /\ current \in 1..MaxKey /\ previous \in 0..current /\ nodeKey \in 1..current
  BY DEF Init, NoKey
<1>9. rotating \in BOOLEAN /\ refused \subseteq (1..MaxKey) \X (1..MaxKey)
  BY DEF Init
<1>2. tokens \in 0..(Burst * TokenTicks) /\ charges \in Seq(0..now)
  BY DEF Init
<1>3. request \in [Requests -> [stamp : 0..MaxStamp, key : 0..MaxKey]]
  BY DEF Init, Unsigned, NoKey
<1>4. thread \in [Threads -> [request : Requests \union {NoRequest}, since : 0..now]]
  BY DEF Init, Free
<1>5. seen \in [Requests -> 0..(now + NonceTtl)]
  BY DEF Init
<1>6. accepted \in [Requests -> [times : Nat, first : 0..now]]
  BY DEF Init
<1>7. TypeOK
  BY <1>1, <1>2, <1>3, <1>4, <1>5, <1>6, <1>9 DEF TypeOK
<1>8. ThreadInv /\ KeysInv
  BY DEF Init, ThreadInv, KeysInv, Free, Unsigned, NoKey
<1> QED
  BY <1>7, <1>8 DEF IInv

-----------------------------------------------------------------------------

\* What the decision of a thread does to the types.
LEMMA DecideTypes ==
    ASSUME IInv, NEW t \in Threads, Decide(t)
    PROVE  TypeOK'
<1> DEFINE r == thread[t].request
<1> USE ProductsAreNumbers
<1>1. r \in Requests /\ request[r].key \in 1..current
  BY DEF IInv, ThreadInv, KeysInv, TypeOK, Decide, NoKey, Unsigned
<1>2. now \in Nat /\ now' = now
  BY AuthAssumption DEF IInv, TypeOK, Decide
<1>3. UNCHANGED <<request, keys>>
  BY DEF Decide
<1>4. /\ last' \in 0..now
      /\ tokens' \in 0..(Burst * TokenTicks)
      /\ charges' \in Seq(0..now)
  <2>1. CASE Refilled < TokenTicks
    BY <2>1 DEF Decide, IInv, TypeOK, cache, history
  <2>2. CASE ~(Refilled < TokenTicks)
    <3>1. tokens' = Refilled - TokenTicks /\ last' = now /\ charges' = Append(charges, now)
      BY <2>2 DEF Decide
    <3>2. TokenTicks \in Nat /\ Refilled \in Nat /\ Refilled <= Burst * TokenTicks
      BY RefilledInRange, AuthAssumption DEF IInv
    <3> QED
      BY <1>2, <2>2, <3>1, <3>2 DEF IInv, TypeOK
  <2> QED
    BY <2>1, <2>2
<1>5. thread' \in [Threads -> [request : Requests \union {NoRequest}, since : 0..now]]
  BY <1>2 DEF Decide, IInv, TypeOK, Free
<1>6. Purged \in [Requests -> 0..(now + NonceTtl)]
  BY <1>2 DEF Purged, IInv, TypeOK
<1>7. /\ seen' \in [Requests -> 0..(now + NonceTtl)]
      /\ accepted' \in [Requests -> [times : Nat, first : 0..now]]
  <2>1. CASE Refilled < TokenTicks
    BY <2>1 DEF Decide, IInv, TypeOK, cache, history
  <2>2. CASE ~(Refilled < TokenTicks) /\ Purged[r] = 0 /\ KeyAccepted(r)
    <3>1. /\ seen' = [Purged EXCEPT ![r] = now + NonceTtl]
          /\ accepted' = [accepted EXCEPT ![r] =
                [times |-> @.times + 1, first |-> IF @.times = 0 THEN now ELSE @.first]]
      BY <2>2 DEF Decide
    <3>2. now + NonceTtl \in 0..(now + NonceTtl)
      BY <1>2
    <3>3. accepted[r].times + 1 \in Nat /\ accepted[r].first \in 0..now /\ now \in 0..now
      BY <1>1, <1>2 DEF IInv, TypeOK
    <3> QED
      BY <1>6, <3>1, <3>2, <3>3 DEF IInv, TypeOK
  <2>3. CASE ~(Refilled < TokenTicks) /\ ~(Purged[r] = 0 /\ KeyAccepted(r))
    <3>1. seen' = Purged /\ accepted' = accepted
      BY <2>3 DEF Decide
    <3> QED
      BY <1>6, <3>1 DEF IInv, TypeOK
  <2> QED
    BY <2>1, <2>2, <2>3
<1>8. refused' \subseteq (1..MaxKey) \X (1..MaxKey)
  <2>1. refused' \subseteq refused \union {<<request[r].key, Announced>>}
    BY DEF Decide, history
  <2>2. request[r].key \in 1..MaxKey /\ Announced \in 1..MaxKey
    BY <1>1, AuthAssumption DEF Announced, IInv, TypeOK, KeysInv
  <2> QED
    BY <2>1, <2>2 DEF IInv, TypeOK
<1> QED
  BY <1>2, <1>3, <1>4, <1>5, <1>7, <1>8 DEF TypeOK, IInv, keys

\* Every step keeps the types.
LEMMA TypeStep == IInv /\ [Next]_vars => TypeOK'
<1> SUFFICES ASSUME IInv, [Next]_vars PROVE TypeOK'
  OBVIOUS
<1>1. ASSUME NEW r \in Requests, NEW stamp \in 0..MaxStamp, Sign(r, stamp) PROVE TypeOK'
  <2>1. nodeKey \in 0..MaxKey
    BY AuthAssumption DEF IInv, TypeOK
  <2>2. request' \in [Requests -> [stamp : 0..MaxStamp, key : 0..MaxKey]]
    BY <1>1, <2>1 DEF Sign, IInv, TypeOK
  <2> QED
    BY <1>1, <2>2 DEF Sign, IInv, TypeOK, cache, keys, history
<1>2. ASSUME NEW t \in Threads, NEW r \in Requests, Arrive(t, r) PROVE TypeOK'
  <2>1. now \in 0..now
    BY AuthAssumption DEF IInv, TypeOK
  <2>2. thread' \in [Threads -> [request : Requests \union {NoRequest}, since : 0..now]]
    BY <1>2, <2>1 DEF Arrive, IInv, TypeOK
  <2> QED
    BY <1>2, <2>2 DEF Arrive, IInv, TypeOK, cache, keys, history
<1>3. ASSUME NEW t \in Threads, Decide(t) PROVE TypeOK'
  BY <1>3, DecideTypes
<1>4. CASE BeginRotation \/ EndRotation \/ Rekey
  <2>1. UNCHANGED <<now, request, thread, cache, history>>
    BY <1>4 DEF BeginRotation, EndRotation, Rekey
  <2>2. rotating' \in BOOLEAN
    BY <1>4 DEF BeginRotation, EndRotation, Rekey, IInv, TypeOK
  <2>3. current' \in 1..MaxKey /\ previous' \in 0..current' /\ nodeKey' \in 1..current'
    <3>1. CASE BeginRotation
      BY <3>1 DEF IInv, TypeOK, BeginRotation, KeyToKeep
    <3>2. CASE EndRotation
      <4>1. MaxKey \in Nat
        BY AuthAssumption
      <4> QED
        BY <3>2, <4>1 DEF IInv, TypeOK, KeysInv, EndRotation
    <3>3. CASE Rekey
      BY <3>3 DEF IInv, TypeOK, Rekey
    <3> QED
      BY <1>4, <3>1, <3>2, <3>3
  <2> QED
    BY <2>1, <2>2, <2>3 DEF IInv, TypeOK, cache, history
<1>5. CASE Tick
  <2>1. now' \in 0..MaxTime /\ 0..now \subseteq 0..now' /\ last \in 0..now'
    BY <1>5, AuthAssumption DEF Tick, IInv, TypeOK
  <2>2. 0..(now + NonceTtl) \subseteq 0..(now' + NonceTtl)
    BY <1>5, AuthAssumption, ProductsAreNumbers DEF Tick, IInv, TypeOK
  <2>3. UNCHANGED <<request, thread, cache, keys, history>>
    BY <1>5 DEF Tick
  <2>4. thread \in [Threads -> [request : Requests \union {NoRequest}, since : 0..now']]
    BY <2>1 DEF IInv, TypeOK
  <2>5. seen \in [Requests -> 0..(now' + NonceTtl)]
    BY <2>2 DEF IInv, TypeOK
  <2>6. accepted \in [Requests -> [times : Nat, first : 0..now']]
    BY <2>1 DEF IInv, TypeOK
  <2>7. charges \in Seq(0..now')
    <3>1. charges \in Seq(0..now)
      BY DEF IInv, TypeOK
    <3> QED
      BY <2>1, <3>1, SeqMonotonic
  <2> QED
    BY <2>1, <2>3, <2>4, <2>5, <2>6, <2>7 DEF IInv, TypeOK, cache, keys, history
<1>6. CASE UNCHANGED vars
  BY <1>6 DEF vars, cache, keys, history, IInv, TypeOK
<1> QED
  BY <1>1, <1>2, <1>3, <1>4, <1>5, <1>6 DEF Next

\* Every step keeps what is known of the requests the threads are at.
LEMMA ThreadStep == IInv /\ [Next]_vars => ThreadInv'
<1> SUFFICES ASSUME IInv, [Next]_vars, NEW u \in Threads, thread'[u] # Free
             PROVE  /\ thread'[u].request \in Requests
                    /\ request'[thread'[u].request].key # NoKey
                    /\ now' - thread'[u].since <= Patience
                    /\ thread'[u].since
                         < (request'[thread'[u].request].stamp + Window + 1) * Second
  BY DEF ThreadInv
<1>1. ASSUME UNCHANGED now, thread'[u] = thread[u],
             \A q \in Requests : request[q].key # NoKey => request'[q] = request[q]
      PROVE  /\ thread'[u].request \in Requests
             /\ request'[thread'[u].request].key # NoKey
             /\ now' - thread'[u].since <= Patience
             /\ thread'[u].since
                  < (request'[thread'[u].request].stamp + Window + 1) * Second
  BY <1>1 DEF IInv, ThreadInv
<1>2. CASE \E r \in Requests, stamp \in 0..MaxStamp : Sign(r, stamp)
  <2>1. UNCHANGED <<now, thread>>
        /\ \A q \in Requests : request[q].key # NoKey => request'[q] = request[q]
    BY <1>2 DEF Sign, Unsigned, IInv, TypeOK
  <2> QED
    BY <2>1, <1>1
<1>3. ASSUME NEW t \in Threads, NEW r \in Requests, Arrive(t, r)
      PROVE  /\ thread'[u].request \in Requests
             /\ request'[thread'[u].request].key # NoKey
             /\ now' - thread'[u].since <= Patience
             /\ thread'[u].since
                  < (request'[thread'[u].request].stamp + Window + 1) * Second
  <2>1. UNCHANGED <<now, request>>
    BY <1>3 DEF Arrive
  <2>2. CASE u = t
    <3>1. thread'[u] = [request |-> r, since |-> now]
      BY <1>3, <2>2 DEF Arrive, IInv, TypeOK
    <3>2. now \in Nat /\ request[r].stamp \in Nat /\ request[r].key # NoKey
      BY <1>3, AuthAssumption DEF Arrive, NoKey, IInv, TypeOK, KeysInv
    <3>3. now < (request[r].stamp + Window + 1) * Second
      BY <1>3, <3>2, WindowBounds DEF Arrive
    <3> QED
      BY <2>1, <3>1, <3>2, <3>3, AuthAssumption
  <2>3. CASE u # t
    <3>1. thread'[u] = thread[u]
      BY <1>3, <2>3 DEF Arrive, IInv, TypeOK
    <3> QED
      BY <2>1, <3>1, <1>1
  <2> QED
    BY <2>2, <2>3
<1>4. CASE \E t \in Threads : Decide(t)
  <2>1. UNCHANGED <<now, request>> /\ thread'[u] = thread[u]
    BY <1>4 DEF Decide, IInv, TypeOK
  <2> QED
    BY <2>1, <1>1
<1>5. CASE Tick
  <2>1. now' = now + 1 /\ UNCHANGED <<request, thread>>
        /\ (thread[u] = Free \/ now - thread[u].since < Patience)
    BY <1>5 DEF Tick
  <2>2. now \in Nat /\ thread[u].since \in Nat
    BY AuthAssumption DEF IInv, TypeOK
  <2> QED
    BY <2>1, <2>2, AuthAssumption DEF IInv, ThreadInv
<1>6. CASE BeginRotation \/ EndRotation \/ Rekey \/ UNCHANGED vars
  <2>1. UNCHANGED <<now, request, thread>>
    BY <1>6 DEF BeginRotation, EndRotation, Rekey, vars
  <2> QED
    BY <2>1, <1>1
<1> QED
  BY <1>2, <1>3, <1>4, <1>5, <1>6 DEF Next

\* Every step keeps the relations of the keys.
LEMMA KeysStep == IInv /\ [Next]_vars => KeysInv'
<1> SUFFICES ASSUME IInv, [Next]_vars PROVE KeysInv'
  OBVIOUS
<1>1. CASE \E r \in Requests, stamp \in 0..MaxStamp : Sign(r, stamp)
  <2>1. UNCHANGED keys /\ \A q \in Requests :
            request'[q] = request[q] \/ request'[q].key = nodeKey
    BY <1>1 DEF Sign, IInv, TypeOK
  <2>2. nodeKey \in 1..nodeKey
    BY AuthAssumption DEF IInv, TypeOK
  <2> QED
    BY <2>1, <2>2 DEF keys, IInv, KeysInv
<1>2. CASE UNCHANGED <<request, keys>>
  BY <1>2 DEF keys, IInv, KeysInv
<1>3. CASE BeginRotation \/ EndRotation \/ Rekey
  <2> DEFINE Carried == \A r \in Requests : request[r] = Unsigned \/ request[r].key \in 1..nodeKey
  <2>1. request' = request /\ Carried
    BY <1>3 DEF BeginRotation, EndRotation, Rekey, IInv, KeysInv
  <2>2. /\ current \in Nat /\ nodeKey \in 1..current /\ rotating \in BOOLEAN
        /\ rotating => previous = current /\ current < MaxKey
        /\ ~rotating => previous = current - 1
    BY AuthAssumption DEF IInv, TypeOK, KeysInv
  <2>3. CASE BeginRotation
    BY <2>1, <2>2, <2>3, AuthAssumption DEF KeysInv, BeginRotation, KeyToKeep
  <2>4. CASE EndRotation
    BY <2>1, <2>2, <2>4, AuthAssumption DEF KeysInv, EndRotation
  <2>5. CASE Rekey
    BY <2>1, <2>2, <2>5 DEF KeysInv, Rekey
  <2> QED
    BY <1>3, <2>3, <2>4, <2>5
<1>4. CASE (\E t \in Threads : Decide(t) \/ \E r \in Requests : Arrive(t, r)) \/ Tick \/ UNCHANGED vars
  <2>1. UNCHANGED <<request, keys>>
    BY <1>4 DEF Decide, Arrive, Tick, vars
  <2> QED
    BY <2>1, <1>2
<1> QED
  BY <1>1, <1>3, <1>4 DEF Next

\* The invariant is inductive.
LEMMA InvStep == IInv /\ [Next]_vars => IInv'
BY TypeStep, ThreadStep, KeysStep DEF IInv

LEMMA InvHolds == Spec => []IInv
BY InvInitial, InvStep, PTL DEF Spec

\* Every variable keeps its type, the bucket is never overdrawn or overfull
\* and the previous key is never newer than the current (SecurityContext).
THEOREM AuthTypeCorrect == Spec => []TypeOK
<1>1. IInv => TypeOK
  BY DEF IInv
<1> QED
  BY <1>1, InvHolds, PTL

-----------------------------------------------------------------------------

\* A charge leaves in the bucket what BucketInv asks, and comes within the
\* rate.
LEMMA ChargeKeepsRate ==
    ASSUME IInv, BucketInv, RateBounded, NEW t \in Threads, Decide(t), ~(Refilled < TokenTicks)
    PROVE  BucketInv' /\ RateBounded'
<1> DEFINE n == Len(charges)
<1>1. /\ tokens' = Refilled - TokenTicks
      /\ last' = now
      /\ charges' = Append(charges, now)
  BY DEF Decide
<1>2. /\ charges \in Seq(0..now) /\ now \in Nat /\ last \in Int /\ tokens \in Int
      /\ n \in Nat /\ \A i \in 1..n : charges[i] \in Int
  BY AuthAssumption DEF IInv, TypeOK
<1>3. /\ Len(charges') = n + 1
      /\ \A i \in 1..n : charges'[i] = charges[i]
      /\ charges'[n + 1] = now
  BY <1>1, <1>2
<1>4. /\ Refilled \in Nat /\ Refilled <= Burst * TokenTicks
      /\ Refilled <= tokens + (now - last)
  BY RefilledInRange DEF IInv
<1>5. TokenTicks \in Nat /\ Burst * TokenTicks \in Nat
  BY AuthAssumption, ProductsAreNumbers
<1>6. ASSUME NEW i \in 1..(n + 1)
      PROVE  tokens' + (n + 1 - i + 1) * TokenTicks <= Burst * TokenTicks + (now - charges'[i])
  <2>1. CASE i = n + 1
    <3>1. (n + 1 - i + 1) * TokenTicks = TokenTicks
      BY <2>1, <1>2, <1>5
    <3> QED
      BY <2>1, <3>1, <1>1, <1>2, <1>3, <1>4, <1>5
  <2>2. CASE i \in 1..n
    <3>1. tokens + (n - i + 1) * TokenTicks <= Burst * TokenTicks + (last - charges[i])
      BY <2>2 DEF BucketInv
    <3>2. /\ (n - i + 1) * TokenTicks \in Int
          /\ (n + 1 - i + 1) * TokenTicks = (n - i + 1) * TokenTicks + TokenTicks
      BY <2>2, <1>2, <1>5
    <3> DEFINE before == (n - i + 1) * TokenTicks
               after == (n + 1 - i + 1) * TokenTicks
               full == Burst * TokenTicks
    <3>3. /\ before \in Int /\ full \in Nat /\ after = before + TokenTicks
          /\ tokens + before <= full + (last - charges[i])
      BY <3>1, <3>2, <1>5
    <3>4. /\ tokens' = Refilled - TokenTicks /\ charges'[i] = charges[i]
          /\ Refilled \in Nat /\ Refilled <= tokens + (now - last)
          /\ charges[i] \in Int /\ now \in Nat /\ last \in Int /\ tokens \in Int
      BY <2>2, <1>1, <1>2, <1>3, <1>4
    <3>5. TokenTicks \in Nat
      BY <1>5
    <3> HIDE DEF n, before, after, full
    <3>6. tokens' + after <= full + (now - charges'[i])
      BY <3>3, <3>4, <3>5
    <3> QED
      BY <3>6 DEF after, full
  <2> QED
    BY <2>1, <2>2, <1>2
<1>7. BucketInv'
  BY <1>1, <1>3, <1>6 DEF BucketInv
<1>8. ASSUME NEW i \in 1..(n + 1), NEW j \in 1..(n + 1), i <= j
      PROVE  (j - i + 1) * TokenTicks <= Burst * TokenTicks + (charges'[j] - charges'[i])
  <2>1. CASE j = n + 1
    <3>1. (j - i + 1) * TokenTicks \in Int
      BY <1>2, <1>5
    <3> QED
      BY <2>1, <3>1, <1>1, <1>2, <1>3, <1>4, <1>5, <1>6
  <2>2. CASE j \in 1..n
    BY <2>2, <1>2, <1>3, <1>8 DEF RateBounded
  <2> QED
    BY <2>1, <2>2, <1>2
<1> QED
  BY <1>3, <1>7, <1>8 DEF RateBounded

\* Every other step leaves the bucket and the charges alone.
LEMMA RateStep == IInv /\ BucketInv /\ RateBounded /\ [Next]_vars => BucketInv' /\ RateBounded'
<1> SUFFICES ASSUME IInv, BucketInv, RateBounded, [Next]_vars
             PROVE  BucketInv' /\ RateBounded'
  OBVIOUS
<1>1. ASSUME UNCHANGED <<tokens, last, charges>> PROVE BucketInv' /\ RateBounded'
  BY <1>1 DEF BucketInv, RateBounded
<1>2. ASSUME NEW t \in Threads, Decide(t) PROVE BucketInv' /\ RateBounded'
  <2>1. CASE Refilled < TokenTicks
    BY <1>1, <1>2, <2>1 DEF Decide, cache, history
  <2>2. CASE ~(Refilled < TokenTicks)
    BY <1>2, <2>2, ChargeKeepsRate
  <2> QED
    BY <2>1, <2>2
<1>3. CASE ~\E t \in Threads : Decide(t)
  <2>1. UNCHANGED <<cache, history>>
    BY <1>3 DEF Next, vars, Sign, Arrive, BeginRotation, EndRotation, Rekey, Tick
  <2> QED
    BY <1>1, <2>1 DEF cache, history
<1> QED
  BY <1>2, <1>3

\* In any stretch of time a node is let past the bucket no more often than the
\* burst and what has come back in it (verify_node).
THEOREM RateBoundedHolds == Spec => []RateBounded
<1>1. Init => BucketInv /\ RateBounded
  BY DEF Init, BucketInv, RateBounded
<1> QED
  BY <1>1, InvHolds, RateStep, PTL DEF Spec

-----------------------------------------------------------------------------

\* The refusal of a key means that two rotations have begun since.
LEMMA RotationStep == IInv /\ RotationSparesInFlight /\ [Next]_vars => RotationSparesInFlight'
<1> SUFFICES ASSUME IInv, RotationSparesInFlight, [Next]_vars PROVE RotationSparesInFlight'
  OBVIOUS
<1>1. ASSUME NEW t \in Threads, Decide(t) PROVE RotationSparesInFlight'
  <2> DEFINE k == request[thread[t].request].key
  <2>1. refused' = refused \/ (refused' = refused \union {<<k, Announced>>}
                               /\ ~KeyAccepted(thread[t].request))
    BY <1>1 DEF Decide, history
  <2>2. thread[t].request \in Requests /\ k \in 1..nodeKey
    BY <1>1 DEF Decide, IInv, ThreadInv, KeysInv, Unsigned
  <2>3. ASSUME ~KeyAccepted(thread[t].request) PROVE Announced >= k + 2
    <3>1. k # current /\ k # previous
      BY <2>3 DEF KeyAccepted
    <3>2. nodeKey \in 1..current /\ current \in Nat
      BY DEF IInv, TypeOK
    <3> QED
      BY <2>2, <3>1, <3>2 DEF Announced, IInv, KeysInv
  <2> QED
    BY <2>1, <2>3 DEF RotationSparesInFlight
<1>2. CASE ~\E t \in Threads : Decide(t)
  <2>1. UNCHANGED history
    BY <1>2 DEF Next, vars, Sign, Arrive, BeginRotation, EndRotation, Rekey, Tick
  <2> QED
    BY <2>1 DEF history, RotationSparesInFlight
<1> QED
  BY <1>1, <1>2

\* One rollover refuses no signature that is in flight (rotate_node_key).
THEOREM RotationSparesInFlightHolds == Spec => []RotationSparesInFlight
<1>1. Init => RotationSparesInFlight
  BY DEF Init, RotationSparesInFlight
<1> QED
  BY <1>1, InvHolds, RotationStep, PTL DEF Spec

-----------------------------------------------------------------------------

\* A nonce let through again has left the cache, which outlives the window.
LEMMA AcceptTwice ==
    ASSUME IInv, CacheInv, NEW t \in Threads, Decide(t),
           Purged[thread[t].request] = 0,
           accepted[thread[t].request].times >= 1
    PROVE  request[thread[t].request].stamp * Second
             > accepted[thread[t].request].first + (Window - 1) * Second - Patience
<1> DEFINE r == thread[t].request
           stamp == request[r].stamp
           first == accepted[r].first
<1>1. /\ r \in Requests
      /\ now - thread[t].since <= Patience
      /\ thread[t].since < (stamp + Window + 1) * Second
  BY DEF Decide, IInv, ThreadInv
<1>2. /\ now \in Nat /\ thread[t].since \in Nat /\ stamp \in Nat /\ first \in Nat
      /\ seen[r] \in Nat
  BY <1>1, AuthAssumption, ProductsAreNumbers DEF IInv, TypeOK
<1>3. first + NonceTtl <= now
  <2>1. seen[r] <= now
    BY <1>1, <1>2 DEF Purged, Kept
  <2> QED
    BY <2>1, <1>1, <1>2, ProductsAreNumbers DEF CacheInv
<1>4. /\ (stamp + Window + 1) * Second = stamp * Second + Window * Second + Second
      /\ (Window - 1) * Second = Window * Second - Second
      /\ NonceTtl = Window * Second + Window * Second
      /\ stamp * Second \in Int /\ Window * Second \in Int
  BY <1>2, AuthAssumption
<1> HIDE DEF r, stamp, first
<1> QED
  <2>1. Second \in Nat /\ Patience \in Nat
    BY AuthAssumption
  <2> QED
    BY <1>1, <1>2, <1>3, <1>4, <2>1 DEF r, stamp, first

\* Every step keeps both the cache and the property.
LEMMA TwiceStep ==
    IInv /\ CacheInv /\ TwiceOnlyFromFastClocks /\ [Next]_vars
        => CacheInv' /\ TwiceOnlyFromFastClocks'
<1> SUFFICES ASSUME IInv, CacheInv, TwiceOnlyFromFastClocks, [Next]_vars
             PROVE  CacheInv' /\ TwiceOnlyFromFastClocks'
  OBVIOUS
<1> USE ProductsAreNumbers
<1>1. ASSUME UNCHANGED accepted, now' >= now,
             \A r \in Requests : request'[r] = request[r] \/ request[r] = Unsigned,
             \A r \in Requests : seen'[r] = seen[r] \/ seen[r] <= now
      PROVE  CacheInv'
  <2>1. /\ now \in Nat /\ now' \in Int
        /\ \A r \in Requests : seen[r] \in Nat /\ accepted[r].first \in Nat
    BY <1>1, TypeStep, AuthAssumption DEF IInv, TypeOK
  <2> QED
    BY <1>1, <2>1 DEF CacheInv
<1>2. ASSUME UNCHANGED accepted,
             \A r \in Requests : request'[r] = request[r] \/ request[r] = Unsigned
      PROVE  TwiceOnlyFromFastClocks'
  <2>1. \A r \in Requests : accepted[r].times \in Nat
    BY DEF IInv, TypeOK
  <2> QED
    BY <1>2, <2>1 DEF TwiceOnlyFromFastClocks, CacheInv
<1>3. ASSUME NEW t \in Threads, Decide(t) PROVE CacheInv' /\ TwiceOnlyFromFastClocks'
  <2> DEFINE q == thread[t].request
  <2>1. /\ q \in Requests /\ request[q] # Unsigned
        /\ now \in Nat /\ UNCHANGED <<now, request>>
    BY <1>3, AuthAssumption DEF Decide, IInv, ThreadInv, TypeOK, Unsigned
  <2>2. \A r \in Requests : Purged[r] = seen[r] \/ seen[r] <= now
    BY <2>1 DEF Purged, Kept, IInv, TypeOK
  <2>3. CASE UNCHANGED accepted
    <3>1. seen' = seen \/ seen' = Purged
      BY <1>3, <2>1, <2>3 DEF Decide, cache, IInv, TypeOK
    <3> QED
      BY <1>1, <1>2, <2>1, <2>2, <2>3, <3>1
  <2>4. CASE ~UNCHANGED accepted
    <3>1. /\ Purged[q] = 0
          /\ seen' = [Purged EXCEPT ![q] = now + NonceTtl]
          /\ accepted' = [accepted EXCEPT ![q] =
                [times |-> @.times + 1, first |-> IF @.times = 0 THEN now ELSE @.first]]
      BY <1>3, <2>4 DEF Decide, history
    <3>2. /\ \A r \in Requests \ {q} : accepted'[r] = accepted[r] /\ seen'[r] = Purged[r]
          /\ accepted'[q].times = accepted[q].times + 1
          /\ accepted'[q].first = IF accepted[q].times = 0 THEN now ELSE accepted[q].first
          /\ seen'[q] = now + NonceTtl
      BY <2>1, <3>1 DEF Purged, IInv, TypeOK
    <3>3. \A r \in Requests : seen[r] \in Nat /\ accepted[r].first \in 0..now /\ accepted[r].times \in Nat
      BY <2>1 DEF IInv, TypeOK
    <3>4. CacheInv'
      BY <2>1, <2>2, <3>2, <3>3 DEF CacheInv
    <3>5. accepted[q].times >= 1 => request[q].stamp * Second
             > accepted[q].first + (Window - 1) * Second - Patience
      BY <1>3, <3>1, AcceptTwice
    <3>6. TwiceOnlyFromFastClocks'
      BY <2>1, <3>2, <3>3, <3>5 DEF TwiceOnlyFromFastClocks
    <3> QED
      BY <3>4, <3>6
  <2> QED
    BY <2>3, <2>4
<1>4. CASE ~\E t \in Threads : Decide(t)
  <2>1. /\ UNCHANGED <<cache, history>>
        /\ now' = now \/ now' = now + 1
    BY <1>4 DEF Next, vars, Sign, Arrive, BeginRotation, EndRotation, Rekey, Tick
  <2>2. \A r \in Requests : request'[r] = request[r] \/ request[r] = Unsigned
    BY <1>4
    DEF Next, vars, Sign, Arrive, BeginRotation, EndRotation, Rekey, Tick, IInv, TypeOK
  <2>3. now \in Nat
    BY AuthAssumption DEF IInv, TypeOK
  <2> QED
    BY <1>1, <1>2, <2>1, <2>2, <2>3 DEF cache, history
<1> QED
  BY <1>3, <1>4

\* A request is let through twice only if the node's clock was fast by more
\* than the window less a second and the wait for the lock (verify_node).
THEOREM TwiceOnlyFromFastClocksHolds == Spec => []TwiceOnlyFromFastClocks
<1>1. Init => CacheInv /\ TwiceOnlyFromFastClocks
  BY DEF Init, CacheInv, TwiceOnlyFromFastClocks
<1> QED
  BY <1>1, InvHolds, TwiceStep, PTL DEF Spec

=============================================================================
