------------------------------ MODULE NodeAuth ------------------------------
(***************************************************************************)
(* What the server lets a node do (SecurityContext in security.py): the    *)
(* clock window, the token bucket, the nonce cache and the two keys of one *)
(* node, as the threads of the HTTP server use them.                       *)
(*                                                                         *)
(* A request may reach the server late and more than once.  Its time is    *)
(* checked before the lock is taken and the rest under it, so a thread may *)
(* wait in between: `Patience` bounds that wait.  Time is in ticks, Second *)
(* ticks to the second; the monotonic and the wall clock run alike, the    *)
(* node's clock may be off by any amount, so a stamp is any second.  A     *)
(* rotation is two assignments outside the lock.  A token is TokenTicks    *)
(* units and one unit comes back each tick.                                *)
(*                                                                         *)
(* Bounds: MaxTime, MaxStamp, MaxKey, MaxCharges.                          *)
(***************************************************************************)
EXTENDS Integers, Sequences

CONSTANTS
    Requests,       \* each has a nonce of its own
    Threads, NoRequest,
    Second, Window, NonceTtl, Patience,
    Burst, TokenTicks,
    MaxTime, MaxStamp, MaxKey, MaxCharges

ASSUME AuthAssumption ==
    /\ NoRequest \notin Requests
    /\ Second \in Nat \ {0} /\ Window \in Nat /\ Patience \in Nat
    /\ NonceTtl = 2 * Window * Second       \* 60 and 30 in the code
    /\ Burst \in Nat /\ TokenTicks \in Nat \ {0}
    /\ MaxTime \in Nat /\ MaxStamp \in Nat /\ MaxKey \in Nat \ {0} /\ MaxCharges \in Nat

VARIABLES
    now,
    request,        \* the requests the node has signed
    thread,         \* the request a thread has let through its clock window
    seen,           \* expiry of each nonce of the cache, 0 when it is not there
    tokens, last,   \* the bucket
    current, previous, rotating, nodeKey,
    accepted,       \* history: how often each request was let through, and when first
    charges,        \* history: when the bucket was charged
    refused         \* history: keys refused, with the newest key announced then

keys == <<current, previous, rotating, nodeKey>>
cache == <<seen, tokens, last>>
history == <<accepted, charges, refused>>
vars == <<now, request, thread, cache, keys, history>>

NoKey == 0
Unsigned == [stamp |-> 0, key |-> NoKey]
Free == [request |-> NoRequest, since |-> 0]
Abs(n) == IF n < 0 THEN -n ELSE n
Least(m, n) == IF m < n THEN m ELSE n

Init ==
    /\ now = 0
    /\ request = [r \in Requests |-> Unsigned]
    /\ thread = [t \in Threads |-> Free]
    /\ seen = [r \in Requests |-> 0]
    /\ tokens = Burst * TokenTicks /\ last = 0
    /\ current = 1 /\ previous = NoKey /\ rotating = FALSE /\ nodeKey = 1
    /\ accepted = [r \in Requests |-> [times |-> 0, first |-> 0]]
    /\ charges = <<>> /\ refused = {}

\* vehicle_process.post signs each request with its clock and a fresh nonce.
Sign(r, stamp) ==
    /\ request[r] = Unsigned
    /\ request' = [request EXCEPT ![r] = [stamp |-> stamp, key |-> nodeKey]]
    /\ UNCHANGED <<now, thread, cache, keys, history>>

WallSecond == now \div Second

InWindow(r) == Abs(WallSecond - request[r].stamp) <= Window

\* A request, first sent or again, comes to a thread within its clock window.
Arrive(t, r) ==
    /\ request[r] # Unsigned /\ thread[t] = Free
    /\ Len(charges) < MaxCharges
    /\ InWindow(r)
    /\ thread' = [thread EXCEPT ![t] = [request |-> r, since |-> now]]
    /\ UNCHANGED <<now, request, cache, keys, history>>

\* A slip: what comes back is not limited to the burst.
RefilledFreely == tokens + (now - last)

Refilled == Least(Burst * TokenTicks, tokens + (now - last))

\* A slip: a nonce is kept for half its time.
KeptHalf(r) == seen[r] > now + NonceTtl \div 2

\* The nonce has not expired.
Kept(r) == seen[r] > now

Purged == [r \in Requests |-> IF Kept(r) THEN seen[r] ELSE 0]

KeyAccepted(r) == request[r].key \in {current, previous}

\* The key of the last rotation begun.
Announced == IF rotating THEN current + 1 ELSE current

\* The locked part of verify_node: the bucket is charged before the nonce and
\* the signature are looked at.
Decide(t) ==
    LET r == thread[t].request IN
    /\ thread[t] # Free
    /\ thread' = [thread EXCEPT ![t] = Free]
    /\ IF Refilled < TokenTicks
       THEN UNCHANGED <<cache, history>>
       ELSE /\ tokens' = Refilled - TokenTicks /\ last' = now
            /\ charges' = Append(charges, now)
            /\ IF Purged[r] = 0 /\ KeyAccepted(r)
               THEN /\ seen' = [Purged EXCEPT ![r] = now + NonceTtl]
                    /\ accepted' = [accepted EXCEPT ![r] =
                         [times |-> @.times + 1, first |-> IF @.times = 0 THEN now ELSE @.first]]
               ELSE seen' = Purged /\ UNCHANGED accepted
            /\ refused' = IF Purged[r] = 0 /\ ~KeyAccepted(r)
                          THEN refused \union {<<request[r].key, Announced>>} ELSE refused
    /\ UNCHANGED <<now, request, keys>>

\* A slip: the new key is taken for the old one.
KeyToKeepNew == current + 1

KeyToKeep == current

\* rotate_node_key, its two assignments.
BeginRotation ==
    /\ ~rotating /\ current < MaxKey
    /\ previous' = KeyToKeep /\ rotating' = TRUE
    /\ UNCHANGED <<now, request, thread, cache, current, nodeKey, history>>

EndRotation ==
    /\ rotating
    /\ current' = current + 1 /\ rotating' = FALSE
    /\ UNCHANGED <<now, request, thread, cache, previous, nodeKey, history>>

\* The node is given the server's key.
Rekey ==
    /\ nodeKey < current
    /\ nodeKey' = current
    /\ UNCHANGED <<now, request, thread, cache, current, previous, rotating, history>>

Tick ==
    /\ now < MaxTime
    /\ \A t \in Threads : thread[t] = Free \/ now - thread[t].since < Patience
    /\ now' = now + 1
    /\ UNCHANGED <<request, thread, cache, keys, history>>

Next ==
    \/ \E r \in Requests, stamp \in 0..MaxStamp : Sign(r, stamp)
    \/ \E t \in Threads : Decide(t) \/ \E r \in Requests : Arrive(t, r)
    \/ BeginRotation \/ EndRotation \/ Rekey
    \/ Tick

Spec == Init /\ [][Next]_vars

-----------------------------------------------------------------------------

\* Types, and that the bucket is never overdrawn or overfull and the previous
\* key never newer than the current.
TypeOK ==
    /\ now \in 0..MaxTime /\ last \in 0..now
    /\ request \in [Requests -> [stamp : 0..MaxStamp, key : 0..MaxKey]]
    /\ thread \in [Threads -> [request : Requests \union {NoRequest}, since : 0..now]]
    /\ seen \in [Requests -> 0..(now + NonceTtl)]
    /\ tokens \in 0..(Burst * TokenTicks)
    /\ current \in 1..MaxKey /\ previous \in 0..current /\ nodeKey \in 1..current
    /\ rotating \in BOOLEAN
    /\ accepted \in [Requests -> [times : Nat, first : 0..now]]
    /\ charges \in Seq(0..now) /\ refused \subseteq (1..MaxKey) \X (1..MaxKey)

\* A request is let through twice only if the node's clock was fast by more
\* than the window less a second and the wait for the lock when it was first
\* let through: for all others the cache outlives the window (verify_node).
TwiceOnlyFromFastClocks == \A r \in Requests : accepted[r].times > 1 =>
    request[r].stamp * Second > accepted[r].first + (Window - 1) * Second - Patience

\* In any stretch of time the node is let past the bucket no more often than
\* the burst and what has come back in it, however its requests fail after.
RateBounded == \A i, j \in 1..Len(charges) : i <= j =>
    (j - i + 1) * TokenTicks <= Burst * TokenTicks + (charges[j] - charges[i])

\* A signature is refused only once a second rotation has begun since its key
\* was the server's: one rollover spares what is in flight, whichever of its
\* two assignments have happened (rotate_node_key, docs/security-review.md).
RotationSparesInFlight == \A pair \in refused : pair[2] >= pair[1] + 2
=============================================================================
