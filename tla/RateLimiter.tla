---------------------------- MODULE RateLimiter ----------------------------
(***************************************************************************)
(* The rate limit of an endpoint: a bucket per caller, method and handler, *)
(* which a request fills and which is emptied a window after its first     *)
(* request.  Handlers have limits and windows of their own, but one map    *)
(* holds all buckets, and the request of any handler sweeps the map.       *)
(***************************************************************************)
EXTENDS Integers, Sequences

CONSTANTS
  Keys,         \* actor or address, method and handler
  Limit,        \* the limit of each key's handler
  Window,       \* its window, in ticks
  LastTick,     \* bound: the clock stops here
  NoBucket

ASSUME LimiterAssumption ==
  /\ Limit \in [Keys -> Nat \ {0}] /\ Window \in [Keys -> Nat \ {0}]
  /\ LastTick \in Nat
  /\ NoBucket \notin [count : Nat, resetAt : Nat]

VARIABLES
  now,          \* the clock, which is never set back
  buckets,
  lastSweepAt,
  admitted      \* the times at which requests of each key were let in

limiterVars == <<now, buckets, lastSweepAt, admitted>>

LimiterInit ==
  /\ now = 0 /\ lastSweepAt = 0
  /\ buckets = [k \in Keys |-> NoBucket]
  /\ admitted = [k \in Keys |-> <<>>]

-----------------------------------------------------------------------------
Expired(bucket) == bucket # NoBucket /\ bucket.resetAt <= now

\* Mutant of Swept: the window of the request decides which buckets go.
SweptByAge(k) ==
  IF now - lastSweepAt < Window[k] THEN buckets ELSE [l \in Keys |-> NoBucket]

\* The buckets after the sweep that a request of k may make: the window of k
\* says whether it does, but each bucket has its own end.
Swept(k) ==
  IF now - lastSweepAt < Window[k] THEN buckets
  ELSE [l \in Keys |-> IF Expired(buckets[l]) THEN NoBucket ELSE buckets[l]]

Sweep(k) == lastSweepAt' = IF now - lastSweepAt < Window[k] THEN lastSweepAt ELSE now

Admit(k, bucket) ==
  /\ buckets' = [Swept(k) EXCEPT ![k] = bucket]
  /\ admitted' = [admitted EXCEPT ![k] = Append(@, now)]

Refuse(k) == buckets' = Swept(k) /\ UNCHANGED admitted

\* canActivate(): the bucket is looked up before the sweep.  The answer to a
\* request that is turned away says when the bucket ends.
CanActivate(k) ==
  /\ LET current == buckets[k]
     IN IF current = NoBucket \/ Expired(current)
        THEN Admit(k, [count |-> 1, resetAt |-> now + Window[k]])
        ELSE IF current.count >= Limit[k]
        THEN Refuse(k)
        ELSE Admit(k, [current EXCEPT !.count = @ + 1])
  /\ Sweep(k)
  /\ UNCHANGED now

LimiterTick ==
  /\ now < LastTick
  /\ now' = now + 1
  /\ UNCHANGED <<buckets, lastSweepAt, admitted>>

LimiterNext == (\E k \in Keys : CanActivate(k)) \/ LimiterTick

LimiterSpec == LimiterInit /\ [][LimiterNext]_limiterVars

-----------------------------------------------------------------------------
(* Properties *)

\* The types of the state.
LimiterTypeOK ==
  /\ now \in Nat /\ lastSweepAt \in Nat
  /\ buckets \in [Keys -> [count : Nat, resetAt : Nat] \cup {NoBucket}]
  /\ admitted \in [Keys -> Seq(Nat)]

\* In no stretch of time as long as the window are more than twice the limit
\* let in: a window may end in the middle of it, but no other handler's
\* sweep takes a bucket that is not over.
AdmissionsBounded ==
  \A k \in Keys : \A i \in 1..Len(admitted[k]) :
    i > 2 * Limit[k] => admitted[k][i] - admitted[k][i - 2 * Limit[k]] >= Window[k]
=============================================================================
