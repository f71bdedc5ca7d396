----------------------------- MODULE RateLimit -----------------------------
(***************************************************************************)
(* The token buckets of packages/api/src/rate-limit.ts, one per client     *)
(* key, against buckets that are never dropped.  Tokens and time are       *)
(* counted in the time a token takes to refill, cut into Unit ticks; the   *)
(* clock does not step back.                                               *)
(***************************************************************************)
EXTENDS Naturals, FiniteSetsExt

CONSTANTS Keys,         \* addresses
          TrustProxy,   \* whether X-Forwarded-For is read
          Unit, Capacity, SweepEvery

VARIABLES buckets,      \* the map: a bucket, or None
          calls,        \* calls of take(), modulo SWEEP_EVERY
          ideal         \* buckets as they would be without the sweep (history)
limiterVars == <<buckets, calls, ideal>>

Top == Capacity * Unit      \* the tokens of a full bucket
None == [tokens |-> 0, age |-> Top + 1]
Full == [tokens |-> Top, age |-> 0]
LimiterInit == buckets = [k \in Keys |-> None] /\ ideal = [k \in Keys |-> Full] /\ calls = 0

Refilled(b) == Min({Top, b.tokens + b.age})
Kept(b) == b # None /\ Refilled(b) < Top

\* Variant: a bucket that has a token goes too.
SweepOfIdle == [k \in Keys |-> IF Refilled(buckets[k]) < Unit THEN buckets[k] ELSE None]
Sweep == [k \in Keys |-> IF Kept(buckets[k]) THEN buckets[k] ELSE None]

BucketOf(map, k) == IF map[k] = None THEN Full ELSE map[k]
Allowed(b) == Refilled(b) >= Unit
Spent(b) == [tokens |-> IF Allowed(b) THEN Refilled(b) - Unit ELSE Refilled(b), age |-> 0]

\* The key of a request; a client that is its own peer, or hides behind a proxy.
Requests == [forwarded : Keys \cup {"none"}, address : Keys]
ClientKey(r) == IF TrustProxy /\ r.forwarded # "none" THEN r.forwarded ELSE r.address

\* take(key): the sweep comes first, so that a dropped bucket is made again full.
Take(k) ==
    /\ calls' = (calls + 1) % SweepEvery
    /\ LET map == IF calls' = 0 THEN Sweep ELSE buckets IN
       buckets' = [map EXCEPT ![k] = Spent(BucketOf(map, k))]
    /\ ideal' = [ideal EXCEPT ![k] = Spent(@)]

\* A bucket as old as Capacity tokens is full, and ages no more.
Aged(b) == IF b = None \/ b.age = Top THEN b ELSE [b EXCEPT !.age = @ + 1]
Tick == /\ buckets' = [k \in Keys |-> Aged(buckets[k])] /\ ideal' = [k \in Keys |-> Aged(ideal[k])]
        /\ UNCHANGED calls

LimiterNext == Tick \/ \E r \in Requests : Take(ClientKey(r))
LimiterSpec == LimiterInit /\ [][LimiterNext]_limiterVars

-----------------------------------------------------------------------------
\* rate-limit.ts 17-20: "A bucket that has refilled to capacity is indistinguishable from
\* a key never seen".  Whatever the sweep drops and take() makes again, the next decision
\* for a key, and its retryAfterSeconds, are those of a bucket that was never dropped.
SweepIsInvisible == \A k \in Keys : Refilled(BucketOf(buckets, k)) = Refilled(ideal[k])
=============================================================================
