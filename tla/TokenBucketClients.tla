------------------------ MODULE TokenBucketClients ------------------------
(***************************************************************************)
(* One token bucket shared by streams that charge it concurrently.  Every  *)
(* stream reads the clock once per release batch and charges under the     *)
(* scheduler's lock later, so the instants the bucket sees are up to       *)
(* MaxStale ticks old and need not increase.                               *)
(***************************************************************************)
EXTENDS TokenBucket

CONSTANTS Rates,      \* the rates a profile may configure, Unlimited included
          Burst,      \* burst_bytes
          UnitBytes,  \* sizes of the units charged
          MaxStale,   \* bound: how old a clock reading may be
          MaxClock    \* bound: the last instant

ASSUME ClientsAssumption ==
    /\ Rates \subseteq Nat \union {Unlimited}
    /\ Burst \in Nat
    /\ UnitBytes \subseteq Nat
    /\ MaxStale \in Nat
    /\ MaxClock \in Nat

VARIABLES rate,     \* the bucket's rate_bps, fixed by the profile
          clock,    \* the monotonic clock
          bucket,   \* the shared BucketState
          mark,     \* where the observation window starts, in bucket time
          spent,    \* bytes a limited bucket granted since mark
          asked     \* the last charge: its bytes and what it answered

vars == <<rate, clock, bucket, mark, spent, asked>>

Answers == [bytes : Nat, grant : {"Now", "Later", "Never", "LargerThanBurst"}, at : Nat]

Init == /\ rate \in Rates
        /\ clock = 0
        /\ bucket = NewBucket(Burst, 0)
        /\ mark = 0
        /\ spent = 0
        /\ asked = [bytes |-> 0, grant |-> "Now", at |-> 0]

Tick == /\ clock < MaxClock
        /\ clock' = clock + 1
        /\ UNCHANGED <<rate, bucket, mark, spent, asked>>

(* One charge of a unit, by a stream whose clock reading may be old. *)
ChargeUnit(bytes, now) ==
    LET c == Charge(bucket, rate, Burst, bytes, now)
    IN  /\ bucket' = c.bucket
        /\ spent'  = IF rate # Unlimited /\ c.grant = "Now" THEN spent + bytes ELSE spent
        /\ asked'  = [bytes |-> bytes, grant |-> c.grant, at |-> c.at]
        /\ UNCHANGED <<rate, clock, mark>>

(* The observer starts a new window at the bucket's present instant. *)
OpenWindow == /\ mark' = bucket.last
              /\ spent' = 0
              /\ UNCHANGED <<rate, clock, bucket, asked>>

Next == \/ Tick
        \/ \E bytes \in UnitBytes, now \in 0..clock :
              /\ now + MaxStale >= clock
              /\ ChargeUnit(bytes, now)
        \/ OpenWindow

Spec == Init /\ [][Next]_vars

-----------------------------------------------------------------------------
TypeOK == /\ rate \in Rates
          /\ clock \in Nat
          /\ bucket \in Buckets
          /\ mark \in Nat
          /\ spent \in Nat
          /\ asked \in Answers

(* The bound charge's documentation claims exactly: over any interval the  *)
(* bytes granted never exceed rate * elapsed + burst, even when the        *)
(* streams' clock readings arrive out of order (shape/bucket.rs charge).   *)
RateBound ==
    rate # Unlimited => spent * NANO <= rate * (bucket.last - mark) + Burst * NANO

(* The instant of a Later answer is the earliest at which the bucket, left *)
(* alone, covers the unit: the deadline PendingQueue arms for a head that  *)
(* was refused (shape/bucket.rs Grant::Later).                             *)
LaterIsEarliest ==
    asked.grant = "Later" =>
        /\ asked.at > bucket.last
        /\ Refill(bucket, rate, Burst, asked.at).tokens >= asked.bytes * NANO
        /\ Refill(bucket, rate, Burst, asked.at - 1).tokens < asked.bytes * NANO

(* A stale clock reading never rewinds the bucket or mints tokens: the     *)
(* bucket's instant only moves forward, and never past the real clock.     *)
BucketClockForward == [][bucket'.last >= bucket.last /\ bucket'.last <= clock']_vars
=============================================================================
