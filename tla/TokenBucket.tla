---------------------------- MODULE TokenBucket ----------------------------
(***************************************************************************)
(* The token bucket of moqtap-proxy (shape/bucket.rs).  A bucket is a      *)
(* record [tokens, last]: nano-bytes held, and the instant they were last  *)
(* brought up to date.  NANO nano-bytes make one byte, and one tick of the *)
(* clock at rate r yields r nano-bytes, which is why a refill is exact.    *)
(* `charge' is pure in the clock: the caller supplies now.                 *)
(***************************************************************************)
EXTENDS Integers

CONSTANTS NANO,        \* nano-bytes in a byte (1_000_000_000 in the code)
          Unlimited,   \* rate_bps = None
          MaxWait      \* longest wait, in ticks, a Duration can hold

ASSUME BucketAssumption ==
    /\ NANO \in Nat \ {0}
    /\ MaxWait \in Nat
    /\ Unlimited \notin Nat

Buckets == [tokens : Nat, last : Nat]

LesserOf(a, b) == IF a <= b THEN a ELSE b

(* BucketState::new: a bucket starts full. *)
NewBucket(burst, now) == [tokens |-> burst * NANO, last |-> now]

(* Two faulty refills and a faulty wait, which the properties must catch:  *)
(* the guard on now forgotten, the cap forgotten, the division rounded     *)
(* down.                                                                   *)
RewindingRefill(b, rate, burst, now) ==
    [tokens |-> LesserOf(b.tokens + (now - b.last) * rate, burst * NANO), last |-> now]
UncappedRefill(b, rate, burst, now) ==
    IF now > b.last
    THEN [tokens |-> b.tokens + (now - b.last) * rate, last |-> now] ELSE b
FlooredWait(b, rate, bytes) == (bytes * NANO - b.tokens) \div rate

(* The refill at the head of charge.  A now that is behind `last' refills  *)
(* nothing and does not rewind the bucket's clock.                         *)
Refill(b, rate, burst, now) ==
    IF now > b.last
    THEN [tokens |-> LesserOf(b.tokens + (now - b.last) * rate, burst * NANO),
          last   |-> now]
    ELSE [b EXCEPT !.tokens = LesserOf(b.tokens, burst * NANO)]

(* The ticks a refilled bucket needs to cover a unit: deficit.div_ceil(rate). *)
WaitFor(b, rate, bytes) == (bytes * NANO - b.tokens + rate - 1) \div rate

(* The answers of charge, and the bucket it leaves behind.  A refusal      *)
(* keeps the refill and debits nothing.                                    *)
Charge(b, rate, burst, bytes, now) ==
    IF rate = Unlimited
    THEN [grant |-> "Now", bucket |-> b, at |-> now]
    ELSE LET r == Refill(b, rate, burst, now)
             Refuse(g, at) == [grant |-> g, bucket |-> r, at |-> at]
         IN  IF r.tokens >= bytes * NANO
             THEN [grant  |-> "Now", at |-> now,
                   bucket |-> [r EXCEPT !.tokens = @ - bytes * NANO]]
             ELSE IF rate = 0                      THEN Refuse("Never", now)
             ELSE IF bytes > burst                 THEN Refuse("LargerThanBurst", now)
             ELSE IF WaitFor(r, rate, bytes) > MaxWait THEN Refuse("Never", now)
             ELSE Refuse("Later", r.last + WaitFor(r, rate, bytes))
=============================================================================
