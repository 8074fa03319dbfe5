-------------------------- MODULE TokenBucketProofs --------------------------
(***************************************************************************)
(* Proofs about the shared token bucket: the type invariant, the exact     *)
(* rate bound and the earliest-instant property, for every rate, burst and *)
(* order of clock readings.                                                *)
(***************************************************************************)
EXTENDS TokenBucketClients, TokenBucketLemmas

(* The strengthening of RateBound: the tokens still held are part of the   *)
(* allowance, and the window starts in the bucket's past.                  *)
BucketInv ==
    /\ mark <= bucket.last
    /\ bucket.last <= clock
    /\ bucket.tokens <= Burst * NANO
    /\ rate # Unlimited =>
          bucket.tokens + spent * NANO <= rate * (bucket.last - mark) + Burst * NANO

(* One charge against a limited bucket keeps the strengthened invariant:   *)
(* the refill adds at most rate * elapsed, and a grant moves tokens to     *)
(* spent without changing their sum.                                       *)
LEMMA ChargeKeepsBound ==
    ASSUME TypeOK, BucketInv, NEW bytes \in UnitBytes, NEW now \in 0..clock,
           ChargeUnit(bytes, now)
    PROVE  TypeOK' /\ BucketInv'
  <1> DEFINE c == Charge(bucket, rate, Burst, bytes, now)
             f == Refill(bucket, rate, Burst, now)
  <1>0. /\ bytes \in Nat /\ now \in Nat /\ now <= clock /\ Burst \in Nat
        /\ NANO \in Nat /\ bytes * NANO \in Nat /\ Burst * NANO \in Nat
        /\ rate = Unlimited \/ rate \in Nat
    BY ClientsAssumption, BucketAssumption, Products DEF TypeOK
  <1>1. CASE rate = Unlimited
    <2>1. c = [grant |-> "Now", bucket |-> bucket, at |-> now]
      BY <1>1 DEF Charge
    <2>2. /\ bucket' = bucket /\ spent' = spent
          /\ asked' = [bytes |-> bytes, grant |-> "Now", at |-> now]
          /\ UNCHANGED <<rate, clock, mark>>
      BY <1>1, <2>1 DEF ChargeUnit
    <2> QED BY <1>0, <1>1, <2>2 DEF TypeOK, BucketInv, Answers
  <1>2. CASE rate \in Nat
    <2>0. rate # Unlimited
      BY <1>2, BucketAssumption
    <2>1. /\ f \in Buckets
          /\ f.tokens <= Burst * NANO
          /\ f.last >= bucket.last
          /\ f.last = bucket.last \/ f.last = now
          /\ f.tokens <= bucket.tokens + rate * (f.last - bucket.last)
      BY <1>0, <1>2, RefillFacts DEF TypeOK, BucketInv
    <2>2. f.last <= clock
      BY <1>0, <2>1 DEF BucketInv, TypeOK, Buckets
    <2>3. rate * (f.last - mark) = rate * (bucket.last - mark) + rate * (f.last - bucket.last)
      <3>1. /\ bucket.last - mark \in Nat /\ f.last - bucket.last \in Nat
            /\ f.last - mark = (bucket.last - mark) + (f.last - bucket.last)
        BY <2>1 DEF TypeOK, BucketInv, Buckets
      <3> QED BY <3>1, <1>2, Products
    <2>4. /\ rate * (bucket.last - mark) \in Nat
          /\ rate * (f.last - bucket.last) \in Nat
          /\ spent * NANO \in Nat
          /\ (spent + bytes) * NANO = spent * NANO + bytes * NANO
      <3>1. /\ bucket.last - mark \in Nat /\ f.last - bucket.last \in Nat
        BY <2>1 DEF TypeOK, BucketInv, Buckets
      <3> QED BY <3>1, <1>0, <1>2, Products DEF TypeOK
    <2>5. /\ c.grant \in {"Now", "Later", "Never", "LargerThanBurst"}
          /\ c.grant = "Now" =>
                /\ f.tokens >= bytes * NANO
                /\ c.bucket = [f EXCEPT !.tokens = @ - bytes * NANO]
                /\ c.at = now
          /\ c.grant # "Now" => c.bucket = f
          /\ c.grant \in {"Never", "LargerThanBurst"} => c.at = now
          /\ c.grant = "Later" =>
                /\ rate # 0
                /\ bytes <= Burst
                /\ f.tokens < bytes * NANO
                /\ c.at = f.last + WaitFor(f, rate, bytes)
      BY <1>0, <1>2, ChargeFacts DEF TypeOK, BucketInv
    <2>6. /\ bucket' = c.bucket
          /\ spent' = IF c.grant = "Now" THEN spent + bytes ELSE spent
          /\ asked' = [bytes |-> bytes, grant |-> c.grant, at |-> c.at]
          /\ UNCHANGED <<rate, clock, mark>>
      BY <2>0 DEF ChargeUnit
    <2>7. c.grant = "Later" => WaitFor(f, rate, bytes) \in Nat
      <3>1. SUFFICES ASSUME c.grant = "Later" PROVE WaitFor(f, rate, bytes) \in Nat
        OBVIOUS
      <3>2. /\ bytes * NANO - f.tokens \in Nat /\ bytes * NANO - f.tokens > 0 /\ rate > 0
        BY <1>0, <1>2, <2>1, <2>5, <3>1 DEF Buckets
      <3> QED BY <3>2, <1>2, CeilFacts DEF WaitFor
    <2> HIDE DEF c, f
    <2>8. c.at \in Nat
      BY <1>0, <2>1, <2>5, <2>7 DEF Buckets
    <2>9. CASE c.grant = "Now"
      <3>1. bucket' = [tokens |-> f.tokens - bytes * NANO, last |-> f.last]
        BY <2>1, <2>5, <2>6, <2>9 DEF Buckets
      <3>2. TypeOK'
        BY <1>0, <2>1, <2>5, <2>6, <2>8, <2>9, <3>1 DEF TypeOK, Buckets, Answers
      <3>3. spent' * NANO = spent * NANO + bytes * NANO
        BY <2>4, <2>6, <2>9
      <3>4. bucket'.tokens + spent' * NANO <= rate * (bucket'.last - mark) + Burst * NANO
        BY <1>0, <2>0, <2>1, <2>3, <2>4, <3>1, <3>3 DEF BucketInv, Buckets, TypeOK
      <3> QED BY <1>0, <2>1, <2>2, <2>6, <3>1, <3>2, <3>4 DEF BucketInv, Buckets, TypeOK
    <2>10. CASE c.grant # "Now"
      <3>1. bucket' = f /\ spent' = spent
        BY <2>5, <2>6, <2>10
      <3>2. TypeOK'
        BY <1>0, <2>1, <2>5, <2>6, <2>8, <3>1 DEF TypeOK, Answers
      <3>4. bucket'.tokens + spent' * NANO <= rate * (bucket'.last - mark) + Burst * NANO
        BY <1>0, <2>0, <2>1, <2>3, <2>4, <3>1 DEF BucketInv, Buckets, TypeOK
      <3> QED BY <1>0, <2>1, <2>2, <2>6, <3>1, <3>2, <3>4 DEF BucketInv, Buckets, TypeOK
    <2> QED BY <2>9, <2>10
  <1> QED BY <1>0, <1>1, <1>2

LEMMA InitHolds == Init => TypeOK /\ BucketInv
  <1> SUFFICES ASSUME Init PROVE TypeOK /\ BucketInv
    OBVIOUS
  <1>1. Burst * NANO \in Nat /\ 0 * NANO = 0
    BY ClientsAssumption, BucketAssumption, Products
  <1>2. rate # Unlimited => rate * 0 = 0
    BY ClientsAssumption DEF Init
  <1> QED
    BY <1>1, <1>2, ClientsAssumption DEF Init, TypeOK, BucketInv, NewBucket, Buckets, Answers

LEMMA StepHolds == TypeOK /\ BucketInv /\ [Next]_vars => TypeOK' /\ BucketInv'
  <1> SUFFICES ASSUME TypeOK, BucketInv, [Next]_vars PROVE TypeOK' /\ BucketInv'
    OBVIOUS
  <1>1. CASE Tick
    BY <1>1 DEF Tick, TypeOK, BucketInv, Buckets
  <1>2. CASE \E bytes \in UnitBytes, now \in 0..clock :
                now + MaxStale >= clock /\ ChargeUnit(bytes, now)
    BY <1>2, ChargeKeepsBound
  <1>3. CASE OpenWindow
    <2>1. 0 * NANO = 0 /\ (rate # Unlimited => rate * 0 = 0)
      BY BucketAssumption, ClientsAssumption DEF TypeOK
    <2>2. bucket.last - mark' = 0 /\ rate' = rate /\ bucket' = bucket /\ spent' = 0
      BY <1>3 DEF OpenWindow, TypeOK, Buckets
    <2>3. Burst * NANO \in Nat
      BY Products, ClientsAssumption, BucketAssumption
    <2> QED BY <1>3, <2>1, <2>2, <2>3 DEF OpenWindow, TypeOK, BucketInv, Buckets
  <1>4. CASE UNCHANGED vars
    BY <1>4 DEF vars, TypeOK, BucketInv
  <1> QED BY <1>1, <1>2, <1>3, <1>4 DEF Next

(* Every reachable state has its type: TypeOK is an invariant of the       *)
(* bucket shared by concurrent streams.                                    *)
THEOREM TypeCorrect == Spec => []TypeOK
  <1>1. Spec => [](TypeOK /\ BucketInv)
    BY InitHolds, StepHolds, PTL DEF Spec
  <1> QED BY <1>1, PTL

(* The bytes a limited bucket grants over any window never exceed          *)
(* rate * elapsed + burst, for every rate, burst, unit size and order of   *)
(* the streams' clock readings (charge in shape/bucket.rs).                *)
THEOREM RateBoundHolds == Spec => []RateBound
  <1>1. Spec => [](TypeOK /\ BucketInv)
    BY InitHolds, StepHolds, PTL DEF Spec
  <1>2. TypeOK /\ BucketInv => RateBound
    <2> SUFFICES ASSUME TypeOK, BucketInv, rate # Unlimited
                 PROVE  spent * NANO <= rate * (bucket.last - mark) + Burst * NANO
      BY DEF RateBound
    <2>1. /\ rate * (bucket.last - mark) \in Nat /\ spent * NANO \in Nat
          /\ Burst * NANO \in Nat /\ bucket.tokens \in Nat
      <3>1. bucket.last - mark \in Nat
        BY DEF TypeOK, BucketInv, Buckets
      <3> QED BY <3>1, Products, ClientsAssumption, BucketAssumption DEF TypeOK, Buckets
    <2> QED BY <2>1 DEF BucketInv
  <1> QED BY <1>1, <1>2, PTL

(* A Later answer names the earliest sufficient instant, so the deadline a *)
(* refused head arms is neither early (a wasted wake) nor late.            *)
THEOREM LaterIsEarliestHolds == Spec => []LaterIsEarliest
  <1>1. Init => LaterIsEarliest
    BY DEF Init, LaterIsEarliest
  <1>2. TypeOK /\ BucketInv /\ LaterIsEarliest /\ [Next]_vars => LaterIsEarliest'
    <2> SUFFICES ASSUME TypeOK, BucketInv, LaterIsEarliest, [Next]_vars
                 PROVE  LaterIsEarliest'
      OBVIOUS
    <2>1. CASE UNCHANGED <<rate, bucket, asked>>
      BY <2>1 DEF LaterIsEarliest, Refill
    <2>2. ASSUME NEW bytes \in UnitBytes, NEW now \in 0..clock, ChargeUnit(bytes, now)
          PROVE  LaterIsEarliest'
      <3> SUFFICES ASSUME asked'.grant = "Later"
                   PROVE  /\ asked'.at > bucket'.last
                          /\ Refill(bucket', rate', Burst, asked'.at).tokens
                                >= asked'.bytes * NANO
                          /\ Refill(bucket', rate', Burst, asked'.at - 1).tokens
                                < asked'.bytes * NANO
        BY DEF LaterIsEarliest
      <3> DEFINE c == Charge(bucket, rate, Burst, bytes, now)
                 f == Refill(bucket, rate, Burst, now)
                 w == WaitFor(f, rate, bytes)
                 need == bytes * NANO
      <3>1. /\ bytes \in Nat /\ now \in Nat /\ Burst \in Nat /\ NANO \in Nat
            /\ need \in Nat /\ Burst * NANO \in Nat
        BY ClientsAssumption, BucketAssumption, Products DEF TypeOK
      <3>2. /\ asked' = [bytes |-> bytes, grant |-> c.grant, at |-> c.at]
            /\ bucket' = c.bucket /\ rate' = rate
        BY <2>2 DEF ChargeUnit
      <3>3. rate \in Nat
        <4>1. rate = Unlimited => c.grant = "Now"
          BY DEF Charge
        <4> QED BY <4>1, <3>2, ClientsAssumption DEF TypeOK
      <3>4. f \in Buckets
        BY <3>1, <3>3, RefillFacts DEF TypeOK, BucketInv
      <3>5. /\ rate # 0 /\ bytes <= Burst /\ f.tokens < need
            /\ bucket' = f /\ asked'.at = f.last + w /\ asked'.bytes = bytes
        BY <3>1, <3>2, <3>3, ChargeFacts DEF TypeOK, BucketInv
      <3>6. /\ w \in Nat /\ w > 0 /\ w * rate >= need - f.tokens
            /\ (w - 1) * rate < need - f.tokens
        <4>1. need - f.tokens \in Nat /\ need - f.tokens > 0 /\ rate > 0
          BY <3>1, <3>3, <3>4, <3>5 DEF Buckets
        <4> QED BY <4>1, <3>3, CeilFacts DEF WaitFor
      <3>7. need <= Burst * NANO
        BY <3>1, <3>5, Products
      <3> HIDE DEF f, w, need, c
      <3>8. f.last \in Nat /\ f.tokens \in Nat
        BY <3>4 DEF Buckets
      <3>9. w * rate \in Nat /\ (w - 1) * rate \in Nat
        <4>1. w - 1 \in Nat
          BY <3>6
        <4> QED BY <4>1, <3>6, <3>3, Products
      <3>10. Refill(f, rate, Burst, f.last + w).tokens
                = LesserOf(f.tokens + w * rate, Burst * NANO)
        <4>1. f.last + w > f.last /\ (f.last + w) - f.last = w
          BY <3>6, <3>8
        <4> QED BY <4>1 DEF Refill
      <3>11. Refill(f, rate, Burst, f.last + w).tokens >= need
        BY <3>1, <3>6, <3>7, <3>8, <3>9, <3>10 DEF LesserOf
      <3>12. Refill(f, rate, Burst, (f.last + w) - 1).tokens < need
        <4>1. CASE w = 1
          <5>1. ~((f.last + w) - 1 > f.last)
            BY <4>1, <3>8
          <5>2. Refill(f, rate, Burst, (f.last + w) - 1).tokens
                   = LesserOf(f.tokens, Burst * NANO)
            BY <5>1, <3>4 DEF Refill, Buckets
          <5> QED BY <5>2, <3>1, <3>5, <3>8 DEF LesserOf
        <4>2. CASE w # 1
          <5>1. (f.last + w) - 1 > f.last /\ ((f.last + w) - 1) - f.last = w - 1
            BY <4>2, <3>6, <3>8
          <5>2. Refill(f, rate, Burst, (f.last + w) - 1).tokens
                   = LesserOf(f.tokens + (w - 1) * rate, Burst * NANO)
            BY <5>1 DEF Refill
          <5>3. f.tokens + (w - 1) * rate < need
            BY <3>1, <3>6, <3>8, <3>9
          <5> QED BY <5>2, <5>3, <3>1, <3>8, <3>9 DEF LesserOf
        <4> QED BY <4>1, <4>2
      <3>13. /\ bucket' = f /\ rate' = rate /\ asked'.at = f.last + w
             /\ asked'.bytes * NANO = need
        BY <3>2, <3>5 DEF need
      <3>14. asked'.at > bucket'.last
        BY <3>6, <3>8, <3>13
      <3>15. Refill(bucket', rate', Burst, asked'.at).tokens >= asked'.bytes * NANO
        BY <3>11, <3>13
      <3>16. Refill(bucket', rate', Burst, asked'.at - 1).tokens < asked'.bytes * NANO
        BY <3>12, <3>13
      <3> QED BY <3>14, <3>15, <3>16
    <2>3. CASE Tick \/ OpenWindow
      BY <2>1, <2>3 DEF Tick, OpenWindow
    <2>4. CASE UNCHANGED vars
      BY <2>1, <2>4 DEF vars
    <2> QED BY <2>2, <2>3, <2>4 DEF Next
  <1>3. Spec => [](TypeOK /\ BucketInv)
    BY InitHolds, StepHolds, PTL DEF Spec
  <1> QED BY <1>1, <1>2, <1>3, PTL DEF Spec

(* The bucket's instant only moves forward and never passes the real       *)
(* clock, whatever stale instants the streams charge with.                 *)
THEOREM ClockForward == Spec => BucketClockForward
  <1>1. Spec => [](TypeOK /\ BucketInv)
    BY InitHolds, StepHolds, PTL DEF Spec
  <1>2. TypeOK /\ BucketInv /\ (TypeOK /\ BucketInv)' /\ [Next]_vars
          => [bucket'.last >= bucket.last /\ bucket'.last <= clock']_vars
    <2> SUFFICES ASSUME TypeOK, BucketInv, TypeOK', BucketInv', Next
                 PROVE  bucket'.last >= bucket.last /\ bucket'.last <= clock'
      OBVIOUS
    <2>1. bucket'.last <= clock'
      BY DEF BucketInv
    <2>2. CASE Tick \/ OpenWindow
      <3>1. bucket' = bucket
        BY <2>2 DEF Tick, OpenWindow
      <3> QED BY <2>1, <3>1 DEF TypeOK, Buckets
    <2>3. ASSUME NEW bytes \in UnitBytes, NEW now \in 0..clock, ChargeUnit(bytes, now)
          PROVE  bucket'.last >= bucket.last
      <3> DEFINE c == Charge(bucket, rate, Burst, bytes, now)
                 f == Refill(bucket, rate, Burst, now)
      <3>1. bytes \in Nat /\ now \in Nat /\ Burst \in Nat
        BY ClientsAssumption DEF TypeOK
      <3>2. bucket' = c.bucket
        BY <2>3 DEF ChargeUnit
      <3>3. CASE rate = Unlimited
        <4>1. c.bucket = bucket
          BY <3>3 DEF Charge
        <4> QED BY <3>2, <4>1 DEF TypeOK, Buckets
      <3>4. CASE rate \in Nat
        <4>0. bucket \in Buckets /\ bucket.tokens <= Burst * NANO
          BY DEF TypeOK, BucketInv
        <4>1. f \in Buckets /\ f.last >= bucket.last
          BY <3>1, <3>4, <4>0, RefillFacts
        <4>2. /\ c.grant = "Now" => c.bucket = [f EXCEPT !.tokens = @ - bytes * NANO]
              /\ c.grant # "Now" => c.bucket = f
          BY <3>1, <3>4, <4>0, ChargeFacts
        <4> HIDE DEF c, f
        <4>3. c.bucket.last = f.last
          BY <4>1, <4>2 DEF Buckets
        <4> QED BY <3>2, <4>1, <4>3
      <3> QED BY <3>3, <3>4, ClientsAssumption DEF TypeOK
    <2> QED BY <2>1, <2>2, <2>3 DEF Next
  <1> QED BY <1>1, <1>2, PTL DEF Spec, BucketClockForward
=============================================================================
