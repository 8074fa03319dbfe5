------------------------- MODULE TokenBucketLemmas -------------------------
(***************************************************************************)
(* What charge does to one bucket, for every rate, burst, unit size and    *)
(* clock reading.  The proofs about the bucket's clients and about the     *)
(* scheduler rest on these facts.                                          *)
(***************************************************************************)
EXTENDS TokenBucket, TLAPS

(* Products of naturals are naturals, distribute, and are monotonic: the   *)
(* facts of nonlinear arithmetic the other proofs cite.                    *)
LEMMA Products ==
    ASSUME NEW a \in Nat, NEW b \in Nat, NEW c \in Nat
    PROVE  /\ a * b \in Nat
           /\ a * (b + c) = a * b + a * c
           /\ (b + c) * a = b * a + c * a
           /\ b <= c => b * a <= c * a
           /\ a * b = b * a
  <1>1. /\ a * b \in Nat
        /\ a * (b + c) = a * b + a * c
        /\ (b + c) * a = b * a + c * a
        /\ a * b = b * a
    OBVIOUS
  <1>2. b <= c => b * a <= c * a
    <2>1. SUFFICES ASSUME b <= c PROVE b * a <= c * a
      OBVIOUS
    <2>2. PICK d \in Nat : c = b + d
      <3>1. c - b \in Nat /\ c = b + (c - b)
        BY <2>1
      <3> QED BY <3>1
    <2>3. c * a = b * a + d * a
      BY <2>2
    <2>4. d * a \in Nat /\ b * a \in Nat
      OBVIOUS
    <2> QED BY <2>3, <2>4
  <1> QED BY <1>1, <1>2

(* What a refill does: it stays a bucket, never overfills, moves the       *)
(* instant to the later of the two, and adds at most what the elapsed time *)
(* is worth.                                                               *)
LEMMA RefillFacts ==
    ASSUME NEW b \in Buckets, NEW r \in Nat, NEW burst \in Nat, NEW now \in Nat,
           b.tokens <= burst * NANO
    PROVE  LET f == Refill(b, r, burst, now)
           IN  /\ f \in Buckets
               /\ f.tokens <= burst * NANO
               /\ f.last >= b.last /\ f.last >= now
               /\ f.last = b.last \/ f.last = now
               /\ f.tokens <= b.tokens + r * (f.last - b.last)
  <1>0. burst * NANO \in Nat /\ NANO \in Nat
    BY BucketAssumption, Products
  <1>1. CASE now > b.last
    <2>1. (now - b.last) * r \in Nat /\ r * (now - b.last) = (now - b.last) * r
      <3>1. now - b.last \in Nat
        BY <1>1 DEF Buckets
      <3> QED BY <3>1, Products
    <2> QED BY <1>0, <1>1, <2>1 DEF Refill, LesserOf, Buckets
  <1>2. CASE ~(now > b.last)
    <2>1. r * 0 = 0
      OBVIOUS
    <2>2. Refill(b, r, burst, now) = [b EXCEPT !.tokens = b.tokens]
      BY <1>0, <1>2 DEF Refill, LesserOf, Buckets
    <2> QED BY <1>0, <1>2, <2>1, <2>2 DEF Buckets
  <1> QED BY <1>1, <1>2

(* What a charge against a limited bucket does: a grant debits exactly the *)
(* unit from the refilled bucket, a refusal debits nothing.                *)
LEMMA ChargeFacts ==
    ASSUME NEW b \in Buckets, NEW r \in Nat, NEW burst \in Nat,
           NEW bytes \in Nat, NEW now \in Nat,
           b.tokens <= burst * NANO
    PROVE  LET c == Charge(b, r, burst, bytes, now)
               f == Refill(b, r, burst, now)
           IN  /\ c.grant \in {"Now", "Later", "Never", "LargerThanBurst"}
               /\ c.grant = "Now" =>
                     /\ f.tokens >= bytes * NANO
                     /\ c.bucket = [f EXCEPT !.tokens = @ - bytes * NANO]
                     /\ c.at = now
               /\ c.grant # "Now" => c.bucket = f
               /\ c.grant \in {"Never", "LargerThanBurst"} => c.at = now
               /\ c.grant = "Later" =>
                     /\ r # 0
                     /\ bytes <= burst
                     /\ f.tokens < bytes * NANO
                     /\ c.at = f.last + WaitFor(f, r, bytes)
  <1> DEFINE f == Refill(b, r, burst, now)
             c == Charge(b, r, burst, bytes, now)
             need == bytes * NANO
             w == WaitFor(f, r, bytes)
  <1>1. r # Unlimited
    BY BucketAssumption
  <1>2. f \in Buckets /\ need \in Nat
    BY RefillFacts, Products, BucketAssumption
  <1>3. CASE f.tokens >= need
    <2>1. c = [grant |-> "Now", at |-> now, bucket |-> [f EXCEPT !.tokens = @ - need]]
      BY <1>1, <1>3 DEF Charge
    <2> QED BY <2>1, <1>3
  <1>4. CASE ~(f.tokens >= need)
    <2>0. f.tokens < need
      BY <1>2, <1>4 DEF Buckets
    <2>1. CASE r = 0
      <3>1. c = [grant |-> "Never", bucket |-> f, at |-> now]
        BY <1>1, <1>4, <2>1 DEF Charge
      <3> QED BY <3>1
    <2>2. CASE r # 0 /\ bytes > burst
      <3>1. c = [grant |-> "LargerThanBurst", bucket |-> f, at |-> now]
        BY <1>1, <1>4, <2>2 DEF Charge
      <3> QED BY <3>1
    <2>3. CASE r # 0 /\ ~(bytes > burst) /\ w > MaxWait
      <3>1. c = [grant |-> "Never", bucket |-> f, at |-> now]
        BY <1>1, <1>4, <2>3 DEF Charge
      <3> QED BY <3>1
    <2>4. CASE r # 0 /\ ~(bytes > burst) /\ ~(w > MaxWait)
      <3>1. c = [grant |-> "Later", bucket |-> f, at |-> f.last + w]
        BY <1>1, <1>4, <2>4 DEF Charge
      <3>2. bytes <= burst
        BY <2>4
      <3> QED BY <3>1, <3>2, <2>0, <2>4
    <2> QED BY <2>1, <2>2, <2>3, <2>4
  <1> QED BY <1>3, <1>4

(* The ceiling division: the wait it yields covers the deficit, and one    *)
(* tick less does not.                                                     *)
LEMMA CeilFacts ==
    ASSUME NEW d \in Nat, d > 0, NEW r \in Nat, r > 0
    PROVE  LET w == (d + r - 1) \div r
           IN  /\ w \in Nat
               /\ w > 0
               /\ w * r >= d
               /\ (w - 1) * r < d
  <1> DEFINE n == d + r - 1
             w == n \div r
  <1>1. n \in Nat /\ n >= r
    OBVIOUS
  <1>2. w \in Int /\ n = r * w + (n % r) /\ n % r \in 0..(r - 1)
    BY <1>1, SMTT(30)
  <1>3. r * w > d - 1 /\ r * w <= n
    BY <1>1, <1>2
  <1>4. w > 0
    <2>1. r * w > 0
      BY <1>3
    <2> QED BY <2>1, <1>2, SMTT(30)
  <1>5. w * r = r * w /\ (w - 1) * r = r * w - r
    BY <1>2
  <1> QED BY <1>2, <1>3, <1>4, <1>5

(* A charge, limited or not, leaves a bucket that is not overfull, and the *)
(* instant a Later answer names lies after the clock reading.              *)
LEMMA ChargeKeepsBucket ==
    ASSUME NEW b \in Buckets, NEW r \in Nat \union {Unlimited}, NEW burst \in Nat,
           NEW bytes \in Nat, NEW now \in Nat,
           b.tokens <= burst * NANO
    PROVE  LET c == Charge(b, r, burst, bytes, now)
           IN  /\ c.bucket \in Buckets /\ c.bucket.tokens <= burst * NANO
               /\ c.at \in Nat
               /\ c.grant = "Later" => c.at > now
  <1> DEFINE f == Refill(b, r, burst, now)
             c == Charge(b, r, burst, bytes, now)
             need == bytes * NANO
  <1>0. need \in Nat /\ burst * NANO \in Nat
    BY Products, BucketAssumption
  <1>1. CASE r = Unlimited
    <2>1. c = [grant |-> "Now", bucket |-> b, at |-> now]
      BY <1>1 DEF Charge
    <2> QED BY <2>1
  <1>2. CASE r \in Nat
    <2>1. f \in Buckets /\ f.tokens <= burst * NANO /\ f.last >= now
      BY <1>2, RefillFacts
    <2>2. /\ c.grant \in {"Now", "Later", "Never", "LargerThanBurst"}
          /\ c.grant = "Now" =>
                /\ f.tokens >= bytes * NANO
                /\ c.bucket = [f EXCEPT !.tokens = @ - bytes * NANO]
                /\ c.at = now
          /\ c.grant # "Now" => c.bucket = f
          /\ c.grant \in {"Never", "LargerThanBurst"} => c.at = now
          /\ c.grant = "Later" =>
                /\ r # 0
                /\ bytes <= burst
                /\ f.tokens < bytes * NANO
                /\ c.at = f.last + WaitFor(f, r, bytes)
      BY <1>2, ChargeFacts
    <2>3. CASE c.grant = "Now"
      BY <1>0, <2>1, <2>2, <2>3 DEF Buckets
    <2>4. CASE c.grant \in {"Never", "LargerThanBurst"}
      BY <2>1, <2>2, <2>4
    <2>5. CASE c.grant = "Later"
      <3> DEFINE d == need - f.tokens
      <3>1. d \in Nat /\ d > 0 /\ r > 0
        BY <1>0, <1>2, <2>1, <2>2, <2>5 DEF Buckets
      <3> HIDE DEF d
      <3>2. (d + r - 1) \div r \in Nat /\ (d + r - 1) \div r > 0
        BY <1>2, <3>1, CeilFacts
      <3>3. WaitFor(f, r, bytes) = (d + r - 1) \div r
        BY DEF WaitFor, d
      <3> QED BY <2>1, <2>2, <2>5, <3>2, <3>3 DEF Buckets
    <2> QED BY <2>2, <2>3, <2>4, <2>5
  <1> QED BY <1>1, <1>2
=============================================================================
