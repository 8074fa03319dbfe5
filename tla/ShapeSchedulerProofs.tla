------------------------ MODULE ShapeSchedulerProofs ------------------------
(***************************************************************************)
(* What the scheduler and its streams keep for any number of streams,      *)
(* classes and buckets, any weights, rates and unit sizes.                 *)
(***************************************************************************)
EXTENDS ShapeScheduler, TokenBucketLemmas, FiniteSetTheorems

(* No bucket is overfull: what charge needs to be told of a bucket.        *)
Limits == \A b \in BucketIds : bucket[b].tokens <= Burst[b] * NANO

(* A head is never asked about before it is due, nor after its clamp.      *)
Arms ==
    \A s \in Streams : head[s] # NoHead =>
        /\ head[s].due <= deadline[s]
        /\ deadline[s] <= (IF head[s].due <= head[s].expires
                           THEN head[s].expires ELSE head[s].due)

SchedInv == TypeOK /\ Limits /\ Arms

(* A live gate is one that the next wake of its bucket finds: its class is *)
(* marked as parked, and a class of the bucket that ranks higher has       *)
(* demand.                                                                 *)
Gates ==
    \A s \in Streams : gate[s] = "live" =>
        /\ head[s].class \in Classes
        /\ parked[head[s].class]
        /\ \E j \in Classes : /\ BucketOf[j] = BucketOf[head[s].class]
                              /\ Priority[j] > Priority[head[s].class]
                              /\ demand[j] > 0

(* What class a may still be granted before class b: what is left of its   *)
(* round, and one round more only while b itself has credit to stop it.    *)
Allowance(a, b) == IF credits[b] > 0 THEN 2 * Weight[a] ELSE Weight[a]

Shares ==
    \A a, b \in Classes :
        /\ credits[a] <= Weight[a]
        /\ a \notin SameBucket(b) \/ a = b \/ demand[b] = 0 => ahead[a][b] = 0
        /\ ahead[a][b] + credits[a] <= Allowance(a, b)

-----------------------------------------------------------------------------
(* The units an action puts at the head of a queue are units.              *)
LEMMA UnitsAgedAreUnits ==
    ASSUME clock \in Nat
    PROVE  UnitsAged({0}) \subseteq Units /\ Behind \subseteq Units \union {NoHead}
  <1>1. ASSUME NEW ages \in SUBSET (0..MaxHold) PROVE UnitsAged(ages) \subseteq Units
    <2> SUFFICES ASSUME NEW u \in UnitsAged(ages) PROVE u \in Units
      OBVIOUS
    <2>1. /\ u \in [class : AllClasses, bytes : UnitBytes,
                    due : {clock + d : d \in Delays},
                    expires : {clock + MaxHold - age : age \in ages}]
      BY DEF UnitsAged
    <2>2. \A d \in Delays : clock + d \in Nat
      BY SchedulerAssumption
    <2>3. \A age \in ages : clock + MaxHold - age \in Nat
      BY SchedulerAssumption
    <2> QED BY <2>1, <2>2, <2>3 DEF Units
  <1>2. {0} \in SUBSET (0..MaxHold) /\ Ages \in SUBSET (0..MaxHold)
    BY SchedulerAssumption
  <1> QED BY <1>1, <1>2 DEF Behind

(* A queue has a head exactly if its head has a class.                     *)
LEMMA HeadFacts ==
    ASSUME NEW u \in Units \union {NoHead}
    PROVE  /\ u.class \in AllClasses \union {NoClass}
           /\ u.due \in Nat /\ u.expires \in Nat
           /\ u # NoHead => u.class \in AllClasses /\ u.bytes \in Nat
           /\ u.class \in Classes => u # NoHead
           /\ u.class = NoClass <=> u = NoHead
  <1>1. CASE u = NoHead
    BY <1>1, SchedulerAssumption DEF NoHead
  <1>2. CASE u \in Units
    <2>1. /\ u.class \in AllClasses /\ u.bytes \in Nat /\ u.due \in Nat /\ u.expires \in Nat
      BY <1>2, SchedulerAssumption DEF Units
    <2>2. u.class # NoClass /\ NoHead.class = NoClass
      BY <2>1, SchedulerAssumption DEF AllClasses, NoHead
    <2> QED BY <2>1, <2>2
  <1> QED BY <1>1, <1>2

LEMMA InitInv == Init => SchedInv
  <1> SUFFICES ASSUME Init PROVE SchedInv
    OBVIOUS
  <1>1. \A b \in BucketIds : Burst[b] * NANO \in Nat
    BY SchedulerAssumption, BucketAssumption, Products
  <1> USE DEF Init, NewBucket
  <1>2. Limits
    BY <1>1 DEF Limits
  <1>3. Arms
    BY DEF Arms
  <1>4. TypeOK
    BY <1>1, SchedulerAssumption DEF TypeOK, Buckets, AllClasses, NotAsking
  <1> QED BY <1>2, <1>3, <1>4 DEF SchedInv

(* The head of a queue that leaves for another: types and arms are kept.   *)
LEMMA AdvanceInv ==
    ASSUME SchedInv, NEW s \in Streams, NEW next \in Units \union {NoHead}, Advance(s, next)
    PROVE  /\ head' \in [Streams -> Units \union {NoHead}]
           /\ deadline' \in [Streams -> Nat]
           /\ Arms'
  <1>1. next.due \in Nat /\ next.expires \in Nat
    BY HeadFacts
  <1>2. /\ head' \in [Streams -> Units \union {NoHead}]
        /\ deadline' \in [Streams -> Nat]
    BY <1>1 DEF Advance, SchedInv, TypeOK
  <1>3. ASSUME NEW t \in Streams, head'[t] # NoHead
        PROVE  /\ head'[t].due <= deadline'[t]
               /\ deadline'[t] <= (IF head'[t].due <= head'[t].expires
                                   THEN head'[t].expires ELSE head'[t].due)
    <2>1. CASE t = s
      <3>1. head'[t] = next /\ deadline'[t] = next.due
        BY <2>1 DEF Advance, SchedInv, TypeOK
      <3> QED BY <1>1, <3>1
    <2>2. CASE t # s
      <3>1. head'[t] = head[t] /\ deadline'[t] = deadline[t]
        BY <2>2 DEF Advance, SchedInv, TypeOK
      <3> QED BY <1>3, <3>1 DEF SchedInv, Arms
    <2> QED BY <2>1, <2>2
  <1> QED BY <1>2, <1>3 DEF Arms

(* What acquire learns from the bucket of the head's class.                *)
LEMMA ChargedFacts ==
    ASSUME SchedInv, NEW s \in Streams, Paced(s)
    PROVE  /\ head[s].class \in Classes /\ BucketOf[head[s].class] \in BucketIds
           /\ head[s].due <= batch[s] /\ batch[s] < head[s].expires
           /\ batch[s] \in Nat
           /\ head[s] \in Units /\ head[s] # NoHead
           /\ Charged(s).bucket \in Buckets
           /\ Charged(s).bucket.tokens <= Burst[BucketOf[head[s].class]] * NANO
           /\ Charged(s).at \in Nat
           /\ Charged(s).grant = "Later" => Charged(s).at > batch[s]
  <1> DEFINE b == BucketOf[head[s].class]
  <1>1. /\ head[s].class \in Classes /\ head[s] # NoHead /\ batch[s] # NotAsking
        /\ head[s].due <= batch[s] /\ ~Expired(s)
    BY DEF Paced, Asking
  <1>2. /\ head[s] \in Units /\ batch[s] \in Nat /\ b \in BucketIds
    BY <1>1, SchedulerAssumption DEF SchedInv, TypeOK
  <1>3. head[s].bytes \in Nat /\ head[s].expires \in Nat
    BY <1>1, <1>2, HeadFacts
  <1>4. batch[s] < head[s].expires
    BY <1>1, <1>2, <1>3 DEF Expired
  <1>5. /\ bucket[b] \in Buckets /\ bucket[b].tokens <= Burst[b] * NANO
        /\ Rate[b] \in Nat \union {Unlimited} /\ Burst[b] \in Nat
    BY <1>2, SchedulerAssumption DEF SchedInv, TypeOK, Limits
  <1> DEFINE c == Charge(bucket[b], Rate[b], Burst[b], head[s].bytes, batch[s])
  <1>6. /\ c.bucket \in Buckets /\ c.bucket.tokens <= Burst[b] * NANO
        /\ c.at \in Nat
        /\ c.grant = "Later" => c.at > batch[s]
    BY <1>2, <1>3, <1>5, ChargeKeepsBucket
  <1>7. Charged(s) = c
    BY DEF Charged
  <1> HIDE DEF c
  <1> QED BY <1>1, <1>2, <1>4, <1>6, <1>7

(* Waking a bucket, or refilling a round, keeps the types.                 *)
LEMMA WakeTypes ==
    ASSUME TypeOK, NEW s \in Streams
    PROVE  /\ \A b : /\ WokenParked(b) \in [Classes -> BOOLEAN]
                     /\ Woken(b) \in [Streams -> {"none", "live", "released"}]
           /\ Refilled(head[s].class) \in [Classes -> Nat]
           /\ StartRound(s) => /\ parked' \in [Classes -> BOOLEAN]
                               /\ gate' \in [Streams -> {"none", "live", "released"}]
  <1>1. ASSUME NEW b PROVE WokenParked(b) \in [Classes -> BOOLEAN]
    BY DEF WokenParked
  <1>2. ASSUME NEW b PROVE Woken(b) \in [Streams -> {"none", "live", "released"}]
    BY DEF Woken, TypeOK
  <1>3. Refilled(head[s].class) \in [Classes -> Nat]
    BY SchedulerAssumption DEF Refilled, TypeOK
  <1>4. StartRound(s) => /\ parked' \in [Classes -> BOOLEAN]
                         /\ gate' \in [Streams -> {"none", "live", "released"}]
    <2> SUFFICES ASSUME StartRound(s)
                 PROVE  /\ parked' \in [Classes -> BOOLEAN]
                        /\ gate' \in [Streams -> {"none", "live", "released"}]
      OBVIOUS
    <2> DEFINE c == head[s].class
               w == Woken(BucketOf[c])
    <2>1. CASE RoundOver(c)
      <3>1. w \in [Streams -> {"none", "live", "released"}]
        BY <1>2
      <3>2. parked' = WokenParked(BucketOf[c]) /\ gate' = [w EXCEPT ![s] = "none"]
        BY <2>1 DEF StartRound
      <3> HIDE DEF w
      <3> QED BY <1>1, <3>1, <3>2
    <2>2. CASE ~RoundOver(c)
      <3>1. parked' = parked /\ gate' = [gate EXCEPT ![s] = "none"]
        BY <2>2 DEF StartRound
      <3> QED BY <3>1 DEF TypeOK
    <2> QED BY <2>1, <2>2
  <1> QED BY <1>1, <1>2, <1>3, <1>4

-----------------------------------------------------------------------------
(* Every action keeps the types, the limits and the arms. *)

LEMMA DemandSteps ==
    ASSUME SchedInv, NEW s \in Streams, Sync(s)
    PROVE  SchedInv'
  <1>0. TypeOK /\ Limits /\ Arms
    BY DEF SchedInv
  <1>1. /\ bucket' = bucket /\ head' = head /\ deadline' = deadline /\ clock' = clock
        /\ enabled' = enabled /\ credits' = credits /\ batch' = batch
    BY DEF Sync, DeclareDemand, WithdrawDemand
  <1>2. Limits' /\ Arms'
    BY <1>0, <1>1 DEF Limits, Arms
  <1>3. CASE DeclareDemand(s)
    <2>1. Wanted(s) \in AllClasses \union {NoClass}
      BY <1>0, HeadFacts DEF Wanted, TypeOK
    <2>2. /\ declared' = [declared EXCEPT ![s] = Wanted(s)]
          /\ demand' = IF Wanted(s) \in Classes
                       THEN [demand EXCEPT ![Wanted(s)] = demand[Wanted(s)] + 1] ELSE demand
          /\ parked' = parked /\ gate' = gate /\ ahead' = ahead
      BY <1>3 DEF DeclareDemand
    <2>3. demand' \in [Classes -> Nat]
      BY <1>0, <2>2 DEF TypeOK
    <2> QED BY <1>0, <1>1, <1>2, <2>1, <2>2, <2>3 DEF SchedInv, TypeOK
  <1>4. CASE WithdrawDemand(s)
    <2> DEFINE c == declared[s]
    <2>1. /\ declared' = [declared EXCEPT ![s] = NoClass]
          /\ c \in Classes =>
               /\ demand' = [demand EXCEPT ![c] = IF demand[c] = 0 THEN 0 ELSE demand[c] - 1]
               /\ parked' = WokenParked(BucketOf[c])
               /\ gate' = Woken(BucketOf[c])
               /\ ahead' = [a \in Classes |->
                              [ahead[a] EXCEPT ![c] = IF demand'[c] = 0 THEN 0 ELSE ahead[a][c]]]
          /\ c \notin Classes =>
               demand' = demand /\ parked' = parked /\ gate' = gate /\ ahead' = ahead
      BY <1>4 DEF WithdrawDemand
    <2>2. declared' \in [Streams -> AllClasses \union {NoClass}]
      BY <1>0, <2>1 DEF TypeOK
    <2>3. demand' \in [Classes -> Nat]
      <3> DEFINE n == IF demand[c] = 0 THEN 0 ELSE demand[c] - 1
      <3>1. c \in Classes => demand' = [demand EXCEPT ![c] = n]
        BY <2>1
      <3>2. c \notin Classes => demand' = demand
        BY <2>1
      <3>3. c \in Classes => n \in Nat
        BY <1>0 DEF TypeOK
      <3> HIDE DEF n, c
      <3> QED BY <1>0, <3>1, <3>2, <3>3 DEF TypeOK
    <2>4. parked' \in [Classes -> BOOLEAN] /\ gate' \in [Streams -> {"none", "live", "released"}]
      BY <1>0, <2>1, WakeTypes DEF TypeOK
    <2>5. ahead' \in [Classes -> [Classes -> Nat]]
      BY <1>0, <2>1 DEF TypeOK
    <2> QED BY <1>0, <1>1, <1>2, <2>2, <2>3, <2>4, <2>5 DEF SchedInv, TypeOK
  <1> QED BY <1>3, <1>4 DEF Sync

LEMMA HeadSteps ==
    ASSUME SchedInv, NEW s \in Streams,
           \/ PushHead(s) \/ Wake(s) \/ EndBatch(s)
           \/ ExpireHead(s) \/ AcquireUnpaced(s) \/ ClearQueue(s)
    PROVE  SchedInv'
  <1>0. TypeOK /\ Limits /\ Arms
    BY DEF SchedInv
  <1>1. /\ bucket' = bucket /\ demand' = demand /\ credits' = credits /\ parked' = parked
        /\ clock' = clock /\ enabled' = enabled /\ declared' = declared /\ ahead' = ahead
    BY DEF PushHead, Wake, EndBatch, ExpireHead, AcquireUnpaced, ClearQueue, schedVars
  <1>2. Limits'
    BY <1>0, <1>1 DEF Limits
  <1>3. gate' \in [Streams -> {"none", "live", "released"}]
    BY <1>0 DEF PushHead, Wake, EndBatch, ExpireHead, AcquireUnpaced, ClearQueue, TypeOK
  <1>4. batch' \in [Streams -> Nat \union {NotAsking}]
    BY <1>0 DEF PushHead, Wake, EndBatch, ExpireHead, AcquireUnpaced, ClearQueue, TypeOK
  <1>5. CASE Wake(s) \/ EndBatch(s)
    <2>1. head' = head /\ deadline' = deadline
      BY <1>5 DEF Wake, EndBatch
    <2>2. Arms'
      BY <1>0, <2>1 DEF Arms
    <2> QED BY <1>0, <1>1, <1>2, <1>3, <1>4, <2>1, <2>2 DEF SchedInv, TypeOK
  <1>6. CASE PushHead(s) \/ ExpireHead(s) \/ AcquireUnpaced(s) \/ ClearQueue(s)
    <2>1. PICK next \in Units \union {NoHead} : Advance(s, next)
      <3>1. UnitsAged({0}) \subseteq Units /\ Behind \subseteq Units \union {NoHead}
        BY <1>0, UnitsAgedAreUnits DEF TypeOK
      <3>2. CASE PushHead(s)
        BY <3>1, <3>2 DEF PushHead, Advance
      <3>3. CASE ExpireHead(s)
        BY <3>1, <3>3 DEF ExpireHead
      <3>4. CASE AcquireUnpaced(s)
        BY <3>1, <3>4 DEF AcquireUnpaced
      <3>5. CASE ClearQueue(s)
        BY <3>5 DEF ClearQueue
      <3> QED BY <1>6, <3>2, <3>3, <3>4, <3>5
    <2>2. /\ head' \in [Streams -> Units \union {NoHead}]
          /\ deadline' \in [Streams -> Nat] /\ Arms'
      BY <2>1, AdvanceInv
    <2> QED BY <1>0, <1>1, <1>2, <1>3, <1>4, <2>2 DEF SchedInv, TypeOK
  <1> QED BY <1>5, <1>6

LEMMA AcquireSteps ==
    ASSUME SchedInv, NEW s \in Streams,
           AcquireStarved(s) \/ AcquireNow(s) \/ AcquireDry(s)
    PROVE  SchedInv'
  <1> DEFINE c == head[s].class
  <1>0. TypeOK /\ Limits /\ Arms
    BY DEF SchedInv
  <1>1. Paced(s)
    BY DEF AcquireStarved, AcquireNow, AcquireDry
  <1>2. /\ c \in Classes /\ BucketOf[c] \in BucketIds
        /\ head[s].due <= batch[s] /\ batch[s] < head[s].expires /\ batch[s] \in Nat
        /\ head[s] \in Units /\ head[s] # NoHead
        /\ Charged(s).bucket \in Buckets
        /\ Charged(s).bucket.tokens <= Burst[BucketOf[c]] * NANO
        /\ Charged(s).at \in Nat
        /\ Charged(s).grant = "Later" => Charged(s).at > batch[s]
    BY <1>1, ChargedFacts
  <1>3. head[s].due \in Nat /\ head[s].expires \in Nat
    BY <1>2, HeadFacts
  <1>4. /\ clock' = clock /\ enabled' = enabled /\ declared' = declared /\ demand' = demand
    BY DEF AcquireStarved, AcquireNow, AcquireDry
  (* A bucket that was charged. *)
  <1>5. ASSUME bucket' = [bucket EXCEPT ![BucketOf[c]] = Charged(s).bucket]
        PROVE  bucket' \in [BucketIds -> Buckets] /\ Limits'
    <2>1. bucket' \in [BucketIds -> Buckets]
      BY <1>0, <1>2, <1>5 DEF TypeOK
    <2>2. \A b \in BucketIds : bucket'[b] = IF b = BucketOf[c] THEN Charged(s).bucket ELSE bucket[b]
      BY <1>0, <1>2, <1>5 DEF TypeOK
    <2>3. ASSUME NEW b \in BucketIds PROVE bucket'[b].tokens <= Burst[b] * NANO
      BY <1>0, <1>2, <2>2 DEF Limits
    <2> QED BY <2>1, <2>3 DEF Limits
  (* A head that stays and is armed for a time up to its clamp. *)
  <1>6. ASSUME NEW at \in Nat, head' = head, deadline' = [deadline EXCEPT ![s] = at],
               head[s].due <= at, at <= head[s].expires
        PROVE  deadline' \in [Streams -> Nat] /\ Arms'
    <2>1. deadline' \in [Streams -> Nat]
      BY <1>0, <1>6 DEF TypeOK
    <2>2. ASSUME NEW t \in Streams, head'[t] # NoHead
          PROVE  /\ head'[t].due <= deadline'[t]
                 /\ deadline'[t] <= (IF head'[t].due <= head'[t].expires
                                     THEN head'[t].expires ELSE head'[t].due)
      <3>1. CASE t = s
        <4>1. deadline'[t] = at /\ head'[t] = head[s]
          BY <1>0, <1>6, <3>1 DEF TypeOK
        <4> QED BY <1>3, <1>6, <4>1
      <3>2. CASE t # s
        <4>1. deadline'[t] = deadline[t] /\ head'[t] = head[t]
          BY <1>0, <1>6, <3>2 DEF TypeOK
        <4> QED BY <1>0, <2>2, <4>1 DEF Arms
      <3> QED BY <3>1, <3>2
    <2> QED BY <2>1, <2>2 DEF Arms
  <1>7. CASE AcquireStarved(s)
    <2>1. /\ parked' = [parked EXCEPT ![c] = TRUE] /\ gate' = [gate EXCEPT ![s] = "live"]
          /\ deadline' = [deadline EXCEPT ![s] = head[s].expires]
          /\ batch' = [batch EXCEPT ![s] = NotAsking]
          /\ bucket' = bucket /\ credits' = credits /\ head' = head /\ ahead' = ahead
      BY <1>7 DEF AcquireStarved
    <2>2. deadline' \in [Streams -> Nat] /\ Arms'
      <3>1. head[s].due <= head[s].expires /\ head[s].expires <= head[s].expires
        BY <1>2, <1>3
      <3> QED BY <1>3, <1>6, <2>1, <3>1
    <2>3. Limits'
      BY <1>0, <2>1 DEF Limits
    <2> QED BY <1>0, <1>4, <2>1, <2>2, <2>3 DEF SchedInv, TypeOK
  <1>8. CASE AcquireNow(s)
    <2>1. bucket' = [bucket EXCEPT ![BucketOf[c]] = Charged(s).bucket] /\ batch' = batch
      BY <1>8 DEF AcquireNow
    <2>2. bucket' \in [BucketIds -> Buckets] /\ Limits'
      BY <1>5, <2>1
    <2>3. credits' \in [Classes -> Nat]
      <3> DEFINE r == Refilled(c)
      <3>1. r \in [Classes -> Nat]
        BY <1>0, WakeTypes
      <3> DEFINE n == IF r[c] = 0 THEN 0 ELSE r[c] - 1
      <3>2. credits' = IF Discipline = "WeightedRoundRobin"
                       THEN [r EXCEPT ![c] = n] ELSE credits
        BY <1>8 DEF AcquireNow
      <3> HIDE DEF r
      <3>3. n \in Nat
        BY <1>2, <3>1
      <3> HIDE DEF n
      <3> QED BY <1>0, <1>2, <3>1, <3>2, <3>3 DEF TypeOK
    <2>4. parked' \in [Classes -> BOOLEAN] /\ gate' \in [Streams -> {"none", "live", "released"}]
      BY <1>0, <1>8, WakeTypes DEF AcquireNow
    <2>5. ahead' \in [Classes -> [Classes -> Nat]]
      BY <1>0, <1>8 DEF AcquireNow, TypeOK
    <2>6. PICK next \in Behind : Advance(s, next)
      BY <1>8 DEF AcquireNow
    <2>7. next \in Units \union {NoHead}
      BY <1>0, UnitsAgedAreUnits DEF TypeOK
    <2>8. /\ head' \in [Streams -> Units \union {NoHead}]
          /\ deadline' \in [Streams -> Nat] /\ Arms'
      BY <2>6, <2>7, AdvanceInv
    <2> QED BY <1>0, <1>4, <2>1, <2>2, <2>3, <2>4, <2>5, <2>8 DEF SchedInv, TypeOK
  <1>9. CASE AcquireDry(s)
    <2> DEFINE at == IF Charged(s).grant = "Later"
                     THEN LesserOf(Charged(s).at, head[s].expires) ELSE head[s].expires
    <2>1. /\ bucket' = [bucket EXCEPT ![BucketOf[c]] = Charged(s).bucket]
          /\ credits' = Refilled(c) /\ StartRound(s)
          /\ deadline' = [deadline EXCEPT ![s] = at]
          /\ batch' = [batch EXCEPT ![s] = NotAsking]
          /\ head' = head /\ ahead' = ahead
      BY <1>9 DEF AcquireDry
    <2>2. at \in Nat /\ head[s].due <= at /\ at <= head[s].expires
      BY <1>2, <1>3 DEF LesserOf
    <2> HIDE DEF at
    <2>3. deadline' \in [Streams -> Nat] /\ Arms'
      BY <1>6, <2>1, <2>2
    <2>4. bucket' \in [BucketIds -> Buckets] /\ Limits'
      BY <1>5, <2>1
    <2>5. credits' \in [Classes -> Nat]
      BY <1>0, <2>1, WakeTypes
    <2>6. parked' \in [Classes -> BOOLEAN] /\ gate' \in [Streams -> {"none", "live", "released"}]
      BY <1>0, <2>1, WakeTypes
    <2>7. batch' \in [Streams -> Nat \union {NotAsking}]
      BY <1>0, <2>1 DEF TypeOK
    <2> QED BY <1>0, <1>4, <2>1, <2>3, <2>4, <2>5, <2>6, <2>7 DEF SchedInv, TypeOK
  <1> QED BY <1>7, <1>8, <1>9

LEMMA StepInv == SchedInv /\ [Next]_vars => SchedInv'
  <1> SUFFICES ASSUME SchedInv, [Next]_vars PROVE SchedInv'
    OBVIOUS
  <1>1. CASE \E s \in Streams : \/ Sync(s) \/ PushHead(s) \/ Wake(s) \/ EndBatch(s)
                                \/ Ask(s) \/ ClearQueue(s)
    BY <1>1, DemandSteps, HeadSteps, AcquireSteps DEF Ask
  <1>2. CASE SwitchPacing \/ Tick \/ UNCHANGED vars
    <2>1. /\ UNCHANGED <<schedVars, streamVars, ahead>>
          /\ clock' \in Nat
          /\ enabled' \in BOOLEAN
      <3>1. CASE SwitchPacing
        BY <3>1 DEF SwitchPacing, SchedInv, TypeOK
      <3>2. CASE Tick
        BY <3>2 DEF Tick, SchedInv, TypeOK
      <3>3. CASE UNCHANGED vars
        BY <3>3 DEF vars, SchedInv, TypeOK
      <3> QED BY <1>2, <3>1, <3>2, <3>3
    <2>2. Limits' /\ Arms'
      BY <2>1 DEF SchedInv, Limits, Arms, schedVars, streamVars
    <2> QED BY <2>1, <2>2 DEF SchedInv, TypeOK, schedVars, streamVars
  <1> QED BY <1>1, <1>2 DEF Next

-----------------------------------------------------------------------------
(* The theorems. *)

LEMMA InvHolds == Spec => []SchedInv
  BY InitInv, StepInv, PTL DEF Spec

(* Every variable of the scheduler and of its streams keeps its type,      *)
(* however the lock sections of acquire, declare_demand and                *)
(* withdraw_demand interleave.                                             *)
THEOREM TypeCorrect == Spec => []TypeOK
  <1>1. SchedInv => TypeOK
    BY DEF SchedInv
  <1> QED BY <1>1, InvHolds, PTL

(* A sleeping stream is asked again by its head's clamp, whatever the      *)
(* bucket and the discipline answered (park_head, arm_head).               *)
THEOREM NeverOversleepsHolds == Spec => []NeverOversleeps
  <1>1. SchedInv => NeverOversleeps
    BY DEF SchedInv, Arms, NeverOversleeps
  <1> QED BY <1>1, InvHolds, PTL

(* The demand the scheduler knows of is exactly what the queues declared,  *)
(* for any number of streams (declare_demand, withdraw_demand).            *)
THEOREM DemandExactHolds == Spec => []DemandExact
  <1> DEFINE Holders(c) == {s \in Streams : declared[s] = c}
  <1>1. Init => DemandExact
    <2> SUFFICES ASSUME Init, NEW c \in Classes PROVE demand[c] = Cardinality(Holders(c))
      BY DEF DemandExact
    <2>1. Holders(c) = {}
      BY SchedulerAssumption DEF Init
    <2>2. demand[c] = 0
      BY DEF Init
    <2> QED BY <2>1, <2>2, FS_EmptySet
  <1>2. SchedInv /\ DemandExact /\ [Next]_vars => DemandExact'
    <2> SUFFICES ASSUME SchedInv, DemandExact, [Next]_vars, NEW c \in Classes
                 PROVE  demand'[c] = Cardinality(Holders(c)')
      BY DEF DemandExact
    <2>0. /\ TypeOK /\ demand[c] = Cardinality(Holders(c))
          /\ IsFiniteSet(Holders(c)) /\ Cardinality(Holders(c)) \in Nat
      <3>1. Holders(c) \subseteq Streams
        OBVIOUS
      <3> QED BY <3>1, FS_Subset, FS_CardinalityType, SchedulerAssumption
              DEF SchedInv, DemandExact
    <2>1. ASSUME NEW s \in Streams, DeclareDemand(s)
          PROVE  demand'[c] = Cardinality(Holders(c)')
      <3>1. declared[s] = NoClass /\ NoClass # c
        BY <2>1, SchedulerAssumption DEF DeclareDemand
      <3>2. declared' = [declared EXCEPT ![s] = Wanted(s)]
        BY <2>1 DEF DeclareDemand
      <3>3. CASE Wanted(s) = c
        <4>1. Holders(c)' = Holders(c) \union {s} /\ s \notin Holders(c)
          BY <2>0, <3>1, <3>2, <3>3 DEF TypeOK
        <4>2. demand'[c] = demand[c] + 1
          BY <2>0, <2>1, <3>3 DEF DeclareDemand, TypeOK
        <4> QED BY <2>0, <4>1, <4>2, FS_AddElement
      <3>4. CASE Wanted(s) # c
        <4>1. Holders(c)' = Holders(c)
          BY <2>0, <3>1, <3>2, <3>4 DEF TypeOK
        <4>2. demand'[c] = demand[c]
          BY <2>0, <2>1, <3>4 DEF DeclareDemand, TypeOK
        <4> QED BY <2>0, <4>1, <4>2
      <3> QED BY <3>3, <3>4
    <2>2. ASSUME NEW s \in Streams, WithdrawDemand(s)
          PROVE  demand'[c] = Cardinality(Holders(c)')
      <3>1. declared' = [declared EXCEPT ![s] = NoClass] /\ NoClass # c
        BY <2>2, SchedulerAssumption DEF WithdrawDemand
      <3>2. CASE declared[s] = c
        <4>1. Holders(c)' = Holders(c) \ {s} /\ s \in Holders(c)
          BY <2>0, <3>1, <3>2 DEF TypeOK
        <4>2. Cardinality(Holders(c) \ {s}) = Cardinality(Holders(c)) - 1
          BY <2>0, <4>1, FS_RemoveElement
        <4>3. Cardinality(Holders(c)) # 0
          BY <2>0, <4>1, FS_EmptySet
        <4>4. demand' = [demand EXCEPT ![c] = IF demand[c] = 0 THEN 0 ELSE demand[c] - 1]
          BY <2>2, <3>2 DEF WithdrawDemand
        <4>5. demand'[c] = IF demand[c] = 0 THEN 0 ELSE demand[c] - 1
          BY <2>0, <4>4 DEF TypeOK
        <4> QED BY <2>0, <4>1, <4>2, <4>3, <4>5
      <3>3. CASE declared[s] # c
        <4>1. Holders(c)' = Holders(c)
          BY <2>0, <3>1, <3>3 DEF TypeOK
        <4>2. demand'[c] = demand[c]
          <5> DEFINE d == declared[s]
                     n == IF demand[d] = 0 THEN 0 ELSE demand[d] - 1
          <5>1. \/ demand' = demand
                \/ demand' = [demand EXCEPT ![d] = n]
            BY <2>2 DEF WithdrawDemand
          <5> HIDE DEF n
          <5> QED BY <2>0, <3>3, <5>1 DEF TypeOK
        <4> QED BY <2>0, <4>1, <4>2
      <3> QED BY <3>2, <3>3
    <2>3. CASE demand' = demand /\ declared' = declared
      BY <2>0, <2>3
    <2>4. \/ \E s \in Streams : DeclareDemand(s) \/ WithdrawDemand(s)
          \/ demand' = demand /\ declared' = declared
      BY DEF Next, Sync, PushHead, Wake, EndBatch, Ask, ExpireHead, AcquireUnpaced,
             AcquireStarved, AcquireNow, AcquireDry, ClearQueue, SwitchPacing, Tick,
             vars, schedVars, streamVars
    <2> QED BY <2>1, <2>2, <2>3, <2>4
  <1> QED BY <1>1, <1>2, InvHolds, PTL DEF Spec

(* Under strict priority a class is held back exactly by a higher one of   *)
(* its bucket that has demand.                                             *)
LEMMA HeldMeansOutranked ==
    ASSUME NEW c \in Classes
    PROVE  Discipline = "StrictPriority" =>
             (Held(c) <=> \E j \in Classes : /\ BucketOf[j] = BucketOf[c]
                                             /\ Priority[j] > Priority[c]
                                             /\ demand[j] > 0)
  <1>1. Priority[c] \in Nat
    BY SchedulerAssumption
  <1> QED BY <1>1 DEF Held, Outranked, Rivals, SameBucket

(* Under strict priority no wake is missed: whichever stream retires,      *)
(* expires, clears or changes its head, a stream on an unreleased gate has *)
(* a rival ahead of it (discipline_holds, wake_bucket).                    *)
THEOREM NoMissedWakeHolds ==
    ASSUME Discipline = "StrictPriority"
    PROVE  Spec => []NoMissedWake
  <1>1. Init => Gates
    BY DEF Init, Gates
  <1>2. SchedInv /\ Gates /\ [Next]_vars => Gates'
    <2> SUFFICES ASSUME SchedInv, Gates, [Next]_vars PROVE Gates'
      OBVIOUS
    <2>0. TypeOK
      BY DEF SchedInv
    (* Whoever is still on a live gate was on it before, and waits for what *)
    (* still wants to be sent.                                              *)
    <2>1. ASSUME \A t \in Streams : gate'[t] = "live" =>
                    /\ gate[t] = "live" /\ head'[t] = head[t]
                    /\ parked[head[t].class] => parked'[head[t].class]
                    /\ \A j \in Classes :
                          BucketOf[j] = BucketOf[head[t].class] /\ demand[j] > 0 => demand'[j] > 0
          PROVE  Gates'
      BY <2>1 DEF Gates
    <2>2. ASSUME NEW s \in Streams, DeclareDemand(s) PROVE Gates'
      <3>1. \A j \in Classes : demand[j] > 0 => demand'[j] > 0
        BY <2>0, <2>2 DEF DeclareDemand, TypeOK
      <3>2. gate' = gate /\ head' = head /\ parked' = parked
        BY <2>2 DEF DeclareDemand
      <3> QED BY <2>1, <3>1, <3>2
    <2>3. ASSUME NEW s \in Streams, WithdrawDemand(s) PROVE Gates'
      <3> DEFINE c == declared[s]
      <3>1. head' = head
        BY <2>3 DEF WithdrawDemand
      <3>2. CASE c \notin Classes
        <4>1. gate' = gate /\ parked' = parked /\ demand' = demand
          BY <2>3, <3>2 DEF WithdrawDemand
        <4> QED BY <2>1, <3>1, <4>1
      <3>3. CASE c \in Classes
        <4>1. /\ gate' = Woken(BucketOf[c]) /\ parked' = WokenParked(BucketOf[c])
              /\ demand' = [demand EXCEPT ![c] = IF demand[c] = 0 THEN 0 ELSE demand[c] - 1]
          BY <2>3, <3>3 DEF WithdrawDemand
        <4>2. \A j \in Classes : j # c => demand'[j] = demand[j]
          BY <2>0, <4>1 DEF TypeOK
        <4>3. ASSUME NEW t \in Streams, gate'[t] = "live"
              PROVE  /\ gate[t] = "live" /\ BucketOf[head[t].class] # BucketOf[c]
                     /\ head[t].class \in Classes
                     /\ parked'[head[t].class] = parked[head[t].class]
          <5>1. gate[t] = "live" /\ ~InBucket(head[t].class, BucketOf[c])
            BY <4>1, <4>3 DEF Woken, Gates
          <5>2. head[t].class \in Classes
            BY <5>1 DEF Gates
          <5>3. BucketOf[head[t].class] # BucketOf[c]
            BY <5>1, <5>2 DEF InBucket
          <5>4. parked' = [k \in Classes |-> parked[k] /\ BucketOf[k] # BucketOf[c]]
            BY <4>1 DEF WokenParked
          <5>5. parked[head[t].class] /\ parked'[head[t].class]
            BY <5>1, <5>2, <5>3, <5>4 DEF Gates
          <5>6. parked' \in [Classes -> BOOLEAN]
            BY <5>4
          <5> QED BY <2>0, <5>1, <5>2, <5>3, <5>5, <5>6 DEF TypeOK
        <4> QED BY <2>1, <3>1, <4>2, <4>3
      <3> QED BY <3>2, <3>3
    <2>4. ASSUME NEW s \in Streams, AcquireStarved(s) PROVE Gates'
      <3> DEFINE c == head[s].class
      <3>1. /\ parked' = [parked EXCEPT ![c] = TRUE] /\ gate' = [gate EXCEPT ![s] = "live"]
            /\ head' = head /\ demand' = demand /\ Held(c) /\ c \in Classes
        BY <2>4 DEF AcquireStarved, Paced
      <3>2. \E j \in Classes : /\ BucketOf[j] = BucketOf[c] /\ Priority[j] > Priority[c]
                               /\ demand[j] > 0
        BY <3>1, HeldMeansOutranked
      <3>3. ASSUME NEW t \in Streams, gate'[t] = "live"
            PROVE  /\ head[t].class \in Classes /\ parked'[head[t].class]
                   /\ \E j \in Classes : /\ BucketOf[j] = BucketOf[head[t].class]
                                         /\ Priority[j] > Priority[head[t].class]
                                         /\ demand[j] > 0
        <4>1. CASE t = s
          BY <2>0, <3>1, <3>2, <4>1 DEF TypeOK
        <4>2. CASE t # s
          <5>1. gate[t] = "live"
            BY <2>0, <3>1, <3>3, <4>2 DEF TypeOK
          <5>2. /\ head[t].class \in Classes /\ parked[head[t].class]
                /\ \E j \in Classes : /\ BucketOf[j] = BucketOf[head[t].class]
                                      /\ Priority[j] > Priority[head[t].class]
                                      /\ demand[j] > 0
            BY <5>1 DEF Gates
          <5>3. parked'[head[t].class]
            BY <2>0, <3>1, <5>2 DEF TypeOK
          <5> QED BY <5>2, <5>3
        <4> QED BY <4>1, <4>2
      <3> QED BY <3>1, <3>3 DEF Gates
    (* The other answers of acquire, and the steps that change a head. *)
    <2>5. ASSUME NEW s \in Streams,
                 \/ PushHead(s) \/ ExpireHead(s) \/ AcquireUnpaced(s) \/ AcquireNow(s)
                 \/ AcquireDry(s) \/ ClearQueue(s)
          PROVE  Gates'
      <3>1. \A c : ~RoundOver(c)
        BY DEF RoundOver
      <3>2. parked' = parked /\ demand' = demand
        BY <2>5, <3>1 DEF PushHead, ExpireHead, AcquireUnpaced, AcquireNow, AcquireDry,
                          ClearQueue, StartRound, schedVars
      <3>3. \A t \in Streams \ {s} : head'[t] = head[t]
        BY <2>0, <2>5 DEF PushHead, ExpireHead, AcquireUnpaced, AcquireNow, AcquireDry,
                          ClearQueue, Advance, TypeOK
      <3>4. \/ gate' = [gate EXCEPT ![s] = "none"]
            \/ gate' = gate /\ head[s] = NoHead
        BY <2>5, <3>1 DEF PushHead, ExpireHead, AcquireUnpaced, AcquireNow, AcquireDry,
                          ClearQueue, StartRound
      <3>5. gate'[s] # "live"
        <4>1. head[s] = NoHead => gate[s] # "live"
          BY <2>0, HeadFacts DEF Gates, TypeOK
        <4> QED BY <2>0, <3>4, <4>1 DEF TypeOK
      <3>6. \A t \in Streams \ {s} : gate'[t] = gate[t]
        BY <2>0, <3>4 DEF TypeOK
      <3> QED BY <2>1, <3>2, <3>3, <3>5, <3>6
    <2>6. CASE \/ \E s \in Streams : Wake(s) \/ EndBatch(s)
               \/ SwitchPacing \/ Tick \/ UNCHANGED vars
      <3>1. gate' = gate /\ head' = head /\ parked' = parked /\ demand' = demand
        BY <2>6 DEF Wake, EndBatch, SwitchPacing, Tick, vars, schedVars, streamVars
      <3> QED BY <2>1, <3>1
    <2> QED BY <2>2, <2>3, <2>4, <2>5, <2>6 DEF Next, Sync, Ask
  <1>3. Gates => NoMissedWake
    BY HeldMeansOutranked DEF Gates, NoMissedWake
  <1> QED BY <1>1, <1>2, <1>3, InvHolds, PTL DEF Spec

-----------------------------------------------------------------------------
(* A refill keeps the shares: it comes only when no rival with demand has  *)
(* credit, and then nobody is ahead of it by more than its weight.         *)
LEMMA RefillShares ==
    ASSUME TypeOK, Shares, Discipline = "WeightedRoundRobin",
           NEW c \in Classes, ~Held(c), NEW a \in Classes, NEW b \in Classes
    PROVE  /\ Refilled(c) \in [Classes -> Nat] /\ Refilled(c)[c] > 0
           /\ Refilled(c)[a] <= Weight[a]
           /\ ahead[a][b] + Refilled(c)[a] <=
                (IF Refilled(c)[b] > 0 THEN 2 * Weight[a] ELSE Weight[a])
  <1>0. /\ Weight[a] \in Nat /\ Weight[b] \in Nat /\ Weight[b] > 0 /\ Weight[c] \in Nat
        /\ Weight[c] > 0
        /\ credits[a] \in Nat /\ credits[b] \in Nat /\ credits[c] \in Nat
        /\ ahead[a][b] \in Nat /\ demand[b] \in Nat
    BY SchedulerAssumption DEF TypeOK
  <1>1. /\ credits[a] <= Weight[a]
        /\ BucketOf[a] # BucketOf[b] \/ a = b \/ demand[b] = 0 => ahead[a][b] = 0
        /\ ahead[a][b] + credits[a] <= (IF credits[b] > 0 THEN 2 * Weight[a] ELSE Weight[a])
    BY DEF Shares, Allowance, SameBucket
  <1>2. CASE RoundOver(c)
    <2>1. /\ credits[c] = 0
          /\ b # c /\ BucketOf[b] = BucketOf[c] /\ demand[b] > 0 => credits[b] = 0
      BY <1>0, <1>2 DEF RoundOver, OwesRound, Rivals, SameBucket
    <2>2. Refilled(c) = [j \in Classes |-> IF BucketOf[j] = BucketOf[c] THEN Weight[j] ELSE credits[j]]
      BY <1>2 DEF Refilled, SameBucket
    <2>3. Refilled(c) \in [Classes -> Nat] /\ Refilled(c)[c] > 0
      BY <1>0, <2>2, SchedulerAssumption DEF TypeOK
    <2>4. /\ Refilled(c)[a] = IF BucketOf[a] = BucketOf[c] THEN Weight[a] ELSE credits[a]
          /\ Refilled(c)[b] = IF BucketOf[b] = BucketOf[c] THEN Weight[b] ELSE credits[b]
      BY <2>2
    <2>5. CASE BucketOf[b] = BucketOf[c]
      <3>1. ahead[a][b] <= Weight[a]
        BY <1>0, <1>1, <2>1, <2>5
      <3> QED BY <1>0, <1>1, <2>3, <2>4, <2>5, <3>1
    <2>6. CASE BucketOf[b] # BucketOf[c]
      BY <1>0, <1>1, <2>3, <2>4, <2>6
    <2> QED BY <2>5, <2>6
  <1>3. CASE ~RoundOver(c)
    <2>1. Refilled(c) = credits
      BY <1>3 DEF Refilled
    <2>2. credits[c] > 0
      BY <1>0, <1>3 DEF RoundOver, Held
    <2> QED BY <1>0, <1>1, <2>1, <2>2 DEF TypeOK
  <1> QED BY <1>2, <1>3

LEMMA SharesInit == Init => Shares
  <1> SUFFICES ASSUME Init, NEW a \in Classes, NEW b \in Classes
               PROVE  /\ credits[a] <= Weight[a] /\ ahead[a][b] = 0
                      /\ ahead[a][b] + credits[a] <= Allowance(a, b)
    BY DEF Shares
  <1>1. Weight[a] \in Nat /\ credits[a] = Weight[a] /\ ahead[a][b] = 0
    BY SchedulerAssumption DEF Init
  <1> QED BY <1>1 DEF Allowance

LEMMA SharesStep ==
    ASSUME Discipline = "WeightedRoundRobin", SchedInv, Shares, [Next]_vars
    PROVE  Shares'
  <1>0. TypeOK
    BY DEF SchedInv
  <1> SUFFICES ASSUME NEW a \in Classes, NEW b \in Classes
               PROVE  /\ credits'[a] <= Weight[a]
                      /\ BucketOf[a] # BucketOf[b] \/ a = b \/ demand'[b] = 0 => ahead'[a][b] = 0
                      /\ ahead'[a][b] + credits'[a] <=
                           (IF credits'[b] > 0 THEN 2 * Weight[a] ELSE Weight[a])
    BY DEF Shares, Allowance, SameBucket
  <1>1. /\ credits[a] <= Weight[a]
        /\ BucketOf[a] # BucketOf[b] \/ a = b \/ demand[b] = 0 => ahead[a][b] = 0
        /\ ahead[a][b] + credits[a] <= (IF credits[b] > 0 THEN 2 * Weight[a] ELSE Weight[a])
    BY DEF Shares, Allowance, SameBucket
  <1>2. /\ Weight[a] \in Nat /\ Weight[b] \in Nat /\ credits[a] \in Nat /\ credits[b] \in Nat
        /\ ahead[a][b] \in Nat /\ demand[b] \in Nat
    BY <1>0, SchedulerAssumption DEF TypeOK
  <1>3. ASSUME NEW s \in Streams, DeclareDemand(s)
        PROVE  credits' = credits /\ ahead' = ahead /\ (demand'[b] = 0 => demand[b] = 0)
    BY <1>0, <1>2, <1>3 DEF DeclareDemand, TypeOK
  <1>4. ASSUME NEW s \in Streams, WithdrawDemand(s)
        PROVE  /\ credits' = credits
               /\ \/ ahead'[a][b] = ahead[a][b] /\ demand'[b] = demand[b]
                  \/ ahead'[a][b] = IF demand'[b] = 0 THEN 0 ELSE ahead[a][b]
    <2> DEFINE c == declared[s]
               n == IF demand[c] = 0 THEN 0 ELSE demand[c] - 1
    <2>1. /\ credits' = credits
          /\ \/ ahead' = ahead /\ demand' = demand
             \/ /\ c \in Classes
                /\ demand' = [demand EXCEPT ![c] = n]
                /\ ahead' = [x \in Classes |->
                               [ahead[x] EXCEPT ![c] = IF demand'[c] = 0 THEN 0 ELSE ahead[x][c]]]
      BY <1>4 DEF WithdrawDemand
    <2> HIDE DEF n, c
    <2>2. CASE ahead' = ahead /\ demand' = demand
      BY <2>1, <2>2
    <2>3. CASE /\ c \in Classes
               /\ demand' = [demand EXCEPT ![c] = n]
               /\ ahead' = [x \in Classes |->
                              [ahead[x] EXCEPT ![c] = IF demand'[c] = 0 THEN 0 ELSE ahead[x][c]]]
      <3>1. b # c => demand'[b] = demand[b]
        BY <1>0, <2>3 DEF TypeOK
      <3>2. ahead[a] \in [Classes -> Nat]
        BY <1>0 DEF TypeOK
      <3>3. ahead'[a][b] = IF b = c THEN (IF demand'[b] = 0 THEN 0 ELSE ahead[a][b]) ELSE ahead[a][b]
        BY <2>3, <3>2
      <3> QED BY <2>1, <3>1, <3>3
    <2> QED BY <2>1, <2>2, <2>3
  <1>5. ASSUME NEW s \in Streams, AcquireNow(s)
        PROVE  /\ credits'[a] <= Weight[a]
               /\ BucketOf[a] # BucketOf[b] \/ a = b \/ demand'[b] = 0 => ahead'[a][b] = 0
               /\ ahead'[a][b] + credits'[a] <=
                    (IF credits'[b] > 0 THEN 2 * Weight[a] ELSE Weight[a])
    <2> DEFINE c == head[s].class
               r == Refilled(c)
    <2>1. c \in Classes /\ ~Held(c) /\ demand' = demand
      BY <1>5 DEF AcquireNow, Paced
    <2>2. /\ r \in [Classes -> Nat] /\ r[c] > 0
          /\ r[a] <= Weight[a]
          /\ ahead[a][b] + r[a] <= (IF r[b] > 0 THEN 2 * Weight[a] ELSE Weight[a])
      BY <1>0, <2>1, RefillShares
    <2>3. credits' = [r EXCEPT ![c] = IF r[c] = 0 THEN 0 ELSE r[c] - 1]
      BY <1>5 DEF AcquireNow
    <2>4. ahead'[a][b] = IF b = c \/ demand[b] = 0 THEN 0
                         ELSE IF a = c /\ BucketOf[b] = BucketOf[c]
                         THEN ahead[a][b] + 1 ELSE ahead[a][b]
      BY <1>5, <2>1 DEF AcquireNow, SameBucket
    <2> HIDE DEF r, c
    <2>5. /\ credits'[a] = IF a = c THEN r[a] - 1 ELSE r[a]
          /\ credits'[b] = IF b = c THEN r[b] - 1 ELSE r[b]
          /\ r[a] \in Nat /\ r[b] \in Nat
      BY <2>1, <2>2, <2>3
    <2> QED BY <1>1, <1>2, <2>1, <2>2, <2>4, <2>5
  <1>6. ASSUME NEW s \in Streams, AcquireDry(s)
        PROVE  /\ credits'[a] <= Weight[a]
               /\ BucketOf[a] # BucketOf[b] \/ a = b \/ demand'[b] = 0 => ahead'[a][b] = 0
               /\ ahead'[a][b] + credits'[a] <=
                    (IF credits'[b] > 0 THEN 2 * Weight[a] ELSE Weight[a])
    <2> DEFINE c == head[s].class
               r == Refilled(c)
    <2>1. c \in Classes /\ ~Held(c) /\ demand' = demand /\ credits' = r /\ ahead' = ahead
      BY <1>6 DEF AcquireDry, Paced
    <2>2. /\ r \in [Classes -> Nat]
          /\ r[a] <= Weight[a]
          /\ ahead[a][b] + r[a] <= (IF r[b] > 0 THEN 2 * Weight[a] ELSE Weight[a])
      BY <1>0, <2>1, RefillShares
    <2> HIDE DEF r, c
    <2> QED BY <1>1, <2>1, <2>2
  <1>7. CASE demand' = demand /\ credits' = credits /\ ahead' = ahead
    BY <1>1, <1>7
  <1>8. \/ \E s \in Streams : DeclareDemand(s) \/ WithdrawDemand(s) \/ AcquireNow(s) \/ AcquireDry(s)
        \/ demand' = demand /\ credits' = credits /\ ahead' = ahead
    BY DEF Next, Sync, PushHead, Wake, EndBatch, Ask, ExpireHead, AcquireUnpaced,
           AcquireStarved, ClearQueue, SwitchPacing, Tick, vars, schedVars, streamVars
  <1>9. CASE \E s \in Streams : DeclareDemand(s)
    BY <1>1, <1>3, <1>9
  <1>10. CASE \E s \in Streams : WithdrawDemand(s)
    BY <1>1, <1>2, <1>4, <1>10
  <1> QED BY <1>5, <1>6, <1>7, <1>8, <1>9, <1>10

(* Weighted round robin shares a bucket: for any weights, classes and      *)
(* streams, no class is granted more than twice its weight while another   *)
(* that has demand waits for its own grant (discipline_holds, acquire).    *)
THEOREM ShareBoundHolds == Spec => []ShareBound
  <1>1. CASE Discipline = "WeightedRoundRobin"
    <2>1. SchedInv /\ Shares => ShareBound
      <3> SUFFICES ASSUME SchedInv, Shares, NEW a \in Classes, NEW b \in Classes
                   PROVE  ahead[a][b] <= 2 * Weight[a]
        BY DEF ShareBound
      <3>1. /\ Weight[a] \in Nat /\ credits[a] \in Nat /\ ahead[a][b] \in Nat
        BY SchedulerAssumption DEF SchedInv, TypeOK
      <3>2. ahead[a][b] + credits[a] <= (IF credits[b] > 0 THEN 2 * Weight[a] ELSE Weight[a])
        BY DEF Shares, Allowance
      <3> QED BY <3>1, <3>2
    <2>2. SchedInv /\ Shares /\ [Next]_vars => Shares'
      BY <1>1, SharesStep
    <2> QED BY <2>1, <2>2, SharesInit, InvHolds, PTL DEF Spec
  <1>2. CASE Discipline # "WeightedRoundRobin"
    <2>1. ShareBound
      BY <1>2 DEF ShareBound
    <2> QED BY <2>1, PTL
  <1> QED BY <1>1, <1>2

(* A refusal waits: the instant a refused head is armed for lies after the *)
(* clock reading that refused it, so the stream does not spin (park_head). *)
THEOREM RefusalWaitsHolds == Spec => RefusalWaits
  <1>1. SchedInv /\ [Next]_vars
          => [\A s \in Streams :
                (batch[s] # NotAsking /\ batch'[s] = NotAsking /\ head'[s] = head[s]
                    /\ head[s] # NoHead)
                => deadline'[s] > batch[s]]_vars
    <2> SUFFICES ASSUME SchedInv, Next, NEW s \in Streams,
                        batch[s] # NotAsking, batch'[s] = NotAsking,
                        head'[s] = head[s], head[s] # NoHead
                 PROVE  deadline'[s] > batch[s]
      OBVIOUS
    <2>0. TypeOK /\ Arms /\ batch[s] \in Nat /\ head[s] \in Units
          /\ head[s].due \in Nat /\ head[s].expires \in Nat /\ deadline[s] \in Nat
      BY HeadFacts DEF SchedInv, TypeOK
    <2>1. CASE EndBatch(s)
      <3>1. head[s].due > batch[s] /\ deadline' = deadline /\ head[s].due <= deadline[s]
        BY <2>0, <2>1 DEF EndBatch, Arms
      <3> QED BY <2>0, <3>1
    <2>2. CASE AcquireStarved(s)
      <3>1. Paced(s) /\ deadline' = [deadline EXCEPT ![s] = head[s].expires]
        BY <2>2 DEF AcquireStarved
      <3>2. batch[s] < head[s].expires
        BY <3>1, ChargedFacts
      <3> QED BY <2>0, <3>1, <3>2 DEF TypeOK
    <2>3. CASE AcquireDry(s)
      <3> DEFINE at == IF Charged(s).grant = "Later"
                       THEN LesserOf(Charged(s).at, head[s].expires) ELSE head[s].expires
      <3>1. Paced(s) /\ deadline' = [deadline EXCEPT ![s] = at]
        BY <2>3 DEF AcquireDry
      <3>2. /\ batch[s] < head[s].expires /\ Charged(s).at \in Nat
            /\ Charged(s).grant = "Later" => Charged(s).at > batch[s]
        BY <3>1, ChargedFacts
      <3>3. at > batch[s]
        BY <2>0, <3>2 DEF LesserOf
      <3> HIDE DEF at
      <3> QED BY <2>0, <3>1, <3>3 DEF TypeOK
    <2>4. CASE ClearQueue(s)
      BY <2>0, <2>4 DEF ClearQueue, Advance, TypeOK
    <2>5. EndBatch(s) \/ AcquireStarved(s) \/ AcquireDry(s) \/ ClearQueue(s)
      <3>1. batch'[s] # batch[s]
        OBVIOUS
      <3>2. \A t \in Streams :
               \/ Sync(t) \/ PushHead(t) \/ ExpireHead(t) \/ AcquireUnpaced(t) \/ AcquireNow(t)
               => batch' = batch
        BY DEF Sync, DeclareDemand, WithdrawDemand, PushHead, ExpireHead, AcquireUnpaced, AcquireNow
      <3>3. SwitchPacing \/ Tick => batch' = batch
        BY DEF SwitchPacing, Tick, streamVars
      <3>4. ASSUME NEW t \in Streams,
                   Wake(t) \/ EndBatch(t) \/ AcquireStarved(t) \/ AcquireDry(t) \/ ClearQueue(t)
            PROVE  t = s /\ ~Wake(t)
        BY <2>0, <3>1, <3>4 DEF Wake, EndBatch, AcquireStarved, AcquireDry, ClearQueue, TypeOK
      <3> QED BY <3>1, <3>2, <3>3, <3>4 DEF Next, Ask
    <2> QED BY <2>1, <2>2, <2>3, <2>4, <2>5
  <1> QED BY <1>1, InvHolds, PTL DEF Spec, RefusalWaits
=============================================================================
