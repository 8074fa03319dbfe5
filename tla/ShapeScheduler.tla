--------------------------- MODULE ShapeScheduler ---------------------------
(***************************************************************************)
(* One session's shaper (moqtap-proxy shape/scheduler.rs) and the stream   *)
(* queues that use it (the shaping half of PendingQueue in egress.rs).     *)
(* Every stream is a task of its own; each lock-protected call of the      *)
(* scheduler (acquire, declare_demand, withdraw_demand) is one atomic      *)
(* action, and everything between two calls interleaves.                   *)
(*                                                                         *)
(* A stream is represented by the unit at the head of its queue.  What     *)
(* stands behind it is chosen when the head leaves, so a queue of every    *)
(* content is covered.  A gate is "live" while it is the one stored in     *)
(* `parked' and "released" once a wake has taken it out and released it.   *)
(***************************************************************************)
EXTENDS TokenBucket, FiniteSets

CONSTANTS Streams,     \* the session's shaped data streams
          Classes,     \* Class::Rule(i): the profile's rules
          Other,       \* Class::Default and Class::Unshapeable: no bucket
          NoClass,     \* no head, or no demand declared
          BucketIds,   \* the profile's buckets
          BucketOf,    \* class_bucket
          Priority,    \* ClassRule::priority
          Weight,      \* ClassRule::weight
          Discipline,  \* Fifo, StrictPriority or WeightedRoundRobin
          Rate, Burst, \* per bucket: rate_bps and burst_bytes
          OnExpiry,    \* Deliver or ResetStream
          UnitBytes,   \* sizes of the objects
          Delays,      \* how far ahead a hook may defer a unit
          Ages,        \* how long a unit may have stood behind the head
          MaxHold,     \* the max_hold clamp
          MaxClock,    \* bound: the last instant
          FairStreams  \* the streams whose task runs and whose writes complete

ASSUME SchedulerAssumption ==
    /\ IsFiniteSet(Streams)
    /\ Other \notin Classes /\ NoClass \notin Classes \union {Other}
    /\ BucketOf \in [Classes -> BucketIds]
    /\ Priority \in [Classes -> Nat]
    /\ Weight \in [Classes -> Nat]
    /\ Discipline \in {"Fifo", "StrictPriority", "WeightedRoundRobin"}
    /\ Discipline = "WeightedRoundRobin" => \A c \in Classes : Weight[c] > 0
    /\ Rate \in [BucketIds -> Nat \union {Unlimited}]
    /\ Burst \in [BucketIds -> Nat]
    /\ OnExpiry \in {"Deliver", "ResetStream"}
    /\ UnitBytes \subseteq Nat
    /\ Delays \subseteq Nat /\ Ages \subseteq 0..MaxHold
    /\ MaxHold \in Nat \ {0}
    /\ MaxClock \in Nat
    /\ FairStreams \subseteq Streams

VARIABLES
  clock,
  enabled,    \* the proxy-wide pacing switch
  bucket,     \* SchedState.buckets
  demand,     \* SchedState.demand
  credits,    \* SchedState.credits
  parked,     \* SchedState.parked: whether the class has a gate stored
  head,       \* the unit at the front of each stream's queue
  declared,   \* PendingQueue.shape_demand
  gate,       \* PendingQueue.shape_gate: "none", "live" or "released"
  deadline,   \* PendingQueue.head_deadline
  batch,      \* the clock reading of the release batch in progress, or -1
  ahead       \* history: ahead[a][b], paced grants of a since b, having
              \* demand, was last granted

schedVars  == <<bucket, demand, credits, parked>>
streamVars == <<head, declared, gate, deadline, batch>>
vars == <<clock, enabled, schedVars, streamVars, ahead>>

AllClasses == Classes \union {Other}
NoHead     == [class |-> NoClass, bytes |-> 0, due |-> 0, expires |-> 0]
NotAsking  == -1
Units      == [class : AllClasses, bytes : UnitBytes, due : Nat, expires : Nat]

Wanted(s) == head[s].class             \* what sync_shape_demand wants declared
Synced(s) == declared[s] = Wanted(s)

-----------------------------------------------------------------------------
(* The discipline.                                                         *)

SameBucket(c) == {j \in Classes : BucketOf[j] = BucketOf[c]}
Rivals(c)     == {j \in SameBucket(c) \ {c} : demand[j] > 0}

Outranked(c) == \E j \in Rivals(c) : Priority[j] > Priority[c]

(* A faulty discipline, which ShareBound must catch: nobody waits for a    *)
(* rival that still has credit.                                            *)
NobodyOwes(c) == FALSE

OwesRound(c) == \E j \in Rivals(c) : credits[j] > 0

(* discipline_holds: whether the class has to wait for another. *)
Held(c) ==
    \/ Discipline = "StrictPriority" /\ Outranked(c)
    \/ Discipline = "WeightedRoundRobin" /\ credits[c] = 0 /\ OwesRound(c)

(* The round ends when a class with no credit asks and no rival has any.   *)
RoundOver(c) ==
    Discipline = "WeightedRoundRobin" /\ credits[c] = 0 /\ ~OwesRound(c)

Refilled(c) ==
    IF RoundOver(c)
    THEN [j \in Classes |-> IF j \in SameBucket(c) THEN Weight[j] ELSE credits[j]]
    ELSE credits

(* wake_bucket: take and release every gate parked on the bucket.          *)
WokenParked(b) == [c \in Classes |-> parked[c] /\ BucketOf[c] # b]
InBucket(c, b) == c \in Classes /\ BucketOf[c] = b
Woken(b) ==
    [s \in Streams |->
        IF gate[s] = "live" /\ InBucket(head[s].class, b) /\ parked[head[s].class]
        THEN "released" ELSE gate[s]]

-----------------------------------------------------------------------------
(* Demand: sync_shape_demand is two lock sections when the class changes.  *)

DeclareDemand(s) ==
    /\ declared[s] = NoClass
    /\ Wanted(s) # NoClass
    /\ declared' = [declared EXCEPT ![s] = Wanted(s)]
    /\ demand' = IF Wanted(s) \in Classes
                 THEN [demand EXCEPT ![Wanted(s)] = @ + 1] ELSE demand
    /\ UNCHANGED <<clock, enabled, bucket, credits, parked, head, gate,
                   deadline, batch, ahead>>

(* A faulty withdrawal, which NoMissedWake must catch: it wakes nobody. *)
SilentWithdraw(s) ==
    LET c == declared[s]
    IN  /\ c # NoClass /\ ~Synced(s)
        /\ declared' = [declared EXCEPT ![s] = NoClass]
        /\ demand' = IF c \in Classes THEN [demand EXCEPT ![c] = @ - 1] ELSE demand
        /\ UNCHANGED <<clock, enabled, bucket, credits, parked, head, gate,
                       deadline, batch, ahead>>

WithdrawDemand(s) ==
    LET c == declared[s]
    IN  /\ c # NoClass /\ ~Synced(s)
        /\ declared' = [declared EXCEPT ![s] = NoClass]
        /\ IF c \in Classes
           THEN /\ demand' = [demand EXCEPT ![c] = IF @ = 0 THEN 0 ELSE @ - 1]
                /\ parked' = WokenParked(BucketOf[c])
                /\ gate' = Woken(BucketOf[c])
                /\ ahead' = [a \in Classes |->
                               [ahead[a] EXCEPT ![c] = IF demand'[c] = 0 THEN 0 ELSE @]]
           ELSE UNCHANGED <<demand, parked, gate, ahead>>
        /\ UNCHANGED <<clock, enabled, bucket, credits, head, deadline, batch>>

-----------------------------------------------------------------------------
(* The head of a stream.                                                   *)

(* A unit that was pushed `age' ago: due at once or after what is left of  *)
(* a Delay, and clamped at max_hold from its push.                         *)
UnitsAged(ages) ==
    {u \in [class : AllClasses, bytes : UnitBytes,
            due : {clock + d : d \in Delays},
            expires : {clock + MaxHold - age : age \in ages}] :
        u.due <= MaxClock /\ u.expires <= MaxClock}

(* What may stand behind a leaving head: nothing, or a unit pushed before. *)
Behind == {NoHead} \union UnitsAged(Ages)

(* push onto an empty queue: the unit becomes the head and is armed. *)
PushHead(s) ==
    /\ head[s] = NoHead /\ Synced(s) /\ batch[s] = NotAsking
    /\ \E u \in UnitsAged({0}) :
          /\ head' = [head EXCEPT ![s] = u]
          /\ deadline' = [deadline EXCEPT ![s] = u.due]
    /\ UNCHANGED <<clock, enabled, schedVars, declared, gate, batch, ahead>>

(* wait_release resolves on the deadline or on the gate, and               *)
(* release_due_units reads the clock once for the whole batch.             *)
Wake(s) ==
    /\ head[s] # NoHead /\ Synced(s) /\ batch[s] = NotAsking
    /\ deadline[s] <= clock \/ gate[s] = "released"
    /\ batch' = [batch EXCEPT ![s] = clock]
    /\ UNCHANGED <<clock, enabled, schedVars, head, declared, gate, deadline, ahead>>

(* The batch ends at the first unit that is not due at its clock reading.  *)
EndBatch(s) ==
    /\ batch[s] # NotAsking /\ Synced(s)
    /\ head[s] = NoHead \/ head[s].due > batch[s]
    /\ batch' = [batch EXCEPT ![s] = NotAsking]
    /\ UNCHANGED <<clock, enabled, schedVars, head, declared, gate, deadline, ahead>>

Asking(s) == /\ batch[s] # NotAsking /\ Synced(s)
             /\ head[s] # NoHead /\ head[s].due <= batch[s]

(* A faulty clamp, which EveryHeadLeaves must catch: nothing expires. *)
NeverExpired(s) == FALSE

Expired(s) == batch[s] >= head[s].expires

(* The head leaves, the gate is forgotten, and the next head is armed; the *)
(* demand is brought up to date by the two actions above.                  *)
Advance(s, next) ==
    /\ head' = [head EXCEPT ![s] = next]
    /\ deadline' = [deadline EXCEPT ![s] = next.due]

(* expire_head: past the clamp the bucket and the discipline are not       *)
(* consulted.  Deliver releases the head; ResetStream replaces the whole   *)
(* queue by an untagged reset, which demands nothing.                      *)
ExpireHead(s) ==
    /\ Asking(s) /\ Expired(s)
    /\ \E next \in (IF OnExpiry = "Deliver" THEN Behind ELSE {NoHead}) : Advance(s, next)
    /\ gate' = [gate EXCEPT ![s] = "none"]
    /\ UNCHANGED <<clock, enabled, schedVars, declared, batch, ahead>>

(* acquire with pacing switched off, or for a class that names no bucket.  *)
AcquireUnpaced(s) ==
    /\ Asking(s) /\ ~Expired(s)
    /\ ~enabled \/ head[s].class = Other
    /\ \E next \in Behind : Advance(s, next)
    /\ gate' = [gate EXCEPT ![s] = "none"]
    /\ UNCHANGED <<clock, enabled, schedVars, declared, batch, ahead>>

Paced(s) == Asking(s) /\ ~Expired(s) /\ enabled /\ head[s].class \in Classes

(* acquire answers Starved: the head parks on its class's gate, with the   *)
(* clamp as its only deadline.                                             *)
AcquireStarved(s) ==
    LET c == head[s].class
    IN  /\ Paced(s) /\ Held(c)
        /\ parked' = [parked EXCEPT ![c] = TRUE]
        /\ gate' = [gate EXCEPT ![s] = "live"]
        /\ deadline' = [deadline EXCEPT ![s] = head[s].expires]
        /\ batch' = [batch EXCEPT ![s] = NotAsking]
        /\ UNCHANGED <<clock, enabled, bucket, demand, credits, head, declared,
                       ahead>>

(* The bucket is asked only once the discipline lets the class through.    *)
Charged(s) ==
    LET b == BucketOf[head[s].class]
    IN  Charge(bucket[b], Rate[b], Burst[b], head[s].bytes, batch[s])

(* A round that is over is refilled, and everyone parked on the bucket is  *)
(* woken, in the same lock section.                                        *)
StartRound(s) ==
    LET c == head[s].class
    IN  IF RoundOver(c)
        THEN /\ parked' = WokenParked(BucketOf[c])
             /\ gate' = [Woken(BucketOf[c]) EXCEPT ![s] = "none"]
        ELSE /\ parked' = parked
             /\ gate' = [gate EXCEPT ![s] = "none"]

AcquireNow(s) ==
    LET c == head[s].class
        wrr == Discipline = "WeightedRoundRobin"
    IN  /\ Paced(s) /\ ~Held(c) /\ Charged(s).grant = "Now"
        /\ bucket' = [bucket EXCEPT ![BucketOf[c]] = Charged(s).bucket]
        /\ credits' = IF wrr
                      THEN [Refilled(c) EXCEPT ![c] = IF @ = 0 THEN 0 ELSE @ - 1]
                      ELSE credits
        /\ StartRound(s)
        /\ ahead' = [a \in Classes |-> [x \in Classes |->
                        IF x = c \/ demand[x] = 0 THEN 0
                        ELSE IF wrr /\ a = c /\ x \in SameBucket(c)
                        THEN ahead[a][x] + 1 ELSE ahead[a][x]]]
        /\ \E next \in Behind : Advance(s, next)
        /\ UNCHANGED <<clock, enabled, demand, declared, batch>>

(* Two faulty refusals, which NeverOversleeps and RefusalWaits must catch: *)
(* the refill instant armed past the clamp, and the old deadline kept.     *)
ParkOn(s, at) ==
    /\ Paced(s) /\ ~Held(head[s].class) /\ Charged(s).grant # "Now"
    /\ bucket' = [bucket EXCEPT ![BucketOf[head[s].class]] = Charged(s).bucket]
    /\ credits' = Refilled(head[s].class)
    /\ StartRound(s)
    /\ deadline' = [deadline EXCEPT ![s] = at]
    /\ batch' = [batch EXCEPT ![s] = NotAsking]
    /\ UNCHANGED <<clock, enabled, demand, head, declared, ahead>>
UnclampedDry(s) == ParkOn(s, Charged(s).at)
SpinningDry(s)  == ParkOn(s, head[s].due)

(* acquire answers Later, Never or LargerThanBurst: the head parks until   *)
(* the bucket has refilled or, where no such instant exists, the clamp.    *)
AcquireDry(s) ==
    LET c == head[s].class
    IN  /\ Paced(s) /\ ~Held(c) /\ Charged(s).grant # "Now"
        /\ bucket' = [bucket EXCEPT ![BucketOf[c]] = Charged(s).bucket]
        /\ credits' = Refilled(c)
        /\ StartRound(s)
        /\ deadline' = [deadline EXCEPT ![s] =
              IF Charged(s).grant = "Later"
              THEN LesserOf(Charged(s).at, head[s].expires) ELSE head[s].expires]
        /\ batch' = [batch EXCEPT ![s] = NotAsking]
        /\ UNCHANGED <<clock, enabled, demand, head, declared, ahead>>

(* A faulty clear, which DemandExact must catch: the declaration is        *)
(* forgotten by the queue and kept by the scheduler.                       *)
LeakyClear(s) ==
    /\ head[s] # NoHead /\ Synced(s)
    /\ Advance(s, NoHead)
    /\ declared' = [declared EXCEPT ![s] = NoClass]
    /\ gate' = [gate EXCEPT ![s] = "none"]
    /\ batch' = [batch EXCEPT ![s] = NotAsking]
    /\ UNCHANGED <<clock, enabled, schedVars, ahead>>

(* clear, the teardown drain and Drop: the queue empties at any moment its *)
(* task is not inside a scheduler call.  A terminal leaves this way too:   *)
(* it is never paced, and what it leaves behind is cleared.                *)
ClearQueue(s) ==
    /\ head[s] # NoHead /\ Synced(s)
    /\ Advance(s, NoHead)
    /\ gate' = [gate EXCEPT ![s] = "none"]
    /\ batch' = [batch EXCEPT ![s] = NotAsking]
    /\ UNCHANGED <<clock, enabled, schedVars, declared, ahead>>

SwitchPacing ==
    /\ enabled' = ~enabled
    /\ UNCHANGED <<clock, schedVars, streamVars, ahead>>

Tick ==
    /\ clock < MaxClock
    /\ clock' = clock + 1
    /\ UNCHANGED <<enabled, schedVars, streamVars, ahead>>

-----------------------------------------------------------------------------
Init ==
    /\ clock = 0
    /\ enabled = TRUE
    /\ bucket = [b \in BucketIds |-> NewBucket(Burst[b], 0)]
    /\ demand = [c \in Classes |-> 0]
    /\ credits = Weight
    /\ parked = [c \in Classes |-> FALSE]
    /\ head = [s \in Streams |-> NoHead]
    /\ declared = [s \in Streams |-> NoClass]
    /\ gate = [s \in Streams |-> "none"]
    /\ deadline = [s \in Streams |-> 0]
    /\ batch = [s \in Streams |-> NotAsking]
    /\ ahead = [a \in Classes |-> [b \in Classes |-> 0]]

Ask(s) == \/ ExpireHead(s) \/ AcquireUnpaced(s) \/ AcquireStarved(s)
          \/ AcquireNow(s) \/ AcquireDry(s)

Sync(s) == DeclareDemand(s) \/ WithdrawDemand(s)

Next == \/ \E s \in Streams : \/ Sync(s) \/ PushHead(s) \/ Wake(s) \/ EndBatch(s)
                              \/ Ask(s) \/ ClearQueue(s)
        \/ SwitchPacing
        \/ Tick

Spec == Init /\ [][Next]_vars

(* Time passes, and a fair stream's own task is polled and its writes      *)
(* complete; nothing is assumed about the other streams.                   *)
FairSpec == /\ Spec
            /\ WF_vars(Tick)
            /\ \A s \in FairStreams :
                  /\ WF_vars(Sync(s)) /\ WF_vars(Wake(s))
                  /\ WF_vars(EndBatch(s)) /\ WF_vars(Ask(s))

-----------------------------------------------------------------------------
TypeOK ==
    /\ clock \in Nat
    /\ enabled \in BOOLEAN
    /\ bucket \in [BucketIds -> Buckets]
    /\ demand \in [Classes -> Nat]
    /\ credits \in [Classes -> Nat]
    /\ parked \in [Classes -> BOOLEAN]
    /\ head \in [Streams -> Units \union {NoHead}]
    /\ declared \in [Streams -> AllClasses \union {NoClass}]
    /\ gate \in [Streams -> {"none", "live", "released"}]
    /\ deadline \in [Streams -> Nat]
    /\ batch \in [Streams -> Nat \union {NotAsking}]
    /\ ahead \in [Classes -> [Classes -> Nat]]

(* The scheduler's demand is exactly the number of queues that declared    *)
(* each class: no path that retires a head leaks a declaration, and none   *)
(* withdraws one twice (declare_demand, withdraw_demand, Drop).            *)
DemandExact ==
    \A c \in Classes : demand[c] = Cardinality({s \in Streams : declared[s] = c})

(* A stream that waits on a gate nobody has released waits because of a    *)
(* rival that is really ahead of it at this moment: no wake was missed     *)
(* (discipline_holds, wake_bucket).                                        *)
NoMissedWake ==
    \A s \in Streams : gate[s] = "live" => Held(head[s].class)

(* The same, asked only when every stream is asleep, so that no step but   *)
(* the passing of time can help: a stream that sleeps on a live gate is    *)
(* still held back (the documented contract of SchedState.parked).         *)
AllAsleep == \A s \in Streams :
    /\ Synced(s) /\ batch[s] = NotAsking /\ gate[s] # "released"
    /\ head[s] # NoHead => deadline[s] > clock

NoStalledPark ==
    AllAsleep => \A s \in Streams : gate[s] = "live" => Held(head[s].class)

(* Weighted round robin: while class b has something to send, no class of  *)
(* its bucket is granted more than twice its weight before b's next grant. *)
ShareBound ==
    Discipline = "WeightedRoundRobin" =>
        \A a, b \in Classes : ahead[a][b] <= 2 * Weight[a]

(* A sleeping stream never oversleeps: its head is asked about again no    *)
(* later than its clamp, whatever refused it (park_head, arm_head).        *)
NeverOversleeps ==
    \A s \in Streams :
        head[s] # NoHead /\ batch[s] = NotAsking =>
            deadline[s] <= (IF head[s].due <= head[s].expires
                            THEN head[s].expires ELSE head[s].due)

(* A refusal is a wait and not a spin: the deadline armed by a refused     *)
(* head lies after the clock reading that refused it.                      *)
RefusalWaits ==
    [][\A s \in Streams :
         (batch[s] # NotAsking /\ batch'[s] = NotAsking /\ head'[s] = head[s]
             /\ head[s] # NoHead)
         => deadline'[s] > batch[s]]_vars

(* Starvation is late and not for ever: whatever the other streams do, a   *)
(* head leaves by its clamp, so a queue whose arrivals have stopped        *)
(* empties (shaping_grants_head, expire_head).                             *)
EveryHeadLeaves ==
    \A s \in FairStreams : head[s] # NoHead ~> head[s] = NoHead
=============================================================================
