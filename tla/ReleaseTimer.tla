---------------------------- MODULE ReleaseTimer ----------------------------
(***************************************************************************)
(* The release wheel of the proxy: one thread, one heap of deadlines, one  *)
(* CancellationToken per deadline.  Registrars arm deadlines and drop      *)
(* them; the owner may drop the wheel, from its own thread or from a waker *)
(* that runs on the release thread.                                        *)
(*                                                                         *)
(* The mutex is not a variable.  A registrar's critical section is one     *)
(* step.  The thread holds the lock between the heap scan and the wait     *)
(* (pc "plan" or "again"), and no other critical section runs then.        *)
(***************************************************************************)
EXTENDS Naturals, FiniteSets

CONSTANTS Regs,           \* bound: the calls to arm
          Horizon,        \* bound: the last instant
          SLICE, SWEEP_MIN_LEN, SWEEP_INTERVAL,
          Parkers         \* the backends the environment may select

ASSUME WheelAssumption ==
    /\ Horizon \in Nat /\ SLICE \in Nat \ {0}
    /\ SWEEP_MIN_LEN \in Nat /\ SWEEP_INTERVAL \in Nat
    /\ Parkers \subseteq {"SleepSlice", "Condvar"} /\ Parkers # {}

VARIABLES now,
          parker,
          reg,         \* reg[r]: how far the call to arm has come, and the Deadline
          at,          \* at[r]: the instant asked for
          counter,     \* registrations so far
          seq,         \* seq[r]: the place in registration order; 0: not pushed
          pushedAt,    \* history: when r was pushed
          cancelled,   \* registrations whose token is cancelled
          heap,        \* registrations with a slot in the heap
          last_sweep,
          fired,       \* what the thread has popped and not yet cancelled
          pc,          \* where the release thread is
          until,       \* the end of its timed wait
          owner        \* where the wheel's owner is in Drop

vars == <<now, parker, reg, at, counter, seq, pushedAt, cancelled, heap, last_sweep, fired,
          pc, until, owner>>

slotVars == <<counter, seq, pushedAt>>
regVars  == <<reg, at, slotVars>>
heapVars == <<heap, last_sweep>>

Init ==
  /\ now = 0 /\ parker \in Parkers
  /\ reg = [r \in Regs |-> "new"]
  /\ at = [r \in Regs |-> 0]
  /\ counter = 0 /\ seq = [r \in Regs |-> 0]
  /\ pushedAt = [r \in Regs |-> 0]
  /\ cancelled = {} /\ heap = {} /\ last_sweep = 0 /\ fired = {}
  /\ pc = "lock" /\ until = 0
  /\ owner = "holds"

(* The flag Drop sets under the lock.                                      *)
stopping == owner # "holds"

Held   == pc \in {"plan", "again"}
Parked == pc \in {"idle", "timedwait"}

Tick ==
  /\ now < Horizon /\ now' = now + 1
  /\ UNCHANGED <<parker, regVars, cancelled, heapVars, fired, pc, until, owner>>

-----------------------------------------------------------------------------
(* Registrars *)

(* notify_one, notify_all: only the release thread ever waits.             *)
notify == /\ pc' = IF Parked THEN "lock" ELSE pc
          /\ until' = IF Parked THEN 0 ELSE until

(* An instant that has passed is due already and never meets the wheel.    *)
already_due(r, t) ==
  /\ owner = "holds" /\ reg[r] = "new" /\ t <= now
  /\ reg' = [reg EXCEPT ![r] = "armed"]
  /\ cancelled' = cancelled \union {r}
  /\ UNCHANGED <<now, parker, at, slotVars, heapVars, fired, pc, until, owner>>

(* arm, in its three parts: the look at the clock, the push under the      *)
(* lock, and the notification after it.                                    *)
ArmCheck(r, t) ==
  /\ owner = "holds" /\ reg[r] = "new" /\ t > now
  /\ reg' = [reg EXCEPT ![r] = "checked"] /\ at' = [at EXCEPT ![r] = t]
  /\ UNCHANGED <<now, parker, slotVars, cancelled, heapVars, fired, pc, until, owner>>

Push(r) ==
  /\ counter' = counter + 1 /\ seq' = [seq EXCEPT ![r] = counter + 1]
  /\ heap' = heap \union {r}
  /\ pushedAt' = [pushedAt EXCEPT ![r] = now]

ArmPush(r) ==
  /\ reg[r] = "checked" /\ ~Held
  /\ reg' = [reg EXCEPT ![r] = "pushed"] /\ Push(r)
  /\ UNCHANGED <<now, parker, at, cancelled, last_sweep, fired, pc, until, owner>>

(* Faulty variant: the registrar leaves it to the thread to notice. *)
SilentArm(r) ==
  /\ reg[r] = "pushed" /\ reg' = [reg EXCEPT ![r] = "armed"]
  /\ UNCHANGED <<now, parker, at, slotVars, cancelled, heapVars, fired, pc, until, owner>>

ArmNotify(r) ==
  /\ reg[r] = "pushed" /\ reg' = [reg EXCEPT ![r] = "armed"] /\ notify
  /\ UNCHANGED <<now, parker, at, slotVars, cancelled, heapVars, fired, owner>>

(* The last clone of the Deadline goes: its slot stays in the heap.        *)
Abandon(r) ==
  /\ reg[r] = "armed" /\ reg' = [reg EXCEPT ![r] = "dropped"]
  /\ UNCHANGED <<now, parker, at, slotVars, cancelled, heapVars, fired, pc, until, owner>>

-----------------------------------------------------------------------------
(* The release thread *)

(* Slot's order: the earlier instant, then the earlier registration.       *)
Before(r, q) == at[r] < at[q] \/ (at[r] = at[q] /\ seq[r] < seq[q])

(* Faulty variant: the heap is a max-heap. *)
PoppedLast(r) == \A q \in fired \ {r} : Before(q, r)

PoppedFirst(r) == \A q \in fired \ {r} : Before(r, q)

Alive(r) == reg[r] # "dropped"

(* Faulty variant: the sweep drops what nobody has collected yet. *)
SweepAll(rest) == {}

Swept(rest) == { r \in rest : Alive(r) }

SweepDue(rest) ==
  Cardinality(rest) > SWEEP_MIN_LEN /\ now - last_sweep >= SWEEP_INTERVAL

(* The first half of an iteration, to the point where the lock is given up *)
(* or the wait is planned: what is due leaves the heap, and what of it is  *)
(* still wanted is to be cancelled.                                        *)
Collect ==
  /\ pc \in {"lock", "again"}
  /\ \/ stopping /\ pc' = "returned" /\ UNCHANGED <<heapVars, fired>>
     \/ /\ ~stopping
        /\ LET due  == { r \in heap : at[r] <= now }
               rest == heap \ due
           IN  /\ fired' = { r \in due : Alive(r) }
               /\ heap' = IF SweepDue(rest) THEN Swept(rest) ELSE rest
               /\ last_sweep' = IF SweepDue(rest) THEN now ELSE last_sweep
        /\ pc' = IF fired' = {} THEN "plan" ELSE "cancel"
  /\ UNCHANGED <<now, parker, regVars, cancelled, until, owner>>

(* Cancelling a token runs its wakers here, on this thread, without the    *)
(* lock.                                                                   *)
CancelNext ==
  /\ pc = "cancel"
  /\ \E r \in fired :
       /\ PoppedFirst(r)
       /\ cancelled' = cancelled \union {r}
       /\ fired' = fired \ {r}
  /\ pc' = IF fired' = {} THEN "lock" ELSE pc

Cancel ==
  /\ CancelNext
  /\ UNCHANGED <<now, parker, regVars, heapVars, until, owner>>

(* A waker that arms again.                                                *)
CancelAndArm(r, t) ==
  /\ CancelNext
  /\ owner = "holds" /\ reg[r] = "new" /\ t > now
  /\ reg' = [reg EXCEPT ![r] = "armed"] /\ at' = [at EXCEPT ![r] = t]
  /\ Push(r)
  /\ UNCHANGED <<now, parker, last_sweep, until, owner>>

Sole == \A r \in Regs : reg[r] \notin {"checked", "pushed"}

(* Faulty variant: the thread joins itself. *)
JoinsItself ==
  /\ pc = "cancel" /\ owner = "holds" /\ Sole
  /\ pc' = "self_join" /\ owner' = "joining"
  /\ UNCHANGED <<now, parker, regVars, cancelled, heapVars, fired, until>>

(* A waker that drops the last handle to the wheel: Drop runs on the       *)
(* thread it would join, and detaches instead.                             *)
CancelAndDrop ==
  /\ CancelNext
  /\ owner = "holds" /\ Sole
  /\ owner' = "gone"
  /\ UNCHANGED <<now, parker, regVars, heapVars, until>>

(* What plan waits for: the instant of the head of the heap.               *)
NextAt(t) == \A r \in heap : t <= at[r]

(* plan, on a fresh look at the clock, with the lock still held.           *)
Fire(t) == t <= now /\ pc' = "again" /\ UNCHANGED until
Idle    == heap = {} /\ pc' = "idle" /\ UNCHANGED until
Sleep(t) ==
  /\ t > now
  /\ \/ /\ parker = "SleepSlice" /\ pc' = "sleep"
        /\ until' = IF t - now <= SLICE THEN t ELSE now + SLICE
     \/ parker = "Condvar" /\ pc' = "timedwait" /\ until' = t

Plan ==
  /\ pc = "plan"
  /\ Idle \/ \E t \in { at[r] : r \in heap } : NextAt(t) /\ (Fire(t) \/ Sleep(t))
  /\ UNCHANGED <<now, parker, regVars, cancelled, heapVars, fired, owner>>

(* The end of a timed wait; an untimed one may also end for no reason.     *)
SleepOver ==
  /\ pc \in {"sleep", "timedwait"} /\ now >= until
  /\ pc' = "lock" /\ until' = 0
  /\ UNCHANGED <<now, parker, regVars, cancelled, heapVars, fired, owner>>

SpuriousWake ==
  /\ Parked /\ notify
  /\ UNCHANGED <<now, parker, regVars, cancelled, heapVars, fired, owner>>

-----------------------------------------------------------------------------
(* Drop, on another thread: the flag, the notification, the join.          *)

DropStop ==
  /\ owner = "holds" /\ Sole /\ ~Held
  /\ owner' = "stopping"
  /\ UNCHANGED <<now, parker, regVars, cancelled, heapVars, fired, pc, until>>

DropNotify ==
  /\ owner = "stopping" /\ owner' = "joining" /\ notify
  /\ UNCHANGED <<now, parker, regVars, cancelled, heapVars, fired>>

DropJoined ==
  /\ owner = "joining" /\ pc = "returned" /\ owner' = "gone"
  /\ UNCHANGED <<now, parker, regVars, cancelled, heapVars, fired, pc, until>>

-----------------------------------------------------------------------------
Registrar(r) == ArmPush(r) \/ ArmNotify(r)
Thread == Collect \/ Cancel \/ Plan \/ SleepOver

Next ==
  \/ Tick
  \/ \E r \in Regs, t \in 0..Horizon : already_due(r, t) \/ ArmCheck(r, t) \/ CancelAndArm(r, t)
  \/ \E r \in Regs : Registrar(r) \/ Abandon(r)
  \/ Thread \/ CancelAndDrop \/ SpuriousWake
  \/ DropStop \/ DropNotify \/ DropJoined

Spec == Init /\ [][Next]_vars

(* Time passes, the threads of the process are scheduled, and a call once  *)
(* begun is carried to its end.                                            *)
Fairness ==
  /\ WF_vars(Tick) /\ WF_vars(Thread)
  /\ \A r \in Regs : WF_vars(Registrar(r))
  /\ WF_vars(DropNotify) /\ WF_vars(DropJoined)

FairSpec == Spec /\ Fairness

-----------------------------------------------------------------------------
(* Properties *)

(* Every variable stays in its range.                                      *)
TypeOK ==
  /\ now \in Nat /\ parker \in Parkers
  /\ reg \in [Regs -> {"new", "checked", "pushed", "armed", "dropped"}]
  /\ at \in [Regs -> Nat] /\ pushedAt \in [Regs -> Nat]
  /\ counter \in Nat /\ seq \in [Regs -> Nat]
  /\ cancelled \in SUBSET Regs /\ heap \in SUBSET Regs /\ last_sweep \in Nat /\ fired \in SUBSET Regs
  /\ pc \in {"lock", "again", "plan", "cancel", "idle", "sleep", "timedwait", "returned"}
  /\ until \in Nat /\ owner \in {"holds", "stopping", "joining", "gone"}

(* Once arm has returned, the thread is never parked past the deadline: it *)
(* is not on the untimed wait, its timed wait ends by then, and its sleep  *)
(* ends by then or within one SLICE of the registration.  Nor does it park *)
(* under an owner that waits to join it.  No order of pushes, scans and    *)
(* notifications loses a wake-up (run, step 4).                            *)
ParkedPast(r) ==
  \/ pc = "idle"
  \/ pc = "timedwait" /\ until > at[r]
  \/ pc = "sleep" /\ until > at[r] /\ until > pushedAt[r] + SLICE

NeverParkedPast ==
  /\ \A r \in heap : reg[r] # "pushed" => ~ParkedPast(r)
  /\ Parked /\ stopping => owner = "stopping"

(* A token is cancelled at its instant or later, and never while a         *)
(* deadline that was registered before it, is due no later and is still    *)
(* wanted has not been released.                                           *)
ReleasedInOrder ==
  \A r \in Regs : r \in cancelled =>
    /\ at[r] <= now
    /\ \A q \in Regs : /\ 0 < seq[q] /\ seq[q] < seq[r]
                       /\ at[q] <= at[r] /\ Alive(q)
                       => q \in cancelled

(* A deadline somebody still holds is released, unless the wheel is        *)
(* dropped first: neither the sweep nor an abandoned slot takes it along.  *)
EveryDeadlineFires ==
  \A r \in Regs : reg[r] = "armed" ~> r \in cancelled \/ reg[r] = "dropped" \/ stopping

(* Dropping the wheel returns, and its thread ends, whichever thread drops *)
(* it and whatever is armed.                                               *)
DropReturns == stopping ~> owner = "gone" /\ pc = "returned"
=============================================================================
