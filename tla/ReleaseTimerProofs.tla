------------------------- MODULE ReleaseTimerProofs -------------------------
(***************************************************************************)
(* What the release wheel promises for any number of registrations, any    *)
(* SLICE and any sweep thresholds.  Neither invariant is inductive alone:  *)
(* Books says where a registration's slot is at each stage of its life,    *)
(* ThreadInv what the thread may rely on at each place it can be.          *)
(***************************************************************************)
EXTENDS ReleaseTimer, TLAPS

(* A slot exists from the push on, in one place until it is cancelled;     *)
(* what is popped is due, and nothing due before it is left behind.        *)
Books ==
  /\ \A r \in Regs : seq[r] <= counter
  /\ \A r \in Regs : reg[r] \in {"new", "checked"} => seq[r] = 0 /\ r \notin cancelled
  /\ \A r \in Regs : reg[r] = "new" => at[r] = 0
  /\ \A r \in heap \union fired : seq[r] > 0
  /\ \A r \in Regs : Alive(r) /\ seq[r] > 0 => r \in heap \/ r \in fired \/ r \in cancelled
  /\ \A r \in fired : at[r] <= now
  /\ \A r \in fired : \A q \in heap : seq[q] < seq[r] => at[r] < at[q]

(* The thread cancels before it scans again, holds the lock only while the *)
(* wheel is not being dropped, and sleeps one SLICE at most.               *)
ThreadInv ==
  /\ pc # "cancel" => fired = {}
  /\ Held => ~stopping
  /\ pc = "sleep" =>
       /\ until <= now + SLICE
       /\ \A r \in heap : until <= at[r] \/ until <= pushedAt[r] + SLICE

(* Every variable keeps its type, whichever registrar, thread or waker     *)
(* takes the step.                                                         *)
THEOREM TypeCorrect == Spec => []TypeOK
<1>1. Init => TypeOK
  BY DEF Init, TypeOK
<1>2. TypeOK /\ [Next]_vars => TypeOK'
  <2> SUFFICES ASSUME TypeOK, [Next]_vars PROVE TypeOK'
    OBVIOUS
  <2> USE WheelAssumption DEF TypeOK, regVars, slotVars, heapVars
  <2>1. CASE Tick
    BY <2>1 DEF Tick
  <2>2. ASSUME NEW r \in Regs, NEW t \in 0..Horizon, already_due(r, t) \/ ArmCheck(r, t)
        PROVE  TypeOK'
    BY <2>2 DEF already_due, ArmCheck
  <2>3. ASSUME NEW r \in Regs, NEW t \in 0..Horizon, CancelAndArm(r, t) PROVE TypeOK'
    BY <2>3 DEF CancelAndArm, CancelNext, Push
  <2>4. ASSUME NEW r \in Regs, Registrar(r) \/ Abandon(r) PROVE TypeOK'
    BY <2>4 DEF Registrar, ArmPush, ArmNotify, Abandon, Push, notify
  <2>5. CASE Collect
    BY <2>5 DEF Collect, Swept
  <2>6. CASE Cancel \/ CancelAndDrop
    BY <2>6 DEF Cancel, CancelAndDrop, CancelNext
  <2>7. CASE Plan
    BY <2>7 DEF Plan, Idle, Fire, Sleep
  <2>8. CASE SleepOver \/ SpuriousWake
    BY <2>8 DEF SleepOver, SpuriousWake, notify
  <2>9. CASE DropStop \/ DropNotify \/ DropJoined
    BY <2>9 DEF DropStop, DropNotify, DropJoined, notify
  <2>10. CASE UNCHANGED vars
    BY <2>10 DEF vars
  <2> QED
    BY <2>1, <2>2, <2>3, <2>4, <2>5, <2>6, <2>7, <2>8, <2>9, <2>10 DEF Next, Thread
<1> QED
  BY <1>1, <1>2, PTL DEF Spec

(* The notification that follows a push finds the thread off its waits, or *)
(* in a sleep that ends in time (arm, run).                                *)
LEMMA ParkInductive ==
  ASSUME TypeOK, Books, ThreadInv, NeverParkedPast, [Next]_vars
  PROVE  ThreadInv' /\ NeverParkedPast'
<1> USE WheelAssumption DEF ThreadInv, NeverParkedPast, ParkedPast, Held, Parked, stopping
<1> DEFINE Goal == ThreadInv' /\ NeverParkedPast'
<1>1. CASE Tick
  BY <1>1 DEF Tick, TypeOK, regVars, slotVars, heapVars
<1>2. ASSUME NEW r \in Regs, NEW t \in 0..Horizon, already_due(r, t) \/ ArmCheck(r, t) PROVE Goal
  <2>1. r \notin heap
    BY <1>2 DEF already_due, ArmCheck, Books, TypeOK
  <2>2. UNCHANGED <<now, slotVars, heap, fired, pc, until, owner>>
    BY <1>2 DEF already_due, ArmCheck, heapVars
  <2>3. \A q \in heap : at'[q] = at[q] /\ reg'[q] = reg[q]
    BY <1>2, <2>1 DEF already_due, ArmCheck, TypeOK
  <2> QED
    BY <2>2, <2>3 DEF slotVars
<1>3. ASSUME NEW r \in Regs, NEW t \in 0..Horizon, CancelAndArm(r, t) PROVE Goal
  BY <1>3 DEF CancelAndArm, CancelNext, Push, TypeOK
<1>4. ASSUME NEW r \in Regs, ArmPush(r) PROVE Goal
  <2>1. /\ heap' = heap \union {r} /\ reg'[r] = "pushed" /\ pushedAt'[r] = now
        /\ UNCHANGED <<now, at, fired, pc, until, owner>>
    BY <1>4 DEF ArmPush, Push, TypeOK
  <2>2. \A q \in heap \ {r} : pushedAt'[q] = pushedAt[q] /\ reg'[q] = reg[q]
    BY <1>4 DEF ArmPush, Push, TypeOK
  <2> QED
    BY <2>1, <2>2
<1>5. ASSUME NEW r \in Regs, ArmNotify(r) \/ Abandon(r) PROVE Goal
  <2>1. UNCHANGED <<now, at, pushedAt, heap, fired, owner>>
    BY <1>5 DEF ArmNotify, Abandon, slotVars, heapVars
  <2>2. CASE pc' = "lock"
    <3>1. pc # "cancel"
      BY <1>5, <2>2 DEF ArmNotify, Abandon, notify
    <3> QED
      BY <2>1, <2>2, <3>1
  <2>3. CASE pc' # "lock"
    <3>1. UNCHANGED <<pc, until>>
      BY <1>5, <2>3 DEF ArmNotify, Abandon, notify
    <3>2. pc \in {"idle", "timedwait"} => \A q \in heap : reg'[q] # "pushed" => reg[q] # "pushed"
      BY <1>5, <2>3 DEF ArmNotify, Abandon, notify, TypeOK
    <3>3. ThreadInv'
      BY <2>1, <3>1
    <3>4. NeverParkedPast'
      BY <2>1, <3>1, <3>2 DEF TypeOK
    <3> QED
      BY <3>3, <3>4
  <2> QED
    BY <2>2, <2>3
<1>6. CASE Collect
  BY <1>6 DEF Collect, TypeOK
<1>7. CASE Cancel \/ CancelAndDrop
  BY <1>7 DEF Cancel, CancelAndDrop, CancelNext, heapVars, TypeOK
<1>8. CASE Plan
  BY <1>8 DEF Plan, Idle, Fire, Sleep, NextAt, TypeOK, regVars, slotVars, heapVars
<1>9. CASE SleepOver \/ SpuriousWake
  BY <1>9 DEF SleepOver, SpuriousWake, notify, regVars, slotVars, heapVars
<1>10. CASE DropStop \/ DropNotify \/ DropJoined
  BY <1>10 DEF DropStop, DropNotify, DropJoined, notify, regVars, slotVars, heapVars
<1>11. CASE UNCHANGED vars
  BY <1>11 DEF vars
<1> QED
  BY <1>1, <1>2, <1>3, <1>4, <1>5, <1>6, <1>7, <1>8, <1>9, <1>10, <1>11
     DEF Next, Thread, Registrar

(* A slot moves from the heap to the popped set to the cancelled one, and  *)
(* a sweep removes only what nobody wants (run, steps 1 to 3).             *)
LEMMA BooksInductive ==
  ASSUME TypeOK, Books, ThreadInv, ReleasedInOrder, [Next]_vars
  PROVE  Books' /\ ReleasedInOrder'
<1> USE WheelAssumption DEF Books, ReleasedInOrder, Alive
<1> DEFINE Goal == Books' /\ ReleasedInOrder'
<1>1. CASE Tick
  BY <1>1 DEF Tick, TypeOK, regVars, slotVars, heapVars
<1>2. ASSUME NEW r \in Regs, NEW t \in 0..Horizon, already_due(r, t) \/ ArmCheck(r, t) PROVE Goal
  <2>1. /\ r \notin heap /\ r \notin fired /\ seq[r] = 0 /\ r \notin cancelled
        /\ UNCHANGED <<now, counter, seq, heap, fired>>
    BY <1>2 DEF already_due, ArmCheck, TypeOK, slotVars, heapVars
  <2>2. /\ \A q \in Regs \ {r} : at'[q] = at[q] /\ reg'[q] = reg[q]
        /\ reg'[r] \in {"checked", "armed"}
    BY <1>2 DEF already_due, ArmCheck, TypeOK
  <2>3. \/ cancelled' = cancelled /\ reg'[r] = "checked"
        \/ cancelled' = cancelled \union {r} /\ reg'[r] = "armed" /\ at' = at
    BY <1>2 DEF already_due, ArmCheck, TypeOK
  <2>4. at[r] <= now
    BY <1>2 DEF already_due, ArmCheck, TypeOK
  <2>5. Books'
    BY <2>1, <2>2, <2>3 DEF TypeOK
  <2>6. ReleasedInOrder'
    BY <2>1, <2>2, <2>3, <2>4 DEF TypeOK
  <2> QED
    BY <2>5, <2>6
<1>3. ASSUME NEW r \in Regs, ArmPush(r) PROVE Goal
  <2>1. /\ heap' = heap \union {r} /\ seq[r] = 0 /\ seq'[r] = counter + 1
        /\ r \notin cancelled /\ r \notin fired
        /\ counter' = counter + 1 /\ reg'[r] = "pushed"
        /\ UNCHANGED <<now, at, fired, cancelled>>
    BY <1>3 DEF ArmPush, Push, TypeOK
  <2>2. \A q \in Regs \ {r} : seq'[q] = seq[q] /\ reg'[q] = reg[q]
    BY <1>3 DEF ArmPush, Push, TypeOK
  <2> QED
    BY <2>1, <2>2 DEF TypeOK
<1>4. ASSUME NEW r \in Regs, ArmNotify(r) \/ Abandon(r) PROVE Goal
  <2>1. UNCHANGED <<now, at, counter, seq, heap, fired, cancelled>>
    BY <1>4 DEF ArmNotify, Abandon, slotVars, heapVars
  <2>2. \A q \in Regs : /\ reg'[q] \in {"new", "checked"} => reg'[q] = reg[q]
                        /\ reg'[q] # "dropped" => reg[q] # "dropped"
    BY <1>4 DEF ArmNotify, Abandon, TypeOK
  <2> QED
    BY <2>1, <2>2 DEF TypeOK
<1>5. CASE Collect
  <2>1. UNCHANGED <<now, reg, at, counter, seq, cancelled>>
    BY <1>5 DEF Collect, regVars, slotVars
  <2>2. CASE UNCHANGED <<heap, fired>>
    BY <2>1, <2>2 DEF TypeOK
  <2>3. CASE ~stopping
    <3>1. fired = {}
      BY <1>5 DEF Collect, ThreadInv
    <3>2. /\ fired' = { r \in heap : at[r] <= now /\ reg[r] # "dropped" }
          /\ heap' \subseteq { r \in heap : at[r] > now }
          /\ \A r \in heap : at[r] > now /\ reg[r] # "dropped" => r \in heap'
      BY <1>5, <2>3 DEF Collect, Swept, TypeOK
    <3>3. ReleasedInOrder'
      BY <2>1
    <3>4. Books'
      BY <2>1, <3>1, <3>2 DEF TypeOK
    <3> QED
      BY <3>3, <3>4
  <2> QED
    BY <1>5, <2>2, <2>3 DEF Collect, heapVars
<1>6. ASSUME CancelNext, UNCHANGED <<now, reg, at, counter, seq, heap>> PROVE Goal
  <2>1. PICK r \in fired : /\ PoppedFirst(r) /\ cancelled' = cancelled \union {r}
                           /\ fired' = fired \ {r}
    BY <1>6 DEF CancelNext
  <2>2. \A q \in Regs : 0 < seq[q] /\ seq[q] < seq[r] /\ at[q] <= at[r] /\ Alive(q)
                         => q \in cancelled
    BY <2>1 DEF PoppedFirst, Before, TypeOK
  <2>3. Books'
    BY <1>6, <2>1 DEF TypeOK
  <2>4. ReleasedInOrder'
    BY <1>6, <2>1, <2>2 DEF TypeOK
  <2> QED
    BY <2>3, <2>4
<1>7. CASE Cancel \/ CancelAndDrop
  BY <1>6, <1>7 DEF Cancel, CancelAndDrop, regVars, slotVars, heapVars
<1>8. CASE Plan \/ SleepOver \/ SpuriousWake \/ DropStop \/ DropNotify \/ DropJoined \/ UNCHANGED vars
  <2>1. UNCHANGED <<now, reg, at, counter, seq, heap, fired, cancelled>>
    BY <1>8 DEF Plan, SleepOver, SpuriousWake, DropStop, DropNotify, DropJoined, vars,
                regVars, slotVars, heapVars
  <2> QED
    BY <2>1
<1>9. ASSUME NEW r \in Regs, NEW t \in 0..Horizon, CancelAndArm(r, t) PROVE Goal
  <2>1. PICK c \in fired : /\ PoppedFirst(c) /\ cancelled' = cancelled \union {c}
                           /\ fired' = fired \ {c}
    BY <1>9 DEF CancelAndArm, CancelNext
  <2>2. \A q \in Regs : 0 < seq[q] /\ seq[q] < seq[c] /\ at[q] <= at[c] /\ Alive(q)
                         => q \in cancelled
    BY <2>1 DEF PoppedFirst, Before, TypeOK
  <2>3. /\ heap' = heap \union {r} /\ seq[r] = 0 /\ seq'[r] = counter + 1
        /\ r \notin cancelled /\ r \notin fired /\ at'[r] > now
        /\ counter' = counter + 1 /\ reg'[r] = "armed" /\ now' = now
    BY <1>9 DEF CancelAndArm, Push, TypeOK
  <2>4. \A q \in Regs \ {r} : seq'[q] = seq[q] /\ reg'[q] = reg[q] /\ at'[q] = at[q]
    BY <1>9 DEF CancelAndArm, Push, TypeOK
  <2>5. Books'
    BY <2>1, <2>3, <2>4 DEF TypeOK
  <2>6. ReleasedInOrder'
    BY <2>1, <2>2, <2>3, <2>4 DEF TypeOK
  <2> QED
    BY <2>5, <2>6
<1> QED
  BY <1>1, <1>2, <1>3, <1>4, <1>5, <1>7, <1>8, <1>9 DEF Next, Thread, Registrar

(* The invariants together, from the first step on.                        *)
LEMMA WheelInvHolds == Spec => [](Books /\ ThreadInv /\ NeverParkedPast /\ ReleasedInOrder)
<1> DEFINE Inv == Books /\ ThreadInv /\ NeverParkedPast /\ ReleasedInOrder
<1>1. Init => Inv
  BY DEF Init, Books, ThreadInv, NeverParkedPast, ReleasedInOrder, Held, Parked, stopping
<1>2. TypeOK /\ Inv /\ [Next]_vars => Inv'
  BY ParkInductive, BooksInductive
<1> QED
  BY <1>1, <1>2, TypeCorrect, PTL DEF Spec

(* No wake-up is lost, and no armed deadline is slept past by more than    *)
(* one SLICE, for any number of registrars (arm, run, Drop).               *)
THEOREM NeverParkedPastHolds == Spec => []NeverParkedPast
  BY WheelInvHolds, PTL

(* Tokens are cancelled when due and in (at, seq) order, whatever is armed,*)
(* abandoned, swept or re-armed from a waker meanwhile (Slot, run).        *)
THEOREM ReleasedInOrderHolds == Spec => []ReleasedInOrder
  BY WheelInvHolds, PTL
=============================================================================
